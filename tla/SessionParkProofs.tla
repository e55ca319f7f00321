------------------------- MODULE SessionParkProofs -------------------------
(***************************************************************************)
(* What TLAPS proves about SessionPark, for every set of connections and   *)
(* every limit.                                                            *)
(***************************************************************************)
EXTENDS SessionPark, FiniteSetTheorems, TLAPS

----------------------------------------------------------------------------
(* Lemmas *)

\* A step of the gateway is one of its actions.  The events of a WebSocket wait for the
\* continuations that are ready.
LEMMA Steps ==
    ASSUME [Next]_vars
    PROVE  \/ \E c \in Conn :
                \/ Refuse(c) \/ ConnectDirectory(c) \/ OtherRequest(c)
                \/ LoginRefused(c) \/ LoginServerFull(c) \/ LoginEvict(c) \/ LoginCleanup(c)
                \/ SelectCompany(c) \/ SwitchCompany(c) \/ ResumeSession(c)
                \/ LoginUnknownWorld(c) \/ LoginWorld(c)
           \/ /\ Settled
              /\ \E c \in Conn :
                    \/ AccountStatus(c) \/ LogonOk(c) \/ LogonFail(c)
                    \/ SelectOk(c) \/ SwitchOk(c) \/ CompanyFails(c)
                    \/ OtherDone(c) \/ LogoutDone(c)
                    \/ CloseSuperseded(c) \/ ClosePark(c) \/ CloseEnd(c)
                    \/ Accept(c) \/ CloseByGuard(c)
                    \/ \E m \in Message : Receive(c, m)
           \/ \E s \in Conn : Expire(s) \/ TeardownDone(s) \/ WorldLost(s) \/ WorldBack(s)
           \/ Settled /\ Drain
           \/ UNCHANGED vars
BY Zenon DEF Next, Microtask, LoginStep, Macrotask, Reply, Browser, Close

\* Giving slots back never takes a count out of its range.
LEMMA ReleaseSlotsType ==
    ASSUME TypeOK, NEW n \in [Ip -> Nat]
    PROVE  ReleaseSlots(n) \in [Ip -> 0..MaxPerIp]
BY SessionParkAssumption DEF TypeOK, ReleaseSlots

LEMMA ReleaseSlotType ==
    ASSUME TypeOK, NEW ip
    PROVE  ReleaseSlot(ip) \in [Ip -> 0..MaxPerIp]
<1> DEFINE n == [i \in Ip |-> IF i = ip THEN 1 ELSE 0]
<1>1. n \in [Ip -> Nat]
  OBVIOUS
<1> QED
  BY <1>1, ReleaseSlotsType DEF ReleaseSlot

LEMMA ReleaseParksType ==
    ASSUME TypeOK, NEW S \in SUBSET Conn
    PROVE  ReleaseParks(S) \in [Ip -> 0..MaxPerIp]
<1> DEFINE T(i) == {s \in S : IsParked(s) /\ entries[s].ip = i}
<1>1. \A i \in Ip : Cardinality(T(i)) \in Nat
  BY FS_Subset, FS_CardinalityType, SessionParkAssumption
<1>2. [i \in Ip |-> Cardinality(T(i))] \in [Ip -> Nat]
  BY <1>1
<1> QED
  BY <1>2, ReleaseSlotsType DEF ReleaseParks

\* Serving the next message of a lane.
LEMMA DequeueType ==
    ASSUME TypeOK, NEW c \in Conn, NEW type, Dequeue(c, type)
    PROVE  /\ rdoQueue' \in [Conn -> Seq(Message)]
           /\ processed' \in [Conn -> BOOLEAN]
           /\ logoutRequested' \in [Conn -> BOOLEAN]
           /\ Head(rdoQueue[c]) \in Message
<1>1. rdoQueue[c] \in Seq(Message) /\ rdoQueue[c] # <<>>
  BY DEF TypeOK, Dequeue
<1>2. Head(rdoQueue[c]) \in Message /\ Tail(rdoQueue[c]) \in Seq(Message)
  BY <1>1
<1> QED
  BY <1>2 DEF TypeOK, Dequeue

\* The fields of a login and of a resume.
LEMMA MessageFields ==
    ASSUME NEW m \in Message
    PROVE  /\ m.type = "LOGIN_WORLD" => m.user \in User
           /\ m.type = "RESUME_SESSION" => m.user \in User /\ m.token \in Token
BY DEF Message

\* A handler suspended or done.
LEMMA RunningType ==
    ASSUME TypeOK, NEW c \in Conn,
           NEW where \in {"other", "logout", "evicting", "cleaning", "connecting", "logon",
                          "select", "switch"},
           NEW user \in User \cup {Null}, NEW wait \in SUBSET Conn,
           Suspend(c, where, user, wait) \/ Return(c)
    PROVE  running' \in [Conn -> Handler]
<1>1. At(where, user, wait) \in Handler /\ Idle \in Handler
  BY DEF At, Idle, Handler
<1> QED
  BY <1>1 DEF TypeOK, Suspend, Return

\* What the running handler remembers.
LEMMA HandlerFields ==
    ASSUME TypeOK, NEW c \in Conn
    PROVE  /\ handle[c] \in Conn
           /\ view[handle[c]] \in User \cup {Null}
           /\ loginUser[handle[c]] \in User \cup {Null}
           /\ running[c].user \in User \cup {Null}
           /\ running[c].wait \in SUBSET Conn
BY DEF TypeOK, Handler

\* The end of a company request.
LEMMA WorldEnteredType ==
    ASSUME TypeOK, NEW s \in Conn, NEW c \in Conn, WorldEntered(s, c)
    PROVE  /\ entries' \in [Conn -> ResumeEntry \cup {Null}]
           /\ nextToken' \in Nat /\ delivered' \in SUBSET Nat /\ claimed' \in SUBSET Nat
<1>1. CASE loginUser[s] # Null /\ phase'[s] = "WORLD_CONNECTED"
  <2>1. nextToken' \in Nat /\ delivered' \in SUBSET Nat /\ claimed' \in SUBSET Nat
    BY <1>1 DEF WorldEntered, TypeOK
  <2>2. [key |-> loginUser[s], token |-> nextToken + 1, ip |-> Null] \in ResumeEntry
    BY <1>1 DEF TypeOK, ResumeEntry
  <2>3. entries[s] # Null => [entries[s] EXCEPT !.token = nextToken + 1] \in ResumeEntry
    <3>1. entries[s] # Null => entries[s] \in ResumeEntry
      BY DEF TypeOK
    <3>2. nextToken + 1 \in Nat
      BY DEF TypeOK
    <3> QED
      BY <3>1, <3>2 DEF ResumeEntry
  <2> QED
    BY <1>1, <2>1, <2>2, <2>3 DEF WorldEntered, TypeOK
<1>2. CASE ~(loginUser[s] # Null /\ phase'[s] = "WORLD_CONNECTED")
  BY <1>2 DEF WorldEntered, TypeOK, tokenVars
<1> QED
  BY <1>1, <1>2

----------------------------------------------------------------------------
(* Types *)

\* Every variable keeps its type, and no per-IP count leaves 0..MaxPerIp.
THEOREM TypeCorrect == Spec => []TypeOK
<1>1. Init => TypeOK
  <2> SUFFICES ASSUME Init
               PROVE  TypeOK
    OBVIOUS
  <2>1. Idle \in Handler
    BY DEF Idle, Handler
  <2>2. 0 \in 0..MaxPerIp
    BY SessionParkAssumption
  <2>3. <<>> \in Seq(Message)
    OBVIOUS
  <2> QED
    BY <2>1, <2>2, <2>3 DEF Init, TypeOK
<1>2. TypeOK /\ [Next]_vars => TypeOK'
  <2> SUFFICES ASSUME TypeOK, [Next]_vars
               PROVE  TypeOK'
    OBVIOUS
  <2>1. ASSUME NEW c \in Conn, Refuse(c)
        PROVE  TypeOK'
    BY <2>1, DequeueType DEF Refuse, Take, sessionVars, gateVars, tokenVars, TypeOK
  <2>2. ASSUME NEW c \in Conn, ConnectDirectory(c)
        PROVE  TypeOK'
    <3>1. running' \in [Conn -> Handler]
      BY <2>2, RunningType DEF ConnectDirectory
    <3> QED
      BY <2>2, <3>1, DequeueType, HandlerFields DEF ConnectDirectory, Take, gateVars, tokenVars, TypeOK
  <2>3. ASSUME NEW c \in Conn, OtherRequest(c)
        PROVE  TypeOK'
    <3>1. running' \in [Conn -> Handler]
      BY <2>3, RunningType DEF OtherRequest
    <3> QED
      BY <2>3, <3>1, DequeueType DEF OtherRequest, Take, sessionVars, gateVars, tokenVars, TypeOK
  <2>5. ASSUME NEW c \in Conn, LoginRefused(c)
        PROVE  TypeOK'
    <3>1. /\ rdoQueue' \in [Conn -> Seq(Message)] /\ processed' \in [Conn -> BOOLEAN]
          /\ logoutRequested' \in [Conn -> BOOLEAN]
          /\ Head(rdoQueue[c]).user \in User
      BY <2>5, DequeueType, MessageFields DEF LoginRefused, LoginPreamble, Take, Dequeue
    <3> QED
      BY <2>5, <3>1, HandlerFields DEF LoginRefused, LoginPreamble, EndEntries, Take, gateVars, tokenVars, TypeOK
  <2>6. ASSUME NEW c \in Conn, LoginServerFull(c)
        PROVE  TypeOK'
    <3>1. /\ rdoQueue' \in [Conn -> Seq(Message)] /\ processed' \in [Conn -> BOOLEAN]
          /\ logoutRequested' \in [Conn -> BOOLEAN]
          /\ Head(rdoQueue[c]).user \in User
      BY <2>6, DequeueType, MessageFields DEF LoginServerFull, LoginPreamble, Take, Dequeue
    <3> QED
      BY <2>6, <3>1, HandlerFields DEF LoginServerFull, LoginPreamble, EndEntries, Take, CloseHandshake, gateVars, tokenVars, TypeOK
  <2>7. ASSUME NEW c \in Conn, LoginEvict(c)
        PROVE  TypeOK'
    <3> DEFINE user == Head(rdoQueue[c]).user
               own  == OwnParked(handle[c], user)
    <3>1. /\ rdoQueue' \in [Conn -> Seq(Message)] /\ processed' \in [Conn -> BOOLEAN]
          /\ logoutRequested' \in [Conn -> BOOLEAN]
          /\ user \in User
      BY <2>7, DequeueType, MessageFields DEF LoginEvict, LoginPreamble, Take, Dequeue
    <3>2. own \in SUBSET Conn
      BY DEF OwnParked, Parked
    <3>3. ReleaseParks(own) \in [Ip -> 0..MaxPerIp]
      BY <3>2, ReleaseParksType
    <3>4. running' \in [Conn -> Handler]
      BY <2>7, <3>1, <3>2, RunningType DEF LoginEvict
    <3> QED
      BY <2>7, <3>1, <3>3, <3>4, HandlerFields
      DEF LoginEvict, LoginPreamble, EndEntries, StartTeardown, Take, TypeOK, tokenVars
  <2>8. ASSUME NEW c \in Conn, LoginCleanup(c)
        PROVE  TypeOK'
    <3>1. running' \in [Conn -> Handler]
      BY <2>8, RunningType, HandlerFields DEF LoginCleanup
    <3> QED
      BY <2>8, <3>1, HandlerFields DEF LoginCleanup, gateVars, tokenVars, TypeOK
  <2>9. ASSUME NEW c \in Conn, LoginUnknownWorld(c)
        PROVE  TypeOK'
    <3>1. running' \in [Conn -> Handler]
      BY <2>9, RunningType, HandlerFields DEF LoginUnknownWorld
    <3> QED
      BY <2>9, <3>1, HandlerFields DEF LoginUnknownWorld, ViewLeft, tokenVars, TypeOK
  <2>10. ASSUME NEW c \in Conn, LoginWorld(c)
        PROVE  TypeOK'
    <3>1. running' \in [Conn -> Handler]
      BY <2>10, RunningType, HandlerFields DEF LoginWorld
    <3> QED
      BY <2>10, <3>1, HandlerFields DEF LoginWorld, ViewLeft, gateVars, tokenVars, TypeOK
  <2>11. ASSUME NEW c \in Conn, AccountStatus(c)
        PROVE  TypeOK'
    <3>1. running' \in [Conn -> Handler]
      BY <2>11, RunningType, HandlerFields DEF AccountStatus
    <3> QED
      BY <2>11, <3>1, HandlerFields DEF AccountStatus, sessionVars, gateVars, tokenVars, TypeOK
  <2>12. ASSUME NEW c \in Conn, LogonOk(c)
        PROVE  TypeOK'
    <3>1. running' \in [Conn -> Handler]
      BY <2>12, RunningType, HandlerFields DEF LogonOk
    <3> QED
      BY <2>12, <3>1, HandlerFields DEF LogonOk, HandlerVars, tokenVars, TypeOK
  <2>13. ASSUME NEW c \in Conn, LogonFail(c)
        PROVE  TypeOK'
    <3>1. running' \in [Conn -> Handler]
      BY <2>13, RunningType, HandlerFields DEF LogonFail
    <3> QED
      BY <2>13, <3>1, HandlerFields DEF LogonFail, HandlerVars, tokenVars, TypeOK
  <2>14. ASSUME NEW c \in Conn, SelectCompany(c)
        PROVE  TypeOK'
    <3>1. running' \in [Conn -> Handler]
      BY <2>14, RunningType, HandlerFields DEF SelectCompany
    <3> QED
      BY <2>14, <3>1, DequeueType, HandlerFields DEF SelectCompany, Take, sessionVars, gateVars, tokenVars, TypeOK
  <2>15. ASSUME NEW c \in Conn, SelectOk(c)
        PROVE  TypeOK'
    <3>1. running' \in [Conn -> Handler]
      BY <2>15, RunningType, HandlerFields DEF SelectOk
    <3> QED
      BY <2>15, <3>1, HandlerFields, WorldEnteredType DEF SelectOk, HandlerVars, TypeOK
  <2>16. ASSUME NEW c \in Conn, SwitchCompany(c)
        PROVE  TypeOK'
    <3>1. running' \in [Conn -> Handler]
      BY <2>16, RunningType, HandlerFields DEF SwitchCompany
    <3> QED
      BY <2>16, <3>1, DequeueType, HandlerFields DEF SwitchCompany, Take, gateVars, tokenVars, TypeOK
  <2>17. ASSUME NEW c \in Conn, SwitchOk(c)
        PROVE  TypeOK'
    <3>1. running' \in [Conn -> Handler]
      BY <2>17, RunningType, HandlerFields DEF SwitchOk
    <3> QED
      BY <2>17, <3>1, HandlerFields, WorldEnteredType DEF SwitchOk, HandlerVars, TypeOK
  <2>18. ASSUME NEW c \in Conn, CompanyFails(c)
        PROVE  TypeOK'
    <3>1. running' \in [Conn -> Handler]
      BY <2>18, RunningType, HandlerFields DEF CompanyFails
    <3> QED
      BY <2>18, <3>1, HandlerFields, WorldEnteredType DEF CompanyFails, HandlerVars, TypeOK
  <2>19. ASSUME NEW c \in Conn, OtherDone(c)
        PROVE  TypeOK'
    <3>1. running' \in [Conn -> Handler]
      BY <2>19, RunningType, HandlerFields DEF OtherDone
    <3> QED
      BY <2>19, <3>1, HandlerFields DEF OtherDone, HandlerVars, tokenVars, TypeOK
  <2>20. ASSUME NEW c \in Conn, LogoutDone(c)
        PROVE  TypeOK'
    <3>1. running' \in [Conn -> Handler]
      BY <2>20, RunningType, HandlerFields DEF LogoutDone
    <3> QED
      BY <2>20, <3>1, HandlerFields DEF LogoutDone, CloseHandshake, gateVars, tokenVars, TypeOK
  <2>21. ASSUME NEW c \in Conn, ResumeSession(c)
        PROVE  TypeOK'
    <3>1. /\ rdoQueue' \in [Conn -> Seq(Message)] /\ processed' \in [Conn -> BOOLEAN]
          /\ logoutRequested' \in [Conn -> BOOLEAN]
          /\ Head(rdoQueue[c]).token \in Nat
      <4>1. Dequeue(c, "RESUME_SESSION") /\ Head(rdoQueue[c]).type = "RESUME_SESSION"
        BY <2>21 DEF ResumeSession, Dequeue
      <4>2. Head(rdoQueue[c]).token \in Token
        BY <4>1, DequeueType, MessageFields
      <4> QED
        BY <4>1, <4>2, DequeueType, SessionParkAssumption DEF Token
    <3>2. PICK s \in Conn :
            /\ Claims(s, Head(rdoQueue[c]))
            /\ claimed' = claimed \cup {Head(rdoQueue[c]).token}
            /\ nextToken' = nextToken + 1
            /\ delivered' = IF sock[c] = "open" THEN delivered \cup {nextToken + 1} ELSE delivered
            /\ entries' = Reattached(s)
            /\ wsConnectionsPerIp' = IF IsParked(s) THEN ReleaseSlot(entries[s].ip)
                                     ELSE wsConnectionsPerIp
            /\ binding' = [binding EXCEPT ![s] = c]
            /\ handle' = [handle EXCEPT ![c] = s]
            /\ life' = [life EXCEPT ![c] = "destroyed"]
            /\ connections' = Retracked(c, s)
            /\ sock' = IF binding[s] \in Conn \ {c} /\ sock[binding[s]] # "closed"
                       THEN [sock EXCEPT ![binding[s]] = "dead"] ELSE sock
      BY <2>21 DEF ResumeSession
    <3>3. entries' \in [Conn -> ResumeEntry \cup {Null}]
      <4>1. [entries[s] EXCEPT !.token = nextToken + 1, !.ip = Null] \in ResumeEntry
        <5>1. entries[s] \in ResumeEntry
          BY <3>2 DEF Claims, TypeOK
        <5>2. nextToken + 1 \in Nat
          BY DEF TypeOK
        <5> QED
          BY <5>1, <5>2 DEF ResumeEntry
      <4>2. entries' = [entries EXCEPT ![s] = [entries[s] EXCEPT !.token = nextToken + 1,
                                                                 !.ip = Null]]
        BY <3>2 DEF Reattached, TypeOK
      <4> QED
        BY <4>1, <4>2 DEF TypeOK
    <3>4. wsConnectionsPerIp' \in [Ip -> 0..MaxPerIp]
      BY <3>2, ReleaseSlotType DEF TypeOK
    <3>5. sock' \in [Conn -> {"none", "open", "closing", "dead", "closed"}]
      BY <3>2 DEF TypeOK
    <3>6. /\ connections' \in [Conn -> Conn \cup {Null}] /\ handle' \in [Conn -> Conn]
          /\ binding' \in [Conn -> Conn \cup {Null}]
          /\ life' \in [Conn -> {"unborn", "live", "ending", "destroyed"}]
      BY <3>2 DEF Retracked, TypeOK
    <3>7. nextToken' \in Nat /\ claimed' \in SUBSET Nat /\ delivered' \in SUBSET Nat
      <4>1. nextToken \in Nat /\ claimed \in SUBSET Nat /\ delivered \in SUBSET Nat
        BY DEF TypeOK
      <4>2. delivered' \subseteq delivered \cup {nextToken + 1}
        BY <3>2
      <4>3. nextToken' = nextToken + 1 /\ claimed' = claimed \cup {Head(rdoQueue[c]).token}
        BY Zenon, <3>2
      <4>4. nextToken' \in Nat
        BY <4>1, <4>3
      <4>5. claimed' \in SUBSET Nat
        BY <3>1, <4>1, <4>3
      <4>6. delivered' \in SUBSET Nat
        BY <4>1, <4>2
      <4> QED
        BY <4>4, <4>5, <4>6
    <3>8. UNCHANGED <<running, phase, view, loginUser, admitted, draining>>
      BY <2>21 DEF ResumeSession
    <3>9. /\ running' \in [Conn -> Handler]
          /\ phase' \in [Conn -> {"DISCONNECTED", "DIRECTORY_CONNECTED", "WORLD_CONNECTING",
                                  "WORLD_CONNECTED", "RECONNECTING"}]
          /\ view' \in [Conn -> User \cup {Null}]
          /\ loginUser' \in [Conn -> User \cup {Null}]
          /\ admitted' \in SUBSET Conn /\ draining' \in BOOLEAN
      BY <3>8 DEF TypeOK
    <3> QED
      BY Zenon, <3>1, <3>3, <3>4, <3>5, <3>6, <3>7, <3>9 DEF TypeOK
  <2>22. ASSUME NEW c \in Conn, Accept(c)
        PROVE  TypeOK'
    <3>1. wsConnectionsPerIp[IpOf[c]] + 1 \in 0..MaxPerIp
      <4>1. wsConnectionsPerIp[IpOf[c]] \in 0..MaxPerIp
        BY SessionParkAssumption DEF TypeOK
      <4>2. wsConnectionsPerIp[IpOf[c]] < MaxPerIp
        BY <2>22 DEF Accept, MayAccept
      <4> QED
        BY <4>1, <4>2, SessionParkAssumption
    <3> QED
      BY <2>22, <3>1 DEF Accept, TypeOK, tokenVars
  <2>23. ASSUME NEW c \in Conn, \E m \in Message : Receive(c, m)
        PROVE  TypeOK'
    BY <2>23 DEF Receive, TypeOK, sessionVars, gateVars, tokenVars
  <2>24. ASSUME NEW c \in Conn, CloseByGuard(c)
        PROVE  TypeOK'
    BY <2>24 DEF CloseByGuard, sessionVars, gateVars, tokenVars, TypeOK
  <2>25. ASSUME NEW c \in Conn, CloseSuperseded(c)
        PROVE  TypeOK'
    BY <2>25, ReleaseSlotType DEF CloseSuperseded, Closing, tokenVars, TypeOK
  <2>26. ASSUME NEW c \in Conn, ClosePark(c)
        PROVE  TypeOK'
    <3>1. entries[handle[c]] # Null /\ entries[handle[c]] \in ResumeEntry
      BY <2>26 DEF ClosePark, MayPark, TypeOK
    <3>2. [entries[handle[c]] EXCEPT !.ip = IpOf[c]] \in ResumeEntry
      BY <3>1, SessionParkAssumption DEF ResumeEntry
    <3>3. entries' \in [Conn -> ResumeEntry \cup {Null}]
      BY <2>26, <3>2 DEF ClosePark, TypeOK
    <3> QED
      BY <2>26, <3>3, HandlerFields DEF ClosePark, Closing, Detached, TypeOK, tokenVars
  <2>27. ASSUME NEW c \in Conn, CloseEnd(c)
        PROVE  TypeOK'
    BY <2>27, HandlerFields, ReleaseSlotType DEF CloseEnd, Closing, Detached, EndEntries, StartTeardown, tokenVars, TypeOK
  <2>28. ASSUME NEW s \in Conn, Expire(s)
        PROVE  TypeOK'
    BY <2>28, ReleaseParksType DEF Expire, EndParked, EndEntries, StartTeardown, sockVars, tokenVars, TypeOK
  <2>29. ASSUME NEW s \in Conn, TeardownDone(s)
        PROVE  TypeOK'
    BY <2>29 DEF TeardownDone, sockVars, tokenVars, TypeOK
  <2>30. ASSUME NEW s \in Conn, WorldLost(s)
        PROVE  TypeOK'
    BY <2>30 DEF WorldLost, sockVars, gateVars, tokenVars, TypeOK
  <2>31. ASSUME NEW s \in Conn, WorldBack(s)
        PROVE  TypeOK'
    BY <2>31 DEF WorldBack, sockVars, gateVars, tokenVars, TypeOK
  <2>32. ASSUME Drain
        PROVE  TypeOK'
    <3> DEFINE tracked == {connections[c] : c \in Conn} \ {Null}
               parked  == {s \in tracked : binding[s] = Null}
    <3>1. parked \in SUBSET Conn
      BY DEF TypeOK
    <3>2. ReleaseParks(parked) \in [Ip -> 0..MaxPerIp]
      BY <3>1, ReleaseParksType
    <3> QED
      BY <2>32, <3>2 DEF Drain, CloseHandshake, EndEntries, StartTeardown, TypeOK, tokenVars
  <2>33. CASE UNCHANGED vars
    BY <2>33 DEF vars, sockVars, sessionVars, gateVars, tokenVars, TypeOK
  <2> QED
    BY Zenon, Steps, <2>1, <2>2, <2>3, <2>5, <2>6, <2>7, <2>8, <2>9, <2>10, <2>11, <2>12, <2>13, <2>14, <2>15, <2>16, <2>17, <2>18, <2>19, <2>20, <2>21, <2>22, <2>23, <2>24, <2>25, <2>26, <2>27, <2>28, <2>29, <2>30, <2>31, <2>32, <2>33
<1> QED
  BY <1>1, <1>2, PTL DEF Spec

----------------------------------------------------------------------------
(* Tokens *)

\* A message that may wait in a lane: a resume names a token the gateway sent to a tab.
KnownMessage == {m \in Message : m.type = "RESUME_SESSION" => m.token \in delivered}

\* Tokens come from a counter: what is in force, delivered or spent was issued before.  This
\* makes TokensSingleUse inductive: the next token is new.
TokenInv ==
    /\ \A s \in Conn : entries[s] # Null => entries[s].token \in 1..nextToken
    /\ delivered \subseteq 1..nextToken
    /\ claimed \subseteq 1..nextToken
    /\ \A c \in Conn : \A i \in DOMAIN rdoQueue[c] : rdoQueue[c][i] \in KnownMessage
    /\ TokensSingleUse

\* Every message waiting in a lane is a known one.
LanesKnown == \A c \in Conn : \A i \in DOMAIN rdoQueue[c] : rdoQueue[c][i] \in KnownMessage

\* Entries may end, and be parked or not, but no token changes.
TokensKept ==
    /\ UNCHANGED <<nextToken, delivered, claimed>>
    /\ \A s \in Conn : entries'[s] # Null =>
        entries[s] # Null /\ entries'[s].token = entries[s].token

LEMMA TokenFrame ==
    ASSUME TokenInv, TokensKept, LanesKnown'
    PROVE  TokenInv'
BY DEF TokenInv, TokensKept, TokensSingleUse, LanesKnown

\* Serving a message leaves known ones.
LEMMA DequeueKnown ==
    ASSUME TypeOK, TokenInv, NEW c \in Conn, NEW type, Dequeue(c, type), delivered \subseteq delivered'
    PROVE  LanesKnown' /\ Head(rdoQueue[c]) \in KnownMessage
<1>1. rdoQueue[c] \in Seq(Message) /\ rdoQueue[c] # <<>>
  BY DEF TypeOK, Dequeue
<1>2. \A i \in DOMAIN rdoQueue[c] : rdoQueue[c][i] \in KnownMessage
  BY DEF TokenInv
<1>3. Head(rdoQueue[c]) = rdoQueue[c][1] /\ 1 \in DOMAIN rdoQueue[c]
  BY <1>1
<1>4. \A i \in DOMAIN Tail(rdoQueue[c]) : Tail(rdoQueue[c])[i] \in KnownMessage
  <2> TAKE i \in DOMAIN Tail(rdoQueue[c])
  <2>1. Tail(rdoQueue[c])[i] = rdoQueue[c][i + 1] /\ i + 1 \in DOMAIN rdoQueue[c]
    BY <1>1
  <2> QED
    BY <2>1, <1>2
<1>5. KnownMessage \subseteq KnownMessage'
  BY DEF KnownMessage
<1>6. \A d \in Conn : rdoQueue'[d] = IF d = c THEN Tail(rdoQueue[c]) ELSE rdoQueue[d]
  BY DEF Dequeue, TypeOK
<1>7. LanesKnown'
  BY <1>4, <1>5, <1>6 DEF LanesKnown, TokenInv
<1> QED
  BY <1>2, <1>3, <1>7

\* Lanes that do not change stay known while tokens are delivered.
LEMMA LanesStayKnown ==
    ASSUME TokenInv, UNCHANGED rdoQueue, delivered \subseteq delivered'
    PROVE  LanesKnown'
<1>1. KnownMessage \subseteq KnownMessage'
  BY DEF KnownMessage
<1> QED
  BY <1>1 DEF TokenInv, LanesKnown

\* The token a company request rotates in is new.
LEMMA WorldEnteredTokens ==
    ASSUME TypeOK, TokenInv, NEW s \in Conn, NEW c \in Conn, WorldEntered(s, c), UNCHANGED rdoQueue
    PROVE  TokenInv'
<1>1. CASE loginUser[s] # Null /\ phase'[s] = "WORLD_CONNECTED"
  <2>1. /\ nextToken' = nextToken + 1 /\ nextToken \in Nat
        /\ delivered \subseteq delivered' /\ delivered' \subseteq delivered \cup {nextToken + 1}
        /\ claimed' = claimed
    BY <1>1 DEF WorldEntered, TypeOK
  <2>2. /\ entries'[s] # Null => entries'[s].token = nextToken + 1
        /\ \A t \in Conn \ {s} : entries'[t] = entries[t]
    <3>1. [key |-> loginUser[s], token |-> nextToken + 1, ip |-> Null].token = nextToken + 1
      OBVIOUS
    <3>2. entries[s] # Null => [entries[s] EXCEPT !.token = nextToken + 1].token = nextToken + 1
      BY DEF TypeOK, ResumeEntry
    <3> QED
      BY <1>1, <3>1, <3>2 DEF WorldEntered, TypeOK
  <2>3. LanesKnown'
    BY <2>1, LanesStayKnown
  <2>4. TokensSingleUse'
    BY <2>1, <2>2 DEF TokensSingleUse, TokenInv
  <2>5. delivered' \subseteq 1..nextToken' /\ claimed' \subseteq 1..nextToken'
    BY <2>1 DEF TokenInv
  <2>6. \A t \in Conn : entries'[t] # Null => entries'[t].token \in 1..nextToken'
    BY <2>1, <2>2 DEF TokenInv
  <2> QED
    BY <2>3, <2>4, <2>5, <2>6 DEF TokenInv, LanesKnown
<1>2. CASE ~(loginUser[s] # Null /\ phase'[s] = "WORLD_CONNECTED")
  <2>1. TokensKept
    BY <1>2 DEF WorldEntered, TokensKept, tokenVars
  <2> QED
    BY <2>1, TokenFrame, LanesStayKnown DEF TokensKept
<1> QED
  BY <1>1, <1>2

\* What a resume does to the tokens: the one presented was in force and delivered, it is
\* spent, and the session gets a new one.
LEMMA ResumeTokens ==
    ASSUME TypeOK, TokenInv, NEW c \in Conn, ResumeSession(c)
    PROVE  \E s \in Conn :
              /\ entries[s] # Null /\ entries[s].token \in delivered
              /\ claimed' = claimed \cup {entries[s].token}
              /\ nextToken' = nextToken + 1
              /\ delivered \subseteq delivered' /\ delivered' \subseteq delivered \cup {nextToken + 1}
              /\ entries'[s].token = nextToken + 1
              /\ \A t \in Conn \ {s} : entries'[t] = entries[t]
              /\ binding' = [binding EXCEPT ![s] = c]
<1>1. PICK s \in Conn :
        /\ Claims(s, Head(rdoQueue[c]))
        /\ claimed' = claimed \cup {Head(rdoQueue[c]).token}
        /\ nextToken' = nextToken + 1
        /\ delivered' = IF sock[c] = "open" THEN delivered \cup {nextToken + 1} ELSE delivered
        /\ entries' = Reattached(s)
        /\ binding' = [binding EXCEPT ![s] = c]
  BY DEF ResumeSession
<1>2. delivered \subseteq delivered' /\ delivered' \subseteq delivered \cup {nextToken + 1}
  BY <1>1
<1>3. entries[s] # Null /\ entries[s].token = Head(rdoQueue[c]).token
  BY <1>1 DEF Claims
<1>4. Head(rdoQueue[c]).token \in delivered
  <2>1. Dequeue(c, "RESUME_SESSION") /\ Head(rdoQueue[c]).type = "RESUME_SESSION"
    BY DEF ResumeSession, Dequeue
  <2> QED
    BY <1>2, <2>1, DequeueKnown DEF KnownMessage
<1>5. [entries[s] EXCEPT !.token = nextToken + 1, !.ip = Null].token = nextToken + 1
  BY <1>3 DEF TypeOK, ResumeEntry
<1>6. entries' = [entries EXCEPT ![s] = [entries[s] EXCEPT !.token = nextToken + 1, !.ip = Null]]
  BY <1>1 DEF Reattached, TypeOK
<1>7. /\ entries'[s].token = nextToken + 1
      /\ \A t \in Conn \ {s} : entries'[t] = entries[t]
  BY <1>5, <1>6 DEF TypeOK
<1> QED
  BY <1>1, <1>2, <1>3, <1>4, <1>7

LEMMA TokenStep == TypeOK /\ TokenInv /\ [Next]_vars => TokenInv'
<1> SUFFICES ASSUME TypeOK, TokenInv, [Next]_vars
             PROVE  TokenInv'
  OBVIOUS
<1>1. ASSUME NEW c \in Conn,
             \/ Refuse(c) \/ ConnectDirectory(c) \/ OtherRequest(c)
             \/ LoginRefused(c) \/ LoginServerFull(c) \/ LoginEvict(c)
             \/ SelectCompany(c) \/ SwitchCompany(c)
      PROVE  TokenInv'
  <2>1. PICK type : Dequeue(c, type)
    BY Zenon, <1>1 DEF Refuse, ConnectDirectory, OtherRequest, LoginRefused, LoginServerFull,
                LoginEvict, LoginPreamble, SelectCompany, SwitchCompany, Take
  <2>2. /\ UNCHANGED tokenVars
        /\ UNCHANGED entries \/ \E S : entries' = EndEntries(S)
    BY Zenon, <1>1 DEF Refuse, ConnectDirectory, OtherRequest, LoginRefused,
                LoginServerFull, LoginEvict, SelectCompany, SwitchCompany, sessionVars
  <2>3. TokensKept
    BY <2>2 DEF TokensKept, EndEntries, tokenVars
  <2> QED
    BY <2>1, <2>3, DequeueKnown, TokenFrame DEF TokensKept
<1>2. ASSUME NEW c \in Conn,
             \/ LoginCleanup(c) \/ LoginUnknownWorld(c) \/ LoginWorld(c) \/ AccountStatus(c)
             \/ LogonOk(c) \/ LogonFail(c) \/ OtherDone(c) \/ LogoutDone(c)
             \/ Accept(c) \/ CloseSuperseded(c)
             \/ TeardownDone(c) \/ WorldLost(c) \/ WorldBack(c)
      PROVE  TokenInv'
  <2>1. UNCHANGED <<rdoQueue, entries, nextToken, delivered, claimed>>
    BY <1>2 DEF LoginCleanup, LoginUnknownWorld, LoginWorld, AccountStatus, LogonOk, LogonFail,
                OtherDone, LogoutDone, Accept, CloseSuperseded, Closing, TeardownDone, WorldLost,
                WorldBack, HandlerVars, sockVars, sessionVars, tokenVars
  <2> QED
    BY <2>1, LanesStayKnown, TokenFrame DEF TokensKept
<1>3. ASSUME Drain \/ \E c \in Conn : CloseEnd(c) \/ Expire(c)
      PROVE  TokenInv'
  <2>1. /\ UNCHANGED <<rdoQueue, nextToken, delivered, claimed>>
        /\ \E S : entries' = EndEntries(S)
    BY Zenon, <1>3 DEF CloseEnd, Closing, Expire, EndParked, Drain, sockVars, tokenVars
  <2>2. TokensKept
    BY <2>1 DEF TokensKept, EndEntries
  <2> QED
    BY <2>1, <2>2, LanesStayKnown, TokenFrame
<1>4. ASSUME NEW c \in Conn, ClosePark(c)
      PROVE  TokenInv'
  <2>1. /\ UNCHANGED <<rdoQueue, nextToken, delivered, claimed>>
        /\ entries' = [entries EXCEPT ![handle[c]].ip = IpOf[c]]
        /\ entries[handle[c]] # Null
    BY <1>4 DEF ClosePark, Closing, MayPark, tokenVars
  <2>2. [entries[handle[c]] EXCEPT !.ip = IpOf[c]].token = entries[handle[c]].token
    BY <2>1, HandlerFields DEF TypeOK, ResumeEntry
  <2>3. TokensKept
    BY <2>1, <2>2 DEF TokensKept, TypeOK
  <2> QED
    BY <2>1, <2>3, LanesStayKnown, TokenFrame
<1>5. ASSUME NEW c \in Conn, NEW m \in Message, Receive(c, m)
      PROVE  TokenInv'
  <2>1. TokensKept
    BY <1>5 DEF Receive, TokensKept, sessionVars, tokenVars
  <2>2. m \in KnownMessage
    BY <1>5 DEF Receive, KnownMessage
  <2>3. rdoQueue' = [rdoQueue EXCEPT ![c] = Append(rdoQueue[c], m)] /\ rdoQueue[c] \in Seq(Message)
    BY <1>5 DEF Receive, TypeOK
  <2>4. \A i \in DOMAIN Append(rdoQueue[c], m) : Append(rdoQueue[c], m)[i] \in KnownMessage
    BY <2>2, <2>3 DEF TokenInv
  <2>5. LanesKnown'
    BY <2>1, <2>3, <2>4 DEF LanesKnown, TokenInv, TokensKept, KnownMessage, TypeOK
  <2> QED
    BY <2>1, <2>5, TokenFrame
<1>6. ASSUME NEW c \in Conn, CloseByGuard(c)
      PROVE  TokenInv'
  <2>1. TokensKept
    BY <1>6 DEF CloseByGuard, TokensKept, sessionVars, tokenVars
  <2>2. LanesKnown'
    BY <1>6, <2>1 DEF CloseByGuard, LanesKnown, TokenInv, TokensKept, KnownMessage, TypeOK
  <2> QED
    BY <2>1, <2>2, TokenFrame
<1>7. ASSUME NEW c \in Conn, SelectOk(c) \/ SwitchOk(c) \/ CompanyFails(c)
      PROVE  TokenInv'
  BY <1>7, WorldEnteredTokens, HandlerFields DEF SelectOk, SwitchOk, CompanyFails, HandlerVars
<1>8. ASSUME NEW c \in Conn, ResumeSession(c)
      PROVE  TokenInv'
  <2>1. PICK s \in Conn :
              /\ entries[s] # Null /\ entries[s].token \in delivered
              /\ claimed' = claimed \cup {entries[s].token}
              /\ nextToken' = nextToken + 1
              /\ delivered \subseteq delivered' /\ delivered' \subseteq delivered \cup {nextToken + 1}
              /\ entries'[s].token = nextToken + 1
              /\ \A t \in Conn \ {s} : entries'[t] = entries[t]
    BY <1>8, ResumeTokens
  <2>2. LanesKnown'
    BY <1>8, <2>1, DequeueKnown DEF ResumeSession
  <2>3. nextToken \in Nat
    BY DEF TypeOK
  <2>4. TokensSingleUse'
    BY <2>1, <2>3 DEF TokensSingleUse, TokenInv
  <2>5. delivered' \subseteq 1..nextToken' /\ claimed' \subseteq 1..nextToken'
    <3>1. 1..nextToken \subseteq 1..nextToken' /\ nextToken + 1 \in 1..nextToken'
      BY <2>1, <2>3
    <3>2. delivered' \subseteq 1..nextToken'
      BY <2>1, <3>1 DEF TokenInv
    <3>3. claimed' \subseteq 1..nextToken'
      BY <2>1, <3>1 DEF TokenInv
    <3> QED
      BY <3>2, <3>3
  <2>6. \A t \in Conn : entries'[t] # Null => entries'[t].token \in 1..nextToken'
    BY <2>1, <2>3 DEF TokenInv
  <2> QED
    BY <2>2, <2>4, <2>5, <2>6 DEF TokenInv, LanesKnown
<1>9. CASE UNCHANGED vars
  BY <1>9, LanesStayKnown, TokenFrame DEF vars, sockVars, sessionVars, tokenVars, TokensKept
<1> QED
  BY Zenon, Steps, <1>1, <1>2, <1>3, <1>4, <1>5, <1>6, <1>7, <1>8, <1>9

\* A resume token is single-use and names one session, whatever closes, races and takeovers
\* happen (claim, issueToken).
THEOREM SingleUse == Spec => []TokensSingleUse
<1>1. Init => TokenInv
  BY DEF Init, TokenInv, TokensSingleUse
<1>2. TokenInv => TokensSingleUse
  BY DEF TokenInv
<1> QED
  BY <1>1, <1>2, TokenStep, TypeCorrect, PTL DEF Spec

----------------------------------------------------------------------------
(* Tabs and sessions *)

Attached == {"open", "closing", "dead"}

\* Why a resume, which is only heard as the first message, always comes from a tab that is
\* still there: a connection that has processed nothing is not suspended, and its first
\* message is served before its close.  Nothing is bound to a connection not accepted yet.
LinkInv ==
    /\ \A c \in Conn : ~processed[c] =>
        /\ running[c] = Idle
        /\ rdoQueue[c] # <<>> => sock[c] \in Attached
    /\ \A c \in Conn : sock[c] = "none" =>
        handle[c] = c /\ ~processed[c] /\ rdoQueue[c] = <<>> /\ life[c] = "unborn"
    /\ OneTabPerSession

\* A step that keeps the ties between tabs and sessions: the sockets of a session stay
\* attached, none is closed or accepted, and no session is born or bound.
TiesKept ==
    /\ UNCHANGED <<handle, binding>>
    /\ \A c \in Conn : /\ sock[c] = "none" <=> sock'[c] = "none"
                       /\ sock[c] \in Attached => sock'[c] \in Attached
    /\ \A s \in Conn : /\ Alive(s)' => Alive(s)
                       /\ life[s] = "unborn" => life'[s] = "unborn"

\* A step that keeps the first two parts of LinkInv.
LanesKept ==
    \A c \in Conn :
        /\ processed'[c] \/ (~processed[c] /\ (running'[c] = Idle \/ running'[c] = running[c])
                                           /\ (rdoQueue'[c] = <<>> \/ rdoQueue'[c] = rdoQueue[c]
                                                 \/ sock'[c] \in Attached))
        /\ sock[c] = "none" => /\ processed'[c] = processed[c]
                               /\ rdoQueue'[c] = <<>> \/ rdoQueue'[c] = rdoQueue[c]

LEMMA TiesFrame ==
    ASSUME TypeOK, LinkInv, TiesKept, LanesKept
    PROVE  LinkInv'
<1>1. OneTabPerSession'
  BY DEF LinkInv, TiesKept, OneTabPerSession, Alive, Attached, TypeOK
<1>2. ASSUME NEW c \in Conn, ~processed'[c]
      PROVE  running'[c] = Idle /\ (rdoQueue'[c] # <<>> => sock'[c] \in Attached)
  BY <1>2 DEF LinkInv, TiesKept, LanesKept
<1>3. ASSUME NEW c \in Conn, sock'[c] = "none"
      PROVE  handle'[c] = c /\ ~processed'[c] /\ rdoQueue'[c] = <<>> /\ life'[c] = "unborn"
  BY <1>3 DEF LinkInv, TiesKept, LanesKept
<1> QED
  BY <1>1, <1>2, <1>3 DEF LinkInv

LEMMA LinkStep == TypeOK /\ LinkInv /\ [Next]_vars => LinkInv'
<1> SUFFICES ASSUME TypeOK, LinkInv, [Next]_vars
             PROVE  LinkInv'
  OBVIOUS
<1>1. ASSUME NEW c \in Conn,
             \/ Refuse(c) \/ ConnectDirectory(c) \/ OtherRequest(c)
             \/ LoginRefused(c) \/ LoginServerFull(c) \/ LoginEvict(c)
             \/ SelectCompany(c) \/ SwitchCompany(c)
      PROVE  LinkInv'
  <2>1. PICK type : Dequeue(c, type)
    BY Zenon, <1>1 DEF Refuse, ConnectDirectory, OtherRequest, LoginRefused, LoginServerFull,
                LoginEvict, LoginPreamble, SelectCompany, SwitchCompany, Take
  <2>2. sock[c] # "none"
    BY <2>1 DEF Dequeue, LinkInv
  <2>3. /\ \A d \in Conn \ {c} : rdoQueue'[d] = rdoQueue[d] /\ processed'[d] = processed[d]
        /\ processed'[c]
    BY <2>1 DEF Dequeue, TypeOK
  <2>4. \A d \in Conn \ {c} : running'[d] = running[d]
    BY <1>1 DEF Refuse, ConnectDirectory, OtherRequest, LoginRefused, LoginServerFull,
                LoginEvict, SelectCompany, SwitchCompany, Suspend, TypeOK
  <2>5. LanesKept
    BY <2>2, <2>3, <2>4 DEF LanesKept
  <2>6. /\ UNCHANGED <<handle, binding>>
        /\ life' = life \/ \E S : life' = StartTeardown(S)
        /\ sock' = sock \/ sock' = CloseHandshake({c})
    BY Zenon, <1>1 DEF Refuse, ConnectDirectory, OtherRequest, LoginRefused, LoginServerFull,
                LoginEvict, SelectCompany, SwitchCompany, LoginPreamble, Take, sessionVars
  <2>7. TiesKept
    BY <2>6 DEF TiesKept, StartTeardown, CloseHandshake, Attached, Alive, TypeOK
  <2> QED
    BY <2>5, <2>7, TiesFrame
<1>2. ASSUME NEW c \in Conn,
             \/ LoginCleanup(c) \/ LoginUnknownWorld(c) \/ LoginWorld(c) \/ AccountStatus(c)
             \/ LogonOk(c) \/ LogonFail(c) \/ OtherDone(c) \/ LogoutDone(c)
             \/ SelectOk(c) \/ SwitchOk(c) \/ CompanyFails(c)
      PROVE  LinkInv'
  <2>1. /\ UNCHANGED <<handle, binding, life, processed, rdoQueue>>
        /\ sock' = sock \/ sock' = CloseHandshake({c})
    BY Zenon, <1>2 DEF LoginCleanup, LoginUnknownWorld, LoginWorld, AccountStatus, LogonOk, LogonFail,
                OtherDone, LogoutDone, SelectOk, SwitchOk, CompanyFails, HandlerVars, sessionVars
  <2>2. /\ running[c] # Idle
        /\ \A d \in Conn \ {c} : running'[d] = running[d]
    BY <1>2 DEF LoginCleanup, LoginUnknownWorld, LoginWorld, LoginGoesOn, EvictionOver, AccountStatus,
                LogonOk, LogonFail, OtherDone, LogoutDone, SelectOk, SwitchOk, CompanyFails,
                Suspend, Return, Idle, TypeOK
  <2>3. LanesKept
    BY <2>1, <2>2 DEF LanesKept, LinkInv
  <2>4. TiesKept
    BY <2>1 DEF TiesKept, CloseHandshake, Attached, Alive, TypeOK
  <2> QED
    BY <2>3, <2>4, TiesFrame
<1>3. ASSUME NEW c \in Conn, NEW m \in Message, Receive(c, m)
      PROVE  LinkInv'
  <2>1. LanesKept
    BY <1>3 DEF Receive, LanesKept, LinkInv, Attached, TypeOK
  <2>2. TiesKept
    BY <1>3 DEF Receive, TiesKept, sessionVars, Alive
  <2> QED
    BY <2>1, <2>2, TiesFrame
<1>4. ASSUME NEW c \in Conn, CloseByGuard(c)
      PROVE  LinkInv'
  <2>1. LanesKept
    BY <1>4 DEF CloseByGuard, LanesKept, LinkInv, TypeOK
  <2>2. TiesKept
    BY <1>4 DEF CloseByGuard, TiesKept, sessionVars, Alive, Attached, TypeOK
  <2> QED
    BY <2>1, <2>2, TiesFrame
<1>5. ASSUME NEW s \in Conn, Expire(s) \/ TeardownDone(s) \/ WorldLost(s) \/ WorldBack(s)
      PROVE  LinkInv'
  <2>1. /\ UNCHANGED <<sockVars, binding>>
        /\ \/ life' = life \/ life' = StartTeardown({s})
           \/ /\ life[s] = "ending"
              /\ life' = [life EXCEPT ![s] = "destroyed"]
    <3>1. UNCHANGED <<sockVars, binding>>
      BY <1>5 DEF Expire, TeardownDone, WorldLost, WorldBack, sockVars
    <3>2. \/ life' = life \/ life' = StartTeardown({s})
          \/ /\ life[s] = "ending"
             /\ life' = [life EXCEPT ![s] = "destroyed"]
      BY <1>5 DEF Expire, EndParked, TeardownDone, WorldLost, WorldBack
    <3> QED
      BY <3>1, <3>2
  <2>2. LanesKept
    BY <2>1 DEF LanesKept, sockVars, LinkInv
  <2>3. TiesKept
    BY <2>1 DEF TiesKept, StartTeardown, sockVars, Alive, TypeOK
  <2> QED
    BY <2>2, <2>3, TiesFrame
<1>6. ASSUME Drain
      PROVE  LinkInv'
  <2>1. /\ UNCHANGED <<rdoQueue, running, handle, processed, binding>>
        /\ \E S : life' = StartTeardown(S)
        /\ \E C : sock' = CloseHandshake(C)
    BY Zenon, <1>6 DEF Drain
  <2>2. LanesKept
    BY <2>1 DEF LanesKept, LinkInv
  <2>3. TiesKept
    BY <2>1 DEF TiesKept, StartTeardown, CloseHandshake, Attached, Alive, TypeOK
  <2> QED
    BY <2>2, <2>3, TiesFrame
<1>7. CASE UNCHANGED vars
  BY <1>7, TiesFrame DEF vars, sockVars, sessionVars, TiesKept, LanesKept, LinkInv, Alive
<1>8. ASSUME NEW c \in Conn, Accept(c)
      PROVE  LinkInv'
  <2>1. /\ sock[c] = "none" /\ sock' = [sock EXCEPT ![c] = "open"]
        /\ life' = [life EXCEPT ![c] = "live"]
        /\ binding' = [binding EXCEPT ![c] = c]
        /\ UNCHANGED <<rdoQueue, running, handle, processed>>
    BY <1>8 DEF Accept
  <2>2. OneTabPerSession'
    BY <2>1 DEF OneTabPerSession, LinkInv, Alive, TypeOK
  <2> QED
    BY <2>1, <2>2 DEF LinkInv, Attached, TypeOK
<1>9. ASSUME NEW c \in Conn, Settled, CloseSuperseded(c) \/ ClosePark(c) \/ CloseEnd(c)
      PROVE  LinkInv'
  <2>1. /\ sock[c] \in Attached /\ sock' = [sock EXCEPT ![c] = "closed"]
        /\ UNCHANGED <<rdoQueue, running, handle, processed>>
        /\ life' = life \/ life' = StartTeardown({handle[c]})
    BY Zenon, <1>9 DEF CloseSuperseded, ClosePark, CloseEnd, Closing, Attached
  <2>2. \/ binding[handle[c]] # c /\ binding' = binding
        \/ binding' = [binding EXCEPT ![handle[c]] = Null]
    BY <1>9 DEF CloseSuperseded, ClosePark, CloseEnd, Superseded, Detached
  <2>3. handle[c] \in Conn
    BY HandlerFields
  <2>4. OneTabPerSession'
    <3> SUFFICES ASSUME NEW s \in Conn, Alive(s)', binding'[s] # Null
                 PROVE  handle'[binding'[s]] = s /\ sock'[binding'[s]] \in Attached
      BY DEF OneTabPerSession, Attached
    <3>1. Alive(s)
      BY <2>1 DEF Alive, StartTeardown, TypeOK
    <3>2. binding'[s] = binding[s]
      BY <2>2, <2>3 DEF TypeOK
    <3>3. handle[binding[s]] = s /\ sock[binding[s]] \in Attached
      BY <3>1, <3>2 DEF LinkInv, OneTabPerSession, Attached
    <3>4. binding[s] # c
      BY <2>2, <2>3, <3>2, <3>3 DEF TypeOK
    <3> QED
      BY <2>1, <3>2, <3>3, <3>4 DEF TypeOK
  <2>5. ~processed[c] => running[c] = Idle /\ rdoQueue[c] = <<>>
    BY <1>9 DEF Settled, Runnable, LinkInv
  <2> QED
    BY <2>1, <2>4, <2>5 DEF LinkInv, StartTeardown, TypeOK
<1>10. ASSUME NEW c \in Conn, ResumeSession(c)
       PROVE  LinkInv'
  <2>1. PICK s \in Conn :
          /\ binding' = [binding EXCEPT ![s] = c]
          /\ handle' = [handle EXCEPT ![c] = s]
          /\ life' = [life EXCEPT ![c] = "destroyed"]
          /\ sock' = IF binding[s] \in Conn \ {c} /\ sock[binding[s]] # "closed"
                     THEN [sock EXCEPT ![binding[s]] = "dead"] ELSE sock
    BY <1>10 DEF ResumeSession
  <2>2. /\ Dequeue(c, "RESUME_SESSION") /\ ~processed[c] /\ handle[c] = c
        /\ UNCHANGED running
    BY <1>10 DEF ResumeSession
  <2>3. sock[c] \in Attached
    BY <2>2 DEF Dequeue, LinkInv
  <2>4. /\ processed'[c]
        /\ \A d \in Conn \ {c} : rdoQueue'[d] = rdoQueue[d] /\ processed'[d] = processed[d]
    BY <2>2 DEF Dequeue, TypeOK
  <2>5. /\ sock'[c] = sock[c]
        /\ \A d \in Conn : sock'[d] = sock[d] \/ sock'[d] = "dead"
    BY <2>1 DEF TypeOK
  <2>6. OneTabPerSession'
    BY <2>1, <2>2, <2>3, <2>5 DEF OneTabPerSession, LinkInv, Alive, Attached, TypeOK
  <2>7. ASSUME NEW d \in Conn, ~processed'[d]
        PROVE  running'[d] = Idle /\ (rdoQueue'[d] # <<>> => sock'[d] \in Attached)
    BY <2>2, <2>4, <2>5, <2>7 DEF LinkInv, Attached
  <2>8. ASSUME NEW d \in Conn, sock'[d] = "none"
        PROVE  handle'[d] = d /\ ~processed'[d] /\ rdoQueue'[d] = <<>> /\ life'[d] = "unborn"
    <3>1. d # c /\ sock[d] = "none"
      BY <2>3, <2>5, <2>8 DEF Attached
    <3> QED
      BY <2>1, <2>4, <3>1 DEF LinkInv, TypeOK
  <2> QED
    BY <2>6, <2>7, <2>8 DEF LinkInv
<1> QED
  BY Zenon, Steps, <1>1, <1>2, <1>3, <1>4, <1>5, <1>6, <1>7, <1>8, <1>9, <1>10

\* A session talks to at most one tab and a tab to at most one session, over takeovers of
\* half-open connections, parks and late closes (SessionBinding, ws.on('close')).
THEOREM OneTab == Spec => []OneTabPerSession
<1>1. Init => LinkInv
  BY DEF Init, LinkInv, OneTabPerSession, Alive
<1>2. LinkInv => OneTabPerSession
  BY DEF LinkInv
<1> QED
  BY <1>1, <1>2, LinkStep, TypeCorrect, PTL DEF Spec

\* A live session goes to another tab only against the token in force, which is spent
\* (resumeSession).
THEOREM TakeoverNeedsToken == Spec => TakeoverSpendsToken
<1> DEFINE Takeover ==
      \A s \in Conn :
        life[s] = "live" /\ binding'[s] # binding[s] /\ binding'[s] # Null =>
            /\ entries[s] # Null
            /\ entries[s].token \in delivered /\ entries[s].token \in claimed' \ claimed
            /\ entries'[s].token \notin claimed'
<1>1. ASSUME TypeOK, TokenInv, LinkInv, [Next]_vars
      PROVE  [Takeover]_vars
  <2>1. ASSUME NEW c \in Conn, ResumeSession(c)
        PROVE  Takeover
    <3>1. PICK s \in Conn :
            /\ entries[s] # Null /\ entries[s].token \in delivered
            /\ claimed' = claimed \cup {entries[s].token}
            /\ nextToken' = nextToken + 1
            /\ entries'[s].token = nextToken + 1
            /\ binding' = [binding EXCEPT ![s] = c]
      BY <1>1, <2>1, ResumeTokens
    <3>2. nextToken \in Nat
      BY <1>1 DEF TypeOK
    <3>3. entries[s].token \notin claimed /\ nextToken + 1 \notin claimed'
      BY <1>1, <3>1, <3>2 DEF TokenInv, TokensSingleUse
    <3> QED
      BY <1>1, <3>1, <3>3 DEF TypeOK
  <2>2. ASSUME NEW c \in Conn, Accept(c)
        PROVE  Takeover
    BY <1>1, <2>2 DEF Accept, LinkInv, TypeOK
  <2>3. ASSUME NEW c \in Conn, ClosePark(c) \/ CloseEnd(c)
        PROVE  Takeover
    BY <1>1, <2>3 DEF ClosePark, CloseEnd, Detached, TypeOK
  <2>4. ASSUME UNCHANGED binding
        PROVE  Takeover
    BY <2>4
  <2>5. \/ \E c \in Conn : ResumeSession(c) \/ Accept(c) \/ ClosePark(c) \/ CloseEnd(c)
        \/ UNCHANGED binding
    BY Zenon, Steps, <1>1
    DEF Refuse, ConnectDirectory, OtherRequest, LoginRefused, LoginServerFull, LoginEvict,
        SelectCompany, SwitchCompany, LoginCleanup, LoginUnknownWorld, LoginWorld, AccountStatus,
        LogonOk, LogonFail, OtherDone, LogoutDone, SelectOk, SwitchOk, CompanyFails, Receive,
        CloseByGuard, CloseSuperseded, Expire, TeardownDone, WorldLost, WorldBack, Drain,
        HandlerVars, sessionVars, vars
  <2> QED
    BY <2>1, <2>2, <2>3, <2>4, <2>5
<1>2. Init => TokenInv
  BY DEF Init, TokenInv, TokensSingleUse
<1>3. Init => LinkInv
  BY DEF Init, LinkInv, OneTabPerSession, Alive
<1> QED
  BY <1>1, <1>2, <1>3, TokenStep, LinkStep, TypeCorrect, PTL DEF Spec, TakeoverSpendsToken

\* The teardown of a session starts with the close of the tab it is bound to, the end of its
\* park or the shutdown, and never with the late close of a WebSocket it was taken from
\* (ws.on('close'), endParkedSession, drain).
THEOREM TeardownCause == Spec => TeardownHasACause
<1> DEFINE Cause ==
      \A s \in Conn : life[s] = "live" /\ life'[s] = "ending" =>
        \/ draining'
        \/ IsParked(s)
        \/ binding[s] # Null /\ sock[binding[s]] # "closed" /\ sock'[binding[s]] = "closed"
<1>1. ASSUME TypeOK, [Next]_vars
      PROVE  [Cause]_vars
  <2>1. ASSUME NEW c \in Conn, CloseEnd(c)
        PROVE  Cause
    <3>1. /\ life' = StartTeardown({handle[c]}) /\ binding[handle[c]] = c
          /\ sock[c] # "closed" /\ sock'[c] = "closed"
      BY <1>1, <2>1 DEF CloseEnd, Closing, Superseded, TypeOK
    <3> QED
      BY <3>1, SessionParkAssumption DEF StartTeardown
  <2>2. ASSUME NEW c \in Conn, LoginEvict(c)
        PROVE  Cause
    BY <2>2 DEF LoginEvict, OwnParked, Parked, StartTeardown
  <2>3. ASSUME NEW t \in Conn, Expire(t)
        PROVE  Cause
    BY <2>3 DEF Expire, EndParked, StartTeardown
  <2>4. ASSUME Drain
        PROVE  Cause
    BY <2>4 DEF Drain
  <2>5. ASSUME NEW t \in Conn, UNCHANGED life
                               \/ life' = [life EXCEPT ![t] = "destroyed"]
                               \/ life' = [life EXCEPT ![t] = "live"]
        PROVE  Cause
    BY <1>1, <2>5 DEF TypeOK
  <2>6. ASSUME UNCHANGED life
        PROVE  Cause
    BY <2>6
  <2>7. \/ \E c \in Conn : CloseEnd(c) \/ LoginEvict(c) \/ Expire(c)
        \/ Drain
        \/ \E t \in Conn : \/ life' = [life EXCEPT ![t] = "destroyed"]
                           \/ life' = [life EXCEPT ![t] = "live"]
        \/ UNCHANGED life
    BY Zenon, Steps, <1>1
    DEF Refuse, ConnectDirectory, OtherRequest, LoginRefused, LoginServerFull,
        SelectCompany, SwitchCompany, ResumeSession, LoginCleanup, LoginUnknownWorld, LoginWorld,
        AccountStatus, LogonOk, LogonFail, OtherDone, LogoutDone, SelectOk, SwitchOk,
        CompanyFails, Accept, Receive, CloseByGuard, CloseSuperseded, ClosePark, TeardownDone,
        WorldLost, WorldBack, HandlerVars, sessionVars, vars
  <2> QED
    BY <2>1, <2>2, <2>3, <2>4, <2>5, <2>6, <2>7
<1> QED
  BY <1>1, TypeCorrect, PTL DEF Spec, TeardownHasACause

=============================================================================
