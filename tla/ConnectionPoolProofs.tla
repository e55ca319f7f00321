------------------------ MODULE ConnectionPoolProofs ------------------------
(***************************************************************************)
(* What TLAPS proves about ConnectionPool, for every set of calls,         *)
(* connections and pools and every capacity.                               *)
(***************************************************************************)
EXTENDS ConnectionPool, FiniteSetTheorems, TLAPS

----------------------------------------------------------------------------
(* The inductive invariant *)

\* Nothing refers to a connection that is not established.
Untouched ==
    \A c \in Conn : socket[c] \in {"none", "connecting"} =>
        /\ \A p \in Pool : c \notin connections[p]
        /\ \A r \in Call : on[r] # c
        /\ \A d \in Conn : job[d].other # c

\* A creation under way has a pool, and its call (one per call) waits for it.
Jobs ==
    \A c \in Conn :
        /\ job[c].for # "none" <=> socket[c] = "connecting"
        /\ job[c].for = "none" => job[c] = NoJob
        /\ job[c].for # "none" => job[c].pool \in Pool /\ owner[c] = job[c].pool
        /\ job[c].for \in {"expand", "fresh"} => job[c].call \in Call
        /\ job[c].call # None => status[job[c].call] = "waiting"
        /\ job[c].for = "replace" => job[c].other \in Conn
        /\ job[c].for = "expand" /\ job[c].other # None => owner[job[c].other] = job[c].pool

OneJobPerCall ==
    \A c, d \in Conn : job[c].call # None /\ job[c].call = job[d].call => c = d

Owned == \A p \in Pool : \A c \in connections[p] : owner[c] = p

\* Every connection was made by a pool.
Made == \A c \in Conn : socket[c] # "none" => owner[c] \in Pool

OnWhenSent == \A r \in Call : on[r] # None <=> status[r] = "sent"

\* A slot of the session's pool is given back to that pool.
ReleasedHere ==
    \A r \in Call : on[r] # None /\ worldPool # None /\ owner[on[r]] = worldPool
                      => releaser[r] = worldPool

\* The call of a creation for a pool that was dropped has seen it dropped.
JobsCross ==
    \A c \in Conn : job[c].call # None /\ job[c].pool # worldPool => crossed[job[c].call]

IInv ==
    /\ TypeOK
    /\ Untouched
    /\ Jobs
    /\ OneJobPerCall
    /\ Owned
    /\ Made
    /\ OnWhenSent
    /\ ReleasedHere
    /\ JobsCross
    /\ SlotsBalanced
    /\ OnlyCrossersHaunt

----------------------------------------------------------------------------
(* Lemmas *)

LEMMA HoldersFinite ==
    ASSUME NEW c
    PROVE  IsFiniteSet(Holders(c)) /\ Cardinality(Holders(c)) \in Nat
<1>1. Holders(c) \in SUBSET Call
  BY DEF Holders
<1> QED
  BY <1>1, FS_Subset, FS_CardinalityType, ConnectionPoolAssumption

LEMMA ReturnsFinite ==
    ASSUME NEW R \in SUBSET Call, NEW c
    PROVE  IsFiniteSet(Returns(R, c)) /\ Cardinality(Returns(R, c)) \in Nat
<1>1. Returns(R, c) \in SUBSET Call
  BY DEF Returns
<1> QED
  BY <1>1, FS_Subset, FS_CardinalityType, ConnectionPoolAssumption

\* Settling calls keeps the types.
LEMMA EndType ==
    ASSUME TypeOK, NEW R \in SUBSET Call, End(R)
    PROVE  /\ status' \in [Call -> {"idle", "waiting", "sent"}]
           /\ on' \in [Call -> Conn \cup {None}]
           /\ releaser' \in [Call -> Pool \cup {None}]
           /\ activeRequests' \in [Conn -> Nat]
<1>1. \A c \in Conn : Cardinality(Returns(R, c)) \in Nat
  BY ReturnsFinite
<1>2. \A c \in Conn : activeRequests[c] \in Nat
  BY DEF TypeOK
<1>3. activeRequests' \in [Conn -> Nat]
  BY <1>1, <1>2 DEF End
<1> QED
  BY <1>3 DEF End, TypeOK

\* One more call on a connection.
LEMMA OneMore ==
    ASSUME TypeOK, NEW r \in Call, NEW b \in Conn, on[r] = None, on' = [on EXCEPT ![r] = b],
           NEW c \in Conn
    PROVE  Cardinality(Holders(c)') =
             IF c = b THEN Cardinality(Holders(c)) + 1 ELSE Cardinality(Holders(c))
<1>1. b # None
  BY ConnectionPoolAssumption
<1>2. CASE c = b
  <2>1. Holders(c)' = Holders(c) \cup {r} /\ r \notin Holders(c)
    BY <1>1, <1>2 DEF Holders, TypeOK
  <2> QED
    BY <1>2, <2>1, HoldersFinite, FS_AddElement
<1>3. CASE c # b
  <2>1. Holders(c)' = Holders(c)
    BY <1>3, ConnectionPoolAssumption DEF Holders, TypeOK
  <2> QED
    BY <1>3, <2>1
<1> QED
  BY <1>2, <1>3

\* A call settles: its connection counts one less, if the session's pool owns it.
LEMMA OneLess ==
    ASSUME IInv, NEW r \in Call, End({r}), UNCHANGED <<worldPool, connections>>
    PROVE  SlotsBalanced'
<1> SUFFICES ASSUME worldPool # None, NEW c \in connections[worldPool]
             PROVE  activeRequests'[c] = Cardinality(Holders(c)')
  BY DEF SlotsBalanced
<1>1. worldPool \in Pool /\ c \in Conn /\ owner[c] = worldPool
  BY DEF IInv, TypeOK, Owned
<1>2. activeRequests[c] = Cardinality(Holders(c))
  BY DEF IInv, SlotsBalanced
<1>3. c # None
  BY <1>1, ConnectionPoolAssumption
<1>4. activeRequests'[c] = IF activeRequests[c] > Cardinality(Returns({r}, c))
                           THEN activeRequests[c] - Cardinality(Returns({r}, c)) ELSE 0
  BY <1>1 DEF End
<1>5. CASE on[r] = c
  <2>1. releaser[r] # None
    BY <1>1, <1>3, <1>5 DEF IInv, ReleasedHere
  <2>2. Returns({r}, c) = {r}
    BY <1>5, <2>1 DEF Returns
  <2>3. Holders(c)' = Holders(c) \ {r} /\ r \in Holders(c)
    BY <1>3, <1>5 DEF Holders, End
  <2>4. Cardinality(Holders(c)') = Cardinality(Holders(c)) - 1
    BY <2>3, HoldersFinite, FS_RemoveElement
  <2>5. Cardinality(Holders(c)) # 0
    BY <2>3, HoldersFinite, FS_EmptySet
  <2>6. Cardinality(Returns({r}, c)) = 1
    BY <2>2, FS_Singleton
  <2>7. Cardinality(Holders(c)) \in Nat
    BY HoldersFinite
  <2> QED
    BY <1>2, <1>4, <2>4, <2>5, <2>6, <2>7
<1>6. CASE on[r] # c
  <2>1. Returns({r}, c) = {}
    BY <1>6 DEF Returns
  <2>2. Holders(c)' = Holders(c)
    BY <1>3, <1>6 DEF Holders, End
  <2>3. Cardinality(Returns({r}, c)) = 0 /\ Cardinality(Holders(c)) \in Nat
    BY <2>1, FS_EmptySet, HoldersFinite
  <2> QED
    BY <1>2, <1>4, <2>2, <2>3
<1> QED
  BY <1>5, <1>6

\* A slot is acquired on an established connection by a call that is on none.
LEMMA Acquired ==
    ASSUME IInv, NEW r \in Call, NEW b \in Conn, on[r] = None, HandOut(r, b),
           UNCHANGED worldPool,
           \A p \in Pool : connections'[p] \subseteq connections[p]
    PROVE  SlotsBalanced'
<1> SUFFICES ASSUME worldPool # None, NEW c \in connections'[worldPool]
             PROVE  activeRequests'[c] = Cardinality(Holders(c)')
  BY DEF SlotsBalanced
<1>1. c \in Conn /\ c \in connections[worldPool]
  BY DEF IInv, TypeOK
<1>2. activeRequests[c] = Cardinality(Holders(c))
  BY <1>1 DEF IInv, SlotsBalanced
<1>3. activeRequests'[c] = IF c = b THEN activeRequests[c] + 1 ELSE activeRequests[c]
  BY <1>1 DEF HandOut, IInv, TypeOK
<1>4. Cardinality(Holders(c)') =
        IF c = b THEN Cardinality(Holders(c)) + 1 ELSE Cardinality(Holders(c))
  BY <1>1, OneMore DEF IInv, HandOut, Carries
<1> QED
  BY <1>2, <1>3, <1>4

----------------------------------------------------------------------------
(* The actions *)

LEMMA InitEstablishes == Init => IInv
<1> SUFFICES ASSUME Init
             PROVE  IInv
  OBVIOUS
<1>1. NoJob \in Job
  BY DEF NoJob, Job
<1>2. TypeOK
  <2>1. 0 \in 0 .. MaxTimeouts
    BY ConnectionPoolAssumption
  <2>2. job \in [Conn -> Job]
    BY <1>1 DEF Init
  <2> QED
    BY <2>1, <2>2 DEF Init, TypeOK
<1>3. Jobs /\ OneJobPerCall /\ JobsCross
  BY DEF Init, NoJob, Jobs, OneJobPerCall, JobsCross
<1>4. Untouched
  <2>1. \A c \in Conn : c # None
    BY ConnectionPoolAssumption
  <2> QED
    BY <2>1 DEF Init, NoJob, Untouched
<1>5. Owned /\ Made /\ OnWhenSent /\ ReleasedHere /\ SlotsBalanced /\ OnlyCrossersHaunt
  BY DEF Init, Owned, Made, OnWhenSent, ReleasedHere, SlotsBalanced, OnlyCrossersHaunt
<1> QED
  BY <1>2, <1>3, <1>4, <1>5 DEF IInv

LEMMA AnswerStep ==
    ASSUME IInv, NEW r \in Call, Answer(r)
    PROVE  IInv'
<1>1. {r} \in SUBSET Call /\ End({r}) /\ status[r] = "sent"
  BY DEF Answer
<1>2. UNCHANGED <<worldPool, connections, socket, owner, job>>
  BY DEF Answer, poolVars
<1>3. TypeOK'
  <2>1. on[r] \in Conn
    BY <1>1 DEF IInv, OnWhenSent, TypeOK
  <2>2. consecutiveTimeouts' \in [Conn -> 0 .. MaxTimeouts]
    BY <2>1, ConnectionPoolAssumption DEF Answer, IInv, TypeOK
  <2> QED
    BY <1>1, <2>2, EndType DEF Answer, IInv, TypeOK, poolVars, linkVars
<1>4. Untouched'
  BY <1>1, <1>2, ConnectionPoolAssumption DEF IInv, Untouched, End
<1>5. Jobs'
  <2>1. \A c \in Conn : job[c].call # None => status'[job[c].call] = "waiting"
    <3> TAKE c \in Conn
    <3>1. job[c].call \in Call \cup {None}
      BY DEF IInv, TypeOK, Job
    <3>2. job[c].call # None => job[c].call # r
      BY <1>1 DEF IInv, Jobs
    <3> QED
      BY <1>1, <3>1, <3>2 DEF IInv, Jobs, End
  <2> QED
    BY <1>2, <2>1 DEF IInv, Jobs
<1>6. OneJobPerCall' /\ Owned' /\ Made'
  BY <1>2 DEF IInv, OneJobPerCall, Owned, Made
<1>7. OnWhenSent'
  BY <1>1 DEF IInv, OnWhenSent, End
<1>8. ReleasedHere'
  BY <1>1, <1>2 DEF IInv, ReleasedHere, End
<1>9. JobsCross'
  <2>1. \A c \in Conn : job[c].call # r
    BY <1>1, ConnectionPoolAssumption DEF IInv, Jobs
  <2> QED
    BY <1>2, <2>1 DEF IInv, JobsCross, Answer, TypeOK
<1>10. SlotsBalanced'
  BY <1>1, <1>2, OneLess
<1>11. OnlyCrossersHaunt'
  BY <1>1, <1>2 DEF IInv, OnlyCrossersHaunt, Answer, End, TypeOK
<1> QED
  BY <1>3, <1>4, <1>5, <1>6, <1>7, <1>8, <1>9, <1>10, <1>11 DEF IInv

LEMMA ConnectionLostStep ==
    ASSUME IInv, NEW c \in Conn, ConnectionLost(c)
    PROVE  IInv'
<1>1. UNCHANGED <<worldPool, connections, owner, job, status, on, releaser, crossed, activeRequests>>
  BY DEF ConnectionLost, poolVars, callVars
<1>2. \A d \in Conn : socket'[d] \in {"none", "connecting"} <=> socket[d] \in {"none", "connecting"}
  BY DEF ConnectionLost, IInv, TypeOK
<1>3. \A d \in Conn : socket'[d] = "connecting" <=> socket[d] = "connecting"
  BY DEF ConnectionLost, IInv, TypeOK
<1>4. TypeOK'
  BY DEF ConnectionLost, IInv, TypeOK, poolVars, callVars, linkVars
<1>5. Untouched'
  BY <1>1, <1>2 DEF IInv, Untouched
<1>6. Jobs'
  BY <1>1, <1>3 DEF IInv, Jobs
<1>7. Made'
  BY <1>1 DEF ConnectionLost, IInv, TypeOK, Made
<1> QED
  BY <1>1, <1>4, <1>5, <1>6, <1>7
     DEF IInv, OneJobPerCall, Owned, OnWhenSent, ReleasedHere, JobsCross, SlotsBalanced, Holders,
         OnlyCrossersHaunt

LEMMA HealthCheckStep ==
    ASSUME IInv, NEW p \in Pool, HealthCheck(p)
    PROVE  IInv'
<1>1. UNCHANGED <<worldPool, socket, owner, job, status, on, releaser, crossed, activeRequests>>
  BY DEF HealthCheck, connVars, callVars
<1>2. \A q \in Pool : connections'[q] \subseteq connections[q]
  BY DEF HealthCheck, Alive, IInv, TypeOK
<1>3. TypeOK'
  BY DEF HealthCheck, Alive, IInv, TypeOK, connVars, callVars, linkVars
<1>4. Untouched'
  BY <1>1, <1>2 DEF IInv, Untouched
<1>5. Owned'
  BY <1>1, <1>2 DEF IInv, Owned
<1>6. SlotsBalanced'
  BY <1>1, <1>2 DEF IInv, TypeOK, SlotsBalanced, Holders
<1> QED
  BY <1>1, <1>3, <1>4, <1>5, <1>6
     DEF IInv, Jobs, OneJobPerCall, Made, OnWhenSent, ReleasedHere, JobsCross, OnlyCrossersHaunt

\* The pools, the jobs and who is where, when sockets only die and calls only settle.
LEMMA CloseTypes ==
    ASSUME TypeOK, NEW conns \in [Pool -> SUBSET Conn], NEW events \in [Conn -> BOOLEAN],
           DropPool(conns, events)
    PROVE  /\ worldPool' \in Pool \cup {None}
           /\ connections' \in [Pool -> SUBSET Conn]
           /\ socket' \in [Conn -> {"none", "connecting", "open", "destroyed"}]
           /\ closing' \in [Conn -> BOOLEAN]
           /\ status' \in [Call -> {"idle", "waiting", "sent"}]
           /\ on' \in [Call -> Conn \cup {None}]
           /\ releaser' \in [Call -> Pool \cup {None}]
           /\ activeRequests' \in [Conn -> Nat]
           /\ crossed' \in [Call -> BOOLEAN]
<1>1. Sent \in SUBSET Call /\ End(Sent)
  BY DEF Sent, DropPool
<1>2. closing' = [c \in Conn |-> events[c] /\ c \notin (IF worldPool = None THEN {} ELSE conns[worldPool])]
  BY DEF DropPool, Emptied
<1>3. closing' \in [Conn -> BOOLEAN]
  BY Zenon, <1>2
<1>4. crossed' \in [Call -> BOOLEAN]
  BY DEF DropPool
<1>5. connections' \in [Pool -> SUBSET Conn]
  BY DEF DropPool, Emptied
<1>6. socket' \in [Conn -> {"none", "connecting", "open", "destroyed"}]
  BY DEF DropPool, Emptied, TypeOK
<1> QED
  BY <1>1, <1>3, <1>4, <1>5, <1>6, EndType DEF DropPool

\* Dropping the pool (a reconnect, the end of the session) keeps the invariant.
LEMMA DropPoolStep ==
    ASSUME IInv, NEW conns \in [Pool -> SUBSET Conn], NEW events \in [Conn -> BOOLEAN],
           \A p \in Pool : conns[p] \subseteq connections[p],
           DropPool(conns, events), UNCHANGED <<owner, job>>, TypeOK'
    PROVE  IInv'
<1>1. End(Sent) /\ worldPool' = None
  BY DEF DropPool
<1>2. \A p \in Pool : connections'[p] \subseteq connections[p]
  BY DEF DropPool, Emptied
<1>3. \A r \in Call : on'[r] = None /\ status'[r] # "sent"
  BY <1>1 DEF End, Sent, IInv, OnWhenSent
<1>4. \A r \in Call : status'[r] = "waiting" <=> status[r] = "waiting"
  BY <1>1 DEF End, Sent
<1>5. \A c \in Conn : socket[c] \in {"none", "connecting"} => socket'[c] = socket[c]
  <2> SUFFICES ASSUME NEW c \in Conn, socket[c] \in {"none", "connecting"}
               PROVE  socket'[c] = socket[c]
    OBVIOUS
  <2>1. worldPool # None => c \notin conns[worldPool]
    BY DEF IInv, Untouched, TypeOK
  <2> QED
    BY <2>1 DEF DropPool, Emptied
<1>6. \A c \in Conn : socket'[c] \in {"none", "connecting"} => socket'[c] = socket[c]
  BY DEF DropPool, Emptied
<1>7. Untouched'
  <2>1. \A c \in Conn : c # None
    BY ConnectionPoolAssumption
  <2> QED
    BY <1>2, <1>3, <1>6, <2>1 DEF IInv, Untouched
<1>8. Jobs'
  <2>1. \A c \in Conn : job[c].call # None => status'[job[c].call] = "waiting"
    <3> TAKE c \in Conn
    <3>1. job[c].call \in Call \cup {None}
      BY DEF IInv, TypeOK, Job
    <3> QED
      BY <1>4, <3>1 DEF IInv, Jobs
  <2>2. \A c \in Conn : socket'[c] = "connecting" <=> socket[c] = "connecting"
    BY <1>5, <1>6
  <2> QED
    BY <2>1, <2>2 DEF IInv, Jobs
<1>9. Owned' /\ Made'
  <2>1. \A c \in Conn : socket'[c] # "none" => socket[c] # "none"
    BY <1>5
  <2> QED
    BY <1>2, <2>1 DEF IInv, Owned, Made
<1>10. JobsCross'
  <2> SUFFICES ASSUME NEW c \in Conn, job[c].call # None
               PROVE  crossed'[job[c].call]
    BY DEF JobsCross
  <2>1. job[c].call \in Call /\ status[job[c].call] = "waiting"
    BY DEF IInv, TypeOK, Job, Jobs
  <2>2. crossed' = [r \in Call |-> status[r] = "waiting"]
    BY DEF DropPool
  <2> QED
    BY <2>1, <2>2
<1>11. OnWhenSent' /\ ReleasedHere' /\ SlotsBalanced' /\ OnlyCrossersHaunt'
  BY <1>1, <1>3 DEF OnWhenSent, ReleasedHere, SlotsBalanced, OnlyCrossersHaunt
<1>12. OneJobPerCall'
  BY DEF IInv, OneJobPerCall
<1> QED
  BY <1>7, <1>8, <1>9, <1>10, <1>11, <1>12 DEF IInv

LEMMA LeaveStep ==
    ASSUME IInv, Leave
    PROVE  IInv'
<1>1. connections \in [Pool -> SUBSET Conn] /\ closing \in [Conn -> BOOLEAN]
  BY DEF IInv, TypeOK
<1>2. DropPool(connections, closing) /\ UNCHANGED <<owner, job>>
  BY DEF Leave
<1>3. TypeOK'
  <2>1. closed' \in [Pool -> BOOLEAN] /\ checking' \in [Pool -> BOOLEAN]
    BY Zenon DEF Leave
  <2> QED
    BY <1>1, <1>2, <2>1, CloseTypes DEF Leave, IInv, TypeOK
<1> QED
  BY <1>1, <1>2, <1>3, DropPoolStep

\* Nothing but the primary socket changes.
LEMMA QuietStep ==
    ASSUME IInv, TypeOK', UNCHANGED <<worldPool, connections, socket, owner, job, callVars>>
    PROVE  IInv'
BY DEF IInv, callVars, Untouched, Jobs, OneJobPerCall, Owned, Made, OnWhenSent, ReleasedHere, JobsCross,
       SlotsBalanced, Holders, OnlyCrossersHaunt

LEMMA PrimaryLostStep ==
    ASSUME IInv, PrimaryLost
    PROVE  IInv'
<1>1. connections \in [Pool -> SUBSET Conn] /\ closing \in [Conn -> BOOLEAN]
  BY DEF IInv, TypeOK
<1>2. CASE UNCHANGED <<worldPool, connections, socket, closing, callVars, phase>>
  <2>1. TypeOK'
    BY <1>2 DEF PrimaryLost, IInv, TypeOK, callVars
  <2> QED
    BY <1>2, <2>1, QuietStep DEF PrimaryLost
<1>3. CASE Reconnect(connections, closing)
  <2>1. DropPool(connections, closing) /\ phase' = "reconnecting" /\ UNCHANGED <<owner, job>>
    BY <1>3 DEF Reconnect, PrimaryLost
  <2>2. TypeOK'
    BY <1>1, <2>1, CloseTypes DEF PrimaryLost, IInv, TypeOK
  <2> QED
    BY <1>1, <2>1, <2>2, DropPoolStep
<1> QED
  BY <1>2, <1>3 DEF PrimaryLost

LEMMA OnDemandStep ==
    ASSUME IInv, ReconnectOnDemand
    PROVE  IInv'
<1>1. connections \in [Pool -> SUBSET Conn] /\ closing \in [Conn -> BOOLEAN]
  BY DEF IInv, TypeOK
<1>2. DropPool(connections, closing) /\ phase' = "reconnecting" /\ UNCHANGED <<owner, job>>
  BY DEF Reconnect, ReconnectOnDemand
<1>3. TypeOK'
  BY <1>1, <1>2, CloseTypes DEF ReconnectOnDemand, IInv, TypeOK
<1> QED
  BY <1>1, <1>2, <1>3, DropPoolStep

LEMMA CloseEventStep ==
    ASSUME IInv, NEW c \in Conn, CloseEvent(c)
    PROVE  IInv'
<1> DEFINE left   == [connections EXCEPT ![owner[c]] = @ \ {c}]
           events == [closing EXCEPT ![c] = FALSE]
<1>1. left \in [Pool -> SUBSET Conn] /\ events \in [Conn -> BOOLEAN]
  BY DEF IInv, TypeOK
<1>2. \A p \in Pool : left[p] \subseteq connections[p]
  BY DEF IInv, TypeOK
<1>3. CASE /\ connections' = left /\ closing' = events
           /\ UNCHANGED <<worldPool, socket, callVars, phase>>
  <2>1. TypeOK'
    BY <1>1, <1>3 DEF CloseEvent, IInv, TypeOK, callVars
  <2>2. Untouched'
    BY <1>2, <1>3 DEF CloseEvent, IInv, Untouched, callVars
  <2>3. Owned'
    BY <1>2, <1>3 DEF CloseEvent, IInv, Owned
  <2>4. SlotsBalanced'
    BY <1>2, <1>3 DEF IInv, TypeOK, SlotsBalanced, Holders, callVars
  <2> QED
    BY <1>3, <2>1, <2>2, <2>3, <2>4
       DEF CloseEvent, IInv, callVars, Jobs, OneJobPerCall, Made, OnWhenSent, ReleasedHere, JobsCross,
           OnlyCrossersHaunt
<1>4. CASE Reconnect(left, events)
  <2>1. DropPool(left, events) /\ phase' = "reconnecting" /\ UNCHANGED <<owner, job>>
    BY <1>4 DEF Reconnect, CloseEvent
  <2>2. TypeOK'
    BY <1>1, <2>1, CloseTypes DEF CloseEvent, IInv, TypeOK
  <2> QED
    BY <1>1, <1>2, <2>1, <2>2, DropPoolStep
<1> QED
  BY <1>3, <1>4 DEF CloseEvent

LEMMA InitWorldPoolStep ==
    ASSUME IInv, InitWorldPool
    PROVE  IInv'
<1> PICK p \in Pool : FreePool(p) /\ worldPool' = p
                      /\ closed' = [closed EXCEPT ![p] = FALSE]
                      /\ checking' = [checking EXCEPT ![p] = FALSE]
  BY DEF InitWorldPool
<1>1. UNCHANGED <<connections, socket, owner, job, status, on, releaser, crossed, activeRequests>>
  BY DEF InitWorldPool, connVars, callVars
<1>2. TypeOK'
  BY DEF InitWorldPool, IInv, TypeOK, connVars, callVars
<1>3. ReleasedHere'
  BY <1>1 DEF FreePool, ReleasedHere
<1>4. JobsCross'
  <2>1. \A c \in Conn : job[c].call # None => job[c].pool # None
    BY ConnectionPoolAssumption DEF IInv, Jobs, NoJob
  <2>2. worldPool = None
    BY DEF InitWorldPool
  <2> QED
    BY <1>1, <2>1, <2>2 DEF IInv, JobsCross
<1>5. SlotsBalanced'
  BY <1>1 DEF FreePool, SlotsBalanced
<1>6. OnlyCrossersHaunt'
  <2>1. \A r \in Call : status[r] = "sent" => owner[on[r]] \in Pool
    BY DEF IInv, TypeOK, OnWhenSent, Untouched, Made
  <2>2. worldPool = None
    BY DEF InitWorldPool
  <2> QED
    BY <1>1, <2>1, <2>2, ConnectionPoolAssumption DEF IInv, OnlyCrossersHaunt
<1> QED
  BY <1>1, <1>2, <1>3, <1>4, <1>5, <1>6
     DEF IInv, Untouched, Jobs, OneJobPerCall, Owned, Made, OnWhenSent

\* A creation that begins: its connection is referred to by nothing.
LEMMA CreatingTypes ==
    ASSUME TypeOK, NEW c \in Conn, NEW j \in Job,
           NEW sockets \in [Conn -> {"none", "connecting", "open", "destroyed"}],
           NEW jobs \in [Conn -> Job], Creating(c, j, sockets, jobs)
    PROVE  /\ socket' \in [Conn -> {"none", "connecting", "open", "destroyed"}]
           /\ owner' \in [Conn -> Pool \cup {None}]
           /\ job' \in [Conn -> Job]
<1>1. j.pool \in Pool \cup {None}
  BY DEF Job
<1> QED
  BY <1>1 DEF Creating, TypeOK

LEMMA PopulateStep ==
    ASSUME IInv, PopulateWorldPool
    PROVE  IInv'
<1> PICK c \in Conn : Creating(c, InitialJob(worldPool), socket, job)
  BY DEF PopulateWorldPool
<1> DEFINE j == InitialJob(worldPool)
<1>1. UNCHANGED <<worldPool, connections, status, on, releaser, crossed, activeRequests>>
  BY DEF PopulateWorldPool, poolVars, callVars
<1>2. worldPool \in Pool /\ worldPool # None
  BY DEF PopulateWorldPool, IInv, TypeOK
<1>3. j \in Job /\ j.for = "initial" /\ j.pool = worldPool /\ j.call = None /\ j.other = None
  BY <1>2 DEF InitialJob, Job
<1>4. TypeOK'
  <2>1. socket \in [Conn -> {"none", "connecting", "open", "destroyed"}] /\ job \in [Conn -> Job]
    BY DEF IInv, TypeOK
  <2> QED
    BY <1>3, <2>1, CreatingTypes DEF PopulateWorldPool, IInv, TypeOK, poolVars, callVars
<1> HIDE DEF j
<1>5. /\ socket' = [socket EXCEPT ![c] = "connecting"]
      /\ owner' = [owner EXCEPT ![c] = worldPool]
      /\ job' = [job EXCEPT ![c] = j]
      /\ Garbage(c)
  BY <1>3 DEF Creating, j
<1>6. Untouched'
  <2>1. \A d \in Conn : d # None
    BY ConnectionPoolAssumption
  <2> QED
    BY <1>1, <1>3, <1>5, <2>1 DEF IInv, TypeOK, Untouched, Garbage
<1>7. Jobs'
  BY <1>1, <1>2, <1>3, <1>5 DEF IInv, TypeOK, Jobs, Garbage
<1>8. OneJobPerCall'
  BY <1>3, <1>5 DEF IInv, TypeOK, OneJobPerCall
<1>9. Owned' /\ Made'
  BY <1>1, <1>2, <1>5 DEF IInv, TypeOK, Owned, Made, Garbage
<1>10. OnWhenSent'
  BY <1>1 DEF IInv, OnWhenSent
<1>11. ReleasedHere' /\ OnlyCrossersHaunt'
  BY <1>1, <1>5 DEF IInv, TypeOK, ReleasedHere, OnlyCrossersHaunt, OnWhenSent, Garbage
<1>12. JobsCross'
  BY <1>1, <1>3, <1>5 DEF IInv, TypeOK, JobsCross
<1>13. SlotsBalanced'
  BY <1>1 DEF IInv, SlotsBalanced, Holders
<1> QED
  BY <1>4, <1>6, <1>7, <1>8, <1>9, <1>10, <1>11, <1>12, <1>13 DEF IInv

LEMMA BoundStep ==
    ASSUME IInv, Bound
    PROVE  IInv'
<1>1. TypeOK'
  BY DEF Bound, IInv, TypeOK, connVars, poolVars, callVars
<1> QED
  BY <1>1, QuietStep DEF Bound, connVars, poolVars

\* What the pool chooses from.
LEMMA BestIsPooled ==
    ASSUME IInv, NEW p \in Pool, NEW b \in Best(p)
    PROVE  /\ b \in Conn /\ b \in connections[p] /\ owner[b] = p
           /\ socket[b] \notin {"none", "connecting"}
<1>1. b \in connections[p] /\ b \in Conn
  BY DEF IInv, TypeOK, Best, Candidates, Alive
<1> QED
  BY <1>1 DEF IInv, Untouched, Owned

\* A request takes a pooled connection at once.
LEMMA TakesBest ==
    ASSUME IInv, NEW r \in Call, status[r] = "idle", worldPool # None,
           NEW b \in Best(worldPool), HandOut(r, b),
           connections' = [connections EXCEPT ![worldPool] = Alive(worldPool)],
           UNCHANGED <<connVars, worldPool, closed, checking, crossed, linkVars>>
    PROVE  IInv'
<1>1. worldPool \in Pool
  BY DEF IInv, TypeOK
<1>2. b \in Conn /\ owner[b] = worldPool /\ socket[b] \notin {"none", "connecting"} /\ b # None
  BY <1>1, BestIsPooled, ConnectionPoolAssumption
<1>3. on[r] = None
  BY DEF IInv, OnWhenSent
<1>4. /\ status' = [status EXCEPT ![r] = "sent"]
      /\ on' = [on EXCEPT ![r] = b]
      /\ releaser' = [releaser EXCEPT ![r] = worldPool]
      /\ activeRequests' = [activeRequests EXCEPT ![b] = @ + 1]
  BY DEF HandOut, Carries
<1>5. \A p \in Pool : connections'[p] \subseteq connections[p]
  BY DEF IInv, TypeOK, Alive
<1>6. TypeOK'
  <2>1. connections' \in [Pool -> SUBSET Conn]
    BY DEF IInv, TypeOK, Alive
  <2>2. /\ status' \in [Call -> {"idle", "waiting", "sent"}] /\ on' \in [Call -> Conn \cup {None}]
        /\ releaser' \in [Call -> Pool \cup {None}]
    BY <1>1, <1>2, <1>4 DEF IInv, TypeOK
  <2>3. activeRequests' \in [Conn -> Nat]
    <3>1. activeRequests \in [Conn -> Nat] /\ activeRequests[b] + 1 \in Nat
      BY <1>2 DEF IInv, TypeOK
    <3> QED
      BY <1>4, <3>1
  <2> QED
    BY <2>1, <2>2, <2>3 DEF IInv, TypeOK, connVars, linkVars
<1>7. Untouched'
  BY <1>2, <1>4, <1>5 DEF IInv, TypeOK, Untouched, connVars
<1>8. Jobs'
  <2>1. \A c \in Conn : job[c].call # r
    BY ConnectionPoolAssumption DEF IInv, Jobs
  <2>2. \A c \in Conn : job[c].call \in Call \cup {None}
    BY DEF IInv, TypeOK, Job
  <2>3. \A c \in Conn : job[c].call # None => status'[job[c].call] = "waiting"
    BY <1>4, <2>1, <2>2 DEF IInv, TypeOK, Jobs
  <2> QED
    BY <2>3 DEF IInv, Jobs, connVars
<1>9. OneJobPerCall' /\ Owned' /\ Made' /\ JobsCross'
  BY <1>5 DEF IInv, OneJobPerCall, Owned, Made, JobsCross, connVars
<1>10. OnWhenSent' /\ ReleasedHere' /\ OnlyCrossersHaunt'
  BY <1>2, <1>4 DEF IInv, TypeOK, OnWhenSent, ReleasedHere, OnlyCrossersHaunt, connVars
<1>11. SlotsBalanced'
  BY <1>2, <1>3, <1>5, Acquired
<1> QED
  BY <1>6, <1>7, <1>8, <1>9, <1>10, <1>11 DEF IInv

\* A request starts a creation and waits for it.
LEMMA StartsWaiting ==
    ASSUME IInv, NEW r \in Call, status[r] = "idle", worldPool # None,
           NEW c \in Conn, NEW j \in Job, Awaits(r, c, j),
           j.for \in {"expand", "fresh"}, j.pool = worldPool, j.call = r,
           j.other # None => j.other \in Best(worldPool),
           connections' = [connections EXCEPT ![worldPool] = Alive(worldPool)],
           UNCHANGED <<worldPool, closed, checking, crossed, linkVars>>
    PROVE  IInv'
<1>1. worldPool \in Pool
  BY DEF IInv, TypeOK
<1>2. /\ socket' = [socket EXCEPT ![c] = "connecting"]
      /\ owner' = [owner EXCEPT ![c] = worldPool]
      /\ job' = [job EXCEPT ![c] = j]
      /\ Garbage(c)
  BY DEF Awaits, Creating
<1>3. /\ status' = [status EXCEPT ![r] = "waiting"]
      /\ UNCHANGED <<closing, consecutiveTimeouts, replacing, on, releaser, activeRequests>>
  BY DEF Awaits
<1>4. \A p \in Pool : connections'[p] \subseteq connections[p]
  BY DEF IInv, TypeOK, Alive
<1>5. j.other # None => /\ j.other \in Conn /\ owner[j.other] = worldPool /\ j.other # c
                        /\ socket[j.other] \notin {"none", "connecting"}
  <2>1. j.other # None => j.other \in connections[worldPool]
    BY <1>1, BestIsPooled
  <2> QED
    BY <1>1, <1>2, <2>1, BestIsPooled DEF Garbage
<1>6. r # None /\ c # None
  BY ConnectionPoolAssumption
<1>7. TypeOK'
  <2>1. connections' \in [Pool -> SUBSET Conn]
    BY DEF IInv, TypeOK, Alive
  <2>2. owner' \in [Conn -> Pool \cup {None}]
    BY <1>1, <1>2 DEF IInv, TypeOK
  <2>3. job' \in [Conn -> Job]
    BY <1>2 DEF IInv, TypeOK
  <2> QED
    BY <1>2, <1>3, <2>1, <2>2, <2>3 DEF IInv, TypeOK, linkVars
<1>8. Untouched'
  <2> SUFFICES ASSUME NEW d \in Conn, socket'[d] \in {"none", "connecting"}
               PROVE  /\ \A p \in Pool : d \notin connections'[p]
                      /\ \A q \in Call : on'[q] # d
                      /\ \A e \in Conn : job'[e].other # d
    BY DEF Untouched
  <2>1. /\ \A p \in Pool : d \notin connections[p]
        /\ \A q \in Call : on[q] # d
        /\ \A e \in Conn : job[e].other # d
    BY <1>2 DEF IInv, TypeOK, Untouched, Garbage
  <2>2. j.other # d
    BY <1>2, <1>5, ConnectionPoolAssumption DEF IInv, TypeOK
  <2>3. \A e \in Conn : job'[e] = IF e = c THEN j ELSE job[e]
    BY <1>2 DEF IInv, TypeOK
  <2> QED
    BY <1>3, <1>4, <2>1, <2>2, <2>3
<1>9. \A d \in Conn : job[d].call # r
  BY <1>6 DEF IInv, Jobs
<1>10. Jobs'
  <2>1. \A d \in Conn : job[d].call \in Call \cup {None}
    BY DEF IInv, TypeOK, Job
  <2>2. \A d \in Conn : job'[d].call # None => status'[job'[d].call] = "waiting"
    BY <1>2, <1>3, <1>9, <2>1 DEF IInv, TypeOK, Jobs
  <2>3. \A d \in Conn : job'[d].for # "none" <=> socket'[d] = "connecting"
    BY <1>2 DEF IInv, TypeOK, Jobs
  <2>4. \A d \in Conn : d # c => job'[d] = job[d] /\ owner'[d] = owner[d]
    BY <1>2 DEF IInv, TypeOK
  <2>5. job'[c] = j /\ owner'[c] = worldPool
    BY <1>2 DEF IInv, TypeOK
  <2>6. \A d \in Conn : d # c => job[d].other # c
    BY <1>2 DEF Garbage
  <2>7. j.for # "none" /\ j.for # "replace"
    OBVIOUS
  <2>8. \A d \in Conn : d # c /\ job[d].for = "expand" /\ job[d].other # None
                           => owner'[job[d].other] = job[d].pool
    <3> TAKE d \in Conn
    <3>1. job[d].other \in Conn \cup {None}
      BY DEF IInv, TypeOK, Job
    <3> QED
      BY <2>4, <2>6, <3>1 DEF IInv, Jobs
  <2>9. j.other # None => owner'[j.other] = worldPool
    BY <1>5, <2>4
  <2> SUFFICES ASSUME NEW d \in Conn
               PROVE  /\ job'[d].for # "none" <=> socket'[d] = "connecting"
                      /\ job'[d].for = "none" => job'[d] = NoJob
                      /\ job'[d].for # "none" => job'[d].pool \in Pool /\ owner'[d] = job'[d].pool
                      /\ job'[d].for \in {"expand", "fresh"} => job'[d].call \in Call
                      /\ job'[d].call # None => status'[job'[d].call] = "waiting"
                      /\ job'[d].for = "replace" => job'[d].other \in Conn
                      /\ job'[d].for = "expand" /\ job'[d].other # None
                           => owner'[job'[d].other] = job'[d].pool
    BY DEF Jobs, NoJob
  <2>10. CASE d = c
    BY <1>1, <2>2, <2>3, <2>5, <2>7, <2>9, <2>10
  <2>11. CASE d # c
    BY <2>2, <2>3, <2>4, <2>8, <2>11 DEF IInv, Jobs
  <2> QED
    BY <2>10, <2>11
<1>11. OneJobPerCall'
  BY <1>2, <1>9 DEF IInv, TypeOK, OneJobPerCall
<1>12. Owned' /\ Made'
  BY <1>1, <1>2, <1>4 DEF IInv, TypeOK, Owned, Made, Garbage
<1>13. OnWhenSent'
  BY <1>3 DEF IInv, TypeOK, OnWhenSent
<1>14. ReleasedHere' /\ OnlyCrossersHaunt'
  BY <1>2, <1>3 DEF IInv, TypeOK, ReleasedHere, OnlyCrossersHaunt, OnWhenSent, Garbage
<1>15. JobsCross'
  BY <1>2 DEF IInv, TypeOK, JobsCross
<1>16. SlotsBalanced'
  BY <1>1, <1>3, <1>4 DEF IInv, SlotsBalanced, Holders
<1> QED
  BY <1>7, <1>8, <1>10, <1>11, <1>12, <1>13, <1>14, <1>15, <1>16 DEF IInv

LEMMA RequestStep ==
    ASSUME IInv, NEW r \in Call, Request(r)
    PROVE  IInv'
<1>1. /\ status[r] = "idle" /\ worldPool # None /\ worldPool \in Pool
      /\ GetConnection(r, worldPool)
      /\ UNCHANGED <<worldPool, closed, checking, crossed, linkVars>>
      /\ connections' = [connections EXCEPT ![worldPool] = Alive(worldPool)]
  BY DEF Request, GetConnection, IInv, TypeOK
<1>2. CASE \E b \in Best(worldPool) : HandOut(r, b) /\ UNCHANGED connVars
  BY <1>1, <1>2, TakesBest
<1>3. \A b \in Best(worldPool) \cup {None} :
        /\ ExpandJob(r, worldPool, b) \in Job /\ FreshJob(r, worldPool) \in Job
        /\ ExpandJob(r, worldPool, b).for = "expand" /\ FreshJob(r, worldPool).for = "fresh"
        /\ ExpandJob(r, worldPool, b).pool = worldPool /\ FreshJob(r, worldPool).pool = worldPool
        /\ ExpandJob(r, worldPool, b).call = r /\ FreshJob(r, worldPool).call = r
        /\ ExpandJob(r, worldPool, b).other = b /\ FreshJob(r, worldPool).other = None
  <2>1. \A b \in Best(worldPool) : b \in Conn
    BY <1>1, BestIsPooled
  <2> QED
    BY <1>1, <2>1 DEF ExpandJob, FreshJob, Job
<1>4. CASE \E c \in Conn, b \in Best(worldPool) \cup {None} : Awaits(r, c, ExpandJob(r, worldPool, b))
  <2> PICK c \in Conn, b \in Best(worldPool) \cup {None} : Awaits(r, c, ExpandJob(r, worldPool, b))
    BY <1>4
  <2> DEFINE j == ExpandJob(r, worldPool, b)
  <2>1. /\ j \in Job /\ j.for = "expand" /\ j.pool = worldPool /\ j.call = r
        /\ j.other # None => j.other \in Best(worldPool)
    BY <1>3
  <2>2. Awaits(r, c, j)
    OBVIOUS
  <2> HIDE DEF j
  <2> QED
    BY <1>1, <2>1, <2>2, StartsWaiting
<1>5. CASE \E c \in Conn : Awaits(r, c, FreshJob(r, worldPool))
  <2> PICK c \in Conn : Awaits(r, c, FreshJob(r, worldPool))
    BY <1>5
  <2> DEFINE j == FreshJob(r, worldPool)
  <2>1. j \in Job /\ j.for = "fresh" /\ j.pool = worldPool /\ j.call = r /\ j.other = None
    BY <1>3
  <2>2. Awaits(r, c, j)
    OBVIOUS
  <2> HIDE DEF j
  <2> QED
    BY <1>1, <2>1, <2>2, StartsWaiting
<1> QED
  BY <1>1, <1>2, <1>4, <1>5 DEF GetConnection

\* A deadline that starts a replacement, or does not.
LEMMA TimeoutStep ==
    ASSUME IInv, NEW r \in Call, Timeout(r)
    PROVE  IInv'
<1>1. End({r}) /\ {r} \in SUBSET Call /\ status[r] = "sent" /\ r # None
  BY ConnectionPoolAssumption DEF Timeout
<1>2. UNCHANGED <<worldPool, connections, closed, checking, closing, phase, primary, populated>>
  BY DEF Timeout, poolVars, linkVars, connVars
<1>3. crossed' = [crossed EXCEPT ![r] = FALSE]
  BY DEF Timeout
<1>4. on[r] \in Conn /\ socket[on[r]] \notin {"none", "connecting"}
  BY <1>1 DEF IInv, TypeOK, OnWhenSent, Untouched
<1>5. consecutiveTimeouts' \in [Conn -> 0 .. MaxTimeouts]
  <2>1. CASE releaser[r] = None
    BY <2>1 DEF Timeout, connVars, IInv, TypeOK
  <2>2. CASE releaser[r] # None
    <3>1. consecutiveTimeouts[on[r]] \in 0 .. MaxTimeouts /\ MaxTimeouts \in Nat
      BY <1>4, ConnectionPoolAssumption DEF IInv, TypeOK
    <3>2. (IF Degraded(on[r]) THEN MaxTimeouts ELSE consecutiveTimeouts[on[r]] + 1) \in 0 .. MaxTimeouts
      BY <3>1 DEF Degraded, TimedOut
    <3> QED
      BY <2>2, <3>2 DEF Timeout, IInv, TypeOK
  <2> QED
    BY <2>1, <2>2
<1>6. SlotsBalanced'
  BY <1>1, <1>2, OneLess
<1>7. OnWhenSent'
  BY <1>1 DEF IInv, OnWhenSent, End
<1>8. \A c \in Conn : job[c].call # r
  BY <1>1 DEF IInv, Jobs
<1>9. \A c \in Conn : job[c].call # None => status'[job[c].call] = "waiting"
  <2> TAKE c \in Conn
  <2>1. job[c].call \in Call \cup {None}
    BY DEF IInv, TypeOK, Job
  <2> QED
    BY <1>1, <1>8, <2>1 DEF IInv, Jobs, End
<1>10. CASE UNCHANGED <<socket, owner, replacing, job>>
  <2>1. TypeOK'
    BY <1>1, <1>2, <1>3, <1>5, <1>10, EndType DEF IInv, TypeOK
  <2>2. Untouched'
    BY <1>1, <1>2, <1>10, ConnectionPoolAssumption DEF IInv, Untouched, End
  <2>3. Jobs'
    BY <1>9, <1>10 DEF IInv, Jobs
  <2>4. OneJobPerCall' /\ Owned' /\ Made'
    BY <1>2, <1>10 DEF IInv, OneJobPerCall, Owned, Made
  <2>5. ReleasedHere' /\ OnlyCrossersHaunt'
    BY <1>1, <1>2, <1>3, <1>10 DEF IInv, TypeOK, ReleasedHere, OnlyCrossersHaunt, End
  <2>6. JobsCross'
    BY <1>2, <1>3, <1>8, <1>10 DEF IInv, TypeOK, JobsCross
  <2> QED
    BY <1>6, <1>7, <2>1, <2>2, <2>3, <2>4, <2>5, <2>6 DEF IInv
<1>11. CASE releaser[r] # None /\ StartReplace(releaser[r], on[r])
  <2> PICK c \in Conn : Creating(c, ReplaceJob(releaser[r], on[r]), socket, job)
    BY <1>11 DEF StartReplace
  <2> DEFINE j == ReplaceJob(releaser[r], on[r])
  <2>1. releaser[r] \in Pool
    BY <1>11 DEF IInv, TypeOK
  <2>2. /\ j \in Job /\ j.for = "replace" /\ j.pool = releaser[r] /\ j.call = None
        /\ j.other = on[r]
    BY <1>4, <2>1 DEF ReplaceJob, Job
  <2>3. /\ socket' = [socket EXCEPT ![c] = "connecting"]
        /\ owner' = [owner EXCEPT ![c] = releaser[r]]
        /\ job' = [job EXCEPT ![c] = j]
        /\ Garbage(c) /\ c # None
    BY <2>2, ConnectionPoolAssumption DEF Creating
  <2> HIDE DEF j
  <2>4. TypeOK'
    <3>1. replacing' \in [Conn -> BOOLEAN]
      BY <1>11 DEF StartReplace, IInv, TypeOK
    <3>2. owner' \in [Conn -> Pool \cup {None}] /\ job' \in [Conn -> Job]
          /\ socket' \in [Conn -> {"none", "connecting", "open", "destroyed"}]
      BY <2>1, <2>2, <2>3 DEF IInv, TypeOK
    <3>3. crossed' \in [Call -> BOOLEAN]
      BY <1>3 DEF IInv, TypeOK
    <3> QED
      BY <1>1, <1>2, <1>5, <3>1, <3>2, <3>3, EndType DEF IInv, TypeOK
  <2>5. \A d \in Conn : /\ d # c => job'[d] = job[d] /\ owner'[d] = owner[d] /\ socket'[d] = socket[d]
                                    /\ job[d].other # c
                        /\ d = c => job'[d] = j /\ owner'[d] = releaser[r]
                                    /\ socket'[d] = "connecting"
    BY <2>3 DEF IInv, TypeOK, Garbage
  <2>6. Untouched'
    <3> SUFFICES ASSUME NEW d \in Conn, socket'[d] \in {"none", "connecting"}
                 PROVE  /\ \A p \in Pool : d \notin connections'[p]
                        /\ \A q \in Call : on'[q] # d
                        /\ \A e \in Conn : job'[e].other # d
      BY DEF Untouched
    <3>1. /\ \A p \in Pool : d \notin connections[p]
          /\ \A q \in Call : on[q] # d
          /\ \A e \in Conn : job[e].other # d
      BY <2>3, <2>5 DEF IInv, TypeOK, Untouched, Garbage
    <3>2. d # None
      BY ConnectionPoolAssumption
    <3> QED
      BY <1>1, <1>2, <2>2, <2>5, <3>1, <3>2 DEF End
  <2>7. Jobs'
    <3>1. j.for # "none" /\ j.for # "expand" /\ j.for # "fresh"
      BY <2>2
    <3>2. \A d \in Conn : d # c /\ job[d].for = "expand" /\ job[d].other # None
                            => owner'[job[d].other] = job[d].pool
      <4> TAKE d \in Conn
      <4>1. job[d].other \in Conn \cup {None}
        BY DEF IInv, TypeOK, Job
      <4> QED
        BY <2>5, <4>1 DEF IInv, Jobs
    <3> QED
      BY <1>4, <1>9, <2>1, <2>2, <2>5, <3>1, <3>2 DEF IInv, Jobs, NoJob
  <2>8. OneJobPerCall'
    BY <2>2, <2>5 DEF IInv, OneJobPerCall
  <2>9. Owned' /\ Made'
    BY <1>2, <2>1, <2>3, <2>5 DEF IInv, TypeOK, Owned, Made, Garbage
  <2>10. ReleasedHere' /\ OnlyCrossersHaunt'
    BY <1>1, <1>2, <1>3, <2>3, <2>5
       DEF IInv, TypeOK, ReleasedHere, OnlyCrossersHaunt, OnWhenSent, Garbage, End
  <2>11. JobsCross'
    BY <1>2, <1>3, <1>8, <2>2, <2>5 DEF IInv, TypeOK, JobsCross
  <2> QED
    BY <1>6, <1>7, <2>4, <2>6, <2>7, <2>8, <2>9, <2>10, <2>11 DEF IInv
<1> QED
  BY <1>10, <1>11 DEF Timeout, connVars

\* What is known of a connection that is being made.
LEMMA InTheMaking ==
    ASSUME IInv, NEW c \in Conn, socket[c] = "connecting"
    PROVE  /\ job[c] \in Job /\ job[c].for # "none"
           /\ job[c].pool \in Pool /\ owner[c] = job[c].pool
           /\ \A p \in Pool : c \notin connections[p]
           /\ \A r \in Call : on[r] # c
           /\ \A d \in Conn : job[d].other # c
           /\ job[c].for \in {"expand", "fresh"} =>
                /\ job[c].call \in Call /\ job[c].call # None
                /\ status[job[c].call] = "waiting" /\ on[job[c].call] = None
                /\ \A d \in Conn : job[d].call = job[c].call => d = c
           /\ job[c].for = "replace" => job[c].other \in Conn
           /\ job[c].other # None => /\ job[c].other \in Conn
                                     /\ socket[job[c].other] \notin {"none", "connecting"}
<1>1. job[c] \in Job /\ job[c].other \in Conn \cup {None}
  BY DEF IInv, TypeOK, Job
<1>2. job[c].other # None => socket[job[c].other] \notin {"none", "connecting"}
  BY <1>1 DEF IInv, Untouched
<1>3. job[c].for \in {"expand", "fresh"} =>
        job[c].call \in Call /\ job[c].call # None /\ status[job[c].call] = "waiting"
  BY ConnectionPoolAssumption DEF IInv, Jobs
<1>4. job[c].for \in {"expand", "fresh"} => on[job[c].call] = None
  BY <1>3 DEF IInv, OnWhenSent
<1>5. job[c].for \in {"expand", "fresh"} => \A d \in Conn : job[d].call = job[c].call => d = c
  BY <1>3 DEF IInv, OneJobPerCall
<1> QED
  BY <1>1, <1>2, <1>3, <1>4, <1>5 DEF IInv, Jobs, Untouched

\* A creation ends: the other jobs, and the calls that wait for them, are as they were.
LEMMA JobEnds ==
    ASSUME IInv, NEW c \in Conn, socket[c] = "connecting",
           job' = [job EXCEPT ![c] = NoJob], UNCHANGED owner,
           \A d \in Conn : d # c => (socket'[d] = "connecting" <=> socket[d] = "connecting"),
           socket'[c] \notin {"none", "connecting"},
           \A r \in Call : r # job[c].call /\ status[r] = "waiting" => status'[r] = "waiting"
    PROVE  Jobs' /\ OneJobPerCall'
<1>1. \A d \in Conn : job'[d] = IF d = c THEN NoJob ELSE job[d]
  BY DEF IInv, TypeOK
<1>2. \A d \in Conn : d # c /\ job[d].call # None =>
         job[d].call \in Call /\ status'[job[d].call] = "waiting"
  <2> SUFFICES ASSUME NEW d \in Conn, d # c, job[d].call # None
               PROVE  job[d].call \in Call /\ status'[job[d].call] = "waiting"
    OBVIOUS
  <2>1. job[d].call \in Call
    BY DEF IInv, TypeOK, Job
  <2>2. job[d].call # job[c].call
    BY DEF IInv, OneJobPerCall
  <2>3. status[job[d].call] = "waiting"
    BY DEF IInv, Jobs
  <2> QED
    BY <2>1, <2>2, <2>3
<1>3. NoJob.for = "none" /\ NoJob.call = None
  BY DEF NoJob
<1>4. Jobs'
  BY <1>1, <1>2, <1>3 DEF IInv, Jobs, NoJob
<1>5. OneJobPerCall'
  BY <1>1, <1>3 DEF IInv, OneJobPerCall
<1> QED
  BY <1>4, <1>5

\* A new connection joins its pool: the slots of its pool stay balanced.
LEMMA JoinBalanced ==
    ASSUME IInv, NEW c \in Conn, socket[c] = "connecting", UNCHANGED worldPool,
           activeRequests' = [activeRequests EXCEPT ![c] = Cardinality(Holders(c)')],
           \A d \in Conn : d # c => Holders(d)' = Holders(d),
           \A p \in Pool : connections'[p] \subseteq connections[p] \cup {c}
    PROVE  SlotsBalanced'
<1> SUFFICES ASSUME worldPool # None, NEW d \in connections'[worldPool]
             PROVE  activeRequests'[d] = Cardinality(Holders(d)')
  BY DEF SlotsBalanced
<1>1. worldPool \in Pool /\ d \in connections[worldPool] \cup {c} /\ d \in Conn
  BY DEF IInv, TypeOK
<1>2. CASE d = c
  BY <1>2 DEF IInv, TypeOK
<1>3. CASE d # c
  BY <1>1, <1>3 DEF IInv, TypeOK, SlotsBalanced
<1> QED
  BY <1>2, <1>3

LEMMA ConnectedStep ==
    ASSUME IInv, NEW c \in Conn, Connected(c)
    PROVE  IInv'
<1>1. /\ socket[c] = "connecting" /\ job' = [job EXCEPT ![c] = NoJob]
      /\ UNCHANGED <<owner, worldPool, closed, crossed, phase, primary, populated>>
  BY DEF Connected, linkVars
<1> DEFINE p == job[c].pool
           r == job[c].call
           old == job[c].other
<1>2. /\ NoJob \in Job /\ NoJob.call = None /\ NoJob.other = None
      /\ c # None
      /\ \A d \in Conn : job'[d] = IF d = c THEN NoJob ELSE job[d]
  BY <1>1, ConnectionPoolAssumption DEF NoJob, Job, IInv, TypeOK
<1>3. job' \in [Conn -> Job]
  BY <1>1, <1>2 DEF IInv, TypeOK
<1>4. JobsCross'
  BY <1>1, <1>2 DEF IInv, JobsCross
<1>5. CASE job[c].for \in {"initial", "expand", "fresh"}
  <2>1. /\ connections' = [connections EXCEPT ![p] = @ \cup {c}]
        /\ socket' = [socket EXCEPT ![c] = "open"]
        /\ UNCHANGED closing
        /\ \E n \in {0, 1} : NewObject(c, n)
        /\ checking' = checking \/ checking' = [checking EXCEPT ![p] = TRUE]
    BY <1>5 DEF Connected, Joins
  <2>2. p \in Pool /\ owner[c] = p
    BY <1>1, InTheMaking
  <2>3. \A q \in Pool : connections'[q] = IF q = p THEN connections[q] \cup {c} ELSE connections[q]
    BY <2>1 DEF IInv, TypeOK
  <2>4. /\ connections' \in [Pool -> SUBSET Conn] /\ checking' \in [Pool -> BOOLEAN]
        /\ socket' \in [Conn -> {"none", "connecting", "open", "destroyed"}]
        /\ consecutiveTimeouts' \in [Conn -> 0 .. MaxTimeouts] /\ replacing' \in [Conn -> BOOLEAN]
        /\ activeRequests' \in [Conn -> Nat]
    <3>1. connections' \in [Pool -> SUBSET Conn]
      BY <2>1, <2>2 DEF IInv, TypeOK
    <3>2. checking' \in [Pool -> BOOLEAN]
      BY <2>1, <2>2 DEF IInv, TypeOK
    <3>3. socket' \in [Conn -> {"none", "connecting", "open", "destroyed"}]
      BY <2>1 DEF IInv, TypeOK
    <3>4. 0 \in 0 .. MaxTimeouts
      BY ConnectionPoolAssumption
    <3>5. consecutiveTimeouts' \in [Conn -> 0 .. MaxTimeouts] /\ replacing' \in [Conn -> BOOLEAN]
      BY <2>1, <3>4 DEF NewObject, IInv, TypeOK
    <3>6. activeRequests' \in [Conn -> Nat]
      BY <2>1 DEF NewObject, IInv, TypeOK
    <3> QED
      BY <3>1, <3>2, <3>3, <3>5, <3>6
  <2>0. \A d \in Conn : socket'[d] \in {"none", "connecting"} =>
          /\ d # c /\ \A q \in Pool : d \notin connections'[q]
          /\ \A q \in Call : on[q] # d
          /\ \A e \in Conn : job'[e].other # d
    <3> SUFFICES ASSUME NEW d \in Conn, socket'[d] \in {"none", "connecting"}
                 PROVE  /\ d # c /\ \A q \in Pool : d \notin connections'[q]
                        /\ \A q \in Call : on[q] # d
                        /\ \A e \in Conn : job'[e].other # d
      OBVIOUS
    <3>1. d # c /\ socket[d] \in {"none", "connecting"} /\ d # None
      BY <2>1, ConnectionPoolAssumption DEF IInv, TypeOK
    <3>2. /\ \A q \in Pool : d \notin connections[q]
          /\ \A q \in Call : on[q] # d
          /\ \A e \in Conn : job[e].other # d
      BY <3>1 DEF IInv, Untouched
    <3>3. \A q \in Pool : d \notin connections'[q]
      BY <2>3, <3>1, <3>2
    <3> QED
      BY <1>2, <3>1, <3>2, <3>3
  <2>5. Owned' /\ Made'
    BY <1>1, <2>1, <2>2, <2>3 DEF IInv, TypeOK, Owned, Made
  <2>6. CASE job[c].for = "initial"
    <3>1. UNCHANGED <<status, on, releaser>> /\ activeRequests' = [activeRequests EXCEPT ![c] = 0]
      BY <2>6 DEF Connected, NewObject
    <3>2. TypeOK'
      BY <1>1, <1>3, <2>1, <2>4, <3>1 DEF IInv, TypeOK
    <3>3. Untouched'
      BY <2>0, <3>1 DEF Untouched
    <3>4. Jobs' /\ OneJobPerCall'
      <4>1. \A d \in Conn : socket'[d] = IF d = c THEN "open" ELSE socket[d]
        BY <2>1 DEF IInv, TypeOK
      <4> QED
        BY <1>1, <3>1, <4>1, JobEnds
    <3>5. OnWhenSent' /\ ReleasedHere' /\ OnlyCrossersHaunt'
      BY <1>1, <3>1 DEF IInv, OnWhenSent, ReleasedHere, OnlyCrossersHaunt
    <3>6. SlotsBalanced'
      <4>1. Holders(c)' = {} /\ \A d \in Conn : Holders(d)' = Holders(d)
        BY <1>1, <3>1, InTheMaking DEF Holders
      <4>2. Cardinality(Holders(c)') = 0
        BY <4>1, FS_EmptySet
      <4>3. activeRequests' = [activeRequests EXCEPT ![c] = Cardinality(Holders(c)')]
        BY <3>1, <4>2
      <4>4. \A q \in Pool : connections'[q] \subseteq connections[q] \cup {c}
        BY <2>3
      <4> QED
        BY <1>1, <4>1, <4>3, <4>4, JoinBalanced
    <3> QED
      BY <1>4, <2>5, <3>2, <3>3, <3>4, <3>5, <3>6 DEF IInv
  <2>7. CASE job[c].for \in {"expand", "fresh"}
    <3>1. /\ status' = [status EXCEPT ![r] = "sent"]
          /\ on' = [on EXCEPT ![r] = c]
          /\ releaser' = [releaser EXCEPT ![r] = worldPool]
          /\ activeRequests' = [activeRequests EXCEPT ![c] = 1]
      BY <2>7 DEF Connected, NewObject, Carries
    <3>2. r \in Call /\ on[r] = None /\ status[r] = "waiting"
      BY <1>1, <2>7, InTheMaking
    <3>3. TypeOK'
      BY <1>1, <1>3, <2>1, <2>4, <3>1, <3>2 DEF IInv, TypeOK
    <3>4. Untouched'
      <4>1. \A q \in Call : on'[q] = IF q = r THEN c ELSE on[q]
        BY <3>1 DEF IInv, TypeOK
      <4> QED
        BY <2>0, <4>1 DEF Untouched
    <3>5. Jobs' /\ OneJobPerCall'
      <4>1. \A d \in Conn : socket'[d] = IF d = c THEN "open" ELSE socket[d]
        BY <2>1 DEF IInv, TypeOK
      <4>2. \A q \in Call : q # r /\ status[q] = "waiting" => status'[q] = "waiting"
        BY <3>1 DEF IInv, TypeOK
      <4> QED
        BY <1>1, <4>1, <4>2, JobEnds
    <3>6. OnWhenSent'
      BY <1>2, <3>1, <3>2 DEF IInv, TypeOK, OnWhenSent
    <3>7. ReleasedHere'
      BY <1>1, <3>1, <3>2 DEF IInv, TypeOK, ReleasedHere
    <3>8. OnlyCrossersHaunt'
      <4>1. p # worldPool => crossed[r]
        BY <1>2, <3>2, ConnectionPoolAssumption DEF IInv, JobsCross
      <4> QED
        BY <1>1, <2>2, <3>1, <3>2, <4>1 DEF IInv, TypeOK, OnlyCrossersHaunt
    <3>9. SlotsBalanced'
      <4>1. Holders(c) = {}
        BY <1>1, InTheMaking DEF Holders
      <4>2. Holders(c)' = {r}
        BY <1>1, <3>1, <3>2, InTheMaking DEF Holders, IInv, TypeOK
      <4>3. Cardinality(Holders(c)') = 1
        BY <4>2, FS_Singleton
      <4>4. \A d \in Conn : d # c => Holders(d)' = Holders(d)
        BY <3>1, <3>2, ConnectionPoolAssumption DEF Holders, IInv, TypeOK
      <4>5. activeRequests' = [activeRequests EXCEPT ![c] = Cardinality(Holders(c)')]
        BY <3>1, <4>3
      <4>6. \A q \in Pool : connections'[q] \subseteq connections[q] \cup {c}
        BY <2>3
      <4> QED
        BY <1>1, <4>4, <4>5, <4>6, JoinBalanced
    <3> QED
      BY <1>4, <2>5, <3>3, <3>4, <3>5, <3>6, <3>7, <3>8, <3>9 DEF IInv
  <2> QED
    BY <1>5, <2>6, <2>7
<1>6. CASE job[c].for = "replace"
  <2>1. /\ connections' = [connections EXCEPT ![p] = (@ \ {old}) \cup {c}]
        /\ socket' = [socket EXCEPT ![c] = "open", ![old] = "destroyed"]
        /\ closing' = [closing EXCEPT ![old] = FALSE]
        /\ NewObject(c, 0)
        /\ UNCHANGED <<checking, status, on, releaser>>
    BY <1>6 DEF Connected, Replaces
  <2>2. p \in Pool /\ owner[c] = p /\ old \in Conn /\ old # c /\ socket[old] \notin {"none", "connecting"}
    BY <1>1, <1>2, <1>6, InTheMaking, ConnectionPoolAssumption
  <2>3. \A q \in Pool : /\ connections'[q] \subseteq connections[q] \cup {c}
                        /\ q # p => connections'[q] = connections[q]
    BY <2>1 DEF IInv, TypeOK
  <2>4. \A d \in Conn : socket'[d] = IF d = old THEN "destroyed" ELSE IF d = c THEN "open" ELSE socket[d]
    BY <2>1, <2>2 DEF IInv, TypeOK
  <2>5. TypeOK'
    <3>1. /\ connections' \in [Pool -> SUBSET Conn]
          /\ socket' \in [Conn -> {"none", "connecting", "open", "destroyed"}]
          /\ closing' \in [Conn -> BOOLEAN]
      BY <2>1, <2>2 DEF IInv, TypeOK
    <3>2. /\ consecutiveTimeouts' \in [Conn -> 0 .. MaxTimeouts] /\ replacing' \in [Conn -> BOOLEAN]
          /\ activeRequests' \in [Conn -> Nat]
      <4>1. 0 \in 0 .. MaxTimeouts
        BY ConnectionPoolAssumption
      <4>2. consecutiveTimeouts' \in [Conn -> 0 .. MaxTimeouts] /\ replacing' \in [Conn -> BOOLEAN]
        BY <2>1, <4>1 DEF NewObject, IInv, TypeOK
      <4>3. activeRequests' \in [Conn -> Nat]
        BY <2>1 DEF NewObject, IInv, TypeOK
      <4> QED
        BY <4>2, <4>3
    <3> QED
      BY <1>1, <1>3, <2>1, <3>1, <3>2 DEF IInv, TypeOK
  <2>6. Untouched'
    <3> SUFFICES ASSUME NEW d \in Conn, socket'[d] \in {"none", "connecting"}
                 PROVE  /\ \A q \in Pool : d \notin connections'[q]
                        /\ \A q \in Call : on'[q] # d
                        /\ \A e \in Conn : job'[e].other # d
      BY DEF Untouched
    <3>1. d # c /\ socket[d] \in {"none", "connecting"} /\ d # None
      BY <2>4, ConnectionPoolAssumption
    <3> QED
      BY <1>2, <2>1, <2>3, <3>1 DEF IInv, Untouched
  <2>7. Jobs' /\ OneJobPerCall'
    <3>1. socket'[c] = "open"
      BY <2>2, <2>4
    <3>2. \A d \in Conn : d # c => (socket'[d] = "connecting" <=> socket[d] = "connecting")
      BY <2>2, <2>4
    <3> QED
      BY <1>1, <2>1, <3>1, <3>2, JobEnds
  <2>8. Owned' /\ Made'
    <3>1. \A q \in Pool : \A d \in connections'[q] : (d = c /\ q = p) \/ d \in connections[q]
      BY <2>3
    <3>2. \A d \in Conn : socket'[d] # "none" => socket[d] # "none"
      BY <1>1, <2>2, <2>4
    <3> QED
      BY <1>1, <2>2, <3>1, <3>2 DEF IInv, Owned, Made
  <2>9. OnWhenSent' /\ ReleasedHere' /\ OnlyCrossersHaunt'
    BY <1>1, <2>1 DEF IInv, OnWhenSent, ReleasedHere, OnlyCrossersHaunt
  <2>10. SlotsBalanced'
    <3>1. Holders(c)' = {} /\ \A d \in Conn : Holders(d)' = Holders(d)
      BY <1>1, <2>1, InTheMaking DEF Holders
    <3>2. Cardinality(Holders(c)') = 0
      BY <3>1, FS_EmptySet
    <3>3. activeRequests' = [activeRequests EXCEPT ![c] = Cardinality(Holders(c)')]
      BY <2>1, <3>2 DEF NewObject
    <3>4. \A q \in Pool : connections'[q] \subseteq connections[q] \cup {c}
      BY <2>3
    <3> QED
      BY <1>1, <3>1, <3>3, <3>4, JoinBalanced
  <2> QED
    BY <1>4, <2>5, <2>6, <2>7, <2>8, <2>9, <2>10 DEF IInv
<1>7. job[c].for \in {"initial", "expand", "fresh", "replace"}
  BY <1>1, InTheMaking DEF Job
<1> QED
  BY <1>5, <1>6, <1>7

LEMMA ConnectFailsStep ==
    ASSUME IInv, NEW c \in Conn, ConnectFails(c)
    PROVE  IInv'
<1> DEFINE p == job[c].pool
           r == job[c].call
           other == job[c].other
           rest == [job EXCEPT ![c] = NoJob]
           dead == [socket EXCEPT ![c] = "destroyed"]
<1>1. /\ socket[c] = "connecting" /\ closing' = [closing EXCEPT ![c] = TRUE]
      /\ UNCHANGED <<consecutiveTimeouts, worldPool, connections, closed, checking,
                     phase, primary, populated>>
  BY DEF ConnectFails, poolVars, linkVars
<1>2. /\ NoJob \in Job /\ NoJob.call = None /\ NoJob.other = None /\ c # None
      /\ \A d \in Conn : rest[d] = IF d = c THEN NoJob ELSE job[d]
      /\ rest \in [Conn -> Job]
      /\ dead \in [Conn -> {"none", "connecting", "open", "destroyed"}]
      /\ \A d \in Conn : dead[d] = IF d = c THEN "destroyed" ELSE socket[d]
      /\ closing' \in [Conn -> BOOLEAN]
  BY <1>1, ConnectionPoolAssumption DEF NoJob, Job, IInv, TypeOK
<1>3. CASE socket' = dead /\ job' = rest /\ UNCHANGED owner
  <2>1. \A d \in Conn : socket'[d] \in {"none", "connecting"} =>
          /\ \A q \in Pool : d \notin connections'[q]
          /\ \A q \in Call : on[q] # d
          /\ \A e \in Conn : job'[e].other # d
          /\ d # None
    BY <1>1, <1>2, <1>3, ConnectionPoolAssumption DEF IInv, Untouched
  <2>2. Owned' /\ Made'
    BY <1>1, <1>2, <1>3 DEF IInv, Owned, Made
  <2>3. (\A q \in Call : q # job[c].call /\ status[q] = "waiting" => status'[q] = "waiting")
          => Jobs' /\ OneJobPerCall'
    BY <1>1, <1>2, <1>3, JobEnds
  <2>4. UNCHANGED crossed => JobsCross'
    BY <1>1, <1>2, <1>3 DEF IInv, JobsCross
  <2>5. CASE UNCHANGED <<status, on, releaser, crossed, activeRequests>> /\ replacing' \in [Conn -> BOOLEAN]
    <3>1. TypeOK'
      BY <1>1, <1>2, <1>3, <2>5 DEF IInv, TypeOK
    <3>2. Untouched'
      BY <2>1, <2>5 DEF Untouched
    <3>3. OnWhenSent' /\ ReleasedHere' /\ OnlyCrossersHaunt' /\ SlotsBalanced'
      BY <1>1, <1>3, <2>5
         DEF IInv, OnWhenSent, ReleasedHere, OnlyCrossersHaunt, SlotsBalanced, Holders
    <3> QED
      BY <2>2, <2>3, <2>4, <2>5, <3>1, <3>2, <3>3 DEF IInv
  <2>6. CASE job[c].for = "expand" /\ other # None /\ HandOut(r, other) /\ UNCHANGED <<replacing, crossed>>
    <3>1. /\ r \in Call /\ on[r] = None /\ status[r] = "waiting" /\ other \in Conn
          /\ socket[other] \notin {"none", "connecting"} /\ owner[other] = p
      BY <1>1, <2>6, InTheMaking DEF IInv, Jobs
    <3>2. /\ status' = [status EXCEPT ![r] = "sent"]
          /\ on' = [on EXCEPT ![r] = other]
          /\ releaser' = [releaser EXCEPT ![r] = worldPool]
          /\ activeRequests' = [activeRequests EXCEPT ![other] = @ + 1]
      BY <2>6 DEF HandOut, Carries
    <3>3. TypeOK'
      <4>1. activeRequests \in [Conn -> Nat] /\ activeRequests[other] + 1 \in Nat
        BY <3>1 DEF IInv, TypeOK
      <4>2. activeRequests' \in [Conn -> Nat]
        BY <3>2, <4>1
      <4>3. /\ status' \in [Call -> {"idle", "waiting", "sent"}] /\ on' \in [Call -> Conn \cup {None}]
            /\ releaser' \in [Call -> Pool \cup {None}]
        BY <3>1, <3>2 DEF IInv, TypeOK
      <4> QED
        BY <1>1, <1>2, <1>3, <2>6, <4>2, <4>3 DEF IInv, TypeOK
    <3>4. Untouched'
      <4>1. \A q \in Call : on'[q] = IF q = r THEN other ELSE on[q]
        BY <3>2 DEF IInv, TypeOK
      <4>2. \A d \in Conn : socket'[d] \in {"none", "connecting"} => d # other
        BY <1>2, <1>3, <3>1
      <4> QED
        BY <2>1, <4>1, <4>2 DEF Untouched
    <3>5. Jobs' /\ OneJobPerCall'
      BY <2>3, <3>2 DEF IInv, TypeOK
    <3>6. OnWhenSent'
      BY <3>1, <3>2, ConnectionPoolAssumption DEF IInv, TypeOK, OnWhenSent
    <3>7. ReleasedHere'
      BY <1>1, <1>3, <3>1, <3>2 DEF IInv, TypeOK, ReleasedHere
    <3>8. OnlyCrossersHaunt'
      <4>1. p # worldPool => crossed[r]
        BY <3>1, ConnectionPoolAssumption DEF IInv, JobsCross
      <4> QED
        BY <1>1, <1>3, <2>6, <3>1, <3>2, <4>1 DEF IInv, TypeOK, OnlyCrossersHaunt
    <3>9. SlotsBalanced'
      <4>1. \A q \in Pool : connections'[q] \subseteq connections[q]
        BY <1>1
      <4> QED
        BY <1>1, <2>6, <3>1, <4>1, Acquired
    <3> QED
      BY <2>2, <2>4, <2>6, <3>3, <3>4, <3>5, <3>6, <3>7, <3>8, <3>9 DEF IInv
  <2>7. CASE job[c].for = "fresh" /\ End({r}) /\ crossed' = [crossed EXCEPT ![r] = FALSE]
             /\ UNCHANGED replacing
    <3>1. r \in Call /\ on[r] = None /\ status[r] = "waiting" /\ r # None
          /\ \A d \in Conn : job[d].call = r => d = c
      BY <1>1, <2>7, InTheMaking
    <3>2. TypeOK'
      <4>1. {r} \in SUBSET Call
        BY <3>1
      <4> QED
        BY <1>1, <1>2, <1>3, <2>7, <4>1, EndType DEF IInv, TypeOK
    <3>3. Untouched'
      BY <2>1, <2>7 DEF End, Untouched
    <3>4. Jobs' /\ OneJobPerCall'
      BY <2>3, <2>7 DEF End
    <3>5. OnWhenSent'
      BY <2>7 DEF IInv, OnWhenSent, End
    <3>6. ReleasedHere' /\ OnlyCrossersHaunt'
      BY <1>1, <1>3, <2>7 DEF IInv, TypeOK, ReleasedHere, OnlyCrossersHaunt, End
    <3>7. JobsCross'
      BY <1>1, <1>2, <1>3, <2>7, <3>1 DEF IInv, TypeOK, JobsCross
    <3>8. SlotsBalanced'
      BY <1>1, <2>7, <3>1, OneLess
    <3> QED
      BY <2>2, <3>2, <3>3, <3>4, <3>5, <3>6, <3>7, <3>8 DEF IInv
  <2>8. job[c].for = "replace" /\ GivesUp(other) => replacing' \in [Conn -> BOOLEAN]
    BY DEF GivesUp, IInv, TypeOK
  <2>9. replacing \in [Conn -> BOOLEAN]
    BY DEF IInv, TypeOK
  <2>10. CASE UNCHANGED <<status, on, releaser, crossed, activeRequests>>
              /\ (UNCHANGED replacing \/ (job[c].for = "replace" /\ GivesUp(other)))
    BY <2>5, <2>8, <2>9, <2>10
  <2>11. job[c].for = "expand" => job[c].other # None \/ \E d \in Conn \ {c} : Creating(d, FreshJob(r, p), dead, rest)
    BY <1>1 DEF ConnectFails
  <2> QED
    BY <1>1, <1>3, <2>6, <2>7, <2>10 DEF ConnectFails
<1>4. CASE /\ job[c].for = "expand" /\ other = None
           /\ \E d \in Conn \ {c} : Creating(d, FreshJob(r, p), dead, rest)
           /\ UNCHANGED <<replacing, status, on, releaser, crossed, activeRequests>>
  <2> PICK d \in Conn \ {c} : Creating(d, FreshJob(r, p), dead, rest)
    BY <1>4
  <2> DEFINE j == FreshJob(r, p)
  <2>1. /\ r \in Call /\ r # None /\ status[r] = "waiting" /\ p \in Pool /\ owner[c] = p
        /\ \A e \in Conn : job[e].call = r => e = c
    BY <1>1, <1>4, InTheMaking
  <2>2. j \in Job /\ j.for = "fresh" /\ j.pool = p /\ j.call = r /\ j.other = None
    BY <2>1 DEF FreshJob, Job
  <2>3. /\ socket' = [dead EXCEPT ![d] = "connecting"]
        /\ owner' = [owner EXCEPT ![d] = p]
        /\ job' = [rest EXCEPT ![d] = j]
        /\ Garbage(d) /\ d # None
    BY <2>2, ConnectionPoolAssumption DEF Creating
  <2> HIDE DEF j
  <2>4. \A e \in Conn :
          /\ e = d => job'[e] = j /\ owner'[e] = p /\ socket'[e] = "connecting"
          /\ e = c => job'[e] = NoJob /\ owner'[e] = owner[e] /\ socket'[e] = "destroyed"
          /\ e # d /\ e # c => job'[e] = job[e] /\ owner'[e] = owner[e] /\ socket'[e] = socket[e]
          /\ job[e].other # d
    BY <1>2, <2>3 DEF IInv, TypeOK, Garbage
  <2>5. TypeOK'
    <3>1. /\ owner' \in [Conn -> Pool \cup {None}] /\ job' \in [Conn -> Job]
          /\ socket' \in [Conn -> {"none", "connecting", "open", "destroyed"}]
      BY <1>2, <2>1, <2>2, <2>3 DEF IInv, TypeOK
    <3> QED
      BY <1>1, <1>2, <1>4, <3>1 DEF IInv, TypeOK
  <2>6. Untouched'
    <3> SUFFICES ASSUME NEW e \in Conn, socket'[e] \in {"none", "connecting"}
                 PROVE  /\ \A q \in Pool : e \notin connections'[q]
                        /\ \A q \in Call : on'[q] # e
                        /\ \A f \in Conn : job'[f].other # e
      BY DEF Untouched
    <3>1. (e # None /\ e # c /\ e = d) \/ (e # None /\ socket[e] \in {"none", "connecting"})
      BY <2>4, ConnectionPoolAssumption
    <3>2. /\ \A q \in Pool : e \notin connections[q]
          /\ \A q \in Call : on[q] # e
          /\ \A f \in Conn : job[f].other # e
      BY <2>3, <3>1 DEF IInv, Untouched, Garbage
    <3>3. e # None
      BY ConnectionPoolAssumption
    <3>4. \A f \in Conn : job'[f].other \in {None, job[f].other}
      BY <1>2, <2>2, <2>4
    <3> QED
      BY <1>1, <1>4, <3>2, <3>3, <3>4
  <2>7. Jobs'
    <3>1. \A e \in Conn : job[e].call \in Call \cup {None} /\ job[e].other \in Conn \cup {None}
      BY DEF IInv, TypeOK, Job
    <3>2. \A e \in Conn : job'[e].call # None => status'[job'[e].call] = "waiting"
      BY <1>2, <1>4, <2>1, <2>2, <2>4, <3>1 DEF IInv, Jobs
    <3>3. \A e \in Conn : job'[e].for = "expand" /\ job'[e].other # None => owner'[job'[e].other] = job'[e].pool
      <4> SUFFICES ASSUME NEW e \in Conn, job'[e].for = "expand", job'[e].other # None
                   PROVE  owner'[job'[e].other] = job'[e].pool
        OBVIOUS
      <4>1. job'[e] = job[e]
        BY <1>2, <2>2, <2>4
      <4>2. job[e].other \in Conn /\ owner[job[e].other] = job[e].pool
        BY <3>1, <4>1 DEF IInv, Jobs
      <4>3. owner'[job[e].other] = owner[job[e].other]
        BY <2>4, <4>2
      <4> QED
        BY <4>1, <4>2, <4>3
    <3>4. NoJob.for = "none" /\ j.for # "none" /\ j.for # "replace"
      BY <2>2 DEF NoJob
    <3> QED
      BY <2>1, <2>2, <2>4, <3>2, <3>3, <3>4 DEF IInv, Jobs, NoJob
  <2>8. OneJobPerCall'
    BY <1>2, <2>1, <2>2, <2>4 DEF IInv, OneJobPerCall
  <2>9. Owned' /\ Made'
    BY <1>1, <2>1, <2>3, <2>4 DEF IInv, TypeOK, Owned, Made, Garbage
  <2>10. OnWhenSent' /\ SlotsBalanced'
    BY <1>1, <1>4 DEF IInv, OnWhenSent, SlotsBalanced, Holders
  <2>11. ReleasedHere' /\ OnlyCrossersHaunt'
    <3>1. \A q \in Call : on[q] # None => owner'[on[q]] = owner[on[q]]
      BY <2>3, <2>4 DEF IInv, TypeOK, Garbage
    <3>2. \A q \in Call : status[q] = "sent" => on[q] # None
      BY DEF IInv, OnWhenSent
    <3> QED
      BY <1>1, <1>4, <3>1, <3>2 DEF IInv, ReleasedHere, OnlyCrossersHaunt
  <2>12. JobsCross'
    <3>1. p # worldPool => crossed[r]
      BY <2>1 DEF IInv, JobsCross
    <3> QED
      BY <1>1, <1>2, <1>4, <2>2, <2>4, <3>1 DEF IInv, JobsCross
  <2> QED
    BY <2>5, <2>6, <2>7, <2>8, <2>9, <2>10, <2>11, <2>12 DEF IInv
<1> QED
  BY <1>3, <1>4 DEF ConnectFails

LEMMA NextStep ==
    ASSUME IInv, [Next]_vars
    PROVE  IInv'
<1>1. CASE UNCHANGED vars
  <2>1. TypeOK'
    BY <1>1 DEF vars, connVars, poolVars, callVars, linkVars, IInv, TypeOK
  <2> QED
    BY <1>1, <2>1, QuietStep DEF vars, connVars, poolVars
<1>2. CASE Next
  BY <1>2, RequestStep, AnswerStep, TimeoutStep, ConnectedStep, ConnectFailsStep, ConnectionLostStep,
     CloseEventStep, HealthCheckStep, PrimaryLostStep, OnDemandStep, InitWorldPoolStep, PopulateStep,
     BoundStep, LeaveStep
     DEF Next
<1> QED
  BY <1>1, <1>2

LEMMA Invariance == Spec => []IInv
BY InitEstablishes, NextStep, PTL DEF Spec

----------------------------------------------------------------------------
(* The second invariant: what a creation answers for *)

\* Only the two creations of getConnection have a call behind them.
CallersOnly == \A c \in Conn : job[c].for \in {"none", "initial", "replace"} => job[c].call = None

\* The flag of the connection that is being replaced is set.
Flagged == \A c \in Conn : job[c].for = "replace" => replacing[job[c].other]

\* A creation will wake the call that waits.
Served == \A r \in Call : status[r] = "waiting" => \E c \in Conn : job[c].call = r

WakeInv == CallersOnly /\ Flagged /\ ReplacedOnce /\ Served

\* No creation begins or ends, and nobody begins to wait.
LEMMA JobsStay ==
    ASSUME WakeInv, UNCHANGED <<job, replacing>>,
           \A r \in Call : status'[r] = "waiting" => status[r] = "waiting"
    PROVE  WakeInv'
BY DEF WakeInv, CallersOnly, Flagged, ReplacedOnce, Served

\* A creation begins on a connection that had none: a replacement of a connection whose flag
\* was down, or one for a call, which is the only one that begins to wait.
LEMMA JobBegins ==
    ASSUME IInv, WakeInv, NEW c \in Conn, NEW j \in Job, job[c].for = "none",
           job' = [job EXCEPT ![c] = j],
           j.for \in {"initial", "replace"} => j.call = None,
           j.for \in {"initial", "expand", "fresh", "replace"},
           j.for = "replace" => j.other \in Conn /\ ~replacing[j.other] /\ replacing'[j.other],
           \A d \in Conn : replacing[d] => replacing'[d],
           \A r \in Call : status'[r] = "waiting" => status[r] = "waiting" \/ j.call = r
    PROVE  WakeInv'
<1>1. \A d \in Conn : job'[d] = IF d = c THEN j ELSE job[d]
  BY DEF IInv, TypeOK
<1>2. job[c].call = None
  BY DEF WakeInv, CallersOnly
<1>3. CallersOnly'
  BY <1>1 DEF WakeInv, CallersOnly
<1>4. \A d \in Conn : job[d].for = "replace" => job[d].other \in Conn /\ replacing[job[d].other]
  BY DEF IInv, Jobs, WakeInv, Flagged
<1>5. Flagged'
  BY <1>1, <1>4 DEF Flagged
<1>6. ReplacedOnce'
  BY <1>1, <1>4 DEF WakeInv, ReplacedOnce
<1>7. Served'
  <2> SUFFICES ASSUME NEW r \in Call, status'[r] = "waiting"
               PROVE  \E d \in Conn : job'[d].call = r
    BY DEF Served
  <2>1. CASE j.call = r
    BY <1>1, <2>1
  <2>2. CASE status[r] = "waiting"
    <3> PICK d \in Conn : job[d].call = r
      BY <2>2 DEF WakeInv, Served
    <3>1. d # c
      BY <1>2, ConnectionPoolAssumption
    <3> QED
      BY <1>1, <3>1
  <2> QED
    BY <2>1, <2>2
<1> QED
  BY <1>3, <1>5, <1>6, <1>7 DEF WakeInv

\* A creation ends: nobody waits for it any more, and the flags of the connections that the
\* other creations replace are kept.
LEMMA JobLeaves ==
    ASSUME IInv, WakeInv, NEW c \in Conn, job' = [job EXCEPT ![c] = NoJob],
           \A d \in Conn : d # c /\ job[d].for = "replace" => replacing'[job[d].other],
           \A r \in Call : status'[r] = "waiting" => status[r] = "waiting" /\ job[c].call # r
    PROVE  WakeInv'
<1>1. \A d \in Conn : job'[d] = IF d = c THEN NoJob ELSE job[d]
  BY DEF IInv, TypeOK
<1>2. NoJob.for = "none" /\ NoJob.call = None
  BY DEF NoJob
<1>3. CallersOnly'
  BY <1>1, <1>2 DEF WakeInv, CallersOnly
<1>4. Flagged'
  BY <1>1, <1>2 DEF Flagged
<1>5. ReplacedOnce'
  BY <1>1, <1>2 DEF WakeInv, ReplacedOnce
<1>6. Served'
  BY <1>1 DEF WakeInv, Served
<1> QED
  BY <1>3, <1>4, <1>5, <1>6 DEF WakeInv

\* Calls that settle do not begin to wait.
LEMMA EndWaits ==
    ASSUME NEW R, End(R)
    PROVE  \A r \in Call : status'[r] = "waiting" => status[r] = "waiting" /\ r \notin R
BY DEF End

LEMMA DropWaits ==
    ASSUME NEW conns, NEW events, DropPool(conns, events)
    PROVE  \A r \in Call : status'[r] = "waiting" => status[r] = "waiting"
BY EndWaits DEF DropPool

LEMMA RequestWake ==
    ASSUME IInv, WakeInv, NEW r \in Call, Request(r)
    PROVE  WakeInv'
<1>1. worldPool \in Pool /\ GetConnection(r, worldPool)
  BY DEF Request, IInv, TypeOK
<1>2. CASE \E b \in Best(worldPool) : HandOut(r, b) /\ UNCHANGED connVars
  <2>1. \A q \in Call : status'[q] = "waiting" => status[q] = "waiting"
    BY <1>2 DEF HandOut, Carries, IInv, TypeOK
  <2> QED
    BY <1>2, <2>1, JobsStay DEF connVars
<1>3. CASE \E c \in Conn, b \in Best(worldPool) \cup {None} :
             Awaits(r, c, ExpandJob(r, worldPool, b)) \/ Awaits(r, c, FreshJob(r, worldPool))
  <2> PICK c \in Conn, b \in Best(worldPool) \cup {None} :
             Awaits(r, c, ExpandJob(r, worldPool, b)) \/ Awaits(r, c, FreshJob(r, worldPool))
    BY <1>3
  <2>1. PICK j \in {ExpandJob(r, worldPool, b), FreshJob(r, worldPool)} : Awaits(r, c, j)
    OBVIOUS
  <2>2. b \in Conn \cup {None}
    BY <1>1, BestIsPooled
  <2>3. j \in Job /\ j.for \in {"expand", "fresh"} /\ j.call = r
    BY <1>1, <2>2 DEF ExpandJob, FreshJob, Job
  <2>4. /\ Garbage(c) /\ job' = [job EXCEPT ![c] = j]
        /\ status' = [status EXCEPT ![r] = "waiting"] /\ UNCHANGED replacing
    BY <2>1 DEF Awaits, Creating
  <2>5. job[c].for = "none"
    BY <2>4 DEF Garbage, IInv, TypeOK, Jobs
  <2>6. \A q \in Call : status'[q] = "waiting" => status[q] = "waiting" \/ j.call = q
    BY <2>3, <2>4 DEF IInv, TypeOK
  <2> QED
    BY <2>3, <2>4, <2>5, <2>6, JobBegins
<1> QED
  BY <1>1, <1>2, <1>3 DEF GetConnection

LEMMA TimeoutWake ==
    ASSUME IInv, WakeInv, NEW r \in Call, Timeout(r)
    PROVE  WakeInv'
<1>1. \A q \in Call : status'[q] = "waiting" => status[q] = "waiting"
  BY EndWaits DEF Timeout
<1>2. on[r] \in Conn
  BY DEF Timeout, IInv, TypeOK, OnWhenSent
<1>3. CASE UNCHANGED <<replacing, job>>
  BY <1>1, <1>3, JobsStay
<1>4. CASE /\ releaser[r] # None /\ Replaceable(on[r])
           /\ StartReplace(releaser[r], on[r])
  <2> PICK c \in Conn : Creating(c, ReplaceJob(releaser[r], on[r]), socket, job)
    BY <1>4 DEF StartReplace
  <2> DEFINE j == ReplaceJob(releaser[r], on[r])
  <2>1. j \in Job /\ j.for = "replace" /\ j.call = None /\ j.other = on[r]
    BY <1>2 DEF ReplaceJob, Job, IInv, TypeOK
  <2>2. job' = [job EXCEPT ![c] = j] /\ job[c].for = "none"
    BY DEF Creating, Garbage, IInv, TypeOK, Jobs
  <2> HIDE DEF j
  <2>3. replacing' = [replacing EXCEPT ![on[r]] = TRUE] /\ ~replacing[on[r]]
    BY <1>4 DEF StartReplace, Replaceable
  <2>4. replacing'[on[r]] /\ \A d \in Conn : replacing[d] => replacing'[d]
    BY <1>2, <2>3 DEF IInv, TypeOK
  <2> QED
    BY <1>1, <1>2, <2>1, <2>2, <2>3, <2>4, JobBegins
<1> QED
  BY <1>3, <1>4 DEF Timeout, connVars

LEMMA PopulateWake ==
    ASSUME IInv, WakeInv, PopulateWorldPool
    PROVE  WakeInv'
<1> PICK c \in Conn : Creating(c, InitialJob(worldPool), socket, job)
  BY DEF PopulateWorldPool
<1> DEFINE j == InitialJob(worldPool)
<1>1. j \in Job /\ j.for = "initial" /\ j.call = None
  BY DEF InitialJob, Job, IInv, TypeOK
<1>2. job' = [job EXCEPT ![c] = j] /\ job[c].for = "none"
  BY DEF Creating, Garbage, IInv, TypeOK, Jobs
<1> HIDE DEF j
<1>3. UNCHANGED <<replacing, status>>
  BY DEF PopulateWorldPool, callVars
<1> QED
  BY <1>1, <1>2, <1>3, JobBegins

LEMMA ConnectedWake ==
    ASSUME IInv, WakeInv, NEW c \in Conn, Connected(c)
    PROVE  WakeInv'
<1>1. socket[c] = "connecting" /\ job' = [job EXCEPT ![c] = NoJob]
  BY DEF Connected
<1>2. replacing' = [replacing EXCEPT ![c] = FALSE]
  BY DEF Connected, NewObject
<1>3. \A d \in Conn : job[d].for = "replace" => replacing'[job[d].other]
  <2> TAKE d \in Conn
  <2>1. job[d].other # c
    BY <1>1 DEF IInv, Untouched
  <2> QED
    BY <1>2, <2>1 DEF IInv, TypeOK, Jobs, WakeInv, Flagged
<1>4. \A r \in Call : status'[r] = "waiting" => status[r] = "waiting" /\ job[c].call # r
  <2>1. CASE UNCHANGED status /\ job[c].for \in {"initial", "replace"}
    BY <2>1, ConnectionPoolAssumption DEF WakeInv, CallersOnly
  <2>2. CASE status' = [status EXCEPT ![job[c].call] = "sent"] /\ job[c].for \in {"expand", "fresh"}
    BY <2>2 DEF IInv, TypeOK, Jobs
  <2> QED
    BY <2>1, <2>2 DEF Connected, Carries
<1> QED
  BY <1>1, <1>3, <1>4, JobLeaves

LEMMA ConnectFailsWake ==
    ASSUME IInv, WakeInv, NEW c \in Conn, ConnectFails(c)
    PROVE  WakeInv'
<1> DEFINE rest == [job EXCEPT ![c] = NoJob]
           call == job[c].call
           other == job[c].other
<1>1. /\ socket[c] = "connecting"
      /\ job[c].for \in {"expand", "fresh"} => call \in Call /\ call # None
      /\ job[c].for = "replace" => other \in Conn
  BY InTheMaking DEF ConnectFails
<1>2. \A d \in Conn : job[d].for = "replace" => job[d].other \in Conn /\ replacing[job[d].other]
  BY DEF IInv, Jobs, WakeInv, Flagged
<1>3. CASE /\ job[c].for \in {"initial", "expand", "fresh"}
           /\ job' = rest /\ UNCHANGED replacing
           /\ \A r \in Call : status'[r] = "waiting" => status[r] = "waiting" /\ call # r
  BY <1>2, <1>3, JobLeaves
<1>4. CASE job[c].for = "replace" /\ job' = rest /\ GivesUp(other) /\ UNCHANGED status
  <2>1. \A d \in Conn : d # c /\ job[d].for = "replace" => replacing'[job[d].other]
    <3> SUFFICES ASSUME NEW d \in Conn, d # c, job[d].for = "replace"
                 PROVE  replacing'[job[d].other]
      OBVIOUS
    <3>1. job[d].other # other
      BY <1>4 DEF WakeInv, ReplacedOnce
    <3> QED
      BY <1>2, <1>4, <3>1 DEF GivesUp, IInv, TypeOK
  <2>2. \A r \in Call : call # r
    BY <1>4, ConnectionPoolAssumption DEF WakeInv, CallersOnly
  <2> QED
    BY <1>4, <2>1, <2>2, JobLeaves
<1>5. CASE /\ job[c].for = "expand" /\ other = None
           /\ \E d \in Conn \ {c} :
                Creating(d, FreshJob(call, job[c].pool), [socket EXCEPT ![c] = "destroyed"], rest)
           /\ UNCHANGED <<replacing, status>>
  <2> PICK d \in Conn \ {c} :
             Creating(d, FreshJob(call, job[c].pool), [socket EXCEPT ![c] = "destroyed"], rest)
    BY <1>5
  <2> DEFINE j == FreshJob(call, job[c].pool)
  <2>1. j.for = "fresh" /\ j.call = call /\ NoJob.for = "none" /\ NoJob.call = None
    BY DEF FreshJob, NoJob
  <2>2. job' = [rest EXCEPT ![d] = j] /\ job[d].for = "none"
    BY DEF Creating, Garbage, IInv, TypeOK, Jobs
  <2> HIDE DEF j
  <2>3. \A e \in Conn : job'[e] = IF e = d THEN j ELSE IF e = c THEN NoJob ELSE job[e]
    BY <2>2 DEF IInv, TypeOK
  <2>4. CallersOnly'
    BY <2>1, <2>3 DEF WakeInv, CallersOnly
  <2>5. Flagged' /\ ReplacedOnce'
    BY <1>2, <1>5, <2>1, <2>3 DEF WakeInv, Flagged, ReplacedOnce
  <2>6. Served'
    <3> SUFFICES ASSUME NEW r \in Call, status[r] = "waiting"
                 PROVE  \E e \in Conn : job'[e].call = r
      BY <1>5 DEF Served
    <3> PICK f \in Conn : job[f].call = r
      BY DEF WakeInv, Served
    <3>1. f # d
      BY <2>2, ConnectionPoolAssumption DEF WakeInv, CallersOnly
    <3>2. CASE f = c
      BY <2>1, <2>3, <3>2
    <3>3. CASE f # c
      BY <2>3, <3>1, <3>3
    <3> QED
      BY <3>2, <3>3
  <2> QED
    BY <2>4, <2>5, <2>6 DEF WakeInv
<1>6. CASE job[c].for = "initial" /\ job' = rest /\ UNCHANGED <<replacing, status>>
  <2>1. \A r \in Call : call # r
    BY <1>6, ConnectionPoolAssumption DEF WakeInv, CallersOnly
  <2> QED
    BY <1>3, <1>6, <2>1
<1>7. CASE job[c].for = "expand" /\ HandOut(call, other) /\ job' = rest /\ UNCHANGED replacing
  <2>1. \A r \in Call : status'[r] = "waiting" => status[r] = "waiting" /\ call # r
    BY <1>1, <1>7 DEF HandOut, Carries, IInv, TypeOK
  <2> QED
    BY <1>3, <1>7, <2>1
<1>8. CASE job[c].for = "fresh" /\ End({call}) /\ job' = rest /\ UNCHANGED replacing
  <2>1. \A r \in Call : status'[r] = "waiting" => status[r] = "waiting" /\ call # r
    BY <1>8, EndWaits
  <2> QED
    BY <1>3, <1>8, <2>1
<1> QED
  BY <1>4, <1>5, <1>6, <1>7, <1>8 DEF ConnectFails

LEMMA WakeStep ==
    ASSUME IInv, WakeInv, [Next]_vars
    PROVE  WakeInv'
<1>1. CASE UNCHANGED vars
  BY <1>1, JobsStay DEF vars, connVars, callVars
<1>2. ASSUME NEW r \in Call, Answer(r) PROVE WakeInv'
  BY <1>2, EndWaits, JobsStay DEF Answer
<1>3. ASSUME NEW c \in Conn, ConnectionLost(c) PROVE WakeInv'
  BY <1>3, JobsStay DEF ConnectionLost, callVars
<1>4. ASSUME NEW c \in Conn, CloseEvent(c) PROVE WakeInv'
  BY <1>4, DropWaits, JobsStay DEF CloseEvent, Reconnect, callVars
<1>5. ASSUME NEW p \in Pool, HealthCheck(p) PROVE WakeInv'
  BY <1>5, JobsStay DEF HealthCheck, connVars, callVars
<1>6. ASSUME PrimaryLost PROVE WakeInv'
  BY <1>6, DropWaits, JobsStay DEF PrimaryLost, Reconnect, callVars
<1>7. ASSUME ReconnectOnDemand PROVE WakeInv'
  BY <1>7, DropWaits, JobsStay DEF ReconnectOnDemand, Reconnect
<1>8. ASSUME InitWorldPool \/ Bound PROVE WakeInv'
  BY <1>8, JobsStay DEF InitWorldPool, Bound, connVars, callVars
<1>9. ASSUME Leave PROVE WakeInv'
  BY <1>9, DropWaits, JobsStay DEF Leave
<1> QED
  BY <1>1, <1>2, <1>3, <1>4, <1>5, <1>6, <1>7, <1>8, <1>9, RequestWake, TimeoutWake, PopulateWake,
     ConnectedWake, ConnectFailsWake DEF Next

LEMMA WakeInit == Init => WakeInv
BY ConnectionPoolAssumption DEF Init, WakeInv, CallersOnly, Flagged, ReplacedOnce, Served, NoJob

LEMMA WakeInvariance == Spec => [](IInv /\ WakeInv)
BY InitEstablishes, NextStep, WakeInit, WakeStep, PTL DEF Spec

----------------------------------------------------------------------------
(* Theorems *)

\* Every variable of the pool keeps its type; in particular no load count falls below zero.
THEOREM PoolTypes == Spec => []TypeOK
<1>1. IInv => TypeOK
  BY DEF IInv
<1> QED
  BY Invariance, <1>1, PTL

\* Each connection of the session's pool counts exactly the requests in flight on it, for any
\* number of requests, connections, reconnects and failures: the choice of the least loaded
\* connection is made on true figures and no slot is ever lost.
THEOREM PoolSlotsBalanced == Spec => []SlotsBalanced
<1>1. IInv => SlotsBalanced
  BY DEF IInv
<1> QED
  BY Invariance, <1>1, PTL

\* The only requests that travel on a connection of a dropped pool are those that waited for
\* it while the pool was dropped.
THEOREM PoolOnlyCrossersHaunt == Spec => []OnlyCrossersHaunt
<1>1. IInv => OnlyCrossersHaunt
  BY DEF IInv
<1> QED
  BY Invariance, <1>1, PTL

\* However many requests time out on a connection, one replacement of it is under way at
\* most; a second one begins only after the first has been given up.
THEOREM PoolReplacedOnce == Spec => []ReplacedOnce
<1>1. WakeInv => ReplacedOnce
  BY DEF WakeInv
<1> QED
  BY WakeInvariance, <1>1, PTL

\* A call that waits for a connection has one creation behind it, which wakes no other: through
\* failed attempts, second attempts, pools that are dropped meanwhile and sessions that end,
\* no call is forgotten and none is woken twice.
THEOREM PoolWaitersAreServed == Spec => []WaitersAreServed
<1>1. IInv /\ WakeInv => WaitersAreServed
  BY ConnectionPoolAssumption DEF IInv, OneJobPerCall, WakeInv, Served, WaitersAreServed
<1> QED
  BY WakeInvariance, <1>1, PTL

============================================================================
