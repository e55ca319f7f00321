---------------------------- MODULE SessionPark ----------------------------
(***************************************************************************)
(* The gateway's connection closure: WebSockets, the game sessions behind  *)
(* them, the resume tokens, the parking of a session whose tab is away,    *)
(* the per-IP slots, the session cap and the shutdown drain.               *)
(*                                                                         *)
(* Node runs one callback at a time, so an action is what the code does    *)
(* from one await to the next.  A promise continuation (a microtask) runs  *)
(* before the next event: the actions of Microtask have priority over      *)
(* those of Macrotask, which wait for Settled.                             *)
(*                                                                         *)
(* A session is named by the connection it was created for, so Conn is     *)
(* also the set of sessions.  Null stands for JavaScript's null.           *)
(***************************************************************************)
EXTENDS Naturals, Sequences, FiniteSets

CONSTANTS
    Conn,         \* WebSockets the gateway may accept, and the sessions made for them
    Ip,           \* client addresses
    IpOf,         \* the address a connection comes from
    User,         \* usernames, upper-cased (the registry's key)
    Null,
    MaxPerIp,     \* WS_MAX_CONNECTIONS_PER_IP
    MaxParked,    \* SPO_MAX_PARKED_SESSIONS
    MaxSessions,  \* SPO_MAX_SESSIONS
    MaxQueued,    \* WS_MAX_QUEUED_MESSAGES
    RequestTypes, \* the requests the tabs of an instance send
    MaxToken      \* bound of the model: how many tokens are ever issued

ASSUME SessionParkAssumption ==
    /\ IsFiniteSet(Conn)
    /\ IpOf \in [Conn -> Ip]
    /\ Null \notin Conn \cup Ip \cup User
    /\ MaxPerIp \in Nat /\ MaxParked \in Nat /\ MaxSessions \in Nat
    /\ MaxQueued \in Nat /\ MaxToken \in Nat

VARIABLES
    \* per WebSocket
    sock,              \* its readyState; "dead" is a closing one no frame of which is handled
    rdoQueue,          \* messages waiting behind the one being processed
    running,           \* the handler suspended at an await, if any
    handle,            \* the session this connection's closure works on
    processed,         \* processedCount > 0
    logoutRequested,
    \* per session
    life,              \* "unborn", "live", "ending" (teardown started) or "destroyed"
    phase,             \* SessionPhase
    view,              \* the name of its ClientView on the Interface Server, or Null
    loginUser,         \* loginCredentials.username
    binding,           \* SessionBinding.current
    entries,           \* its ResumeEntry in the SessionParkRegistry, or Null
    \* gateway-wide
    wsConnectionsPerIp,
    connections,       \* ConnectionDrain: WebSocket -> session whose teardown it runs
    admitted,          \* SessionCap
    draining,
    \* tokens
    nextToken,         \* how many tokens randomBytes has produced
    delivered,         \* tokens whose event went to an open WebSocket
    claimed            \* tokens a resume consumed (history)

sockVars    == <<sock, rdoQueue, running, handle, processed, logoutRequested>>
sessionVars == <<life, phase, view, loginUser, binding, entries>>
gateVars    == <<wsConnectionsPerIp, connections, admitted, draining>>
tokenVars   == <<nextToken, delivered, claimed>>
vars        == <<sockVars, sessionVars, gateVars, tokenVars>>

Token == 1..MaxToken

Message ==
    [type : {"CONNECT_DIRECTORY", "SELECT_COMPANY", "SWITCH_COMPANY", "LOGOUT", "OTHER"}]
    \cup [type : {"LOGIN_WORLD"}, user : User]
    \cup [type : {"RESUME_SESSION"}, user : User, token : Token]

\* A handler suspended at an await: what it waits for, the user it works for, and the
\* sessions whose Logoff an eviction waits for.
Handler == [at   : {"idle", "other", "logout", "evicting", "cleaning", "connecting", "logon",
                   "select", "switch"},
            user : User \cup {Null},
            wait : SUBSET Conn]

Idle    == [at |-> "idle", user |-> Null, wait |-> {}]
At(where, user, wait) == [at |-> where, user |-> user, wait |-> wait]

\* token is 0 for none, ip is Null unless the session is parked.
ResumeEntry == [key : User, token : Nat, ip : Ip \cup {Null}]
ASSUME ResumeEntryAssumption == Null \notin ResumeEntry

IsParked(s) == entries[s] # Null /\ entries[s].ip # Null
Parked      == {s \in Conn : IsParked(s)}
Alive(s)    == life[s] \in {"live", "ending"}

\* The phase gate of the router.
Allowed(type, ph) ==
    CASE ph = "DISCONNECTED"        -> type \in {"CONNECT_DIRECTORY", "RESUME_SESSION", "LOGOUT"}
      [] ph = "DIRECTORY_CONNECTED" -> type \in {"CONNECT_DIRECTORY", "LOGIN_WORLD",
                                                 "SELECT_COMPANY", "LOGOUT"}
      [] ph = "WORLD_CONNECTING"    -> type \in {"SELECT_COMPANY", "SWITCH_COMPANY", "LOGOUT"}
      [] OTHER                      -> TRUE

\* Message types that carry a credential: their per-IP bucket may refuse them at any time.
RateLimited == {"CONNECT_DIRECTORY", "LOGIN_WORLD", "RESUME_SESSION"}

Init ==
    /\ sock = [c \in Conn |-> "none"]
    /\ rdoQueue = [c \in Conn |-> <<>>]
    /\ running = [c \in Conn |-> Idle]
    /\ handle = [c \in Conn |-> c]
    /\ processed = [c \in Conn |-> FALSE]
    /\ logoutRequested = [c \in Conn |-> FALSE]
    /\ life = [s \in Conn |-> "unborn"]
    /\ phase = [s \in Conn |-> "DISCONNECTED"]
    /\ view = [s \in Conn |-> Null]
    /\ loginUser = [s \in Conn |-> Null]
    /\ binding = [s \in Conn |-> Null]
    /\ entries = [s \in Conn |-> Null]
    /\ wsConnectionsPerIp = [i \in Ip |-> 0]
    /\ connections = [c \in Conn |-> Null]
    /\ admitted = {}
    /\ draining = FALSE
    /\ nextToken = 0
    /\ delivered = {}
    /\ claimed = {}

----------------------------------------------------------------------------
(* Building blocks *)

EntriesSurvive(S) == entries                    \* mutant: the entry is forgotten in the registry
\* SessionParkRegistry.end for every session of S.
EndEntries(S) == [s \in Conn |-> IF s \in S THEN Null ELSE entries[s]]

\* releaseWsSlot, n[i] times for address i; a count never goes below zero.
ReleaseSlots(n) == [i \in Ip |-> IF wsConnectionsPerIp[i] <= n[i] THEN 0
                                 ELSE wsConnectionsPerIp[i] - n[i]]
ReleaseSlot(ip) == ReleaseSlots([i \in Ip |-> IF i = ip THEN 1 ELSE 0])
NoParkReleased(S) == wsConnectionsPerIp         \* mutant: the slot of an ended park is kept
ReleaseParks(S) == ReleaseSlots([i \in Ip |->
                       Cardinality({s \in S : IsParked(s) /\ entries[s].ip = i})])

NoTeardown(S) == life                           \* mutant: the teardown is not called
\* The memoized teardown: endSession() starts, destroy() follows (TeardownDone).
StartTeardown(S) == [s \in Conn |-> IF s \in S /\ life[s] = "live" THEN "ending" ELSE life[s]]

\* ws.close() only acts on a socket that is not closing yet.
CloseHandshake(C) == [c \in Conn |-> IF c \in C /\ sock[c] = "open" THEN "closing" ELSE sock[c]]

\* A company request is over.  In the world, register the entry if the session has none,
\* rotate its token, and push it to the WebSocket the request came from if that is still open.
WorldEntered(s, c) ==
    IF loginUser[s] # Null /\ phase'[s] = "WORLD_CONNECTED"
    THEN /\ nextToken' = nextToken + 1
         /\ entries' = [entries EXCEPT ![s] =
                          IF entries[s] = Null
                          THEN [key |-> loginUser[s], token |-> nextToken + 1, ip |-> Null]
                          ELSE [entries[s] EXCEPT !.token = nextToken + 1]]
         /\ delivered' = IF sock[c] = "open" THEN delivered \cup {nextToken + 1} ELSE delivered
         /\ UNCHANGED claimed
    ELSE UNCHANGED <<entries, tokenVars>>

NoWait(c) == running[c].at = "evicting"          \* mutant: the login does not wait
\* Every session a login evicts has been logged off and destroyed.
EvictionOver(c) == running[c].at = "evicting" /\ \A s \in running[c].wait : life[s] = "destroyed"

\* Continuations that run before any other event.
Runnable(c) == \/ running[c] = Idle /\ rdoQueue[c] # <<>>
               \/ EvictionOver(c)
Settled == \A c \in Conn : ~Runnable(c)

\* Requests still on their way that will issue a token when they end.
TokensToCome ==
    Cardinality({p \in Conn \X (1..MaxQueued) :
                    /\ p[2] <= Len(rdoQueue[p[1]])
                    /\ rdoQueue[p[1]][p[2]].type \in {"SELECT_COMPANY", "SWITCH_COMPANY"}})
    + Cardinality({c \in Conn : running[c].at \in {"select", "switch"}})

\* A request that will issue a token if it succeeds; a resume with a token that is no longer
\* in force is refused.
IssuesToken(m) ==
    \/ m.type \in {"SELECT_COMPANY", "SWITCH_COMPANY"}
    \/ m.type = "RESUME_SESSION" /\ \E s \in Conn : entries[s] # Null /\ entries[s].token = m.token

----------------------------------------------------------------------------
(* The WebSocket's own events *)

MayAcceptOneMore(ip) == wsConnectionsPerIp[ip] <= MaxPerIp      \* mutant: off by one
MayAccept(ip) == wsConnectionsPerIp[ip] < MaxPerIp

\* verifyClient takes the per-IP slot; the connection handler makes a fresh session.
Accept(c) ==
    /\ sock[c] = "none" /\ ~draining
    /\ MayAccept(IpOf[c])
    /\ wsConnectionsPerIp' = [wsConnectionsPerIp EXCEPT ![IpOf[c]] = @ + 1]
    /\ sock' = [sock EXCEPT ![c] = "open"]
    /\ life' = [life EXCEPT ![c] = "live"]
    /\ binding' = [binding EXCEPT ![c] = c]
    /\ connections' = [connections EXCEPT ![c] = c]
    /\ UNCHANGED <<rdoQueue, running, handle, processed, logoutRequested,
                   phase, view, loginUser, entries, admitted, draining, tokenVars>>

\* A frame reaches the message listener: dropped while draining, queued otherwise.  A resume
\* presents a token some tab received, spent or not.  The guard on nextToken is the model's bound.
Receive(c, m) ==
    /\ sock[c] \in {"open", "closing"} /\ ~draining
    /\ Len(rdoQueue[c]) + (IF running[c] = Idle THEN 0 ELSE 1) < MaxQueued
    /\ m.type = "RESUME_SESSION" => m.token \in delivered
    /\ IssuesToken(m) => nextToken + TokensToCome < MaxToken
    /\ rdoQueue' = [rdoQueue EXCEPT ![c] = Append(@, m)]
    /\ logoutRequested' = [logoutRequested EXCEPT ![c] = @ \/ m.type = "LOGOUT"]
    /\ UNCHANGED <<sock, running, handle, processed,
                   sessionVars, gateVars, tokenVars>>

\* The message guard closes the socket: the rate bucket is empty, or the queue is full.  No
\* later frame and nothing already queued reaches a handler.
CloseByGuard(c) ==
    /\ sock[c] \in {"open", "closing"}
    /\ sock' = [sock EXCEPT ![c] = "dead"]
    /\ rdoQueue' = [rdoQueue EXCEPT ![c] = <<>>]
    /\ UNCHANGED <<running, handle, processed, logoutRequested, sessionVars, gateVars, tokenVars>>

\* What ws.on('close') asks before it parks: no shutdown, no logout, in the world, and the
\* registry accepts (a token, not parked already, below the ceiling).
MayPark(c, s) ==
    /\ ~draining /\ ~logoutRequested[c] /\ phase[s] = "WORLD_CONNECTED"
    /\ entries[s] # Null /\ ~IsParked(s) /\ entries[s].token # 0
    /\ Cardinality(Parked) < MaxParked

Closing(c) ==
    /\ sock[c] \in {"open", "closing", "dead"}
    /\ sock' = [sock EXCEPT ![c] = "closed"]
    /\ UNCHANGED <<rdoQueue, running, handle, processed, logoutRequested,
                   phase, view, loginUser, admitted, draining, tokenVars>>

NeverSuperseded(c) == FALSE                     \* mutant: the handler does not ask
Superseded(c) == binding[handle[c]] # c

NotDetached(s) == binding                       \* mutant: the binding keeps the dead socket
Detached(s) == [binding EXCEPT ![s] = Null]

\* A resume moved the session to another WebSocket: this one gives back its slot only.
CloseSuperseded(c) ==
    /\ Closing(c) /\ Superseded(c)
    /\ wsConnectionsPerIp' = ReleaseSlot(IpOf[c])
    /\ connections' = [connections EXCEPT ![c] = Null]
    /\ UNCHANGED <<life, binding, entries>>

\* The session outlives its WebSocket and keeps the IP slot.
ClosePark(c) ==
    LET s == handle[c] IN
    /\ Closing(c) /\ ~Superseded(c) /\ MayPark(c, s)
    /\ binding' = Detached(s)
    /\ entries' = [entries EXCEPT ![s].ip = IpOf[c]]
    /\ connections' = [connections EXCEPT ![c] = s]
    /\ UNCHANGED <<life, wsConnectionsPerIp>>

\* Any other close ends the session: slot back, token dead, Logoff started.
CloseEnd(c) ==
    LET s == handle[c] IN
    /\ Closing(c) /\ ~Superseded(c) /\ ~MayPark(c, s)
    /\ binding' = Detached(s)
    /\ wsConnectionsPerIp' = ReleaseSlot(IpOf[c])
    /\ entries' = EndEntries({s})
    /\ life' = StartTeardown({s})
    /\ UNCHANGED connections

Close(c) == CloseSuperseded(c) \/ ClosePark(c) \/ CloseEnd(c)

----------------------------------------------------------------------------
(* The requests, in the order the RDO lane serves them *)

\* The next message of an idle lane enters processMessage.
Dequeue(c, type) ==
    /\ running[c] = Idle /\ rdoQueue[c] # <<>>
    /\ Head(rdoQueue[c]).type = type
    /\ rdoQueue' = [rdoQueue EXCEPT ![c] = Tail(@)]
    /\ processed' = [processed EXCEPT ![c] = TRUE]
    /\ UNCHANGED <<logoutRequested>>
Take(c, type) == Dequeue(c, type) /\ UNCHANGED handle

Suspend(c, where, user, wait) == running' = [running EXCEPT ![c] = At(where, user, wait)]
Return(c) == running' = [running EXCEPT ![c] = Idle]

\* The rate limiter or the phase gate answers an error.
Refuse(c) ==
    \E type \in {"CONNECT_DIRECTORY", "SELECT_COMPANY", "SWITCH_COMPANY", "RESUME_SESSION",
                 "OTHER"} :
        /\ Take(c, type)
        /\ type \in RateLimited \/ ~Allowed(type, phase[handle[c]])
        /\ UNCHANGED <<sock, running, sessionVars, gateVars, tokenVars>>

ConnectDirectory(c) ==
    LET s == handle[c] IN
    /\ Take(c, "CONNECT_DIRECTORY") /\ Allowed("CONNECT_DIRECTORY", phase[s])
    /\ phase' = [phase EXCEPT ![s] = "DIRECTORY_CONNECTED"]
    /\ Suspend(c, "other", Null, {})
    /\ UNCHANGED <<sock, life, view, loginUser, binding, entries, gateVars, tokenVars>>

\* A logout, whose end is LogoutDone, or any other game request: what matters here is that it
\* holds the lane while it is answered.
OtherRequest(c) ==
    /\ \E type \in {"OTHER", "LOGOUT"} :
         /\ Take(c, type) /\ Allowed(type, phase[handle[c]])
         /\ Suspend(c, IF type = "LOGOUT" THEN "logout" ELSE "other", Null, {})
    /\ UNCHANGED <<sock, sessionVars, gateVars, tokenVars>>

\* processMessage ends the entry and renames the credentials before the router has decided.
LoginPreamble(c) ==
    /\ Take(c, "LOGIN_WORLD")
    /\ loginUser' = [loginUser EXCEPT ![handle[c]] = Head(rdoQueue[c]).user]

OwnParked(s, user) == {p \in Parked \ {s} : entries[p].key = user}

MayAdmitOneMore(s, own) ==                      \* mutant: off by one
    s \in admitted \/ Cardinality(admitted) <= MaxSessions + Cardinality(own \cap admitted)
\* SessionCap.tryAdmit, the player's own parked sessions discounted.
MayAdmit(s, own) ==
    s \in admitted \/ Cardinality(admitted) < MaxSessions + Cardinality(own \cap admitted)

LoginRefused(c) ==
    /\ LoginPreamble(c)
    /\ entries' = EndEntries({handle[c]})
    /\ UNCHANGED <<sock, running, life, phase, view, binding, gateVars, tokenVars>>

LoginServerFull(c) ==
    LET s == handle[c] IN
    /\ LoginPreamble(c) /\ Allowed("LOGIN_WORLD", phase[s])
    /\ ~MayAdmit(s, OwnParked(s, Head(rdoQueue[c]).user))
    /\ entries' = EndEntries({s})
    /\ sock' = CloseHandshake({c})
    /\ UNCHANGED <<running, life, phase, view, binding, gateVars, tokenVars>>

\* Admission and the start of every eviction are one synchronous run.
LoginEvict(c) ==
    LET s    == handle[c]
        user == Head(rdoQueue[c]).user
        own  == OwnParked(s, user)
    IN
    /\ LoginPreamble(c) /\ Allowed("LOGIN_WORLD", phase[s])
    /\ MayAdmit(s, own)
    /\ admitted' = admitted \cup {s}
    /\ entries' = EndEntries(own \cup {s})
    /\ wsConnectionsPerIp' = ReleaseParks(own)
    /\ life' = StartTeardown(own)
    /\ Suspend(c, "evicting", user, own)
    /\ UNCHANGED <<sock, phase, view, binding, connections, draining, tokenVars>>

\* Every evicted session has logged off; a connected world is left before the next one.
LoginCleanup(c) ==
    LET s == handle[c] IN
    /\ EvictionOver(c)
    /\ phase[s] \in {"WORLD_CONNECTING", "WORLD_CONNECTED"}
    /\ phase' = [phase EXCEPT ![s] = "WORLD_CONNECTING"]
    /\ Suspend(c, "cleaning", running[c].user, running[c].wait)
    /\ UNCHANGED <<sock, rdoQueue, handle, processed, logoutRequested,
                   life, view, loginUser, binding, entries, gateVars, tokenVars>>

\* The login goes on: right after the eviction, or once cleanupWorldSession is through.
LoginGoesOn(c) ==
    \/ /\ EvictionOver(c)
       /\ phase[handle[c]] \notin {"WORLD_CONNECTING", "WORLD_CONNECTED"}
    \/ running[c].at = "cleaning"

\* The view a login finds after the cleanup it may have run.
ViewLeft(c) == IF running[c].at = "cleaning" THEN Null ELSE view[handle[c]]

LoginUnknownWorld(c) ==
    LET s == handle[c] IN
    /\ LoginGoesOn(c)
    /\ view' = [view EXCEPT ![s] = ViewLeft(c)]
    /\ phase' = [phase EXCEPT ![s] = IF running[c].at = "cleaning" THEN "DIRECTORY_CONNECTED"
                                     ELSE @]
    /\ admitted' = IF phase'[s] \in {"DISCONNECTED", "DIRECTORY_CONNECTED"}
                   THEN admitted \ {s} ELSE admitted
    /\ Return(c)
    /\ UNCHANGED <<sock, rdoQueue, handle, processed, logoutRequested,
                   life, loginUser, binding, entries, wsConnectionsPerIp, connections, draining,
                   tokenVars>>

\* loginWorld: the world socket is opened in place of the session's former one, the world's
\* properties are read.  destroy() has emptied the list of worlds.
LoginWorld(c) ==
    LET s == handle[c] IN
    /\ LoginGoesOn(c) /\ life[s] # "destroyed"
    /\ view' = [view EXCEPT ![s] = ViewLeft(c)]
    /\ phase' = [phase EXCEPT ![s] = "WORLD_CONNECTING"]
    /\ Suspend(c, "connecting", running[c].user, running[c].wait)
    /\ UNCHANGED <<sock, rdoQueue, handle, processed, logoutRequested,
                   life, loginUser, binding, entries, gateVars, tokenVars>>

\* AccountStatus goes out, then Logon.
AccountStatus(c) ==
    /\ running[c].at = "connecting" /\ life[handle[c]] # "destroyed"
    /\ Suspend(c, "logon", running[c].user, running[c].wait)
    /\ UNCHANGED <<sock, rdoQueue, handle, processed, logoutRequested, sessionVars, gateVars,
                   tokenVars>>

HandlerVars == <<sock, rdoQueue, handle, processed, logoutRequested,
                 life, loginUser, binding, wsConnectionsPerIp, connections, draining>>

LogonOk(c) ==
    LET s == handle[c] IN
    /\ running[c].at = "logon" /\ life[s] # "destroyed"
    /\ view' = [view EXCEPT ![s] = running[c].user]
    /\ Return(c)
    /\ UNCHANGED <<HandlerVars, phase, entries, admitted, tokenVars>>

\* A login that fails cleans up, and a login that did not reach the world keeps no slot.
LogonFail(c) ==
    LET s == handle[c] IN
    /\ running[c].at \in {"connecting", "logon"}
    /\ view' = [view EXCEPT ![s] = Null]
    /\ phase' = [phase EXCEPT ![s] = "DIRECTORY_CONNECTED"]
    /\ admitted' = admitted \ {s}
    /\ Return(c)
    /\ UNCHANGED <<HandlerVars, entries, tokenVars>>

SelectCompany(c) ==
    LET s == handle[c] IN
    /\ Take(c, "SELECT_COMPANY") /\ Allowed("SELECT_COMPANY", phase[s])
    /\ Suspend(c, "select", view[s], {})
    /\ UNCHANGED <<sock, sessionVars, gateVars, tokenVars>>

SelectOk(c) ==
    LET s == handle[c] IN
    /\ running[c].at = "select" /\ running[c].user # Null
    /\ view[s] # Null /\ life[s] # "destroyed"
    /\ phase' = [phase EXCEPT ![s] = "WORLD_CONNECTED"]
    /\ WorldEntered(s, c)
    /\ Return(c)
    /\ UNCHANGED <<HandlerVars, view, admitted>>

\* switchCompany drops the world connections and logs on again.
SwitchCompany(c) ==
    LET s == handle[c] IN
    /\ Take(c, "SWITCH_COMPANY") /\ Allowed("SWITCH_COMPANY", phase[s])
    /\ phase' = [phase EXCEPT ![s] = "WORLD_CONNECTING"]
    /\ view' = [view EXCEPT ![s] = Null]
    /\ Suspend(c, "switch", IF view[s] = Null THEN loginUser[s] ELSE view[s], {})
    /\ UNCHANGED <<sock, life, loginUser, binding, entries, gateVars, tokenVars>>

SwitchOk(c) ==
    LET s == handle[c] IN
    /\ running[c].at = "switch" /\ life[s] # "destroyed"
    /\ view' = [view EXCEPT ![s] = running[c].user]
    /\ phase' = [phase EXCEPT ![s] = "WORLD_CONNECTED"]
    /\ WorldEntered(s, c)
    /\ Return(c)
    /\ UNCHANGED <<HandlerVars, admitted>>

\* A failed selection rotates the token all the same when the session is in the world.
CompanyFails(c) ==
    LET s == handle[c] IN
    /\ running[c].at \in {"select", "switch"}
    /\ \/ UNCHANGED view
       \/ /\ running[c].at = "switch" /\ life[s] # "destroyed"
          /\ view' = [view EXCEPT ![s] = running[c].user]
    /\ UNCHANGED phase
    /\ WorldEntered(s, c)
    /\ Return(c)
    /\ UNCHANGED <<HandlerVars, admitted>>

OtherDone(c) ==
    /\ running[c].at = "other"
    /\ Return(c)
    /\ UNCHANGED <<HandlerVars, phase, view, entries, admitted, tokenVars>>

\* endSession logged the view off; the WebSocket is closed 100 ms later.
LogoutDone(c) ==
    /\ running[c].at = "logout"
    /\ view' = [view EXCEPT ![handle[c]] = Null]
    /\ sock' = CloseHandshake({c})
    /\ Return(c)
    /\ UNCHANGED <<rdoQueue, handle, processed, logoutRequested, life, phase,
                   loginUser, binding, entries, gateVars, tokenVars>>

\* claim() stops the park timer and consumes the token; resumeSession issues the next one.
TokenKept(s) == [entries EXCEPT ![s].ip = Null]           \* mutant: the token is not rotated
TimerKept(s) == [entries EXCEPT ![s].token = nextToken + 1]    \* mutant: the park timer runs on
Reattached(s) == [entries EXCEPT ![s].token = nextToken + 1, ![s].ip = Null]

\* The drain tracks the session under its new WebSocket.
OldTrackKept(c, s) == [connections EXCEPT ![c] = s]       \* mutant: the old one stays tracked
NotRetracked(c, s) == [connections EXCEPT ![c] = Null]    \* mutant: the new one is not tracked
Retracked(c, s) == [d \in Conn |-> IF d = c THEN s
                                   ELSE IF connections[d] = s THEN Null
                                   ELSE connections[d]]

\* SessionParkRegistry.claim: the entry of that username that holds that token.
ClaimsByName(s, m) == entries[s] # Null /\ entries[s].key = m.user   \* mutant: any token will do
Claims(s, m) == entries[s] # Null /\ entries[s].key = m.user /\ entries[s].token = m.token

\* resumeSession: the first message of a fresh connection re-attaches a session, parked or
\* still attached to a half-open WebSocket, and retires the connection's own empty session.
ResumeSession(c) ==
    /\ Dequeue(c, "RESUME_SESSION")
    /\ ~processed[c] /\ handle[c] = c /\ phase[c] = "DISCONNECTED"
    /\ \E s \in Conn :
        /\ Claims(s, Head(rdoQueue[c]))
        /\ claimed' = claimed \cup {Head(rdoQueue[c]).token}
        /\ nextToken' = nextToken + 1
        /\ delivered' = IF sock[c] = "open" THEN delivered \cup {nextToken + 1} ELSE delivered
        /\ entries' = Reattached(s)
        /\ wsConnectionsPerIp' = IF IsParked(s) THEN ReleaseSlot(entries[s].ip)
                                 ELSE wsConnectionsPerIp
        /\ binding' = [binding EXCEPT ![s] = c]
        /\ handle' = [handle EXCEPT ![c] = s]
        /\ life' = [life EXCEPT ![c] = "destroyed"]
        /\ connections' = Retracked(c, s)
        /\ sock' = IF binding[s] \in Conn \ {c} /\ sock[binding[s]] # "closed"
                   THEN [sock EXCEPT ![binding[s]] = "dead"] ELSE sock
    /\ UNCHANGED <<running, phase, view, loginUser, admitted, draining>>

----------------------------------------------------------------------------
(* Timers, the world link, the shutdown *)

\* endParkedSession for the sessions of S: out of the registry, slots back, teardown started.
EndParked(S) ==
    /\ entries' = EndEntries(S)
    /\ wsConnectionsPerIp' = ReleaseParks(S)
    /\ life' = StartTeardown(S)

\* The park timer fires.
Expire(s) ==
    /\ IsParked(s)
    /\ EndParked({s})
    /\ UNCHANGED <<sockVars, phase, view, loginUser, binding, connections, admitted, draining,
                   tokenVars>>

\* Logoff was acknowledged or timed out: destroy() runs and releases the cap slot.
TeardownDone(s) ==
    /\ life[s] = "ending"
    /\ life' = [life EXCEPT ![s] = "destroyed"]
    /\ phase' = [phase EXCEPT ![s] = "DISCONNECTED"]
    /\ view' = [view EXCEPT ![s] = Null]
    /\ admitted' = admitted \ {s}
    /\ connections' = [c \in Conn |-> IF connections[c] = s THEN Null ELSE connections[c]]
    /\ UNCHANGED <<sockVars, loginUser, binding, entries, wsConnectionsPerIp, draining, tokenVars>>

\* The world socket drops and attemptWorldReconnect runs; it succeeds later, or never.
WorldLost(s) ==
    /\ life[s] = "live" /\ phase[s] = "WORLD_CONNECTED" /\ view[s] # Null
    /\ phase' = [phase EXCEPT ![s] = "RECONNECTING"]
    /\ UNCHANGED <<sockVars, life, view, loginUser, binding, entries, gateVars, tokenVars>>

WorldBack(s) ==
    /\ life[s] # "destroyed" /\ phase[s] = "RECONNECTING"
    /\ phase' = [phase EXCEPT ![s] = "WORLD_CONNECTED"]
    /\ UNCHANGED <<sockVars, life, view, loginUser, binding, entries, gateVars, tokenVars>>

\* ConnectionDrain.drain: no message is dispatched any more, every socket is closed with 1012
\* and every tracked session's teardown starts; a parked one also leaves the registry.
Drain ==
    LET tracked == {connections[c] : c \in Conn} \ {Null}
        parked  == {s \in tracked : binding[s] = Null}
    IN
    /\ ~draining /\ draining' = TRUE
    /\ sock' = CloseHandshake({c \in Conn : connections[c] # Null})
    /\ entries' = EndEntries(parked)
    /\ wsConnectionsPerIp' = ReleaseParks(parked)
    /\ life' = StartTeardown(tracked)
    /\ UNCHANGED <<rdoQueue, running, handle, processed, logoutRequested,
                   phase, view, loginUser, binding, connections, admitted, tokenVars>>

----------------------------------------------------------------------------
(* The event loop *)

HandshakeEnds(c) == sock[c] \in {"closing", "dead"} /\ Close(c)

Microtask(c) ==
    \/ Refuse(c)
    \/ ConnectDirectory(c) \/ OtherRequest(c)
    \/ LoginRefused(c) \/ LoginServerFull(c) \/ LoginEvict(c) \/ LoginCleanup(c)
    \/ SelectCompany(c) \/ SwitchCompany(c) \/ ResumeSession(c)

\* A login goes on in a microtask after an eviction, after an event once it cleans up.
LoginStep(c) == LoginUnknownWorld(c) \/ LoginWorld(c)

Reply(c) ==
    \/ AccountStatus(c) \/ LogonOk(c) \/ LogonFail(c) \/ SelectOk(c) \/ SwitchOk(c) \/ CompanyFails(c)
    \/ OtherDone(c) \/ LogoutDone(c)

Browser(c) ==
    \/ Accept(c) \/ CloseByGuard(c)
    \/ \E m \in Message : m.type \in RequestTypes /\ Receive(c, m)

Macrotask ==
    \/ \E c \in Conn : Reply(c) \/ Close(c) \/ Browser(c)
    \/ \E s \in Conn : Expire(s) \/ TeardownDone(s) \/ WorldLost(s) \/ WorldBack(s)
    \/ Drain

Next ==
    \/ \E c \in Conn : Microtask(c)
    \/ \E c \in Conn : LoginStep(c) /\ (Runnable(c) \/ Settled)
    \/ Settled /\ Macrotask

Spec == Init /\ [][Next]_vars

\* What the runtime and the world servers owe: a ready continuation runs; a request is
\* answered or times out and a closing handshake ends; a park timer fires and endSession()
\* settles (its Logoff has a 5 s deadline).  An event of a tab or of a session waits only for
\* continuations and for other events, hence strong fairness.  Nothing is assumed of what a
\* tab, an operator or the world's link does.
Fairness ==
    /\ WF_vars(\E c \in Conn : Microtask(c) \/ (LoginStep(c) /\ Runnable(c)))
    /\ \A c \in Conn : SF_vars(Settled /\ (LoginStep(c) \/ Reply(c) \/ HandshakeEnds(c)))
    /\ \A s \in Conn : SF_vars(Settled /\ (Expire(s) \/ TeardownDone(s)))

FairSpec == Spec /\ Fairness

----------------------------------------------------------------------------
(* Safety *)

\* Every variable has its type, and a per-IP count never exceeds its limit (server.ts
\* verifyClient).
TypeOK ==
    /\ sock \in [Conn -> {"none", "open", "closing", "dead", "closed"}]
    /\ rdoQueue \in [Conn -> Seq(Message)]
    /\ running \in [Conn -> Handler]
    /\ handle \in [Conn -> Conn]
    /\ processed \in [Conn -> BOOLEAN]
    /\ logoutRequested \in [Conn -> BOOLEAN]
    /\ life \in [Conn -> {"unborn", "live", "ending", "destroyed"}]
    /\ phase \in [Conn -> {"DISCONNECTED", "DIRECTORY_CONNECTED", "WORLD_CONNECTING",
                           "WORLD_CONNECTED", "RECONNECTING"}]
    /\ view \in [Conn -> User \cup {Null}]
    /\ loginUser \in [Conn -> User \cup {Null}]
    /\ binding \in [Conn -> Conn \cup {Null}]
    /\ entries \in [Conn -> ResumeEntry \cup {Null}]
    /\ wsConnectionsPerIp \in [Ip -> 0..MaxPerIp]
    /\ connections \in [Conn -> Conn \cup {Null}]
    /\ admitted \in SUBSET Conn
    /\ draining \in BOOLEAN
    /\ nextToken \in Nat
    /\ delivered \in SUBSET Nat
    /\ claimed \in SUBSET Nat

\* A session talks to at most one tab and a tab to at most one session: the WebSocket a live
\* session is bound to has that session's handle and is not closed (SessionBinding, handle).
OneTabPerSession ==
    \A s \in Conn : Alive(s) /\ binding[s] # Null =>
        /\ handle[binding[s]] = s
        /\ sock[binding[s]] \in {"open", "closing", "dead"}

\* A resume token is single-use and names one session: the tokens in force differ, and none
\* of them was ever consumed (claim, issueToken).
TokensSingleUse ==
    /\ \A s \in Conn : entries[s] # Null => entries[s].token \notin claimed
    /\ \A s, t \in Conn :
        entries[s] # Null /\ entries[t] # Null /\ entries[s].token = entries[t].token => s = t

\* A parked session is alive, without a tab, reachable with its token, and tracked by the
\* shutdown drain under the closed WebSocket whose address keeps its slot (ws.on('close')).
ParkedIsIntact ==
    \A s \in Parked :
        /\ life[s] = "live" /\ binding[s] = Null
        /\ entries[s].token # 0
        /\ \E c \in Conn : /\ connections[c] = s /\ sock[c] = "closed"
                           /\ IpOf[c] = entries[s].ip

\* Nobody resumes a session that is being torn down: the token of an entry whose session has
\* begun to end was sent to no open tab (an entry can outlive its session; see README).
NoResumeOfTheDead ==
    ~draining => \A s \in Conn : entries[s] # Null /\ life[s] # "live"
                                    => entries[s].token \notin delivered

\* A session left running without a tab.
DetachedSession(s) == life[s] = "live" /\ binding[s] = Null

\* The per-IP count is the open WebSockets of the address plus the sessions without a tab
\* that the drain tracks under one of its WebSockets: no slot is lost or given back twice, over
\* closes, parks, takeovers, expiries and evictions (releaseWsSlot's five call sites).
IpSlotsAccounted ==
    ~draining => \A i \in Ip :
        wsConnectionsPerIp[i] =
              Cardinality({c \in Conn : IpOf[c] = i /\ sock[c] \in {"open", "closing", "dead"}})
            + Cardinality({c \in Conn : /\ IpOf[c] = i /\ connections[c] # Null
                                        /\ DetachedSession(connections[c])})

\* The sessions the gateway runs stay within its limits: the admitted ones that are not being
\* torn down within SPO_MAX_SESSIONS although a login discounts the sessions it evicts, the
\* parked ones within SPO_MAX_PARKED_SESSIONS (tryAdmit, park).
LimitsHold ==
    /\ Cardinality({s \in admitted : life[s] = "live"}) <= MaxSessions
    /\ Cardinality(Parked) <= MaxParked

\* A shutdown finds every session: before the drain each one that is not destroyed is tracked
\* under exactly one WebSocket, wherever resumes moved it, and nothing else is tracked.
DrainCovers ==
    /\ \A s \in Conn : Alive(s) => \E c \in Conn : connections[c] = s
    /\ \A c, d \in Conn : connections[c] # Null =>
        /\ Alive(connections[c])
        /\ connections[c] = connections[d] => c = d

\* AccountStatus is only sent once every session the login evicted has logged off and is
\* destroyed, and none of them got a view again meanwhile (handleLoginWorld).
EvictedAreGone ==
    \A c \in Conn : running[c].at \in {"cleaning", "connecting", "logon"} =>
        \A s \in running[c].wait : life[s] = "destroyed" /\ view[s] = Null

----------------------------------------------------------------------------
(* What a step may never do *)

\* A live session goes to another tab only when that tab presents the token in force, which
\* the gateway had sent to a tab, and which the step spends (resumeSession).
TakeoverSpendsToken ==
    [][\A s \in Conn :
        life[s] = "live" /\ binding'[s] # binding[s] /\ binding'[s] # Null =>
            /\ entries[s] # Null
            /\ entries[s].token \in delivered /\ entries[s].token \in claimed' \ claimed
            /\ entries'[s].token \notin claimed']_vars

\* The teardown of a session starts for one of three reasons: the close of the tab it is
\* bound to, the end of its park, or the shutdown.  In particular the late close of a
\* WebSocket it was taken from leaves it alone (ws.on('close'), endParkedSession, drain).
TeardownHasACause ==
    [][\A s \in Conn : life[s] = "live" /\ life'[s] = "ending" =>
        \/ draining'
        \/ IsParked(s)
        \/ binding[s] # Null /\ sock[binding[s]] # "closed" /\ sock'[binding[s]] = "closed"]_vars

----------------------------------------------------------------------------
(* The promise this module implements *)

\* A session whose teardown has begun is over for its user.
LeaseStatus == [s \in Conn |-> CASE life[s] = "unborn" -> "unborn"
                                [] life[s] = "live"   -> "running"
                                [] OTHER              -> "over"]
LeaseHolder == [s \in Conn |-> IF life[s] = "live" THEN binding[s] ELSE Null]
LeaseKey    == [s \in Conn |-> IF life[s] = "live" /\ entries[s] # Null THEN entries[s].token
                               ELSE 0]

Lease == INSTANCE SessionLease WITH
    Session <- Conn,
    status  <- LeaseStatus,
    holder  <- LeaseHolder,
    key     <- LeaseKey,
    issued  <- nextToken

\* Every behaviour of the gateway is one of SessionLease: a session changes hands only
\* against its current key, and never comes back once it is over.
LeaseSpec == Lease!Spec

----------------------------------------------------------------------------
(* Liveness, under FairSpec *)

\* A shutdown destroys every session (ConnectionDrain.drain).
ShutdownEnds == draining ~> \A s \in Conn : ~Alive(s)

\* A parked session gets its tab back or ends, and what has ended holds no session slot
\* (the park timer, destroy()).
ParkEnds == \A s \in Conn :
    IsParked(s) ~> (binding[s] # Null \/ (life[s] = "destroyed" /\ s \notin admitted))

----------------------------------------------------------------------------
(* What the repository says and the code does not do; each is violated *)

\* doc/architecture-overview.md: SPO_SESSION_PARK_MS is "How long a parked session waits for
\* its tab".  A session without a tab has a running park timer.
DetachedHasTimer == \A s \in Conn : DetachedSession(s) => IsParked(s)

\* handleLoginWorld: "Server switch: cleanup previous world session if still connected".  A
\* login that opens a world socket has left the world before, unless that world's socket is
\* lost already.
LoginLeavesTheWorld ==
    [][\A c \in Conn : running'[c].at = "connecting" /\ running[c].at # "connecting" =>
        \/ view'[handle[c]] = Null
        \/ phase[handle[c]] = "RECONNECTING"]_vars

=============================================================================
