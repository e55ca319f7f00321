----------------------------- MODULE WorldLink -----------------------------
(***************************************************************************)
(* The world link of a session: its primary socket, the attempts to        *)
(* reconnect it, and the requests of the browser that open, use and leave  *)
(* a world (spo_session.ts, login-handler.ts).                             *)
(*                                                                         *)
(* Every asynchronous function is a process cut at its awaits: the bodies  *)
(* of attemptWorldReconnect, the lane that serves the browser's requests   *)
(* one at a time, and the closer that ends the session.  An event of the   *)
(* loop settles awaited promises ("goes", "fails"); the continuations run  *)
(* before the next event (Quiet).  The world pool is off, which is the     *)
(* default (ConnectionPool models it); one query stands for the reads of a *)
(* login, one cookie request for PickEvent and the cookies.  Names that    *)
(* SessionPark has too are prefixed, because MCSessions extends both.      *)
(***************************************************************************)
EXTENDS Naturals, FiniteSets

CONSTANTS
    Body,           \* attempts that can be under way at once (bound of the model)
    Lane, Closer,   \* the request being served, and the end of the session
    Sock,           \* world sockets (bound of the model; one nobody refers to is reused)
    None,
    MaxAttempts,    \* RECONNECT_MAX_RETRIES
    Requests        \* the requests the browser sends

Proc  == Body \cup {Lane, Closer}
Kinds == {"login", "switch", "directory", "select", "switchCompany", "game", "logout"}

ASSUME LinkAssumption ==
    /\ IsFiniteSet(Body) /\ IsFiniteSet(Sock)
    /\ Lane # Closer /\ {Lane, Closer} \cap Body = {}
    /\ None \notin Proc \cup Sock
    /\ MaxAttempts \in Nat \ {0} /\ Requests \subseteq Kinds

VARIABLES
    linkPhase,          \* of the session
    isClosing, loggedOff,
    context,        \* worldContextId is set
    world,          \* currentWorldInfo is set
    company,        \* currentCompany is set
    armed,          \* the push watchdog is armed
    current,        \* sockets.get('world')
    linkSock,           \* "none", "open", "lost" (its close event is to come)
    worldReconnecting, \* the body whose promise is shared
    attempts,       \* worldReconnectAttempts
    throttled,      \* the backoff since the last attempt has not elapsed
    resolver,       \* the process initClientResolver wakes
    proc,           \* per process: what it runs, its step, where in it, and on what it waits
    forgotten       \* (history) bodies running whose promise was dropped by another

stateVars == <<linkPhase, isClosing, loggedOff, context, world, company, armed>>
linkSockVars  == <<current, linkSock>>
memoVars  == <<worldReconnecting, attempts, throttled, forgotten>>
linkVars == <<stateVars, linkSockVars, memoVars, resolver, proc>>

LinkIdle == [runs |-> "nothing", step |-> "none", at |-> "idle", on |-> None]

LinkInit ==
    /\ linkPhase = "directory" /\ isClosing = FALSE /\ loggedOff = FALSE
    /\ context = FALSE /\ world = FALSE /\ company = FALSE /\ armed = FALSE
    /\ current = None /\ linkSock = [s \in Sock |-> "none"]
    /\ worldReconnecting = None /\ attempts = 0 /\ throttled = FALSE /\ forgotten = {}
    /\ resolver = None /\ proc = [p \in Proc |-> LinkIdle]

----------------------------------------------------------------------------
(* The event loop. *)

Running(p) == proc[p].at # "idle"
Due(p) == proc[p].at \in {"goes", "back", "fails"}
Quiet == \A p \in Proc : ~Due(p)

Paused(p, step, at, on) == [runs |-> proc[p].runs, step |-> step, at |-> at, on |-> on]
Wait(p, at, on) == Paused(p, proc[p].step, at, on)
Goes(p, step)   == Paused(p, step, "goes", None)

\* mutant: an attempt logs in again but does not select the company again
AfterBare(p, s) ==
    CASE s = "dial" -> "idof"
      [] s \in {"idof", "idofAgain"} -> "logon"
      [] s = "logon" -> "register"
      [] s = "register" -> IF proc[p].runs = "attempt" THEN "done" ELSE "query"
      [] s = "query" -> IF proc[p].runs = "switchCompany" THEN "select" ELSE "done"
      [] s = "select" -> "enable"
      [] s = "enable" -> "cookies"
      [] OTHER -> "done"

\* The step after s: an attempt and a switch of company select the company
\* themselves, a login stops short of it.
After(p, s) ==
    CASE s = "dial" -> "idof"
      [] s \in {"idof", "idofAgain"} -> "logon"
      [] s = "logon" -> "register"
      [] s = "register" -> IF proc[p].runs = "attempt"
                           THEN IF company THEN "select" ELSE "done"
                           ELSE "query"
      [] s = "query" -> IF proc[p].runs = "switchCompany" THEN "select" ELSE "done"
      [] s = "select" -> "enable"
      [] s = "enable" -> "cookies"
      [] OTHER -> "done"

\* Every request in flight is rejected; the reply of RegisterEventsById only
\* ends the wait of a process that already has its InitClient.
Drained == [p \in Proc |->
              CASE proc[p].at = "ask" -> Wait(p, "fails", proc[p].on)
                [] proc[p].at = "cap" -> Goes(p, After(p, "register"))
                [] OTHER -> proc[p]]

----------------------------------------------------------------------------
(* Attempts (attemptWorldReconnect). *)

InWorld    == linkPhase \in {"connected", "reconnecting"}
CanAttempt == InWorld /\ ~isClosing

\* mutant: the promise of the attempt under way is not looked at
FreshAlways(b) == attempts < MaxAttempts /\ ~throttled /\ ~Running(b)

\* What lets a new attempt start: none to share, retries left, the backoff elapsed.
Fresh(b) == worldReconnecting = None /\ attempts < MaxAttempts /\ ~throttled /\ ~Running(b)

Attempt(b) == [runs |-> "attempt", step |-> "dial", at |-> "goes", on |-> None]

\* The synchronous part of a new attempt: b is its body, q the processes after it.
StartAttempt(b, q) ==
    /\ worldReconnecting' = b /\ attempts' = attempts + 1 /\ throttled' = TRUE
    /\ linkPhase' = "reconnecting" /\ armed' = FALSE
    /\ proc' = [q EXCEPT ![b] = Attempt(b)]

\* mutant: the callers are woken only when the body still holds the shared promise
EndBodyShared(b, outcome) ==
    /\ worldReconnecting' = None
    /\ forgotten' = (forgotten \cup ({worldReconnecting} \ {None})) \ {b}
    /\ proc' = [p \in Proc |-> IF p = b THEN LinkIdle
                               ELSE IF proc[p].at = "join" /\ proc[p].on = worldReconnecting
                                    THEN Wait(p, outcome, None)
                               ELSE proc[p]]

\* The end of a body: its promise settles, and `finally` clears the shared
\* one, whoever it belongs to.
EndBody(b, outcome) ==
    /\ worldReconnecting' = None
    /\ forgotten' = (forgotten \cup ({worldReconnecting} \ {None})) \ {b}
    /\ proc' = [p \in Proc |-> IF p = b THEN LinkIdle
                               ELSE IF proc[p].at = "join" /\ proc[p].on = b
                                    THEN Wait(p, outcome, None)
                               ELSE proc[p]]

Succeeds(b) ==
    /\ b \in Body /\ proc[b].at = "goes" /\ proc[b].step = "done"
    /\ linkPhase' = "connected" /\ attempts' = 0
    /\ EndBody(b, "back")
    /\ UNCHANGED <<isClosing, loggedOff, context, world, company, armed, linkSockVars,
                   throttled, resolver>>

DropCurrent ==
    /\ current' = None
    /\ linkSock' = [s \in Sock |-> IF s = current THEN "none" ELSE linkSock[s]]

AttemptFails(b) ==
    /\ b \in Body /\ proc[b].at = "fails"
    /\ DropCurrent
    /\ EndBody(b, "fails")
    /\ UNCHANGED <<stateVars, attempts, throttled, resolver>>

----------------------------------------------------------------------------
(* A request on the world socket (sendRdoRequest, executeRdoRequest). *)

Asks == {"idof", "idofAgain", "logon", "query", "enable", "cookies", "game"}
Asking(p) == proc[p].at = "goes" /\ proc[p].step \in Asks

Write(p) ==
    /\ Asking(p) \/ proc[p].at = "back"
    /\ current # None /\ (~isClosing \/ proc[p].at = "back")
    /\ proc' = [proc EXCEPT ![p] = Wait(p, "ask", current)]
    /\ UNCHANGED <<stateVars, linkSockVars, memoVars, resolver>>

\* No socket, in the world: wait for the attempt under way, one's own included.
Join(p) ==
    /\ Asking(p) /\ current = None /\ CanAttempt /\ worldReconnecting # None
    /\ proc' = [proc EXCEPT ![p] = Wait(p, "join", worldReconnecting)]
    /\ UNCHANGED <<stateVars, linkSockVars, memoVars, resolver>>

Reconnect(p, b) ==
    /\ Asking(p) /\ current = None /\ CanAttempt /\ Fresh(b)
    /\ StartAttempt(b, [Drained EXCEPT ![p] = Wait(p, "join", b)])
    /\ UNCHANGED <<isClosing, loggedOff, context, world, company, linkSockVars, resolver, forgotten>>

NotServed(p) ==
    /\ \/ Asking(p) /\ isClosing
       \/ Asking(p) /\ current = None /\ ~CanAttempt
       \/ Asking(p) /\ current = None /\ worldReconnecting = None
          /\ \A b \in Body : ~Fresh(b)
       \/ proc[p].at = "back" /\ current = None
    /\ proc' = [proc EXCEPT ![p] = Wait(p, "fails", None)]
    /\ UNCHANGED <<stateVars, linkSockVars, memoVars, resolver>>

\* The answer: Logon gives the context, EnableEvents arms the watchdog.
Answered(p) ==
    /\ Quiet /\ proc[p].at = "ask" /\ proc[p].step # "logoff" /\ linkSock[proc[p].on] = "open"
    /\ context' = (context \/ proc[p].step = "logon")
    /\ armed' = (armed \/ proc[p].step = "enable")
    /\ proc' = [proc EXCEPT ![p] = Goes(p, After(p, proc[p].step))]
    /\ UNCHANGED <<linkPhase, isClosing, loggedOff, world, company, linkSockVars, memoVars, resolver>>

\* An error code: the IDOF is asked once more after a delay, the Logon and
\* EnableEvents are refused.
Refused(p) ==
    /\ Quiet /\ proc[p].at = "ask" /\ linkSock[proc[p].on] = "open"
    /\ proc[p].step \in {"idof", "idofAgain", "logon", "enable"}
    /\ proc' = [proc EXCEPT ![p] =
                  IF proc[p].step = "idof" THEN Paused(p, "idofAgain", "retry", None)
                                           ELSE Wait(p, "fails", None)]
    /\ UNCHANGED <<stateVars, linkSockVars, memoVars, resolver>>

Expires(p) ==
    /\ Quiet /\ proc[p].at = "ask"
    /\ proc' = [proc EXCEPT ![p] = Wait(p, "fails", proc[p].on)]
    /\ UNCHANGED <<stateVars, linkSockVars, memoVars, resolver>>

RetryDelay(p) ==
    /\ Quiet /\ proc[p].at = "retry"
    /\ proc' = [proc EXCEPT ![p] = Wait(p, "goes", None)]
    /\ UNCHANGED <<stateVars, linkSockVars, memoVars, resolver>>

----------------------------------------------------------------------------
(* Opening a socket and binding the session to it. *)

\* createSocket: an attempt needs the world it was connected to; a login sets it.
Dial(p) ==
    /\ proc[p].at = "goes" /\ proc[p].step = "dial"
    /\ LET login == proc[p].runs # "attempt" IN
       /\ linkPhase' = IF login THEN "connecting" ELSE linkPhase
       /\ world' = (world \/ login)
       /\ proc' = [proc EXCEPT ![p] = Wait(p, IF world \/ login THEN "dial" ELSE "fails", None)]
    /\ UNCHANGED <<isClosing, loggedOff, context, company, armed, linkSockVars, memoVars, resolver>>

Unused(s) == linkSock[s] = "none" /\ \A p \in Proc : proc[p].on # s

Dialled(p, s) ==
    /\ Quiet /\ proc[p].at = "dial" /\ Unused(s)
    /\ current' = s /\ linkSock' = [linkSock EXCEPT ![s] = "open"]
    /\ proc' = [proc EXCEPT ![p] = Goes(p, "idof")]
    /\ UNCHANGED <<stateVars, memoVars, resolver>>

DialFails(p) ==
    /\ Quiet /\ proc[p].at = "dial"
    /\ proc' = [proc EXCEPT ![p] = Wait(p, "fails", None)]
    /\ UNCHANGED <<stateVars, linkSockVars, memoVars, resolver>>

\* registerEventsAndAwait: one resolver for the whole session.  What becomes of the
\* request itself fails nobody.
RegisterEvents(p) ==
    /\ proc[p].at = "goes" /\ proc[p].step = "register"
    /\ current = None /\ CanAttempt => \A b \in Body : ~Fresh(b)
    /\ resolver' = p
    /\ proc' = [proc EXCEPT ![p] = Wait(p, "init", current)]
    /\ UNCHANGED <<stateVars, linkSockVars, memoVars>>

\* Without a socket the request starts an attempt, as any other does.
RegisterReconnects(p, b) ==
    /\ proc[p].at = "goes" /\ proc[p].step = "register"
    /\ current = None /\ CanAttempt /\ Fresh(b)
    /\ resolver' = p
    /\ StartAttempt(b, [Drained EXCEPT ![p] = Wait(p, "init", None)])
    /\ UNCHANGED <<isClosing, loggedOff, context, world, company, linkSockVars, forgotten>>

\* The socket a process registered on; or, when it found none, the one there is now, on
\* which its request may have been written after an attempt.
Registered(p) == IF proc[p].on = None THEN current ELSE proc[p].on

InitClient ==
    /\ Quiet /\ resolver # None
    /\ \E p \in Proc : proc[p].at = "init" /\ Registered(p) # None /\ linkSock[Registered(p)] = "open"
    /\ resolver' = None
    /\ proc' = [proc EXCEPT ![resolver] =
                  IF proc[resolver].at = "init" THEN Wait(resolver, "cap", proc[resolver].on)
                                                ELSE proc[resolver]]
    /\ UNCHANGED <<stateVars, linkSockVars, memoVars>>

InitTimeout(p) ==
    /\ Quiet /\ proc[p].at = "init"
    /\ resolver' = None
    /\ proc' = [proc EXCEPT ![p] = Wait(p, "fails", None)]
    /\ UNCHANGED <<stateVars, linkSockVars, memoVars>>

\* The reply of RegisterEventsById, or its cap: the login goes on either way.
RegisterEnds(p) ==
    /\ Quiet /\ proc[p].at = "cap"
    /\ proc' = [proc EXCEPT ![p] = Goes(p, After(p, "register"))]
    /\ UNCHANGED <<stateVars, linkSockVars, memoVars, resolver>>

----------------------------------------------------------------------------
(* Sockets. *)

SocketLost(s) ==
    /\ Quiet /\ linkSock[s] = "open"
    /\ linkSock' = [linkSock EXCEPT ![s] = "lost"]
    /\ UNCHANGED <<stateVars, current, memoVars, resolver, proc>>

Reconnects(s) == s = current /\ linkPhase = "connected" /\ ~isClosing /\ ~loggedOff

CloseEvent(s) ==
    /\ Quiet /\ linkSock[s] = "lost"
    /\ linkSock' = [linkSock EXCEPT ![s] = "none"]
    /\ current' = IF s = current THEN None ELSE current
    /\ IF Reconnects(s) /\ \E b \in Body : Fresh(b)
       THEN /\ \E b \in Body : Fresh(b) /\ StartAttempt(b, Drained)
            /\ UNCHANGED <<isClosing, loggedOff, context, world, company, resolver, forgotten>>
       ELSE UNCHANGED <<stateVars, memoVars, resolver, proc>>

BackoffEnds ==
    /\ Quiet /\ throttled
    /\ throttled' = FALSE
    /\ UNCHANGED <<stateVars, linkSockVars, worldReconnecting, attempts, forgotten, resolver, proc>>

----------------------------------------------------------------------------
(* Leaving a world (endSession, cleanupWorldSession, destroy, switchCompany). *)

Forget ==
    /\ worldReconnecting' = None
    /\ forgotten' = forgotten \cup ({worldReconnecting} \ {None})

\* cleanupWorldSession begins: no reconnect from here.
BeginCleanup(p) ==
    /\ proc[p].at = "goes" /\ proc[p].step = "leave"
    /\ linkPhase' = "connecting" /\ attempts' = 0 /\ Forget
    /\ proc' = [proc EXCEPT ![p] = Goes(p, "endSession")]
    /\ UNCHANGED <<isClosing, loggedOff, context, world, company, armed, linkSockVars, throttled, resolver>>

AfterSession(p) == CASE proc[p].runs \in {"switch", "unwind"} -> "wipe"
                     [] proc[p].runs = "close" -> "destroy"
                     [] OTHER -> "done"

\* endSession: nothing to do, the Logoff asked, or (no socket, server busy) skipped.
EndSession(p) ==
    /\ proc[p].at = "goes" /\ proc[p].step = "endSession"
    /\ loggedOff' = (loggedOff \/ context)
    /\ IF loggedOff \/ ~context \/ current = None
       THEN proc' = [proc EXCEPT ![p] = Goes(p, AfterSession(p))]
       ELSE \/ proc' = [proc EXCEPT ![p] = Paused(p, "logoff", "ask", current)]
            \/ proc' = [proc EXCEPT ![p] = Paused(p, "logoff", "fails", current)]
    /\ UNCHANGED <<linkPhase, isClosing, context, world, company, armed, linkSockVars, memoVars, resolver>>

\* The Logoff was answered, failed or skipped, all alike: the socket ends.
LoggedOff(p) ==
    /\ proc[p].step = "logoff" /\ proc[p].at = "fails"
    /\ linkSock' = [linkSock EXCEPT ![proc[p].on] = IF @ = "open" THEN "lost" ELSE @]
    /\ proc' = [proc EXCEPT ![p] = Goes(p, AfterSession(p))]
    /\ UNCHANGED <<stateVars, current, memoVars, resolver>>

\* cleanupWorldSession after the Logoff: the current socket and the state of the world go.
Wipe(p) ==
    /\ proc[p].at = "goes" /\ proc[p].step = "wipe"
    /\ DropCurrent
    /\ context' = FALSE /\ world' = FALSE /\ company' = FALSE /\ armed' = FALSE
    /\ loggedOff' = FALSE /\ linkPhase' = "directory"
    /\ proc' = [Drained EXCEPT ![p] = Goes(p, IF proc[p].runs = "switch" THEN "dial" ELSE "done")]
    /\ UNCHANGED <<isClosing, memoVars, resolver>>

Destroy ==
    /\ proc[Closer].at = "goes" /\ proc[Closer].step = "destroy"
    /\ isClosing' = TRUE /\ linkPhase' = "disconnected"
    /\ context' = FALSE /\ world' = FALSE /\ armed' = FALSE
    /\ DropCurrent /\ Forget
    /\ proc' = [Drained EXCEPT ![Closer] = Goes(Closer, "done")]
    /\ UNCHANGED <<loggedOff, company, attempts, throttled, resolver>>

\* switchCompany drops the socket, without its close event, and logs in again.
LinkSwitchCompany(p) ==
    /\ proc[p].at = "goes" /\ proc[p].step = "reset"
    /\ IF world
       THEN /\ DropCurrent /\ company' = TRUE /\ context' = FALSE
            /\ proc' = [proc EXCEPT ![p] = Goes(p, "dial")]
       ELSE /\ UNCHANGED <<linkSockVars, company, context>>
            /\ proc' = [proc EXCEPT ![p] = Wait(p, "fails", None)]
    /\ UNCHANGED <<linkPhase, isClosing, loggedOff, world, armed, memoVars, resolver>>

\* selectCompany: without a context it throws.
LinkSelectCompany(p) ==
    /\ proc[p].at = "goes" /\ proc[p].step = "select"
    /\ company' = (company \/ context)
    /\ proc' = [proc EXCEPT ![p] = IF context THEN Goes(p, "enable") ELSE Wait(p, "fails", None)]
    /\ UNCHANGED <<linkPhase, isClosing, loggedOff, context, world, armed, linkSockVars, memoVars, resolver>>

----------------------------------------------------------------------------
(* The lane and the closer. *)

FirstStep(r) == CASE r = "login" -> "dial"
                  [] r = "switch" -> IF linkPhase = "reconnecting" THEN "dial" ELSE "leave"
                  [] r = "select" -> "select"
                  [] r = "switchCompany" -> "reset"
                  [] r = "game" -> "game"
                  [] r = "logout" -> "endSession"
                  [] OTHER -> "done"

\* PHASE_ALLOWED_MESSAGES: the world requests need a world; a login needs the
\* directory (login) or a world to leave (switch).
LinkAllowed(r) == CASE r = "login" -> linkPhase = "directory"
                [] r = "directory" -> linkPhase # "connecting"
                [] r = "select" -> linkPhase # "disconnected"
                [] r = "switchCompany" -> linkPhase = "connecting" \/ InWorld
                [] OTHER -> InWorld

Begin(p, r, step) == proc' = [proc EXCEPT ![p] = [runs |-> r, step |-> step, at |-> "goes", on |-> None]]

Serve(r) ==
    /\ Quiet /\ ~Running(Lane) /\ ~isClosing /\ LinkAllowed(r)
    /\ linkPhase' = IF r = "directory" THEN "directory" ELSE linkPhase
    /\ Begin(Lane, r, FirstStep(r))
    /\ UNCHANGED <<isClosing, loggedOff, context, world, company, armed, linkSockVars, memoVars, resolver>>

LinkClose ==
    /\ Quiet /\ ~Running(Closer) /\ ~isClosing
    /\ Begin(Closer, "close", "endSession")
    /\ UNCHANGED <<stateVars, linkSockVars, memoVars, resolver>>

\* A request ends; the selection of a company puts the session in the world.
Done(p) ==
    /\ p \notin Body /\ proc[p].at = "goes" /\ proc[p].step = "done"
    /\ linkPhase' = IF proc[p].runs \in {"select", "switchCompany"} THEN "connected" ELSE linkPhase
    /\ proc' = [proc EXCEPT ![p] = LinkIdle]
    /\ UNCHANGED <<isClosing, loggedOff, context, world, company, armed, linkSockVars, memoVars, resolver>>

\* A request fails: a login cleans the session up, the others only answer.
RequestFails(p) ==
    /\ p \notin Body /\ proc[p].at = "fails" /\ proc[p].step # "logoff"
    /\ proc' = [proc EXCEPT ![p] =
                  IF proc[p].runs \in {"login", "switch"}
                  THEN [runs |-> "unwind", step |-> "leave", at |-> "goes", on |-> None]
                  ELSE LinkIdle]
    /\ UNCHANGED <<stateVars, linkSockVars, memoVars, resolver>>

----------------------------------------------------------------------------

Continue(p) == \/ Write(p) \/ Join(p) \/ (\E b \in Body : Reconnect(p, b)) \/ NotServed(p)
               \/ Dial(p) \/ RegisterEvents(p) \/ (\E b \in Body : RegisterReconnects(p, b))
               \/ LinkSwitchCompany(p) \/ LinkSelectCompany(p)
               \/ BeginCleanup(p) \/ EndSession(p) \/ Wipe(p) \/ Done(p) \/ RequestFails(p)
               \/ Succeeds(p) \/ AttemptFails(p) \/ LoggedOff(p)

Wakes(p) == \/ Answered(p) \/ Refused(p) \/ Expires(p) \/ RetryDelay(p)
            \/ (\E s \in Sock : Dialled(p, s)) \/ DialFails(p) \/ InitTimeout(p) \/ RegisterEnds(p)

LinkNext == \/ \E p \in Proc : Continue(p) \/ Wakes(p)
        \/ Destroy \/ InitClient \/ BackoffEnds \/ LinkClose
        \/ \E s \in Sock : SocketLost(s) \/ CloseEvent(s)
        \/ \E r \in Requests : Serve(r)

LinkSpec == LinkInit /\ [][LinkNext]_linkVars

\* The event loop runs continuations, and every wait but a join ends: a
\* connect timeout, a request deadline, the InitClient timeout, the reply cap.
\* Waits end between continuations, hence strong fairness.
LinkFairness == /\ WF_linkVars(Destroy \/ \E p \in Proc : Continue(p))
            /\ \A p \in Proc : SF_linkVars(Wakes(p))
LinkFairSpec == LinkSpec /\ LinkFairness

----------------------------------------------------------------------------
(* Properties. *)

\* Two attempts are never under way at once, unless a cleanup, the end of the
\* session or the end of an older attempt dropped the promise of one of them.
AttemptsAreShared ==
    \A b \in Body : Running(b) => b = worldReconnecting \/ b \in forgotten

\* While the session says it is in the world the push watchdog is armed: every
\* way in passes EnableEvents, every reconnect that disarmed it armed it again.
ConnectedIsWatched == linkPhase = "connected" => armed

\* Whoever waits for an attempt waits for one that is under way: none is left
\* waiting on a promise that was settled, forgotten or replaced.
JoinersAreHeard ==
    \A p \in Proc : proc[p].at = "join" => proc[p].on \in Body /\ Running(proc[p].on)

\* A session that is in the world knows which: what a cleanup ended does not
\* come back ("GUARD: Prevent reconnect from racing with cleanup").
InWorldKnowsIt == linkPhase = "connected" => world

\* Every reconnect attempt ends, in the world or in failure.
AttemptEnds == \A b \in Body : Running(b) ~> ~Running(b)

=============================================================================
