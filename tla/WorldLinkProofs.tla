-------------------------- MODULE WorldLinkProofs --------------------------
(***************************************************************************)
(* What TLAPS proves about WorldLink, for every set of attempt bodies and  *)
(* sockets, every number of attempts and every set of requests (the last   *)
(* theorem: of requests that stay in the world).                           *)
(***************************************************************************)
EXTENDS WorldLink, TLAPS

----------------------------------------------------------------------------
(* The inductive invariants *)

Waited   == Sock \cup Body \cup {None}
Runs     == Kinds \cup {"nothing", "attempt", "unwind", "close"}
Points   == {"none", "dial", "idof", "idofAgain", "logon", "register", "query", "select", "enable",
             "cookies", "game", "reset", "leave", "endSession", "logoff", "wipe", "destroy", "done"}
Ats      == {"idle", "goes", "back", "fails", "ask", "join", "retry", "dial", "init", "cap"}
Phases   == {"directory", "connecting", "connected", "reconnecting", "disconnected"}
Programs == [runs : Runs, step : Points, at : Ats, on : Waited]

Flags == {isClosing, loggedOff, context, world, company, armed, throttled}
SocketTypeOK == current \in Sock \cup {None} /\ linkSock \in [Sock -> {"none", "open", "lost"}]
MemoTypeOK ==
    /\ worldReconnecting \in Body \cup {None} /\ forgotten \subseteq Body
    /\ attempts \in Nat /\ resolver \in Proc \cup {None}

LinkTypeOK ==
    /\ linkPhase \in Phases /\ Flags \subseteq BOOLEAN
    /\ SocketTypeOK
    /\ MemoTypeOK
    /\ proc \in [Proc -> Programs]

\* The shared promise is that of an attempt under way.
SharedRuns == worldReconnecting # None => Running(worldReconnecting)

ShareInv ==
    /\ LinkTypeOK
    /\ SharedRuns
    /\ AttemptsAreShared
    /\ JoinersAreHeard

\* The steps of each program.
Dialling == {"dial", "idof", "idofAgain", "logon", "register"}
Selected == {"enable", "cookies", "done"}
StepsOf(r) ==
    CASE r = "attempt" -> Dialling \cup Selected \cup {"select"}
      [] r = "login" -> Dialling \cup {"query", "done"}
      [] r = "select" -> Selected \cup {"select"}
      [] r = "switchCompany" -> Dialling \cup Selected \cup {"reset", "query", "select"}
      [] r = "game" -> {"game", "done"}
      [] r = "logout" -> {"endSession", "logoff", "done"}
      [] r = "unwind" -> {"leave", "endSession", "logoff", "wipe", "done"}
      [] r = "close" -> {"endSession", "logoff", "destroy", "done"}
      [] OTHER -> {}

\* Requests that do not leave the world for the directory or another world.
Staying == {"login", "select", "switchCompany", "game", "logout"}

\* Who runs which program, and where in it a process can wait.
RunsOf(p) == CASE p \in Body -> {"attempt"}
               [] p = Closer -> {"close"}
               [] OTHER -> Staying \cup {"unwind"}
WaitsAt(at, step) ==
    /\ at = "retry" => step = "idofAgain"
    /\ at = "dial" => step = "dial"
    /\ at \in {"init", "cap"} => step = "register"
    /\ at \in {"join", "back"} => step \in Asks
    /\ at = "ask" => step \in Asks \cup {"logoff"}
Programmed ==
    \A p \in Proc : Running(p) =>
        /\ proc[p].runs \in RunsOf(p) /\ proc[p].step \in StepsOf(proc[p].runs)
        /\ WaitsAt(proc[p].at, proc[p].step)

\* Nothing is under way in the world while a login runs or the session is in
\* the directory.
LoggingIn == Running(Lane) /\ proc[Lane].runs \in {"login", "unwind"}
OutOfTheWorld ==
    LoggingIn \/ linkPhase = "directory" =>
        /\ ~InWorld
        /\ \A b \in Body : ~Running(b)
        /\ proc[Lane].at \notin {"join", "back"}

\* Whoever is in the world or on the way back to it has a company.
Entering == {"select", "switchCompany"}
CompanyKept ==
    /\ InWorld => company
    /\ \A b \in Body : Running(b) => company
    /\ \A p \in Proc : Running(p) /\ proc[p].runs \in Entering /\ proc[p].step \in Selected => company

\* The watchdog stays armed from EnableEvents to the end of the process that
\* armed it: at the last steps, nothing that disarms it can come between.
Last(r, step) == step = "cookies" \/ (step = "done" /\ r \in Entering \cup {"attempt"})
Watched ==
    /\ \A p \in Proc : proc[p].at = "ask" /\ proc[p].step = "cookies" => armed
    /\ \A p \in Proc : proc[p].at = "goes" /\ Last(proc[p].runs, proc[p].step) =>
          armed /\ \A q \in Proc : q # p => ~Due(q)
    /\ \A p \in Proc : proc[p].at = "back" =>
          /\ armed
          /\ \A q \in Proc : Due(q) =>
                proc[q].at = "back" \/ (proc[q].at = "fails" /\ proc[q].step # "logoff")

WatchInv ==
    /\ ShareInv
    /\ Programmed
    /\ OutOfTheWorld
    /\ CompanyKept
    /\ Watched
    /\ ConnectedIsWatched

----------------------------------------------------------------------------
(* Lemmas on the moves of the processes *)

LEMMA Constants ==
    /\ Body \subseteq Proc /\ Lane \in Proc /\ Closer \in Proc /\ Lane # Closer
    /\ Lane \notin Body /\ Closer \notin Body
    /\ None \notin Proc /\ None \notin Body /\ None \notin Sock
BY LinkAssumption DEF Proc

\* What a process becomes when it stops somewhere, waits, or goes on.
LEMMA PausedFields ==
    ASSUME LinkTypeOK, NEW p \in Proc, NEW step \in Points, NEW at \in Ats, NEW on \in Waited
    PROVE  /\ Paused(p, step, at, on) \in Programs
           /\ Paused(p, step, at, on).at = at /\ Paused(p, step, at, on).on = on
           /\ Paused(p, step, at, on).runs = proc[p].runs
           /\ Paused(p, step, at, on).step = step
<1>1. proc[p] \in Programs
  BY DEF LinkTypeOK
<1>2. proc[p].runs \in Runs
  BY <1>1 DEF Programs
<1> QED
  BY <1>2 DEF Programs, Paused

LEMMA WaitFields ==
    ASSUME LinkTypeOK, NEW p \in Proc, NEW at \in Ats, NEW on \in Waited
    PROVE  /\ Wait(p, at, on) \in Programs
           /\ Wait(p, at, on).at = at /\ Wait(p, at, on).on = on
           /\ Wait(p, at, on).runs = proc[p].runs /\ Wait(p, at, on).step = proc[p].step
<1>1. proc[p].step \in Points
  BY DEF LinkTypeOK, Programs
<1> QED
  BY <1>1, PausedFields DEF Wait

LEMMA GoesFields ==
    ASSUME LinkTypeOK, NEW p \in Proc, NEW step \in Points
    PROVE  /\ Goes(p, step) \in Programs
           /\ Goes(p, step).at = "goes" /\ Goes(p, step).on = None
           /\ Goes(p, step).runs = proc[p].runs /\ Goes(p, step).step = step
BY PausedFields DEF Goes, Waited, Ats

LEMMA AfterType ==
    ASSUME NEW p, NEW s
    PROVE  After(p, s) \in Points
BY DEF After, Points

\* Draining answers every request and ends no process.
LEMMA DrainedFields ==
    ASSUME LinkTypeOK
    PROVE  /\ Drained \in [Proc -> Programs]
           /\ \A p \in Proc :
                /\ Drained[p].runs = proc[p].runs
                /\ Drained[p].at = "idle" <=> proc[p].at = "idle"
                /\ Drained[p].at = "join" => Drained[p] = proc[p]
                /\ Drained[p].at \notin {"ask", "cap"}
                /\ proc[p].at = "ask" => Drained[p].at = "fails" /\ Drained[p].step = proc[p].step
                /\ proc[p].at = "cap" => Drained[p].at = "goes" /\ Drained[p].step = After(p, "register")
                /\ proc[p].at \notin {"ask", "cap"} => Drained[p] = proc[p]
<1>1. \A p \in Proc : proc[p] \in Programs /\ proc[p].on \in Waited
  BY DEF LinkTypeOK, Programs
<1>2. ASSUME NEW p \in Proc, proc[p].at = "ask"
      PROVE  /\ Drained[p] \in Programs /\ Drained[p].runs = proc[p].runs
             /\ Drained[p].at = "fails" /\ Drained[p].step = proc[p].step
  BY <1>1, <1>2, WaitFields DEF Drained, Ats
<1>3. ASSUME NEW p \in Proc, proc[p].at = "cap"
      PROVE  /\ Drained[p] \in Programs /\ Drained[p].runs = proc[p].runs
             /\ Drained[p].at = "goes" /\ Drained[p].step = After(p, "register")
  BY <1>1, <1>3, GoesFields, AfterType DEF Drained
<1>4. ASSUME NEW p \in Proc, proc[p].at \notin {"ask", "cap"}
      PROVE  Drained[p] = proc[p]
  BY <1>4 DEF Drained
<1>5. \A p \in Proc : Drained[p] \in Programs
  BY <1>1, <1>2, <1>3, <1>4
<1>6. Drained \in [Proc -> Programs]
  BY <1>5 DEF Drained
<1> QED
  BY <1>2, <1>3, <1>4, <1>6

\* The programs move, none of an attempt starts or ends: what is shared stays so.
LEMMA Move ==
    ASSUME ShareInv, proc' \in [Proc -> Programs], UNCHANGED worldReconnecting, UNCHANGED forgotten,
           \A b \in Body : proc'[b].at = "idle" <=> proc[b].at = "idle",
           \A p \in Proc : proc'[p].at = "join" =>
               proc'[p].on \in Body /\ Running(proc'[p].on)
    PROVE  SharedRuns' /\ AttemptsAreShared' /\ JoinersAreHeard'
BY DEF ShareInv, SharedRuns, AttemptsAreShared, JoinersAreHeard, Running, LinkTypeOK, MemoTypeOK

\* One process moves.
LEMMA MoveOne ==
    ASSUME ShareInv, NEW p \in Proc, NEW r \in Programs, proc' = [proc EXCEPT ![p] = r],
           UNCHANGED worldReconnecting, UNCHANGED forgotten,
           p \in Body => Running(p) /\ r.at # "idle",
           r.at = "join" => r.on \in Body /\ Running(r.on)
    PROVE  proc' \in [Proc -> Programs] /\ SharedRuns' /\ AttemptsAreShared' /\ JoinersAreHeard'
<1>1. proc' \in [Proc -> Programs]
  BY DEF ShareInv, LinkTypeOK
<1>2. \A b \in Body : proc'[b].at = "idle" <=> proc[b].at = "idle"
  BY Constants DEF ShareInv, LinkTypeOK, Running
<1>3. \A q \in Proc : proc'[q].at = "join" => proc'[q].on \in Body /\ Running(proc'[q].on)
  BY DEF ShareInv, LinkTypeOK, JoinersAreHeard
<1> QED
  BY <1>1, <1>2, <1>3, Move

\* A new attempt starts, shared, and its caller may join it.
LEMMA Start ==
    ASSUME ShareInv, NEW b \in Body, NEW q \in [Proc -> Programs], Fresh(b), StartAttempt(b, q),
           UNCHANGED forgotten,
           \A c \in Body : q[c].at = "idle" <=> proc[c].at = "idle",
           \A p \in Proc : q[p].at = "join" =>
               q[p].on \in Body /\ (q[p].on = b \/ Running(q[p].on))
    PROVE  /\ proc' \in [Proc -> Programs] /\ worldReconnecting' \in Body /\ attempts' \in Nat
           /\ linkPhase' \in Phases /\ armed' \in BOOLEAN /\ throttled' \in BOOLEAN
           /\ SharedRuns' /\ AttemptsAreShared' /\ JoinersAreHeard'
<1>1. Attempt(b) \in Programs /\ Attempt(b).at = "goes"
  BY DEF Attempt, Programs, Waited, Runs, Points, Ats
<1>2. /\ proc' \in [Proc -> Programs] /\ proc'[b].at = "goes"
      /\ \A p \in Proc \ {b} : proc'[p] = q[p]
  BY <1>1, Constants DEF StartAttempt
<1>3. worldReconnecting' = b /\ worldReconnecting = None
  BY DEF StartAttempt, Fresh
<1>4. \A c \in Body : Running(c)' <=> Running(c) \/ c = b
  BY <1>2, Constants DEF Running
<1>5. SharedRuns' /\ AttemptsAreShared'
  BY <1>3, <1>4, Constants DEF SharedRuns, AttemptsAreShared, ShareInv
<1>6. JoinersAreHeard'
  BY <1>2, <1>4 DEF JoinersAreHeard
<1>7. attempts \in Nat
  BY DEF ShareInv, LinkTypeOK, MemoTypeOK
<1>8. attempts' \in Nat /\ linkPhase' \in Phases
  BY <1>7 DEF StartAttempt, Phases
<1>9. armed' \in BOOLEAN /\ throttled' \in BOOLEAN
  BY DEF StartAttempt
<1> QED
  BY <1>2, <1>3, <1>5, <1>6, <1>8, <1>9

\* An attempt ends: its promise settles for all who joined it.
LEMMA Ends ==
    ASSUME ShareInv, NEW b \in Body, NEW outcome \in {"back", "fails"}, EndBody(b, outcome),
           proc[b].at # "join"
    PROVE  /\ proc' \in [Proc -> Programs] /\ worldReconnecting' = None /\ forgotten' \subseteq Body
           /\ SharedRuns' /\ AttemptsAreShared' /\ JoinersAreHeard'
<1>1. LinkIdle \in Programs /\ LinkIdle.at = "idle"
  BY DEF LinkIdle, Programs, Waited, Runs, Points, Ats
<1>2. \A p \in Proc : /\ Wait(p, outcome, None) \in Programs
                      /\ Wait(p, outcome, None).at = outcome
  BY WaitFields DEF ShareInv, Waited, Ats
<1>3. \A p \in Proc : proc'[p] \in Programs
  BY <1>1, <1>2 DEF EndBody, ShareInv, LinkTypeOK
<1>4. proc' \in [Proc -> Programs]
  BY <1>3 DEF EndBody
<1>5. \A c \in Body : Running(c)' <=> Running(c) /\ c # b
  BY <1>1, <1>2, Constants DEF EndBody, Running
<1>6. worldReconnecting' = None /\ forgotten' \subseteq Body
  BY DEF EndBody, ShareInv, LinkTypeOK, MemoTypeOK
<1>7. SharedRuns' /\ AttemptsAreShared'
  BY <1>5, <1>6, Constants DEF EndBody, SharedRuns, AttemptsAreShared, ShareInv, LinkTypeOK, MemoTypeOK
<1>8. \A p \in Proc : proc'[p].at = "join" => p # b /\ proc'[p] = proc[p] /\ proc[p].on # b
  BY <1>1, <1>2 DEF EndBody
<1>9. JoinersAreHeard'
  BY <1>5, <1>8 DEF JoinersAreHeard, ShareInv
<1> QED
  BY <1>4, <1>6, <1>7, <1>9

----------------------------------------------------------------------------
(* The steps of the link *)

LEMMA LinkSteps ==
    ASSUME [LinkNext]_linkVars
    PROVE  \/ \E p \in Proc :
                \/ Write(p) \/ Join(p) \/ (\E b \in Body : Reconnect(p, b)) \/ NotServed(p)
                \/ Dial(p) \/ RegisterEvents(p) \/ (\E b \in Body : RegisterReconnects(p, b))
                \/ LinkSwitchCompany(p) \/ LinkSelectCompany(p)
                \/ BeginCleanup(p) \/ EndSession(p) \/ Wipe(p) \/ Done(p) \/ RequestFails(p)
                \/ Succeeds(p) \/ AttemptFails(p) \/ LoggedOff(p)
                \/ Answered(p) \/ Refused(p) \/ Expires(p) \/ RetryDelay(p)
                \/ (\E s \in Sock : Dialled(p, s)) \/ DialFails(p) \/ InitTimeout(p)
                \/ RegisterEnds(p)
           \/ Destroy \/ InitClient \/ BackoffEnds \/ LinkClose
           \/ \E s \in Sock : SocketLost(s) \/ CloseEvent(s)
           \/ \E r \in Requests : Serve(r)
           \/ UNCHANGED linkVars
BY Zenon DEF LinkNext, Continue, Wakes

\* The state of the session and its sockets keep their types.
LEMMA StateTypes ==
    ASSUME LinkTypeOK, [LinkNext]_linkVars
    PROVE  linkPhase' \in Phases /\ SocketTypeOK'
<1>1. linkPhase \in Phases /\ SocketTypeOK
  BY DEF LinkTypeOK
<1>2. ASSUME NEW p \in Proc, Write(p)
      PROVE  linkPhase' \in Phases /\ SocketTypeOK'
  BY <1>1, <1>2 DEF Write, Phases, SocketTypeOK, stateVars, linkSockVars
<1>3. ASSUME NEW p \in Proc, Join(p)
      PROVE  linkPhase' \in Phases /\ SocketTypeOK'
  BY <1>1, <1>3 DEF Join, Phases, SocketTypeOK, stateVars, linkSockVars
<1>4. ASSUME NEW p \in Proc, NotServed(p)
      PROVE  linkPhase' \in Phases /\ SocketTypeOK'
  BY <1>1, <1>4 DEF NotServed, Phases, SocketTypeOK, stateVars, linkSockVars
<1>5. ASSUME NEW p \in Proc, Dial(p)
      PROVE  linkPhase' \in Phases /\ SocketTypeOK'
  BY <1>1, <1>5 DEF Dial, Phases, SocketTypeOK, stateVars, linkSockVars
<1>6. ASSUME NEW p \in Proc, RegisterEvents(p)
      PROVE  linkPhase' \in Phases /\ SocketTypeOK'
  BY <1>1, <1>6 DEF RegisterEvents, Phases, SocketTypeOK, stateVars, linkSockVars
<1>7. ASSUME NEW p \in Proc, LinkSwitchCompany(p)
      PROVE  linkPhase' \in Phases /\ SocketTypeOK'
  BY <1>1, <1>7 DEF LinkSwitchCompany, Phases, SocketTypeOK, stateVars, linkSockVars, DropCurrent
<1>8. ASSUME NEW p \in Proc, LinkSelectCompany(p)
      PROVE  linkPhase' \in Phases /\ SocketTypeOK'
  BY <1>1, <1>8 DEF LinkSelectCompany, Phases, SocketTypeOK, stateVars, linkSockVars
<1>9. ASSUME NEW p \in Proc, BeginCleanup(p)
      PROVE  linkPhase' \in Phases /\ SocketTypeOK'
  BY <1>1, <1>9 DEF BeginCleanup, Phases, SocketTypeOK, stateVars, linkSockVars
<1>10. ASSUME NEW p \in Proc, EndSession(p)
      PROVE  linkPhase' \in Phases /\ SocketTypeOK'
  BY <1>1, <1>10 DEF EndSession, Phases, SocketTypeOK, stateVars, linkSockVars
<1>11. ASSUME NEW p \in Proc, Wipe(p)
      PROVE  linkPhase' \in Phases /\ SocketTypeOK'
  BY <1>1, <1>11 DEF Wipe, Phases, SocketTypeOK, stateVars, linkSockVars, DropCurrent
<1>12. ASSUME NEW p \in Proc, Done(p)
      PROVE  linkPhase' \in Phases /\ SocketTypeOK'
  BY <1>1, <1>12 DEF Done, Phases, SocketTypeOK, stateVars, linkSockVars
<1>13. ASSUME NEW p \in Proc, RequestFails(p)
      PROVE  linkPhase' \in Phases /\ SocketTypeOK'
  BY <1>1, <1>13 DEF RequestFails, Phases, SocketTypeOK, stateVars, linkSockVars
<1>14. ASSUME NEW p \in Proc, Succeeds(p)
      PROVE  linkPhase' \in Phases /\ SocketTypeOK'
  BY <1>1, <1>14 DEF Succeeds, Phases, SocketTypeOK, stateVars, linkSockVars
<1>15. ASSUME NEW p \in Proc, AttemptFails(p)
      PROVE  linkPhase' \in Phases /\ SocketTypeOK'
  BY <1>1, <1>15 DEF AttemptFails, Phases, SocketTypeOK, stateVars, linkSockVars, DropCurrent
<1>16. ASSUME NEW p \in Proc, LoggedOff(p)
      PROVE  linkPhase' \in Phases /\ SocketTypeOK'
  BY <1>1, <1>16 DEF LoggedOff, Phases, SocketTypeOK, stateVars, linkSockVars
<1>17. ASSUME NEW p \in Proc, Answered(p)
      PROVE  linkPhase' \in Phases /\ SocketTypeOK'
  BY <1>1, <1>17 DEF Answered, Phases, SocketTypeOK, stateVars, linkSockVars
<1>18. ASSUME NEW p \in Proc, Refused(p)
      PROVE  linkPhase' \in Phases /\ SocketTypeOK'
  BY <1>1, <1>18 DEF Refused, Phases, SocketTypeOK, stateVars, linkSockVars
<1>19. ASSUME NEW p \in Proc, Expires(p)
      PROVE  linkPhase' \in Phases /\ SocketTypeOK'
  BY <1>1, <1>19 DEF Expires, Phases, SocketTypeOK, stateVars, linkSockVars
<1>20. ASSUME NEW p \in Proc, RetryDelay(p)
      PROVE  linkPhase' \in Phases /\ SocketTypeOK'
  BY <1>1, <1>20 DEF RetryDelay, Phases, SocketTypeOK, stateVars, linkSockVars
<1>21. ASSUME NEW p \in Proc, DialFails(p)
      PROVE  linkPhase' \in Phases /\ SocketTypeOK'
  BY <1>1, <1>21 DEF DialFails, Phases, SocketTypeOK, stateVars, linkSockVars
<1>22. ASSUME NEW p \in Proc, InitTimeout(p)
      PROVE  linkPhase' \in Phases /\ SocketTypeOK'
  BY <1>1, <1>22 DEF InitTimeout, Phases, SocketTypeOK, stateVars, linkSockVars
<1>23. ASSUME NEW p \in Proc, RegisterEnds(p)
      PROVE  linkPhase' \in Phases /\ SocketTypeOK'
  BY <1>1, <1>23 DEF RegisterEnds, Phases, SocketTypeOK, stateVars, linkSockVars
<1>24. ASSUME NEW p \in Proc, \E b \in Body : Reconnect(p, b)
      PROVE  linkPhase' \in Phases /\ SocketTypeOK'
  BY <1>1, <1>24 DEF Reconnect, Phases, SocketTypeOK, stateVars, linkSockVars, StartAttempt
<1>25. ASSUME NEW p \in Proc, NEW s \in Sock, Dialled(p, s)
      PROVE  linkPhase' \in Phases /\ SocketTypeOK'
  BY <1>1, <1>25 DEF Dialled, Phases, SocketTypeOK, stateVars, linkSockVars
<1>26. ASSUME Destroy
      PROVE  linkPhase' \in Phases /\ SocketTypeOK'
  BY <1>1, <1>26 DEF Destroy, Phases, SocketTypeOK, stateVars, linkSockVars, DropCurrent
<1>27. ASSUME InitClient
      PROVE  linkPhase' \in Phases /\ SocketTypeOK'
  BY <1>1, <1>27 DEF InitClient, Phases, SocketTypeOK, stateVars, linkSockVars
<1>28. ASSUME BackoffEnds
      PROVE  linkPhase' \in Phases /\ SocketTypeOK'
  BY <1>1, <1>28 DEF BackoffEnds, Phases, SocketTypeOK, stateVars, linkSockVars
<1>29. ASSUME LinkClose
      PROVE  linkPhase' \in Phases /\ SocketTypeOK'
  BY <1>1, <1>29 DEF LinkClose, Phases, SocketTypeOK, stateVars, linkSockVars
<1>30. ASSUME NEW s \in Sock, SocketLost(s)
      PROVE  linkPhase' \in Phases /\ SocketTypeOK'
  BY <1>1, <1>30 DEF SocketLost, Phases, SocketTypeOK, stateVars, linkSockVars
<1>31. ASSUME NEW s \in Sock, CloseEvent(s)
      PROVE  linkPhase' \in Phases /\ SocketTypeOK'
  BY <1>1, <1>31 DEF CloseEvent, Phases, SocketTypeOK, stateVars, linkSockVars, StartAttempt
<1>32. ASSUME NEW r \in Requests, Serve(r)
      PROVE  linkPhase' \in Phases /\ SocketTypeOK'
  BY <1>1, <1>32 DEF Serve, Phases, SocketTypeOK, stateVars, linkSockVars
<1>34. ASSUME NEW p \in Proc, \E b \in Body : RegisterReconnects(p, b)
      PROVE  linkPhase' \in Phases /\ SocketTypeOK'
  BY <1>1, <1>34 DEF RegisterReconnects, Phases, SocketTypeOK, stateVars, linkSockVars, StartAttempt
<1>33. CASE UNCHANGED linkVars
  BY <1>1, <1>33 DEF linkVars, stateVars, linkSockVars, SocketTypeOK
<1> QED
  BY Zenon, LinkSteps, <1>2, <1>3, <1>4, <1>5, <1>6, <1>7, <1>8, <1>9, <1>10, <1>11, <1>12, <1>13, <1>14, <1>15, <1>16, <1>17, <1>18, <1>19, <1>20, <1>21, <1>22, <1>23, <1>24, <1>25, <1>26, <1>27, <1>28, <1>29, <1>30, <1>31, <1>32, <1>33, <1>34

\* So do the flags.
LEMMA FlagTypes ==
    ASSUME LinkTypeOK, [LinkNext]_linkVars
    PROVE  Flags' \subseteq BOOLEAN
<1>1. /\ isClosing \in BOOLEAN /\ loggedOff \in BOOLEAN /\ context \in BOOLEAN
      /\ world \in BOOLEAN /\ company \in BOOLEAN /\ armed \in BOOLEAN /\ throttled \in BOOLEAN
  BY DEF LinkTypeOK, Flags
<1>2. ASSUME NEW p \in Proc, Write(p)
      PROVE  Flags' \subseteq BOOLEAN
  BY <1>1, <1>2 DEF Write, Flags, stateVars, linkSockVars, memoVars
<1>3. ASSUME NEW p \in Proc, Join(p)
      PROVE  Flags' \subseteq BOOLEAN
  BY <1>1, <1>3 DEF Join, Flags, stateVars, linkSockVars, memoVars
<1>4. ASSUME NEW p \in Proc, NotServed(p)
      PROVE  Flags' \subseteq BOOLEAN
  BY <1>1, <1>4 DEF NotServed, Flags, stateVars, linkSockVars, memoVars
<1>5. ASSUME NEW p \in Proc, Dial(p)
      PROVE  Flags' \subseteq BOOLEAN
  BY <1>1, <1>5 DEF Dial, Flags, stateVars, linkSockVars, memoVars
<1>6. ASSUME NEW p \in Proc, RegisterEvents(p)
      PROVE  Flags' \subseteq BOOLEAN
  BY <1>1, <1>6 DEF RegisterEvents, Flags, stateVars, linkSockVars, memoVars
<1>7. ASSUME NEW p \in Proc, LinkSwitchCompany(p)
      PROVE  Flags' \subseteq BOOLEAN
  BY <1>1, <1>7 DEF LinkSwitchCompany, Flags, stateVars, linkSockVars, memoVars
<1>8. ASSUME NEW p \in Proc, LinkSelectCompany(p)
      PROVE  Flags' \subseteq BOOLEAN
  BY <1>1, <1>8 DEF LinkSelectCompany, Flags, stateVars, linkSockVars, memoVars
<1>9. ASSUME NEW p \in Proc, BeginCleanup(p)
      PROVE  Flags' \subseteq BOOLEAN
  BY <1>1, <1>9 DEF BeginCleanup, Flags, stateVars, linkSockVars, memoVars
<1>10. ASSUME NEW p \in Proc, EndSession(p)
      PROVE  Flags' \subseteq BOOLEAN
  BY <1>1, <1>10 DEF EndSession, Flags, stateVars, linkSockVars, memoVars
<1>11. ASSUME NEW p \in Proc, Wipe(p)
      PROVE  Flags' \subseteq BOOLEAN
  BY <1>1, <1>11 DEF Wipe, Flags, stateVars, linkSockVars, memoVars
<1>12. ASSUME NEW p \in Proc, Done(p)
      PROVE  Flags' \subseteq BOOLEAN
  BY <1>1, <1>12 DEF Done, Flags, stateVars, linkSockVars, memoVars
<1>13. ASSUME NEW p \in Proc, RequestFails(p)
      PROVE  Flags' \subseteq BOOLEAN
  BY <1>1, <1>13 DEF RequestFails, Flags, stateVars, linkSockVars, memoVars
<1>14. ASSUME NEW p \in Proc, Succeeds(p)
      PROVE  Flags' \subseteq BOOLEAN
  BY <1>1, <1>14 DEF Succeeds, Flags, stateVars, linkSockVars, memoVars
<1>15. ASSUME NEW p \in Proc, AttemptFails(p)
      PROVE  Flags' \subseteq BOOLEAN
  BY <1>1, <1>15 DEF AttemptFails, Flags, stateVars, linkSockVars, memoVars
<1>16. ASSUME NEW p \in Proc, LoggedOff(p)
      PROVE  Flags' \subseteq BOOLEAN
  BY <1>1, <1>16 DEF LoggedOff, Flags, stateVars, linkSockVars, memoVars
<1>17. ASSUME NEW p \in Proc, Answered(p)
      PROVE  Flags' \subseteq BOOLEAN
  BY <1>1, <1>17 DEF Answered, Flags, stateVars, linkSockVars, memoVars
<1>18. ASSUME NEW p \in Proc, Refused(p)
      PROVE  Flags' \subseteq BOOLEAN
  BY <1>1, <1>18 DEF Refused, Flags, stateVars, linkSockVars, memoVars
<1>19. ASSUME NEW p \in Proc, Expires(p)
      PROVE  Flags' \subseteq BOOLEAN
  BY <1>1, <1>19 DEF Expires, Flags, stateVars, linkSockVars, memoVars
<1>20. ASSUME NEW p \in Proc, RetryDelay(p)
      PROVE  Flags' \subseteq BOOLEAN
  BY <1>1, <1>20 DEF RetryDelay, Flags, stateVars, linkSockVars, memoVars
<1>21. ASSUME NEW p \in Proc, DialFails(p)
      PROVE  Flags' \subseteq BOOLEAN
  BY <1>1, <1>21 DEF DialFails, Flags, stateVars, linkSockVars, memoVars
<1>22. ASSUME NEW p \in Proc, InitTimeout(p)
      PROVE  Flags' \subseteq BOOLEAN
  BY <1>1, <1>22 DEF InitTimeout, Flags, stateVars, linkSockVars, memoVars
<1>23. ASSUME NEW p \in Proc, RegisterEnds(p)
      PROVE  Flags' \subseteq BOOLEAN
  BY <1>1, <1>23 DEF RegisterEnds, Flags, stateVars, linkSockVars, memoVars
<1>24. ASSUME NEW p \in Proc, \E b \in Body : Reconnect(p, b)
      PROVE  Flags' \subseteq BOOLEAN
  BY <1>1, <1>24 DEF Reconnect, Flags, stateVars, linkSockVars, memoVars, StartAttempt
<1>25. ASSUME NEW p \in Proc, NEW s \in Sock, Dialled(p, s)
      PROVE  Flags' \subseteq BOOLEAN
  BY <1>1, <1>25 DEF Dialled, Flags, stateVars, linkSockVars, memoVars
<1>26. ASSUME Destroy
      PROVE  Flags' \subseteq BOOLEAN
  BY <1>1, <1>26 DEF Destroy, Flags, stateVars, linkSockVars, memoVars
<1>27. ASSUME InitClient
      PROVE  Flags' \subseteq BOOLEAN
  BY <1>1, <1>27 DEF InitClient, Flags, stateVars, linkSockVars, memoVars
<1>28. ASSUME BackoffEnds
      PROVE  Flags' \subseteq BOOLEAN
  BY <1>1, <1>28 DEF BackoffEnds, Flags, stateVars, linkSockVars, memoVars
<1>29. ASSUME LinkClose
      PROVE  Flags' \subseteq BOOLEAN
  BY <1>1, <1>29 DEF LinkClose, Flags, stateVars, linkSockVars, memoVars
<1>30. ASSUME NEW s \in Sock, SocketLost(s)
      PROVE  Flags' \subseteq BOOLEAN
  BY <1>1, <1>30 DEF SocketLost, Flags, stateVars, linkSockVars, memoVars
<1>31. ASSUME NEW s \in Sock, CloseEvent(s)
      PROVE  Flags' \subseteq BOOLEAN
  BY <1>1, <1>31 DEF CloseEvent, Flags, stateVars, linkSockVars, memoVars, StartAttempt
<1>32. ASSUME NEW r \in Requests, Serve(r)
      PROVE  Flags' \subseteq BOOLEAN
  BY <1>1, <1>32 DEF Serve, Flags, stateVars, linkSockVars, memoVars
<1>34. ASSUME NEW p \in Proc, \E b \in Body : RegisterReconnects(p, b)
      PROVE  Flags' \subseteq BOOLEAN
  BY <1>1, <1>34 DEF RegisterReconnects, Flags, stateVars, linkSockVars, memoVars, StartAttempt
<1>33. CASE UNCHANGED linkVars
  BY <1>1, <1>33 DEF linkVars, Flags, stateVars, linkSockVars, memoVars
<1> QED
  BY Zenon, LinkSteps, <1>2, <1>3, <1>4, <1>5, <1>6, <1>7, <1>8, <1>9, <1>10, <1>11, <1>12, <1>13, <1>14, <1>15, <1>16, <1>17, <1>18, <1>19, <1>20, <1>21, <1>22, <1>23, <1>24, <1>25, <1>26, <1>27, <1>28, <1>29, <1>30, <1>31, <1>32, <1>33, <1>34

\* After a step the programs are programs and what is shared is under way.
Moved ==
    proc' \in [Proc -> Programs] /\ SharedRuns' /\ AttemptsAreShared' /\ JoinersAreHeard'

LEMMA ShareStep ==
    ASSUME ShareInv, [LinkNext]_linkVars
    PROVE  MemoTypeOK' /\ Moved
<1>1. /\ LinkTypeOK /\ MemoTypeOK /\ SharedRuns /\ AttemptsAreShared /\ JoinersAreHeard
      /\ current \in Waited /\ worldReconnecting \in Waited /\ None \in Waited
      /\ \A p \in Proc : /\ proc[p] \in Programs /\ proc[p].at \in Ats /\ proc[p].step \in Points
                         /\ proc[p].runs \in Runs /\ proc[p].on \in Waited
  BY DEF ShareInv, LinkTypeOK, SocketTypeOK, MemoTypeOK, Waited, Programs
<1>2. \A p \in Proc : \A s : After(p, s) \in Points
  BY AfterType
<1>3. \A p \in Proc : AfterSession(p) \in Points
  BY DEF AfterSession, Points
<1>4. ASSUME NEW p \in Proc, Write(p)
      PROVE  MemoTypeOK' /\ Moved
  <2>1. Wait(p, "ask", current) \in Programs /\ Wait(p, "ask", current).at = "ask"
    BY <1>1, WaitFields DEF Ats
  <2>2. Running(p) /\ UNCHANGED worldReconnecting /\ UNCHANGED forgotten
    BY <1>4 DEF Write, Running, Asking, memoVars
  <2>3. MemoTypeOK'
    BY <1>1, <1>4 DEF Write, MemoTypeOK, memoVars
  <2>4. proc' = [proc EXCEPT ![p] = Wait(p, "ask", current)]
    BY <1>4 DEF Write
  <2> QED
    BY <1>1, <2>1, <2>2, <2>3, <2>4, MoveOne DEF Moved
<1>5. ASSUME NEW p \in Proc, Join(p)
      PROVE  MemoTypeOK' /\ Moved
  <2>1. Wait(p, "join", worldReconnecting) \in Programs /\ Wait(p, "join", worldReconnecting).at = "join" /\ Wait(p, "join", worldReconnecting).on = worldReconnecting
    BY <1>1, WaitFields DEF Ats
  <2>2. Running(p) /\ UNCHANGED worldReconnecting /\ UNCHANGED forgotten
    BY <1>5 DEF Join, Running, Asking, memoVars
  <2>3. MemoTypeOK'
    BY <1>1, <1>5 DEF Join, MemoTypeOK, memoVars
  <2>4. proc' = [proc EXCEPT ![p] = Wait(p, "join", worldReconnecting)]
    BY <1>5 DEF Join
  <2>5. worldReconnecting \in Body /\ Running(worldReconnecting)
    BY <1>1, <1>5 DEF Join, SharedRuns, MemoTypeOK
  <2> QED
    BY <1>1, <2>1, <2>2, <2>3, <2>4, <2>5, MoveOne DEF Moved
<1>6. ASSUME NEW p \in Proc, NotServed(p)
      PROVE  MemoTypeOK' /\ Moved
  <2>1. Wait(p, "fails", None) \in Programs /\ Wait(p, "fails", None).at = "fails"
    BY <1>1, WaitFields DEF Ats
  <2>2. Running(p) /\ UNCHANGED worldReconnecting /\ UNCHANGED forgotten
    BY <1>6 DEF NotServed, Running, Asking, memoVars
  <2>3. MemoTypeOK'
    BY <1>1, <1>6 DEF NotServed, MemoTypeOK, memoVars
  <2>4. proc' = [proc EXCEPT ![p] = Wait(p, "fails", None)]
    BY <1>6 DEF NotServed
  <2> QED
    BY <1>1, <2>1, <2>2, <2>3, <2>4, MoveOne DEF Moved
<1>7. ASSUME NEW p \in Proc, Dial(p)
      PROVE  MemoTypeOK' /\ Moved
  <2>1. Wait(p, "dial", None) \in Programs /\ Wait(p, "dial", None).at = "dial"
    BY <1>1, WaitFields DEF Ats
  <2>2. Wait(p, "fails", None) \in Programs /\ Wait(p, "fails", None).at = "fails"
    BY <1>1, WaitFields DEF Ats
  <2>3. Running(p) /\ UNCHANGED worldReconnecting /\ UNCHANGED forgotten
    BY <1>7 DEF Dial, Running, Asking, memoVars
  <2>4. MemoTypeOK'
    BY <1>1, <1>7 DEF Dial, MemoTypeOK, memoVars
  <2>5. \/ proc' = [proc EXCEPT ![p] = Wait(p, "dial", None)]
          \/ proc' = [proc EXCEPT ![p] = Wait(p, "fails", None)]
    BY <1>7 DEF Dial
  <2> QED
    BY <1>1, <2>1, <2>2, <2>3, <2>4, <2>5, MoveOne DEF Moved
<1>8. ASSUME NEW p \in Proc, RegisterEvents(p)
      PROVE  MemoTypeOK' /\ Moved
  <2>1. Wait(p, "init", current) \in Programs /\ Wait(p, "init", current).at = "init"
    BY <1>1, WaitFields DEF Ats
  <2>2. Running(p) /\ UNCHANGED worldReconnecting /\ UNCHANGED forgotten
    BY <1>8 DEF RegisterEvents, Running, Asking, memoVars
  <2>3. MemoTypeOK'
    BY <1>1, <1>8, Constants DEF RegisterEvents, MemoTypeOK, memoVars
  <2>4. proc' = [proc EXCEPT ![p] = Wait(p, "init", current)]
    BY <1>8 DEF RegisterEvents
  <2> QED
    BY <1>1, <2>1, <2>2, <2>3, <2>4, MoveOne DEF Moved
<1>9. ASSUME NEW p \in Proc, LinkSwitchCompany(p)
      PROVE  MemoTypeOK' /\ Moved
  <2>1. Goes(p, "dial") \in Programs /\ Goes(p, "dial").at = "goes"
    BY <1>1, GoesFields DEF Points
  <2>2. Wait(p, "fails", None) \in Programs /\ Wait(p, "fails", None).at = "fails"
    BY <1>1, WaitFields DEF Ats
  <2>3. Running(p) /\ UNCHANGED worldReconnecting /\ UNCHANGED forgotten
    BY <1>9 DEF LinkSwitchCompany, Running, Asking, memoVars
  <2>4. MemoTypeOK'
    BY <1>1, <1>9 DEF LinkSwitchCompany, MemoTypeOK, memoVars
  <2>5. \/ proc' = [proc EXCEPT ![p] = Goes(p, "dial")]
          \/ proc' = [proc EXCEPT ![p] = Wait(p, "fails", None)]
    BY <1>9 DEF LinkSwitchCompany
  <2> QED
    BY <1>1, <2>1, <2>2, <2>3, <2>4, <2>5, MoveOne DEF Moved
<1>10. ASSUME NEW p \in Proc, LinkSelectCompany(p)
      PROVE  MemoTypeOK' /\ Moved
  <2>1. Goes(p, "enable") \in Programs /\ Goes(p, "enable").at = "goes"
    BY <1>1, GoesFields DEF Points
  <2>2. Wait(p, "fails", None) \in Programs /\ Wait(p, "fails", None).at = "fails"
    BY <1>1, WaitFields DEF Ats
  <2>3. Running(p) /\ UNCHANGED worldReconnecting /\ UNCHANGED forgotten
    BY <1>10 DEF LinkSelectCompany, Running, Asking, memoVars
  <2>4. MemoTypeOK'
    BY <1>1, <1>10 DEF LinkSelectCompany, MemoTypeOK, memoVars
  <2>5. \/ proc' = [proc EXCEPT ![p] = Goes(p, "enable")]
          \/ proc' = [proc EXCEPT ![p] = Wait(p, "fails", None)]
    BY <1>10 DEF LinkSelectCompany
  <2> QED
    BY <1>1, <2>1, <2>2, <2>3, <2>4, <2>5, MoveOne DEF Moved
<1>11. ASSUME NEW p \in Proc, BeginCleanup(p)
      PROVE  MemoTypeOK' /\ Moved
  <2>1. Goes(p, "endSession") \in Programs /\ Goes(p, "endSession").at = "goes"
    BY <1>1, GoesFields DEF Points
  <2>2. Running(p)
    BY <1>11 DEF BeginCleanup, Running
  <2>3. proc' = [proc EXCEPT ![p] = Goes(p, "endSession")] /\ Forget
    BY <1>11 DEF BeginCleanup
  <2>4. proc' \in [Proc -> Programs]
    BY <1>1, <2>1, <2>3 DEF LinkTypeOK
  <2>5. MemoTypeOK'
    BY <1>1, <1>11 DEF BeginCleanup, Forget, MemoTypeOK
  <2>6. \A q \in Proc : /\ proc'[q].at = "idle" <=> proc[q].at = "idle"
                        /\ proc'[q].at = "join" => proc'[q] = proc[q]
    BY <1>1, <2>1, <2>2, <2>3 DEF LinkTypeOK, Running
  <2> QED
    BY <1>1, <2>3, <2>4, <2>5, <2>6, Constants DEF Moved, SharedRuns, AttemptsAreShared, JoinersAreHeard, Running, Forget, MemoTypeOK
<1>12. ASSUME NEW p \in Proc, EndSession(p)
      PROVE  MemoTypeOK' /\ Moved
  <2>1. Goes(p, AfterSession(p)) \in Programs /\ Goes(p, AfterSession(p)).at = "goes"
    BY <1>1, <1>3, GoesFields
  <2>2. Paused(p, "logoff", "ask", current) \in Programs /\ Paused(p, "logoff", "ask", current).at = "ask"
    BY <1>1, PausedFields DEF Ats, Points
  <2>3. Paused(p, "logoff", "fails", current) \in Programs /\ Paused(p, "logoff", "fails", current).at = "fails"
    BY <1>1, PausedFields DEF Ats, Points
  <2>4. Running(p) /\ UNCHANGED worldReconnecting /\ UNCHANGED forgotten
    BY <1>12 DEF EndSession, Running, Asking, memoVars
  <2>5. MemoTypeOK'
    BY <1>1, <1>12 DEF EndSession, MemoTypeOK, memoVars
  <2>6. \/ proc' = [proc EXCEPT ![p] = Goes(p, AfterSession(p))]
          \/ proc' = [proc EXCEPT ![p] = Paused(p, "logoff", "ask", current)]
          \/ proc' = [proc EXCEPT ![p] = Paused(p, "logoff", "fails", current)]
    BY <1>12 DEF EndSession
  <2> QED
    BY <1>1, <2>1, <2>2, <2>3, <2>4, <2>5, <2>6, MoveOne DEF Moved
<1>13. ASSUME NEW p \in Proc, Wipe(p)
      PROVE  MemoTypeOK' /\ Moved
  <2>1. PICK step \in {"dial", "done"} : proc' = [Drained EXCEPT ![p] = Goes(p, step)]
    BY <1>13 DEF Wipe
  <2>2. Goes(p, step) \in Programs /\ Goes(p, step).at = "goes" /\ Running(p)
    BY <1>1, <1>13, GoesFields DEF Points, Wipe, Running
  <2>3. proc' \in [Proc -> Programs]
    BY <1>1, <2>1, <2>2, DrainedFields
  <2>4. UNCHANGED worldReconnecting /\ UNCHANGED forgotten /\ MemoTypeOK'
    BY <1>1, <1>13 DEF Wipe, memoVars, MemoTypeOK
  <2>5. \A q \in Proc : /\ proc'[q].at = "idle" <=> proc[q].at = "idle"
                        /\ proc'[q].at = "join" => proc'[q] = proc[q]
    BY <1>1, <2>1, <2>2, DrainedFields DEF Running
  <2> QED
    BY <1>1, <2>3, <2>4, <2>5, Move, Constants DEF Moved, JoinersAreHeard
<1>14. ASSUME NEW p \in Proc, Done(p)
      PROVE  MemoTypeOK' /\ Moved
  <2>1. LinkIdle \in Programs /\ LinkIdle.at = "idle"
    BY DEF LinkIdle, Programs, Waited, Runs, Points, Ats
  <2>2. /\ p \notin Body /\ proc' = [proc EXCEPT ![p] = LinkIdle]
        /\ UNCHANGED worldReconnecting /\ UNCHANGED forgotten /\ MemoTypeOK'
    BY <1>1, <1>14 DEF Done, memoVars, MemoTypeOK
  <2> QED
    BY <2>1, <2>2, MoveOne DEF Moved
<1>15. ASSUME NEW p \in Proc, RequestFails(p)
      PROVE  MemoTypeOK' /\ Moved
  <2> DEFINE u == [runs |-> "unwind", step |-> "leave", at |-> "goes", on |-> None]
  <2>1. LinkIdle \in Programs /\ LinkIdle.at = "idle" /\ u \in Programs /\ u.at = "goes"
    BY DEF LinkIdle, Programs, Waited, Runs, Points, Ats
  <2>2. /\ p \notin Body /\ (proc' = [proc EXCEPT ![p] = u] \/ proc' = [proc EXCEPT ![p] = LinkIdle])
        /\ UNCHANGED worldReconnecting /\ UNCHANGED forgotten /\ MemoTypeOK'
    BY <1>1, <1>15 DEF RequestFails, memoVars, MemoTypeOK
  <2> HIDE DEF u
  <2> QED
    BY <2>1, <2>2, MoveOne DEF Moved
<1>16. ASSUME NEW p \in Proc, Succeeds(p)
      PROVE  MemoTypeOK' /\ Moved
  <2>1. p \in Body /\ EndBody(p, "back") /\ proc[p].at = "goes"
        /\ attempts' = 0 /\ UNCHANGED resolver
    BY <1>16 DEF Succeeds
  <2> QED
    BY <1>1, <2>1, Ends DEF Moved, MemoTypeOK
<1>17. ASSUME NEW p \in Proc, AttemptFails(p)
      PROVE  MemoTypeOK' /\ Moved
  <2>1. p \in Body /\ EndBody(p, "fails") /\ proc[p].at = "fails"
        /\ UNCHANGED attempts /\ UNCHANGED resolver
    BY <1>17 DEF AttemptFails
  <2> QED
    BY <1>1, <2>1, Ends DEF Moved, MemoTypeOK
<1>18. ASSUME NEW p \in Proc, LoggedOff(p)
      PROVE  MemoTypeOK' /\ Moved
  <2>1. Goes(p, AfterSession(p)) \in Programs /\ Goes(p, AfterSession(p)).at = "goes"
    BY <1>1, <1>3, GoesFields
  <2>2. Running(p) /\ UNCHANGED worldReconnecting /\ UNCHANGED forgotten
    BY <1>18 DEF LoggedOff, Running, Asking, memoVars
  <2>3. MemoTypeOK'
    BY <1>1, <1>18 DEF LoggedOff, MemoTypeOK, memoVars
  <2>4. proc' = [proc EXCEPT ![p] = Goes(p, AfterSession(p))]
    BY <1>18 DEF LoggedOff
  <2> QED
    BY <1>1, <2>1, <2>2, <2>3, <2>4, MoveOne DEF Moved
<1>19. ASSUME NEW p \in Proc, Answered(p)
      PROVE  MemoTypeOK' /\ Moved
  <2>1. Goes(p, After(p, proc[p].step)) \in Programs /\ Goes(p, After(p, proc[p].step)).at = "goes"
    BY <1>1, <1>2, GoesFields
  <2>2. Running(p) /\ UNCHANGED worldReconnecting /\ UNCHANGED forgotten
    BY <1>19 DEF Answered, Running, Asking, memoVars
  <2>3. MemoTypeOK'
    BY <1>1, <1>19 DEF Answered, MemoTypeOK, memoVars
  <2>4. proc' = [proc EXCEPT ![p] = Goes(p, After(p, proc[p].step))]
    BY <1>19 DEF Answered
  <2> QED
    BY <1>1, <2>1, <2>2, <2>3, <2>4, MoveOne DEF Moved
<1>20. ASSUME NEW p \in Proc, Refused(p)
      PROVE  MemoTypeOK' /\ Moved
  <2>1. Paused(p, "idofAgain", "retry", None) \in Programs /\ Paused(p, "idofAgain", "retry", None).at = "retry"
    BY <1>1, PausedFields DEF Ats, Points
  <2>2. Wait(p, "fails", None) \in Programs /\ Wait(p, "fails", None).at = "fails"
    BY <1>1, WaitFields DEF Ats
  <2>3. Running(p) /\ UNCHANGED worldReconnecting /\ UNCHANGED forgotten
    BY <1>20 DEF Refused, Running, Asking, memoVars
  <2>4. MemoTypeOK'
    BY <1>1, <1>20 DEF Refused, MemoTypeOK, memoVars
  <2>5. \/ proc' = [proc EXCEPT ![p] = Paused(p, "idofAgain", "retry", None)]
          \/ proc' = [proc EXCEPT ![p] = Wait(p, "fails", None)]
    BY <1>20 DEF Refused
  <2> QED
    BY <1>1, <2>1, <2>2, <2>3, <2>4, <2>5, MoveOne DEF Moved
<1>21. ASSUME NEW p \in Proc, Expires(p)
      PROVE  MemoTypeOK' /\ Moved
  <2>1. Wait(p, "fails", proc[p].on) \in Programs /\ Wait(p, "fails", proc[p].on).at = "fails"
    BY <1>1, WaitFields DEF Ats
  <2>2. Running(p) /\ UNCHANGED worldReconnecting /\ UNCHANGED forgotten
    BY <1>21 DEF Expires, Running, Asking, memoVars
  <2>3. MemoTypeOK'
    BY <1>1, <1>21 DEF Expires, MemoTypeOK, memoVars
  <2>4. proc' = [proc EXCEPT ![p] = Wait(p, "fails", proc[p].on)]
    BY <1>21 DEF Expires
  <2> QED
    BY <1>1, <2>1, <2>2, <2>3, <2>4, MoveOne DEF Moved
<1>22. ASSUME NEW p \in Proc, RetryDelay(p)
      PROVE  MemoTypeOK' /\ Moved
  <2>1. Wait(p, "goes", None) \in Programs /\ Wait(p, "goes", None).at = "goes"
    BY <1>1, WaitFields DEF Ats
  <2>2. Running(p) /\ UNCHANGED worldReconnecting /\ UNCHANGED forgotten
    BY <1>22 DEF RetryDelay, Running, Asking, memoVars
  <2>3. MemoTypeOK'
    BY <1>1, <1>22 DEF RetryDelay, MemoTypeOK, memoVars
  <2>4. proc' = [proc EXCEPT ![p] = Wait(p, "goes", None)]
    BY <1>22 DEF RetryDelay
  <2> QED
    BY <1>1, <2>1, <2>2, <2>3, <2>4, MoveOne DEF Moved
<1>23. ASSUME NEW p \in Proc, DialFails(p)
      PROVE  MemoTypeOK' /\ Moved
  <2>1. Wait(p, "fails", None) \in Programs /\ Wait(p, "fails", None).at = "fails"
    BY <1>1, WaitFields DEF Ats
  <2>2. Running(p) /\ UNCHANGED worldReconnecting /\ UNCHANGED forgotten
    BY <1>23 DEF DialFails, Running, Asking, memoVars
  <2>3. MemoTypeOK'
    BY <1>1, <1>23 DEF DialFails, MemoTypeOK, memoVars
  <2>4. proc' = [proc EXCEPT ![p] = Wait(p, "fails", None)]
    BY <1>23 DEF DialFails
  <2> QED
    BY <1>1, <2>1, <2>2, <2>3, <2>4, MoveOne DEF Moved
<1>24. ASSUME NEW p \in Proc, InitTimeout(p)
      PROVE  MemoTypeOK' /\ Moved
  <2>1. Wait(p, "fails", None) \in Programs /\ Wait(p, "fails", None).at = "fails"
    BY <1>1, WaitFields DEF Ats
  <2>2. Running(p) /\ UNCHANGED worldReconnecting /\ UNCHANGED forgotten
    BY <1>24 DEF InitTimeout, Running, Asking, memoVars
  <2>3. MemoTypeOK'
    BY <1>1, <1>24, Constants DEF InitTimeout, MemoTypeOK, memoVars
  <2>4. proc' = [proc EXCEPT ![p] = Wait(p, "fails", None)]
    BY <1>24 DEF InitTimeout
  <2> QED
    BY <1>1, <2>1, <2>2, <2>3, <2>4, MoveOne DEF Moved
<1>25. ASSUME NEW p \in Proc, RegisterEnds(p)
      PROVE  MemoTypeOK' /\ Moved
  <2>1. Goes(p, After(p, "register")) \in Programs /\ Goes(p, After(p, "register")).at = "goes"
    BY <1>1, <1>2, GoesFields
  <2>2. Running(p) /\ UNCHANGED worldReconnecting /\ UNCHANGED forgotten
    BY <1>25 DEF RegisterEnds, Running, Asking, memoVars
  <2>3. MemoTypeOK'
    BY <1>1, <1>25 DEF RegisterEnds, MemoTypeOK, memoVars
  <2>4. proc' = [proc EXCEPT ![p] = Goes(p, After(p, "register"))]
    BY <1>25 DEF RegisterEnds
  <2> QED
    BY <1>1, <2>1, <2>2, <2>3, <2>4, MoveOne DEF Moved
<1>26. ASSUME NEW p \in Proc, \E b \in Body : Reconnect(p, b)
      PROVE  MemoTypeOK' /\ Moved
  <2>1. PICK b \in Body : Reconnect(p, b)
    BY <1>26
  <2> DEFINE q == [Drained EXCEPT ![p] = Wait(p, "join", b)]
  <2>2. Fresh(b) /\ StartAttempt(b, q) /\ UNCHANGED forgotten /\ UNCHANGED resolver /\ Running(p)
    BY <2>1 DEF Reconnect, Asking, Running
  <2>3. /\ Wait(p, "join", b) \in Programs
        /\ Wait(p, "join", b).at = "join" /\ Wait(p, "join", b).on = b
    BY <1>1, WaitFields DEF Ats, Waited
  <2>4. /\ q \in [Proc -> Programs] /\ q[p] = Wait(p, "join", b)
        /\ \A x \in Proc \ {p} : q[x] = Drained[x]
    BY <1>1, <2>3, DrainedFields
  <2>5. \A c \in Body : q[c].at = "idle" <=> proc[c].at = "idle"
    BY <1>1, <2>2, <2>3, <2>4, DrainedFields, Constants DEF Running
  <2>6. \A x \in Proc : q[x].at = "join" => q[x].on \in Body /\ (q[x].on = b \/ Running(q[x].on))
    BY <1>1, <2>3, <2>4, DrainedFields DEF JoinersAreHeard
  <2> HIDE DEF q
  <2> QED
    BY <1>1, <2>2, <2>4, <2>5, <2>6, Start DEF Moved, MemoTypeOK
<1>27. ASSUME NEW p \in Proc, NEW s \in Sock, Dialled(p, s)
      PROVE  MemoTypeOK' /\ Moved
  <2>1. Goes(p, "idof") \in Programs /\ Goes(p, "idof").at = "goes"
    BY <1>1, GoesFields DEF Points
  <2>2. Running(p) /\ UNCHANGED worldReconnecting /\ UNCHANGED forgotten
    BY <1>27 DEF Dialled, Running, Asking, memoVars
  <2>3. MemoTypeOK'
    BY <1>1, <1>27 DEF Dialled, MemoTypeOK, memoVars
  <2>4. proc' = [proc EXCEPT ![p] = Goes(p, "idof")]
    BY <1>27 DEF Dialled
  <2> QED
    BY <1>1, <2>1, <2>2, <2>3, <2>4, MoveOne DEF Moved
<1>28. ASSUME Destroy
      PROVE  MemoTypeOK' /\ Moved
  <2>1. proc' = [Drained EXCEPT ![Closer] = Goes(Closer, "done")] /\ Forget
    BY <1>28 DEF Destroy
  <2>2. Goes(Closer, "done") \in Programs /\ Goes(Closer, "done").at = "goes" /\ Running(Closer)
    BY <1>1, <1>28, GoesFields, Constants DEF Points, Destroy, Running
  <2>3. proc' \in [Proc -> Programs]
    BY <1>1, <2>1, <2>2, DrainedFields
  <2>4. MemoTypeOK'
    BY <1>1, <1>28 DEF Destroy, Forget, MemoTypeOK
  <2>5. \A q \in Proc : /\ proc'[q].at = "idle" <=> proc[q].at = "idle"
                        /\ proc'[q].at = "join" => proc'[q] = proc[q]
    BY <1>1, <2>1, <2>2, DrainedFields, Constants DEF Running
  <2> QED
    BY <1>1, <2>1, <2>3, <2>4, <2>5, Constants DEF Moved, SharedRuns, AttemptsAreShared, JoinersAreHeard, Running, Forget, MemoTypeOK
<1>29. ASSUME InitClient
      PROVE  MemoTypeOK' /\ Moved
  <2>1. /\ resolver \in Proc /\ resolver' = None /\ UNCHANGED memoVars
        /\ \/ proc[resolver].at = "init"
              /\ proc' = [proc EXCEPT ![resolver] = Wait(resolver, "cap", proc[resolver].on)]
           \/ proc' = [proc EXCEPT ![resolver] = proc[resolver]]
    BY <1>1, <1>29 DEF InitClient, MemoTypeOK
  <2>2. Wait(resolver, "cap", proc[resolver].on) \in Programs
        /\ Wait(resolver, "cap", proc[resolver].on).at = "cap"
    BY <1>1, <2>1, WaitFields DEF Ats
  <2>3. MemoTypeOK' /\ UNCHANGED worldReconnecting /\ UNCHANGED forgotten
    BY <1>1, <2>1 DEF memoVars, MemoTypeOK
  <2>4. CASE proc[resolver].at = "init"
             /\ proc' = [proc EXCEPT ![resolver] = Wait(resolver, "cap", proc[resolver].on)]
    BY <1>1, <2>1, <2>2, <2>3, <2>4, MoveOne DEF Moved, Running
  <2>5. CASE proc' = [proc EXCEPT ![resolver] = proc[resolver]]
    <3>1. UNCHANGED proc
      BY <1>1, <2>1, <2>5 DEF LinkTypeOK
    <3> QED
      BY <1>1, <2>3, <3>1 DEF Moved, LinkTypeOK, SharedRuns, AttemptsAreShared, JoinersAreHeard, Running
  <2> QED
    BY <2>1, <2>4, <2>5
<1>30. ASSUME BackoffEnds
      PROVE  MemoTypeOK' /\ Moved
  BY <1>1, <1>30 DEF BackoffEnds, MemoTypeOK, Moved, LinkTypeOK, SharedRuns, AttemptsAreShared, JoinersAreHeard, Running
<1>31. ASSUME LinkClose
      PROVE  MemoTypeOK' /\ Moved
  <2> DEFINE r == [runs |-> "close", step |-> "endSession", at |-> "goes", on |-> None]
  <2>1. r \in Programs /\ r.at = "goes"
    BY DEF Programs, Waited, Runs, Points, Ats
  <2>2. /\ proc' = [proc EXCEPT ![Closer] = r] /\ UNCHANGED worldReconnecting
        /\ UNCHANGED forgotten /\ MemoTypeOK'
    BY <1>1, <1>31 DEF LinkClose, Begin, memoVars, MemoTypeOK
  <2> HIDE DEF r
  <2> QED
    BY <2>1, <2>2, MoveOne, Constants DEF Moved
<1>32. ASSUME NEW s \in Sock, SocketLost(s)
      PROVE  MemoTypeOK' /\ Moved
  BY <1>1, <1>32 DEF SocketLost, memoVars, MemoTypeOK, Moved, LinkTypeOK, SharedRuns, AttemptsAreShared, JoinersAreHeard, Running
<1>33. ASSUME NEW s \in Sock, CloseEvent(s)
      PROVE  MemoTypeOK' /\ Moved
  <2>1. CASE UNCHANGED <<stateVars, memoVars, resolver, proc>>
    BY <1>1, <2>1 DEF memoVars, MemoTypeOK, Moved, LinkTypeOK, SharedRuns, AttemptsAreShared, JoinersAreHeard, Running
  <2>2. ASSUME NEW b \in Body, Fresh(b), StartAttempt(b, Drained), UNCHANGED forgotten, UNCHANGED resolver
        PROVE  MemoTypeOK' /\ Moved
    <3>1. /\ Drained \in [Proc -> Programs]
          /\ \A c \in Body : Drained[c].at = "idle" <=> proc[c].at = "idle"
          /\ \A x \in Proc : Drained[x].at = "join" =>
                Drained[x].on \in Body /\ (Drained[x].on = b \/ Running(Drained[x].on))
      BY <1>1, DrainedFields, Constants DEF JoinersAreHeard
    <3> QED
      BY <1>1, <2>2, <3>1, Start DEF Moved, MemoTypeOK
  <2> QED
    BY <1>33, <2>1, <2>2 DEF CloseEvent
<1>34. ASSUME NEW r \in Requests, Serve(r)
      PROVE  MemoTypeOK' /\ Moved
  <2> DEFINE x == [runs |-> r, step |-> FirstStep(r), at |-> "goes", on |-> None]
  <2>1. r \in Runs /\ FirstStep(r) \in Points
    BY LinkAssumption DEF Runs, FirstStep, Points
  <2>2. x \in Programs /\ x.at = "goes"
    BY <2>1 DEF Programs, Waited, Ats
  <2>3. /\ proc' = [proc EXCEPT ![Lane] = x] /\ UNCHANGED worldReconnecting
        /\ UNCHANGED forgotten /\ MemoTypeOK'
    BY <1>1, <1>34 DEF Serve, Begin, memoVars, MemoTypeOK
  <2> HIDE DEF x
  <2> QED
    BY <2>2, <2>3, MoveOne, Constants DEF Moved
<1>36. ASSUME NEW p \in Proc, \E b \in Body : RegisterReconnects(p, b)
      PROVE  MemoTypeOK' /\ Moved
  <2>1. PICK b \in Body : RegisterReconnects(p, b)
    BY <1>36
  <2> DEFINE q == [Drained EXCEPT ![p] = Wait(p, "init", None)]
  <2>2. Fresh(b) /\ StartAttempt(b, q) /\ UNCHANGED forgotten /\ resolver' = p /\ Running(p)
    BY <2>1 DEF RegisterReconnects, Running
  <2>3. /\ Wait(p, "init", None) \in Programs
        /\ Wait(p, "init", None).at = "init"
    BY <1>1, WaitFields DEF Ats, Waited
  <2>4. /\ q \in [Proc -> Programs] /\ q[p] = Wait(p, "init", None)
        /\ \A x \in Proc \ {p} : q[x] = Drained[x]
    BY <1>1, <2>3, DrainedFields
  <2>5. \A c \in Body : q[c].at = "idle" <=> proc[c].at = "idle"
    BY <1>1, <2>2, <2>3, <2>4, DrainedFields, Constants DEF Running
  <2>6. \A x \in Proc : q[x].at = "join" => q[x].on \in Body /\ (q[x].on = b \/ Running(q[x].on))
    BY <1>1, <2>3, <2>4, DrainedFields DEF JoinersAreHeard
  <2> HIDE DEF q
  <2> QED
    BY <1>1, <2>2, <2>4, <2>5, <2>6, Start DEF Moved, MemoTypeOK
<1>35. CASE UNCHANGED linkVars
  BY <1>1, <1>35 DEF linkVars, memoVars, MemoTypeOK, Moved, LinkTypeOK, SharedRuns, AttemptsAreShared, JoinersAreHeard, Running
<1> QED
  BY Zenon, LinkSteps, <1>4, <1>5, <1>6, <1>7, <1>8, <1>9, <1>10, <1>11, <1>12, <1>13, <1>14, <1>15, <1>16, <1>17, <1>18, <1>19, <1>20, <1>21, <1>22, <1>23, <1>24, <1>25, <1>26, <1>27, <1>28, <1>29, <1>30, <1>31, <1>32, <1>33, <1>34, <1>35, <1>36

LEMMA ShareInit == LinkInit => ShareInv
<1> SUFFICES ASSUME LinkInit
             PROVE  ShareInv
  OBVIOUS
<1>1. LinkIdle \in Programs /\ LinkIdle.at = "idle"
  BY DEF LinkIdle, Programs, Waited, Runs, Points, Ats
<1>2. proc \in [Proc -> Programs] /\ \A p \in Proc : proc[p].at = "idle"
  BY <1>1 DEF LinkInit
<1>3. linkPhase \in Phases /\ SocketTypeOK /\ MemoTypeOK
  BY DEF LinkInit, Phases, SocketTypeOK, MemoTypeOK
<1>4. Flags \subseteq BOOLEAN
  BY DEF LinkInit, Flags
<1> QED
  BY <1>2, <1>3, <1>4, Constants DEF ShareInv, LinkTypeOK, SharedRuns, AttemptsAreShared, JoinersAreHeard, Running, LinkInit

LEMMA ShareNext == ShareInv /\ [LinkNext]_linkVars => ShareInv'
BY StateTypes, FlagTypes, ShareStep DEF ShareInv, LinkTypeOK, Moved

LEMMA ShareInvariant == LinkSpec => []ShareInv
BY ShareInit, ShareNext, PTL DEF LinkSpec

\* The state of the link, its sockets, its attempts and its processes have their types.
THEOREM LinkTypes == LinkSpec => []LinkTypeOK
BY ShareInvariant, PTL DEF ShareInv

\* Two attempts are never under way at once, unless a cleanup, the end of the session or the
\* end of an older attempt dropped the promise of one of them (attemptWorldReconnect,
\* worldReconnecting).
THEOREM SharedAttempts == LinkSpec => []AttemptsAreShared
BY ShareInvariant, PTL DEF ShareInv

\* Whoever waits for an attempt waits for one that is under way (the promise executeRdoRequest
\* awaits when the world socket is gone).
THEOREM HeardJoiners == LinkSpec => []JoinersAreHeard
BY ShareInvariant, PTL DEF ShareInv

----------------------------------------------------------------------------
(* The watchdog: one process moves *)

\* p goes on to a step of its program; the others stay where they are.
Moves(p, step, at) ==
    /\ proc'[p].runs = proc[p].runs /\ proc'[p].step = step /\ proc'[p].at = at
    /\ \A q \in Proc \ {p} : proc'[q] = proc[q]

\* What a move within a program needs to keep WatchInv, the watchdog apart.
InProgram(p, step, at) ==
    /\ Moves(p, step, at) /\ Running(p) /\ at \notin {"idle", "back"}
    /\ step \in StepsOf(proc[p].runs) /\ WaitsAt(at, step)
    /\ at = "join" => InWorld
    /\ linkPhase' \in {linkPhase, "connecting"} /\ (company => company')
    /\ proc[p].runs \in Entering /\ step \in Selected => company' \/ proc[p].step \in Selected

LEMMA KeepsProgram ==
    ASSUME WatchInv, NEW p \in Proc, NEW step, NEW at, InProgram(p, step, at)
    PROVE  Programmed' /\ OutOfTheWorld' /\ CompanyKept'
<1>1. \A q \in Proc :
        /\ proc'[q].runs = proc[q].runs
        /\ Running(q)' <=> Running(q)
        /\ q # p => proc'[q] = proc[q]
  BY DEF InProgram, Moves, Running
<1>2. Programmed'
  BY <1>1 DEF InProgram, Moves, WatchInv, Programmed, Running
<1>3. LoggingIn' <=> LoggingIn
  BY <1>1, Constants DEF LoggingIn, Running
<1>4. OutOfTheWorld'
  BY <1>1, <1>3, Constants DEF InProgram, Moves, WatchInv, OutOfTheWorld, InWorld, Running
<1>5. CompanyKept'
  BY <1>1, Constants DEF InProgram, Moves, WatchInv, CompanyKept, InWorld, Running
<1> QED
  BY <1>2, <1>4, <1>5

\* A process goes on by itself, and the watchdog is left alone.
LEMMA Continues ==
    ASSUME WatchInv, NEW p \in Proc, NEW step, NEW at, InProgram(p, step, at), UNCHANGED armed,
           Due(p),
           at = "ask" /\ step = "cookies" => proc[p].step = "cookies" /\ proc[p].at # "fails",
           at = "goes" => ~Last(proc[p].runs, step),
           \/ proc[p].at = "goes" \/ (proc[p].at = "fails" /\ proc[p].step = "logoff")
           \/ at = "ask" \/ (at = "fails" /\ step # "logoff")
    PROVE  Programmed' /\ OutOfTheWorld' /\ CompanyKept' /\ Watched' /\ ConnectedIsWatched'
<1>1. \A q \in Proc : q # p => proc'[q] = proc[q]
  BY DEF InProgram, Moves
<1>2. proc'[p].runs = proc[p].runs /\ proc'[p].step = step /\ proc'[p].at = at /\ at # "back"
  BY DEF InProgram, Moves
<1>3. /\ \A q \in Proc : proc'[q].at = "ask" /\ proc'[q].step = "cookies" => armed
      /\ \A q \in Proc : proc'[q].at = "goes" => ~Last(proc'[q].runs, proc'[q].step)
  BY <1>1, <1>2 DEF WatchInv, Watched, Due, Last
<1>4. ASSUME NEW q \in Proc, proc'[q].at = "back", NEW x \in Proc, Due(x)'
      PROVE  armed /\ (proc'[x].at = "back" \/ (proc'[x].at = "fails" /\ proc'[x].step # "logoff"))
  <2>1. proc[q].at = "back" /\ q # p
    BY <1>1, <1>2, <1>4
  <2>2. /\ armed /\ (proc[p].at = "back" \/ (proc[p].at = "fails" /\ proc[p].step # "logoff"))
        /\ Due(x) => proc[x].at = "back" \/ (proc[x].at = "fails" /\ proc[x].step # "logoff")
    BY <2>1 DEF WatchInv, Watched
  <2> QED
    BY <1>1, <1>2, <1>4, <2>2 DEF Due
<1>5. Watched'
  <2>1. \A q \in Proc : proc'[q].at = "back" => armed' /\ \A x \in Proc : Due(x)' =>
          proc'[x].at = "back" \/ (proc'[x].at = "fails" /\ proc'[x].step # "logoff")
    BY <1>4 DEF Due
  <2> QED
    BY <1>3, <2>1 DEF Watched
<1>6. ConnectedIsWatched'
  BY DEF InProgram, WatchInv, ConnectedIsWatched
<1> QED
  BY <1>5, <1>6, KeepsProgram

\* An event wakes a process while no other is ready.
LEMMA WakesUp ==
    ASSUME WatchInv, NEW p \in Proc, NEW step, NEW at, InProgram(p, step, at), Quiet,
           armed => armed', at # "ask",
           at = "goes" /\ Last(proc[p].runs, step) => armed'
    PROVE  Programmed' /\ OutOfTheWorld' /\ CompanyKept' /\ Watched' /\ ConnectedIsWatched'
<1>1. \A q \in Proc : q # p => proc'[q] = proc[q]
  BY DEF InProgram, Moves
<1>2. proc'[p].runs = proc[p].runs /\ proc'[p].step = step /\ proc'[p].at = at /\ at # "back"
  BY DEF InProgram, Moves
<1>3. \A q \in Proc : ~Due(q) /\ (q # p => ~Due(q)')
  BY <1>1 DEF Quiet, Due
<1>4. Watched'
  BY <1>1, <1>2, <1>3 DEF WatchInv, Watched, Due
<1>5. ConnectedIsWatched'
  BY DEF InProgram, WatchInv, ConnectedIsWatched
<1> QED
  BY <1>4, <1>5, KeepsProgram

\* The steps a process goes on to are steps of its program.
LEMMA AfterFits ==
    ASSUME Programmed, NEW p \in Proc, Running(p), proc[p].step \in Asks
    PROVE  LET next == After(p, proc[p].step) IN
           /\ next \in StepsOf(proc[p].runs)
           /\ proc[p].runs \in Entering /\ next \in Selected => proc[p].step \in Selected
           /\ Last(proc[p].runs, next) => proc[p].step \in {"enable", "cookies"}
<1> DEFINE r == proc[p].runs
           s == proc[p].step
<1>1. /\ s \in StepsOf(r) /\ s \in Asks
      /\ r \in {"attempt", "close", "unwind", "login", "select", "switchCompany", "game", "logout"}
  BY DEF Programmed, RunsOf, Staying
<1>2. After(p, s) =
        CASE s \in {"idof", "idofAgain"} -> "logon"
          [] s = "logon" -> "register"
          [] s = "query" -> IF r = "switchCompany" THEN "select" ELSE "done"
          [] s = "enable" -> "cookies"
          [] OTHER -> "done"
  BY <1>1 DEF After, Asks
<1>3. CASE s \in {"idof", "idofAgain", "logon"}
  <2>1. After(p, s) \in {"logon", "register"}
    BY <1>2, <1>3
  <2>2. r \in {"attempt", "login", "switchCompany"}
    BY <1>1, <1>3 DEF StepsOf, Dialling, Selected
  <2> QED
    BY <2>1, <2>2 DEF StepsOf, Dialling, Selected, Last
<1>4. CASE s = "query"
  <2>1. (r = "switchCompany" /\ After(p, s) = "select") \/ (r = "login" /\ After(p, s) = "done")
    BY <1>1, <1>2, <1>4 DEF StepsOf, Dialling, Selected
  <2> QED
    BY <2>1 DEF StepsOf, Dialling, Selected, Last, Entering
<1>5. CASE s \in {"enable", "cookies"}
  <2>1. After(p, s) \in {"cookies", "done"}
    BY <1>2, <1>5
  <2>2. r \in {"attempt", "select", "switchCompany"}
    BY <1>1, <1>5 DEF StepsOf, Dialling, Selected
  <2> QED
    BY <1>5, <2>1, <2>2 DEF StepsOf, Selected
<1>6. CASE s = "game"
  <2>1. r = "game" /\ After(p, s) = "done"
    BY <1>1, <1>2, <1>6 DEF StepsOf, Dialling, Selected
  <2> QED
    BY <2>1 DEF StepsOf, Last, Entering
<1> QED
  BY <1>1, <1>3, <1>4, <1>5, <1>6 DEF Asks

\* An attempt selects the company again: the session has one.
LEMMA RegisterFits ==
    ASSUME WatchInv, NEW p \in Proc, Running(p), proc[p].step = "register"
    PROVE  /\ After(p, "register") \in {"select", "query"}
           /\ After(p, "register") \in StepsOf(proc[p].runs)
<1>1. proc[p].runs \in RunsOf(p) /\ "register" \in StepsOf(proc[p].runs)
  BY DEF WatchInv, Programmed
<1>2. proc[p].runs \in {"attempt", "login", "switchCompany"}
  BY <1>1 DEF RunsOf, Staying, StepsOf, Dialling, Selected
<1>3. proc[p].runs = "attempt" => p \in Body
  BY <1>1 DEF RunsOf, Staying
<1>4. proc[p].runs = "attempt" => company
  BY <1>3 DEF WatchInv, CompanyKept
<1>5. After(p, "register") = IF proc[p].runs = "attempt"
                             THEN IF company THEN "select" ELSE "done"
                             ELSE "query"
  BY DEF After
<1>6. After(p, "register") = IF proc[p].runs = "attempt" THEN "select" ELSE "query"
  BY <1>4, <1>5
<1> QED
  BY <1>2, <1>6 DEF StepsOf, Dialling, Selected

LEMMA SessionFits ==
    ASSUME Programmed, NEW p \in Proc, Running(p), proc[p].step \in {"endSession", "logoff"}
    PROVE  /\ AfterSession(p) \in StepsOf(proc[p].runs) \cap {"wipe", "destroy", "done"}
           /\ "logoff" \in StepsOf(proc[p].runs)
           /\ proc[p].runs \in {"logout", "unwind", "close"}
<1>1. proc[p].runs \in {"logout", "unwind", "close"}
  BY DEF Programmed, RunsOf, Staying, StepsOf, Dialling, Selected
<1>2. AfterSession(p) = CASE proc[p].runs = "unwind" -> "wipe"
                          [] proc[p].runs = "close" -> "destroy"
                          [] OTHER -> "done"
  BY <1>1 DEF AfterSession
<1> QED
  BY <1>1, <1>2 DEF StepsOf

\* What WatchInv asks of a step beyond ShareInv.
Kept == Programmed' /\ OutOfTheWorld' /\ CompanyKept' /\ Watched' /\ ConnectedIsWatched'

LEMMA Stays ==
    ASSUME WatchInv, UNCHANGED <<linkPhase, company, armed, proc>>
    PROVE  Kept
BY DEF Kept, WatchInv, Programmed, OutOfTheWorld, LoggingIn, InWorld, CompanyKept, Watched,
       ConnectedIsWatched, Running, Due

\* A request is served, or the session begins to end.
LEMMA Begins ==
    ASSUME WatchInv, NEW p \in {Lane, Closer}, ~Running(p), Quiet, UNCHANGED <<linkPhase, company, armed>>,
           \A q \in Proc \ {p} : proc'[q] = proc[q],
           proc'[p].at = "goes", proc'[p].runs \in RunsOf(p),
           proc'[p].step \in StepsOf(proc'[p].runs), proc'[p].step \notin Selected,
           p = Lane /\ proc'[p].runs \in {"login", "unwind"} => linkPhase = "directory"
    PROVE  Kept
<1>1. p \in Proc /\ p \notin Body
  BY Constants
<1>2. \A q \in Proc : q # p => proc'[q] = proc[q] /\ ~Due(q)
  BY DEF Quiet
<1>3. Programmed'
  BY <1>2 DEF WatchInv, Programmed, Running, WaitsAt
<1>4. LoggingIn' => LoggingIn \/ linkPhase = "directory"
  BY <1>2, Constants DEF LoggingIn, Running
<1>5. proc'[Lane].at \in {"join", "back"} => proc[Lane].at \in {"join", "back"}
  BY <1>2, Constants
<1>6. OutOfTheWorld'
  BY <1>1, <1>2, <1>4, <1>5, Constants DEF WatchInv, OutOfTheWorld, InWorld, Running
<1>7. CompanyKept'
  BY <1>1, <1>2, Constants DEF WatchInv, CompanyKept, InWorld, Running
<1>8. Watched'
  BY <1>2 DEF WatchInv, Watched, Due, Last, Selected
<1> QED
  BY <1>3, <1>6, <1>7, <1>8 DEF Kept, WatchInv, ConnectedIsWatched

\* A drained process keeps its program; none comes to its last steps that way.
LEMMA DrainedFits ==
    ASSUME WatchInv, NEW p \in Proc
    PROVE  /\ Drained[p].runs = proc[p].runs /\ (Drained[p].at = "idle" <=> proc[p].at = "idle")
           /\ Drained[p].at # "idle" => /\ Drained[p].step \in StepsOf(proc[p].runs)
                                       /\ WaitsAt(Drained[p].at, Drained[p].step)
           /\ Drained[p].at \in {"back", "join"} => Drained[p] = proc[p]
           /\ Drained[p].at # "ask"
           /\ Drained[p].at = "goes" /\ Last(proc[p].runs, Drained[p].step) => Drained[p] = proc[p]
           /\ Drained[p].step \in Selected => proc[p].step \in Selected
<1>1. /\ LinkTypeOK /\ Programmed
  BY DEF WatchInv, ShareInv
<1>2. CASE proc[p].at = "cap"
  <2>1. proc[p].step = "register" /\ Running(p)
    BY <1>1, <1>2 DEF Programmed, WaitsAt, Running
  <2>2. /\ After(p, "register") \in {"select", "query"}
        /\ After(p, "register") \in StepsOf(proc[p].runs)
    BY <2>1, RegisterFits
  <2>3. /\ Drained[p].runs = proc[p].runs /\ Drained[p].at = "goes"
        /\ Drained[p].step = After(p, "register")
    BY <1>1, <1>2, DrainedFields
  <2> QED
    BY <1>2, <2>2, <2>3 DEF WaitsAt, Last, Selected
<1>3. CASE proc[p].at = "ask"
  <2>1. /\ Drained[p].runs = proc[p].runs /\ Drained[p].at = "fails" /\ Drained[p].step = proc[p].step
    BY <1>1, <1>3, DrainedFields
  <2>2. proc[p].step \in StepsOf(proc[p].runs)
    BY <1>1, <1>3 DEF Programmed, Running
  <2> QED
    BY <1>3, <2>1, <2>2 DEF WaitsAt
<1>4. CASE proc[p].at \notin {"ask", "cap"}
  <2>1. Drained[p] = proc[p]
    BY <1>1, <1>4, DrainedFields
  <2>2. proc[p].at # "idle" => /\ proc[p].step \in StepsOf(proc[p].runs)
                               /\ WaitsAt(proc[p].at, proc[p].step)
    BY <1>1 DEF Programmed, Running
  <2> QED
    BY <1>4, <2>1, <2>2
<1> QED
  BY <1>2, <1>3, <1>4

\* An attempt starts in the world: the watchdog is disarmed, and nobody relies on it.
LEMMA AttemptStarts ==
    ASSUME WatchInv, NEW b \in Body, InWorld, UNCHANGED company, linkPhase' = "reconnecting",
           proc'[b] = Attempt(b),
           \A q \in Proc \ {b} :
               \/ proc'[q] = Drained[q]
               \/ /\ Running(q) /\ proc'[q].runs = proc[q].runs /\ proc'[q].step = proc[q].step
                  /\ WaitsAt(proc'[q].at, proc'[q].step) /\ proc'[q].at \in {"join", "init"},
           \A q \in Proc : proc[q].at # "back",
           \A q \in Proc : proc[q].at = "goes" /\ Last(proc[q].runs, proc[q].step) =>
               proc'[q] # proc[q]
    PROVE  Kept
<1>1. /\ proc'[b].runs = "attempt" /\ proc'[b].step = "dial" /\ proc'[b].at = "goes"
  BY DEF Attempt
<1>2. \A q \in Proc \ {b} :
        /\ proc'[q].runs = proc[q].runs
        /\ proc'[q].at = "idle" <=> proc[q].at = "idle"
        /\ proc'[q].at # "idle" =>
              proc'[q].step \in StepsOf(proc[q].runs) /\ WaitsAt(proc'[q].at, proc'[q].step)
        /\ proc'[q].step \in Selected => proc[q].step \in Selected
        /\ proc'[q].at \notin {"ask", "back"}
        /\ proc'[q].at = "goes" => ~Last(proc[q].runs, proc'[q].step)
  <2> SUFFICES ASSUME NEW q \in Proc \ {b}
               PROVE  /\ proc'[q].runs = proc[q].runs
                      /\ proc'[q].at = "idle" <=> proc[q].at = "idle"
                      /\ proc'[q].at # "idle" =>
                            proc'[q].step \in StepsOf(proc[q].runs) /\ WaitsAt(proc'[q].at, proc'[q].step)
                      /\ proc'[q].step \in Selected => proc[q].step \in Selected
                      /\ proc'[q].at \notin {"ask", "back"}
                      /\ proc'[q].at = "goes" => ~Last(proc[q].runs, proc'[q].step)
    OBVIOUS
  <2>1. CASE proc'[q] = Drained[q]
    BY <2>1, DrainedFits
  <2>2. CASE /\ Running(q) /\ proc'[q].runs = proc[q].runs /\ proc'[q].step = proc[q].step
             /\ WaitsAt(proc'[q].at, proc'[q].step) /\ proc'[q].at \in {"join", "init"}
    BY <2>2 DEF WatchInv, Programmed, Running, WaitsAt
  <2> QED
    BY <2>1, <2>2
<1>3. ~LoggingIn /\ company
  BY DEF WatchInv, OutOfTheWorld, CompanyKept
<1>4. Programmed'
  <2>1. RunsOf(b) = {"attempt"} /\ "dial" \in StepsOf("attempt") /\ WaitsAt("goes", "dial")
    BY Constants DEF RunsOf, StepsOf, Dialling, WaitsAt
  <2>2. \A q \in Proc \ {b} : Running(q) => proc[q].runs \in RunsOf(q)
    BY DEF WatchInv, Programmed
  <2> QED
    BY <1>1, <1>2, <2>1, <2>2 DEF Programmed, Running
<1>5. ~LoggingIn'
  BY <1>2, <1>3, Constants DEF LoggingIn, Running
<1>6. OutOfTheWorld' /\ CompanyKept'
  BY <1>3, <1>5 DEF OutOfTheWorld, CompanyKept
<1>7. Watched'
  BY <1>1, <1>2 DEF Watched, Last
<1> QED
  BY <1>4, <1>6, <1>7 DEF Kept, ConnectedIsWatched

----------------------------------------------------------------------------
(* The watchdog: the steps of the link *)

LEMMA WatchStep ==
    ASSUME WatchInv, [LinkNext]_linkVars, Requests \subseteq Staying
    PROVE  Kept
<1>1. /\ LinkTypeOK /\ Programmed /\ Watched /\ None \in Waited
      /\ current \in Waited /\ worldReconnecting \in Waited
      /\ proc \in [Proc -> Programs]
  BY DEF WatchInv, ShareInv, LinkTypeOK, SocketTypeOK, MemoTypeOK, Waited
<1>2. \A p \in Proc : proc[p].step \in Points /\ proc[p].on \in Waited /\ AfterSession(p) \in Points
  BY <1>1 DEF Programs, AfterSession, Points
<1>3. \A p \in Proc : Running(p) =>
        /\ proc[p].runs \in RunsOf(p) /\ proc[p].step \in StepsOf(proc[p].runs)
        /\ WaitsAt(proc[p].at, proc[p].step)
  BY <1>1 DEF Programmed
<1>4. ASSUME NEW p \in Proc, Write(p)
      PROVE  Kept
  <2>1. Running(p) /\ proc[p].at \in {"goes", "back"} /\ proc[p].step \in Asks
    BY <1>3, <1>4 DEF Write, Running, Asking, WaitsAt
  <2>2. UNCHANGED <<linkPhase, company, armed>>
    BY <1>4 DEF Write, stateVars
  <2>3. ASSUME proc' = [proc EXCEPT ![p] = Wait(p, "ask", current)]
        PROVE  Kept
    <3>1. Moves(p, proc[p].step, "ask")
      BY <1>1, <1>2, <2>3, WaitFields DEF Moves, Ats, Points
    <3>2. InProgram(p, proc[p].step, "ask")
      BY <1>1, <1>3, <2>1, <2>2, <2>3, <3>1 DEF InProgram, WaitsAt, Selected, Entering, Asks
    <3> QED
      BY <1>1, <1>3, <2>1, <2>2, <3>2, Continues DEF Kept, Due, Last, Asks
  <2> QED
    BY <1>4, <2>3 DEF Write
<1>5. ASSUME NEW p \in Proc, Join(p)
      PROVE  Kept
  <2>1. Running(p) /\ proc[p].at = "goes" /\ proc[p].step \in Asks /\ InWorld
    BY <1>3, <1>5 DEF Join, Running, Asking, CanAttempt
  <2>2. UNCHANGED <<linkPhase, company, armed>>
    BY <1>5 DEF Join, stateVars
  <2>3. ASSUME proc' = [proc EXCEPT ![p] = Wait(p, "join", worldReconnecting)]
        PROVE  Kept
    <3>1. Moves(p, proc[p].step, "join")
      BY <1>1, <1>2, <2>3, WaitFields DEF Moves, Ats, Points
    <3>2. InProgram(p, proc[p].step, "join")
      BY <1>1, <1>3, <2>1, <2>2, <2>3, <3>1 DEF InProgram, WaitsAt, Selected, Entering, Asks
    <3> QED
      BY <1>1, <1>3, <2>1, <2>2, <3>2, Continues DEF Kept, Due, Last, Asks
  <2> QED
    BY <1>5, <2>3 DEF Join
<1>6. ASSUME NEW p \in Proc, NotServed(p)
      PROVE  Kept
  <2>1. Running(p) /\ proc[p].at \in {"goes", "back"} /\ proc[p].step \in Asks
    BY <1>3, <1>6 DEF NotServed, Running, Asking, WaitsAt
  <2>2. UNCHANGED <<linkPhase, company, armed>>
    BY <1>6 DEF NotServed, stateVars
  <2>3. ASSUME proc' = [proc EXCEPT ![p] = Wait(p, "fails", None)]
        PROVE  Kept
    <3>1. Moves(p, proc[p].step, "fails")
      BY <1>1, <1>2, <2>3, WaitFields DEF Moves, Ats, Points
    <3>2. InProgram(p, proc[p].step, "fails")
      BY <1>1, <1>3, <2>1, <2>2, <2>3, <3>1 DEF InProgram, WaitsAt, Selected, Entering, Asks
    <3> QED
      BY <1>1, <1>3, <2>1, <2>2, <3>2, Continues DEF Kept, Due, Last, Asks
  <2> QED
    BY <1>6, <2>3 DEF NotServed
<1>7. ASSUME NEW p \in Proc, Dial(p)
      PROVE  Kept
  <2>1. Running(p) /\ proc[p].at = "goes" /\ proc[p].step = "dial"
    BY <1>3, <1>7 DEF Dial, Running
  <2>2. linkPhase' \in {linkPhase, "connecting"} /\ UNCHANGED <<company, armed>>
    BY <1>7 DEF Dial, stateVars
  <2>3. ASSUME proc' = [proc EXCEPT ![p] = Wait(p, "dial", None)]
        PROVE  Kept
    <3>1. Moves(p, proc[p].step, "dial")
      BY <1>1, <1>2, <2>3, WaitFields DEF Moves, Ats, Points
    <3>2. InProgram(p, proc[p].step, "dial")
      BY <1>1, <1>3, <2>1, <2>2, <2>3, <3>1 DEF InProgram, WaitsAt, Selected, Entering, Asks
    <3> QED
      BY <1>1, <1>3, <2>1, <2>2, <3>2, Continues DEF Kept, Due, Last, Asks
  <2>4. ASSUME proc' = [proc EXCEPT ![p] = Wait(p, "fails", None)]
        PROVE  Kept
    <3>1. Moves(p, proc[p].step, "fails")
      BY <1>1, <1>2, <2>4, WaitFields DEF Moves, Ats, Points
    <3>2. InProgram(p, proc[p].step, "fails")
      BY <1>1, <1>3, <2>1, <2>2, <2>4, <3>1 DEF InProgram, WaitsAt, Selected, Entering, Asks
    <3> QED
      BY <1>1, <1>3, <2>1, <2>2, <3>2, Continues DEF Kept, Due, Last, Asks
  <2> QED
    BY <1>7, <2>3, <2>4 DEF Dial
<1>8. ASSUME NEW p \in Proc, RegisterEvents(p)
      PROVE  Kept
  <2>1. Running(p) /\ proc[p].at = "goes" /\ proc[p].step = "register"
    BY <1>3, <1>8 DEF RegisterEvents, Running
  <2>2. UNCHANGED <<linkPhase, company, armed>>
    BY <1>8 DEF RegisterEvents, stateVars
  <2>3. ASSUME proc' = [proc EXCEPT ![p] = Wait(p, "init", current)]
        PROVE  Kept
    <3>1. Moves(p, proc[p].step, "init")
      BY <1>1, <1>2, <2>3, WaitFields DEF Moves, Ats, Points
    <3>2. InProgram(p, proc[p].step, "init")
      BY <1>1, <1>3, <2>1, <2>2, <2>3, <3>1 DEF InProgram, WaitsAt, Selected, Entering, Asks
    <3> QED
      BY <1>1, <1>3, <2>1, <2>2, <3>2, Continues DEF Kept, Due, Last, Asks
  <2> QED
    BY <1>8, <2>3 DEF RegisterEvents
<1>9. ASSUME NEW p \in Proc, LinkSwitchCompany(p)
      PROVE  Kept
  <2>1. Running(p) /\ proc[p].at = "goes" /\ proc[p].step = "reset" /\ "dial" \in StepsOf(proc[p].runs)
    BY <1>3, <1>9 DEF LinkSwitchCompany, Running, StepsOf, Dialling, Selected
  <2>2. UNCHANGED <<linkPhase, armed>> /\ (company => company')
    BY <1>9 DEF LinkSwitchCompany, stateVars
  <2>3. ASSUME proc' = [proc EXCEPT ![p] = Goes(p, "dial")]
        PROVE  Kept
    <3>1. Moves(p, "dial", "goes")
      BY <1>1, <1>2, <2>3, GoesFields DEF Moves, Ats, Points
    <3>2. InProgram(p, "dial", "goes")
      BY <1>1, <1>3, <2>1, <2>2, <2>3, <3>1 DEF InProgram, WaitsAt, Selected, Entering, Asks
    <3> QED
      BY <1>1, <1>3, <2>1, <2>2, <3>2, Continues DEF Kept, Due, Last, Asks
  <2>4. ASSUME proc' = [proc EXCEPT ![p] = Wait(p, "fails", None)]
        PROVE  Kept
    <3>1. Moves(p, proc[p].step, "fails")
      BY <1>1, <1>2, <2>4, WaitFields DEF Moves, Ats, Points
    <3>2. InProgram(p, proc[p].step, "fails")
      BY <1>1, <1>3, <2>1, <2>2, <2>4, <3>1 DEF InProgram, WaitsAt, Selected, Entering, Asks
    <3> QED
      BY <1>1, <1>3, <2>1, <2>2, <3>2, Continues DEF Kept, Due, Last, Asks
  <2> QED
    BY <1>9, <2>3, <2>4 DEF LinkSwitchCompany
<1>10. ASSUME NEW p \in Proc, LinkSelectCompany(p)
      PROVE  Kept
  <2>1. Running(p) /\ proc[p].at = "goes" /\ proc[p].step = "select" /\ "enable" \in StepsOf(proc[p].runs)
    BY <1>3, <1>10 DEF LinkSelectCompany, Running, StepsOf, Dialling, Selected
  <2>2. UNCHANGED <<linkPhase, armed>> /\ (company => company')
    BY <1>10 DEF LinkSelectCompany, stateVars
  <2>3. ASSUME proc' = [proc EXCEPT ![p] = Goes(p, "enable")] /\ company'
        PROVE  Kept
    <3>1. Moves(p, "enable", "goes")
      BY <1>1, <1>2, <2>3, GoesFields DEF Moves, Ats, Points
    <3>2. InProgram(p, "enable", "goes")
      BY <1>1, <1>3, <2>1, <2>2, <2>3, <3>1 DEF InProgram, WaitsAt, Selected, Entering, Asks
    <3> QED
      BY <1>1, <1>3, <2>1, <2>2, <3>2, Continues DEF Kept, Due, Last, Asks
  <2>4. ASSUME proc' = [proc EXCEPT ![p] = Wait(p, "fails", None)]
        PROVE  Kept
    <3>1. Moves(p, proc[p].step, "fails")
      BY <1>1, <1>2, <2>4, WaitFields DEF Moves, Ats, Points
    <3>2. InProgram(p, proc[p].step, "fails")
      BY <1>1, <1>3, <2>1, <2>2, <2>4, <3>1 DEF InProgram, WaitsAt, Selected, Entering, Asks
    <3> QED
      BY <1>1, <1>3, <2>1, <2>2, <3>2, Continues DEF Kept, Due, Last, Asks
  <2> QED
    BY <1>10, <2>3, <2>4 DEF LinkSelectCompany
<1>11. ASSUME NEW p \in Proc, BeginCleanup(p)
      PROVE  Kept
  <2>1. Running(p) /\ proc[p].at = "goes" /\ proc[p].step = "leave" /\ proc[p].runs = "unwind"
    BY <1>3, <1>11 DEF BeginCleanup, Running, StepsOf, Dialling, Selected, RunsOf, Staying
  <2>2. linkPhase' \in {linkPhase, "connecting"} /\ UNCHANGED <<company, armed>>
    BY <1>11 DEF BeginCleanup, stateVars
  <2>3. ASSUME proc' = [proc EXCEPT ![p] = Goes(p, "endSession")]
        PROVE  Kept
    <3>1. Moves(p, "endSession", "goes")
      BY <1>1, <1>2, <2>3, GoesFields DEF Moves, Ats, Points
    <3>2. InProgram(p, "endSession", "goes")
      BY <1>1, <1>3, <2>1, <2>2, <2>3, <3>1 DEF InProgram, WaitsAt, Selected, Entering, Asks, StepsOf
    <3> QED
      BY <1>1, <1>3, <2>1, <2>2, <3>2, Continues DEF Kept, Due, Last, Asks
  <2> QED
    BY <1>11, <2>3 DEF BeginCleanup
<1>12. ASSUME NEW p \in Proc, EndSession(p)
      PROVE  Kept
  <2>1. Running(p) /\ proc[p].at = "goes" /\ proc[p].step = "endSession"
    BY <1>3, <1>12 DEF EndSession, Running
  <2>2. UNCHANGED <<linkPhase, company, armed>>
    BY <1>12 DEF EndSession, stateVars
  <2>3. ASSUME proc' = [proc EXCEPT ![p] = Goes(p, AfterSession(p))]
        PROVE  Kept
    <3>1. Moves(p, AfterSession(p), "goes")
      <4>1. AfterSession(p) \in Points /\ "goes" \in Ats
        BY <1>2 DEF Ats
      <4> QED
        BY <1>1, <1>2, <2>3, GoesFields, <4>1 DEF Moves
    <3>2. InProgram(p, AfterSession(p), "goes")
      BY <1>1, <1>3, <2>1, <2>2, <2>3, <3>1, SessionFits DEF InProgram, WaitsAt, Selected, Entering, Asks
    <3> QED
      BY <1>1, <1>3, <2>1, <2>2, <3>2, Continues, SessionFits DEF Kept, Due, Last, Asks, Entering
  <2>4. ASSUME proc' = [proc EXCEPT ![p] = Paused(p, "logoff", "ask", current)]
        PROVE  Kept
    <3>1. Moves(p, "logoff", "ask")
      <4>1. "logoff" \in Points /\ "ask" \in Ats
        BY <1>2 DEF Ats, Points
      <4> QED
        BY <1>1, <1>2, <2>4, PausedFields, <4>1 DEF Moves
    <3>2. InProgram(p, "logoff", "ask")
      BY <1>1, <1>3, <2>1, <2>2, <2>4, <3>1, SessionFits DEF InProgram, WaitsAt, Selected, Entering, Asks
    <3> QED
      BY <1>1, <1>3, <2>1, <2>2, <3>2, Continues, SessionFits DEF Kept, Due, Last, Asks, Entering
  <2>5. ASSUME proc' = [proc EXCEPT ![p] = Paused(p, "logoff", "fails", current)]
        PROVE  Kept
    <3>1. Moves(p, "logoff", "fails")
      <4>1. "logoff" \in Points /\ "fails" \in Ats
        BY <1>2 DEF Ats, Points
      <4> QED
        BY <1>1, <1>2, <2>5, PausedFields, <4>1 DEF Moves
    <3>2. InProgram(p, "logoff", "fails")
      BY <1>1, <1>3, <2>1, <2>2, <2>5, <3>1, SessionFits DEF InProgram, WaitsAt, Selected, Entering, Asks
    <3> QED
      BY <1>1, <1>3, <2>1, <2>2, <3>2, Continues, SessionFits DEF Kept, Due, Last, Asks, Entering
  <2> QED
    BY <1>12, <2>3, <2>4, <2>5 DEF EndSession
<1>13. ASSUME NEW p \in Proc, Wipe(p)
      PROVE  Kept
  <2>1. /\ proc[p].at = "goes" /\ proc[p].step = "wipe" /\ Running(p)
        /\ linkPhase' = "directory" /\ armed' = FALSE
        /\ proc' = [Drained EXCEPT ![p] = Goes(p, IF proc[p].runs = "switch" THEN "dial" ELSE "done")]
    BY <1>13 DEF Wipe, Running
  <2>2. proc[p].runs = "unwind" /\ p = Lane
    BY <1>3, <2>1, Constants DEF Proc, RunsOf, Staying, StepsOf, Dialling, Selected
  <2>3. /\ Goes(p, "done").at = "goes" /\ Goes(p, "done").step = "done"
        /\ Goes(p, "done").runs = "unwind"
    BY <1>1, <2>2, GoesFields DEF Points
  <2>4. proc'[p] = Goes(p, "done") /\ \A q \in Proc \ {p} : proc'[q] = Drained[q]
    BY <1>1, <2>1, <2>2, DrainedFields
  <2>5. LoggingIn /\ ~InWorld /\ \A b \in Body : ~Running(b)
    BY <2>1, <2>2 DEF LoggingIn, WatchInv, OutOfTheWorld
  <2>6. /\ \A q \in Proc : proc[q].at # "back"
        /\ \A q \in Proc : ~(proc[q].at = "goes" /\ Last(proc[q].runs, proc[q].step))
    BY <1>1, <2>1, <2>2 DEF Watched, Due, Last, Entering
  <2>7. \A q \in Proc \ {p} :
          /\ proc'[q].runs = proc[q].runs
          /\ proc'[q].at = "idle" <=> proc[q].at = "idle"
          /\ proc'[q].at # "idle" =>
                proc'[q].step \in StepsOf(proc[q].runs) /\ WaitsAt(proc'[q].at, proc'[q].step)
          /\ proc'[q].at \notin {"ask", "back"}
          /\ proc'[q].at = "goes" => ~Last(proc[q].runs, proc'[q].step)
    BY <2>4, <2>6, DrainedFits
  <2>8. "done" \in StepsOf("unwind") /\ WaitsAt("goes", "done") /\ ~Last("unwind", "done")
    BY DEF StepsOf, WaitsAt, Last, Entering
  <2>9. Programmed'
    BY <1>3, <2>1, <2>2, <2>3, <2>4, <2>7, <2>8 DEF Programmed, Running
  <2>10. OutOfTheWorld'
    BY <2>1, <2>2, <2>3, <2>4, <2>5, <2>7, Constants DEF OutOfTheWorld, InWorld, Running
  <2>11. \A q \in Proc \ {p} : Running(q) => proc[q].runs \notin Entering
    BY <1>3, <2>2, <2>5, Constants DEF Proc, RunsOf, Entering
  <2>12. CompanyKept'
    BY <2>1, <2>2, <2>3, <2>4, <2>5, <2>7, <2>11, Constants DEF CompanyKept, InWorld, Running, Entering
  <2>13. Watched' /\ ConnectedIsWatched'
    BY <2>1, <2>3, <2>4, <2>7, <2>8 DEF Watched, ConnectedIsWatched
  <2> QED
    BY <2>9, <2>10, <2>12, <2>13 DEF Kept
<1>14. ASSUME NEW p \in Proc, Done(p)
      PROVE  Kept
  <2>1. /\ p \notin Body /\ proc[p].at = "goes" /\ proc[p].step = "done" /\ Running(p)
        /\ proc'[p] = LinkIdle /\ (\A q \in Proc \ {p} : proc'[q] = proc[q]) /\ UNCHANGED <<company, armed>>
        /\ linkPhase' = IF proc[p].runs \in Entering THEN "connected" ELSE linkPhase
    BY <1>1, <1>14 DEF Done, Entering, Running
  <2>2. LinkIdle.at = "idle"
    BY DEF LinkIdle
  <2>3. proc[p].runs \in Entering => p = Lane /\ company /\ armed
    BY <1>1, <1>3, <2>1, Constants DEF Proc, RunsOf, Entering, WatchInv, CompanyKept, Selected, Watched, Last
  <2>4. /\ \A q \in Proc : proc[q].at # "back"
        /\ \A q \in Proc \ {p} : ~(proc[q].at = "goes" /\ Last(proc[q].runs, proc[q].step))
    BY <1>1, <2>1 DEF Watched, Due
  <2>5. Programmed'
    BY <1>1, <2>1, <2>2 DEF Programmed, Running
  <2>6. /\ LoggingIn' => LoggingIn /\ p # Lane
        /\ proc'[Lane].at \in {"join", "back"} => proc[Lane].at \in {"join", "back"}
    BY <2>1, <2>2, Constants DEF LoggingIn, Running
  <2>7. OutOfTheWorld'
    BY <2>1, <2>3, <2>6, Constants DEF WatchInv, OutOfTheWorld, InWorld, Running
  <2>8. CompanyKept'
    BY <2>1, <2>2, <2>3, Constants DEF WatchInv, CompanyKept, InWorld, Running
  <2>9. Watched' /\ ConnectedIsWatched'
    BY <1>1, <2>1, <2>2, <2>3, <2>4 DEF Watched, WatchInv, ConnectedIsWatched
  <2> QED
    BY <2>5, <2>7, <2>8, <2>9 DEF Kept
<1>15. ASSUME NEW p \in Proc, RequestFails(p)
      PROVE  Kept
  <2>1. /\ p \notin Body /\ proc[p].at = "fails" /\ proc[p].step # "logoff" /\ Running(p)
        /\ (\A q \in Proc \ {p} : proc'[q] = proc[q]) /\ UNCHANGED <<linkPhase, company, armed>>
        /\ \/ proc'[p] = LinkIdle
           \/ /\ proc[p].runs \in {"login", "switch"} /\ proc'[p].runs = "unwind"
              /\ proc'[p].step = "leave" /\ proc'[p].at = "goes"
    BY <1>1, <1>15 DEF RequestFails, stateVars, Running
  <2>2. LinkIdle.at = "idle"
    BY DEF LinkIdle
  <2>3. proc[p].runs \in {"login", "switch"} => p = Lane /\ LoggingIn
    BY <1>3, <2>1, Constants DEF Proc, RunsOf, Staying, LoggingIn
  <2>4. \A q \in Proc : proc[q].at = "back" => q \in Body \cup {Lane}
    BY <1>3, Constants DEF Proc, RunsOf, StepsOf, WaitsAt, Asks, Running
  <2>5. p = Lane /\ LoggingIn => \A q \in Proc : proc[q].at # "back"
    BY <2>1, <2>4 DEF WatchInv, OutOfTheWorld, Running
  <2>6. \A q \in Proc \ {p} : ~(proc[q].at = "goes" /\ Last(proc[q].runs, proc[q].step))
    BY <1>1, <2>1 DEF Watched, Due
  <2>7. "unwind" \in RunsOf(Lane) /\ "leave" \in StepsOf("unwind") /\ WaitsAt("goes", "leave")
        /\ ~Last("unwind", "leave")
    BY Constants DEF RunsOf, StepsOf, WaitsAt, Last
  <2>8. Programmed'
    BY <1>1, <2>1, <2>2, <2>3, <2>7 DEF Programmed, Running
  <2>9. /\ LoggingIn' => LoggingIn
        /\ proc'[Lane].at \in {"join", "back"} => proc[Lane].at \in {"join", "back"}
    BY <2>1, <2>2, <2>3, Constants DEF LoggingIn, Running
  <2>10. OutOfTheWorld'
    BY <2>1, <2>9, Constants DEF WatchInv, OutOfTheWorld, InWorld, Running
  <2>11. CompanyKept'
    BY <2>1, <2>2, Constants DEF WatchInv, CompanyKept, InWorld, Running, Entering
  <2>12. Watched' /\ ConnectedIsWatched'
    <3>1. CASE proc'[p] = LinkIdle
      BY <1>1, <2>1, <2>2, <2>6, <3>1 DEF Watched, WatchInv, ConnectedIsWatched, Due
    <3>2. CASE /\ proc[p].runs \in {"login", "switch"} /\ proc'[p].runs = "unwind"
               /\ proc'[p].step = "leave" /\ proc'[p].at = "goes"
      BY <1>1, <2>1, <2>3, <2>5, <2>6, <2>7, <3>2 DEF Watched, WatchInv, ConnectedIsWatched
    <3> QED
      BY <2>1, <3>1, <3>2
  <2> QED
    BY <2>8, <2>10, <2>11, <2>12 DEF Kept
<1>16. ASSUME NEW p \in Proc, Succeeds(p)
      PROVE  Kept
  <2>1. /\ p \in Body /\ proc[p].at = "goes" /\ proc[p].step = "done" /\ EndBody(p, "back")
        /\ linkPhase' = "connected" /\ UNCHANGED <<company, armed>> /\ Running(p)
    BY <1>16 DEF Succeeds, Running
  <2>2. proc[p].runs = "attempt"
    BY <1>3, <2>1, Constants DEF RunsOf
  <2>3. armed /\ \A q \in Proc : q # p => ~Due(q)
    BY <1>1, <2>1, <2>2 DEF Watched, Last
  <2>4. company /\ ~LoggingIn
    BY <2>1 DEF WatchInv, CompanyKept, OutOfTheWorld
  <2>5. \A q \in Proc : /\ Wait(q, "back", None).at = "back" /\ Wait(q, "back", None).step = proc[q].step
                        /\ Wait(q, "back", None).runs = proc[q].runs
    BY <1>1, WaitFields DEF Ats
  <2>6. /\ proc'[p].at = "idle"
        /\ \A q \in Proc \ {p} :
             /\ proc'[q].runs = proc[q].runs /\ proc'[q].step = proc[q].step
             /\ proc'[q].at = proc[q].at \/ (proc[q].at = "join" /\ proc'[q].at = "back")
    BY <2>1, <2>5 DEF EndBody, LinkIdle
  <2>7. Programmed'
    BY <1>1, <2>6 DEF Programmed, Running, WaitsAt
  <2>8. ~LoggingIn'
    BY <2>1, <2>4, <2>6, Constants DEF LoggingIn, Running
  <2>9. OutOfTheWorld' /\ CompanyKept'
    BY <2>1, <2>4, <2>8 DEF OutOfTheWorld, CompanyKept
  <2>10. Watched' /\ ConnectedIsWatched'
    BY <1>1, <2>1, <2>3, <2>6 DEF Watched, Due, ConnectedIsWatched
  <2> QED
    BY <2>7, <2>9, <2>10 DEF Kept
<1>17. ASSUME NEW p \in Proc, AttemptFails(p)
      PROVE  Kept
  <2>1. /\ p \in Body /\ proc[p].at = "fails" /\ EndBody(p, "fails")
        /\ UNCHANGED <<linkPhase, company, armed>> /\ Running(p)
    BY <1>17 DEF AttemptFails, stateVars, Running
  <2>2. \A q \in Proc : /\ Wait(q, "fails", None).at = "fails" /\ Wait(q, "fails", None).step = proc[q].step
                        /\ Wait(q, "fails", None).runs = proc[q].runs
    BY <1>1, WaitFields DEF Ats
  <2>3. /\ proc'[p].at = "idle"
        /\ \A q \in Proc \ {p} :
             /\ proc'[q].runs = proc[q].runs /\ proc'[q].step = proc[q].step
             /\ proc'[q].at = proc[q].at \/ (proc[q].at = "join" /\ proc'[q].at = "fails")
    BY <2>1, <2>2 DEF EndBody, LinkIdle
  <2>4. \A q \in Proc : proc[q].at = "join" => proc[q].step # "logoff"
    BY <1>3 DEF WaitsAt, Asks, Running
  <2>5. \A q \in Proc : ~(proc[q].at = "goes" /\ Last(proc[q].runs, proc[q].step))
    BY <1>1, <2>1 DEF Watched, Due
  <2>6. Programmed'
    BY <1>1, <2>3 DEF Programmed, Running, WaitsAt
  <2>7. /\ LoggingIn' => LoggingIn
        /\ proc'[Lane].at \in {"join", "back"} => proc[Lane].at \in {"join", "back"}
        /\ \A q \in Proc : Running(q)' => Running(q) /\ q # p
    BY <2>1, <2>3, Constants DEF LoggingIn, Running
  <2>8. OutOfTheWorld'
    BY <2>1, <2>7, Constants DEF WatchInv, OutOfTheWorld, InWorld, Running
  <2>9. CompanyKept'
    BY <2>1, <2>3, <2>7, Constants DEF WatchInv, CompanyKept, InWorld, Running
  <2>10. Watched' /\ ConnectedIsWatched'
    BY <1>1, <2>1, <2>3, <2>4, <2>5 DEF Watched, WatchInv, Due, ConnectedIsWatched
  <2> QED
    BY <2>6, <2>8, <2>9, <2>10 DEF Kept
<1>18. ASSUME NEW p \in Proc, LoggedOff(p)
      PROVE  Kept
  <2>1. Running(p) /\ proc[p].at = "fails" /\ proc[p].step = "logoff"
    BY <1>3, <1>18 DEF LoggedOff, Running
  <2>2. UNCHANGED <<linkPhase, company, armed>>
    BY <1>18 DEF LoggedOff, stateVars
  <2>3. ASSUME proc' = [proc EXCEPT ![p] = Goes(p, AfterSession(p))]
        PROVE  Kept
    <3>1. Moves(p, AfterSession(p), "goes")
      <4>1. AfterSession(p) \in Points /\ "goes" \in Ats
        BY <1>2 DEF Ats
      <4> QED
        BY <1>1, <1>2, <2>3, GoesFields, <4>1 DEF Moves
    <3>2. InProgram(p, AfterSession(p), "goes")
      BY <1>1, <1>3, <2>1, <2>2, <2>3, <3>1, SessionFits DEF InProgram, WaitsAt, Selected, Entering, Asks
    <3> QED
      BY <1>1, <1>3, <2>1, <2>2, <3>2, Continues, SessionFits DEF Kept, Due, Last, Asks, Entering
  <2> QED
    BY <1>18, <2>3 DEF LoggedOff
<1>19. ASSUME NEW p \in Proc, Answered(p)
      PROVE  Kept
  <2>1. Running(p) /\ Quiet /\ proc[p].at = "ask" /\ proc[p].step \in Asks
    BY <1>3, <1>19 DEF Answered, Running, WaitsAt
  <2>2. UNCHANGED <<linkPhase, company>> /\ (armed \/ proc[p].step = "enable" => armed')
    BY <1>19 DEF Answered, stateVars
  <2>3. ASSUME proc' = [proc EXCEPT ![p] = Goes(p, After(p, proc[p].step))]
        PROVE  Kept
    <3>1. Moves(p, After(p, proc[p].step), "goes")
      <4>1. After(p, proc[p].step) \in Points /\ "goes" \in Ats
        BY <1>2, AfterType DEF Ats
      <4> QED
        BY <1>1, <1>2, <2>3, GoesFields, <4>1 DEF Moves
    <3>2. InProgram(p, After(p, proc[p].step), "goes")
      BY <1>1, <1>3, <2>1, <2>2, <2>3, <3>1, AfterFits DEF InProgram, WaitsAt, Selected, Entering, Asks
    <3> QED
      BY <1>1, <1>3, <2>1, <2>2, <3>2, WakesUp, AfterFits DEF Kept, Due, Last, Asks, Watched
  <2> QED
    BY <1>19, <2>3 DEF Answered
<1>20. ASSUME NEW p \in Proc, Refused(p)
      PROVE  Kept
  <2>1. Running(p) /\ Quiet /\ proc[p].at = "ask" /\ (proc[p].step = "idof" => "idofAgain" \in StepsOf(proc[p].runs))
    BY <1>3, <1>20 DEF Refused, Running, StepsOf, Dialling, Selected
  <2>2. UNCHANGED <<linkPhase, company, armed>>
    BY <1>20 DEF Refused, stateVars
  <2>3. ASSUME proc' = [proc EXCEPT ![p] = Paused(p, "idofAgain", "retry", None)] /\ proc[p].step = "idof"
        PROVE  Kept
    <3>1. Moves(p, "idofAgain", "retry")
      <4>1. "idofAgain" \in Points /\ "retry" \in Ats
        BY <1>2 DEF Ats, Points
      <4> QED
        BY <1>1, <1>2, <2>3, PausedFields, <4>1 DEF Moves
    <3>2. InProgram(p, "idofAgain", "retry")
      BY <1>1, <1>3, <2>1, <2>2, <2>3, <3>1 DEF InProgram, WaitsAt, Selected, Entering, Asks
    <3> QED
      BY <1>1, <1>3, <2>1, <2>2, <3>2, WakesUp DEF Kept, Due, Last, Asks
  <2>4. ASSUME proc' = [proc EXCEPT ![p] = Wait(p, "fails", None)]
        PROVE  Kept
    <3>1. Moves(p, proc[p].step, "fails")
      BY <1>1, <1>2, <2>4, WaitFields DEF Moves, Ats, Points
    <3>2. InProgram(p, proc[p].step, "fails")
      BY <1>1, <1>3, <2>1, <2>2, <2>4, <3>1 DEF InProgram, WaitsAt, Selected, Entering, Asks
    <3> QED
      BY <1>1, <1>3, <2>1, <2>2, <3>2, WakesUp DEF Kept, Due, Last, Asks
  <2> QED
    BY <1>20, <2>3, <2>4 DEF Refused
<1>21. ASSUME NEW p \in Proc, Expires(p)
      PROVE  Kept
  <2>1. Running(p) /\ Quiet /\ proc[p].at = "ask"
    BY <1>3, <1>21 DEF Expires, Running
  <2>2. UNCHANGED <<linkPhase, company, armed>>
    BY <1>21 DEF Expires, stateVars
  <2>3. ASSUME proc' = [proc EXCEPT ![p] = Wait(p, "fails", proc[p].on)]
        PROVE  Kept
    <3>1. Moves(p, proc[p].step, "fails")
      BY <1>1, <1>2, <2>3, WaitFields DEF Moves, Ats, Points
    <3>2. InProgram(p, proc[p].step, "fails")
      BY <1>1, <1>3, <2>1, <2>2, <2>3, <3>1 DEF InProgram, WaitsAt, Selected, Entering, Asks
    <3> QED
      BY <1>1, <1>3, <2>1, <2>2, <3>2, WakesUp DEF Kept, Due, Last, Asks
  <2> QED
    BY <1>21, <2>3 DEF Expires
<1>22. ASSUME NEW p \in Proc, RetryDelay(p)
      PROVE  Kept
  <2>1. Running(p) /\ Quiet /\ proc[p].at = "retry" /\ proc[p].step = "idofAgain"
    BY <1>3, <1>22 DEF RetryDelay, Running, WaitsAt
  <2>2. UNCHANGED <<linkPhase, company, armed>>
    BY <1>22 DEF RetryDelay, stateVars
  <2>3. ASSUME proc' = [proc EXCEPT ![p] = Wait(p, "goes", None)]
        PROVE  Kept
    <3>1. Moves(p, proc[p].step, "goes")
      BY <1>1, <1>2, <2>3, WaitFields DEF Moves, Ats, Points
    <3>2. InProgram(p, proc[p].step, "goes")
      BY <1>1, <1>3, <2>1, <2>2, <2>3, <3>1 DEF InProgram, WaitsAt, Selected, Entering, Asks
    <3> QED
      BY <1>1, <1>3, <2>1, <2>2, <3>2, WakesUp DEF Kept, Due, Last, Asks
  <2> QED
    BY <1>22, <2>3 DEF RetryDelay
<1>23. ASSUME NEW p \in Proc, DialFails(p)
      PROVE  Kept
  <2>1. Running(p) /\ Quiet /\ proc[p].at = "dial"
    BY <1>3, <1>23 DEF DialFails, Running
  <2>2. UNCHANGED <<linkPhase, company, armed>>
    BY <1>23 DEF DialFails, stateVars
  <2>3. ASSUME proc' = [proc EXCEPT ![p] = Wait(p, "fails", None)]
        PROVE  Kept
    <3>1. Moves(p, proc[p].step, "fails")
      BY <1>1, <1>2, <2>3, WaitFields DEF Moves, Ats, Points
    <3>2. InProgram(p, proc[p].step, "fails")
      BY <1>1, <1>3, <2>1, <2>2, <2>3, <3>1 DEF InProgram, WaitsAt, Selected, Entering, Asks
    <3> QED
      BY <1>1, <1>3, <2>1, <2>2, <3>2, WakesUp DEF Kept, Due, Last, Asks
  <2> QED
    BY <1>23, <2>3 DEF DialFails
<1>24. ASSUME NEW p \in Proc, InitTimeout(p)
      PROVE  Kept
  <2>1. Running(p) /\ Quiet /\ proc[p].at = "init"
    BY <1>3, <1>24 DEF InitTimeout, Running
  <2>2. UNCHANGED <<linkPhase, company, armed>>
    BY <1>24 DEF InitTimeout, stateVars
  <2>3. ASSUME proc' = [proc EXCEPT ![p] = Wait(p, "fails", None)]
        PROVE  Kept
    <3>1. Moves(p, proc[p].step, "fails")
      BY <1>1, <1>2, <2>3, WaitFields DEF Moves, Ats, Points
    <3>2. InProgram(p, proc[p].step, "fails")
      BY <1>1, <1>3, <2>1, <2>2, <2>3, <3>1 DEF InProgram, WaitsAt, Selected, Entering, Asks
    <3> QED
      BY <1>1, <1>3, <2>1, <2>2, <3>2, WakesUp DEF Kept, Due, Last, Asks
  <2> QED
    BY <1>24, <2>3 DEF InitTimeout
<1>25. ASSUME NEW p \in Proc, RegisterEnds(p)
      PROVE  Kept
  <2>1. Running(p) /\ Quiet /\ proc[p].at = "cap" /\ proc[p].step = "register"
    BY <1>3, <1>25 DEF RegisterEnds, Running, WaitsAt
  <2>2. UNCHANGED <<linkPhase, company, armed>>
    BY <1>25 DEF RegisterEnds, stateVars
  <2>3. ASSUME proc' = [proc EXCEPT ![p] = Goes(p, After(p, "register"))]
        PROVE  Kept
    <3>1. Moves(p, After(p, "register"), "goes")
      <4>1. After(p, "register") \in Points /\ "goes" \in Ats
        BY <1>2, AfterType DEF Ats
      <4> QED
        BY <1>1, <1>2, <2>3, GoesFields, <4>1 DEF Moves
    <3>2. InProgram(p, After(p, "register"), "goes")
      BY <1>1, <1>3, <2>1, <2>2, <2>3, <3>1, RegisterFits DEF InProgram, WaitsAt, Selected, Entering, Asks
    <3> QED
      BY <1>1, <1>3, <2>1, <2>2, <3>2, WakesUp, RegisterFits DEF Kept, Due, Last, Asks, Entering
  <2> QED
    BY <1>25, <2>3 DEF RegisterEnds
<1>26. ASSUME NEW p \in Proc, \E b \in Body : Reconnect(p, b)
      PROVE  Kept
  <2>1. PICK b \in Body : Reconnect(p, b)
    BY <1>26
  <2>2. /\ proc[p].at = "goes" /\ proc[p].step \in Asks /\ InWorld /\ Fresh(b) /\ ~Running(b)
        /\ proc' = [[Drained EXCEPT ![p] = Wait(p, "join", b)] EXCEPT ![b] = Attempt(b)]
        /\ linkPhase' = "reconnecting" /\ UNCHANGED company /\ p # b
    BY <2>1 DEF Reconnect, Asking, CanAttempt, Fresh, StartAttempt, Running
  <2>3. /\ Wait(p, "join", b).at = "join" /\ Wait(p, "join", b).step = proc[p].step
        /\ Wait(p, "join", b).runs = proc[p].runs
    BY <1>1, WaitFields DEF Ats, Waited
  <2>4. /\ proc'[b] = Attempt(b) /\ proc'[p] = Wait(p, "join", b)
        /\ \A q \in Proc : q \notin {b, p} => proc'[q] = Drained[q]
    BY <1>1, <2>2, DrainedFields, Constants
  <2>5. /\ \A q \in Proc : proc[q].at # "back"
        /\ \A q \in Proc : q # p => ~(proc[q].at = "goes" /\ Last(proc[q].runs, proc[q].step))
    BY <1>1, <2>2 DEF Watched, Due
  <2>6. proc'[p] # proc[p]
    BY <2>2, <2>3, <2>4
  <2> QED
    BY <2>2, <2>3, <2>4, <2>5, <2>6, AttemptStarts DEF Running, WaitsAt
<1>27. ASSUME NEW p \in Proc, NEW s \in Sock, Dialled(p, s)
      PROVE  Kept
  <2>1. Running(p) /\ Quiet /\ proc[p].at = "dial" /\ proc[p].step = "dial" /\ "idof" \in StepsOf(proc[p].runs)
    BY <1>3, <1>27 DEF Dialled, Running, StepsOf, Dialling, Selected, WaitsAt
  <2>2. UNCHANGED <<linkPhase, company, armed>>
    BY <1>27 DEF Dialled, stateVars
  <2>3. ASSUME proc' = [proc EXCEPT ![p] = Goes(p, "idof")]
        PROVE  Kept
    <3>1. Moves(p, "idof", "goes")
      BY <1>1, <1>2, <2>3, GoesFields DEF Moves, Ats, Points
    <3>2. InProgram(p, "idof", "goes")
      BY <1>1, <1>3, <2>1, <2>2, <2>3, <3>1 DEF InProgram, WaitsAt, Selected, Entering, Asks
    <3> QED
      BY <1>1, <1>3, <2>1, <2>2, <3>2, WakesUp DEF Kept, Due, Last, Asks
  <2> QED
    BY <1>27, <2>3 DEF Dialled
<1>28. ASSUME Destroy
      PROVE  Kept
  <2>1. /\ proc[Closer].at = "goes" /\ proc[Closer].step = "destroy" /\ Running(Closer)
        /\ linkPhase' = "disconnected" /\ UNCHANGED company
        /\ proc' = [Drained EXCEPT ![Closer] = Goes(Closer, "done")]
    BY <1>28 DEF Destroy, Running
  <2>2. proc[Closer].runs = "close"
    BY <1>3, <2>1, Constants DEF RunsOf
  <2>3. /\ Goes(Closer, "done").at = "goes" /\ Goes(Closer, "done").step = "done"
        /\ Goes(Closer, "done").runs = "close"
    BY <1>1, <2>2, GoesFields, Constants DEF Points
  <2>4. proc'[Closer] = Goes(Closer, "done") /\ \A q \in Proc \ {Closer} : proc'[q] = Drained[q]
    BY <1>1, <2>1, DrainedFields, Constants
  <2>5. /\ \A q \in Proc : proc[q].at # "back"
        /\ \A q \in Proc : ~(proc[q].at = "goes" /\ Last(proc[q].runs, proc[q].step))
    BY <1>1, <2>1, <2>2, Constants DEF Watched, Due, Last, Entering
  <2>6. \A q \in Proc \ {Closer} :
          /\ proc'[q].runs = proc[q].runs
          /\ proc'[q].at = "idle" <=> proc[q].at = "idle"
          /\ proc'[q].at # "idle" =>
                proc'[q].step \in StepsOf(proc[q].runs) /\ WaitsAt(proc'[q].at, proc'[q].step)
          /\ proc'[q].at \notin {"ask", "back"} /\ (proc'[q].at = "join" => proc[q].at = "join")
          /\ proc'[q].at = "goes" => ~Last(proc[q].runs, proc'[q].step)
          /\ proc'[q].step \in Selected => proc[q].step \in Selected
    BY <2>4, <2>5, DrainedFits
  <2>7. "done" \in StepsOf("close") /\ WaitsAt("goes", "done") /\ ~Last("close", "done")
    BY DEF StepsOf, WaitsAt, Last, Entering
  <2>8. Programmed'
    BY <1>3, <2>1, <2>2, <2>3, <2>4, <2>6, <2>7 DEF Programmed, Running
  <2>9. LoggingIn' => LoggingIn
    BY <2>6, Constants DEF LoggingIn, Running
  <2>10. OutOfTheWorld'
    BY <2>1, <2>6, <2>9, Constants DEF WatchInv, OutOfTheWorld, InWorld, Running
  <2>11. CompanyKept'
    BY <2>1, <2>2, <2>3, <2>4, <2>6, Constants DEF WatchInv, CompanyKept, InWorld, Running, Entering
  <2>12. Watched' /\ ConnectedIsWatched'
    BY <2>1, <2>3, <2>4, <2>6, <2>7 DEF Watched, ConnectedIsWatched
  <2> QED
    BY <2>8, <2>10, <2>11, <2>12 DEF Kept
<1>29. ASSUME InitClient
      PROVE  Kept
  <2> DEFINE p == resolver
  <2>1. /\ Quiet /\ p \in Proc /\ UNCHANGED <<linkPhase, company, armed>>
        /\ \/ /\ proc[p].at = "init"
              /\ proc' = [proc EXCEPT ![p] = Wait(p, "cap", proc[p].on)]
           \/ proc' = [proc EXCEPT ![p] = proc[p]]
    BY <1>1, <1>29 DEF InitClient, LinkTypeOK, MemoTypeOK, stateVars
  <2> HIDE DEF p
  <2>2. CASE proc' = [proc EXCEPT ![p] = proc[p]]
    <3>1. UNCHANGED proc
      BY <1>1, <2>1, <2>2
    <3> QED
      BY <2>1, <3>1, Stays
  <2>3. CASE /\ proc[p].at = "init"
             /\ proc' = [proc EXCEPT ![p] = Wait(p, "cap", proc[p].on)]
    <3>1. Moves(p, proc[p].step, "cap")
      BY <1>1, <1>2, <2>1, <2>3, WaitFields DEF Moves, Ats
    <3>2. InProgram(p, proc[p].step, "cap")
      BY <1>1, <1>3, <2>1, <2>3, <3>1 DEF InProgram, WaitsAt, Running
    <3> QED
      BY <2>1, <3>2, WakesUp DEF Kept
  <2> QED
    BY <2>1, <2>2, <2>3
<1>30. ASSUME BackoffEnds
      PROVE  Kept
  BY <1>30, Stays DEF BackoffEnds, stateVars
<1>31. ASSUME LinkClose
      PROVE  Kept
  <2>1. /\ Quiet /\ ~Running(Closer) /\ UNCHANGED <<linkPhase, company, armed>>
        /\ \A q \in Proc \ {Closer} : proc'[q] = proc[q]
        /\ proc'[Closer].at = "goes" /\ proc'[Closer].runs = "close" /\ proc'[Closer].step = "endSession"
    BY <1>1, <1>31, Constants DEF LinkClose, Begin, stateVars
  <2> QED
    BY <2>1, Begins, Constants DEF RunsOf, StepsOf, Selected
<1>32. ASSUME NEW s \in Sock, SocketLost(s)
      PROVE  Kept
  BY <1>32, Stays DEF SocketLost, stateVars
<1>33. ASSUME NEW s \in Sock, CloseEvent(s)
      PROVE  Kept
  <2>1. CASE UNCHANGED <<stateVars, memoVars, resolver, proc>>
    BY <2>1, Stays DEF stateVars
  <2>2. ASSUME NEW b \in Body, Reconnects(s), StartAttempt(b, Drained), Quiet, UNCHANGED company
        PROVE  Kept
    <3>1. /\ proc'[b] = Attempt(b) /\ \A q \in Proc \ {b} : proc'[q] = Drained[q]
          /\ linkPhase' = "reconnecting" /\ InWorld
      BY <1>1, <2>2, DrainedFields, Constants DEF StartAttempt, Reconnects, InWorld
    <3>2. \A q \in Proc : proc[q].at \notin {"back", "goes"}
      BY <2>2 DEF Quiet, Due
    <3> QED
      BY <2>2, <3>1, <3>2, AttemptStarts
  <2> QED
    BY <1>33, <2>1, <2>2 DEF CloseEvent
<1>34. ASSUME NEW r \in Requests, Serve(r)
      PROVE  Kept
  <2>1. /\ Quiet /\ ~Running(Lane) /\ LinkAllowed(r) /\ r \in Staying
        /\ UNCHANGED <<linkPhase, company, armed>>
        /\ \A q \in Proc \ {Lane} : proc'[q] = proc[q]
        /\ proc'[Lane].at = "goes" /\ proc'[Lane].runs = r /\ proc'[Lane].step = FirstStep(r)
    BY <1>1, <1>34, Constants DEF Serve, Begin, stateVars, Staying
  <2>2. FirstStep(r) \in StepsOf(r) /\ FirstStep(r) \notin Selected
    BY <2>1 DEF Staying, FirstStep, StepsOf, Dialling, Selected
  <2>3. r \in RunsOf(Lane) /\ (r \in {"login", "unwind"} => linkPhase = "directory")
    BY <2>1, Constants DEF RunsOf, Staying, LinkAllowed
  <2> QED
    BY <2>1, <2>2, <2>3, Begins
<1>36. ASSUME NEW p \in Proc, \E b \in Body : RegisterReconnects(p, b)
      PROVE  Kept
  <2>1. PICK b \in Body : RegisterReconnects(p, b)
    BY <1>36
  <2>2. /\ proc[p].at = "goes" /\ proc[p].step = "register" /\ InWorld /\ Fresh(b) /\ ~Running(b)
        /\ proc' = [[Drained EXCEPT ![p] = Wait(p, "init", None)] EXCEPT ![b] = Attempt(b)]
        /\ linkPhase' = "reconnecting" /\ UNCHANGED company /\ p # b
    BY <2>1 DEF RegisterReconnects, CanAttempt, Fresh, StartAttempt, Running
  <2>3. /\ Wait(p, "init", None).at = "init" /\ Wait(p, "init", None).step = proc[p].step
        /\ Wait(p, "init", None).runs = proc[p].runs
    BY <1>1, WaitFields DEF Ats, Waited
  <2>4. /\ proc'[b] = Attempt(b) /\ proc'[p] = Wait(p, "init", None)
        /\ \A q \in Proc : q \notin {b, p} => proc'[q] = Drained[q]
    BY <1>1, <2>2, DrainedFields, Constants
  <2>5. /\ \A q \in Proc : proc[q].at # "back"
        /\ \A q \in Proc : q # p => ~(proc[q].at = "goes" /\ Last(proc[q].runs, proc[q].step))
    BY <1>1, <2>2 DEF Watched, Due
  <2>6. proc'[p] # proc[p]
    BY <2>2, <2>3, <2>4
  <2> QED
    BY <2>2, <2>3, <2>4, <2>5, <2>6, AttemptStarts DEF Running, WaitsAt
<1>35. CASE UNCHANGED linkVars
  BY <1>35, Stays DEF linkVars, stateVars
<1> QED
  BY Zenon, LinkSteps, <1>4, <1>5, <1>6, <1>7, <1>8, <1>9, <1>10, <1>11, <1>12, <1>13, <1>14, <1>15, <1>16, <1>17, <1>18, <1>19, <1>20, <1>21, <1>22, <1>23, <1>24, <1>25, <1>26, <1>27, <1>28, <1>29, <1>30, <1>31, <1>32, <1>33, <1>34, <1>35, <1>36

\* While the session says it is in the world the push watchdog is armed: every way in passes
\* EnableEvents, every reconnect that disarmed it armed it again (selectCompany,
\* attemptWorldReconnect, armPushWatchdog).  For requests that stay in the world: the run
\* link_revive shows what a cleanup under way does to an attempt.
THEOREM WatchedWhileConnected ==
    ASSUME Requests \subseteq Staying
    PROVE  LinkSpec => []ConnectedIsWatched
<1>1. LinkInit => WatchInv
  <2> SUFFICES ASSUME LinkInit
               PROVE  WatchInv
    OBVIOUS
  <2>1. \A p \in Proc : proc[p].at = "idle"
    BY DEF LinkInit, LinkIdle
  <2>2. ShareInv
    BY ShareInit
  <2>3. Programmed /\ OutOfTheWorld /\ CompanyKept
    BY <2>1, Constants DEF LinkInit, Programmed, OutOfTheWorld, LoggingIn, InWorld, CompanyKept, Running
  <2>4. Watched /\ ConnectedIsWatched
    BY <2>1 DEF LinkInit, Watched, Due, ConnectedIsWatched
  <2> QED
    BY <2>2, <2>3, <2>4 DEF WatchInv
<1>2. WatchInv /\ [LinkNext]_linkVars => WatchInv'
  BY WatchStep, ShareNext DEF WatchInv, Kept
<1>3. WatchInv => ConnectedIsWatched
  BY DEF WatchInv
<1> QED
  BY <1>1, <1>2, <1>3, PTL DEF LinkSpec

=============================================================================
