--------------------------- MODULE ClientReconnect ---------------------------
(***************************************************************************)
(* A tab in the game whose socket drops: the back-off, the attempt that    *)
(* opens a new socket, the resume token it hands back, and the login       *)
(* replay after a refusal (client.ts attemptReconnect), against what the   *)
(* gateway answers (server.ts resumeSession and its phase table).          *)
(*                                                                         *)
(* An attempt's handlers are closures over their own socket, while a       *)
(* request goes out on whatever socket this.ws is at that moment; two      *)
(* attempts can be under way because coming back to the tab starts one at  *)
(* once.  A token is a value compared for equality: the gateway honours    *)
(* only the last one it issued.  A close with 1013 is not modelled: the    *)
(* cap answers a REQ_LOGIN_WORLD, and on an attempt's fresh socket the     *)
(* phase table refuses that request first.  The login replay stands for    *)
(* the login and the selection of the company: both swallow their errors   *)
(* (auth-handler.ts login, selectCompanyAndStart), so the catch of the     *)
(* replay never runs.                                                      *)
(***************************************************************************)
EXTENDS Naturals, Sequences, FiniteSets

CONSTANTS
    Sock,           \* browser sockets; one that closed stands for a later one
    Token,          \* resume tokens, reused once nothing refers to them
    None,
    MaxAttempts,    \* MAX_RECONNECT_ATTEMPTS
    MaxForeground,  \* bound: how often the player comes back to the tab
    MaxRestarts     \* bound: restarts of the gateway

VARIABLES
    status,         \* the store's: "connected", "reconnecting", "disconnected"
    page,           \* "in", "leaving" (isLoggingOut) or "left" (reloaded)
    ws,             \* this.ws
    isConnected,
    timer,          \* reconnectTimer is armed
    attempt,        \* reconnectAttempt
    held,           \* the resume token in sessionStorage
    canReplay,      \* the password is in memory, with the world and the company it entered
    pending,        \* pendingRequests: by whose closure, for what ("resume" or "login")
    sock,           \* "closed", "connecting", "open"
    up, down,       \* frames in flight, per socket
    srv,            \* the gateway's end: "fresh", "used" (a message was seen), "gone"
    holder,         \* the socket the gateway has the session on
    valid,          \* the token the gateway honours; None: it has no session
    foregrounds, restarts

pageVars == <<status, page, ws, isConnected, timer, attempt, held, canReplay, pending>>
gatewayVars == <<holder, valid, srv>>
vars == <<pageVars, sock, up, down, gatewayVars, foregrounds, restarts>>

\* In the world, with the token the gateway pushed; a tab that re-entered after a reload has no password.
Init ==
    \E s \in Sock, t \in Token :
        /\ status = "connected" /\ page = "in" /\ ws = s /\ isConnected = TRUE
        /\ timer = FALSE /\ attempt = 0 /\ held = t /\ canReplay \in BOOLEAN
        /\ pending = {}
        /\ sock = [x \in Sock |-> IF x = s THEN "open" ELSE "closed"]
        /\ up = [x \in Sock |-> <<>>] /\ down = [x \in Sock |-> <<>>]
        /\ srv = [x \in Sock |-> IF x = s THEN "used" ELSE "gone"]
        /\ holder = s /\ valid = t
        /\ foregrounds = 0 /\ restarts = 0

-----------------------------------------------------------------------------
(* The page *)

hasReconnectCredentials == page = "in" /\ (canReplay \/ held # None)

(* sendRequest from s's closure: the entry is registered, the frame leaves on this.ws.  A socket that is *)
(* still connecting throws, which rejects the caller at once; a closed one swallows the frame.           *)
Sends(s, frame, waiting, states) ==
    /\ pending' = IF states[ws] = "connecting" THEN waiting ELSE waiting \cup {[by |-> s, kind |-> frame.kind]}
    /\ up' = IF states[ws] = "open" THEN [up EXCEPT ![ws] = Append(@, frame)] ELSE up

Resume(s) == [kind |-> "resume", by |-> s, token |-> held]
Login(s) == [kind |-> "login", by |-> s]

\* giveUpExpired
GivesUp == attempt' = 0 /\ status' = "disconnected"

\* mutant: the socket being gone is not looked at
DecidesGone(s, connected) == ws = s

(* The catch of a resume request looks at this.ws and isConnected again: under a socket that died, or one *)
(* another attempt superseded, the answer decides nothing.                                              *)
Decides(s, connected) == ws = s /\ connected

\* mutant: a refusal is met by the replay alone
RefusedReplays(s, waiting) ==
    IF Decides(s, isConnected)
      THEN held' = None /\ Sends(s, Login(s), waiting, sock) /\ UNCHANGED <<status, attempt>>
      ELSE pending' = waiting /\ UNCHANGED <<held, status, attempt, up>>

\* The catch: the token is dropped, and the login replayed or the session given up.
Refused(s, waiting) ==
    IF Decides(s, isConnected)
      THEN /\ held' = None
           /\ \/ canReplay /\ Sends(s, Login(s), waiting, sock) /\ UNCHANGED <<status, attempt>>
              \/ ~canReplay /\ GivesUp /\ pending' = waiting /\ UNCHANGED up
      ELSE pending' = waiting /\ UNCHANGED <<held, status, attempt, up>>

\* socket.onopen of an attempt: the token goes first, the replay when there is none.
Opens(s) ==
    /\ page # "left" /\ sock[s] = "connecting"
    /\ sock' = [sock EXCEPT ![s] = "open"]
    /\ srv' = [srv EXCEPT ![s] = "fresh"]
    /\ isConnected' = TRUE
    /\ \/ held # None /\ attempt' = 0 /\ Sends(s, Resume(s), pending, sock') /\ UNCHANGED status
       \/ held = None /\ canReplay /\ attempt' = 0 /\ Sends(s, Login(s), pending, sock') /\ UNCHANGED status
       \/ held = None /\ ~canReplay /\ GivesUp /\ UNCHANGED <<pending, up>>
    /\ UNCHANGED <<page, ws, timer, held, canReplay, down, holder, valid, foregrounds, restarts>>

\* mutant: the attempts are not counted
SchedulesUncounted ==
    IF attempt >= MaxAttempts
      THEN GivesUp /\ timer' = FALSE
      ELSE status' = "reconnecting" /\ timer' = TRUE /\ UNCHANGED attempt

\* scheduleReconnect, after setReconnecting
Schedules ==
    IF attempt >= MaxAttempts
      THEN GivesUp /\ timer' = FALSE
      ELSE status' = "reconnecting" /\ timer' = TRUE /\ attempt' = attempt + 1

(* socket.onclose, of any socket the page ever opened: every pending request is rejected, and what their *)
(* catches decide they decide after isConnected is false.                                               *)
Closes(s) ==
    /\ page # "left" /\ sock[s] # "closed"
    /\ sock' = [sock EXCEPT ![s] = "closed"]
    /\ up' = [up EXCEPT ![s] = <<>>] /\ down' = [down EXCEPT ![s] = <<>>]
    /\ srv' = [srv EXCEPT ![s] = "gone"]
    /\ isConnected' = FALSE
    /\ pending' = {}
    /\ held' = IF \E p \in pending : p.kind = "resume" /\ Decides(p.by, FALSE) THEN None ELSE held
    /\ \/ page = "leaving" /\ page' = "left" /\ status' = "disconnected" /\ timer' = FALSE /\ UNCHANGED attempt
       \/ hasReconnectCredentials /\ Schedules /\ UNCHANGED page
       \/ page = "in" /\ ~hasReconnectCredentials /\ status' = "disconnected" /\ timer' = FALSE /\ UNCHANGED <<page, attempt>>
    /\ UNCHANGED <<ws, canReplay, holder, valid, foregrounds, restarts>>

\* attemptReconnect
Attempts ==
    \/ /\ ~canReplay /\ held = None
       /\ GivesUp
       /\ UNCHANGED <<ws, sock, up, down, srv, holder>>
    \/ /\ canReplay \/ held # None
       /\ \E s \in Sock :
            /\ sock[s] = "closed"
            /\ sock' = [sock EXCEPT ![s] = "connecting"]
            /\ ws' = s
            /\ holder' = IF holder = s THEN None ELSE holder
            /\ UNCHANGED <<up, down, srv>>
       /\ UNCHANGED <<status, attempt>>

Fires ==
    /\ page # "left" /\ timer
    /\ timer' = FALSE
    /\ \/ status = "reconnecting" /\ Attempts
       \/ status # "reconnecting" /\ UNCHANGED <<status, attempt, ws, sock, up, down, srv, holder>>
    /\ UNCHANGED <<page, isConnected, held, canReplay, pending, valid, foregrounds, restarts>>

\* visibilitychange, pageshow, resume, or the overlay's button: triggerImmediateReconnect
Foregrounds ==
    /\ hasReconnectCredentials /\ status = "reconnecting"
    /\ foregrounds < MaxForeground
    /\ foregrounds' = foregrounds + 1
    /\ timer' = FALSE
    /\ Attempts
    /\ UNCHANGED <<page, isConnected, held, canReplay, pending, valid, restarts>>

\* REQUEST_TIMEOUT: a replay that is not answered ends like one that is refused.
TimesOut(p) ==
    /\ page # "left" /\ p \in pending
    /\ \/ p.kind = "resume" /\ Refused(p.by, pending \ {p})
       \/ p.kind = "login" /\ pending' = pending \ {p} /\ UNCHANGED <<held, status, attempt, up>>
    /\ UNCHANGED <<page, ws, isConnected, timer, canReplay, sock, down, gatewayVars, foregrounds, restarts>>

\* EVENT_SESSION_RESUME_TOKEN: a logout already deleted the token and the username.
Keeps == page = "in"

\* An answer nothing waits for any more is dropped.
Receives(s) ==
    LET msg == Head(down[s])
        asked == [by |-> msg.by, kind |-> IF msg.kind \in {"resumed", "refused"} THEN "resume" ELSE "login"]
    IN  /\ page # "left" /\ sock[s] = "open" /\ down[s] # <<>>
        /\ down' = [down EXCEPT ![s] = Tail(@)]
        /\ \/ /\ msg.kind = "token"
              /\ held' = IF Keeps THEN msg.token ELSE held
              /\ UNCHANGED <<status, attempt, pending, up>>
           \/ /\ msg.kind # "token" /\ asked \notin pending
              /\ UNCHANGED <<held, status, attempt, pending, up>>
           \/ /\ msg.kind \in {"resumed", "entered"} /\ asked \in pending
              /\ status' = "connected" /\ pending' = pending \ {asked}
              /\ UNCHANGED <<held, attempt, up>>
           \/ msg.kind = "refused" /\ asked \in pending /\ Refused(msg.by, pending \ {asked})
           \/ /\ msg.kind = "denied" /\ asked \in pending
              /\ pending' = pending \ {asked}
              /\ UNCHANGED <<held, status, attempt, up>>
        /\ UNCHANGED <<page, ws, isConnected, timer, canReplay, sock, gatewayVars, foregrounds, restarts>>

\* logout, from the game: the credentials and the token go before the request does.
Logout ==
    /\ page = "in" /\ status = "connected"
    /\ page' = IF isConnected THEN "leaving" ELSE "left"
    /\ held' = None /\ canReplay' = FALSE
    /\ UNCHANGED <<status, ws, isConnected, timer, attempt, pending, sock, up, down, gatewayVars, foregrounds, restarts>>

-----------------------------------------------------------------------------
(* The gateway *)

Frames(q) == {q[i] : i \in DOMAIN q}
\* A 32-byte random value: never one that is still held or in flight.
Unused == Token \ ({held, valid} \cup UNION {
              {f.token : f \in {x \in Frames(up[s]) \cup Frames(down[s]) : x.kind \in {"resume", "token"}}} : s \in Sock})

TokenEvent(t) == [kind |-> "token", by |-> None, token |-> t]

Claims(s, t) == srv[s] = "fresh" /\ valid = t

(* resumeSession: the session is bound to this socket and the socket it was on is terminated.  Anything *)
(* else, the per-address rate limit included, is refused and leaves the session alone.                  *)
HandlesResume(s, msg) ==
    \/ /\ Claims(s, msg.token)
       /\ \E t \in Unused :
            /\ valid' = t
            /\ down' = [down EXCEPT ![s] = @ \o << [kind |-> "resumed", by |-> msg.by], TokenEvent(t) >>]
       /\ holder' = s
       /\ srv' = [x \in Sock |-> IF x = s THEN "used" ELSE IF x = holder THEN "gone" ELSE srv[x]]
    \/ /\ down' = [down EXCEPT ![s] = Append(@, [kind |-> "refused", by |-> msg.by])]
       /\ srv' = [srv EXCEPT ![s] = "used"]
       /\ UNCHANGED <<holder, valid>>

(* A login on a socket with no session is refused by the phase table (REQ_LOGIN_WORLD is not in DISCONNECTED's  *)
(* set); on the session's own socket the phase allows everything and the login, with the selection, may succeed. *)
HandlesLogin(s, msg) ==
    \/ /\ holder = s
       /\ \E t \in Unused :
            /\ valid' = t
            /\ down' = [down EXCEPT ![s] = @ \o << [kind |-> "entered", by |-> msg.by], TokenEvent(t) >>]
       /\ UNCHANGED <<holder, srv>>
    \/ /\ down' = [down EXCEPT ![s] = Append(@, [kind |-> "denied", by |-> msg.by])]
       /\ srv' = [srv EXCEPT ![s] = "used"]
       /\ UNCHANGED <<holder, valid>>

Handles(s) ==
    LET msg == Head(up[s])
    IN  /\ page # "left" /\ up[s] # <<>> /\ srv[s] # "gone"
        /\ up' = [up EXCEPT ![s] = Tail(@)]
        /\ \/ msg.kind = "resume" /\ HandlesResume(s, msg)
           \/ msg.kind = "login" /\ HandlesLogin(s, msg)
        /\ UNCHANGED <<pageVars, sock, foregrounds, restarts>>

\* The company changes: the token is rotated and pushed (bound: one push in flight).
Rotates(s) ==
    /\ page # "left" /\ holder = s /\ sock[s] = "open" /\ srv[s] # "gone" /\ down[s] = <<>>
    /\ \E t \in Unused : valid' = t /\ down' = [down EXCEPT ![s] = <<TokenEvent(t)>>]
    /\ UNCHANGED <<pageVars, sock, up, holder, srv, foregrounds, restarts>>

\* The park time of a session whose socket is gone runs out.
ParkExpires ==
    /\ page # "left" /\ valid # None
    /\ holder = None \/ (holder # None /\ sock[holder] # "open")
    /\ valid' = None /\ holder' = None
    /\ UNCHANGED <<pageVars, sock, up, down, srv, foregrounds, restarts>>

\* A deploy: the drain ends every session, and each socket sees its close when it comes.
Restarts ==
    /\ page # "left" /\ restarts < MaxRestarts
    /\ restarts' = restarts + 1
    /\ valid' = None /\ holder' = None
    /\ srv' = [s \in Sock |-> "gone"]
    /\ up' = [s \in Sock |-> <<>>]
    /\ UNCHANGED <<pageVars, sock, down, foregrounds>>

Next ==
    \/ \E s \in Sock : Opens(s) \/ Closes(s) \/ Receives(s) \/ Handles(s) \/ Rotates(s)
    \/ Fires \/ Foregrounds \/ Logout
    \/ \E p \in pending : TimesOut(p)
    \/ ParkExpires \/ Restarts

Spec == Init /\ [][Next]_vars

\* The browser's timer fires, and a socket that cannot open closes.
Fairness == WF_vars(Fires) /\ \A s \in Sock : WF_vars(Closes(s) /\ sock[s] = "connecting")
FairSpec == Spec /\ Fairness

-----------------------------------------------------------------------------
(* Something of the reconnect is under way: the page will do more without the player. *)
UnderWay == timer \/ pending # {} \/ \E s \in Sock : sock[s] = "connecting"

(* A tab that holds only its token is never left on the "Connection lost" spinner with nothing under way: *)
(* whichever socket opens, closes or is superseded, it re-attaches, tries again, or tells the player the  *)
(* session has expired (client.ts 1462, 1502, 1537).                                                      *)
TokenOnlyKeepsTrying == status = "reconnecting" /\ page = "in" /\ ~canReplay => UnderWay

(* The resume token outlives every dropped socket: a close, of whichever socket, never forgets it, even *)
(* when it rejects the resume request that was carrying it ("the token may still be good").             *)
DropsKeepTheToken == [][(\E s \in Sock : sock[s] # "closed" /\ sock'[s] = "closed") => held' = held]_vars

(* When no socket opens any more, the tab stops trying and tells the player: the counter is not reset *)
(* by attempts that never opened (MAX_RECONNECT_ATTEMPTS).                                            *)
UnreachableGivesUp == <>[](\A s \in Sock : sock[s] # "open") => <>[](status # "reconnecting")

(* architecture-overview.md 193: "On refusal the login replay runs on the same socket when the password *)
(* is still in memory"; a tab that shows it is reconnecting is doing so.                                 *)
ReconnectingIsTrying == status = "reconnecting" /\ page = "in" => UnderWay
=============================================================================
