--------------------------- MODULE ConnectionPool ---------------------------
(***************************************************************************)
(* The world connection pool of one game session                           *)
(* (session/rdo-connection-pool.ts) together with the session that owns    *)
(* it (spo_session.ts): how a request gets a connection and gives its slot *)
(* back, how degraded connections are replaced, and what a world reconnect *)
(* or the end of the session does to connections that are still being      *)
(* made.                                                                   *)
(*                                                                         *)
(* getConnection is cut at its awaits: what it read before one it may act  *)
(* on after.  A pool object, a connection and a call are recycled by the   *)
(* model when nothing refers to them any more.                             *)
(***************************************************************************)
EXTENDS Naturals, FiniteSets

CONSTANTS
    Call,           \* requests of the session in flight at once
    Conn,           \* connections that exist at once
    Pool,           \* pool objects that exist at once
    None,
    MaxSize,        \* maxSize
    MaxTimeouts     \* maxConsecutiveTimeouts

ASSUME ConnectionPoolAssumption ==
    /\ IsFiniteSet(Call)
    /\ MaxSize \in Nat \ {0} /\ MaxTimeouts \in Nat \ {0}
    /\ None \notin Conn /\ None \notin Pool /\ None \notin Call

\* Who awaits createConnection, and what it read before: initialize, the two creations of
\* getConnection (with the best connection it found), or replaceConnection.
Job == [for : {"none", "initial", "expand", "fresh", "replace"},
        pool : Pool \cup {None}, call : Call \cup {None}, other : Conn \cup {None}]

NoJob == [for |-> "none", pool |-> None, call |-> None, other |-> None]

VARIABLES
    worldPool,            \* the session's pool, or None
    connections,          \* of each pool object
    closed,
    checking,             \* healthCheckInterval # null
    socket,               \* of a connection: "none", "connecting", "open" or "destroyed"
    closing,              \* its close event is still to be delivered
    owner,                \* the pool that made it
    activeRequests,
    consecutiveTimeouts,
    replacing,
    job,                  \* what awaits the creation of a connection
    status,               \* of a call: "idle", "waiting" (for a connection) or "sent"
    on,                   \* the connection whose slot it has acquired
    releaser,             \* the pool it captured to give the slot back
    crossed,              \* history: the pool was dropped while the call waited
    phase,                \* "connecting", "connected", "reconnecting" or "left"
    primary,              \* the primary world socket is up
    populated             \* initialize has been called on worldPool

connVars == <<socket, closing, owner, consecutiveTimeouts, replacing, job>>
poolVars == <<worldPool, connections, closed, checking>>
callVars == <<status, on, releaser, crossed, activeRequests>>
linkVars == <<phase, primary, populated>>
vars     == <<connVars, poolVars, callVars, linkVars>>

Init ==
    /\ worldPool = None
    /\ connections = [p \in Pool |-> {}]
    /\ closed = [p \in Pool |-> FALSE]
    /\ checking = [p \in Pool |-> FALSE]
    /\ socket = [c \in Conn |-> "none"]
    /\ closing = [c \in Conn |-> FALSE]
    /\ owner = [c \in Conn |-> None]
    /\ activeRequests = [c \in Conn |-> 0]
    /\ consecutiveTimeouts = [c \in Conn |-> 0]
    /\ replacing = [c \in Conn |-> FALSE]
    /\ job = [c \in Conn |-> NoJob]
    /\ status = [r \in Call |-> "idle"]
    /\ on = [r \in Call |-> None]
    /\ releaser = [r \in Call |-> None]
    /\ crossed = [r \in Call |-> FALSE]
    /\ phase = "left"
    /\ primary = FALSE
    /\ populated = FALSE

----------------------------------------------------------------------------
(* What the pool reads *)

Alive(p)      == {c \in connections[p] : socket[c] # "destroyed"}
Candidates(p) == {c \in Alive(p) : ~replacing[c]}
\* The least loaded of them; ties, which the code breaks by age, are left open.
Best(p) == {c \in Candidates(p) : \A d \in Candidates(p) : activeRequests[c] <= activeRequests[d]}

\* No reference to the connection is left: its identity may stand for a new one.
Garbage(c) ==
    /\ socket[c] \in {"none", "destroyed"} /\ ~closing[c]
    /\ \A p \in Pool : c \notin connections[p]
    /\ \A d \in Conn : job[d].other # c
    /\ \A r \in Call : on[r] # c

FreePool(p) ==
    /\ p # worldPool /\ connections[p] = {}
    /\ \A c \in Conn : job[c].pool # p /\ (closing[c] => owner[c] # p)
    /\ \A r \in Call : releaser[r] # p /\ (on[r] # None => owner[on[r]] # p)

----------------------------------------------------------------------------
(* Slots *)

CarriesUnsent(r, c) ==                 \* mutant: the promise of the new connection is lost
    /\ on' = [on EXCEPT ![r] = c]
    /\ releaser' = [releaser EXCEPT ![r] = worldPool]
    /\ UNCHANGED status
\* The frame is written.  The session captures this.worldPool after the await of
\* getConnection: the pool it gives the slot back to is the one it has then.
Carries(r, c) ==
    /\ status' = [status EXCEPT ![r] = "sent"]
    /\ on' = [on EXCEPT ![r] = c]
    /\ releaser' = [releaser EXCEPT ![r] = worldPool]

HandOutOnly(r, c) == Carries(r, c) /\ UNCHANGED activeRequests   \* mutant: the slot is not acquired
\* acquireSlot in the turn of the choice.
HandOut(r, c) ==
    /\ activeRequests' = [activeRequests EXCEPT ![c] = @ + 1]
    /\ Carries(r, c)

\* createConnection begins, over the given sockets and jobs.
Creating(c, j, sockets, jobs) ==
    /\ Garbage(c)
    /\ socket' = [sockets EXCEPT ![c] = "connecting"]
    /\ owner' = [owner EXCEPT ![c] = j.pool]
    /\ job' = [jobs EXCEPT ![c] = j]

\* Those of R whose slot on c comes back: the captured pool is not null.
Returns(R, c) == {r \in R : on[r] = c /\ releaser[r] # None}

EndLeaking(R) ==                       \* mutant: a rejected request keeps its slot
    /\ status' = [r \in Call |-> IF r \in R THEN "idle" ELSE status[r]]
    /\ on' = [r \in Call |-> IF r \in R THEN None ELSE on[r]]
    /\ releaser' = [r \in Call |-> IF r \in R THEN None ELSE releaser[r]]
    /\ UNCHANGED activeRequests
\* The calls of R settle: releaseOnce of each.
End(R) ==
    /\ status' = [r \in Call |-> IF r \in R THEN "idle" ELSE status[r]]
    /\ on' = [r \in Call |-> IF r \in R THEN None ELSE on[r]]
    /\ releaser' = [r \in Call |-> IF r \in R THEN None ELSE releaser[r]]
    /\ activeRequests' = [c \in Conn |->
         LET back == Cardinality(Returns(R, c))
         IN  IF activeRequests[c] > back THEN activeRequests[c] - back ELSE 0]

Sent == {r \in Call : status[r] = "sent"}

----------------------------------------------------------------------------
(* Requests *)

ExpandJob(r, p, b) == [for |-> "expand", pool |-> p, call |-> r, other |-> b]
FreshJobLost(r, p) == [for |-> "fresh", pool |-> p, call |-> None, other |-> None]  \* mutant: nobody awaits it
FreshJob(r, p)     == [for |-> "fresh", pool |-> p, call |-> r, other |-> None]
ReplaceJob(p, old) == [for |-> "replace", pool |-> p, call |-> None, other |-> old]
InitialJob(p)      == [for |-> "initial", pool |-> p, call |-> None, other |-> None]

\* The call waits for a connection to be made; best is the one getConnection has found.
Awaits(r, c, j) ==
    /\ Creating(c, j, socket, job)
    /\ status' = [status EXCEPT ![r] = "waiting"]
    /\ UNCHANGED <<closing, consecutiveTimeouts, replacing, on, releaser, activeRequests>>

\* getConnection: the dead connections are dropped; the least loaded connection serves when
\* it is idle or the pool is full, otherwise a new one is made.
GetConnection(r, p) ==
    LET room == Cardinality(Alive(p)) < MaxSize
        idle == \E b \in Best(p) : activeRequests[b] = 0
    IN  /\ connections' = [connections EXCEPT ![p] = Alive(p)]
        /\ \/ /\ idle \/ ~room
              /\ \E b \in Best(p) : HandOut(r, b)
              /\ UNCHANGED connVars
           \/ /\ ~idle /\ room /\ Best(p) # {}
              /\ \E c \in Conn, b \in Best(p) : Awaits(r, c, ExpandJob(r, p, b))
           \/ /\ room /\ Best(p) = {}
              /\ \E c \in Conn : Awaits(r, c, ExpandJob(r, p, None))
           \/ /\ ~room /\ Best(p) = {}
              /\ \E c \in Conn : Awaits(r, c, FreshJob(r, p))

\* executeRdoRequest of a world request that is not bound to the primary connection, while
\* the pool is not empty; in every other case the primary socket carries it.
Request(r) ==
    /\ status[r] = "idle"
    /\ worldPool # None
    /\ Alive(worldPool) # {}
    /\ ~closed[worldPool]
    /\ GetConnection(r, worldPool)
    /\ UNCHANGED <<worldPool, closed, checking, crossed, linkVars>>

\* An answer, or an error of the server, settles the request.
Answer(r) ==
    /\ status[r] = "sent"
    /\ End({r})
    /\ crossed' = [crossed EXCEPT ![r] = FALSE]
    /\ consecutiveTimeouts' = IF releaser[r] = None THEN consecutiveTimeouts
                              ELSE [consecutiveTimeouts EXCEPT ![on[r]] = 0]
    /\ UNCHANGED <<socket, closing, owner, replacing, job, poolVars, linkVars>>

TimedOut(c) == consecutiveTimeouts[c] + 1
Degraded(c) == TimedOut(c) >= MaxTimeouts

StartReplace(p, old) ==
    /\ replacing' = [replacing EXCEPT ![old] = TRUE]
    /\ \E c \in Conn : Creating(c, ReplaceJob(p, old), socket, job)

ReplacesAgain(old) == Degraded(old)    \* mutant: the flag is not looked at
\* A replacement of it starts now.
Replaceable(old) == Degraded(old) /\ ~replacing[old]

\* The request's deadline passes: its connection counts a timeout (more than the limit is as
\* good as the limit), and at the limit the releasing pool starts to replace it.
Timeout(r) ==
    /\ status[r] = "sent"
    /\ End({r})
    /\ crossed' = [crossed EXCEPT ![r] = FALSE]
    /\ \/ /\ releaser[r] = None
          /\ UNCHANGED connVars
       \/ /\ releaser[r] # None
          /\ consecutiveTimeouts' = [consecutiveTimeouts EXCEPT ![on[r]] =
                                       IF Degraded(on[r]) THEN MaxTimeouts ELSE @ + 1]
          /\ IF Replaceable(on[r])
             THEN StartReplace(releaser[r], on[r])
             ELSE UNCHANGED <<socket, owner, replacing, job>>
          /\ UNCHANGED closing
    /\ UNCHANGED <<poolVars, linkVars>>

----------------------------------------------------------------------------
(* Connections that are made, fail and close *)

\* The new connection of initialize or getConnection joins the pool that made it, whatever
\* has become of that pool.
Joins(c) == connections' = [connections EXCEPT ![job[c].pool] = @ \cup {c}]

\* replaceConnection: the new one takes the place of the old, or is appended when the old
\* has left; the old one is destroyed with its listeners gone.
Replaces(c, old) ==
    /\ connections' = [connections EXCEPT ![job[c].pool] = (@ \ {old}) \cup {c}]
    /\ socket' = [socket EXCEPT ![c] = "open", ![old] = "destroyed"]
    /\ closing' = [closing EXCEPT ![old] = FALSE]

GivesUpStuck(old) == UNCHANGED replacing   \* mutant: the flag stays set
GivesUp(old)      == replacing' = [replacing EXCEPT ![old] = FALSE]

NewObject(c, slots) ==
    /\ consecutiveTimeouts' = [consecutiveTimeouts EXCEPT ![c] = 0]
    /\ replacing' = [replacing EXCEPT ![c] = FALSE]
    /\ activeRequests' = [activeRequests EXCEPT ![c] = slots]

\* The TCP connection is established.
Connected(c) ==
    /\ socket[c] = "connecting"
    /\ \/ /\ job[c].for = "initial"
          /\ Joins(c)
          /\ checking' = [checking EXCEPT ![job[c].pool] = TRUE]
          /\ NewObject(c, 0)
          /\ socket' = [socket EXCEPT ![c] = "open"]
          /\ UNCHANGED <<closing, status, on, releaser>>
       \/ /\ job[c].for \in {"expand", "fresh"}
          /\ Joins(c)
          /\ NewObject(c, 1)
          /\ Carries(job[c].call, c)
          /\ socket' = [socket EXCEPT ![c] = "open"]
          /\ UNCHANGED <<closing, checking>>
       \/ /\ job[c].for = "replace"
          /\ Replaces(c, job[c].other)
          /\ NewObject(c, 0)
          /\ UNCHANGED <<checking, status, on, releaser>>
    /\ job' = [job EXCEPT ![c] = NoJob]
    /\ UNCHANGED <<owner, worldPool, closed, crossed, linkVars>>

\* The attempt fails or exceeds connectTimeoutMs.  getConnection falls back to the best
\* connection of before, or makes a second attempt; when that fails too the session takes
\* the primary socket.  A replacement is given up and may be tried again.
ConnectFails(c) ==
    /\ socket[c] = "connecting"
    /\ closing' = [closing EXCEPT ![c] = TRUE]
    /\ LET dead == [socket EXCEPT ![c] = "destroyed"]
           rest == [job EXCEPT ![c] = NoJob]
           call == job[c].call
           other == job[c].other
       IN  \/ /\ job[c].for = "initial"
              /\ socket' = dead /\ job' = rest
              /\ UNCHANGED <<owner, replacing, status, on, releaser, crossed, activeRequests>>
           \/ /\ job[c].for = "expand" /\ other # None
              /\ HandOut(call, other)
              /\ socket' = dead /\ job' = rest
              /\ UNCHANGED <<owner, replacing, crossed>>
           \/ /\ job[c].for = "expand" /\ other = None
              /\ \E d \in Conn \ {c} : Creating(d, FreshJob(call, job[c].pool), dead, rest)
              /\ UNCHANGED <<replacing, status, on, releaser, crossed, activeRequests>>
           \/ /\ job[c].for = "fresh"
              /\ End({call})
              /\ crossed' = [crossed EXCEPT ![call] = FALSE]
              /\ socket' = dead /\ job' = rest
              /\ UNCHANGED <<owner, replacing>>
           \/ /\ job[c].for = "replace"
              /\ GivesUp(other)
              /\ socket' = dead /\ job' = rest
              /\ UNCHANGED <<owner, status, on, releaser, crossed, activeRequests>>
    /\ UNCHANGED <<consecutiveTimeouts, poolVars, linkVars>>

\* The peer closes a connection; its close event comes in a later turn.
ConnectionLost(c) ==
    /\ socket[c] = "open"
    /\ socket' = [socket EXCEPT ![c] = "destroyed"]
    /\ closing' = [closing EXCEPT ![c] = TRUE]
    /\ UNCHANGED <<owner, consecutiveTimeouts, replacing, job, poolVars, callVars, linkVars>>

----------------------------------------------------------------------------
(* The session: its pool, its primary socket and its reconnect *)

\* The pool is emptied (conns: what the pools hold) and forgotten; the sockets destroyed
\* lose their listeners, so no close event follows.
Emptied(conns, events) ==
    LET gone == IF worldPool = None THEN {} ELSE conns[worldPool]
    IN  /\ connections' = [p \in Pool |-> IF p = worldPool THEN {} ELSE conns[p]]
        /\ socket' = [c \in Conn |-> IF c \in gone THEN "destroyed" ELSE socket[c]]
        /\ closing' = [c \in Conn |-> events[c] /\ c \notin gone]

DropPoolOnly(conns, events) ==         \* mutant: the requests in the table live on
    /\ worldPool' = None
    /\ Emptied(conns, events)
    /\ crossed' = [r \in Call |-> crossed[r] \/ status[r] = "waiting"]
    /\ UNCHANGED <<status, on, releaser, activeRequests>>
\* Every request in the table is rejected with the pool; a call that waits for a connection
\* is in no table and goes on.
DropPool(conns, events) ==
    /\ worldPool' = None
    /\ Emptied(conns, events)
    /\ End(Sent)
    /\ crossed' = [r \in Call |-> status[r] = "waiting"]

\* attemptWorldReconnect begins.
Reconnect(conns, events) ==
    /\ DropPool(conns, events)
    /\ phase' = "reconnecting"

\* The close event of a connection: it leaves the pool that made it; onClose then looks at
\* the pool the session has now.  The reconnect may be throttled.
CloseEvent(c) ==
    /\ closing[c]
    /\ LET left   == [connections EXCEPT ![owner[c]] = @ \ {c}]
           events == [closing EXCEPT ![c] = FALSE]
       IN  \/ /\ connections' = left /\ closing' = events
              /\ UNCHANGED <<worldPool, socket, callVars, phase>>
           \/ /\ worldPool # None /\ Alive(worldPool) = {} /\ phase = "connected"
              /\ Reconnect(left, events)
    /\ UNCHANGED <<closed, checking, owner, consecutiveTimeouts, replacing, job, populated, primary>>

\* The health check of a pool drops its dead connections; a drained pool keeps its timer.
HealthCheck(p) ==
    /\ checking[p] /\ ~closed[p]
    /\ connections[p] # Alive(p)
    /\ connections' = [connections EXCEPT ![p] = Alive(p)]
    /\ UNCHANGED <<worldPool, closed, checking, connVars, callVars, linkVars>>

\* The primary socket closes: a bound session reconnects, unless it is throttled.
PrimaryLost ==
    /\ primary
    /\ primary' = FALSE
    /\ \/ UNCHANGED <<worldPool, connections, socket, closing, callVars, phase>>
       \/ /\ phase = "connected"
          /\ Reconnect(connections, closing)
    /\ UNCHANGED <<closed, checking, owner, consecutiveTimeouts, replacing, job, populated>>

\* A world request finds neither a pooled connection nor the primary socket.
ReconnectOnDemand ==
    /\ phase \in {"connected", "reconnecting"} /\ ~primary
    /\ worldPool # None => Alive(worldPool) = {}
    /\ Reconnect(connections, closing)
    /\ UNCHANGED <<closed, checking, owner, consecutiveTimeouts, replacing, job, populated, primary>>

\* loginWorld, or the reconnect: a new primary socket and a new, empty pool.
InitWorldPool ==
    /\ phase \in {"left", "reconnecting"} /\ worldPool = None
    /\ \E p \in Pool :
         /\ FreePool(p)
         /\ worldPool' = p
         /\ closed' = [closed EXCEPT ![p] = FALSE]
         /\ checking' = [checking EXCEPT ![p] = FALSE]
    /\ primary' = TRUE
    /\ populated' = FALSE
    /\ phase' = IF phase = "left" THEN "connecting" ELSE phase
    /\ UNCHANGED <<connections, connVars, callVars>>

\* Once the session is bound to the primary socket, the first connection is made.
PopulateWorldPool ==
    /\ phase \in {"connecting", "reconnecting"} /\ primary
    /\ worldPool # None /\ ~populated
    /\ populated' = TRUE
    /\ \E c \in Conn : Creating(c, InitialJob(worldPool), socket, job)
    /\ UNCHANGED <<closing, consecutiveTimeouts, replacing, poolVars, callVars, phase, primary>>

\* selectCompany binds the session.
Bound ==
    /\ phase \in {"connecting", "reconnecting"} /\ primary
    /\ populated
    /\ phase' = "connected"
    /\ UNCHANGED <<connVars, poolVars, callVars, populated, primary>>

\* cleanupWorldSession or destroy: the pool is closed, the table is rejected.
Leave ==
    /\ phase # "left"
    /\ closed' = [p \in Pool |-> closed[p] \/ p = worldPool]
    /\ checking' = [p \in Pool |-> checking[p] /\ p # worldPool]
    /\ DropPool(connections, closing)
    /\ phase' = "left"
    /\ primary' = FALSE
    /\ UNCHANGED <<owner, consecutiveTimeouts, replacing, job, populated>>

----------------------------------------------------------------------------

Next ==
    \/ \E r \in Call : Request(r) \/ Answer(r) \/ Timeout(r)
    \/ \E c \in Conn : Connected(c) \/ ConnectFails(c) \/ ConnectionLost(c) \/ CloseEvent(c)
    \/ \E p \in Pool : HealthCheck(p)
    \/ PrimaryLost \/ ReconnectOnDemand \/ InitWorldPool \/ PopulateWorldPool \/ Bound \/ Leave

Spec == Init /\ [][Next]_vars

\* The timers of the code: a connection is made or fails within connectTimeoutMs, a request is
\* answered or times out.
Fairness ==
    /\ \A c \in Conn : WF_vars(Connected(c) \/ ConnectFails(c))
    /\ \A r \in Call : WF_vars(Answer(r) \/ Timeout(r))

FairSpec == Spec /\ Fairness

----------------------------------------------------------------------------
(* Properties *)

\* Every variable has its type.
TypeOK ==
    /\ worldPool \in Pool \cup {None}
    /\ connections \in [Pool -> SUBSET Conn]
    /\ closed \in [Pool -> BOOLEAN] /\ checking \in [Pool -> BOOLEAN]
    /\ socket \in [Conn -> {"none", "connecting", "open", "destroyed"}]
    /\ closing \in [Conn -> BOOLEAN]
    /\ owner \in [Conn -> Pool \cup {None}]
    /\ activeRequests \in [Conn -> Nat]
    /\ consecutiveTimeouts \in [Conn -> 0 .. MaxTimeouts]
    /\ replacing \in [Conn -> BOOLEAN]
    /\ job \in [Conn -> Job]
    /\ status \in [Call -> {"idle", "waiting", "sent"}]
    /\ on \in [Call -> Conn \cup {None}]
    /\ releaser \in [Call -> Pool \cup {None}]
    /\ crossed \in [Call -> BOOLEAN]
    /\ phase \in {"connecting", "connected", "reconnecting", "left"}
    /\ primary \in BOOLEAN /\ populated \in BOOLEAN

\* The calls that hold a slot of the connection.
Holders(c) == {r \in Call : on[r] = c}

\* The load the pool goes by is the true one: through timeouts, failed expansions,
\* replacements, drains and late answers, each connection of the session's pool counts
\* exactly the requests that are in flight on it, no slot leaked and none given back twice.
SlotsBalanced ==
    worldPool # None =>
      \A c \in connections[worldPool] : activeRequests[c] = Cardinality(Holders(c))

\* A connection is replaced by one new connection: a second replacement does not start
\* while the first is under way, however many requests time out on it.
ReplacedOnce ==
    \A c, d \in Conn :
      /\ job[c].for = "replace" /\ job[d].for = "replace" /\ job[c].other = job[d].other
      => c = d

\* A request leaves on a connection of a pool the session has dropped only when it waited
\* for that connection while the pool was dropped; everything that had been sent before was
\* rejected with the pool.
OnlyCrossersHaunt ==
    \A r \in Call : status[r] = "sent" /\ owner[on[r]] # worldPool => crossed[r]

\* A call that waits for a connection has exactly one creation that will wake it.
WaitersAreServed ==
    \A r \in Call : status[r] = "waiting" =>
      \E c \in Conn : \A d \in Conn : job[d].call = r <=> d = c

\* A call that waits for a connection is always woken, and one that was sent always settles.
CallsSettle == \A r \in Call : status[r] # "idle" ~> status[r] = "idle"

\* A degraded connection does not stay out of service: its replacement ends, one way or the
\* other, and either it is gone or it serves again.
ReplacementEnds == \A c \in Conn : replacing[c] ~> ~replacing[c] \/ socket[c] = "destroyed"
============================================================================
