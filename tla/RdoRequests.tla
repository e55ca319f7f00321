---------------------------- MODULE RdoRequests ----------------------------
(***************************************************************************)
(* The request layer of one game session (spo_session.ts): the table of    *)
(* pending requests with its ids and deadlines, the buffer that holds      *)
(* requests while the game server is busy, the loops that flush it, the    *)
(* ServerBusy poll, the retries of reads, the waits for a pool connection  *)
(* and for the world's reconnect, and what a lost world, a change of       *)
(* server and the end of the session do to all of them.                    *)
(*                                                                         *)
(* A call is one sendRdoRequest of a handler, with its promise.  Time is   *)
(* abstract: a deadline may pass at any moment while its timer is armed,   *)
(* and an attempt to reconnect is refused by its backoff, or given up, at  *)
(* any moment (WorldLink has the counts and the steps of the re-login).    *)
(* Continuations that are due (microtasks) run before the next event.      *)
(***************************************************************************)
EXTENDS Naturals, Sequences, FiniteSets

CONSTANTS
    Req,             \* the calls of sendRdoRequest
    Reads,           \* those that are GET or IDOF: the others are mutations
    WorldCalls,      \* those addressed to the world socket: the others use the map socket
    Poll,            \* the ServerBusy poll, which calls the same primitive
    Body,            \* bound of the model: attempts to reconnect that run at once
    Null,
    IdSpace,         \* 65536 in the code: the QueryId is a word
    MaxBuffer,       \* MAX_BUFFER_SIZE
    MaxRetries,      \* maxRetries of a recoverable error
    MaxPollFailures, \* MAX_CONSECUTIVE_POLL_FAILURES
    UsePool,         \* RDO_WORLD_POOL
    MaxFlushLoops    \* bound of the model: flush loops asleep at once

\* Where an unsettled call waits.  One that waits for an attempt is at its body instead.
Waits == {"none", "buffer", "pool", "poolAgain", "wire", "backoff", "resumed"}

ASSUME RdoRequestsAssumption ==
    /\ Reads \subseteq Req /\ WorldCalls \subseteq Req
    /\ Poll \notin Req
    /\ IdSpace \in Nat \ {0}
    /\ MaxBuffer \in Nat /\ MaxRetries \in Nat /\ MaxPollFailures \in Nat
    /\ UsePool \in BOOLEAN /\ MaxFlushLoops \in Nat
    /\ Body \cap Waits = {} /\ Null \notin Body

Id     == 0 .. IdSpace - 1
Caller == Req \cup {Poll}
Places == Waits \cup Body

\* What pendingRequests holds under an id.
Entry    == [call : Caller, state : {"pending", "timed-out"}]
\* A request on its way to a server, or its answer on the way back, and what carries it.
Question == [id : Id, call : Caller, on : {"world", "pool", "map"}]

ASSUME NullAssumption == Null \notin Entry

VARIABLES
    status,           \* a call's promise
    place,            \* where a caller waits; the poll is under way (isPolling) unless "none"
    sends,            \* frames written for a call
    pendingRequests,
    timers,           \* armed deadlines: <<id, call whose promise they reject>>
    requestIdCounter, \* modulo IdSpace
    wire,             \* questions not answered yet
    forgotten,        \* history: those of wire whose entry was dropped without an answer
    requestBuffer,
    flushLoops,       \* runs of processBufferedRequests that sleep their 50 ms
    flushDue,         \* a continuation is due that calls processBufferedRequests
    isServerBusy,
    polling,          \* serverBusyCheckInterval # null
    pollFailures,     \* consecutivePollFailures
    phase,            \* "away": in no world, or in a login
    worldSocket,      \* sockets.has('world')
    running,          \* the attempts under way
    over,             \* those that have succeeded and are about to end
    worldReconnecting,\* the body whose promise is shared
    leaving,          \* cleanupWorldSession waits for its Logoff
    isClosing

callVars    == <<status, place, sends>>
tableVars   == <<pendingRequests, timers, requestIdCounter, wire, forgotten>>
pollVars    == <<polling, pollFailures>>
attemptVars == <<phase, running, worldReconnecting>>
\* What no request changes by itself.
sessionVars == <<flushLoops, flushDue, isServerBusy, worldSocket, over, leaving, isClosing>>
vars == <<callVars, tableVars, requestBuffer, pollVars, attemptVars, sessionVars>>

\* A session in its world.
Init ==
    /\ status = [r \in Req |-> "unsent"]
    /\ place = [who \in Caller |-> "none"]
    /\ sends = [r \in Req |-> 0]
    /\ pendingRequests = [i \in Id |-> Null]
    /\ timers = {} /\ requestIdCounter = 0 /\ wire = {} /\ forgotten = {}
    /\ requestBuffer = <<>> /\ flushLoops = 0 /\ flushDue = FALSE
    /\ isServerBusy = FALSE /\ polling = TRUE /\ pollFailures = 0
    /\ phase = "connected" /\ worldSocket = TRUE
    /\ running = {} /\ over = {} /\ worldReconnecting = Null
    /\ leaving = FALSE /\ isClosing = FALSE

----------------------------------------------------------------------------
(* Promises *)

Open(who) == who = Poll \/ (who \in Req /\ status[who] \in {"unsent", "waiting"})

\* A promise settles once: a second resolve or reject does nothing.
Settle(R, how) ==
    /\ status' = [r \in Req |-> IF r \in R /\ Open(r) THEN how ELSE status[r]]
    /\ place' = [who \in Caller |-> IF who \in R THEN "none" ELSE place[who]]

WaitAt(who, where) ==
    /\ status' = [r \in Req |-> IF r = who THEN "waiting" ELSE status[r]]
    /\ place' = [place EXCEPT ![who] = where]

\* The poll fails; after enough failures in a row it stops.
PollFails ==
    /\ polling' = (polling /\ pollFailures + 1 < MaxPollFailures)
    /\ pollFailures' = IF pollFailures + 1 < MaxPollFailures THEN pollFailures + 1 ELSE 0

Reject(R) ==
    /\ Settle(R, "rejected")
    /\ IF Poll \in R THEN PollFails ELSE UNCHANGED pollVars

\* A request is refused, or goes to wait; b is the buffer it leaves.
Refused(who, b) ==
    /\ Reject({who}) /\ requestBuffer' = b
    /\ UNCHANGED <<sends, tableVars, attemptVars>>
Waiting(who, where, b) ==
    /\ WaitAt(who, where) /\ requestBuffer' = b
    /\ UNCHANGED <<sends, tableVars, pollVars, attemptVars>>

----------------------------------------------------------------------------
(* The pending table *)

Free(i)  == pendingRequests[i] = Null
Probe(k) == (requestIdCounter + k) % IdSpace

CounterOnly == Probe(0)                     \* mutant: the id is not probed for
\* allocateRequestId: the first id at or after the counter that is not in the table.
NewId ==
    Probe(CHOOSE k \in Id : Free(Probe(k)) /\ \A j \in 0 .. k - 1 : ~Free(Probe(j)))

\* A session never has 65536 requests in the table (20 messages a second, entries that live
\* some minutes): the probe finds a free id.
RoomForId == \E i \in Id : Free(i)

RegisterUnwrapped(who) ==                   \* mutant: the counter does not wrap
    /\ pendingRequests' = [pendingRequests EXCEPT ![NewId] = [call |-> who, state |-> "pending"]]
    /\ timers' = timers \cup {<<NewId, who>>}
    /\ requestIdCounter' = NewId + 1
RegisterUntimed(who) ==                     \* mutant: the deadline is not armed
    /\ pendingRequests' = [pendingRequests EXCEPT ![NewId] = [call |-> who, state |-> "pending"]]
    /\ requestIdCounter' = (NewId + 1) % IdSpace
    /\ UNCHANGED timers
\* The entry and its deadline, registered before the frame is written.
Register(who) ==
    /\ pendingRequests' = [pendingRequests EXCEPT ![NewId] = [call |-> who, state |-> "pending"]]
    /\ timers' = timers \cup {<<NewId, who>>}
    /\ requestIdCounter' = (NewId + 1) % IdSpace

Asked(who, on) ==
    /\ wire' = wire \cup {[id |-> NewId, call |-> who, on |-> on]}
    /\ forgotten' = forgotten \ {[id |-> NewId, call |-> who, on |-> on]}

\* The frame goes out; or formatting it throws, which rejects the promise and leaves the
\* entry and its timer behind.  (The poll's frame is a constant.)
Write(who, on, b) ==
    /\ RoomForId
    /\ Register(who)
    /\ \/ /\ Asked(who, on)
          /\ WaitAt(who, "wire")
          /\ sends' = [r \in Req |-> IF r = who THEN sends[r] + 1 ELSE sends[r]]
       \/ /\ who # Poll
          /\ Settle({who}, "rejected")
          /\ UNCHANGED <<sends, wire, forgotten>>
    /\ requestBuffer' = b
    /\ UNCHANGED <<pollVars, attemptVars>>

\* Those whose pending entry a drain rejects.
InTable == {pendingRequests[i].call : i \in {i \in Id : ~Free(i) /\ pendingRequests[i].state = "pending"}}

\* Every pending entry's timer is cleared, and the table emptied.
DrainTable ==
    /\ pendingRequests' = [i \in Id |-> Null]
    /\ timers' = timers \ {t \in timers : ~Free(t[1]) /\ pendingRequests[t[1]] = [call |-> t[2], state |-> "pending"]}
    /\ UNCHANGED requestIdCounter

\* stopServerBusyPolling; a poll whose entry is drained fails after the counter was reset.
PollStopped ==
    /\ polling' = FALSE
    /\ pollFailures' = IF Poll \in InTable /\ MaxPollFailures > 1 THEN 1 ELSE 0

----------------------------------------------------------------------------
(* The world's reconnect, as a request meets it (attemptWorldReconnect) *)

\* The pool may hold a connection (its size is ConnectionPool's).  The poll keeps to the
\* primary socket.
Pooled(who) == UsePool /\ ~isClosing /\ who \in WorldCalls

InWorld == phase \in {"connected", "reconnecting"}

\* The sequence s with the elements of R filtered out.
Without(s, R) ==
    LET kept[n \in 0 .. Len(s)] ==
          IF n = 0 THEN <<>>
          ELSE IF s[n] \in R THEN kept[n - 1] ELSE Append(kept[n - 1], s[n])
    IN  kept[Len(s)]

ElementsOf(s) == {s[k] : k \in DOMAIN s}

KeptBuffer(b) == b                          \* mutant: the buffer survives the reconnect
\* Requests for the world do not survive a lost world in the buffer.
RestOfBuffer(b) == Without(b, WorldCalls)

\* The synchronous part of a new attempt, its body b: everything in flight and the buffered
\* requests of the world are rejected, and those of W wait for its end.
StartAttempt(b, W, buffer, gone) ==
    LET R == InTable \cup (ElementsOf(buffer) \cap WorldCalls) IN
    /\ worldReconnecting = Null /\ b \notin running
    /\ worldReconnecting' = b /\ running' = running \cup {b}
    /\ phase' = "reconnecting"
    /\ DrainTable
    /\ wire' = {q \in wire : q.on \notin gone \cup {"pool"}}
    /\ forgotten' = wire'
    /\ status' = [r \in Req |-> IF r \in R /\ Open(r) THEN "rejected"
                                ELSE IF r \in W THEN "waiting" ELSE status[r]]
    /\ place' = [who \in Caller |-> IF who \in R THEN "none"
                                    ELSE IF who \in W THEN b ELSE place[who]]
    /\ requestBuffer' = RestOfBuffer(buffer)
    /\ PollStopped
    /\ UNCHANGED sends

\* A request waits for the attempt that is shared, or for one it starts; or the backoff
\* refuses one, or they are given up and it looks for a connection again.
Reconnect(who, b) ==
    \/ worldReconnecting # Null /\ Waiting(who, worldReconnecting, b)
    \/ \E a \in Body : StartAttempt(a, {who}, b, {})
    \/ worldReconnecting = Null /\ Refused(who, b)
    \/ worldReconnecting = Null /\ Pooled(who) /\ Waiting(who, "poolAgain", b)

----------------------------------------------------------------------------
(* A request is executed (executeRdoRequest) *)

ToWorld(who) == who = Poll \/ who \in WorldCalls

\* On a socket of the session: isClosing is looked at for the reconnect alone.  Whether one
\* that is not the world's is there is left open.
OnSocket(who, b) ==
    \/ ToWorld(who) /\ worldSocket /\ Write(who, "world", b)
    \/ ToWorld(who) /\ ~worldSocket /\ InWorld /\ ~isClosing /\ Reconnect(who, b)
    \/ ToWorld(who) /\ ~worldSocket /\ (~InWorld \/ isClosing) /\ Refused(who, b)
    \/ ~ToWorld(who) /\ (Write(who, "map", b) \/ Refused(who, b))

Execute(who, b) ==
    \/ Pooled(who) /\ Waiting(who, "pool", b)
    \/ OnSocket(who, b)

\* The pool connection is there, whatever happened to the session meanwhile; or there is none.
PoolAnswers(who) ==
    /\ place[who] = "pool"
    /\ Write(who, "pool", requestBuffer) \/ OnSocket(who, requestBuffer)
    /\ UNCHANGED sessionVars

\* The second look for a connection starts no other attempt.
OnSocketOnly(who) ==
    \/ worldSocket /\ Write(who, "world", requestBuffer)
    \/ ~worldSocket /\ Refused(who, requestBuffer)

PoolAnswersAgain(who) ==
    /\ place[who] = "poolAgain"
    /\ Write(who, "pool", requestBuffer) \/ OnSocketOnly(who)
    /\ UNCHANGED sessionVars

\* The attempt waited for has succeeded: neither the busy flag nor isClosing is read again.
Resume(who) ==
    /\ place[who] = "resumed"
    /\ (Pooled(who) /\ Waiting(who, "poolAgain", requestBuffer)) \/ OnSocketOnly(who)
    /\ UNCHANGED sessionVars

\* The delay before a retry is over: neither the busy gate nor isClosing is looked at again.
Retry(who) ==
    /\ place[who] = "backoff"
    /\ Execute(who, requestBuffer)
    /\ UNCHANGED sessionVars

----------------------------------------------------------------------------
(* A handler's call *)

Buffer(r) ==
    IF Len(requestBuffer) < MaxBuffer
    THEN Waiting(r, "buffer", Append(requestBuffer, r))
    ELSE Refused(r, requestBuffer)

CallNow(r) ==                               \* mutant: the busy gate is forgotten
    /\ status[r] = "unsent"
    /\ IF isClosing THEN Refused(r, requestBuffer) ELSE Execute(r, requestBuffer)
    /\ UNCHANGED sessionVars
CallLate(r) ==                              \* mutant: isClosing is not looked at
    /\ status[r] = "unsent"
    /\ IF isServerBusy THEN Buffer(r) ELSE Execute(r, requestBuffer)
    /\ UNCHANGED sessionVars
\* sendRdoRequest.
Call(r) ==
    /\ status[r] = "unsent"
    /\ \/ isClosing /\ Refused(r, requestBuffer)
       \/ ~isClosing /\ isServerBusy /\ Buffer(r)
       \/ ~isClosing /\ ~isServerBusy /\ Execute(r, requestBuffer)
    /\ UNCHANGED sessionVars

BufferExpires(r) ==
    /\ place[r] = "buffer"
    /\ Refused(r, Without(requestBuffer, {r}))
    /\ UNCHANGED sessionVars

----------------------------------------------------------------------------
(* Answers and deadlines *)

RetryAll(who) ==                            \* mutant: mutations are retried as well
    who = Poll \/ (who \in Req /\ sends[who] <= MaxRetries)
\* executeWithRetry: a read whose answer is a recoverable error is asked again.  The poll's
\* retries are not counted.
MayRetry(who) == who = Poll \/ (who \in Reads /\ sends[who] <= MaxRetries)

\* The bound of the model on flush loops.
RoomForLoop == flushLoops < MaxFlushLoops

\* The poll reads ServerBusy: its own answer, or that of whoever held its id.
PollReads ==
    /\ \E busy \in BOOLEAN :
         /\ busy \/ ~isServerBusy \/ RoomForLoop
         /\ isServerBusy' = busy
         /\ flushDue' = (isServerBusy /\ ~busy)
    /\ pollFailures' = 0
    /\ Settle({Poll}, "resolved")
    /\ UNCHANGED polling

\* What the answer does to the caller whose entry it found.
Answered(who, kind) ==
    \/ /\ kind = "recoverable" /\ MayRetry(who) /\ Open(who)
       /\ WaitAt(who, "backoff")
       /\ UNCHANGED <<isServerBusy, flushDue, pollVars>>
    \/ /\ who # Poll /\ (kind = "ok" \/ (kind = "recoverable" /\ ~MayRetry(who)))
       /\ Settle({who}, "resolved")
       /\ UNCHANGED <<isServerBusy, flushDue, pollVars>>
    \/ /\ kind = "ok" /\ who = Poll
       /\ PollReads
    \/ /\ kind = "fatal" \/ (kind = "recoverable" /\ who = Poll)
       /\ Reject({who})
       /\ UNCHANGED <<isServerBusy, flushDue>>

\* An answer finds no entry, a pending one, or one that timed out and stays for it.
Answer(q, kind) ==
    LET e == pendingRequests[q.id] IN
    /\ wire' = wire \ {q}
    /\ forgotten' = (forgotten \cup {f \in wire : f.id = q.id /\ e # Null /\ f.call = e.call}) \ {q}
    /\ IF e = Null
       THEN UNCHANGED <<pendingRequests, timers, status, place, isServerBusy, flushDue, pollVars>>
       ELSE /\ pendingRequests' = [pendingRequests EXCEPT ![q.id] = Null]
            /\ timers' = timers \ {<<q.id, e.call>>}
            /\ IF e.state = "pending" THEN Answered(e.call, kind)
               ELSE UNCHANGED <<status, place, isServerBusy, flushDue, pollVars>>
    /\ UNCHANGED <<sends, requestIdCounter, requestBuffer, attemptVars, flushLoops, worldSocket, over, leaving, isClosing>>

TimeoutForgets(i, who) ==                   \* mutant: a deadline deletes the entry
    /\ pendingRequests' = [pendingRequests EXCEPT ![i] = Null]
    /\ timers' = timers \ {<<i, who>>}
    /\ Reject({who})
    /\ UNCHANGED <<sends, requestIdCounter, wire, forgotten, requestBuffer, attemptVars, sessionVars>>
\* A deadline passes: the entry under its id stays as timed-out, the promise is rejected.
Timeout(i, who) ==
    /\ timers' = timers \ {<<i, who>>}
    /\ IF ~Free(i) /\ pendingRequests[i].state = "pending"
       THEN /\ pendingRequests' = [pendingRequests EXCEPT ![i].state = "timed-out"]
            /\ Reject({who})
       ELSE UNCHANGED <<pendingRequests, status, place, pollVars>>
    /\ UNCHANGED <<sends, requestIdCounter, wire, forgotten, requestBuffer, attemptVars, sessionVars>>

DeadlineOf(r) == \E i \in Id : <<i, r>> \in timers /\ Timeout(i, r)

\* The sweep removes an entry that timed out and whose grace is over.  (Its timer is off
\* between two worlds, which the model does not follow.)
Sweep(i) ==
    /\ ~isClosing
    /\ ~Free(i) /\ pendingRequests[i].state = "timed-out"
    /\ pendingRequests' = [pendingRequests EXCEPT ![i] = Null]
    /\ forgotten' = forgotten \cup {q \in wire : q.id = i /\ q.call = pendingRequests[i].call}
    /\ UNCHANGED <<callVars, timers, requestIdCounter, wire, requestBuffer, pollVars, attemptVars, sessionVars>>

----------------------------------------------------------------------------
(* The busy flag, the flush and the poll *)

\* One turn of processBufferedRequests: the head of the buffer is executed.
FlushOne == Execute(Head(requestBuffer), Tail(requestBuffer))
GoesOn   == requestBuffer # <<>> /\ ~isServerBusy /\ ~isClosing
NoTurn   == UNCHANGED <<callVars, tableVars, requestBuffer, pollVars, attemptVars>>

\* A loop that wakes from its 50 ms.
FlushLoop ==
    /\ flushLoops > 0
    /\ IF GoesOn THEN FlushOne /\ UNCHANGED flushLoops
                 ELSE NoTurn /\ flushLoops' = flushLoops - 1
    /\ UNCHANGED <<flushDue, isServerBusy, worldSocket, over, leaving, isClosing>>

\* processBufferedRequests is called: its first turn runs at once.
Flush ==
    /\ flushDue
    /\ flushDue' = FALSE
    /\ IF GoesOn THEN FlushOne /\ flushLoops' = flushLoops + 1
                 ELSE NoTurn /\ UNCHANGED flushLoops
    /\ UNCHANGED <<isServerBusy, worldSocket, over, leaving, isClosing>>

\* ModelStatusChanged, or a busy rejection without an id, on the world socket.
StatusPush(busy) ==
    /\ worldSocket /\ busy # isServerBusy
    /\ busy \/ (RoomForLoop /\ RoomForId)
    /\ isServerBusy' = busy
    /\ flushDue' = ~busy
    /\ UNCHANGED <<callVars, tableVars, requestBuffer, pollVars, attemptVars, flushLoops,
                   worldSocket, over, leaving, isClosing>>

\* The poll passes the busy gate.
PollTick ==
    /\ polling /\ place[Poll] = "none"
    /\ phase # "reconnecting" /\ ~isClosing
    /\ Execute(Poll, requestBuffer)
    /\ UNCHANGED sessionVars

----------------------------------------------------------------------------
(* Sockets, attempts, and the requests that enter and leave a world *)

\* A carrier's questions are lost with it.  The close of the world socket, and the last
\* close in the pool whether or not the world socket is open, start an attempt, unless one
\* is shared, refused by the backoff or given up.
Lost(carrier) ==
    \/ /\ phase = "connected" /\ ~isClosing
       /\ \E b \in Body : StartAttempt(b, {}, requestBuffer, {carrier})
    \/ /\ wire' = {q \in wire : q.on # carrier}
       /\ forgotten' = forgotten \cap wire'
       /\ UNCHANGED <<callVars, pendingRequests, timers, requestIdCounter, requestBuffer, pollVars,
                      attemptVars>>

SocketCloses ==
    /\ worldSocket
    /\ worldSocket' = FALSE
    /\ Lost("world")
    /\ UNCHANGED <<flushLoops, flushDue, isServerBusy, over, leaving, isClosing>>

PoolEmpties ==
    /\ UsePool /\ ~isClosing
    /\ Lost("pool")
    /\ UNCHANGED sessionVars

\* createSocket: the world socket is stored when it connects, for a login or an attempt; that
\* of a login also after the end of the session.
SocketOpens ==
    /\ ~worldSocket
    /\ running # {} \/ (phase = "away" /\ ~leaving)
    /\ worldSocket' = TRUE
    /\ UNCHANGED <<callVars, tableVars, requestBuffer, pollVars, attemptVars, flushLoops, flushDue,
                   isServerBusy, over, leaving, isClosing>>

Joined(b) == {who \in Caller : place[who] = b}

\* Bound of the model: an id for each who waits for b, and one for the flush.
RoomToResume(b) == Cardinality({i \in Id : Free(i)}) > Cardinality(Joined(b))

\* The re-login succeeds: the poll starts, the buffer is flushed.
AttemptSucceeds(b) ==
    /\ b \in running
    /\ RoomForLoop /\ RoomToResume(b)
    /\ over' = over \cup {b}
    /\ phase' = "connected" /\ polling' = TRUE /\ flushDue' = TRUE
    /\ UNCHANGED <<callVars, tableVars, requestBuffer, pollFailures, running, worldReconnecting,
                   flushLoops, isServerBusy, worldSocket, leaving, isClosing>>

\* Its `finally`, after the first turn of the flush, and the end of its promise.
AttemptEnds(b) ==
    /\ b \in over /\ ~flushDue
    /\ over' = over \ {b} /\ running' = running \ {b} /\ worldReconnecting' = Null
    /\ place' = [who \in Caller |-> IF place[who] = b THEN "resumed" ELSE place[who]]
    /\ UNCHANGED <<status, sends, tableVars, requestBuffer, pollVars, phase, flushLoops, flushDue,
                   isServerBusy, worldSocket, leaving, isClosing>>

\* The world socket there is is destroyed, and those who wait for the attempt fail with it.
AttemptFails(b) ==
    /\ b \in running
    /\ running' = running \ {b} /\ worldReconnecting' = Null
    /\ worldSocket' = FALSE
    /\ wire' = {q \in wire : q.on # "world"} /\ forgotten' = forgotten \cap wire'
    /\ Reject(Joined(b))
    /\ UNCHANGED <<sends, pendingRequests, timers, requestIdCounter, requestBuffer, phase,
                   flushLoops, flushDue, isServerBusy, over, leaving, isClosing>>

\* REQ_CONNECT_DIRECTORY, or a login, which may come without a cleanup before it.
LeaveWorld ==
    /\ InWorld /\ ~leaving /\ ~isClosing
    /\ phase' = "away"
    /\ UNCHANGED <<callVars, tableVars, requestBuffer, pollVars, running, worldReconnecting, sessionVars>>

\* The login to a world is complete.
LoginEnds ==
    /\ phase = "away" /\ worldSocket /\ ~leaving /\ ~isClosing
    /\ phase' = "connected" /\ polling' = TRUE
    /\ UNCHANGED <<callVars, tableVars, requestBuffer, pollFailures, running, worldReconnecting, sessionVars>>

\* cleanupWorldSession up to its Logoff: the attempt under way is forgotten, not stopped.
BeginCleanup ==
    /\ ~leaving /\ ~isClosing
    /\ leaving' = TRUE /\ phase' = "away" /\ worldReconnecting' = Null
    /\ UNCHANGED <<callVars, tableVars, requestBuffer, pollVars, running, flushLoops, flushDue,
                   isServerBusy, worldSocket, over, isClosing>>

\* Every socket is closed and nothing is kept.
Emptied ==
    /\ DrainTable
    /\ wire' = {} /\ forgotten' = {}
    /\ Settle(InTable \cup ElementsOf(requestBuffer), "rejected")
    /\ requestBuffer' = <<>>
    /\ PollStopped
    /\ isServerBusy' = FALSE
    /\ worldSocket' = FALSE /\ phase' = "away"
    /\ UNCHANGED <<sends, flushLoops, flushDue, running, over>>

\* The rest of cleanupWorldSession, whatever the session has become meanwhile.
EndCleanup ==
    /\ leaving
    /\ leaving' = FALSE
    /\ Emptied
    /\ UNCHANGED <<worldReconnecting, isClosing>>

Destroy ==
    /\ ~isClosing
    /\ isClosing' = TRUE /\ worldReconnecting' = Null
    /\ Emptied
    /\ UNCHANGED leaving

----------------------------------------------------------------------------

Continuation ==
    \/ Flush
    \/ \E b \in Body : AttemptEnds(b)
    \/ \E who \in Caller : Resume(who)

RequestEvent ==
    \/ \E r \in Req : Call(r) \/ BufferExpires(r) \/ PoolAnswers(r) \/ PoolAnswersAgain(r)
    \/ \E who \in Caller : Retry(who)
    \/ \E q \in wire, kind \in {"ok", "recoverable", "fatal"} : Answer(q, kind)
    \/ \E t \in timers : Timeout(t[1], t[2])
    \/ \E i \in Id : Sweep(i)
    \/ \E busy \in BOOLEAN : StatusPush(busy)
    \/ FlushLoop \/ PollTick

LinkEvent ==
    \/ SocketCloses \/ SocketOpens \/ PoolEmpties
    \/ \E b \in Body : AttemptSucceeds(b) \/ AttemptFails(b)
    \/ LeaveWorld \/ LoginEnds \/ BeginCleanup \/ EndCleanup \/ Destroy

\* A continuation that is due runs before any event.
NoContinuation ==
    /\ ~flushDue /\ over = {}
    /\ \A who \in Caller : place[who] # "resumed"

Next == Continuation \/ (NoContinuation /\ (RequestEvent \/ LinkEvent))

Spec == Init /\ [][Next]_vars

----------------------------------------------------------------------------
(* Properties *)

TypeOK ==
    /\ status \in [Req -> {"unsent", "waiting", "resolved", "rejected"}]
    /\ place \in [Caller -> Places]
    /\ sends \in [Req -> Nat]
    /\ pendingRequests \in [Id -> Entry \cup {Null}]
    /\ timers \subseteq Id \X Caller
    /\ requestIdCounter \in Id
    /\ wire \subseteq Question /\ forgotten \subseteq wire
    /\ requestBuffer \in Seq(Req)
    /\ flushLoops \in Nat /\ flushDue \in BOOLEAN
    /\ isServerBusy \in BOOLEAN /\ polling \in BOOLEAN /\ pollFailures \in Nat
    /\ phase \in {"away", "connected", "reconnecting"} /\ worldSocket \in BOOLEAN
    /\ over \subseteq running /\ running \subseteq Body
    /\ worldReconnecting \in Body \cup {Null}
    /\ leaving \in BOOLEAN /\ isClosing \in BOOLEAN

IsPending(i, who) == pendingRequests[i] = [call |-> who, state |-> "pending"]

\* A caller that waits for its answer has its own entry in the table and an armed deadline,
\* whatever ids have been reused, drained or swept meanwhile; so does the poll.
\* (spo_session.ts:1966: a second request under a live id would never settle.)
InFlightIsTracked ==
    \A who \in Caller : place[who] = "wire" =>
        \E i \in Id : IsPending(i, who) /\ <<i, who>> \in timers

\* A waiting call is in the buffer exactly when its place says so, and only once: the loops,
\* the buffer's deadlines and the drains agree on who has it.
BufferIsAccounted ==
    /\ \A r \in Req : place[r] = "buffer" <=> r \in ElementsOf(requestBuffer)
    /\ \A j, k \in DOMAIN requestBuffer : requestBuffer[j] = requestBuffer[k] => j = k
    /\ \A r \in Req : status[r] = "waiting" <=> place[r] # "none"

\* A mutation is written at most once, over retries, buffers, flush loops and lost worlds
\* (spo_session.ts:2376: the server has no idempotency); a read at most MaxRetries times more.
MutationsSentOnce ==
    \A r \in Req : sends[r] <= (IF r \in Reads THEN MaxRetries + 1 ELSE 1)

\* A call is resolved by its own answer, or by one the table had given up (swept or drained)
\* before its id was given again; an answer that is still expected never settles another call.
AnswersAreOwn ==
    [][\A r \in Req, q \in wire \ wire' :
          status[r] = "waiting" /\ status'[r] = "resolved" => q.call = r \/ q \in forgotten]_vars

\* Where a call may stay between two looks at the session, neither of which is at the busy
\* flag or at isClosing.
BetweenLooks == {"pool", "poolAgain", "resumed", "backoff"}

\* While the server is busy nothing new is written: a frame that goes out belongs to the poll,
\* to a retry, or to a call that passed the gate before and waited for a pool connection or
\* for the world's reconnect.
BusyHoldsNewCalls ==
    [][\A r \in Req : isServerBusy /\ isServerBusy' /\ sends'[r] > sends[r]
          => sends[r] > 0 \/ place[r] \in BetweenLooks]_vars

\* After destroy() nothing begins: no call, no poll, no turn of a flush.  What is still
\* written, to a socket that came too late, belongs to a caller that was between two looks.
NothingBeginsAfterDestroy ==
    [][isClosing => \A who \in Caller :
          /\ place[who] = "none" => place'[who] = "none"
          /\ place'[who] = "wire" => place[who] \in BetweenLooks \cup {"wire"}]_vars

\* Every call settles, also those buffered while the poll has given up (O-M3), if every
\* attempt to reconnect ends (one may not: WorldLink) and an id comes free (65536 of them).
EveryCallSettles ==
    /\ \A b \in Body : []<>(b \notin running)
    /\ []<>RoomForId
    => \A r \in Req : status[r] = "waiting" ~> status[r] \in {"resolved", "rejected"}

\* A timer of the process goes off for the call: its deadline in the buffer or in the table,
\* the delay of its retry, or the end of the wait for a pool connection (which has a connect
\* timeout).
TimerOf(r) ==
    BufferExpires(r) \/ DeadlineOf(r) \/ Retry(r) \/ PoolAnswers(r) \/ PoolAnswersAgain(r)

\* Timers go off, and continuations run.
FairSpec ==
    /\ Spec
    /\ \A r \in Req : SF_vars(NoContinuation /\ TimerOf(r))
    /\ WF_vars(Continuation)

=============================================================================
