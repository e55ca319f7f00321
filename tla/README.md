# SPO-WebClient in TLA+

A verification development of SPO-WebClient: of its gateway (`src/src/server`), the Node process
between the browsers, which speak JSON over a WebSocket, and the game's Delphi servers, which
speak RDO over TCP; and, in the browser (`src/src/client`), of the connection and of the building
panel. It models the parts whose correctness depends on the order of events, checks them with TLC
on small instances, and proves the most important facts for every value of the constants with TLAPS.

All paths below are relative to the repository; `server.ts` without a directory is
`src/server/server.ts` and likewise for the other files of `src/server`.

## The system

Node runs one callback at a time, so nothing is torn inside a callback; everything hard happens
at an `await`, in the order in which events are delivered, and in what is still true when a
continuation runs.

| Component | State it keeps | Operations | Correct when |
|---|---|---|---|
| Connection closure, `server.ts` 910-1513 | per WebSocket: the RDO lane (a promise chain), `processedCount`, `logoutRequested`, the `handle` it works on; per IP: `wsConnectionsPerIp` | accept, message, close, resume, eviction at login | one tab per session; slots are given back exactly once; a late event of a superseded socket does nothing |
| Parking, `session-park.ts` | `SessionBinding.current`; one `ResumeEntry` per session (key, token hash, park timer and address) | `issueToken`, `park`, `claim`, `end`, expiry | a token works once; a parked session is alive, reachable and will end |
| Cap, `session-cap.ts` | the set of admitted sessions | `tryAdmit`, `release` | never more sessions than the limit, the evicted ones discounted |
| Shutdown, `gateway-shutdown.ts` | the tracked WebSockets with their teardowns, `draining` | `track`, `untrack`, `drain`, the sequence | every session is logged off, wherever it moved |
| Game session, `spo_session.ts`, `session/login-handler.ts` | phase, sockets by name, `worldContextId`, pending requests by id, the ServerBusy buffer, reconnect state, timers | connect, login, company, requests, reconnect, cleanup, destroy | no request is lost or answered twice; no session works on a stale view |
| Connection pool, `session/rdo-connection-pool.ts` | connections with their active requests | get, release, replace, drain, close | balanced slots, one replacement at a time, every waiting call is woken |
| Framer, `rdo.ts` | the unfinished tail of a stream | ingest | frames do not depend on how TCP cuts the stream |
| Push watchdog, `session/push-liveness.ts` | armed-at, last push, re-send counters | arm, onPush, check | bounded re-sends |
| Guards, `ws-message-guard.ts`, `rate-limit.ts`, `ws-hygiene.ts` | token bucket, queue counter, per-IP windows, pong flags | take, enqueue, settle, tick | the queue is bounded; a dead socket is terminated |
| Service registry, `service-registry.ts` | status of each service | initialize by levels, shutdown, the signal handlers | dependencies first; no logoff is cut short |
| Browser connection, `src/client/client.ts` | status, attempt counter, resume token | reconnect, resume, login replay, logout | never on the spinner with nothing under way; the token outlives a dropped socket |
| Building panel, `src/client/store/building-store.ts`, `src/client/handlers/building-action-handler.ts` | the details shown, loading states of sections and gates, open gates, pending writes | show, refresh, read a section or a gate, write, re-read | what it waits for is on its way; what it holds as read is there |

How they interact: the connection closure calls the registry, the cap and the drain directly and
awaits the session; the session calls back through `binding.send` and `onDestroyed`; the registry's
timer calls `endParkedSession`; the drain calls the memoised teardowns. The shared state is the
session (two connections can hold it during a takeover), the registry's entry and the per-IP count.

The hard behaviours are listed in `PROJECT.json` under `hazards`, each at its line, with the
properties that watch it.

## What is modelled

| Module | Models | Composed with |
|---|---|---|
| `SessionPark` | the WebSocket's closure, parking, cap, drain, the coarse life of a session | refines `SessionLease`; in `MCSessions` |
| `RdoRequests` | the request layer of a session: table, buffer, busy poll, retries, sweep | |
| `ConnectionPool` | the world connection pool with the session that owns it | in `MCParts` |
| `WorldLink` | the world socket of a session, its reconnect attempts, login to logout | in `MCSessions` |
| `ClientReconnect` | a browser tab whose socket drops, against the gateway's resume | in `MCParts` |
| `GatewayLifecycle` | start-up by levels, signals, exceptions, the shutdown sequence, the exit | in `MCParts` |
| `RdoFramer` | the framing of a TCP stream | in `MCParts` |
| `BuildingPanel` | the browser's building panel: its store, its reads and writes, late answers | in `MCParts` |

Each module is cut where the code is: what one callback does up to its next `await` is one action,
and what it read before the `await` is a variable of its own. The session appears in three modules
at three depths: a phase and a view in `SessionPark`, the sockets and the steps of a login in
`WorldLink`, the single request in `RdoRequests`. `MCParts` puts five modules that share no state
into one instance, and `MCSessions` the world link and the parking core; in each behaviour one of them moves.

### SessionPark

The connection closure, parking, the cap, the drain, and the coarse life of a session, in one
module: their state is one web of references, and every property below relates two of them.

| In the model | In the code |
|---|---|
| `sock[c]` | the WebSocket's ready state; `dead` is a closing socket that delivers no frame any more (`terminate()`, or `guardClosed`) |
| `rdoQueue[c]`, `running[c]` | the promise chain `rdoQueue`: what waits, and the await at which the current handler is suspended |
| `handle[c]` | the session the closure works on; `resumeSession` moves it |
| `life[s]` | `live`; `ending` once the memoised teardown started; `destroyed` after `destroy()` |
| `phase[s]`, `view[s]`, `loginUser[s]` | `SessionPhase`, the ClientView the session holds (`worldContextId`), `loginCredentials` |
| `binding[s]` | `SessionBinding.current` |
| `entries[s]` | the session's `ResumeEntry`; `ip` is set while it is parked, and the park timer runs exactly then |
| `wsConnectionsPerIp`, `connections`, `admitted`, `draining` | the variables of those names |
| `nextToken`, `delivered`, `claimed` | how many tokens were made, which a tab received, which a resume consumed |

A session is named by the connection it was created for. An action is what the code does from one
`await` to the next: `LoginEvict` is admission and the start of all the evictions, because no await
lies between them; `ResumeSession` is all of `resumeSession`, which has none. A continuation that
is ready (a microtask) runs before the next event of a socket or a timer: `Next` gives `Microtask`
priority through `Settled`. The await of the evictions resumes through this priority; the awaits
that end with an answer of a game server are actions of `Reply` and `LoginStep`, at any later time.

Left out, and why it does not matter to the properties:

- The camera fast lane of `REQ_UPDATE_CAMERA`: it counts as a processed message, which only makes a later
  resume refused, and a resume can be refused at any time by its rate limit (`Refuse`).
- Rate limits and the message guard are nondeterministic refusals and closures; the queue bound is
  kept (`MaxQueued`).
- `SWITCH_COMPANY` logs on with a role account in the code; the model keeps one name per session.
- `endSession` sends one Logoff only (`loggedOff`); a second one would only repeat `view = Null`.
- `WorldLost` keeps the view (the gateway's `worldContextId`), `WorldBack` succeeds or never happens:
  the reconnect itself is in `WorldLink`.
- The replay of the events missed while parked, `SINGLE_USER_MODE`, a handshake that fails after
  `verifyClient` took its slot, and the wording of every answer.
- `destroy()` is one action. It removes the session's listeners and its place in the cap in one run.
- After `draining` the process is on its way out: the properties about slots and resumes say so.
- Tokens are numbers from a counter, for 32 random bytes: what matters is that they differ.

Bounds of the model: `MaxToken` (no company request and no resume with a token in force is sent
once all tokens are spoken for; `IssuesToken`, `TokensToCome`), and `RequestTypes`, the requests an instance's tabs send.

### SessionLease

What the component above promises, in eighty lines: a session is opened for a holder, loses it,
gets a new key, has its key burned, passes to a holder who presents its current key, and is over
for ever. `SessionPark` implements it (`LeaseSpec`): the holder is the WebSocket a live session is
bound to, the key the token of its entry, and a session is over when its teardown begins.

### RdoRequests

One `sendRdoRequest` of a handler is a call; its promise, the place where it waits and the frames
written for it are followed from the first attempt to the last.

| In the model | In the code (`spo_session.ts`) |
|---|---|
| `status`, `place`, `sends` | the call's promise; the `await` where it is: the buffer, a pool connection (`pool`, and `poolAgain` after a reconnect), an attempt to reconnect (its body), the run after it (`resumed`), the wire, the back-off; the frames written |
| `pendingRequests`, `timers`, `requestIdCounter` | the table by id, the deadlines (each a closure over its id and its call), the counter modulo `IdSpace` |
| `requestBuffer`, `flushLoops`, `flushDue` | the buffer of 20 with its own deadlines, the loops asleep in their 50 ms, a flush that is about to start |
| `isServerBusy`, `polling`, `pollFailures` | the busy flag, the poll's interval and its failures in a row; the poll is a caller too, and `place[Poll]` is `isPolling` |
| `phase`, `worldSocket`, `leaving`, `isClosing` | whether the session is in a world or reconnecting; `sockets.has('world')`; a cleanup that waits for its Logoff; `destroy()` |
| `running`, `over`, `worldReconnecting` | the attempts under way, those that have succeeded and whose promise is about to resolve, and the one that is shared |
| `wire`, `forgotten` | questions that may still be answered; those whose entry is gone |

`Execute` is `executeRdoRequest`: a request for the world with a pool waits for a connection of it; one
that finds no socket in `WORLD_CONNECTED` or `RECONNECTING` joins the attempt that is shared or starts one
(`StartAttempt`, all that `attemptWorldReconnect` does before its first `await`), and looks for a connection once
more when it is over. None of these waits is followed by a second look at `isServerBusy` or `isClosing`, and
writing on a socket never looks at `isClosing`: `createSocket` may store one after `destroy()`
(`SocketOpens`). What an attempt does inside is `WorldLink`'s; here it succeeds, fails, is refused by
its backoff or is given up, each at any time, and it may also never end.

An answer may come at any time and in any order, or never. Time is abstract: an armed deadline may pass
at any moment. The 50 ms, the exponential back-off and the ages of the sweep are left out. Bounds of the model: the
loops asleep at once (`MaxFlushLoops`), the attempts at once (`Body`), and an id for everybody who resumes
(`RoomForId`, `RoomToResume`).

### ConnectionPool

`getConnection` is cut at its two awaits, `replaceConnection` at its one; what awaits the making of
a connection, and what it had chosen before, is `job[c]`. The session's side is in the module too:
who acquires a slot, which pool it captured to give it back, and what a world reconnect, a lost
primary socket, a health check and the end of the session do meanwhile. Pools, connections and calls
are recycled when nothing refers to them.

### WorldLink

Every asynchronous function of the session is a process: the bodies of `attemptWorldReconnect`, the
lane that serves the browser's requests one at a time, the closer. `proc[p]` says what it runs, at
which step it is and what it waits for (a dial, an answer, a retry delay, the promise of an attempt,
`InitClient`, a cap). `SocketLost` and `CloseEvent` are two events; `Quiet` gives continuations
priority. `RegisterEventsById` is a request as any other: without a socket it starts or joins an attempt
(`RegisterReconnects`), and the `InitClient` it waits for may then come on a later socket
(`Registered`). One query stands for the reads of a login, one cookie request for `PickEvent` and the
cookies; the world pool is off, which is the default.

### ClientReconnect

A tab in the game whose socket drops, with the sockets its attempts open and what the gateway
answers on each. The handlers of an attempt are closures over their own socket, while a request goes
out on whatever socket `this.ws` is; that is why an action has a parameter `s` and still reads `ws`.

| In the model | In the code |
|---|---|
| `status`, `page`, `ws`, `isConnected`, `timer`, `attempt` | the store's status; `isLoggingOut` and the reload; `this.ws`, `this.isConnected`, `reconnectTimer`, `reconnectAttempt` |
| `held`, `canReplay` | the token in `sessionStorage`; the password, world and company still in memory |
| `pending` | `pendingRequests`: whose closure waits for what |
| `up[s]`, `down[s]`, `srv[s]` | frames under way; whether the gateway has seen a message on the socket |
| `holder`, `valid` | the socket the gateway has the session on, the token it honours |

The gateway here is what `SessionPark` lets it be, reduced to one session: a claim on the first
message, a rotation, the end of a park, a restart. The replay of the login stands for the login and the
selection of the company. Not modelled: the first sign-in, the resume at start-up, the close codes
1012 and 1013 (a banner; and on an attempt's fresh socket the phase table answers before the cap does).

### GatewayLifecycle

The process from `main` to its exit: the port is open before the services are ready, the signal
handlers come last. Any dependency graph over the services is an initial state, cyclic ones and
unknown names included. Players log in until the drain starts; a logoff ends on its own or by its
deadline (`LoggedOff`), and what a drain does in a session is `SessionPark`'s. The deadline is a
timer that may fire at any time after it is armed.

### RdoFramer

`ingest` over a stream of pieces (`A`, `error `, a digit, a quote, a semicolon), cut into chunks at any
place. `Cut` is the loop of `ingest` as a recursive function; the reference definition is the same loop
over everything at once. Trimming and the text encoding are left out.

### BuildingPanel

What the panel holds of the building it shows, while reads and writes for it, and for the ones shown
before, are in flight. One section with one gate stands for all, one control for all; `calls[k][b]` counts
the calls of a kind for a building, and each answer is a step at any time, or an error.

| In the model | In the code |
|---|---|
| `details`, `gates` | `details` of the store, and in it the gate list (`supplies`): not read, without the gate, its header, its rows |
| `tabState`, `gateState`, `expanded`, `pendingUpdate` | `tabLoadingStates`, `gateLoadingStates`, `expandedGates`, `pendingUpdates` |
| `changing` | a change whose debounce runs (`PropertyInputs.tsx:53-55`, `:109-111`) or whose prompt is open, for the building its handler captured |
| `"refresh"`, `"reread"`, `"connect"`, `"tab"`, `"gate"`, `"write"` | `refreshBuildingDetails`; the readings of the properties; `refreshAfterConnectionChange`; `requestTabData`; `requestGateConnections`; `setBuildingProperty` |

`Change` is the player at a control of the building shown; `Write` is the call it leads to, at any time after,
whatever the panel shows by then, and joins the write in flight for that building (the dedup).
Which building is focused is the choice of `Show` and `Clear`: the focus and overlay handlers, with
their generations and their retry, are not modelled. The dedup of reads and the generation of the event's
reading only take answers away, so that the model has more behaviours than the code.

### External code

The game servers, the network, the browser's WebSocket and timers appear as choices inside the
actions: an answer or none, a close at any time, a timer that fires. No module stands for a
library.

## Runs

Deadlock is not checked where a system may stop: every tab closed for good, the process gone, the
session destroyed, the stream at its bound.

| Run | Question | Instance |
|---|---|---|
| `park_queue` | tokens, slots, caps, drain, eviction and the lease, with a request queued behind the running one | 2 tabs, 1 user, queue 2, 2 tokens |
| `park_live` | the shutdown ends, a park ends | 2 tabs, fairness |
| `rdo_calls` | the table, the buffer, the busy poll, answers to reused ids, a world lost and joined again | a mutation of the world and a call to the map service, 2 ids shared with the poll, a buffer of 1, 1 attempt, 2 flush loops, no pool |
| `rdo_waits` | what a call does that waited for a pool connection, a reconnect or its retry, and that every call settles | a read of the world, the pool, 1 retry, 2 ids shared with the poll, 2 poll failures, 1 attempt, fairness |
| `pool_all` | loads, replacements, dropped pools | 2 calls, 3 connections, 2 pools |
| `sessions` | attempts shared, joiners heard, the watchdog armed; types of the parking core with every kind of request, logouts included | 2 bodies, 2 sockets, 2 attempts, a company switch; 2 tabs, one slot, all requests, no queue |
| `parts` | the tab's reconnect, the building panel, the process's life, framing, and that a call waiting for the pool settles | 2 sockets, 3 tokens, 2 attempts; 2 buildings, 2 kinds of call in flight, 2 alike; 3 services, 3 signals, 2 exceptions; 6 pieces; 1 call, 3 connections |
| `park_orphan` | violated: `DetachedHasTimer` | 1 tab, queue 2 |
| `park_switch` | violated: `LoginLeavesTheWorld` | 1 tab |
| `link_revive` | violated: `InWorldKnowsIt` | 1 body, 2 sockets |
| `link_waits` | violated: `AttemptEnds` (under fairness) | 1 body, 2 sockets |
| `client_stuck` | violated: `ReconnectingIsTrying` | as in `parts` |

Why the bounds are enough. A takeover needs two connections, and one user is the interesting case:
sessions of different users meet only in the caps, which count sessions. Two tokens are one
rotation, which is what single use is about; one queued message is the least that can outlive its
connection. Two ids, with a poll, two calls and late answers, make the id space run out and
wrap, so that an id is given again while an answer to its former owner is under way; a buffer of one is full with the first call, and two
flush loops are what two calls can meet. A single read, with the
pool and one attempt, meets every wait there is; two attempts at once are `WorldLink`'s, and the proofs
have no bound. Three connections are a pool at its
size of two with a replacement under way, and two pools are a dropped one and its successor. Two
attempts is the least that reaches the give-up; two bodies the least that can overlap. Two browser
sockets are the one that is dying and its successor (a third would be a second superseded attempt, which
acts as the first does); two buildings are the one shown and the one before, two kinds of call, two at a time,
a section read again and a gate of it (the proofs need no bound); three tokens are one held, one in
force and one under way. Six pieces hold a quoted semicolon and a busy answer with its neighbours, and the buffer of five overflows before the end.

Symmetry is used where only invariants and `[][A]_vars` are checked over interchangeable values.
`pool_all` uses a view that forgets what an unreferenced connection remembers.

### What the properties say

- `OneTabPerSession`, `TakeoverSpendsToken`, `TokensSingleUse`, `NoResumeOfTheDead`: who may talk to
  which session. A live session changes hands only against its token in force, which is spent.
- `IpSlotsAccounted`, `LimitsHold`, `ParkedIsIntact`, `TeardownHasACause`, `EvictedAreGone`,
  `DrainCovers`: counters, parks, evictions and the drain over closes, takeovers and expiries.
- `InFlightIsTracked`, `BufferIsAccounted`, `AnswersAreOwn`: the table, the buffer and the calls agree,
  whatever ids are reused, drained or swept; no call is resolved by an answer another one still expects.
- `MutationsSentOnce`, `BusyHoldsNewCalls`, `NothingBeginsAfterDestroy`: a mutation is written once at most;
  nothing new goes out while the server is busy, and nothing begins after `destroy()`, except
  what had passed the gate before and waited for a pool connection, a reconnect or its retry.
- `SlotsBalanced`, `ReplacedOnce`, `WaitersAreServed`, `OnlyCrossersHaunt`: the pool goes by true
  loads; only a call that waited while its pool was dropped leaves on a connection of that pool.
- `AttemptsAreShared`, `JoinersAreHeard`, `ConnectedIsWatched`: one attempt at a time, nobody waits for
  one that is over, and every way into the world arms the push watchdog.
- `TokenOnlyKeepsTrying`, `DropsKeepTheToken`, `UnreachableGivesUp`: the tab's spinner is truthful for
  a tab without a password; a dropped socket does not cost the token; a gateway that is gone ends in
  the give-up.
- `DependenciesFirst`, `EndsCleanly`: no service starts before what it reads; only the deadline or a
  second signal ends the process with a player still logged on.
- `ChunkingIsInvisible`, `OverflowKeepsFrames`: framing does not see the chunks; an overflow drops only
  the unterminated tail.
- `WaitsAreBacked`, `GateMemoIsTrue`: a section or a gate marked as loading has its read in flight for the
  building shown, over changes of building and late answers; a control marked as saving has a write in flight, to
  some building, that will clear the mark; no gate is taken for read without its rows.
- Liveness: `ShutdownEnds`, `ParkEnds`, `EveryCallSettles`, `CallsSettle`, `ReplacementEnds`,
  `UnreachableGivesUp`. `EveryCallSettles` is conditional: a call that waits for an attempt has no deadline of its
  own, so it says that calls settle if every attempt ends and ids come free. That attempts end is false (the
  fourth finding).

Every property of a passing run has a mutant in `PROJECT.json`: a plausible slip in the code that
violates it.

### Fairness

- `SessionPark`: a ready continuation runs; a request to a game server is answered or times out (each
  has a deadline); a closing handshake ends; a park timer fires; `endSession()` settles (5 s). Strong,
  because an event waits for `Settled`, which other connections switch on and off. `park_live` has no
  queue behind the running request: with one, `ParkEnds` is false, by the first finding.
- `RdoRequests` (`rdo_waits`): continuations run, and the timers of each call go off: its deadlines in the buffer
  and in the table, the delay of its retry, the connect timeout of the pool connection it waits for. Strong, because
  a timer waits for the continuations (`NoContinuation`). Nothing is assumed of
  answers, of the poll, of the flush loops, of the sweep, or of attempts.
- `ConnectionPool`: a connection is made or fails (connect timeout); a request is answered or times out.
- `WorldLink`: continuations run, and every wait but a join ends; that a join ends is the question.
- `ClientReconnect`: a timer fires, and a socket that cannot open closes. Nothing is assumed of the
  gateway or the player.

Nothing is assumed of what a tab, an operator or a game server does.

## Findings

1. **A login queued behind a close leaves a session nobody ends** (`park_orphan`). `processMessage`
   ends the resume entry on `REQ_LOGIN_WORLD` (server.ts:1159-1164) without asking whether the
   session has been parked meanwhile; if that login is refused, the session runs on without a tab or a
   timer, and keeps its slots. `doc/architecture-overview.md:159` and `:163` give a park a duration.
2. **A server switch does not leave the former world** (`park_switch`). The client sends
   `REQ_CONNECT_DIRECTORY` first, which sets the phase to `DIRECTORY_CONNECTED`;
   `isWorldConnected()` is then false when the login asks it, and `cleanupWorldSession` is skipped.
3. **A cleanup does not stop the attempt under way** (`link_revive`). `cleanupWorldSession` forgets
   the promise of `attemptWorldReconnect`, whose body goes on, logs into the world that was left and
   sets `WORLD_CONNECTED` with no current world.
4. **An attempt can wait for itself** (`link_waits`). When the attempt's own socket closes between two
   of its requests, the next request finds no socket, calls `attemptWorldReconnect` and awaits the
   promise it is part of; everybody who joins it waits too.
5. **A refused resume strands a tab that has its password** (`client_stuck`). The login replay goes
   out on the fresh socket, whose phase `DISCONNECTED` admits only the directory, the auth check and
   a resume (server.ts:118-123); `login` and `selectCompanyAndStart` swallow their errors, so the
   replay's `.catch` (client.ts:1449), which would schedule an attempt, never runs. The tab shows
   "reconnecting" with nothing under way until the player acts or the socket closes.
   `doc/architecture-overview.md:193` says the replay runs there.

Seen in the models, with no run of their own:

- *Parking.* A company request that ends after its WebSocket closed registers an entry for a dying
  session (server.ts:1207), which nothing removes. A session may park between the eviction's look
  and AccountStatus. The queue runs on against a parked session. A refused login has already
  renamed the credentials. A login to an unknown world gives back the place in the cap while the
  session may hold the view of the world it came from.
- *Requests.* A call that waits for a reconnect, a pool connection or its retry is written after it though the
  server has become busy, and, on a pool connection or on a socket stored late, though the session was destroyed
  (spo_session.ts:2423-2441 reads neither flag again); such a write arms a deadline in a destroyed session.
  The wait for an attempt has no deadline. The last close in the pool starts an attempt, and rejects
  everything in flight, while the primary socket is up (:1761-1765; the comment says "and primary socket
  too"). Two flush loops may run at once, and new calls overtake buffered ones.
- *Pool.* Concurrent calls, and replacements of connections that have left, grow it past `maxSize`. A
  connection being made while the pool is drained joins the drained array and is closed by nobody.
- *World link.* `destroy()` while `switchCompany` dials leaves a connected socket. A request after a
  logout whose socket is gone starts an attempt. After a failed attempt only a request starts another. The
  throttle error leaves `WORLD_CONNECTED` without a socket; a failing `switchCompany` leaves
  `WORLD_CONNECTING`. `createSocket` overwrites `sockets.get('world')`.
- *Browser.* Coming back to the tab while an attempt's socket connects starts a second attempt
  (`visibilitychange` and `resume` may both fire). The second resume takes the session from the first
  socket, which the gateway terminates; that socket's `onclose` does not ask whether it is still
  `this.ws` and starts over. A second resume with the spent token deletes the new good one.
- *Building panel*, read while modelling; the model allows all but the last, and leaves the focus
  handlers out. A reading answered while the panel has no details paints the building before
  (client-bridge.ts:663). A read that fails late marks the section or the gate of the building shown now
  (building-action-handler.ts:248, :317), and a write that starts late (a debounce or a prompt of the building
  before) or ends late marks and clears the control of the building shown now: neither asks for the building, so that the
  end of one building's write may clear the mark of another's. A tab-scoped reading carries the gate list over and forgets which gates were read. A
  second value written while the first is in flight is dropped (the dedup key omits it, :412). A
  focus request that fails in `focusBuilding` leaves `isLoading` set.
- *Framer.* A busy answer that ends at no boundary is lost when an overflow follows it, and
  `lastIndexOf(';')` may take a quoted semicolon for a boundary, which leaves part of a frame.
- *Process.* Services stop in registration order, dependencies before their dependents (all priorities
  are equal). A signal before start-up ends kills the process, though the port is already open.

## Proofs

| Theorem (module) | Establishes, for every value of the constants |
|---|---|
| `TypeCorrect` (`SessionParkProofs`) | `Spec => []TypeOK`; no per-IP count leaves its range |
| `SingleUse` | `Spec => []TokensSingleUse` |
| `OneTab` | `Spec => []OneTabPerSession` |
| `TakeoverNeedsToken` | `Spec => TakeoverSpendsToken` |
| `TeardownCause` | `Spec => TeardownHasACause` |
| `RequestTypes` (`RdoRequestsProofs`) | `Spec => []TypeOK`; an id handed out is one of the id space |
| `RequestsTracked` | `Spec => []InFlightIsTracked` |
| `BufferAccounted` | `Spec => []BufferIsAccounted` |
| `MutationsOnce` | `Spec => []MutationsSentOnce` |
| `OwnAnswersOnly` | `Spec => AnswersAreOwn` |
| `BusyHoldsCalls` | `Spec => BusyHoldsNewCalls` |
| `NothingBeginsAgain` | `Spec => NothingBeginsAfterDestroy` |
| `ParkedIntact`, `EverySessionTracked`, `DeadNotResumed` (`SessionLeaseProofs`) | `Spec => []` of `ParkedIsIntact`, `DrainCovers`, `NoResumeOfTheDead` |
| `EvictedGone`, `WithinLimits`, `SlotsAccounted` | `Spec => []` of `EvictedAreGone`, `LimitsHold`, `IpSlotsAccounted` |
| `ImplementsLease` | `Spec => LeaseSpec`: the gateway implements `SessionLease` |
| `PoolTypes`, `PoolSlotsBalanced`, `PoolOnlyCrossersHaunt` (`ConnectionPoolProofs`) | `Spec => []` of `TypeOK`, `SlotsBalanced`, `OnlyCrossersHaunt` |
| `PoolReplacedOnce`, `PoolWaitersAreServed` | `Spec => []` of `ReplacedOnce`, `WaitersAreServed` |
| `LinkTypes`, `SharedAttempts`, `HeardJoiners` (`WorldLinkProofs`) | `LinkSpec => []` of `LinkTypeOK`, `AttemptsAreShared`, `JoinersAreHeard` |
| `WatchedWhileConnected` | `LinkSpec => []ConnectedIsWatched`, for requests that do not leave the world |
| `TokenOnlyTabKeepsTrying`, `DroppedSocketKeepsTheToken` (`BrowserTabProofs`) | `Spec => []TokenOnlyKeepsTrying`, `Spec => DropsKeepTheToken` |
| `PanelWaitsAreBacked`, `GateMarksAreTrue` | `PanelSpec => []` of `WaitsAreBacked`, `GateMemoIsTrue` |
| `GatewayEndsCleanly`, `GatewayDependenciesFirst` (`GatewayLifecycleProofs`) | `LifecycleSpec => []` of `EndsCleanly`, `DependenciesFirst` |
| `ChunksInvisible`, `OverflowLosesNoFrame` (`RdoFramerProofs`) | `FramerSpec => []ChunkingIsInvisible`, `FramerSpec => OverflowKeepsFrames` |
| `NoFrameWaits` | `FramerSpec => []FramesAreWhole`: no frame handed over is empty or holds a frame's end, and no complete frame stays in the buffer |

Every invariant and every property of a step that a passing run checks is stated by one of these
theorems.

Assumptions, evaluated by TLC in every run of the module: `SessionParkAssumption` (finitely many
connections, each with an address; limits are naturals), `RdoRequestsAssumption` and `NullAssumption`
(an id space that is not empty, the poll is no call, naturals, attempts are told apart from the other places
where a call waits, `Null` is neither an entry nor an attempt),
`ResumeEntryAssumption` (`Null` is no resume entry), `ConnectionPoolAssumption` (finitely many calls,
positive sizes, `None` is no object), `LinkAssumption` (finite sets, distinct processes),
`BuildingAssumption` (`Nowhere` is no building). `ClientReconnect` and `GatewayLifecycle` assume
nothing: sockets, tokens, services and players may be infinitely many, except that
`GatewayDependenciesFirst` is about finitely many services (the registry is a `Map` filled by code). The
framer's theorems take natural numbers for the sizes; the streams and the limit are not bounded.

**SessionPark.** `TypeOK` is inductive as it stands; its one arithmetic point is the per-IP count, which
`ReleaseSlots` keeps from below and `MayAccept` from above. `TokensSingleUse` is not inductive: nothing
in it says that the next token is new. `TokenInv` adds that every token in force, delivered or spent
comes from the counter's past, and that a resume waiting in a lane names a delivered token.
`OneTabPerSession` needs to know why the tab that resumes is still there: `LinkInv` says that a
connection that has processed nothing is not suspended, and that its first message is served while
the WebSocket is attached, which holds only because a ready continuation runs before the close event
(the step lemma `Steps` keeps `Settled`). `TakeoverSpendsToken` follows from the three together.

`DrainCovers`, `ParkedIsIntact` and `NoResumeOfTheDead` need one another, and `HoldInv` is the web that
is inductive: the tab of a session that has sent nothing shares it with nobody (`FreshTabs`), a socket that
is served is the one its session is bound to (`Held`), what the drain tracks under a socket is what the
closure works on (`Tracking`), and a token a tab received belongs to a session that lives and, without
a tab, is parked (`TokensInForce`; false of an entry nobody received, which is why the property speaks of delivered
tokens). `EvictInv` adds that a destroyed session has no view and stays destroyed. `LimitInv` adds that
the cap counts born sessions only; the step to prove is admission, where a login that is let in ends the
sessions it was discounted for in the same run. `IpSlotsAccounted` is a sum of two cardinalities that one step
may change at once; `SlotInv` counts instead the one set `Occupied` of WebSockets that hold a slot,
so that each action adds or removes one element, and `HoldInv` says that the two kinds are apart.

The refinement `ImplementsLease` takes the actions in turn: those inside a session (`Inner`) leave the lease
alone or renew its key, a park and a close release it, a resume hands it over against the key `TokenInv`
says was delivered, a teardown ends it. `LeaseStatus`, `LeaseHolder` and `LeaseKey` are the mapping, the same
that `park_queue` checks.

**RdoRequests.** A call in flight could lose its entry to a reused id. `TableInv` says that the armed
deadlines and the pending entries are the same pairs, `OwnInv` that an open call has exactly one entry,
and is on the wire exactly when it has it, `CallInv` how often a waiting call was written, `LinkInv` that what is
under way is of the right kind, `BufferInv` that buffer and calls agree. The handlers that execute a request share one shape, `Took`: a
caller that is not on the wire is refused, goes to wait, or is written under a new id, and a new attempt settles whatever
is in the table; the invariant is shown once for that shape (`TookStep`) and each handler is one of it. The
allocation of an id needs the least element of a set of naturals and the buffer's removal a filter on
sequences, both lemmas here. The properties on steps (`BusyHoldsCalls`, `NothingBeginsAgain`, `OwnAnswersOnly`) follow
from the invariant along the same shape.

**ConnectionPool.** `SlotsBalanced` counts, so each action that acquires or gives back a slot moves
the holders of one connection by one element (`FS_` cardinality facts); what makes it inductive is
`ReleasedHere`, that a slot of the session's pool is given back to that pool, and `Untouched`, that nothing
refers to a connection that is not established. `WakeInv` follows what a creation answers for: the flag of
a connection is set as long as its replacement is under way, which is what keeps the second one from
starting, and a call waits only while a creation has its name; with `TypeOK`, that no two have the same, this is
`WaitersAreServed`. `OnlyCrossersHaunt` needs `JobsCross`, that the call of a
creation for a dropped pool has seen it dropped.

**WorldLink.** `AttemptsAreShared` and `JoinersAreHeard` hold each other up: `ShareInv` adds that the promise
the session remembers is that of an attempt under way, which every end of an attempt has to clear before its
joiners go on. `ConnectedIsWatched` is about what lies between arming the watchdog and saying that the
session is in the world: `WatchInv` gives every process the steps of its program (`Programmed`), says that nothing
is under way in the world while a login runs (`OutOfTheWorld`), that who is in the world has a company
(`CompanyKept`), and that at the last steps of a way in nothing that disarms can come between, since
ready continuations go first (`Watched`). Its theorem leaves out the requests that go to another world or to the directory:
with one of them TLC finds `ConnectedIsWatched` violated, by the cleanup that does not stop an attempt (the third finding).

**ClientReconnect.** `UnderWay` is not inductive: what is connecting may be the socket of a superseded
attempt, whose handlers decide nothing. `KInv` follows the latest socket instead: the timer runs, or
`this.ws` is connecting, or its own request is pending; and a request is pending only while `isConnected`,
so that its refusal is acted upon.

**GatewayLifecycle.** `GInv` says that the steps of the sequence come in order, that nothing but a
second signal arms the forced exit, and that before the handlers are installed neither has started.
`DependenciesFirst` is about a recursive function: `Depth` has a value for every service of a graph that resolves
(`DepthExists`, by a smallest set of services for which it would have none), and that value is above those of
the dependencies. `Levels` then says that whatever has left `pending` has every lower level behind it.

**RdoFramer.** `Cut` is a recursive function of the position, and the induction runs backwards over positions
(`FromTheEnd`): the loop exists and unfolds one turn at a time (`CutUnfolds`), a turn sees the same head
whatever comes behind it (`HeadsStay`: a busy answer counts only once a piece that is no digit follows, and the first
unquoted semicolon stays the first), so the cut of a whole is the cut of a part followed by that of
what it leaves with the rest (`CutInTwo`). `ChunkingIsInvisible` is that lemma at every chunk. For the overflow,
what the loop leaves of the kept part and the tail that holds no semicolon have nothing to cut when no
busy answer is among them (`NothingInTheTail`).

**BuildingPanel.** `PanelInv` adds to the two that a panel without details has no gate list, since the
first answer would carry it over. The argument of each step is that a mark of loading it keeps is of the same building,
and that an answer takes away only the call whose mark it settles. The mark of saving is of no building: any write
in flight backs it, and the answer of any write clears it.

TLC confirmed the inductive invariants on the instances above before they were proved. Only
model-checked is liveness (`ShutdownEnds`, `ParkEnds`, `EveryCallSettles`, `CallsSettle`, `ReplacementEnds`,
`UnreachableGivesUp`), whose fairness and `ENABLED` are out of the prover's reach, and the five violated
statements. The library's induction theorems take an operator as a parameter, which no prover here can
instantiate; where an argument needs induction over data, the proofs take a smallest counterexample among
sets instead (`WFMin` over the finite subsets), which is first-order.

## Plan

Done: the parking core, requests, pool, world link, reconnect of the browser, process life, framer,
building panel. Left,
in this order:

1. Theorems: what the safe half of the liveness properties rests on (a request that waits has the event
   that ends it armed, for the requests and the world link); `WatchedWhileConnected` for every request,
   once the third finding is fixed.
2. `ClientReconnect` with the first sign-in and the resume at start-up, and a lease-like abstract
   specification that both it and `SessionPark` meet.
3. The focus and overlay handlers of the browser above `BuildingPanel`, whose generations decide which
   building is shown (with them in one module the instance was too large for TLC).
4. The directory and map sockets of the session, and the deduplication of map and focus requests.

## Not modelled, and why

- The watchdog's limits, the token bucket, the per-IP windows, the pong tick: wall-clock arithmetic of one
  timer or one counter. Their outcomes (a refusal, a close, a watchdog armed or not) are choices of
  `SessionPark` and `WorldLink`.
- The session's read-only handlers (buildings, politics, mail, profile, search), the parsers of maps
  and pages, the RDO codec, the HTTP endpoints: they translate a request and an answer and keep no
  state another part reads.
- The browser's components, its other stores, renderer and sound: presentation, the bulk of the source. They are
  why the share of the repository's lines that the modules stand for stays small.
- The background data services: files and downloads, filled once at start-up.

`PROJECT.json` lists every component with its status.

## Running it

In this directory, with the TLA+ tools and the community modules on the path:

    tlc -workers 2 -config park_queue.cfg MCSessionPark
    tlc -workers 2 -config parts.cfg MCParts
    tlapm RdoRequestsProofs.tla
