-------------------------- MODULE GatewayLifecycle --------------------------
(***************************************************************************)
(* One run of the gateway process: the services start level by level       *)
(* (service-registry.ts), players log in, and signals, uncaught exceptions *)
(* and the shutdown sequence (gateway-shutdown.ts) race each other to the  *)
(* exit.  The listening socket is open before the services are; the signal *)
(* handlers are installed only when start-up is over.                      *)
(***************************************************************************)
EXTENDS FiniteSets, Naturals, FiniteSetsExt

CONSTANTS
    Service,       \* the registered services, at least one
    Unknown,       \* a name nothing is registered under
    Player,        \* sessions the drain tracks
    MaxSignals,    \* bound: SIGINT and SIGTERM received
    MaxExceptions  \* bound: uncaught exceptions

VARIABLES
    dependsOn,     \* of each service; fixed by the registrations
    stage,         \* "listening", "initializing", "ready"
    state,         \* of each service: "pending", "running", "complete", "failed", "stopped"
    online,        \* players with a session to log off
    step,          \* of the shutdown sequence: "none", "drain", "services", "logs"
    deadline,      \* its timer: "off", "armed", "fired"
    forcing,       \* the 500 ms of a second signal are running
    signals, exceptions,
    exit           \* "no", or how the process ended: "0", "1", "killed"

lifecycleVars == <<dependsOn, stage, state, online, step, deadline, forcing, signals, exceptions, exit>>

LifecycleInit ==
    /\ dependsOn \in [Service -> SUBSET (Service \cup {Unknown})]
    /\ stage = "listening"
    /\ state = [s \in Service |-> "pending"]
    /\ online = {}
    /\ step = "none" /\ deadline = "off" /\ forcing = FALSE
    /\ signals = 0 /\ exceptions = 0
    /\ exit = "no"

Running == exit = "no"

-----------------------------------------------------------------------------
(* resolveInitializationLevels *)

\* detectCycles: a set of services that each depend on another of the set.
Cyclic == \E ring \in SUBSET Service : ring # {} /\ \A s \in ring : dependsOn[s] \cap ring # {}
Resolvable == ~Cyclic /\ \A s \in Service : Unknown \notin dependsOn[s]

\* mutant: the shortest path
DepthShortest ==
    LET depth[s \in Service] == IF dependsOn[s] = {} THEN 0 ELSE 1 + Min({depth[d] : d \in dependsOn[s]})
    IN  depth

\* computeDepth: the longest path down to a service with no dependency
Depth ==
    LET depth[s \in Service] == IF dependsOn[s] = {} THEN 0 ELSE 1 + Max({depth[d] : d \in dependsOn[s]})
    IN  depth

Level(d) == {s \in Service : Depth[s] = d}

\* Start-up throws: main logs it and exits, whatever else is still running.
Fails == exit' = "1"

Initialize ==
    /\ Running /\ stage = "listening"
    /\ \/ Resolvable /\ stage' = "initializing" /\ UNCHANGED exit
          /\ state' = [s \in Service |-> IF s \in Level(0) THEN "running" ELSE "pending"]
       \/ ~Resolvable /\ Fails /\ UNCHANGED <<stage, state>>
    /\ UNCHANGED <<dependsOn, online, step, deadline, forcing, signals, exceptions>>

\* Promise.all over a level: the last service of it to be ready starts the next level.
ServiceReady(s) ==
    /\ Running /\ state[s] = "running"
    /\ LET ready == [state EXCEPT ![s] = "complete"]
           last == \A t \in Level(Depth[s]) : ready[t] = "complete"
       IN  state' = [t \in Service |-> IF last /\ Depth[t] = Depth[s] + 1 THEN "running" ELSE ready[t]]
    /\ UNCHANGED <<dependsOn, stage, online, step, deadline, forcing, signals, exceptions, exit>>

ServiceFails(s) ==
    /\ Running /\ state[s] = "running"
    /\ state' = [state EXCEPT ![s] = "failed"]
    /\ Fails
    /\ UNCHANGED <<dependsOn, stage, online, step, deadline, forcing, signals, exceptions>>

\* The file caches are built before the services and rebuilt after them; then installGatewayShutdown.
CachesFail ==
    /\ Running /\ stage # "ready"
    /\ stage = "initializing" => \A s \in Service : state[s] = "complete"
    /\ Fails
    /\ UNCHANGED <<dependsOn, stage, state, online, step, deadline, forcing, signals, exceptions>>

Ready ==
    /\ Running /\ stage = "initializing" /\ \A s \in Service : state[s] = "complete"
    /\ stage' = "ready"
    /\ UNCHANGED <<dependsOn, state, online, step, deadline, forcing, signals, exceptions, exit>>

-----------------------------------------------------------------------------
(* Players; server.close() is called before the drain, so none comes after it *)

LogsIn(p) ==
    /\ Running /\ step = "none" /\ p \notin online
    /\ online' = online \cup {p}
    /\ UNCHANGED <<dependsOn, stage, state, step, deadline, forcing, signals, exceptions, exit>>

\* A teardown has settled, the player's own or the drain's; the last one of a drain lets it go on.
LoggedOff(p) ==
    /\ Running /\ p \in online /\ step \in {"none", "drain"}
    /\ online' = online \ {p}
    /\ step' = IF step = "drain" /\ online' = {} THEN "services" ELSE step
    /\ UNCHANGED <<dependsOn, stage, state, deadline, forcing, signals, exceptions, exit>>

-----------------------------------------------------------------------------
(* setupGracefulShutdown and the sequence it runs *)

\* createShutdownSequence: the first call arms the deadline and starts the drain, the others join it.
StartShutdown ==
    /\ step' = IF online = {} THEN "services" ELSE "drain"
    /\ deadline' = "armed"

Signal ==
    /\ Running /\ signals < MaxSignals
    /\ signals' = signals + 1
    /\ \/ stage # "ready" /\ exit' = "killed" /\ UNCHANGED <<step, deadline, forcing>>
       \/ stage = "ready" /\ signals' >= 3 /\ exit' = "1" /\ UNCHANGED <<step, deadline, forcing>>
       \/ /\ stage = "ready" /\ signals' = 2 /\ step # "none"
          /\ forcing' = TRUE /\ UNCHANGED <<step, deadline, exit>>
       \/ /\ stage = "ready" /\ signals' = 1 /\ step # "none"
          /\ UNCHANGED <<step, deadline, forcing, exit>>
       \/ stage = "ready" /\ step = "none" /\ StartShutdown /\ UNCHANGED <<forcing, exit>>
    /\ UNCHANGED <<dependsOn, stage, state, online, exceptions>>

\* mutant: an exception during the shutdown forces the exit, as a second signal does
UncaughtForces ==
    /\ Running /\ exceptions < MaxExceptions
    /\ exceptions' = exceptions + 1
    /\ \/ stage = "ready" /\ step = "none" /\ StartShutdown /\ UNCHANGED forcing
       \/ stage = "ready" /\ step # "none" /\ forcing' = TRUE /\ UNCHANGED <<step, deadline>>
       \/ stage # "ready" /\ UNCHANGED <<step, deadline, forcing>>
    /\ UNCHANGED <<dependsOn, stage, state, online, signals, exit>>

\* It never counts as a signal, and before start-up is over it is only logged.
UncaughtException ==
    /\ Running /\ exceptions < MaxExceptions
    /\ exceptions' = exceptions + 1
    /\ \/ stage = "ready" /\ step = "none" /\ StartShutdown
       \/ (stage # "ready" \/ step # "none") /\ UNCHANGED <<step, deadline>>
    /\ UNCHANGED <<dependsOn, stage, state, online, forcing, signals, exit>>

\* registry.shutdown: one service after the other; a rejection and the 5 s timeout end a turn too.
ServiceStops(s) ==
    /\ Running /\ step = "services" /\ state[s] # "stopped"
    /\ state' = [state EXCEPT ![s] = "stopped"]
    /\ step' = IF \A t \in Service : state'[t] = "stopped" THEN "logs" ELSE step
    /\ UNCHANGED <<dependsOn, stage, online, deadline, forcing, signals, exceptions, exit>>

LogsClosed ==
    /\ Running /\ step = "logs"
    /\ exit' \in {"0", "1"}
    /\ UNCHANGED <<dependsOn, stage, state, online, step, deadline, forcing, signals, exceptions>>

DeadlineFires ==
    /\ Running /\ deadline = "armed"
    /\ deadline' = "fired" /\ exit' = "0"
    /\ UNCHANGED <<dependsOn, stage, state, online, step, forcing, signals, exceptions>>

ForcedExit ==
    /\ Running /\ forcing
    /\ exit' = "0"
    /\ UNCHANGED <<dependsOn, stage, state, online, step, deadline, forcing, signals, exceptions>>

LifecycleNext ==
    \/ Initialize \/ CachesFail \/ Ready
    \/ \E s \in Service : ServiceReady(s) \/ ServiceFails(s) \/ ServiceStops(s)
    \/ \E p \in Player : LogsIn(p) \/ LoggedOff(p)
    \/ Signal \/ UncaughtException
    \/ LogsClosed \/ DeadlineFires \/ ForcedExit

LifecycleSpec == LifecycleInit /\ [][LifecycleNext]_lifecycleVars

-----------------------------------------------------------------------------
(* Whatever graph the registrations make, no service starts before everything it depends on is complete, *)
(* although the services of a level start together and end in any order (initialize, 198-232).           *)
DependenciesFirst ==
    \A s \in Service : state[s] # "pending" =>
        \A d \in dependsOn[s] : d \in Service /\ state[d] \in {"complete", "stopped"}

(* A gateway that was ready ends with every player logged off and every service stopped, unless the 8 s *)
(* deadline passed or an operator signalled twice: neither a second exception thrown during the drain   *)
(* nor a first signal on top of an exception cuts a logoff short (setupGracefulShutdown, 471).          *)
EndsCleanly ==
    stage = "ready" /\ ~Running /\ deadline # "fired" /\ signals < 2 =>
        online = {} /\ \A s \in Service : state[s] = "stopped"
=============================================================================
