------------------------------ MODULE MCParts ------------------------------
(* Components that are small or need a small instance, and share no state, for TLC: the initial state picks *)
(* the one that moves, and the others stay where they start.  The connection pool is an instance: it has a  *)
(* run of its own, and here only its liveness is checked.                                                   *)
EXTENDS ClientReconnect, BuildingPanel, GatewayLifecycle, RdoFramer

CONSTANTS Part,                                   \* the components of the instance
          Call, Conn, Pool, MaxSize, MaxTimeouts  \* ConnectionPool

VARIABLES
    which,
    worldPool, connections, closed, checking, socket, closing, owner, activeRequests, consecutiveTimeouts, replacing,
    job, call, on, releaser, crossed, phase, primary, populated

poolVars == <<worldPool, connections, closed, checking, socket, closing, owner, activeRequests, consecutiveTimeouts,
              replacing, job, call, on, releaser, crossed, phase, primary, populated>>

Connections == INSTANCE ConnectionPool WITH status <- call

PartsInit ==
    /\ which \in Part
    /\ Init /\ PanelInit /\ LifecycleInit /\ FramerInit /\ Connections!Init
    /\ which # "client" => ws = CHOOSE s \in Sock : TRUE
    /\ which # "client" => held = (CHOOSE t \in Token : TRUE) /\ canReplay
    /\ which # "gateway" => dependsOn = [s \in Service |-> {}]

PartsNext ==
    \/ which = "client" /\ Next /\ UNCHANGED <<which, panelVars, lifecycleVars, framerVars, poolVars>>
    \/ which = "panel" /\ PanelNext /\ UNCHANGED <<which, vars, lifecycleVars, framerVars, poolVars>>
    \/ which = "gateway" /\ LifecycleNext /\ UNCHANGED <<which, vars, panelVars, framerVars, poolVars>>
    \/ which = "framer" /\ FramerNext /\ UNCHANGED <<which, vars, panelVars, lifecycleVars, poolVars>>
    \/ which = "pool" /\ Connections!Next /\ UNCHANGED <<which, vars, panelVars, lifecycleVars, framerVars>>

PartsSpec ==
    /\ PartsInit /\ [][PartsNext]_<<which, vars, panelVars, lifecycleVars, framerVars, poolVars>>
    /\ Fairness /\ Connections!Fairness

CallsSettle == Connections!CallsSettle
ReplacementEnds == Connections!ReplacementEnds
============================================================================
