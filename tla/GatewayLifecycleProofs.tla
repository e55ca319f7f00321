----------------------- MODULE GatewayLifecycleProofs -----------------------
(***************************************************************************)
(* In which order the gateway starts its services and how the process      *)
(* ends, for any services with any dependencies, any number of players,    *)
(* signals and exceptions.                                                 *)
(***************************************************************************)
EXTENDS GatewayLifecycle, FiniteSetTheorems, TLAPS

(* The steps of the sequence come in order, each after what it awaits, and nothing but a second signal arms *)
(* the forced exit; before the handlers are installed neither has started.                                  *)
GInv ==
    /\ signals \in Nat
    /\ state \in [Service -> {"pending", "running", "complete", "failed", "stopped"}]
    /\ stage # "ready" => step = "none" /\ ~forcing
    /\ stage = "ready" => \A s \in Service : state[s] \in {"complete", "stopped"}
    /\ step \in {"services", "logs"} => online = {}
    /\ step = "logs" => \A s \in Service : state[s] = "stopped"
    /\ forcing => signals >= 2
    /\ EndsCleanly

LEMMA GInvInit == LifecycleInit => GInv
  BY DEF LifecycleInit, GInv, EndsCleanly, Running

LEMMA StartUpKeeps ==
    ASSUME GInv, \/ Initialize \/ CachesFail \/ Ready
                 \/ \E s \in Service : ServiceReady(s) \/ ServiceFails(s)
    PROVE  GInv'
  <1>1. CASE Initialize
    <2>1. state' \in [Service -> {"pending", "running", "complete", "failed", "stopped"}]
      BY <1>1 DEF Initialize, GInv
    <2>2. stage # "ready" /\ stage' # "ready" /\ UNCHANGED <<signals, step, forcing, online>>
      BY <1>1 DEF Initialize
    <2>. QED  BY <2>1, <2>2 DEF GInv, EndsCleanly
  <1>2. CASE CachesFail
    BY <1>2 DEF CachesFail, GInv, EndsCleanly
  <1>3. CASE Ready
    BY <1>3 DEF Ready, GInv, EndsCleanly, Running
  <1>4. ASSUME NEW s \in Service, ServiceReady(s) \/ ServiceFails(s) PROVE GInv'
    <2>1. state[s] = "running"
      BY <1>4 DEF ServiceReady, ServiceFails
    <2>2. stage # "ready"
      BY <2>1 DEF GInv
    <2>3. UNCHANGED <<stage, signals, step, forcing, online>>
      BY <1>4 DEF ServiceReady, ServiceFails
    <2>4. CASE ServiceReady(s)
      <3>. DEFINE ready == [state EXCEPT ![s] = "complete"]
      <3>1. ready \in [Service -> {"pending", "running", "complete", "failed", "stopped"}]
        BY DEF GInv
      <3>. DEFINE last == \A t \in Level(Depth[s]) : ready[t] = "complete"
                  next(t) == last /\ Depth[t] = Depth[s] + 1
      <3>2. state' = [t \in Service |-> IF next(t) THEN "running" ELSE ready[t]]
        BY <2>4 DEF ServiceReady
      <3>. HIDE DEF ready, next
      <3>3. state' \in [Service -> {"pending", "running", "complete", "failed", "stopped"}]
        BY <3>1, <3>2
      <3>. QED  BY <2>2, <2>3, <3>3 DEF GInv, EndsCleanly
    <2>5. CASE ServiceFails(s)
      BY <2>2, <2>3, <2>5 DEF ServiceFails, GInv, EndsCleanly
    <2>. QED  BY <1>4, <2>4, <2>5
  <1>. QED  BY <1>1, <1>2, <1>3, <1>4

LEMMA PlayersKeep ==
    ASSUME GInv, \E p \in Player : LogsIn(p) \/ LoggedOff(p)
    PROVE  GInv'
  <1>1. PICK p \in Player : LogsIn(p) \/ LoggedOff(p)
    OBVIOUS
  <1>2. CASE LogsIn(p)
    BY <1>2 DEF LogsIn, GInv, EndsCleanly, Running
  <1>3. CASE LoggedOff(p)
    BY <1>3 DEF LoggedOff, GInv, EndsCleanly, Running
  <1>. QED  BY <1>1, <1>2, <1>3

LEMMA ShutdownKeeps ==
    ASSUME GInv, \/ Signal \/ UncaughtException \/ LogsClosed \/ DeadlineFires \/ ForcedExit
                 \/ \E s \in Service : ServiceStops(s)
    PROVE  GInv'
  <1>1. CASE Signal
    <2>1. signals' = signals + 1 /\ signals \in Nat /\ Running /\ UNCHANGED <<stage, state, online>>
      BY <1>1 DEF Signal, GInv
    <2>2. CASE stage # "ready" /\ exit' = "killed" /\ UNCHANGED <<step, deadline, forcing>>
      BY <2>1, <2>2 DEF GInv, EndsCleanly
    <2>3. CASE stage = "ready" /\ signals' >= 3 /\ exit' = "1" /\ UNCHANGED <<step, deadline, forcing>>
      BY <2>1, <2>3 DEF GInv, EndsCleanly
    <2>4. CASE stage = "ready" /\ signals' = 2 /\ forcing' = TRUE /\ UNCHANGED <<step, deadline, exit>>
      BY <2>1, <2>4 DEF GInv, EndsCleanly, Running
    <2>5. CASE stage = "ready" /\ UNCHANGED <<step, deadline, forcing, exit>>
      BY <2>1, <2>5 DEF GInv, EndsCleanly, Running
    <2>6. CASE stage = "ready" /\ step = "none" /\ StartShutdown /\ UNCHANGED <<forcing, exit>>
      BY <2>1, <2>6 DEF GInv, EndsCleanly, Running, StartShutdown
    <2>. QED  BY <1>1, <2>2, <2>3, <2>4, <2>5, <2>6 DEF Signal
  <1>2. CASE UncaughtException
    BY <1>2 DEF UncaughtException, StartShutdown, GInv, EndsCleanly, Running
  <1>3. CASE LogsClosed
    BY <1>3 DEF LogsClosed, GInv, EndsCleanly
  <1>4. CASE DeadlineFires
    BY <1>4 DEF DeadlineFires, GInv, EndsCleanly
  <1>5. CASE ForcedExit
    BY <1>5 DEF ForcedExit, GInv, EndsCleanly
  <1>6. CASE \E s \in Service : ServiceStops(s)
    <2>1. PICK s \in Service : ServiceStops(s)
      BY <1>6
    <2>2. \A t \in Service : state'[t] = state[t] \/ state'[t] = "stopped"
      BY <2>1 DEF ServiceStops, GInv
    <2>3. state' \in [Service -> {"pending", "running", "complete", "failed", "stopped"}]
      BY <2>1 DEF ServiceStops, GInv
    <2>. QED  BY <2>1, <2>2, <2>3 DEF ServiceStops, GInv, EndsCleanly, Running
  <1>. QED  BY <1>1, <1>2, <1>3, <1>4, <1>5, <1>6

LEMMA GInvStep == GInv /\ [LifecycleNext]_lifecycleVars => GInv'
  <1>1. GInv /\ UNCHANGED lifecycleVars => GInv'
    BY DEF lifecycleVars, GInv, EndsCleanly, Running
  <1>. QED  BY <1>1, StartUpKeeps, PlayersKeep, ShutdownKeeps DEF LifecycleNext

(* A gateway that was ready ends with every player logged off and every service stopped, unless the deadline *)
(* passed or an operator signalled twice (setupGracefulShutdown, createShutdownSequence).                    *)
THEOREM GatewayEndsCleanly == LifecycleSpec => []EndsCleanly
<1>1. GInv => EndsCleanly
  BY DEF GInv
<1>. QED  BY GInvInit, GInvStep, <1>1, PTL DEF LifecycleSpec

-----------------------------------------------------------------------------
(* The depth of a service.  The induction over the graph is an argument about a smallest set: the services  *)
(* on which a depth is not defined yet, or not a number yet, would each depend on another of them.           *)

LEMMA SmallestSet ==
    ASSUME NEW S, IsFiniteSet(S), NEW W \in SUBSET SUBSET S, W # {}
    PROVE  \E T \in W : \A U \in W : U \subseteq T => U = T
  <1>1. IsWellFoundedOn(StrictSubsetOrdering(S), SUBSET S)
    BY FS_StrictSubsetOrderingWellFounded, FS_FiniteSubsetsOfFinite
  <1>2. PICK T \in W : \A U \in W : ~ (<<U, T>> \in StrictSubsetOrdering(S))
    BY <1>1, WFMin
  <1>. QED  BY <1>2 DEF StrictSubsetOrdering

LEMMA MaxOfNaturals ==
    ASSUME NEW S, IsFiniteSet(S), S # {}, \A n \in S : n \in Nat
    PROVE  Max(S) \in S /\ \A n \in S : n <= Max(S)
  <1>. DEFINE W == {T \in SUBSET S : T # {} /\ ~ \E m \in T : \A n \in T : n <= m}
  <1>1. W = {}
    <2>1. SUFFICES ASSUME W # {}
                   PROVE  FALSE
      OBVIOUS
    <2>2. \E T \in W : \A U \in W : U \subseteq T => U = T
      <3>1. W \in SUBSET SUBSET S
        OBVIOUS
      <3>2. W # {}
        BY <2>1
      <3>. HIDE DEF W
      <3>. QED  BY <3>1, <3>2, SmallestSet
    <2>. PICK T \in W : \A U \in W : U \subseteq T => U = T
      BY <2>2
    <2>3. PICK m \in T : TRUE
      BY <2>2
    <2>4. CASE T \ {m} = {}
      <3>1. \A n \in T : n <= m
        BY <2>2, <2>3, <2>4
      <3>. QED  BY <2>2, <2>3, <3>1
    <2>5. CASE T \ {m} # {}
      <3>1. T \ {m} \notin W
        BY <2>2, <2>3
      <3>2. PICK k \in T \ {m} : \A n \in T \ {m} : n <= k
        BY <2>2, <2>5, <3>1
      <3>3. k \in Nat /\ m \in Nat
        BY <2>2, <2>3, <3>2
      <3>4. \E b \in T : \A n \in T : n <= b
        <4>1. CASE k <= m
          <5>1. \A n \in T : n <= m
            BY <2>2, <3>2, <3>3, <4>1
          <5>. QED  BY <2>3, <5>1
        <4>2. CASE ~(k <= m)
          <5>1. \A n \in T : n <= k
            BY <3>2, <3>3, <4>2
          <5>. QED  BY <3>2, <5>1
        <4>. QED  BY <4>1, <4>2
      <3>. QED  BY <2>2, <3>4
    <2>. QED  BY <2>4, <2>5
  <1>2. \E m \in S : \A n \in S : m >= n
    <2>1. \E m \in S : \A n \in S : n <= m
      BY <1>1
    <2>. QED  BY <2>1
  <1>. QED  BY <1>2 DEF Max

\* The depths of the services a service depends on.
LEMMA MaxOfImage ==
    ASSUME NEW f, NEW D, IsFiniteSet(D), D # {}, \A d \in D : f[d] \in Nat
    PROVE  /\ Max({f[d] : d \in D}) \in Nat
           /\ \A d \in D : f[d] <= Max({f[e] : e \in D})
  <1>. DEFINE T == {f[d] : d \in D}
              g == [d \in D |-> f[d]]
  <1>1. g \in Surjection(D, T)
    BY DEF Surjection
  <1>2. IsFiniteSet(T)
    BY <1>1, FS_Surjection
  <1>3. (\A n \in T : n \in Nat) /\ T # {}
    OBVIOUS
  <1>4. Max(T) \in T /\ \A n \in T : n <= Max(T)
    BY <1>2, <1>3, MaxOfNaturals
  <1>. QED  BY <1>3, <1>4

GraphOK == dependsOn \in [Service -> SUBSET (Service \cup {Unknown})]

\* The body of computeDepth.
DepthOf(f, s) == IF dependsOn[s] = {} THEN 0 ELSE 1 + Max({f[d] : d \in dependsOn[s]})

LEMMA DependenciesFinite ==
    ASSUME IsFiniteSet(Service), GraphOK, NEW s \in Service
    PROVE  IsFiniteSet(dependsOn[s])
BY FS_AddElement, FS_Subset DEF GraphOK

LEMMA DepthOfType ==
    ASSUME IsFiniteSet(Service), GraphOK, NEW f, NEW s \in Service,
           \A d \in dependsOn[s] : f[d] \in Nat
    PROVE  DepthOf(f, s) \in Nat /\ \A d \in dependsOn[s] : f[d] < DepthOf(f, s)
  <1>1. CASE dependsOn[s] = {}
    BY <1>1 DEF DepthOf
  <1>2. CASE dependsOn[s] # {}
    <2>. DEFINE m == Max({f[d] : d \in dependsOn[s]})
    <2>1. m \in Nat /\ \A d \in dependsOn[s] : f[d] <= m
      BY <1>2, DependenciesFinite, MaxOfImage
    <2>2. DepthOf(f, s) = 1 + m
      BY <1>2 DEF DepthOf
    <2>. HIDE DEF m
    <2>. QED  BY <2>1, <2>2
  <1>. QED  BY <1>1, <1>2

\* A graph that detectCycles accepts has a depth function.
LEMMA DepthExists ==
    ASSUME IsFiniteSet(Service), GraphOK, Resolvable
    PROVE  \E f : f = [s \in Service |-> DepthOf(f, s)]
  <1>. DEFINE Below(T) == \A s \in T : dependsOn[s] \subseteq T
              Solved(T) == \E f \in [T -> Nat] : \A s \in T : f[s] = DepthOf(f, s)
              W == {T \in SUBSET Service : Below(Service \ T) /\ Solved(Service \ T)}
  <1>1. Service \in W
    <2>1. Service \ Service = {} /\ Below({})
      OBVIOUS
    <2>2. Solved({})
      <3>1. [s \in {} |-> 0] \in [{} -> Nat]
        OBVIOUS
      <3>. QED  BY <3>1
    <2>. HIDE DEF Below, Solved
    <2>. QED  BY <2>1, <2>2
  <1>2. PICK ring \in W : \A U \in W : U \subseteq ring => U = ring
    <2>. HIDE DEF W
    <2>1. W \in SUBSET SUBSET Service
      BY DEF W
    <2>. QED  BY <1>1, <2>1, SmallestSet
  <1>. DEFINE T == Service \ ring
  <1>3. ring \in SUBSET Service /\ Below(T)
    BY <1>2
  <1>4. PICK f \in [T -> Nat] : \A s \in T : f[s] = DepthOf(f, s)
    BY <1>2
  <1>5. CASE ring = {}
    <2>1. T = Service
      BY <1>5
    <2>2. f = [s \in Service |-> DepthOf(f, s)]
      BY <1>4, <2>1
    <2>. QED  BY <2>2
  <1>6. CASE ring # {}
    <2>1. PICK s \in ring : dependsOn[s] \cap ring = {}
      BY <1>3, <1>6 DEF Resolvable, Cyclic
    <2>2. s \in Service /\ s \notin T /\ dependsOn[s] \subseteq T
      BY <1>3, <2>1 DEF Resolvable, GraphOK
    <2>. DEFINE V == T \cup {s}
                g == [x \in V |-> IF x = s THEN DepthOf(f, s) ELSE f[x]]
    <2>3. Below(V)
      BY <1>3, <2>2
    <2>4. \A d \in dependsOn[s] : f[d] \in Nat
      BY <1>4, <2>2
    <2>5. DepthOf(f, s) \in Nat
      BY <2>2, <2>4, DepthOfType
    <2>6. \A x \in V : DepthOf(g, x) = DepthOf(f, x)
      <3>1. SUFFICES ASSUME NEW x \in V
                     PROVE  DepthOf(g, x) = DepthOf(f, x)
        OBVIOUS
      <3>2. \A d \in dependsOn[x] : d \in V /\ d # s
        BY <1>3, <2>2
      <3>3. \A d \in dependsOn[x] : g[d] = f[d]
        BY <3>2
      <3>. HIDE DEF g
      <3>4. {g[d] : d \in dependsOn[x]} = {f[d] : d \in dependsOn[x]}
        BY <3>3
      <3>. QED  BY <3>4 DEF DepthOf
    <2>7. g \in [V -> Nat]
      BY <1>4, <2>5
    <2>8. \A x \in V : g[x] = DepthOf(g, x)
      <3>1. \A x \in V : g[x] = DepthOf(f, x)
        BY <1>4, <2>2
      <3>. HIDE DEF g
      <3>. QED  BY <2>6, <3>1
    <2>9. Solved(V)
      <3>. HIDE DEF g
      <3>. QED  BY <2>7, <2>8
    <2>10. Service \ (ring \ {s}) = V
      BY <1>3, <2>1
    <2>11. ring \ {s} \in W
      <3>. HIDE DEF Solved, Below, V
      <3>. QED  BY <1>3, <2>3, <2>9, <2>10
    <2>. QED  BY <1>2, <2>1, <2>11
  <1>. QED  BY <1>5, <1>6

\* The depth of a service is a number, above those of all it depends on.
LEMMA DepthFacts ==
    ASSUME IsFiniteSet(Service), GraphOK, Resolvable
    PROVE  /\ \A s \in Service : Depth[s] \in Nat
           /\ \A s \in Service : \A d \in dependsOn[s] : d \in Service /\ Depth[d] < Depth[s]
  <1>1. Depth = [s \in Service |-> DepthOf(Depth, s)]
    <2>1. Depth = CHOOSE f : f = [s \in Service |-> DepthOf(f, s)]
      BY DEF Depth, DepthOf
    <2>. QED  BY <2>1, DepthExists
  <1>. HIDE DEF Depth
  <1>. DEFINE ring == {s \in Service : Depth[s] \notin Nat}
  <1>2. ring = {}
    <2>1. SUFFICES ASSUME ring # {}
                   PROVE  FALSE
      OBVIOUS
    <2>2. PICK s \in ring : dependsOn[s] \cap ring = {}
      BY <2>1 DEF Resolvable, Cyclic
    <2>3. \A d \in dependsOn[s] : Depth[d] \in Nat
      BY <2>2 DEF Resolvable, GraphOK
    <2>4. DepthOf(Depth, s) \in Nat
      BY <2>2, <2>3, DepthOfType
    <2>. QED  BY <1>1, <2>2, <2>4
  <1>3. ASSUME NEW s \in Service
        PROVE  \A d \in dependsOn[s] : d \in Service /\ Depth[d] < Depth[s]
    <2>1. \A d \in dependsOn[s] : d \in Service
      BY DEF Resolvable, GraphOK
    <2>2. \A d \in dependsOn[s] : Depth[d] \in Nat
      BY <1>2, <2>1
    <2>3. \A d \in dependsOn[s] : Depth[d] < DepthOf(Depth, s)
      BY <2>2, DepthOfType
    <2>. QED  BY <1>1, <2>1, <2>3
  <1>. QED  BY <1>2, <1>3

-----------------------------------------------------------------------------
(* Start-up *)

\* Nothing leaves "pending" in a graph that does not resolve, and a service leaves it only when every
\* service of a lower level is complete.
Levels ==
    /\ GraphOK
    /\ \A s \in Service : state[s] # "pending" => Resolvable
    /\ \A s, t \in Service : state[s] # "pending" /\ Depth[t] < Depth[s] => state[t] \in {"complete", "stopped"}

LEMMA DepthStays ==
    ASSUME UNCHANGED dependsOn
    PROVE  UNCHANGED Depth /\ (GraphOK => GraphOK') /\ (Resolvable => Resolvable')
  <1>1. UNCHANGED Depth
    BY DEF Depth
  <1>2. Resolvable => Resolvable'
    BY DEF Resolvable, Cyclic
  <1>. QED  BY <1>1, <1>2 DEF GraphOK

\* Services that stay as they are, stop, or fail while nothing above them has started.
LEMMA LevelsKept ==
    ASSUME Levels, UNCHANGED dependsOn,
           \A s \in Service : state'[s] # "pending" => state[s] # "pending",
           \A s \in Service : state[s] \in {"complete", "stopped"} => state'[s] \in {"complete", "stopped"}
    PROVE  Levels'
  <1>1. \A s, t \in Service : state'[s] # "pending" /\ Depth[t] < Depth[s] => state'[t] \in {"complete", "stopped"}
    BY DEF Levels
  <1>2. \A s \in Service : state'[s] # "pending" => Resolvable
    BY DEF Levels
  <1>. QED  BY <1>1, <1>2, DepthStays DEF Levels

LEMMA InitializeLevels ==
    ASSUME IsFiniteSet(Service), GInv, Levels, Initialize
    PROVE  Levels'
  <1>1. CASE ~Resolvable /\ UNCHANGED state
    BY <1>1, LevelsKept DEF Initialize
  <1>2. CASE Resolvable /\ state' = [s \in Service |-> IF s \in Level(0) THEN "running" ELSE "pending"]
    <2>1. \A s \in Service : Depth[s] \in Nat
      BY <1>2, DepthFacts DEF Levels
    <2>2. \A s \in Service : state'[s] # "pending" => Depth[s] = 0
      BY <1>2 DEF Level
    <2>3. \A s, t \in Service : state'[s] # "pending" => ~ (Depth[t] < Depth[s])
      BY <2>1, <2>2
    <2>. QED  BY <1>2, <2>3, DepthStays DEF Levels, Initialize
  <1>. QED  BY <1>1, <1>2 DEF Initialize

LEMMA ServiceReadyLevels ==
    ASSUME IsFiniteSet(Service), GInv, Levels, NEW s \in Service, ServiceReady(s)
    PROVE  Levels'
  <1>. DEFINE ready == [state EXCEPT ![s] = "complete"]
              last == \A t \in Level(Depth[s]) : ready[t] = "complete"
              next(t) == last /\ Depth[t] = Depth[s] + 1
  <1>1. /\ state[s] = "running" /\ UNCHANGED dependsOn
        /\ state' = [t \in Service |-> IF next(t) THEN "running" ELSE ready[t]]
    BY DEF ServiceReady
  <1>2. Resolvable /\ \A t \in Service : Depth[t] \in Nat
    BY <1>1, DepthFacts DEF Levels
  <1>3. \A t \in Service : ready[t] = IF t = s THEN "complete" ELSE state[t]
    BY DEF GInv
  <1>4. last => \A t \in Service : Depth[t] = Depth[s] => ready[t] = "complete"
    BY DEF Level
  <1>5. \A t \in Service : Depth[t] < Depth[s] => state[t] \in {"complete", "stopped"}
    BY <1>1 DEF Levels
  <1>6. \A t \in Service : next(t) => state[t] = "pending"
    BY <1>1, <1>2 DEF Levels
  <1>. HIDE DEF ready
  <1>7. \A t \in Service : state'[t] = IF next(t) THEN "running" ELSE ready[t]
    BY <1>1
  <1>8. ASSUME NEW x \in Service, NEW t \in Service, state'[x] # "pending", Depth[t] < Depth[x]
        PROVE  state'[t] \in {"complete", "stopped"}
    <2>1. CASE next(x)
      <3>1. Depth[t] = Depth[s] \/ Depth[t] < Depth[s]
        BY <1>2, <1>8, <2>1
      <3>2. ~next(t)
        BY <1>2, <1>8, <2>1
      <3>3. ready[t] \in {"complete", "stopped"}
        BY <1>3, <1>4, <1>5, <2>1, <3>1
      <3>. QED  BY <1>7, <3>2, <3>3
    <2>2. CASE ~next(x)
      <3>1. state[x] # "pending"
        BY <1>1, <1>3, <1>7, <1>8, <2>2
      <3>2. state[t] \in {"complete", "stopped"}
        BY <1>8, <3>1 DEF Levels
      <3>. QED  BY <1>3, <1>6, <1>7, <3>2
    <2>. QED  BY <2>1, <2>2
  <1>. QED  BY <1>1, <1>2, <1>8, DepthStays DEF Levels

LEMMA LevelsStep ==
    ASSUME IsFiniteSet(Service), GInv, Levels, [LifecycleNext]_lifecycleVars
    PROVE  Levels'
  <1>1. CASE UNCHANGED <<dependsOn, state>>
    BY <1>1, LevelsKept
  <1>2. CASE \E s \in Service : ServiceFails(s)
    <2>1. \A t \in Service : state'[t] = state[t] \/ state[t] = "running"
      BY <1>2 DEF ServiceFails, GInv
    <2>. QED  BY <1>2, <2>1, LevelsKept DEF ServiceFails
  <1>3. CASE \E s \in Service : ServiceStops(s)
    <2>1. \A t \in Service : state[t] \in {"complete", "stopped"}
      BY <1>3 DEF ServiceStops, GInv
    <2>2. \A t \in Service : state'[t] = state[t] \/ state'[t] = "stopped"
      BY <1>3 DEF ServiceStops, GInv
    <2>. QED  BY <1>3, <2>1, <2>2, LevelsKept DEF ServiceStops
  <1>4. \/ UNCHANGED <<dependsOn, state>> \/ Initialize
        \/ \E s \in Service : ServiceReady(s) \/ ServiceFails(s) \/ ServiceStops(s)
    BY DEF LifecycleNext, lifecycleVars, CachesFail, Ready, LogsIn, LoggedOff, Signal, UncaughtException, LogsClosed,
           DeadlineFires, ForcedExit
  <1>. QED  BY <1>1, <1>2, <1>3, <1>4, InitializeLevels, ServiceReadyLevels

(* No service starts before everything it depends on is complete, for any finite graph of registrations: a *)
(* graph with a cycle or an unknown name starts nothing, and in every other the levels computeDepth gives   *)
(* follow the dependencies (resolveInitializationLevels, initialize).                                       *)
THEOREM GatewayDependenciesFirst ==
    ASSUME IsFiniteSet(Service)
    PROVE  LifecycleSpec => []DependenciesFirst
<1>1. LifecycleInit => Levels
  BY DEF LifecycleInit, Levels, GraphOK
<1>2. GInv /\ Levels /\ [LifecycleNext]_lifecycleVars => Levels'
  BY LevelsStep
<1>3. Levels => DependenciesFirst
  <2>1. SUFFICES ASSUME Levels, NEW s \in Service, state[s] # "pending", NEW d \in dependsOn[s]
                 PROVE  d \in Service /\ state[d] \in {"complete", "stopped"}
    BY DEF DependenciesFirst
  <2>2. d \in Service /\ Depth[d] < Depth[s]
    BY <2>1, DepthFacts DEF Levels
  <2>. QED  BY <2>1, <2>2 DEF Levels
<1>. QED  BY GInvInit, GInvStep, <1>1, <1>2, <1>3, PTL DEF LifecycleSpec
=============================================================================
