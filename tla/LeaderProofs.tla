---------------------------- MODULE LeaderProofs ----------------------------
(***************************************************************************)
(* Three components of the leader that share no state: the registry of the *)
(* agents, the alert engine and the delivery of alerts.  What their runs   *)
(* check on two or three agents, streams and browsers is shown for every   *)
(* number of them.                                                         *)
(***************************************************************************)
EXTENDS AgentRegistry, AlertEngine, AlertDelivery, TLAPS

-----------------------------------------------------------------------------
(* The registry of the agents (module AgentRegistry), for every set of     *)
(* agents and streams and any number of restarts.                          *)

\* Every variable keeps its type through every step of the stream handlers, of
\* CleanupNodes and of a restart.
THEOREM RegistryTypeInvariant == Spec => []TypeOK
<1>1. Init => TypeOK
  BY NoneAssumption, RestartAssumption DEF Init, TypeOK
<1>2. TypeOK /\ [Next]_vars => TypeOK'
  <2> SUFFICES ASSUME TypeOK, [Next]_vars PROVE TypeOK'
    OBVIOUS
  <2> USE NodeOfAssumption, NoneAssumption, RestartAssumption
      DEF TypeOK, Open, Closing, Goto, SetStatus, cleanup, live
  <2>1. ASSUME NEW c \in Streams, StreamStep(c) PROVE TypeOK'
    <3>1. CASE Register(c) BY <3>1 DEF Register
    <3>2. CASE upsertNode(c) BY <3>2 DEF upsertNode
    <3>3. CASE HeartbeatRow(c) BY <3>3 DEF HeartbeatRow
    <3>4. CASE HeartbeatApply(c) BY <3>4 DEF HeartbeatApply
    <3>5. CASE ContainerReport(c) BY <3>5 DEF ContainerReport
    <3>6. CASE StreamEnds(c) BY <3>6 DEF StreamEnds
    <3>7. CASE MarkOfflineRow(c) BY <3>7 DEF MarkOfflineRow
    <3>8. CASE Unregister(c) BY <3>8 DEF Unregister
    <3>9. CASE MarkOffline(c) BY <3>9 DEF MarkOffline
    <3>10. CASE MarkNodeOffline(c) BY <3>10 DEF MarkNodeOffline
    <3>11. QED
      BY <2>1, <3>1, <3>2, <3>3, <3>4, <3>5, <3>6, <3>7, <3>8, <3>9, <3>10
         DEF StreamStep, Deferred
  <2>2. ASSUME CleanupNodes PROVE TypeOK'
    <3>1. CASE CleanupReadRegistry BY <3>1 DEF CleanupReadRegistry
    <3>2. CASE CleanupSelect BY <3>2 DEF CleanupSelect
    <3>3. CASE CleanupAbort BY <3>3 DEF CleanupAbort
    <3>4. CASE CleanupDelete BY <3>4 DEF CleanupDelete
    <3>5. CASE CleanupMarkOffline BY <3>5 DEF CleanupMarkOffline
    <3>6. CASE CleanupMarkNodeOffline BY <3>6 DEF CleanupMarkNodeOffline
    <3>7. QED
      BY <2>2, <3>1, <3>2, <3>3, <3>4, <3>5, <3>6 DEF CleanupNodes
  <2>3. CASE RestartLeader BY <2>3 DEF RestartLeader
  <2>4. CASE UNCHANGED vars BY <2>4 DEF vars
  <2>5. QED BY <2>1, <2>2, <2>3, <2>4 DEF Next
<1>3. QED BY <1>1, <1>2, PTL DEF Spec

-----------------------------------------------------------------------------

\* Of a node that was never superseded, a stream that has not unregistered is
\* the registered one, so that its Unregister will not return early.
OpenIsRegistered ==
  \A c \in Streams :
    NodeOf[c] \notin superseded /\ spc[c] \in Open => registry[NodeOf[c]] = c

\* Live state of such a node has a stream that is still to clear it.
LiveHasCleaner ==
  \A n \in Nodes \ superseded :
    /\ n \in metrics => \E c \in Streams :
         NodeOf[c] = n /\ spc[c] \in Open \cup {"clearMetrics"}
    /\ n \in containers => \E c \in Streams :
         NodeOf[c] = n /\ spc[c] \in Open \cup Closing

RegistryInv == TypeOK /\ RegistryHoldsOpenStream /\ OpenIsRegistered /\ LiveHasCleaner

\* A step that touches neither the registry, nor the control of a stream, nor
\* adds live state keeps the invariant (CleanupNodes).
LEMMA CleanupKeeps ==
  ASSUME RegistryInv, TypeOK', UNCHANGED <<registry, spc, superseded>>,
         metrics' \subseteq metrics, containers' \subseteq containers
  PROVE  RegistryInv'
  BY DEF RegistryInv, RegistryHoldsOpenStream, OpenIsRegistered, LiveHasCleaner

\* A step of one stream's Channel call keeps the invariant.
LEMMA StreamKeeps ==
  ASSUME RegistryInv, TypeOK', NEW c \in Streams, StreamStep(c)
  PROVE  RegistryInv'
<1> USE NodeOfAssumption, NoneAssumption
    DEF RegistryInv, TypeOK, Goto, SetStatus, cleanup, live, Open, Closing
<1>1. CASE Register(c)
  <2>1. RegistryHoldsOpenStream'
    BY <1>1 DEF Register, RegistryHoldsOpenStream
  <2>2. OpenIsRegistered'
    BY <1>1 DEF Register, RegistryHoldsOpenStream, OpenIsRegistered
  <2>3. LiveHasCleaner'
    BY <1>1 DEF Register, LiveHasCleaner
  <2>4. QED BY <2>1, <2>2, <2>3
<1>2. CASE upsertNode(c)
  BY <1>2 DEF upsertNode, RegistryHoldsOpenStream, OpenIsRegistered, LiveHasCleaner
<1>3. CASE HeartbeatRow(c)
  BY <1>3 DEF HeartbeatRow, RegistryHoldsOpenStream, OpenIsRegistered, LiveHasCleaner
<1>4. CASE HeartbeatApply(c)
  BY <1>4 DEF HeartbeatApply, RegistryHoldsOpenStream, OpenIsRegistered, LiveHasCleaner
<1>5. CASE ContainerReport(c)
  BY <1>5 DEF ContainerReport, RegistryHoldsOpenStream, OpenIsRegistered, LiveHasCleaner
<1>6. CASE StreamEnds(c)
  BY <1>6 DEF StreamEnds, RegistryHoldsOpenStream, OpenIsRegistered, LiveHasCleaner
<1>7. CASE MarkOfflineRow(c)
  BY <1>7 DEF MarkOfflineRow, RegistryHoldsOpenStream, OpenIsRegistered, LiveHasCleaner
<1>8. CASE Unregister(c)
  <2>1. RegistryHoldsOpenStream'
    BY <1>8 DEF Unregister, RegistryHoldsOpenStream
  <2>2. OpenIsRegistered'
    BY <1>8 DEF Unregister, OpenIsRegistered
  <2>3. LiveHasCleaner'
    BY <1>8 DEF Unregister, OpenIsRegistered, LiveHasCleaner
  <2>4. QED BY <2>1, <2>2, <2>3
<1>9. CASE MarkOffline(c)
  BY <1>9 DEF MarkOffline, RegistryHoldsOpenStream, OpenIsRegistered, LiveHasCleaner
<1>10. CASE MarkNodeOffline(c)
  BY <1>10 DEF MarkNodeOffline, RegistryHoldsOpenStream, OpenIsRegistered, LiveHasCleaner
<1>11. QED
  BY <1>1, <1>2, <1>3, <1>4, <1>5, <1>6, <1>7, <1>8, <1>9, <1>10
     DEF StreamStep, Deferred

\* Every step of the streams, of CleanupNodes and of a restart keeps the invariant of the
\* registry.
LEMMA RegistryInvariance == Spec => []RegistryInv
<1>1. Init => RegistryInv
  <2>1. Init => TypeOK BY NoneAssumption, RestartAssumption DEF Init, TypeOK
  <2>2. QED
    BY <2>1 DEF Init, RegistryInv, RegistryHoldsOpenStream, OpenIsRegistered,
                LiveHasCleaner, Open
<1>2. RegistryInv /\ TypeOK' /\ [Next]_vars => RegistryInv'
  <2> SUFFICES ASSUME RegistryInv, TypeOK', [Next]_vars PROVE RegistryInv'
    OBVIOUS
  <2>1. ASSUME NEW c \in Streams, StreamStep(c) PROVE RegistryInv'
    BY <2>1, StreamKeeps
  <2>2. CASE CleanupNodes
    <3>1. /\ UNCHANGED <<registry, spc, superseded>>
          /\ metrics' \subseteq metrics /\ containers' \subseteq containers
      BY <2>2 DEF CleanupNodes, CleanupReadRegistry, CleanupSelect, CleanupAbort,
                  CleanupDelete, CleanupMarkOffline, CleanupMarkNodeOffline, live
    <3>2. QED BY <3>1, CleanupKeeps
  <2>3. CASE RestartLeader
    BY <2>3, NoneAssumption
       DEF RestartLeader, RegistryInv, RegistryHoldsOpenStream, OpenIsRegistered,
           LiveHasCleaner, Open
  <2>4. CASE UNCHANGED vars
    <3>1. /\ UNCHANGED <<registry, spc, superseded>>
          /\ metrics' \subseteq metrics /\ containers' \subseteq containers
      BY <2>4 DEF vars, live
    <3>2. QED BY <3>1, CleanupKeeps
  <2>5. QED BY <2>1, <2>2, <2>3, <2>4 DEF Next
<1>3. QED BY <1>1, <1>2, RegistryTypeInvariant, PTL DEF Spec

\* Commands for a node are routed only to a stream of that node that has not
\* unregistered, for any number of agents and reconnects (Register, Unregister).
THEOREM Routing == Spec => []RegistryHoldsOpenStream
<1>1. RegistryInv => RegistryHoldsOpenStream BY DEF RegistryInv
<1>2. QED BY <1>1, RegistryInvariance, PTL

\* A node whose streams have all ended, none of them superseded, shows no live
\* metrics or containers (Unregister's two calls after its mutex).
THEOREM Cleaning == Spec => []OfflineIsClean
<1>1. RegistryInv => OfflineIsClean
  BY DEF RegistryInv, LiveHasCleaner, OfflineIsClean, Open, Closing
<1>2. QED BY <1>1, RegistryInvariance, PTL

\* The end of a superseded stream never takes the stream that replaced it out of
\* the registry (the comparison in Unregister).
THEOREM Ownership == Spec => OnlyOwnerUnregisters
<1>1. RegistryInv /\ [Next]_vars =>
        [\A n \in Nodes : registry[n] # None /\ registry'[n] = None =>
           \/ spc[registry[n]] = "unregister"
           \/ restarts' # restarts]_vars
  <2> DEFINE A == \A n \in Nodes : registry[n] # None /\ registry'[n] = None =>
                    spc[registry[n]] = "unregister" \/ restarts' # restarts
  <2> SUFFICES ASSUME RegistryInv, Next PROVE A
    OBVIOUS
  <2> USE NodeOfAssumption, NoneAssumption DEF RegistryInv, TypeOK
  <2>1. ASSUME NEW c \in Streams, StreamStep(c) PROVE A
    <3>1. CASE Register(c) BY <3>1 DEF Register
    <3>2. CASE Unregister(c) BY <3>2 DEF Unregister
    <3>3. CASE UNCHANGED registry BY <3>3
    <3>4. QED
      BY <2>1, <3>1, <3>2, <3>3
         DEF StreamStep, Deferred, upsertNode, HeartbeatRow, HeartbeatApply,
             ContainerReport, StreamEnds, MarkOfflineRow, MarkOffline,
             MarkNodeOffline
  <2>2. CASE CleanupNodes
    BY <2>2 DEF CleanupNodes, CleanupReadRegistry, CleanupSelect, CleanupAbort,
                CleanupDelete, CleanupMarkOffline, CleanupMarkNodeOffline
  <2>3. CASE RestartLeader BY <2>3, RestartAssumption DEF RestartLeader
  <2>4. QED BY <2>1, <2>2, <2>3 DEF Next
<1>2. QED BY <1>1, RegistryInvariance, PTL DEF Spec, OnlyOwnerUnregisters

-----------------------------------------------------------------------------
(* The alert engine (module AlertEngine), for any targets, durations,      *)
(* cooldowns, thresholds and horizon of the ages.                          *)

\* What the properties need to know of the state: overSince is no older than the
\* last evaluation within bounds, lastFired is the time of the last alert, and no
\* snapshot says a node was silent for longer than the leader has run.
EngineInv ==
  /\ EngineTypeOK
  /\ \A n \in Targets :
       /\ state[n].overSince # Never /\ fine[n] # Never
            => fine[n] >= state[n].overSince
       /\ state[n].lastFired = alerted[n]
       /\ todo[n].is = "silent" => todo[n].since <= started

\* Ages stay ages as time passes, and keep their order.
LEMMA OlderAge ==
  /\ \A a \in Ages \cup {Never} : Older(a) \in Ages \cup {Never}
  /\ \A a \in Ages : Older(a) \in Ages /\ a <= Older(a)
  /\ \A a \in Ages \cup {Never} : Older(a) = Never <=> a = Never
  /\ \A a, b \in Ages : a <= b => Older(a) <= Older(b)
BY AgesAssumption, BoundsAssumption DEF Ages, Never, Older, Least

\* Load's snapshot is well-formed, and bounds silences by the leader's age.
LEMMA ReadingBounded ==
  ASSUME EngineTypeOK, NEW n \in Targets
  PROVE  /\ Reading(n) \in Readings
         /\ Reading(n).is = "silent" => Reading(n).since <= started
<1>1. CASE rule.kind = "offline" /\ seen[n] # Never
  <2>1. Silence(n) \in Ages /\ Silence(n) <= started
    BY <1>1, AgesAssumption, BoundsAssumption DEF EngineTypeOK, Silence, Least,
      Ages, Never
  <2>2. Reading(n) = [is |-> "silent", since |-> Silence(n)]
    BY <1>1 DEF Reading
  <2>3. QED BY <2>1, <2>2 DEF Readings
<1>2. CASE ~(rule.kind = "offline" /\ seen[n] # Never)
  <2>1. Reading(n) = Skip \/ Reading(n) = [is |-> "value", over |-> value[n] = "over"]
    BY <1>2 DEF Reading
  <2>2. Skip.is # "silent"
    BY DEF Skip
  <2>3. ASSUME NEW b \in BOOLEAN
        PROVE  [is |-> "value", over |-> b] \in [is : {"value"}, over : BOOLEAN]
    OBVIOUS
  <2>4. (value[n] = "over") \in BOOLEAN
    BY Zenon
  <2>5. [is |-> "value", over |-> value[n] = "over"] \in [is : {"value"}, over : BOOLEAN]
    BY <2>3, <2>4, Zenon
  <2>6. Reading(n) \in Readings
    BY <2>1, <2>5, Zenon DEF Readings
  <2>7. Reading(n).is # "silent"
    BY <2>1, <2>2
  <2>8. QED BY <2>6, <2>7
<1>3. QED BY <1>1, <1>2

\* Every step of an evaluation, of the rule handlers, of the cluster and of a restart keeps
\* the invariant of the engine.
LEMMA EngineInvariance ==
  EngineSpec => []EngineInv
<1>1. EngineInit => EngineInv
  <2> SUFFICES ASSUME EngineInit PROVE EngineInv
    OBVIOUS
  <2> USE AgesAssumption, BoundsAssumption DEF EngineInit, Fresh, Ages, Never
  <2>1. rule \in [kind : Kinds, enabled : BOOLEAN]
    BY Zenon
  <2>2. state \in [Targets -> ruleState]
    BY DEF NoState, ruleState
  <2>3. todo \in [Targets -> Readings]
    BY DEF Readings
  <2>4. \A n \in Targets : todo[n].is # "silent"
    BY Zenon DEF Skip
  <2>5. \A n \in Targets : state[n].overSince = Never /\ state[n].lastFired = alerted[n]
    BY Zenon DEF NoState
  <2>6. EngineTypeOK
    BY <2>1, <2>2, <2>3 DEF EngineTypeOK
  <2>7. QED BY <2>4, <2>5, <2>6 DEF EngineInv
<1>2. EngineInv /\ [EngineNext]_engineVars => EngineInv'
  <2> SUFFICES ASSUME EngineInv, [EngineNext]_engineVars PROVE EngineInv'
    OBVIOUS
  <2> USE AgesAssumption, BoundsAssumption DEF world, engineState, bounds
  <2>1. CASE Load
    <3>1. todo' \in [Targets -> Readings]
      BY <2>1, ReadingBounded DEF Load, EngineInv
    <3>2. \A n \in Targets : todo'[n].is = "silent" => todo'[n].since <= started
      BY <2>1, ReadingBounded DEF Load, EngineInv
    <3>3. QED BY <2>1, <3>1, <3>2, Zenon DEF Load, EngineInv, EngineTypeOK
  <2>2. ASSUME NEW n \in Targets, processBreach(n) PROVE EngineInv'
    <3>1. Since(n) \in Ages /\ 0 \in Ages /\ state[n] \in ruleState
      BY DEF Since, EngineInv, EngineTypeOK, ruleState, Ages,
        Never
    <3>2. todo' \in [Targets -> Readings] /\ todo'[n] = Skip
          /\ \A k \in Targets \ {n} : todo'[k] = todo[k]
      BY <2>2 DEF processBreach, EngineInv, EngineTypeOK, Readings
    <3>3. fine[n] # Never => fine[n] >= Since(n)
      BY DEF Since, EngineInv, EngineTypeOK, Ages, Never
    <3>4. CASE Fires(n)
      <4>1. /\ state' = [state EXCEPT ![n] = [overSince |-> Since(n), triggered |-> TRUE,
                                              lastFired |-> 0]]
            /\ alerted' = [alerted EXCEPT ![n] = 0]
        BY <2>2, <3>4 DEF processBreach
      <4>2. state' \in [Targets -> ruleState] /\ alerted' \in [Targets -> Ages \cup {Never}]
        BY <3>1, <4>1 DEF EngineInv, EngineTypeOK, ruleState
      <4>3. QED
        BY <2>2, <3>1, <3>2, <3>3, <4>1, <4>2 DEF processBreach, EngineInv,
          EngineTypeOK, Skip
    <3>5. CASE ~Fires(n)
      <4>1. /\ state' = [state EXCEPT ![n].overSince = Since(n)]
            /\ alerted' = alerted
        BY <2>2, <3>5 DEF processBreach
      <4>2. state' \in [Targets -> ruleState]
        BY <3>1, <4>1 DEF EngineInv, EngineTypeOK, ruleState
      <4>3. QED BY <2>2, <3>1, <3>2, <3>3, <4>1, <4>2
                DEF processBreach, EngineInv, EngineTypeOK, Skip,
                  ruleState
    <3>6. QED BY <3>4, <3>5
  <2>3. ASSUME NEW n \in Targets, processClear(n) PROVE EngineInv'
    <3>1. todo' \in [Targets -> Readings] /\ todo'[n] = Skip
          /\ \A k \in Targets \ {n} : todo'[k] = todo[k]
      BY <2>3 DEF processClear, EngineInv, EngineTypeOK, Readings
    <3>2. fine' \in [Targets -> Ages \cup {Never}]
      BY <2>3 DEF processClear, EngineInv, EngineTypeOK, Ages
    <3>3. state' \in [Targets -> ruleState]
      <4> DEFINE cleared == [overSince |-> Never, triggered |-> FALSE,
                             lastFired |-> state[n].lastFired]
      <4>1. state \in [Targets -> ruleState] /\ state[n] \in ruleState
        BY DEF EngineInv, EngineTypeOK
      <4>2. cleared \in ruleState
        BY <4>1 DEF ruleState
      <4>3. state' = [state EXCEPT ![n] = cleared]
        BY <2>3 DEF processClear
      <4>4. QED BY <4>1, <4>2, <4>3
    <3>4. /\ state'[n].overSince = Never /\ state'[n].lastFired = state[n].lastFired
          /\ \A k \in Targets \ {n} : state'[k] = state[k] /\ fine'[k] = fine[k]
      BY <2>3 DEF processClear, EngineInv, EngineTypeOK
    <3>5. QED
      BY <2>3, <3>1, <3>2, <3>3, <3>4 DEF processClear, EngineInv, EngineTypeOK,
        Skip
  <2>4. CASE CreateAlertRule
    BY <2>4 DEF CreateAlertRule, EngineInv, EngineTypeOK, Fresh,
      NoState, ruleState, Never
  <2>5. CASE UpdateAlertRule
    BY <2>5 DEF UpdateAlertRule, EngineInv, EngineTypeOK
  <2>6. CASE DeleteAlertRule
    BY <2>6 DEF DeleteAlertRule, EngineInv, EngineTypeOK
  <2>7. ASSUME NEW n \in Targets, Measure(n) PROVE EngineInv'
    BY <2>7 DEF Measure, EngineInv, EngineTypeOK
  <2>8. ASSUME NEW n \in Targets,
               Connect(n) \/ UpsertRow(n) \/ Heartbeat(n) \/ Disconnect(n) \/ Forget(n)
        PROVE  EngineInv'
    BY <2>8 DEF Connect, UpsertRow, Heartbeat, Disconnect,
      Forget, EngineInv, EngineTypeOK, Ages
  <2>9. CASE Tick
    <3>1. /\ started' \in Ages /\ started <= started'
          /\ seen' \in [Targets -> Ages \cup {Never}]
          /\ fine' \in [Targets -> Ages \cup {Never}]
          /\ alerted' \in [Targets -> Ages \cup {Never}]
      BY <2>9, OlderAge DEF Tick, EngineInv, EngineTypeOK
    <3>2. state' \in [Targets -> ruleState]
      BY <2>9, OlderAge DEF Tick, EngineInv, EngineTypeOK, ruleState
    <3>3. ASSUME NEW n \in Targets
          PROVE  /\ state'[n].overSince # Never /\ fine'[n] # Never
                      => fine'[n] >= state'[n].overSince
                 /\ state'[n].lastFired = alerted'[n]
      <4>1. /\ state'[n].overSince = Older(state[n].overSince)
            /\ state'[n].lastFired = Older(state[n].lastFired)
            /\ fine'[n] = Older(fine[n]) /\ alerted'[n] = Older(alerted[n])
        BY <2>9 DEF Tick
      <4>2. state[n].overSince \in Ages \cup {Never} /\ fine[n] \in Ages \cup {Never}
        BY DEF EngineInv, EngineTypeOK, ruleState
      <4>3. QED BY <4>1, <4>2, OlderAge DEF EngineInv, Ages, Never
    <3>4. ASSUME NEW n \in Targets, todo'[n].is = "silent" PROVE todo'[n].since <= started'
      <4>1. todo' = todo /\ todo[n] \in Readings
        BY <2>9 DEF Tick, EngineInv, EngineTypeOK
      <4>2. todo[n].since \in Ages
        BY <3>4, <4>1 DEF Readings, Skip
      <4>3. started \in Ages /\ todo[n].since <= started
        BY <3>4, <4>1 DEF EngineInv, EngineTypeOK
      <4>4. QED BY <3>1, <4>1, <4>2, <4>3 DEF Ages
    <3>5. QED BY <2>9, <3>1, <3>2, <3>3, <3>4 DEF Tick, EngineInv, EngineTypeOK
  <2>10. CASE Restart
    BY <2>10 DEF Restart, EngineInv, EngineTypeOK, Fresh, NoState,
      ruleState, Readings, Skip, Ages, Never
  <2>11. CASE UNCHANGED engineVars
    BY <2>11 DEF engineVars, EngineInv, EngineTypeOK
  <2>12. QED
    BY <2>1, <2>2, <2>3, <2>4, <2>5, <2>6, <2>7, <2>8, <2>9, <2>10, <2>11
       DEF EngineNext, evaluate, Handlers, Cluster
<1>3. QED BY <1>1, <1>2, PTL DEF EngineSpec

\* The only step that triggers an alert is that of a breach that Fires.
LEMMA OnlyBreachTriggers ==
  ASSUME EngineInv, [EngineNext]_engineVars, NEW n \in Targets, Triggers(n)
  PROVE  todo[n] # Skip /\ Breach(n) /\ Fires(n)
<1> USE DEF world, engineState, bounds, Triggers, EngineInv, EngineTypeOK
<1>1. ASSUME NEW k \in Targets, processBreach(k)
      PROVE  todo[n] # Skip /\ Breach(n) /\ Fires(n)
  BY <1>1 DEF processBreach, ruleState
<1>2. ASSUME NEW k \in Targets, processClear(k) PROVE FALSE
  BY <1>2 DEF processClear
<1>3. CASE CreateAlertRule \/ Restart
  BY <1>3 DEF CreateAlertRule, Restart, Fresh, NoState
<1>4. CASE Tick
  BY <1>4, Zenon DEF Tick
<1>5. CASE Load \/ UpdateAlertRule \/ DeleteAlertRule \/ Cluster \/ UNCHANGED engineVars
  BY <1>5, Zenon DEF Load, UpdateAlertRule, DeleteAlertRule, Cluster,
    Measure, Connect,
              UpsertRow, Heartbeat, Disconnect, Forget, engineVars
<1>6. QED BY <1>1, <1>2, <1>3, <1>4, <1>5 DEF EngineNext, evaluate, Handlers

\* Every reachable state of the alert engine is well-typed; in particular no
\* evaluation looks at a node without a row (knownNodes).
THEOREM EngineTypeInvariant ==
  EngineSpec => []EngineTypeOK
<1>1. EngineInv => EngineTypeOK BY DEF EngineInv
<1>2. QED BY <1>1, EngineInvariance, PTL

\* processBreach alerts only when no evaluation in the last duration_sec found
\* the target within bounds.
THEOREM DurationHeld ==
  EngineSpec => NoEarlyAlarm
<1>1. EngineInv /\ [EngineNext]_engineVars =>
        [\A n \in Targets : Triggers(n) => fine[n] = Never \/ fine[n] >= Duration]_engineVars
  <2> SUFFICES ASSUME EngineInv, [EngineNext]_engineVars, NEW n \in Targets, Triggers(n)
               PROVE  fine[n] = Never \/ fine[n] >= Duration
    OBVIOUS
  <2>1. Since(n) >= Duration
    BY OnlyBreachTriggers DEF Fires
  <2>2. QED
    BY <2>1, AgesAssumption, BoundsAssumption DEF Since, EngineInv, EngineTypeOK,
      ruleState, Ages, Never
<1>2. QED BY <1>1, EngineInvariance, PTL DEF EngineSpec, NoEarlyAlarm

\* Two alerts of processBreach for a target are cooldown_sec apart.
THEOREM CooldownHeld ==
  EngineSpec => CooldownSpaced
<1>1. EngineInv /\ [EngineNext]_engineVars =>
        [\A n \in Targets : Triggers(n) => alerted[n] = Never \/ alerted[n] >= Cooldown]_engineVars
  <2> SUFFICES ASSUME EngineInv, [EngineNext]_engineVars, NEW n \in Targets, Triggers(n)
               PROVE  alerted[n] = Never \/ alerted[n] >= Cooldown
    OBVIOUS
  <2>1. QED BY OnlyBreachTriggers DEF Fires, EngineInv
<1>2. QED BY <1>1, EngineInvariance, PTL DEF EngineSpec, CooldownSpaced

\* evalNodeOffline reports no node that is connected, and none before the leader
\* has run for longer than the threshold.
THEOREM RestartGrace ==
  EngineSpec => NoFalseOffline
<1>1. EngineInv /\ [EngineNext]_engineVars =>
        [\A n \in Targets : Triggers(n) /\ todo[n].is = "silent" =>
           n \notin connected /\ started > Threshold]_engineVars
  <2> SUFFICES ASSUME EngineInv, [EngineNext]_engineVars, NEW n \in Targets, Triggers(n),
                      todo[n].is = "silent"
               PROVE  n \notin connected /\ started > Threshold
    OBVIOUS
  <2>1. n \notin connected /\ todo[n].since > Threshold /\ todo[n].since <= started
    BY OnlyBreachTriggers DEF Breach, EngineInv
  <2>2. todo[n].since \in Ages /\ started \in Ages
    BY DEF EngineInv, EngineTypeOK, Readings, Skip
  <2>3. QED BY <2>1, <2>2, AgesAssumption, BoundsAssumption DEF Ages
<1>2. QED BY <1>1, EngineInvariance, PTL DEF EngineSpec, NoFalseOffline

-----------------------------------------------------------------------------
(* Alerts on their way out (module AlertDelivery), for every set of        *)
(* browsers and handlers, every capacity and any number of alerts.  The    *)
(* webhook's cache, the posts and the hub share no state: each has its own *)
(* inductive invariant.                                                    *)

-----------------------------------------------------------------------------
(* The posts.                                                              *)

\* What is posted again was never accepted: only a 429 leads to another attempt.
PostInv ==
  /\ doubled = FALSE
  /\ \A p \in posts : "got" \in DOMAIN p /\ p.got = 0

\* A post that starts has been accepted by nobody.
LEMMA StartPostKeeps ==
  ASSUME PostInv, NEW u, StartPost(u)
  PROVE  PostInv'
  BY DEF PostInv, StartPost

\* An answer that is repeated after did not accept the message.
LEMMA RetriedIsRefused ==
  ASSUME NEW u, NEW answer \in Answers(u)
  PROVE  answer.got \in {0, 1} /\ (Retries(answer) => answer.got = 0)
  BY DEF Answers, Retries

\* Every step keeps what is known of the posts.
LEMMA PostStep == PostInv /\ [DeliveryNext]_deliveryVars => PostInv'
<1> SUFFICES ASSUME PostInv, [DeliveryNext]_deliveryVars PROVE PostInv'
  OBVIOUS
<1> USE DEF posting, webhook, channels
<1>1. CASE Post
  <2>1. PICK p \in posts : \E answer \in Answers(p.url) :
          LET q == [p EXCEPT !.attempt = @ + 1, !.got = @ + answer.got] IN
          /\ posts' = (posts \ {p}) \cup (IF Retries(answer) /\ p.attempt < Tries THEN {q} ELSE {})
          /\ doubled' = (doubled \/ q.got > 1)
    BY <1>1, Zenon DEF Post
  <2>2. PICK answer \in Answers(p.url) :
          LET q == [p EXCEPT !.attempt = @ + 1, !.got = @ + answer.got] IN
          /\ posts' = (posts \ {p}) \cup (IF Retries(answer) /\ p.attempt < Tries THEN {q} ELSE {})
          /\ doubled' = (doubled \/ q.got > 1)
    BY <2>1, Zenon
  <2> DEFINE q == [p EXCEPT !.attempt = @ + 1, !.got = @ + answer.got]
  <2>3. "got" \in DOMAIN p /\ p.got = 0 BY DEF PostInv
  <2>4. answer.got \in {0, 1} /\ (Retries(answer) => answer.got = 0)
    BY RetriedIsRefused
  <2>5. "got" \in DOMAIN q /\ q.got = answer.got BY <2>3, <2>4
  <2>6. doubled' = FALSE
    <3>1. ~(q.got > 1) BY <2>4, <2>5
    <3>2. QED BY <2>2, <3>1, Zenon DEF PostInv
  <2>7. ASSUME NEW r \in posts'
        PROVE  "got" \in DOMAIN r /\ r.got = 0
    <3>1. CASE r \in posts BY <3>1 DEF PostInv
    <3>2. CASE r = q /\ Retries(answer) BY <2>4, <2>5, <3>2
    <3>3. QED BY <2>2, <3>1, <3>2
  <2>8. QED BY <2>6, <2>7 DEF PostInv
<1>2. CASE fire \/ QueryRow
  BY <1>2 DEF fire, QueryRow, PostInv
<1>3. CASE CacheLookup
  BY <1>3, StartPostKeeps, Zenon DEF CacheLookup, PostInv
<1>4. CASE StoreURL
  BY <1>4, StartPostKeeps DEF StoreURL
<1>5. ASSUME NEW h \in Admins, Edit(h) PROVE PostInv'
  <2>1. CASE TestWebhook(h) BY <2>1, StartPostKeeps DEF TestWebhook
  <2>2. CASE UpdateWebhook(h) \/ DeleteWebhook(h) \/ InvalidateWebhook(h)
    BY <2>2 DEF UpdateWebhook, DeleteWebhook,
      InvalidateWebhook, PostInv
  <2>3. QED BY <1>5, <2>1, <2>2 DEF Edit
<1>6. CASE Run
  BY <1>6 DEF Run, TakeRegister, TakeUnregister,
    TakeBroadcast, Ping, Stop, PostInv
<1>7. ASSUME NEW c \in Clients, ServeHTTP(c) PROVE PostInv'
  BY <1>7 DEF ServeHTTP, Subscribe, Show, Hangup,
    Unsubscribe, PostInv
<1>8. CASE UNCHANGED deliveryVars BY <1>8 DEF deliveryVars, PostInv
<1>9. QED BY <1>1, <1>2, <1>3, <1>4, <1>5, <1>6, <1>7, <1>8 DEF DeliveryNext, Fire

\* A message is accepted at most once, for any number of attempts, alerts and probes
\* (Client.Post).
THEOREM NotTwice == DeliverySpec => []AtMostOnce
<1>1. DeliveryInit => PostInv BY DEF DeliveryInit, PostInv
<1>2. PostInv => AtMostOnce BY DEF PostInv, AtMostOnce
<1>3. QED BY <1>1, <1>2, PostStep, PTL DEF DeliverySpec

-----------------------------------------------------------------------------
(* The cached URL.                                                         *)

AnyURL == URLs \cup {NoURL, Masked, Bullets}
Rows   == [url : AnyURL, enabled : BOOLEAN]
Engines == [at : {"idle", "cached", "query", "store"}, url : AnyURL, stale : BOOLEAN]

\* What the engine read and has still to store is the row, or it knows better.
ReadIsRow ==
  engine.at = "store" /\ ~engine.stale => hook = [url |-> engine.url, enabled |-> TRUE]

CacheInv ==
  /\ hook \in Rows /\ engine \in Engines /\ admin \in [Admins -> {"idle", "invalidate"}]
  /\ ReadIsRow /\ CacheIsCurrent

\* What a handler writes of a URL is in the row or was asked for.
LEMMA KeptIsURL ==
  ASSUME hook \in Rows, NEW u \in Inputs, NEW on \in BOOLEAN
  PROVE  [url |-> Kept(u), enabled |-> on] \in Rows
<1>1. hook.url \in AnyURL BY DEF Rows
<1>2. u \in AnyURL BY <1>1 DEF Inputs, maskURL, AnyURL, URLs
<1>3. QED BY <1>1, <1>2 DEF Kept, Rows

\* A row that changes makes what was read of it stale.
LEMMA WriteRowKeeps ==
  ASSUME CacheInv, NEW row \in Rows, WriteRow(row)
  PROVE  hook' \in Rows /\ engine' \in Engines /\ ReadIsRow'
<1>1. hook' = row /\ engine' \in Engines
  BY Zenon DEF CacheInv, WriteRow, Engines
<1>2. ReadIsRow'
  BY Zenon DEF CacheInv, WriteRow, Engines, ReadIsRow
<1>3. QED BY <1>1, <1>2

\* Every step keeps the cached URL tied to the row it was read from.
LEMMA CacheStep == CacheInv /\ [DeliveryNext]_deliveryVars => CacheInv'
<1> SUFFICES ASSUME CacheInv, [DeliveryNext]_deliveryVars PROVE CacheInv'
  OBVIOUS
<1> USE DEF posting, webhook, channels
<1>0. Idle \in Engines /\ Idle.at # "store"
  BY DEF Idle, Engines, AnyURL
<1>1. CASE fire
  BY <1>0, <1>1, Zenon DEF fire, CacheInv, CacheIsCurrent, ReadIsRow,
    Idle, Engines, AnyURL
<1>2. CASE CacheLookup
  BY <1>0, <1>2 DEF CacheLookup, CacheInv, CacheIsCurrent, ReadIsRow, Engines
<1>3. CASE QueryRow
  BY <1>0, <1>3, Zenon DEF QueryRow, CacheInv, CacheIsCurrent,
    ReadIsRow, Engines, Rows
<1>4. CASE StoreURL
  BY <1>0, <1>4 DEF StoreURL, CacheInv, CacheIsCurrent, ReadIsRow, Engines
<1>5. ASSUME NEW h \in Admins, Edit(h) PROVE CacheInv'
  <2>1. CASE UpdateWebhook(h)
    <3>1. PICK u \in Inputs, on \in BOOLEAN :
            IF hook = NoRow THEN UNCHANGED <<hook, engine>>
                            ELSE WriteRow([url |-> Kept(u), enabled |-> on])
      BY <2>1, Zenon DEF UpdateWebhook
    <3>2. hook' \in Rows /\ engine' \in Engines /\ ReadIsRow'
      BY <3>1, KeptIsURL, WriteRowKeeps DEF CacheInv, ReadIsRow
    <3>3. admin' \in [Admins -> {"idle", "invalidate"}] /\ admin'[h] = "invalidate"
      BY <2>1 DEF UpdateWebhook, CacheInv
    <3>4. QED BY <3>2, <3>3 DEF CacheInv, CacheIsCurrent
  <2>2. CASE DeleteWebhook(h)
    <3>1. NoRow \in Rows BY DEF NoRow, Rows, AnyURL
    <3>2. hook' \in Rows /\ engine' \in Engines /\ ReadIsRow'
      BY <2>2, <3>1, WriteRowKeeps DEF DeleteWebhook
    <3>3. admin' \in [Admins -> {"idle", "invalidate"}] /\ admin'[h] = "invalidate"
      BY <2>2, Zenon DEF DeleteWebhook, CacheInv
    <3>4. QED BY <3>2, <3>3 DEF CacheInv, CacheIsCurrent
  <2>3. CASE InvalidateWebhook(h)
    BY <2>3, Zenon DEF InvalidateWebhook, CacheInv, CacheIsCurrent, ReadIsRow
  <2>4. CASE TestWebhook(h)
    BY <2>4, Zenon DEF TestWebhook, CacheInv, CacheIsCurrent, ReadIsRow
  <2>5. QED BY <1>5, <2>1, <2>2, <2>3, <2>4 DEF Edit
<1>6. ASSUME UNCHANGED webhook PROVE CacheInv'
  BY <1>6, Zenon DEF CacheInv, CacheIsCurrent, ReadIsRow
<1>7. CASE Post
  <2>1. UNCHANGED webhook BY <1>7 DEF Post
  <2>2. QED BY <1>6, <2>1
<1>8. CASE Run \/ (\E c \in Clients : ServeHTTP(c)) \/ UNCHANGED deliveryVars
  <2>1. UNCHANGED webhook
    BY <1>8, Zenon DEF Run, TakeRegister, TakeUnregister,
      TakeBroadcast, Ping, Stop,
                ServeHTTP, Subscribe, Show, Hangup, Unsubscribe, deliveryVars
  <2>2. QED BY <1>6, <2>1
<1>9. QED BY <1>1, <1>2, <1>3, <1>4, <1>5, <1>7, <1>8 DEF DeliveryNext, Fire

\* The cache holds the URL of the enabled row, but for an edit that is about to drop
\* it and for a lookup that raced one: for any number of handlers (webhookURL,
\* InvalidateWebhook, UpdateWebhook, DeleteWebhook).
THEOREM CacheCurrent == DeliverySpec => []CacheIsCurrent
<1>1. DeliveryInit => CacheInv
  <2> SUFFICES ASSUME DeliveryInit PROVE CacheInv
    OBVIOUS
  <2>1. hook \in Rows
    <3>1. NoRow \in Rows BY DEF NoRow, Rows, AnyURL
    <3>2. Created \subseteq Rows BY DEF Created, Rows, AnyURL
    <3>3. QED BY <3>1, <3>2 DEF DeliveryInit
  <2>2. QED
    BY <2>1 DEF DeliveryInit, CacheInv, CacheIsCurrent, ReadIsRow,
      Idle, Engines, AnyURL
<1>2. CacheInv => CacheIsCurrent BY DEF CacheInv
<1>3. QED BY <1>1, <1>2, CacheStep, PTL DEF DeliverySpec

-----------------------------------------------------------------------------
(* The hub.                                                                *)

ClientStates ==
  [at : {"new", "open", "leaving", "gone"}, ch : Int, closed : BOOLEAN]

HubTyped ==
  /\ panicked = FALSE
  /\ register \in Seq(Clients) /\ unregister \in Seq(Clients) /\ subs \subseteq Clients
  /\ client \in [Clients -> ClientStates]

\* A request registers once, and the hub has not seen it before.
RegistersOnce ==
  /\ \A i, j \in 1 .. Len(register) : register[i] = register[j] => i = j
  /\ \A i \in 1 .. Len(register) :
       /\ client[register[i]].at # "new"
       /\ register[i] \notin subs /\ ~client[register[i]].closed
  /\ \A c \in Clients : client[c].at = "new" => c \notin subs /\ ~client[c].closed

\* The channels in the map of a running hub are open.
SubsAreOpen == hub = "running" => \A c \in subs : ~client[c].closed

HubInv == HubTyped /\ RegistersOnce /\ SubsAreOpen

\* A request that goes on, in whatever way, neither returns to its start nor opens
\* or closes its channel.
LEMMA ClientMoves ==
  ASSUME HubInv, UNCHANGED <<register, hub, subs, panicked>>, unregister' \in Seq(Clients),
         client' \in [Clients -> ClientStates],
         \A c \in Clients : /\ client'[c].closed = client[c].closed
                            /\ client'[c].at = "new" => client[c].at = "new"
  PROVE  HubInv'
<1>1. HubTyped' BY DEF HubInv, HubTyped
<1>2. \A i \in 1 .. Len(register) : register[i] \in Clients BY DEF HubInv, HubTyped
<1>3. RegistersOnce' BY <1>2 DEF HubInv, RegistersOnce
<1>4. SubsAreOpen' BY DEF HubInv, HubTyped, SubsAreOpen
<1>5. QED BY <1>1, <1>3, <1>4 DEF HubInv

\* A step of one browser keeps its channel open while the hub may send to it.
LEMMA ServeStep ==
  ASSUME HubInv, NEW c \in Clients, ServeHTTP(c)
  PROVE  HubInv'
<1>1. CASE Subscribe(c)
  <2>1. /\ register' = Append(register, c) /\ client[c].at = "new"
        /\ client' = [client EXCEPT ![c].at = "open"]
        /\ UNCHANGED <<unregister, hub, subs, panicked>>
    BY <1>1 DEF Subscribe
  <2>2. /\ register \in Seq(Clients) /\ Len(register) \in Nat
        /\ Len(register') = Len(register) + 1 /\ register' \in Seq(Clients)
        /\ \A i \in 1 .. Len(register) : register'[i] = register[i] /\ register[i] \in Clients
        /\ register'[Len(register) + 1] = c
    BY <2>1 DEF HubInv, HubTyped
  <2>3. client' \in [Clients -> ClientStates] BY <2>1, Zenon DEF HubInv, HubTyped, ClientStates
  <2>4. /\ client'[c].at # "new" /\ client'[c].closed = client[c].closed
        /\ \A d \in Clients \ {c} : client'[d] = client[d]
    BY <2>1 DEF HubInv, HubTyped, ClientStates
  <2>5. HubTyped' BY <2>1, <2>2, <2>3 DEF HubInv, HubTyped
  <2>6. RegistersOnce'
    <3>1. c \notin subs /\ ~client[c].closed /\ \A i \in 1 .. Len(register) : register[i] # c
      BY <2>1, Zenon DEF HubInv, RegistersOnce
    <3>2. \A i, j \in 1 .. Len(register') : register'[i] = register'[j] => i = j
      BY <2>2, <3>1 DEF HubInv, RegistersOnce
    <3>3. ASSUME NEW i \in 1 .. Len(register')
          PROVE  /\ client'[register'[i]].at # "new"
                 /\ register'[i] \notin subs' /\ ~client'[register'[i]].closed
      <4>1. CASE i = Len(register) + 1 BY <2>1, <2>2, <2>4, <3>1, <4>1
      <4>2. CASE i \in 1 .. Len(register)
        <5>1. register'[i] = register[i] /\ register[i] \in Clients \ {c} BY <2>2, <3>1, <4>2
        <5>2. QED BY <2>1, <2>4, <4>2, <5>1 DEF HubInv, RegistersOnce
      <4>3. QED BY <2>2, <4>1, <4>2
    <3>4. \A d \in Clients : client'[d].at = "new" => d \notin subs' /\ ~client'[d].closed
      BY <2>1, <2>4 DEF HubInv, RegistersOnce
    <3>5. QED BY <3>2, <3>3, <3>4 DEF RegistersOnce
  <2>7. SubsAreOpen' BY <2>1, <2>4 DEF HubInv, HubTyped, SubsAreOpen
  <2>8. QED BY <2>5, <2>6, <2>7 DEF HubInv
<1>2. CASE Show(c)
  <2> DEFINE shown  == [client EXCEPT ![c].ch = @ - 1]
             leaves == [client EXCEPT ![c].at = "leaving"]
  <2>1. client' = shown \/ client' = leaves BY <1>2 DEF Show
  <2>2. /\ shown \in [Clients -> ClientStates]
        /\ \A d \in Clients : shown[d].closed = client[d].closed /\ shown[d].at = client[d].at
    BY DEF HubInv, HubTyped, ClientStates
  <2>3. /\ leaves \in [Clients -> ClientStates]
        /\ \A d \in Clients : /\ leaves[d].closed = client[d].closed
                              /\ leaves[d].at = "new" => client[d].at = "new"
    BY Zenon DEF HubInv, HubTyped, ClientStates
  <2>4. /\ client' \in [Clients -> ClientStates]
        /\ \A d \in Clients : /\ client'[d].closed = client[d].closed
                              /\ client'[d].at = "new" => client[d].at = "new"
    BY <2>1, <2>2, <2>3, Zenon
  <2>5. QED BY <1>2, <2>4, ClientMoves, Zenon DEF Show, HubInv, HubTyped
<1>3. CASE Hangup(c)
  <2>1. /\ client' \in [Clients -> ClientStates]
        /\ \A d \in Clients : /\ client'[d].closed = client[d].closed
                              /\ client'[d].at = "new" => client[d].at = "new"
    BY <1>3, Zenon DEF Hangup, HubInv, HubTyped, ClientStates
  <2>2. QED BY <1>3, <2>1, ClientMoves, Zenon DEF Hangup, HubInv, HubTyped
<1>4. CASE Unsubscribe(c)
  <2>1. /\ client' \in [Clients -> ClientStates]
        /\ \A d \in Clients : /\ client'[d].closed = client[d].closed
                              /\ client'[d].at = "new" => client[d].at = "new"
    <3>1. client \in [Clients -> ClientStates] BY DEF HubInv, HubTyped
    <3> DEFINE left == [client[c] EXCEPT !.at = "gone"]
               gone == [left EXCEPT !.ch = 0]
    <3>2. left \in ClientStates /\ left.closed = client[c].closed /\ left.at = "gone"
      BY <3>1 DEF ClientStates
    <3>3. client' = [client EXCEPT ![c] = gone] BY <1>4, <3>1, Zenon DEF Unsubscribe
    <3> HIDE DEF left
    <3>4. gone \in ClientStates /\ gone.closed = left.closed /\ gone.at = left.at
      BY <3>2 DEF ClientStates
    <3> HIDE DEF gone
    <3>5. QED BY <3>1, <3>2, <3>3, <3>4
  <2>2. unregister' \in Seq(Clients)
    BY <1>4 DEF Unsubscribe, HubInv, HubTyped
  <2>3. QED BY <1>4, <2>1, <2>2, ClientMoves DEF Unsubscribe
<1>5. QED BY <1>1, <1>2, <1>3, <1>4 DEF ServeHTTP

\* An event goes only to open channels.
LEMMA SendAllKeeps ==
  ASSUME HubInv, hub = "running", SendAll, UNCHANGED <<register, unregister, hub, subs>>
  PROVE  HubInv'
<1>1. panicked' = FALSE
  <2>1. ~ \E c \in subs : client[c].closed BY DEF HubInv, SubsAreOpen
  <2>2. QED BY <2>1, Zenon DEF SendAll, HubInv, HubTyped
<1>2. ASSUME NEW d \in Clients
      PROVE  /\ client'[d] \in ClientStates
             /\ client'[d].closed = client[d].closed
             /\ client'[d].at = "new" => client[d].at = "new"
  <2>1. client[d] \in ClientStates BY DEF HubInv, HubTyped
  <2>2. client'[d] = client[d] \/ client'[d] = [client[d] EXCEPT !.ch = @ + 1]
    BY DEF SendAll
  <2>3. QED BY <2>1, <2>2 DEF ClientStates
<1>3. client' \in [Clients -> ClientStates]
  <2>1. client' = [d \in Clients |-> client'[d]] BY DEF SendAll
  <2>2. QED BY <1>2, <2>1
<1>4. QED BY <1>1, <1>2, <1>3, ClientMoves, Zenon DEF HubInv, HubTyped

\* Closing subscribers of the map that then leave it, or with them the hub.
LEMMA CloseKeeps ==
  ASSUME HubInv, hub = "running", NEW set \in SUBSET subs, Close(set),
         register' = register, unregister' \in Seq(Clients),
         subs' \subseteq subs, hub' = "running" => subs' \cap set = {}
  PROVE  HubInv'
<1>1. panicked' = FALSE
  <2>1. ~ \E c \in set : client[c].closed BY DEF HubInv, SubsAreOpen
  <2>2. QED BY <2>1, Zenon DEF Close, HubInv, HubTyped
<1>2. ASSUME NEW d \in Clients
      PROVE  /\ client'[d] \in ClientStates /\ client'[d].at = client[d].at
             /\ d \notin set => client'[d] = client[d]
  <2>1. client[d] \in ClientStates BY DEF HubInv, HubTyped
  <2>2. client'[d] = IF d \in set THEN [client[d] EXCEPT !.closed = TRUE] ELSE client[d]
    BY DEF Close
  <2>3. QED BY <2>1, <2>2, Zenon DEF ClientStates
<1>3. HubTyped'
  <2>1. client' = [d \in Clients |-> client'[d]] BY DEF Close
  <2>2. QED BY <1>1, <1>2, <2>1 DEF HubInv, HubTyped
<1>4. RegistersOnce'
  <2>1. \A i \in 1 .. Len(register) : register[i] \in Clients /\ register[i] \notin subs
    BY DEF HubInv, HubTyped, RegistersOnce
  <2>2. \A i \in 1 .. Len(register) : client'[register[i]] = client[register[i]]
    BY <1>2, <2>1
  <2>3. \A d \in Clients : client'[d].at = "new" => d \notin subs' /\ ~client'[d].closed
    BY <1>2 DEF HubInv, RegistersOnce
  <2>4. QED BY <2>1, <2>2, <2>3 DEF HubInv, RegistersOnce
<1>5. SubsAreOpen' BY <1>2 DEF HubInv, HubTyped, SubsAreOpen
<1>6. QED BY <1>3, <1>4, <1>5 DEF HubInv

\* Every step of the hub sends only to channels that are open and closes each one once.
LEMMA RunStep ==
  ASSUME HubInv, Run
  PROVE  HubInv'
<1>1. CASE TakeRegister
  <2>1. /\ register # <<>> /\ register' = Tail(register) /\ subs' = subs \cup {register[1]}
        /\ UNCHANGED <<unregister, hub, client, panicked>>
    BY <1>1 DEF TakeRegister
  <2>2. /\ Len(register) \in Nat \ {0} /\ Len(register') = Len(register) - 1
        /\ register' \in Seq(Clients) /\ register[1] \in Clients
        /\ \A i \in 1 .. Len(register') : i + 1 \in 1 .. Len(register) /\ register'[i] = register[i + 1]
    BY <2>1 DEF HubInv, HubTyped
  <2>3. HubTyped' BY <2>1, <2>2 DEF HubInv, HubTyped
  <2>4. RegistersOnce'
    <3>1. 1 \in 1 .. Len(register) BY <2>2
    <3>2. \A i, j \in 1 .. Len(register') : register'[i] = register'[j] => i = j
      <4> SUFFICES ASSUME NEW i \in 1 .. Len(register'), NEW j \in 1 .. Len(register'),
                          register'[i] = register'[j]
                   PROVE  i = j
        OBVIOUS
      <4>1. i + 1 = j + 1 BY <2>2 DEF HubInv, RegistersOnce
      <4>2. QED BY <2>2, <4>1
    <3>3. ASSUME NEW i \in 1 .. Len(register')
          PROVE  /\ client'[register'[i]].at # "new"
                 /\ register'[i] \notin subs' /\ ~client'[register'[i]].closed
      <4>1. register[i + 1] # register[1]
        <5>1. i + 1 # 1 BY <2>2
        <5>2. QED BY <2>2, <3>1, <5>1 DEF HubInv, RegistersOnce
      <4>2. QED BY <2>1, <2>2, <4>1 DEF HubInv, RegistersOnce
    <3>4. client[register[1]].at # "new" BY <3>1 DEF HubInv, RegistersOnce
    <3>5. \A d \in Clients : client'[d].at = "new" => d \notin subs' /\ ~client'[d].closed
      BY <2>1, <3>4 DEF HubInv, RegistersOnce
    <3>6. QED BY <3>2, <3>3, <3>5 DEF RegistersOnce
  <2>5. SubsAreOpen'
    <3>1. ~client[register[1]].closed BY <2>2 DEF HubInv, RegistersOnce
    <3>2. QED BY <2>1, <3>1 DEF HubInv, SubsAreOpen
  <2>6. QED BY <2>3, <2>4, <2>5 DEF HubInv
<1>2. CASE TakeUnregister
  <2>1. unregister' \in Seq(Clients)
    BY <1>2 DEF TakeUnregister, HubInv, HubTyped
  <2>2. QED BY <1>2, <2>1, CloseKeeps DEF TakeUnregister
<1>3. CASE TakeBroadcast \/ Ping
  BY <1>3, SendAllKeeps DEF TakeBroadcast, Ping
<1>4. CASE Stop
  BY <1>4, CloseKeeps, Zenon DEF Stop, HubInv, HubTyped
<1>5. QED BY <1>1, <1>2, <1>3, <1>4 DEF Run

\* The hub sends on no closed channel and closes none twice, for any number of
\* browsers and any order of their coming and going (Hub.Run, ServeHTTP).
THEOREM HubSafe == DeliverySpec => []HubNeverPanics
<1>1. DeliveryInit => HubInv
  <2> SUFFICES ASSUME DeliveryInit PROVE HubInv
    OBVIOUS
  <2>1. HubTyped BY DEF DeliveryInit, HubTyped, NewClient, ClientStates
  <2>2. RegistersOnce /\ SubsAreOpen
    BY DEF DeliveryInit, RegistersOnce, SubsAreOpen, NewClient
  <2>3. QED BY <2>1, <2>2 DEF HubInv
<1>2. HubInv /\ [DeliveryNext]_deliveryVars => HubInv'
  <2> SUFFICES ASSUME HubInv, [DeliveryNext]_deliveryVars PROVE HubInv'
    OBVIOUS
  <2>1. CASE Fire \/ Post \/ (\E h \in Admins : Edit(h)) \/ UNCHANGED deliveryVars
    <3>1. UNCHANGED channels
      BY <2>1, Zenon DEF Fire, fire, CacheLookup,
        QueryRow, StoreURL, Post, Edit,
        UpdateWebhook,
                  DeleteWebhook, InvalidateWebhook, TestWebhook, deliveryVars, channels
    <3>2. QED BY <3>1 DEF HubInv, HubTyped, RegistersOnce, SubsAreOpen, channels
  <2>2. CASE Run BY <2>2, RunStep
  <2>3. CASE \E c \in Clients : ServeHTTP(c) BY <2>3, ServeStep
  <2>4. QED BY <2>1, <2>2, <2>3 DEF DeliveryNext
<1>3. HubInv => HubNeverPanics BY DEF HubInv, HubTyped, HubNeverPanics
<1>4. QED BY <1>1, <1>2, <1>3, PTL DEF DeliverySpec

=============================================================================
