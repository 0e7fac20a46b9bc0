---------------------------- MODULE AlertEngine ----------------------------
(***************************************************************************)
(* The alert engine for one rule.  Every few seconds the engine loads the  *)
(* enabled rules, takes a snapshot of what the rule looks at, and runs its *)
(* hysteresis (processBreach) for each target: a breach must hold for      *)
(* duration_sec, an alert is followed by a cooldown, and a cleared breach  *)
(* is announced as recovered.  Meanwhile values change, nodes come and go, *)
(* handlers change the rule, and the leader restarts.                      *)
(*                                                                         *)
(* A point in time is kept as its age, counted up to Horizon: the code     *)
(* only compares ages with constants below it.  Rules share no state, so   *)
(* one is enough.  Its numbers do not change, and its comparator is the    *)
(* default one; a target its scope leaves out is one the snapshot does not *)
(* hold.  Where an alert is posted to is not modelled.                     *)
(***************************************************************************)
EXTENDS Integers

CONSTANTS Targets,     \* the rule's targets: nodes, or containers on them
          Duration,    \* duration_sec
          Cooldown,    \* cooldown_sec
          Threshold,   \* the threshold of a node_offline rule
          Horizon,     \* ages are not told apart beyond this
          MaxStarts,   \* bound on the restarts of the leader
          MaxRules     \* bound on the rules created one after the other

ASSUME AgesAssumption ==
  /\ Horizon \in Nat
  /\ Duration \in 0..Horizon /\ Cooldown \in 0..Horizon
  /\ Threshold \in 0..(Horizon - 1)
ASSUME BoundsAssumption == MaxStarts \in Nat /\ MaxRules \in Nat \ {0}

Ages  == 0..Horizon
Never == -1         \* time.Time{}, and an age nobody has

\* node_offline, or a rule on values: a metric, or container_crashed.
Kinds == {"offline", "value"}
NoRule == [kind |-> "none", enabled |-> FALSE]

VARIABLES
  rule,      \* the row of alert_rules
  value,     \* what the stores say of a target: "absent", "fine" or "over"
  connected, \* AgentRegistry: the connected nodes
  seen,      \* age of nodes.last_seen, Never without a row
  started,   \* age of AlertEngine.started
  state,     \* AlertEngine.state
  todo,      \* the evaluation under way: targets and what the snapshot says
  fine,      \* age of the last evaluation that found a target within bounds
  alerted,   \* age of the last "triggered" for a target
  starts, rules

ruleState == [overSince : Ages \cup {Never}, triggered : BOOLEAN,
              lastFired : Ages \cup {Never}]
NoState == [overSince |-> Never, triggered |-> FALSE, lastFired |-> Never]

engineState == <<state, todo, fine, alerted>>
world  == <<value, connected, seen>>
bounds == <<starts, rules>>
engineVars == <<rule, world, started, engineState, bounds>>

\* What the snapshot holds for a target: nothing, a verdict on a value, or for
\* how long a node was silent.
Skip == [is |-> "skip"]
Readings == {Skip} \cup [is : {"value"}, over : BOOLEAN]
                   \cup [is : {"silent"}, since : Ages]

EngineTypeOK ==
  /\ rule \in {NoRule} \cup [kind : Kinds, enabled : BOOLEAN]
  /\ value \in [Targets -> {"absent", "fine", "over"}]
  /\ connected \subseteq Targets
  /\ seen \in [Targets -> Ages \cup {Never}]
  /\ started \in Ages
  /\ state \in [Targets -> ruleState]
  /\ todo \in [Targets -> Readings]
  /\ fine \in [Targets -> Ages \cup {Never}]
  /\ alerted \in [Targets -> Ages \cup {Never}]
  /\ starts \in 0..MaxStarts
  /\ rules \in 1..MaxRules

Fresh(x) == [n \in Targets |-> x]

EngineInit ==
  /\ rule \in [kind : Kinds, enabled : {TRUE}]
  /\ value = Fresh("absent") /\ connected = {} /\ seen \in [Targets -> {Never, Horizon}]
  /\ started = 0
  /\ state = Fresh(NoState) /\ todo = Fresh(Skip)
  /\ fine = Fresh(Never) /\ alerted = Fresh(Never)
  /\ starts = 0 /\ rules = 1

Least(a, b) == IF a < b THEN a ELSE b

\* An age a moment later.
Older(a) == IF a = Never THEN Never ELSE Least(a + 1, Horizon)

-----------------------------------------------------------------------------
(* The engine, a single goroutine.                                         *)

EngineIdle == todo = Fresh(Skip)

\* Mutant: the time of the leader's start does not bound the silence.
SilenceUnbounded(n) == seen[n]

\* A node was silent since its last_seen, but not since before the leader ran.
Silence(n) == Least(seen[n], started)

\* What one evaluation sees of a target.
Reading(n) ==
  IF rule.kind = "offline"
  THEN IF seen[n] = Never THEN Skip ELSE [is |-> "silent", since |-> Silence(n)]
  ELSE IF value[n] = "absent" THEN Skip ELSE [is |-> "value", over |-> value[n] = "over"]

\* loadEnabledRules, then metrics.All, containers.All or knownNodes.
Load ==
  /\ EngineIdle /\ rule.enabled
  /\ todo' = [n \in Targets |-> Reading(n)]
  /\ UNCHANGED <<rule, world, started, state, fine, alerted, bounds>>

\* compare, with the default comparator; an online node is silent for 0 s.
Breach(n) ==
  IF todo[n].is = "silent" THEN n \notin connected /\ todo[n].since > Threshold
                           ELSE todo[n].over

\* Mutant: every breach starts the series again.
SinceNow(n) == 0

\* overSince is set by the first breach of a series.
Since(n) == IF state[n].overSince = Never THEN 0 ELSE state[n].overSince

Fires(n) ==
  /\ Since(n) >= Duration
  /\ ~state[n].triggered
  /\ state[n].lastFired = Never \/ state[n].lastFired >= Cooldown

processBreach(n) ==
  /\ todo[n] # Skip /\ Breach(n)
  /\ todo' = [todo EXCEPT ![n] = Skip]
  /\ IF Fires(n)
     THEN /\ state' = [state EXCEPT ![n] = [overSince |-> Since(n), triggered |-> TRUE,
                                            lastFired |-> 0]]
          /\ alerted' = [alerted EXCEPT ![n] = 0]
     ELSE /\ state' = [state EXCEPT ![n].overSince = Since(n)]
          /\ UNCHANGED alerted
  /\ UNCHANGED <<rule, world, started, fine, bounds>>

\* Mutant: overSince is cleared with the alert, and kept without one.
clearKeepsSince(n) ==
  /\ todo[n] # Skip /\ ~Breach(n)
  /\ todo' = [todo EXCEPT ![n] = Skip]
  /\ state' = [state EXCEPT ![n].overSince = IF state[n].triggered THEN Never ELSE @,
                            ![n].triggered = FALSE]
  /\ fine' = [fine EXCEPT ![n] = 0]
  /\ UNCHANGED <<rule, world, started, alerted, bounds>>

\* processBreach without a breach: an alert that was triggered has recovered.
processClear(n) ==
  /\ todo[n] # Skip /\ ~Breach(n)
  /\ todo' = [todo EXCEPT ![n] = Skip]
  /\ state' = [state EXCEPT ![n] = [overSince |-> Never, triggered |-> FALSE,
                                   lastFired |-> state[n].lastFired]]
  /\ fine' = [fine EXCEPT ![n] = 0]
  /\ UNCHANGED <<rule, world, started, alerted, bounds>>

-----------------------------------------------------------------------------
(* The handlers.                                                           *)

\* A new rule has a new id, and no state under it.  An evaluation of the rule
\* deleted before it touches another key: waiting for its end loses nothing.
CreateAlertRule ==
  /\ rule = NoRule /\ EngineIdle
  /\ rules < MaxRules /\ rules' = rules + 1
  /\ rule' \in [kind : Kinds, enabled : BOOLEAN]
  /\ state' = Fresh(NoState) /\ fine' = Fresh(Never) /\ alerted' = Fresh(Never)
  /\ UNCHANGED <<world, started, todo, starts>>

UpdateAlertRule ==
  /\ rule # NoRule
  /\ rule' \in [kind : Kinds, enabled : BOOLEAN]
  /\ UNCHANGED <<world, started, engineState, bounds>>

DeleteAlertRule ==
  /\ rule # NoRule
  /\ rule' = NoRule
  /\ UNCHANGED <<world, started, engineState, bounds>>

-----------------------------------------------------------------------------
(* What the engine observes.                                               *)

\* The metrics and container stores: reports, lost nodes and stored rows bring
\* any change, also for a node that is not connected.
Measure(n) ==
  /\ value' \in {[value EXCEPT ![n] = v] : v \in {"absent", "fine", "over"}}
  /\ UNCHANGED <<rule, connected, seen, started, engineState, bounds>>

Connect(n) ==
  /\ n \notin connected
  /\ connected' = connected \cup {n}
  /\ UNCHANGED <<rule, value, seen, started, engineState, bounds>>

\* Channel goes on to the row of the node.
UpsertRow(n) ==
  /\ seen' = [seen EXCEPT ![n] = 0]
  /\ UNCHANGED <<rule, value, connected, started, engineState, bounds>>

\* The UPDATE of a heartbeat, at times one of a stream that was superseded.
Heartbeat(n) ==
  /\ seen[n] # Never
  /\ seen' = [seen EXCEPT ![n] = 0]
  /\ UNCHANGED <<rule, value, connected, started, engineState, bounds>>

Disconnect(n) ==
  /\ n \in connected
  /\ connected' = connected \ {n}
  /\ UNCHANGED <<rule, value, seen, started, engineState, bounds>>

\* CleanupNodes deletes the row, at times that of a node that just connected.
Forget(n) ==
  /\ seen[n] # Never
  /\ seen' = [seen EXCEPT ![n] = Never]
  /\ UNCHANGED <<rule, value, connected, started, engineState, bounds>>

\* Time passes.
Tick ==
  /\ started' = Older(started)
  /\ seen' = [n \in Targets |-> Older(seen[n])]
  /\ fine' = [n \in Targets |-> Older(fine[n])]
  /\ alerted' = [n \in Targets |-> Older(alerted[n])]
  /\ state' = [n \in Targets |-> [overSince |-> Older(state[n].overSince),
                                  triggered |-> state[n].triggered,
                                  lastFired |-> Older(state[n].lastFired)]]
  /\ UNCHANGED <<rule, value, connected, todo, bounds>>

\* The leader restarts: registry, live values and the engine's state are gone.
Restart ==
  /\ starts < MaxStarts /\ starts' = starts + 1
  /\ started' = 0
  /\ value' = Fresh("absent") /\ connected' = {}
  /\ state' = Fresh(NoState) /\ todo' = Fresh(Skip)
  /\ fine' = Fresh(Never) /\ alerted' = Fresh(Never)
  /\ UNCHANGED <<rule, seen, rules>>

-----------------------------------------------------------------------------

evaluate == Load \/ \E n \in Targets : processBreach(n) \/ processClear(n)

Handlers == CreateAlertRule \/ UpdateAlertRule \/ DeleteAlertRule

Cluster == \E n \in Targets : Measure(n) \/ Connect(n) \/ UpsertRow(n)
                           \/ Heartbeat(n) \/ Disconnect(n) \/ Forget(n)

EngineNext == evaluate \/ Handlers \/ Cluster \/ Tick \/ Restart

EngineSpec == EngineInit /\ [][EngineNext]_engineVars

\* The engine's ticker fires and its loop goes through the targets; time passes.
EngineFairness ==
  /\ WF_engineVars(Tick) /\ WF_engineVars(Load)
  /\ \A n \in Targets : WF_engineVars(processBreach(n) \/ processClear(n))

EngineFairSpec == EngineSpec /\ EngineFairness

-----------------------------------------------------------------------------
(* Properties.                                                             *)

Triggers(n) == ~state[n].triggered /\ state'[n].triggered

\* An alert comes only when no evaluation in the last duration_sec found the
\* target within bounds, whatever was measured, edited or disabled in between
\* (overSince in processBreach).
NoEarlyAlarm ==
  [][\A n \in Targets : Triggers(n) => fine[n] = Never \/ fine[n] >= Duration]_engineVars

\* Two alerts for a target are cooldown_sec apart, also when it recovered in
\* between (lastFired survives a recovery).
CooldownSpaced ==
  [][\A n \in Targets : Triggers(n) => alerted[n] = Never \/ alerted[n] >= Cooldown]_engineVars

\* A node is reported offline only while it is not connected and once the leader
\* has run for longer than the threshold: a restart raises no alarms for agents
\* that are about to reconnect (started and the registry in evalNodeOffline).
NoFalseOffline ==
  [][\A n \in Targets : Triggers(n) /\ todo[n].is = "silent" =>
       n \notin connected /\ started > Threshold]_engineVars

Enabled(k) == rule = [kind |-> k, enabled |-> TRUE]

\* The alert of a rule follows what lasts: a breach is alerted in the end and a
\* cleared one recovers, after any flapping, edits and restarts before it, and
\* through the cooldown (evaluate, processBreach).
AlertFollows ==
  \A n \in Targets :
    /\ <>[](Enabled("value") /\ value[n] = "over") => <>[]state[n].triggered
    /\ <>[](Enabled("value") /\ value[n] = "fine") => <>[]~state[n].triggered
    /\ <>[](Enabled("offline") /\ n \notin connected /\ seen[n] > Threshold)
         => <>[]state[n].triggered
    /\ <>[](Enabled("offline") /\ n \in connected /\ seen[n] # Never)
         => <>[]~state[n].triggered
=============================================================================
