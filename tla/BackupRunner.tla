---------------------------- MODULE BackupRunner ----------------------------
(***************************************************************************)
(* The backup runner of the leader (internal/backup/runner.go) with the    *)
(* HTTP handlers that delete its rows (internal/leader/handlers_backup.go) *)
(* and the start-up reconciliation of the scheduler.                       *)
(*                                                                         *)
(* A run is a goroutine; runOneNode is a goroutine per target node.  Every *)
(* SQL statement and every agent request is a step of its own, so that the *)
(* handlers, the 4h deadline, a disconnecting agent and a crash of the     *)
(* leader can fall between any two of them.  SQLite executes a statement   *)
(* atomically; a statement on an expired context has no effect.            *)
(***************************************************************************)
EXTENDS Naturals, FiniteSets

CONSTANTS Plans,      \* plan ids (uuids, never reused)
          Runs,       \* run ids, one fresh id per accepted start
          Nodes,      \* agents
          Scope,      \* Scope[p]: the nodes a plan's scope_type/scope_value match
          Mode,       \* Mode[p]: webhook_mode ("never": no webhook configured)
          MaxCrashes  \* bound on the number of leader crashes

ASSUME ScopeAssumption == Scope \in [Plans -> SUBSET Nodes]
ASSUME ModeAssumption == Mode \in [Plans -> {"never", "on-error", "always"}]
ASSUME PlansAssumption == Plans # {}
ASSUME CrashAssumption == MaxCrashes \in Nat

VARIABLES
  up,         \* the leader process runs
  reconciled, \* ReconcileStaleRuns has executed in this process
  crashes,    \* how often the leader went down (bounded by MaxCrashes)
  planRow,    \* ids in backup_plans
  row,        \* backup_runs.status, "none" when there is no row
  item,       \* backup_run_items.status of (run, node), "none" when no row
  connected,  \* agents in the registry
  approved,   \* DeleteRun requests between their check and their DELETE
  inflight,   \* Runner.inflight
  pc,         \* control point of a run's goroutine
  of,         \* the plan a run executes (backup_runs.plan_id)
  dead,       \* the run's 4h context is past its deadline
  targets,    \* the nodes resolveScope returned
  npc,        \* control point of the goroutine of (run, node)
  res,        \* NodeResult.Status of (run, node)
  verdict,    \* the status handed to markFinished
  posted      \* the executing runs that called fireWebhook

process == <<up, reconciled, crashes>>
tables  == <<planRow, row, item>>
job     == <<pc, of, dead, targets, verdict>>
nodejob == <<npc, res>>
vars == <<process, tables, connected, approved, inflight, job,
          nodejob, posted>>

InFlight == {"pending", "running"}
Verdicts == {"success", "partial", "failed"}

\* Control points between the INSERT of the run's row and its last UPDATE.
Unfinished == {"scope", "mark", "s3", "fan", "finish"}
Busy       == {"load", "insert", "notify", "release"} \cup Unfinished

Live(r)   == pc[r] \in Busy
HasRow(r) == row[r] # "none"

NodesAt(x) == [n \in Nodes |-> x]

TypeOK ==
  /\ up \in BOOLEAN /\ reconciled \in BOOLEAN /\ crashes \in 0..MaxCrashes
  /\ planRow \subseteq Plans
  /\ row \in [Runs -> {"none"} \cup InFlight \cup Verdicts]
  /\ item \in [Runs -> [Nodes -> {"none", "running", "success", "failed"}]]
  /\ connected \subseteq Nodes
  /\ approved \subseteq Runs
  /\ inflight \subseteq Plans
  /\ pc \in [Runs -> Busy \cup {"idle", "gone"}]
  /\ of \in [Runs -> Plans]
  /\ dead \in [Runs -> BOOLEAN]
  /\ targets \in [Runs -> SUBSET Nodes]
  /\ npc \in [Runs -> [Nodes -> {"idle", "insert", "request", "wait", "lost",
                                 "update", "done"}]]
  /\ res \in [Runs -> [Nodes -> {"running", "success", "failed"}]]
  /\ verdict \in [Runs -> Verdicts]
  /\ posted \subseteq Runs

Init ==
  /\ up = TRUE /\ reconciled = FALSE /\ crashes = 0
  /\ planRow = Plans
  /\ row = [r \in Runs |-> "none"]
  /\ item = [r \in Runs |-> NodesAt("none")]
  /\ connected = {} /\ approved = {} /\ inflight = {}
  /\ pc = [r \in Runs |-> "idle"]
  /\ of = [r \in Runs |-> CHOOSE p \in Plans : TRUE]
  /\ dead = [r \in Runs |-> FALSE]
  /\ targets = [r \in Runs |-> {}]
  /\ npc = [r \in Runs |-> NodesAt("idle")]
  /\ res = [r \in Runs |-> NodesAt("running")]
  /\ verdict = [r \in Runs |-> "failed"]
  /\ posted = {}

-----------------------------------------------------------------------------
(* The run goroutine.                                                      *)

Goto(r, l) == pc' = [pc EXCEPT ![r] = l]

\* `UPDATE backup_runs SET status = s WHERE id = r`
SetRow(r, s) == row' = [row EXCEPT ![r] = IF @ = "none" THEN @ ELSE s]

\* Mutant: the claim does not look whether the plan is busy.
claimUnchecked(p) == inflight' = inflight \cup {p}

\* RunPlan: claim refuses a plan that has a run executing.
claim(p) == p \notin inflight /\ inflight' = inflight \cup {p}

RunPlan(p, r) ==
  /\ up /\ pc[r] = "idle"
  /\ claim(p)
  /\ Goto(r, "load")
  /\ of' = [of EXCEPT ![r] = p]
  /\ UNCHANGED <<process, tables, connected, approved, dead,
                 targets, verdict, nodejob, posted>>

loadPlan(r) ==
  /\ pc[r] = "load"
  /\ IF of[r] \in planRow /\ ~dead[r]
     THEN Goto(r, "insert") ELSE Goto(r, "release")
  /\ UNCHANGED <<process, tables, connected, approved, inflight, of,
                 dead, targets, verdict, nodejob, posted>>

\* The INSERT of the row; plan_id is a foreign key.
insertRun(r) ==
  /\ pc[r] = "insert"
  /\ IF of[r] \in planRow /\ ~dead[r]
     THEN Goto(r, "scope") /\ row' = [row EXCEPT ![r] = "pending"]
     ELSE Goto(r, "release") /\ UNCHANGED row
  /\ UNCHANGED <<process, planRow, item, connected, approved, inflight, of,
                 dead, targets, verdict, nodejob, posted>>

resolveScope(r) ==
  /\ pc[r] = "scope"
  /\ LET ts == Scope[of[r]] \cap connected IN
       /\ targets' = [targets EXCEPT ![r] = ts]
       /\ verdict' = [verdict EXCEPT ![r] = "failed"]
       /\ Goto(r, IF ts = {} THEN "finish" ELSE "mark")
  /\ UNCHANGED <<process, tables, connected, approved, inflight, of,
                 dead, nodejob, posted>>

markRunning(r) ==
  /\ pc[r] = "mark"
  /\ IF dead[r] THEN UNCHANGED row ELSE SetRow(r, "running")
  /\ Goto(r, "s3")
  /\ UNCHANGED <<process, planRow, item, connected, approved, inflight, of,
                 dead, targets, verdict, nodejob, posted>>

\* The credentials may be missing or undecryptable whatever the plan says.
loadS3Endpoint(r) ==
  /\ pc[r] = "s3"
  /\ \/ /\ ~dead[r]
        /\ Goto(r, "fan")
        /\ npc' = [npc EXCEPT ![r] = [n \in Nodes |->
                     IF n \in targets[r] THEN "insert" ELSE "idle"]]
        /\ UNCHANGED verdict
     \/ /\ Goto(r, "finish")
        /\ verdict' = [verdict EXCEPT ![r] = "failed"]
        /\ UNCHANGED npc
  /\ UNCHANGED <<process, tables, connected, approved, inflight, of,
                 dead, targets, res, posted>>

Failures(r) == {n \in targets[r] : res[r][n] # "success"}

\* Mutant: a single failed node counts as success.
AggregateTolerant(r) ==
  IF Cardinality(Failures(r)) <= 1 THEN "success"
  ELSE IF Failures(r) = targets[r] THEN "failed" ELSE "partial"

AggregateStatus(r) ==
  IF Failures(r) = targets[r] THEN "failed"
  ELSE IF Failures(r) # {} THEN "partial" ELSE "success"

\* wg.Wait() and the aggregation of the per-node results.
aggregate(r) ==
  /\ pc[r] = "fan"
  /\ \A n \in targets[r] : npc[r][n] = "done"
  /\ verdict' = [verdict EXCEPT ![r] = AggregateStatus(r)]
  /\ Goto(r, "finish")
  /\ UNCHANGED <<process, tables, connected, approved, inflight, of,
                 dead, targets, nodejob, posted>>

\* Mutant: the terminal status is written on the run's own context.
markFinishedOnRunCtx(r) ==
  /\ pc[r] = "finish"
  /\ IF dead[r] THEN UNCHANGED row ELSE SetRow(r, verdict[r])
  /\ Goto(r, "notify")
  /\ UNCHANGED <<process, planRow, item, connected, approved, inflight, of,
                 dead, targets, verdict, nodejob, posted>>

\* markFinished writes on a context of its own: the run's may have expired.  That
\* UPDATE is assumed to succeed; the code only logs its error and has no retry.
markFinished(r) ==
  /\ pc[r] = "finish"
  /\ SetRow(r, verdict[r])
  /\ Goto(r, "notify")
  /\ UNCHANGED <<process, planRow, item, connected, approved, inflight, of,
                 dead, targets, verdict, nodejob, posted>>

Announces(r) ==
  \/ Mode[of[r]] = "always"
  \/ Mode[of[r]] = "on-error" /\ verdict[r] # "success"

notify(r) ==
  /\ pc[r] = "notify"
  /\ posted' = IF Announces(r) THEN posted \cup {r} ELSE posted
  /\ Goto(r, "release")
  /\ UNCHANGED <<process, tables, connected, approved, inflight, of,
                 dead, targets, verdict, nodejob>>

\* The locals of the goroutines of a set of runs cease to exist.
Discard(rs) ==
  /\ pc' = [r \in Runs |-> IF r \in rs THEN "gone" ELSE pc[r]]
  /\ dead' = [r \in Runs |-> IF r \in rs THEN FALSE ELSE dead[r]]
  /\ targets' = [r \in Runs |-> IF r \in rs THEN {} ELSE targets[r]]
  /\ verdict' = [r \in Runs |-> IF r \in rs THEN "failed" ELSE verdict[r]]
  /\ npc' = [r \in Runs |-> IF r \in rs THEN NodesAt("idle") ELSE npc[r]]
  /\ res' = [r \in Runs |-> IF r \in rs THEN NodesAt("running") ELSE res[r]]
  /\ posted' = posted \ rs

\* Mutant: the early exits of run forget the claim.
releaseAfterRow(r) ==
  /\ pc[r] = "release"
  /\ inflight' = IF HasRow(r) THEN inflight \ {of[r]} ELSE inflight
  /\ Discard({r})
  /\ UNCHANGED <<process, tables, connected, approved, of>>

\* The deferred release, on every way out of run.
release(r) ==
  /\ pc[r] = "release"
  /\ inflight' = inflight \ {of[r]}
  /\ Discard({r})
  /\ UNCHANGED <<process, tables, connected, approved, of>>

\* Mutant: the run's context has no deadline.
DeadlineNever(r) == r \notin Runs /\ UNCHANGED vars

\* context.WithTimeout(4h) expires.
Deadline(r) ==
  /\ Live(r) /\ ~dead[r]
  /\ dead' = [dead EXCEPT ![r] = TRUE]
  /\ UNCHANGED <<process, tables, connected, approved, inflight, pc,
                 of, targets, verdict, nodejob, posted>>

-----------------------------------------------------------------------------
(* runOneNode, one goroutine per target.                                   *)

unchangedByNode == <<process, planRow, row, connected, approved, inflight, job,
                     posted>>

NodeGoto(r, n, l) == npc' = [npc EXCEPT ![r][n] = l]

\* run_id and node_id are foreign keys, and the node may have no row (upsertNode
\* failed, or CleanupNodes removed it); a failed INSERT yields item id 0.
insertRunItem(r, n) ==
  /\ npc[r][n] = "insert"
  /\ \/ ~dead[r] /\ HasRow(r) /\ item' = [item EXCEPT ![r][n] = "running"]
     \/ UNCHANGED item
  /\ NodeGoto(r, n, "request")
  /\ UNCHANGED <<res, unchangedByNode>>

\* registryAdapter.Request: an offline agent fails at once; a failing Send too.  Send
\* is assumed to return: it has no deadline, and waits while the agent does not read.
Request(r, n) ==
  /\ npc[r][n] = "request"
  /\ \/ /\ n \in connected
        /\ NodeGoto(r, n, "wait")
        /\ UNCHANGED res
     \/ /\ NodeGoto(r, n, "update")
        /\ res' = [res EXCEPT ![r][n] = "failed"]
  /\ UNCHANGED <<item, unchangedByNode>>

\* The agent's CommandResult, ok or not, reaches the waiting request.
Reply(r, n, s) ==
  /\ npc[r][n] = "wait"
  /\ NodeGoto(r, n, "update")
  /\ res' = [res EXCEPT ![r][n] = s]
  /\ UNCHANGED <<item, unchangedByNode>>

\* ctx.Done(): the only way out once the agent's stream is lost.
RequestTimeout(r, n) ==
  /\ npc[r][n] \in {"wait", "lost"} /\ dead[r]
  /\ NodeGoto(r, n, "update")
  /\ res' = [res EXCEPT ![r][n] = "failed"]
  /\ UNCHANGED <<item, unchangedByNode>>

updateRunItem(r, n) ==
  /\ npc[r][n] = "update"
  /\ item' = IF dead[r] \/ item[r][n] = "none" THEN item
             ELSE [item EXCEPT ![r][n] = res[r][n]]
  /\ NodeGoto(r, n, "done")
  /\ UNCHANGED <<res, unchangedByNode>>

-----------------------------------------------------------------------------
(* The rest of the leader.                                                 *)

unchangedByLeader == <<inflight, job, posted, res>>

\* Rows deleted from backup_runs take their items along (ON DELETE CASCADE).
DropRows(rs) ==
  /\ row'  = [r \in Runs |-> IF r \in rs THEN "none" ELSE row[r]]
  /\ item' = [r \in Runs |-> IF r \in rs THEN NodesAt("none") ELSE item[r]]

\* DeleteRun reads the status, refuses an in-flight run ...
DeleteRunCheck(r) ==
  /\ up /\ HasRow(r) /\ row[r] \notin InFlight
  /\ approved' = approved \cup {r}
  /\ UNCHANGED <<process, tables, connected, npc, unchangedByLeader>>

\* ... and deletes by id.
DeleteRun(r) ==
  /\ r \in approved
  /\ approved' = approved \ {r}
  /\ DropRows({r})
  /\ UNCHANGED <<process, planRow, connected, npc, unchangedByLeader>>

CleanupFailedRuns ==
  /\ up /\ \E r \in Runs : row[r] = "failed"
  /\ DropRows({r \in Runs : row[r] = "failed"})
  /\ UNCHANGED <<process, planRow, connected, approved, npc, unchangedByLeader>>

\* backup_runs.plan_id is ON DELETE CASCADE.
DeletePlan(p) ==
  /\ up /\ p \in planRow
  /\ planRow' = planRow \ {p}
  /\ DropRows({r \in Runs : of[r] = p})
  /\ UNCHANGED <<process, connected, approved, npc, unchangedByLeader>>

\* Register.
Connect(n) ==
  /\ up /\ n \notin connected
  /\ connected' = connected \cup {n}
  /\ UNCHANGED <<process, tables, approved, npc, unchangedByLeader>>

\* Requests waiting on the lost stream are not woken: they are "lost".
Disconnect(n) ==
  /\ n \in connected
  /\ connected' = connected \ {n}
  /\ npc' = [r \in Runs |-> [npc[r] EXCEPT ![n] = IF @ = "wait" THEN "lost" ELSE @]]
  /\ UNCHANGED <<process, tables, approved, unchangedByLeader>>

\* CleanupNodes deletes a stale node with its items.  It reads the registry
\* before it deletes, so the node may have come back in between.
CleanupNode(n) ==
  /\ up /\ \E r \in Runs : item[r][n] # "none"
  /\ item' = [r \in Runs |-> [item[r] EXCEPT ![n] = "none"]]
  /\ UNCHANGED <<process, planRow, row, connected, approved, npc,
                 unchangedByLeader>>

\* The process ends: its goroutines, requests and registry are gone, its
\* database stays.
Crash ==
  /\ up /\ crashes < MaxCrashes
  /\ up' = FALSE /\ reconciled' = FALSE /\ crashes' = crashes + 1
  /\ connected' = {} /\ approved' = {} /\ inflight' = {}
  /\ Discard({r \in Runs : Live(r)})
  /\ UNCHANGED <<tables, of>>

Restart ==
  /\ ~up
  /\ up' = TRUE
  /\ UNCHANGED <<reconciled, crashes, tables, connected, approved, npc,
                 unchangedByLeader>>

\* Scheduler.Run calls it once; the HTTP server is started concurrently, so
\* RunPlan may already have been called.
ReconcileStaleRuns ==
  /\ up /\ ~reconciled
  /\ reconciled' = TRUE
  /\ row' = [r \in Runs |-> IF row[r] \in InFlight THEN "failed" ELSE row[r]]
  /\ UNCHANGED <<up, crashes, planRow, item, connected, approved, npc,
                 unchangedByLeader>>

-----------------------------------------------------------------------------

RunStep(r) ==
  \/ loadPlan(r) \/ insertRun(r) \/ resolveScope(r) \/ markRunning(r)
  \/ loadS3Endpoint(r) \/ aggregate(r) \/ markFinished(r) \/ notify(r)
  \/ release(r) \/ Deadline(r)

NodeStep(r, n) ==
  \/ insertRunItem(r, n) \/ Request(r, n) \/ RequestTimeout(r, n)
  \/ updateRunItem(r, n)

Handlers ==
  \/ \E r \in Runs : DeleteRunCheck(r) \/ DeleteRun(r)
  \/ CleanupFailedRuns
  \/ \E p \in Plans : DeletePlan(p)
  \/ \E n \in Nodes : CleanupNode(n)

Next ==
  \/ \E p \in Plans, r \in Runs : RunPlan(p, r)
  \/ \E r \in Runs : RunStep(r)
  \/ \E r \in Runs, n \in Nodes : NodeStep(r, n)
  \/ \E r \in Runs, n \in Nodes, s \in {"success", "failed"} : Reply(r, n, s)
  \/ Handlers
  \/ \E n \in Nodes : Connect(n) \/ Disconnect(n)
  \/ Crash \/ Restart \/ ReconcileStaleRuns

Spec == Init /\ [][Next]_vars

\* Goroutines are scheduled, timers fire, and the service manager restarts a
\* leader that went down.  An agent need never answer; no handler is fair.
RunFairness(r) ==
  /\ WF_vars(loadPlan(r)) /\ WF_vars(insertRun(r)) /\ WF_vars(resolveScope(r))
  /\ WF_vars(markRunning(r)) /\ WF_vars(loadS3Endpoint(r))
  /\ WF_vars(aggregate(r)) /\ WF_vars(markFinished(r)) /\ WF_vars(notify(r))
  /\ WF_vars(release(r)) /\ WF_vars(Deadline(r))

Fairness ==
  /\ \A r \in Runs : RunFairness(r)
  /\ \A r \in Runs, n \in Nodes : WF_vars(NodeStep(r, n))
  /\ WF_vars(Restart) /\ WF_vars(ReconcileStaleRuns)

FairSpec == Spec /\ Fairness

-----------------------------------------------------------------------------
(* Properties.                                                             *)

\* Two runs of one plan never execute at the same time, and the plan of every
\* executing run is claimed (Runner.inflight, RunPlan).
OneRunPerPlan ==
  /\ \A r, s \in Runs : Live(r) /\ Live(s) /\ of[r] = of[s] => r = s
  /\ inflight = {of[r] : r \in {s \in Runs : Live(s)}}

\* Once a leader has reconciled, every row that says pending or running belongs
\* to a goroutine that will still write its terminal status (markFinished on a
\* fresh context, ReconcileStaleRuns): no run is stuck on running.
NoOrphanRun ==
  up /\ reconciled => \A r \in Runs : row[r] \in InFlight => pc[r] \in Unfinished

\* A run recorded as success had targets, every one of them has an item that
\* says success unless its row is gone, and an item still says running only if
\* the run outlived its deadline (aggregation in run, updateRunItem on the run's
\* own context).
SuccessIsComplete ==
  \A r \in Runs : row[r] = "success" /\ Live(r) =>
    /\ targets[r] # {}
    /\ \A n \in Nodes : \/ item[r][n] \in {"success", "none"}
                        \/ item[r][n] = "running" /\ dead[r]

\* The row of a run nobody executes any more never changes again once it is
\* terminal: it can only be deleted (DeleteRun, CleanupFailedRuns, cascade).
FinishedRowFinal ==
  [][\A r \in Runs : row[r] \in Verdicts /\ pc[r] \notin Unfinished
       => row'[r] \in {row[r], "none"}]_vars

\* A claimed plan is released eventually, so it can run again (release deferred
\* in RunPlan, the 4h context bounding every Request).
PlanReleased == \A p \in Plans : p \in inflight ~> p \notin inflight

\* A row that says pending or running leaves that state eventually, across
\* lost agents, deadlines and crashes of the leader.
RunSettles == \A r \in Runs : row[r] \in InFlight ~> row[r] \notin InFlight

Contract == INSTANCE BackupContract WITH
  active  <- {r \in Runs : Live(r)},
  plan    <- of,
  used    <- {r \in Runs : pc[r] # "idle"},
  record  <- [r \in Runs |-> IF row[r] = "none" THEN "absent"
                             ELSE IF row[r] \in InFlight THEN "open" ELSE "closed"],
  settled <- reconciled

\* The runner implements BackupContract.
ImplementsContract == Contract!Spec
=============================================================================
