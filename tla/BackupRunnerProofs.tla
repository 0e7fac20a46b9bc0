------------------------- MODULE BackupRunnerProofs -------------------------
(***************************************************************************)
(* Proofs about BackupRunner, for any plans, runs, nodes, scopes, webhook  *)
(* modes and any bound on the number of crashes.                           *)
(***************************************************************************)
EXTENDS BackupRunner, BackupScheduler, TLAPS

\* The control points before the INSERT of the run's row.
Early == {"idle", "load", "insert"}

\* What a run's control point says about its row, beyond OneRunPerPlan: a run
\* that has not come to its INSERT has no row, a run that is about to end has closed its row, and
\* a process that is down executes nothing.
Control ==
  /\ \A r \in Runs : pc[r] \in Early => row[r] = "none"
  /\ \A r \in Runs : Live(r) /\ row[r] \in InFlight => pc[r] \in Unfinished
  /\ ~up => ~reconciled /\ \A r \in Runs : ~Live(r)

IInv == TypeOK /\ OneRunPerPlan /\ Control /\ NoOrphanRun

\* A step of one run leaves the locals and the row of the others alone, and every
\* item.
LEMMA OtherRun ==
  ASSUME TypeOK, NEW r \in Runs, NEW s \in Runs, RunStep(s), s # r
  PROVE  /\ pc'[r] = pc[r] /\ dead'[r] = dead[r] /\ targets'[r] = targets[r]
         /\ verdict'[r] = verdict[r] /\ npc'[r] = npc[r] /\ res'[r] = res[r]
         /\ row'[r] = row[r] /\ item' = item
<1> USE DEF TypeOK, Goto, tables, nodejob
<1>1. CASE loadPlan(s) BY <1>1 DEF loadPlan
<1>2. CASE insertRun(s) BY <1>2 DEF insertRun
<1>3. CASE resolveScope(s) BY <1>3 DEF resolveScope
<1>4. CASE markRunning(s) BY <1>4 DEF markRunning, SetRow
<1>5. CASE loadS3Endpoint(s) BY <1>5 DEF loadS3Endpoint
<1>6. CASE aggregate(s) BY <1>6 DEF aggregate
<1>7. CASE markFinished(s) BY <1>7 DEF markFinished, SetRow
<1>8. CASE notify(s) BY <1>8 DEF notify
<1>9. CASE release(s) BY <1>9, Zenon DEF release, Discard
<1>10. CASE Deadline(s) BY <1>10, Zenon DEF Deadline
<1>11. QED
  BY <1>1, <1>2, <1>3, <1>4, <1>5, <1>6, <1>7, <1>8, <1>9, <1>10, Zenon DEF RunStep

\* A step of a run other than its last one and the deadline: from one control
\* point of the goroutine to another.
LEMMA RunGoesOn ==
  ASSUME NEW r \in Runs, RunStep(r), ~release(r), ~Deadline(r)
  PROVE  /\ pc[r] \in Busy
         /\ \E l \in Busy : pc' = [pc EXCEPT ![r] = l]
         /\ UNCHANGED <<of, inflight, up, reconciled>>
<1> USE DEF Busy, Unfinished, Goto, process
<1>1. CASE loadPlan(r) BY <1>1 DEF loadPlan
<1>2. CASE insertRun(r) BY <1>2 DEF insertRun
<1>3. CASE resolveScope(r) BY <1>3, Zenon DEF resolveScope
<1>4. CASE markRunning(r) BY <1>4 DEF markRunning
<1>5. CASE loadS3Endpoint(r) BY <1>5 DEF loadS3Endpoint
<1>6. CASE aggregate(r) BY <1>6 DEF aggregate
<1>7. CASE markFinished(r) BY <1>7 DEF markFinished
<1>8. CASE notify(r) BY <1>8 DEF notify
<1> HIDE DEF Busy, Unfinished, Goto, process
<1>9. QED
  BY <1>1, <1>2, <1>3, <1>4, <1>5, <1>6, <1>7, <1>8, Zenon DEF RunStep

\* The goroutine of a node, until it is done, and an agent's answer to it: of the
\* run nothing but the node's own item and result.
LEMMA NodeOnly ==
  ASSUME NEW r \in Runs, NEW n \in Nodes,
         NodeStep(r, n) \/ \E x \in {"success", "failed"} : Reply(r, n, x)
  PROVE  /\ UNCHANGED <<pc, of, dead, targets, verdict, inflight, row, up, reconciled>>
         /\ npc[r][n] # "done" /\ \E l : npc' = [npc EXCEPT ![r][n] = l]
         /\ res' = res \/ \E x : res' = [res EXCEPT ![r][n] = x]
<1> USE DEF NodeGoto, unchangedByNode, process, job
<1>1. CASE insertRunItem(r, n) BY <1>1, Zenon DEF insertRunItem
<1>2. CASE Request(r, n) BY <1>2, Zenon DEF Request
<1>3. CASE RequestTimeout(r, n) BY <1>3, Zenon DEF RequestTimeout
<1>4. CASE updateRunItem(r, n) BY <1>4, Zenon DEF updateRunItem
<1>5. ASSUME NEW x, Reply(r, n, x)
      PROVE  /\ UNCHANGED <<pc, of, dead, targets, verdict, inflight, row, up, reconciled>>
             /\ npc[r][n] # "done" /\ \E l : npc' = [npc EXCEPT ![r][n] = l]
             /\ \E y : res' = [res EXCEPT ![r][n] = y]
  BY <1>5, Zenon DEF Reply
<1> HIDE DEF NodeGoto, unchangedByNode, process, job
<1>6. QED BY <1>1, <1>2, <1>3, <1>4, <1>5, Zenon DEF NodeStep

\* The handlers leave the goroutines alone and at most delete rows and items.
LEMMA HandlersOnlyDelete ==
  ASSUME TypeOK, Handlers
  PROVE  /\ UNCHANGED <<pc, of, dead, targets, verdict, npc, res, inflight, up, reconciled>>
         /\ \A r \in Runs : row'[r] \in {row[r], "none"}
         /\ \A r \in Runs, n \in Nodes : item'[r][n] \in {item[r][n], "none"}
<1> DEFINE Same == UNCHANGED <<pc, of, dead, targets, verdict, npc, res, inflight, up, reconciled>>
           Deleted == /\ \A r \in Runs : row'[r] \in {row[r], "none"}
                      /\ \A r \in Runs, n \in Nodes : item'[r][n] \in {item[r][n], "none"}
<1> USE DEF unchangedByLeader, job, tables, process
<1>1. ASSUME NEW rs, DropRows(rs) PROVE Deleted
  BY <1>1 DEF DropRows, NodesAt
<1>2. row' = row /\ item' = item => Deleted
  OBVIOUS
<1>3. ASSUME NEW m \in Nodes, CleanupNode(m) PROVE Deleted
  BY <1>3 DEF CleanupNode, TypeOK
<1> HIDE DEF Deleted
<1>4. ASSUME NEW s \in Runs, DeleteRunCheck(s) \/ DeleteRun(s) PROVE Same /\ Deleted
  BY <1>1, <1>2, <1>4, Zenon DEF DeleteRunCheck, DeleteRun
<1>5. CASE CleanupFailedRuns
  BY <1>1, <1>5, Zenon DEF CleanupFailedRuns, Deleted
<1>6. ASSUME NEW p \in Plans, DeletePlan(p) PROVE Same /\ Deleted
  BY <1>1, <1>6, Zenon DEF DeletePlan
<1>7. ASSUME NEW m \in Nodes, CleanupNode(m) PROVE Same /\ Deleted
  BY <1>3, <1>7, Zenon DEF CleanupNode
<1>8. QED BY <1>4, <1>5, <1>6, <1>7, Zenon DEF Handlers, Deleted

\* Every action keeps the variables of the runner, the tables and the handlers
\* in their types.
THEOREM TypeInvariant == Spec => []TypeOK
<1>1. Init => TypeOK
  <2>1. (CHOOSE p \in Plans : TRUE) \in Plans
    BY PlansAssumption
  <2>2. QED
    <3> SUFFICES ASSUME Init PROVE TypeOK
      OBVIOUS
    <3>1. of \in [Runs -> Plans]
      BY <2>1 DEF Init
    <3>2. crashes \in 0..MaxCrashes
      BY CrashAssumption DEF Init
    <3>3. QED
      BY <3>1, <3>2, Zenon DEF Init, TypeOK, NodesAt, Verdicts, Busy
<1>2. TypeOK /\ [Next]_vars => TypeOK'
  <2> SUFFICES ASSUME TypeOK, [Next]_vars PROVE TypeOK'
    OBVIOUS
  <2> USE DEF TypeOK, Verdicts, InFlight, Busy, Unfinished
  <2>1. ASSUME NEW p \in Plans, NEW r \in Runs, RunPlan(p, r) PROVE TypeOK'
    BY <2>1 DEF RunPlan, claim, Goto, process, tables, nodejob
  <2>2. ASSUME NEW r \in Runs, loadPlan(r) PROVE TypeOK'
    BY <2>2, Zenon DEF loadPlan, Goto, process, tables, nodejob
  <2>3. ASSUME NEW r \in Runs, insertRun(r) PROVE TypeOK'
    BY <2>3 DEF insertRun, Goto, process, nodejob
  <2>4. ASSUME NEW r \in Runs, resolveScope(r) PROVE TypeOK'
    BY <2>4, ScopeAssumption DEF resolveScope, Goto, process, tables, nodejob
  <2>5. ASSUME NEW r \in Runs, markRunning(r) PROVE TypeOK'
    BY <2>5 DEF markRunning, Goto, SetRow, process, nodejob
  <2>6. ASSUME NEW r \in Runs, loadS3Endpoint(r) PROVE TypeOK'
    <3>1. [n \in Nodes |-> IF n \in targets[r] THEN "insert" ELSE "idle"]
            \in [Nodes -> {"idle", "insert"}]
      OBVIOUS
    <3>2. npc' \in [Runs -> [Nodes -> {"idle", "insert", "request", "wait",
                                       "lost", "update", "done"}]]
      <4>1. CASE UNCHANGED npc
        BY <4>1
      <4>2. CASE npc' = [npc EXCEPT ![r] = [n \in Nodes |->
                           IF n \in targets[r] THEN "insert" ELSE "idle"]]
        BY <3>1, <4>2
      <4>3. QED
        BY <2>6, <4>1, <4>2 DEF loadS3Endpoint
    <3>3. QED
      BY <2>6, <3>2, Zenon DEF loadS3Endpoint, Goto, process, tables
  <2>7. ASSUME NEW r \in Runs, aggregate(r) PROVE TypeOK'
    BY <2>7 DEF aggregate, AggregateStatus, Goto, process, tables, nodejob
  <2>8. ASSUME NEW r \in Runs, markFinished(r) PROVE TypeOK'
    BY <2>8 DEF markFinished, Goto, SetRow, process, nodejob
  <2>9. ASSUME NEW r \in Runs, notify(r) PROVE TypeOK'
    BY <2>9 DEF notify, Goto, process, tables, nodejob
  <2>10. ASSUME NEW r \in Runs, release(r) PROVE TypeOK'
    BY <2>10, Zenon DEF release, Discard, NodesAt, process, tables
  <2>11. ASSUME NEW r \in Runs, Deadline(r) PROVE TypeOK'
    BY <2>11 DEF Deadline, process, tables, nodejob
  <2>12. ASSUME NEW r \in Runs, NEW n \in Nodes, NodeStep(r, n) PROVE TypeOK'
    <3> USE DEF NodeGoto, unchangedByNode, process, job
    <3>1. CASE insertRunItem(r, n)
      <4>1. item' \in [Runs -> [Nodes -> {"none", "running", "success", "failed"}]]
        <5>1. CASE UNCHANGED item
          BY <5>1
        <5>2. CASE item' = [item EXCEPT ![r][n] = "running"]
          BY <5>2
        <5>3. QED
          BY <3>1, <5>1, <5>2 DEF insertRunItem
      <4>2. QED
        BY <3>1, <4>1, Zenon DEF insertRunItem
    <3>2. CASE Request(r, n)
      <4>1. CASE NodeGoto(r, n, "wait") /\ UNCHANGED res
        BY <3>2, <4>1 DEF Request
      <4>2. CASE NodeGoto(r, n, "update") /\ res' = [res EXCEPT ![r][n] = "failed"]
        BY <3>2, <4>2 DEF Request
      <4>3. QED
        BY <3>2, <4>1, <4>2 DEF Request
    <3>3. CASE RequestTimeout(r, n)
      BY <3>3 DEF RequestTimeout
    <3>4. CASE updateRunItem(r, n)
      <4>1. res[r][n] \in {"running", "success", "failed"}
        OBVIOUS
      <4>2. item' \in [Runs -> [Nodes -> {"none", "running", "success", "failed"}]]
        BY <3>4, <4>1 DEF updateRunItem
      <4>3. QED
        BY <3>4, <4>2 DEF updateRunItem
    <3>5. QED
      BY <2>12, <3>1, <3>2, <3>3, <3>4 DEF NodeStep
  <2>13. ASSUME NEW r \in Runs, NEW n \in Nodes, NEW s \in {"success", "failed"},
                Reply(r, n, s)
         PROVE TypeOK'
    BY <2>13 DEF Reply, NodeGoto, unchangedByNode, process, job
  <2>14. CASE Handlers
    <3> USE DEF DropRows, NodesAt, unchangedByLeader, process, tables, job
    <3>1. ASSUME NEW r \in Runs, DeleteRunCheck(r) \/ DeleteRun(r) PROVE TypeOK'
      BY <3>1 DEF DeleteRunCheck, DeleteRun
    <3>2. CASE CleanupFailedRuns BY <3>2 DEF CleanupFailedRuns
    <3>3. ASSUME NEW p \in Plans, DeletePlan(p) PROVE TypeOK'
      BY <3>3 DEF DeletePlan
    <3>4. ASSUME NEW n \in Nodes, CleanupNode(n) PROVE TypeOK'
      BY <3>4 DEF CleanupNode
    <3>5. QED BY <2>14, <3>1, <3>2, <3>3, <3>4, Zenon DEF Handlers
  <2>15. ASSUME NEW n \in Nodes, Connect(n) \/ Disconnect(n) PROVE TypeOK'
    <3> USE DEF unchangedByLeader, process, tables, job
    <3>1. CASE Connect(n)
      BY <3>1 DEF Connect
    <3>2. CASE Disconnect(n)
      <4>1. ASSUME NEW r \in Runs
            PROVE [npc[r] EXCEPT ![n] = IF @ = "wait" THEN "lost" ELSE @]
                    \in [Nodes -> {"idle", "insert", "request", "wait", "lost",
                                  "update", "done"}]
        OBVIOUS
      <4>2. npc' \in [Runs -> [Nodes -> {"idle", "insert", "request", "wait",
                                         "lost", "update", "done"}]]
        BY <3>2, <4>1 DEF Disconnect
      <4>3. QED
        BY <3>2, <4>2 DEF Disconnect
    <3>3. QED
      BY <2>15, <3>1, <3>2
  <2>16. CASE Crash
    <3>1. crashes' \in 0..MaxCrashes
      BY <2>16, CrashAssumption DEF Crash
    <3>2. QED
      BY <2>16, <3>1, Zenon DEF Crash, Discard, NodesAt, tables
  <2>17. CASE Restart \/ ReconcileStaleRuns
    <3> USE DEF unchangedByLeader, tables, job
    <3>1. CASE Restart BY <3>1 DEF Restart
    <3>2. CASE ReconcileStaleRuns BY <3>2 DEF ReconcileStaleRuns
    <3>3. QED BY <2>17, <3>1, <3>2, Zenon
  <2>18. CASE UNCHANGED vars
    BY <2>18 DEF vars, process, tables, job, nodejob
  <2> HIDE DEF TypeOK, Verdicts, InFlight, Busy, Unfinished
  <2>19. QED
    BY <2>1, <2>2, <2>3, <2>4, <2>5, <2>6, <2>7, <2>8, <2>9, <2>10, <2>11, <2>12,
       <2>13, <2>14, <2>15, <2>16, <2>17, <2>18, Zenon DEF Next, RunStep
<1>3. QED
  BY <1>1, <1>2, PTL DEF Spec

\* A step that leaves the control points, the plan of every run and the claims
\* alone keeps OneRunPerPlan.
LEMMA ExclusionFrame ==
  ASSUME OneRunPerPlan, UNCHANGED <<pc, of, inflight>>
  PROVE  OneRunPerPlan'
BY DEF OneRunPerPlan, Live

\* A step of a run that stays among the busy control points keeps OneRunPerPlan.
LEMMA ExclusionBusy ==
  ASSUME TypeOK, OneRunPerPlan, NEW r \in Runs, NEW l \in Busy,
         pc[r] \in Busy, pc' = [pc EXCEPT ![r] = l], UNCHANGED <<of, inflight>>
  PROVE  OneRunPerPlan'
<1>1. \A s \in Runs : Live(s)' <=> Live(s)
  BY DEF TypeOK, Live
<1>2. QED
  BY <1>1 DEF OneRunPerPlan

\* Two executing runs never share a plan, and exactly the plans of executing
\* runs are claimed: the step of RunPlan and release, and of a crash.
LEMMA ExclusionStep ==
  ASSUME TypeOK, OneRunPerPlan, [Next]_vars
  PROVE  OneRunPerPlan'
<1> USE DEF Busy, Unfinished
<1>1. ASSUME NEW p \in Plans, NEW r \in Runs, RunPlan(p, r)
      PROVE  OneRunPerPlan'
  <2>1. \A s \in Runs : Live(s)' <=> (s = r \/ Live(s))
    BY <1>1 DEF TypeOK, RunPlan, Goto, Live
  <2>2. \A s \in Runs : of'[s] = IF s = r THEN p ELSE of[s]
    BY <1>1 DEF TypeOK, RunPlan
  <2>3. ~Live(r)
    BY <1>1 DEF RunPlan, Live
  <2>4. \A s \in Runs : Live(s) => of[s] # p
    BY <1>1 DEF RunPlan, claim, OneRunPerPlan
  <2>5. inflight' = {of'[s] : s \in {t \in Runs : Live(t)'}}
    BY <1>1, <2>1, <2>2, <2>3 DEF RunPlan, claim, OneRunPerPlan
  <2>6. QED
    BY <2>1, <2>2, <2>4, <2>5 DEF OneRunPerPlan
<1>2. ASSUME NEW r \in Runs, release(r) PROVE OneRunPerPlan'
  <2>1. \A s \in Runs : Live(s)' <=> (Live(s) /\ s # r)
    BY <1>2 DEF TypeOK, release, Discard, Live
  <2>2. of' = of /\ Live(r) /\ inflight' = inflight \ {of[r]}
    BY <1>2 DEF release, Live
  <2>3. QED
    BY <2>1, <2>2 DEF OneRunPerPlan
<1>3. CASE Crash
  <2>1. \A s \in Runs : ~Live(s)'
    BY <1>3 DEF TypeOK, Crash, Discard, Live
  <2>2. QED
    BY <1>3, <2>1 DEF OneRunPerPlan, Crash
<1>4. ASSUME NEW r \in Runs, RunStep(r), ~release(r) PROVE OneRunPerPlan'
  <2>1. CASE Deadline(r)
    BY <2>1, ExclusionFrame DEF Deadline
  <2>2. CASE ~Deadline(r)
    <3>1. /\ pc[r] \in Busy
          /\ \E l \in Busy : pc' = [pc EXCEPT ![r] = l]
          /\ UNCHANGED <<of, inflight>>
      BY <1>4, <2>2, RunGoesOn, Zenon
    <3>2. QED
      BY <3>1, ExclusionBusy, Zenon
  <2>3. QED
    BY <2>1, <2>2
<1>5. ASSUME \/ \E r \in Runs, n \in Nodes : NodeStep(r, n)
             \/ \E r \in Runs, n \in Nodes, s \in {"success", "failed"} :
                  Reply(r, n, s)
             \/ Handlers
             \/ \E n \in Nodes : Connect(n) \/ Disconnect(n)
             \/ Restart \/ ReconcileStaleRuns
             \/ UNCHANGED vars
      PROVE OneRunPerPlan'
  <2>1. UNCHANGED <<pc, of, inflight>>
    BY <1>5, NodeOnly, HandlersOnlyDelete, Zenon
       DEF Connect, Disconnect, Restart, ReconcileStaleRuns, unchangedByLeader, job, vars
  <2>2. QED
    BY <2>1, ExclusionFrame
<1>6. QED
  BY <1>1, <1>2, <1>3, <1>4, <1>5 DEF Next

\* No plan ever has two runs executing at once, however starts, crashes,
\* deadlines and the handlers interleave.
THEOREM Exclusion == Spec => []OneRunPerPlan
<1>1. Init => OneRunPerPlan
  BY DEF Init, OneRunPerPlan, Live, Busy, Unfinished
<1>2. TypeOK /\ OneRunPerPlan /\ [Next]_vars => OneRunPerPlan'
  BY ExclusionStep
<1>3. QED
  BY <1>1, <1>2, TypeInvariant, PTL DEF Spec

\* The control invariant and NoOrphanRun after a step that leaves every control
\* point and the process alone, and turns no row into an in-flight one.
LEMMA ControlFrame ==
  ASSUME TypeOK, Control, NoOrphanRun, UNCHANGED <<pc, up, reconciled>>,
         \A r \in Runs : row'[r] \in {row[r], "none"}
  PROVE  Control' /\ NoOrphanRun'
BY DEF TypeOK, Control, NoOrphanRun, Live, InFlight

\* The same after a step of one run, whose own row is given.
LEMMA ControlRun ==
  ASSUME TypeOK, Control, NoOrphanRun, NEW r \in Runs, NEW l, Live(r),
         l \in Early => row'[r] = "none", pc' = [pc EXCEPT ![r] = l], UNCHANGED <<up, reconciled>>,
         \A s \in Runs \ {r} : row'[s] = row[s],
         row'[r] \in InFlight => l \in Unfinished
  PROVE  Control' /\ NoOrphanRun'
<1>1. \A s \in Runs : pc'[s] = IF s = r THEN l ELSE pc[s]
  BY DEF TypeOK
<1>2. up
  BY DEF Control
<1>3. \A s \in Runs \ {r} : Live(s)' <=> Live(s)
  BY <1>1 DEF Live
<1>4. QED
  BY <1>1, <1>2, <1>3 DEF Control, NoOrphanRun

\* Every step keeps the control invariant and NoOrphanRun.
LEMMA ControlStep ==
  ASSUME TypeOK, Control, NoOrphanRun, [Next]_vars
  PROVE  Control' /\ NoOrphanRun'
<1> USE DEF process, tables, job
<1>1. ASSUME NEW p \in Plans, NEW r \in Runs, RunPlan(p, r)
      PROVE  Control' /\ NoOrphanRun'
  <2>1. \A s \in Runs : pc'[s] = IF s = r THEN "load" ELSE pc[s]
    BY <1>1 DEF TypeOK, RunPlan, Goto
  <2>2. /\ row[r] = "none" /\ up
        /\ UNCHANGED <<row, up, reconciled>>
    BY <1>1 DEF RunPlan, Control, Early
  <2>3. "none" \notin InFlight
    BY DEF InFlight
  <2>4. \A s \in Runs \ {r} : Live(s)' <=> Live(s)
    BY <2>1 DEF Live
  <2>5. QED
    BY <2>1, <2>2, <2>3, <2>4 DEF Control, NoOrphanRun
<1>2. ASSUME NEW r \in Runs, RunStep(r) PROVE Control' /\ NoOrphanRun'
  <2> USE DEF Live, Busy, Unfinished, Goto, InFlight, Early
  <2>1. CASE loadPlan(r)
    BY <2>1, ControlRun DEF loadPlan, Control, Early
  <2>2. CASE insertRun(r)
    <3>1. CASE of[r] \in planRow /\ ~dead[r]
      BY <2>2, <3>1, ControlRun, Zenon DEF insertRun, TypeOK
    <3>2. CASE ~(of[r] \in planRow /\ ~dead[r])
      BY <2>2, <3>2, ControlRun DEF insertRun, Control
    <3>3. QED BY <3>1, <3>2
  <2>3. CASE resolveScope(r)
    BY <2>3, ControlRun DEF resolveScope
  <2>4. CASE markRunning(r)
    BY <2>4, ControlRun, Zenon DEF markRunning, SetRow, TypeOK
  <2>5. CASE loadS3Endpoint(r)
    BY <2>5, ControlRun DEF loadS3Endpoint
  <2>6. CASE aggregate(r)
    BY <2>6, ControlRun, Zenon DEF aggregate
  <2>7. CASE markFinished(r)
    <3>1. row'[r] \notin InFlight /\ \A s \in Runs \ {r} : row'[s] = row[s]
      BY <2>7, Zenon DEF markFinished, SetRow, TypeOK, Verdicts
    <3>2. QED
      BY <2>7, <3>1, ControlRun, Zenon DEF markFinished
  <2>8. CASE notify(r)
    BY <2>8, ControlRun, Zenon DEF notify, Control
  <2>9. CASE release(r)
    <3>1. pc' = [pc EXCEPT ![r] = "gone"]
      BY <2>9, Zenon DEF release, Discard, TypeOK
    <3>2. QED
      BY <2>9, <3>1, ControlRun, Zenon DEF release, Control
  <2>10. CASE Deadline(r)
    BY <2>10, ControlFrame DEF Deadline
  <2>11. QED
    BY <1>2, <2>1, <2>2, <2>3, <2>4, <2>5, <2>6, <2>7, <2>8, <2>9, <2>10
       DEF RunStep
<1>3. ASSUME NEW r \in Runs, NEW n \in Nodes,
             NodeStep(r, n) \/ \E s \in {"success", "failed"} : Reply(r, n, s)
      PROVE  Control' /\ NoOrphanRun'
  <2>1. UNCHANGED <<pc, row, up, reconciled>>
    BY <1>3, NodeOnly, Zenon
  <2>2. QED
    BY <2>1, ControlFrame
<1>4. CASE Handlers
  BY <1>4, HandlersOnlyDelete, ControlFrame, Zenon
<1>5. ASSUME NEW n \in Nodes, Connect(n) \/ Disconnect(n)
      PROVE  Control' /\ NoOrphanRun'
  BY <1>5, ControlFrame DEF Connect, Disconnect, unchangedByLeader
<1>6. CASE Crash
  <2>1. \A r \in Runs : ~Live(r)' /\ (pc'[r] \in Early => pc[r] \in Early)
    BY <1>6 DEF Crash, Discard, Live, Busy, Unfinished, Early
  <2>2. up' = FALSE /\ reconciled' = FALSE /\ row' = row
    BY <1>6 DEF Crash
  <2>3. QED
    BY <2>1, <2>2 DEF Control, NoOrphanRun
<1>7. CASE Restart
  <2>1. ~reconciled /\ UNCHANGED <<pc, row, reconciled>> /\ \A r \in Runs : ~Live(r)
    BY <1>7 DEF Restart, unchangedByLeader, Control
  <2>2. QED
    BY <1>7, <2>1 DEF Control, NoOrphanRun, Live, Restart
<1>8. CASE ReconcileStaleRuns
  <2>1. \A r \in Runs : /\ row'[r] \notin InFlight
                        /\ row[r] = "none" => row'[r] = "none"
    BY <1>8 DEF ReconcileStaleRuns, InFlight
  <2>2. up /\ UNCHANGED <<pc, up>>
    BY <1>8 DEF ReconcileStaleRuns, unchangedByLeader
  <2>3. QED
    BY <2>1, <2>2 DEF Control, NoOrphanRun, Live
<1>9. CASE UNCHANGED vars
  BY <1>9, ControlFrame DEF vars
<1>10. QED
  BY <1>1, <1>2, <1>3, <1>4, <1>5, <1>6, <1>7, <1>8, <1>9 DEF Next

\* The inductive invariant of the module.
LEMMA ControlInvariant == Spec => []IInv
<1>1. Init => OneRunPerPlan /\ Control /\ NoOrphanRun
  BY DEF Init, OneRunPerPlan, Control, NoOrphanRun, Live, Busy, Unfinished, InFlight
<1>2. TypeOK /\ Control /\ NoOrphanRun /\ [Next]_vars => Control' /\ NoOrphanRun'
  BY ControlStep
<1>3. QED
  BY <1>1, <1>2, TypeInvariant, Exclusion, PTL DEF Spec, IInv

\* Once a leader has reconciled, no row is stuck on pending or running: the run
\* it belongs to still executes and has its terminal status yet to write.
THEOREM NoOrphans == Spec => []NoOrphanRun
BY ControlInvariant, PTL DEF IInv

\* The row of a run nobody executes any more is final.
THEOREM Finality == Spec => FinishedRowFinal
<1>1. ASSUME TypeOK, [Next]_vars, NEW r \in Runs, row[r] \in Verdicts,
             pc[r] \notin Unfinished, IInv
      PROVE  row'[r] \in {row[r], "none"}
  <2> USE DEF Unfinished
  <2>1. ASSUME NEW s \in Runs, RunStep(s) PROVE row'[r] \in {row[r], "none"}
    <3>1. CASE insertRun(s)
      <4>1. s # r
        BY <1>1, <3>1, Zenon DEF insertRun, IInv, Control, Early, Verdicts
      <4>2. QED
        BY <1>1, <2>1, <4>1, OtherRun, Zenon
    <3>2. CASE markRunning(s) \/ markFinished(s)
      <4>1. s # r
        BY <1>1, <3>2 DEF markRunning, markFinished
      <4>2. QED
        BY <1>1, <2>1, <4>1, OtherRun, Zenon
    <3>3. QED
      BY <2>1, <3>1, <3>2, Zenon DEF RunStep, loadPlan, resolveScope, loadS3Endpoint,
        aggregate, notify, release, Deadline, tables
  <2>2. CASE Handlers
    BY <1>1, <2>2, HandlersOnlyDelete, Zenon
  <2>3. CASE ReconcileStaleRuns
    BY <1>1, <2>3 DEF ReconcileStaleRuns, InFlight, Verdicts
  <2>4. QED
    BY <1>1, <2>1, <2>2, <2>3, NodeOnly, Zenon
       DEF Next, RunPlan, Connect, Disconnect, Crash, Restart, tables, vars
<1>2. IInv /\ [Next]_vars =>
        [\A r \in Runs : row[r] \in Verdicts /\ pc[r] \notin Unfinished
                           => row'[r] \in {row[r], "none"}]_vars
  BY <1>1 DEF IInv
<1>3. QED
  BY <1>2, ControlInvariant, PTL DEF Spec, FinishedRowFinal

-----------------------------------------------------------------------------
(* BackupRunner implements BackupContract.                                 *)

ActiveRuns == {r \in Runs : Live(r)}
UsedRuns == {r \in Runs : pc[r] # "idle"}
Recorded(s) == IF s = "none" THEN "absent" ELSE IF s \in InFlight THEN "open" ELSE "closed"
Record == [r \in Runs |-> Recorded(row[r])]

\* A step that changes neither the control points nor the process and only
\* deletes rows is a Forget of the contract.
LEMMA ForgetStep ==
  ASSUME UNCHANGED <<pc, of, reconciled>>,
         \A r \in Runs : row'[r] \in {row[r], "none"}
  PROVE  Contract!Next
<1>1. \E rs \in SUBSET Runs : rs = {r \in Runs : row'[r] = "none"}
  BY Zenon
<1>2. PICK rs \in SUBSET Runs : rs = {r \in Runs : row'[r] = "none"}
  BY <1>1
<1>3. Record' = [r \in Runs |-> IF r \in rs THEN "absent" ELSE Record[r]]
  BY <1>2 DEF Record, Recorded
<1>4. Contract!Forget(rs)
  BY <1>3 DEF Contract!Forget, Live, Record, Recorded
<1>5. QED
  BY <1>4 DEF Contract!Next

\* A step of an executing run that stays busy writes at most its own record.
LEMMA WriteStep ==
  ASSUME TypeOK, NEW r \in Runs, NEW l \in Busy, Live(r),
         pc' = [pc EXCEPT ![r] = l], UNCHANGED <<of, reconciled>>,
         row' \in [Runs -> {"none"} \cup InFlight \cup Verdicts],
         \A s \in Runs \ {r} : row'[s] = row[s]
  PROVE  Contract!Next
<1>1. ActiveRuns' = ActiveRuns /\ UsedRuns' = UsedRuns
  BY DEF ActiveRuns, UsedRuns, Live, TypeOK, Busy, Unfinished
<1>2. Record' = [Record EXCEPT ![r] = Recorded(row'[r])]
  BY Zenon DEF Record, Recorded
<1>3. Recorded(row'[r]) \in {"absent", "open", "closed"}
  BY DEF Recorded
<1>4. Contract!Write(r)
  BY <1>1, <1>2, <1>3, Zenon DEF Contract!Write, ActiveRuns, UsedRuns, Record, Recorded
<1>5. QED
  BY <1>4 DEF Contract!Next

\* Every step of the runner is a step of the contract or leaves it alone.
LEMMA ContractStep ==
  ASSUME IInv, IInv', [Next]_vars
  PROVE  [Contract!Next]_Contract!vars
<1> USE DEF process, tables, job
<1>1. ASSUME NEW p \in Plans, NEW r \in Runs, RunPlan(p, r)
      PROVE  Contract!Next
  <2>1. \A s \in Runs : pc'[s] = IF s = r THEN "load" ELSE pc[s]
    BY <1>1, Zenon DEF IInv, TypeOK, RunPlan, Goto
  <2>2. ActiveRuns' = ActiveRuns \cup {r} /\ UsedRuns' = UsedRuns \cup {r}
    BY <1>1, <2>1, Zenon DEF ActiveRuns, UsedRuns, Live, Busy, RunPlan
  <2>3. \A s \in ActiveRuns : of[s] # p
    BY <1>1 DEF ActiveRuns, RunPlan, claim, IInv, OneRunPerPlan
  <2>4. r \notin UsedRuns /\ of' = [of EXCEPT ![r] = p] /\ UNCHANGED <<row, reconciled>>
    BY <1>1, Zenon DEF UsedRuns, RunPlan
  <2>5. Contract!Start(p, r)
    BY <2>2, <2>3, <2>4 DEF Contract!Start, ActiveRuns, UsedRuns
  <2>6. QED
    BY <2>5 DEF Contract!Next
<1>2. ASSUME NEW r \in Runs, release(r) PROVE Contract!Next
  <2>1. ActiveRuns' = ActiveRuns \ {r} /\ UsedRuns' = UsedRuns /\ r \in ActiveRuns
    BY <1>2 DEF ActiveRuns, UsedRuns, Live, Busy, Unfinished, release, Discard,
                IInv, TypeOK
  <2>2. Recorded(row[r]) # "open"
    BY <1>2, Zenon DEF Recorded, release, IInv, Control, Live, Busy, Unfinished
  <2>3. Contract!Finish(r)
    BY <1>2, <2>1, <2>2 DEF Contract!Finish, release, ActiveRuns, UsedRuns, Recorded
  <2>4. QED
    BY <2>3 DEF Contract!Next
<1>3. CASE Crash
  <2>1. ActiveRuns' = {} /\ UsedRuns' = UsedRuns
    BY <1>3, Zenon DEF ActiveRuns, UsedRuns, Live, Busy, Unfinished, Crash, Discard
  <2>2. Contract!Crash
    BY <1>3, <2>1 DEF Contract!Crash, Crash, ActiveRuns, UsedRuns
  <2>3. QED
    BY <2>2, Zenon DEF Contract!Next
<1>4. CASE ReconcileStaleRuns
  <2>1. Record' = [r \in Runs |-> IF Record[r] = "open" THEN "closed" ELSE Record[r]]
    BY <1>4 DEF ReconcileStaleRuns, Record, Recorded, InFlight
  <2>2. reconciled' = TRUE /\ UNCHANGED <<pc, of>>
    BY <1>4 DEF ReconcileStaleRuns, unchangedByLeader
  <2>3. Contract!Reconcile
    BY <2>1, <2>2 DEF Contract!Reconcile, Record, Recorded, Live
  <2>4. QED
    BY <2>3 DEF Contract!Next
<1>5. ASSUME NEW r \in Runs, RunStep(r), ~release(r), ~Deadline(r)
      PROVE  Contract!Next
  <2>1. /\ Live(r)
        /\ \E l \in Busy : pc' = [pc EXCEPT ![r] = l]
        /\ UNCHANGED <<of, reconciled>>
    BY <1>5, RunGoesOn, Zenon DEF Live
  <2>2. \A s \in Runs \ {r} : row'[s] = row[s]
    BY <1>5, OtherRun, Zenon DEF IInv
  <2>3. QED
    BY <2>1, <2>2, WriteStep, Zenon DEF IInv, TypeOK
<1>6. ASSUME \/ \E r \in Runs : Deadline(r)
             \/ \E r \in Runs, n \in Nodes : NodeStep(r, n)
             \/ \E r \in Runs, n \in Nodes, s \in {"success", "failed"} :
                  Reply(r, n, s)
             \/ Handlers
             \/ \E n \in Nodes : Connect(n) \/ Disconnect(n)
             \/ Restart
             \/ UNCHANGED vars
      PROVE Contract!Next
  <2>1. UNCHANGED <<pc, of, reconciled>>
    BY <1>6, NodeOnly, HandlersOnlyDelete, Zenon
       DEF IInv, Deadline, Connect, Disconnect, Restart, unchangedByLeader, job, process, vars
  <2>2. \A r \in Runs : row'[r] \in {row[r], "none"}
    BY <1>6, NodeOnly, HandlersOnlyDelete, Zenon
       DEF IInv, Deadline, Connect, Disconnect, Restart, tables, vars
  <2>3. QED
    BY <2>1, <2>2, ForgetStep
<1>7. QED
  BY <1>1, <1>2, <1>3, <1>4, <1>5, <1>6 DEF Next

\* The runner implements the contract: one run per plan, a run writes only its
\* own record and leaves none open when it ends.
THEOREM Refinement == Spec => ImplementsContract
<1>1. Init => Contract!Init
  <2>1. (CHOOSE p \in Plans : TRUE) \in Plans
    BY PlansAssumption
  <2>2. QED
    BY <2>1 DEF Init, Contract!Init, Live, Busy, Unfinished
<1>2. IInv /\ IInv' /\ [Next]_vars => [Contract!Next]_Contract!vars
  BY ContractStep
<1>3. QED
  BY <1>1, <1>2, ControlInvariant, PTL DEF Spec, ImplementsContract, Contract!Spec

-----------------------------------------------------------------------------
(* A run that is recorded as success is complete, for any plans, runs and  *)
(* nodes.                                                                  *)

\* Control points of a run without goroutines of nodes, and after they ended.
Alone == Early \cup {"scope", "mark", "s3", "gone"}
After == {"finish", "notify", "release"}

\* What the control point of a node's goroutine says about the node's item.
NodeInv(r, n) ==
  /\ pc[r] \in Alone \/ n \notin targets[r] => npc[r][n] = "idle"
  /\ npc[r][n] \in {"idle", "insert"} /\ pc[r] # "gone" => item[r][n] = "none"
  /\ npc[r][n] \in {"request", "wait", "lost", "update"} => item[r][n] \in {"none", "running"}
  /\ npc[r][n] = "done" => \/ item[r][n] \in {"none", res[r][n]}
                           \/ item[r][n] = "running" /\ dead[r]

\* Every target has been through with success.
Complete(r) ==
  targets[r] # {} /\ \A n \in targets[r] : npc[r][n] = "done" /\ res[r][n] = "success"

\* What a verdict says about the nodes, and a row about the verdict.
VerdictInv(r) ==
  /\ verdict[r] = "success" => pc[r] \in After /\ Complete(r)
  /\ row[r] = "success" /\ Live(r) => verdict[r] = "success"

CompleteInv ==
  /\ \A r \in Runs, n \in Nodes : NodeInv(r, n)
  /\ \A r \in Runs : VerdictInv(r)

\* A step that leaves the node's goroutine alone and at most deletes its item.
LEMMA NodeFrame ==
  ASSUME NEW r \in Runs, NEW n \in Nodes, NodeInv(r, n),
         pc'[r] \in Alone => pc[r] \in Alone,
         pc[r] = "gone" => pc'[r] = "gone",
         dead[r] => dead'[r],
         targets'[r] = targets[r], npc'[r][n] = npc[r][n], res'[r][n] = res[r][n],
         item'[r][n] \in {item[r][n], "none"}
  PROVE  NodeInv(r, n)'
BY DEF NodeInv

\* The steps of the run itself.
LEMMA NodeRunStep ==
  ASSUME TypeOK, NEW r \in Runs, NEW n \in Nodes, NodeInv(r, n), NEW s \in Runs, RunStep(s)
  PROVE  NodeInv(r, n)'
<1> USE DEF Alone, Early, Goto, process, tables, nodejob
<1>1. CASE s # r
  <2>1. /\ pc'[r] = pc[r] /\ dead'[r] = dead[r] /\ targets'[r] = targets[r]
        /\ npc'[r] = npc[r] /\ res'[r] = res[r]
        /\ item' = item
    BY <1>1, OtherRun, Zenon
  <2>2. QED
    BY <2>1, NodeFrame, Zenon
<1>2. CASE s = r
  <2>1. CASE \/ loadPlan(r) \/ insertRun(r) \/ markRunning(r) \/ aggregate(r)
             \/ markFinished(r) \/ notify(r)
    <3>1. UNCHANGED <<dead, targets, npc, res, item>>
      BY <2>1, Zenon DEF loadPlan, insertRun, markRunning, aggregate, markFinished, notify
    <3>2. pc'[r] \in Alone => pc[r] \in Alone
      BY <2>1 DEF TypeOK, loadPlan, insertRun, markRunning, aggregate, markFinished, notify
    <3>3. pc[r] # "gone"
      BY <2>1, Zenon DEF loadPlan, insertRun, markRunning, aggregate, markFinished, notify
    <3>4. QED
      BY <3>1, <3>2, <3>3, NodeFrame, Zenon
  <2>2. CASE resolveScope(r)
    <3>1. npc[r][n] = "idle" /\ item[r][n] = "none"
      BY <2>2, Zenon DEF resolveScope, NodeInv
    <3>2. npc'[r][n] = "idle" /\ item'[r][n] = "none"
      BY <2>2, <3>1, Zenon DEF resolveScope
    <3>3. QED
      BY <3>2, Zenon DEF NodeInv
  <2>3. CASE loadS3Endpoint(r)
    <3>1. npc[r][n] = "idle" /\ item[r][n] = "none"
      BY <2>3, Zenon DEF loadS3Endpoint, NodeInv
    <3>2. CASE UNCHANGED npc
      <4>1. npc'[r][n] = "idle" /\ item'[r][n] = "none"
        BY <2>3, <3>1, <3>2, Zenon DEF loadS3Endpoint
      <4>2. QED
        BY <4>1, Zenon DEF NodeInv
    <3>3. CASE ~UNCHANGED npc
      <4>1. /\ npc'[r][n] = IF n \in targets[r] THEN "insert" ELSE "idle"
            /\ pc'[r] = "fan" /\ targets' = targets /\ item' = item
        BY <2>3, <3>3 DEF loadS3Endpoint, TypeOK
      <4>2. QED
        BY <3>1, <4>1, Zenon DEF NodeInv
    <3>4. QED
      BY <3>2, <3>3
  <2>4. CASE release(r)
    <3>1. npc'[r][n] = "idle" /\ pc'[r] = "gone"
      BY <2>4, Zenon DEF release, Discard, NodesAt
    <3>2. QED
      BY <3>1 DEF NodeInv
  <2>5. CASE Deadline(r)
    <3>1. UNCHANGED <<pc, targets, npc, res, item>>
      BY <2>5 DEF Deadline
    <3>2. dead[r] => dead'[r]
      BY <2>5 DEF Deadline
    <3>3. QED
      BY <3>1, <3>2, NodeFrame, Zenon
  <2>6. QED
    BY <1>2, <2>1, <2>2, <2>3, <2>4, <2>5 DEF RunStep
<1>3. QED
  BY <1>1, <1>2

\* The steps of the goroutines of the nodes.
LEMMA NodeNodeStep ==
  ASSUME TypeOK, NEW r \in Runs, NEW n \in Nodes, NodeInv(r, n),
         NEW s \in Runs, NEW m \in Nodes,
         NodeStep(s, m) \/ \E x \in {"success", "failed"} : Reply(s, m, x)
  PROVE  NodeInv(r, n)'
<1> USE DEF NodeGoto, unchangedByNode, job
<1>0. UNCHANGED <<pc, dead, targets>>
  BY NodeOnly, Zenon
<1>1. CASE s # r \/ m # n
  <2>1. npc'[r][n] = npc[r][n]
    <3>1. PICK l : npc' = [npc EXCEPT ![s][m] = l]
      BY NodeOnly, Zenon
    <3>2. QED BY <1>1, <3>1 DEF TypeOK
  <2>2. res'[r][n] = res[r][n]
    <3>1. ASSUME NEW x, res' = [res EXCEPT ![s][m] = x] PROVE res'[r][n] = res[r][n]
      BY <1>1, <3>1 DEF TypeOK
    <3>2. res' = res \/ \E x : res' = [res EXCEPT ![s][m] = x]
      BY NodeOnly, Zenon
    <3>3. QED BY <3>1, <3>2
  <2>3. item'[r][n] = item[r][n]
    <3>1. CASE insertRunItem(s, m)
      BY <1>1, <3>1 DEF TypeOK, insertRunItem
    <3>2. CASE updateRunItem(s, m)
      BY <1>1, <3>2 DEF TypeOK, updateRunItem
    <3>3. QED
      BY <3>1, <3>2 DEF NodeStep, Request, RequestTimeout, Reply
  <2>4. QED
    BY <1>0, <2>1, <2>2, <2>3, NodeFrame, Zenon
<1>2. CASE s = r /\ m = n
  <2>1. npc[r][n] # "idle" => pc[r] \notin Alone /\ n \in targets[r]
    BY Zenon DEF NodeInv
  <2>2. CASE insertRunItem(r, n)
    <3>1. npc[r][n] = "insert" /\ npc'[r][n] = "request"
      BY <2>2 DEF insertRunItem, TypeOK
    <3>2. pc[r] # "gone" /\ item[r][n] = "none"
      BY <2>1, <3>1, Zenon DEF NodeInv, Alone
    <3>3. CASE item' = [item EXCEPT ![r][n] = "running"]
      <4>1. item'[r][n] = "running"
        BY <3>3, Zenon DEF TypeOK
      <4>2. QED
        BY <1>0, <2>1, <3>1, <4>1, Zenon DEF NodeInv
    <3>4. CASE UNCHANGED item
      BY <1>0, <2>1, <3>1, <3>2, <3>4 DEF NodeInv
    <3>5. QED
      BY <2>2, <3>3, <3>4 DEF insertRunItem
  <2>3. CASE Request(r, n) \/ RequestTimeout(r, n) \/ \E x \in {"success", "failed"} : Reply(r, n, x)
    <3>1. /\ npc[r][n] \in {"request", "wait", "lost"}
          /\ npc'[r][n] \in {"wait", "update"}
          /\ UNCHANGED item
      BY <2>3 DEF Request, RequestTimeout, Reply, TypeOK
    <3>2. QED
      BY <1>0, <2>1, <3>1, Zenon DEF NodeInv
  <2>4. CASE updateRunItem(r, n)
    <3>1. /\ npc[r][n] = "update" /\ npc'[r][n] = "done" /\ res' = res
          /\ item'[r][n] = IF dead[r] \/ item[r][n] = "none" THEN item[r][n] ELSE res[r][n]
      BY <2>4 DEF updateRunItem, TypeOK
    <3>2. item[r][n] \in {"none", "running"}
      BY <3>1, Zenon DEF NodeInv
    <3>3. QED
      BY <1>0, <2>1, <3>1, <3>2, Zenon DEF NodeInv
  <2>5. QED
    BY <1>2, <2>2, <2>3, <2>4 DEF NodeStep
<1>3. QED
  BY <1>1, <1>2

\* The rest of the leader at most deletes items, loses requests or ends the run.
LEMMA NodeLeaderStep ==
  ASSUME TypeOK, NEW r \in Runs, NEW n \in Nodes, NodeInv(r, n),
         [Next]_vars,
         ~ \E s \in Runs : RunStep(s),
         ~ \E s \in Runs, m \in Nodes :
             NodeStep(s, m) \/ \E x \in {"success", "failed"} : Reply(s, m, x)
  PROVE  NodeInv(r, n)'
<1> USE DEF process, tables, job, nodejob, unchangedByLeader
<1>1. ASSUME NEW p \in Plans, NEW s \in Runs, RunPlan(p, s) PROVE NodeInv(r, n)'
  <2>1. /\ UNCHANGED <<dead, targets, npc, res, item>>
        /\ pc'[r] = pc[r] \/ (pc[r] = "idle" /\ pc'[r] = "load")
    BY <1>1 DEF RunPlan, Goto, TypeOK
  <2>2. QED
    BY <2>1, NodeFrame, Zenon DEF Alone, Early
<1>2. CASE Handlers
  BY <1>2, HandlersOnlyDelete, NodeFrame, Zenon
<1>3. ASSUME NEW m \in Nodes, Disconnect(m) PROVE NodeInv(r, n)'
  <2>1. UNCHANGED <<pc, dead, targets, res, item>>
    BY <1>3, Zenon DEF Disconnect
  <2>2. npc'[r][n] = npc[r][n] \/ (npc[r][n] = "wait" /\ npc'[r][n] = "lost")
    BY <1>3 DEF Disconnect, TypeOK
  <2>3. CASE npc'[r][n] = npc[r][n]
    BY <2>1, <2>3, NodeFrame, Zenon
  <2>4. CASE npc[r][n] = "wait" /\ npc'[r][n] = "lost"
    BY <2>1, <2>4, Zenon DEF NodeInv
  <2>5. QED
    BY <2>2, <2>3, <2>4, Zenon
<1>4. CASE Crash
  <2>1. CASE Live(r)
    <3>1. npc'[r][n] = "idle" /\ pc'[r] = "gone"
      BY <1>4, <2>1, Zenon DEF Crash, Discard, NodesAt
    <3>2. QED
      BY <3>1, Zenon DEF NodeInv, Alone, Early
  <2>2. CASE ~Live(r)
    <3>1. /\ pc'[r] = pc[r] /\ dead'[r] = dead[r] /\ targets'[r] = targets[r]
          /\ npc'[r] = npc[r] /\ res'[r] = res[r] /\ item' = item
      BY <1>4, <2>2, Zenon DEF Crash, Discard
    <3>2. QED
      BY <3>1, NodeFrame, Zenon
  <2>3. QED
    BY <2>1, <2>2, Zenon
<1>5. CASE Restart \/ ReconcileStaleRuns \/ (\E m \in Nodes : Connect(m)) \/ UNCHANGED vars
  <2>1. UNCHANGED <<pc, dead, targets, npc, res, item>>
    BY <1>5 DEF Restart, ReconcileStaleRuns, Connect, vars
  <2>2. QED
    BY <2>1, NodeFrame, Zenon
<1>6. QED
  BY <1>1, <1>2, <1>3, <1>4, <1>5 DEF Next

\* A step that does not touch the verdict nor a node that is done.
LEMMA VerdictFrame ==
  ASSUME TypeOK, NEW r \in Runs, VerdictInv(r),
         verdict'[r] = verdict[r], targets'[r] = targets[r],
         pc[r] \in After => pc'[r] \in After,
         Live(r)' => Live(r),
         row'[r] = "success" => row[r] = "success",
         \A n \in Nodes : npc[r][n] = "done" => npc'[r][n] = "done" /\ res'[r][n] = res[r][n]
  PROVE  VerdictInv(r)'
<1>1. targets[r] \subseteq Nodes
  BY Zenon DEF TypeOK
<1>2. Complete(r) => Complete(r)'
  BY <1>1, Zenon DEF Complete
<1>3. QED
  BY <1>2, Zenon DEF VerdictInv

\* The steps of the run itself: aggregate is the one that finds success, and
\* markFinished the one that records it.
LEMMA VerdictRunStep ==
  ASSUME TypeOK, NEW r \in Runs, VerdictInv(r), NEW s \in Runs, RunStep(s)
  PROVE  VerdictInv(r)'
<1> USE DEF Goto, process, tables, nodejob
<1>1. CASE s # r
  <2>1. /\ pc'[r] = pc[r] /\ targets'[r] = targets[r] /\ verdict'[r] = verdict[r]
        /\ npc'[r] = npc[r] /\ res'[r] = res[r] /\ row'[r] = row[r]
    BY <1>1, OtherRun, Zenon
  <2>2. QED
    BY <2>1, VerdictFrame, Zenon DEF Live
<1>2. CASE s = r
  <2>1. CASE loadPlan(r) \/ insertRun(r) \/ resolveScope(r) \/ markRunning(r) \/ loadS3Endpoint(r)
    <3>1. /\ pc[r] \in {"load", "insert", "scope", "mark", "s3"}
          /\ verdict'[r] \in {verdict[r], "failed"}
      BY <2>1, Zenon DEF loadPlan, insertRun, resolveScope, markRunning, loadS3Endpoint, TypeOK
    <3>2. row'[r] \in {row[r], "pending", "running"}
      BY <2>1, Zenon DEF loadPlan, insertRun, resolveScope, markRunning, loadS3Endpoint,
        SetRow, TypeOK
    <3>3. verdict[r] # "success" /\ row[r] # "success"
      BY <3>1 DEF VerdictInv, After, Live, Busy, Unfinished
    <3>4. QED
      BY <3>1, <3>2, <3>3, Zenon DEF VerdictInv
  <2>2. CASE aggregate(r)
    <3>1. /\ pc[r] = "fan" /\ pc'[r] = "finish" /\ row' = row
          /\ verdict'[r] = AggregateStatus(r)
          /\ UNCHANGED <<npc, res, targets>>
          /\ \A n \in targets[r] : npc[r][n] = "done"
      BY <2>2 DEF aggregate, TypeOK
    <3>2. row[r] # "success"
      BY <3>1, Zenon DEF VerdictInv, After, Live, Busy, Unfinished
    <3>3. AggregateStatus(r) = "success" => Failures(r) = {} /\ targets[r] # {}
      BY Zenon DEF AggregateStatus
    <3>4. verdict'[r] = "success" => Complete(r)'
      BY <3>1, <3>3, Zenon DEF Complete, Failures
    <3>5. QED
      BY <3>1, <3>2, <3>4, Zenon DEF VerdictInv, After
  <2>3. CASE markFinished(r)
    <3>1. /\ pc'[r] = "notify" /\ row'[r] \in {"none", verdict[r]}
          /\ UNCHANGED <<npc, res, targets, verdict>>
      BY <2>3 DEF markFinished, SetRow, TypeOK
    <3>2. QED
      BY <3>1, Zenon DEF VerdictInv, After, Complete
  <2>4. CASE notify(r) \/ Deadline(r)
    <3>1. /\ pc'[r] \in {pc[r], "release"} /\ Live(r)
          /\ UNCHANGED <<npc, res, targets, verdict, row>>
      BY <2>4 DEF notify, Deadline, Live, Busy, TypeOK
    <3>2. QED
      BY <3>1, VerdictFrame, Zenon DEF After
  <2>5. CASE release(r)
    <3>1. pc'[r] = "gone" /\ verdict'[r] = "failed"
      BY <2>5, Zenon DEF release, Discard
    <3>2. QED
      BY <3>1, Zenon DEF VerdictInv, Live, Busy, Unfinished
  <2>6. QED
    BY <1>2, <2>1, <2>2, <2>3, <2>4, <2>5 DEF RunStep
<1>3. QED
  BY <1>1, <1>2

\* The other steps: no goroutine of a node is left that could undo a success.
LEMMA VerdictOtherStep ==
  ASSUME TypeOK, Control, NEW r \in Runs, VerdictInv(r),
         [Next]_vars, ~ \E s \in Runs : RunStep(s)
  PROVE  VerdictInv(r)'
<1> USE DEF process, tables, job, nodejob, unchangedByLeader
<1>1. ASSUME NEW p \in Plans, NEW s \in Runs, RunPlan(p, s) PROVE VerdictInv(r)'
  <2>1. UNCHANGED <<row, targets, verdict, npc, res>>
    BY <1>1 DEF RunPlan
  <2>2. CASE s = r
    <3>1. pc[r] = "idle" /\ row[r] = "none" /\ verdict[r] # "success"
      BY <1>1, <2>2, Zenon DEF RunPlan, Control, Early, VerdictInv, After
    <3>2. QED
      BY <2>1, <3>1, Zenon DEF VerdictInv
  <2>3. CASE s # r
    <3>1. pc'[r] = pc[r]
      BY <1>1, <2>3 DEF RunPlan, Goto, TypeOK
    <3>2. QED
      BY <2>1, <3>1, VerdictFrame DEF Live
  <2>4. QED
    BY <2>2, <2>3
<1>2. ASSUME NEW s \in Runs, NEW m \in Nodes,
             NodeStep(s, m) \/ \E x \in {"success", "failed"} : Reply(s, m, x)
      PROVE VerdictInv(r)'
  <2>1. UNCHANGED <<pc, row, targets, verdict>> /\ npc[s][m] # "done"
    BY <1>2, NodeOnly, Zenon
  <2>2. ASSUME NEW n \in Nodes, npc[r][n] = "done" PROVE npc'[r][n] = "done"
    <3>1. s # r \/ m # n
      BY <2>1, <2>2
    <3>2. \E l : npc' = [npc EXCEPT ![s][m] = l]
      BY <1>2, NodeOnly, Zenon
    <3>3. QED
      BY <2>2, <3>1, <3>2 DEF TypeOK
  <2>3. ASSUME NEW n \in Nodes, npc[r][n] = "done" PROVE res'[r][n] = res[r][n]
    <3>1. s # r \/ m # n
      BY <2>1, <2>3
    <3>2. res' = res \/ \E x : res' = [res EXCEPT ![s][m] = x]
      BY <1>2, NodeOnly, Zenon
    <3>3. ASSUME NEW x, res' = [res EXCEPT ![s][m] = x] PROVE res'[r][n] = res[r][n]
      BY <3>1, <3>3 DEF TypeOK
    <3>4. QED
      BY <3>2, <3>3
  <2>4. QED
    BY <2>1, <2>2, <2>3, VerdictFrame, Zenon DEF Live
<1>3. CASE Handlers \/ (\E m \in Nodes : Connect(m) \/ Disconnect(m)) \/ Restart
           \/ ReconcileStaleRuns \/ UNCHANGED vars
  <2>1. UNCHANGED <<pc, targets, verdict, res>>
    BY <1>3, HandlersOnlyDelete, Zenon DEF Connect, Disconnect, Restart,
      ReconcileStaleRuns, vars
  <2>2. row'[r] = "success" => row[r] = "success"
    BY <1>3, HandlersOnlyDelete, Zenon DEF Connect, Disconnect, Restart,
      ReconcileStaleRuns, vars
  <2>3. ASSUME NEW n \in Nodes, npc[r][n] = "done" PROVE npc'[r][n] = "done"
    <3>1. CASE \E m \in Nodes : Disconnect(m)
      BY <2>3, <3>1 DEF Disconnect, TypeOK
    <3>2. CASE ~ \E m \in Nodes : Disconnect(m)
      <4>1. npc' = npc
        BY <1>3, <3>2, HandlersOnlyDelete, Zenon DEF Connect, Restart, ReconcileStaleRuns, vars
      <4>2. QED
        BY <2>3, <4>1, Zenon
    <3>3. QED
      BY <3>1, <3>2, Zenon
  <2>4. QED
    BY <2>1, <2>2, <2>3, VerdictFrame, Zenon DEF Live
<1>4. CASE Crash
  <2>1. CASE Live(r)
    <3>1. pc'[r] = "gone" /\ verdict'[r] = "failed"
      BY <1>4, <2>1, Zenon DEF Crash, Discard
    <3>2. QED
      BY <3>1, Zenon DEF VerdictInv, Live, Busy, Unfinished
  <2>2. CASE ~Live(r)
    <3>1. /\ pc'[r] = pc[r] /\ targets'[r] = targets[r] /\ verdict'[r] = verdict[r]
          /\ npc'[r] = npc[r] /\ res'[r] = res[r] /\ row' = row
      BY <1>4, <2>2, Zenon DEF Crash, Discard
    <3>2. QED
      BY <3>1, VerdictFrame, Zenon DEF Live
  <2>3. QED
    BY <2>1, <2>2
<1>5. QED
  BY <1>1, <1>2, <1>3, <1>4 DEF Next

\* A run recorded as success while it executes had targets, and no item of it
\* says failed, whatever handlers, deadlines, streams and crashes did meanwhile.
THEOREM Completeness == Spec => []SuccessIsComplete
<1>1. Init => CompleteInv
  <2> SUFFICES ASSUME Init, NEW r \in Runs PROVE VerdictInv(r) /\ \A n \in Nodes : NodeInv(r, n)
    BY DEF CompleteInv
  <2>1. ASSUME NEW n \in Nodes PROVE NodeInv(r, n)
    BY DEF Init, NodeInv, NodesAt
  <2>2. VerdictInv(r)
    BY DEF Init, VerdictInv
  <2>3. QED
    BY <2>1, <2>2
<1>2. IInv /\ CompleteInv /\ [Next]_vars => CompleteInv'
  <2> SUFFICES ASSUME TypeOK, Control, CompleteInv, [Next]_vars PROVE CompleteInv'
    BY DEF IInv
  <2>1. ASSUME NEW r \in Runs PROVE VerdictInv(r)'
    BY VerdictRunStep, VerdictOtherStep DEF CompleteInv
  <2>2. ASSUME NEW r \in Runs, NEW n \in Nodes PROVE NodeInv(r, n)'
    BY NodeRunStep, NodeNodeStep, NodeLeaderStep DEF CompleteInv
  <2>3. QED
    BY <2>1, <2>2 DEF CompleteInv
<1>3. IInv /\ CompleteInv => SuccessIsComplete
  <2> SUFFICES ASSUME TypeOK, CompleteInv, NEW r \in Runs, row[r] = "success", Live(r)
               PROVE  /\ targets[r] # {}
                      /\ \A n \in Nodes : \/ item[r][n] \in {"success", "none"}
                                          \/ item[r][n] = "running" /\ dead[r]
    BY DEF IInv, SuccessIsComplete
  <2>1. pc[r] # "gone" /\ Complete(r)
    BY DEF CompleteInv, VerdictInv, After
  <2>2. ASSUME NEW n \in Nodes
        PROVE  item[r][n] \in {"success", "none"} \/ (item[r][n] = "running" /\ dead[r])
    BY <2>1 DEF CompleteInv, NodeInv, Complete
  <2>3. QED
    BY <2>1, <2>2 DEF Complete
<1>4. QED
  BY <1>1, <1>2, <1>3, ControlInvariant, PTL DEF Spec

-----------------------------------------------------------------------------
(* The scheduler that starts the runs (module BackupScheduler), for every  *)
(* set of plans, schedules and requests.                                   *)

SchedInv == SchedulerTypeOK /\ EntriesMatchJobs

\* Refresh's two loops on any snapshot, stale or partial, leave cron with the
\* entries of planJobIDs and nothing else.
LEMMA ApplyKeeps ==
  ASSUME SchedInv, NEW t \in Callers, Apply(t)
  PROVE  SchedInv'
<1> USE SchedulesAssumption, TickerAssumption, BoundsAssumption DEF SchedInv, SchedulerTypeOK, Rows, Schedules, Keeps, Adds
<1>1. jobs' \in [PlanIds -> Valid \cup {"none"}]
  BY Zenon DEF Apply
<1>2. ASSUME NEW p \in PlanIds, NEW s \in Valid
      PROVE  /\ entries'[p][s] = (IF jobs'[p] = s THEN 1 ELSE 0)
             /\ entries'[p][s] \in Nat
  <2>1. /\ jobs[p] \in Valid \cup {"none"} /\ current[t][p] \in Rows
        /\ "none" \notin Valid
    OBVIOUS
  <2>2. entries[p][s] = (IF jobs[p] = s THEN 1 ELSE 0)
    BY DEF EntriesMatchJobs
  <2>3. entries'[p][s] = entries[p][s]
           - (IF ~Keeps(t, p) /\ jobs[p] = s THEN 1 ELSE 0)
           + (IF Adds(t, p) /\ current[t][p] = s THEN 1 ELSE 0)
    BY DEF Apply
  <2>4. jobs'[p] = IF Keeps(t, p) THEN jobs[p]
                   ELSE IF Adds(t, p) THEN current[t][p] ELSE "none"
    BY DEF Apply
  <2>5. QED BY <2>1, <2>2, <2>3, <2>4
<1>3. entries' \in [PlanIds -> [Valid -> Nat]]
  <2>1. /\ entries' = [p \in PlanIds |-> entries'[p]]
        /\ \A p \in PlanIds : entries'[p] = [s \in Valid |-> entries'[p][s]]
    BY DEF Apply
  <2>2. QED BY <1>2, <2>1
<1>4. /\ planTable' \in [PlanIds -> Rows]
      /\ caller' \in [Callers -> {"idle", "read", "apply"}]
      /\ writes' \in 0..MaxWrites /\ failures' \in 0..MaxFailures
  BY DEF Apply, CallerGoto, bounds
<1>5. current' \in [Callers -> [PlanIds -> Rows]]
  BY DEF Apply, NoRows
<1>6. EntriesMatchJobs'
  BY <1>2 DEF EntriesMatchJobs
<1>7. QED BY <1>1, <1>3, <1>4, <1>5, <1>6

\* Every step of the callers of Refresh keeps the invariant of the scheduler.
LEMMA SchedInvariance ==
  SchedulerSpec => []SchedInv
<1>1. SchedulerInit => SchedInv
  BY SchedulesAssumption, TickerAssumption, BoundsAssumption DEF SchedulerInit, SchedInv,
    SchedulerTypeOK, EntriesMatchJobs,
    NoRows, Rows, Schedules
<1>2. SchedInv /\ [SchedulerNext]_scheduler => SchedInv'
  <2> SUFFICES ASSUME SchedInv, [SchedulerNext]_scheduler PROVE SchedInv'
    OBVIOUS
  <2> USE SchedulesAssumption, TickerAssumption, BoundsAssumption DEF SchedInv, SchedulerTypeOK, EntriesMatchJobs, Callers, CallerGoto, bounds
  <2>1. CASE Tick BY <2>1, Zenon DEF Tick
  <2>2. ASSUME NEW h \in Requests, PlanRequest(h) PROVE SchedInv'
    <3>1. ASSUME NEW p \in PlanIds, NEW r \in Rows, Write(h, p, r) PROVE SchedInv'
      BY <3>1 DEF Write
    <3>2. CASE ReadSomeRows(h)
      <4>1. PICK read \in SUBSET PlanIds : current' =
              [current EXCEPT ![h] =
                 [p \in PlanIds |-> IF p \in read THEN planTable[p] ELSE "none"]]
        BY <3>2, Zenon DEF ReadSomeRows
      <4>2. current' \in [Callers -> [PlanIds -> Rows]] BY <4>1 DEF Rows
      <4>3. QED BY <3>2, <4>2 DEF ReadSomeRows
    <3>3. QED
      BY <2>2, <3>1, <3>2 DEF PlanRequest, CreatePlan, UpdatePlan,
        DeletePlanRow, Rows
  <2>3. ASSUME NEW t \in Callers, Refresh(t) PROVE SchedInv'
    <3>1. CASE ReadRows(t) BY <3>1 DEF ReadRows
    <3>2. CASE RefreshFails(t) BY <3>2 DEF RefreshFails
    <3>3. CASE Apply(t) BY <3>3, ApplyKeeps
    <3>4. QED BY <2>3, <3>1, <3>2, <3>3 DEF Refresh
  <2>4. CASE UNCHANGED scheduler BY <2>4 DEF scheduler
  <2>5. QED BY <2>1, <2>2, <2>3, <2>4, Zenon DEF SchedulerNext
<1>3. QED BY <1>1, <1>2, PTL DEF SchedulerSpec

\* Every variable keeps its type; in particular planJobIDs holds no schedule that
\* cron rejected.
THEOREM SchedulerTypeInvariant ==
  SchedulerSpec => []SchedulerTypeOK
<1>1. SchedInv => SchedulerTypeOK BY DEF SchedInv
<1>2. QED BY <1>1, SchedInvariance, PTL

\* No cron entry leaks or doubles, for any number of plans and of concurrent
\* calls of Refresh, in whatever order they read and apply.
THEOREM NoLeakedEntry ==
  SchedulerSpec => []EntriesMatchJobs
<1>1. SchedInv => EntriesMatchJobs BY DEF SchedInv
<1>2. QED BY <1>1, SchedInvariance, PTL
=============================================================================
