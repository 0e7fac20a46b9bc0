-------------------------- MODULE BackupScheduler --------------------------
(***************************************************************************)
(* The backup scheduler: the plan handlers write backup_plans and call     *)
(* Refresh, the 60 s ticker calls it too, and Refresh makes the cron       *)
(* entries follow the table.  Refresh reads the table before it takes the  *)
(* scheduler's mutex, so that concurrent calls may apply their snapshots   *)
(* in another order than they read them.                                   *)
(*                                                                         *)
(* What a cron entry does when it fires, and Trigger, is RunPlan of module *)
(* BackupRunner.                                                           *)
(***************************************************************************)
EXTENDS Integers

CONSTANTS PlanIds,     \* plan ids
          Valid,       \* schedules cron.AddFunc accepts
          Invalid,     \* schedules it rejects: the handlers do not check them
          Requests,    \* concurrent plan requests
          Ticker,      \* the scheduler's own loop
          MaxWrites,   \* bound on the writes to backup_plans
          MaxFailures  \* bound on the Refresh calls that go wrong

ASSUME SchedulesAssumption ==
  /\ Valid \cap Invalid = {}
  /\ {"none", "off"} \cap (Valid \cup Invalid) = {}
ASSUME TickerAssumption == Ticker \notin Requests
ASSUME BoundsAssumption == MaxWrites \in Nat /\ MaxFailures \in Nat

Schedules == Valid \cup Invalid
Callers == Requests \cup {Ticker}

\* A row of backup_plans as Refresh sees it: missing, disabled, or a schedule.
Rows == {"none", "off"} \cup Schedules

VARIABLES
  planTable,   \* the table backup_plans
  jobs,        \* planJobIDs: the schedule remembered for a plan, or "none"
  entries,     \* entries[p][s]: cron entries that run plan p on schedule s
  caller,      \* control point of a caller of Refresh
  current,     \* the rows a caller has read
  writes,      \* writes so far (bounded by MaxWrites)
  failures     \* failed Refresh calls so far (bounded by MaxFailures)

bounds == <<writes, failures>>
scheduler == <<planTable, jobs, entries, caller, current, bounds>>

NoRows == [p \in PlanIds |-> "none"]

SchedulerTypeOK ==
  /\ planTable \in [PlanIds -> Rows]
  /\ jobs \in [PlanIds -> Valid \cup {"none"}]
  /\ entries \in [PlanIds -> [Valid -> Nat]]
  /\ caller \in [Callers -> {"idle", "read", "apply"}]
  /\ current \in [Callers -> [PlanIds -> Rows]]
  /\ writes \in 0..MaxWrites
  /\ failures \in 0..MaxFailures

\* The process starts on the table an earlier one left.
SchedulerInit ==
  /\ planTable \in [PlanIds -> Rows]
  /\ jobs = NoRows
  /\ entries = [p \in PlanIds |-> [s \in Valid |-> 0]]
  /\ caller = [t \in Callers |-> "idle"]
  /\ current = [t \in Callers |-> NoRows]
  /\ writes = 0 /\ failures = 0

CallerGoto(t, l) == caller' = [caller EXCEPT ![t] = l]

-----------------------------------------------------------------------------
(* The handlers: one write, then Refresh.                                  *)

Write(h, p, r) ==
  /\ caller[h] = "idle"
  /\ writes < MaxWrites /\ writes' = writes + 1
  /\ planTable' = [planTable EXCEPT ![p] = r]
  /\ CallerGoto(h, "read")
  /\ UNCHANGED <<jobs, entries, current, failures>>

CreatePlan(h, p) ==
  planTable[p] = "none" /\ \E r \in Rows \ {"none"} : Write(h, p, r)

\* No row affected: 404, and no Refresh.
UpdatePlan(h, p) ==
  planTable[p] # "none" /\ \E r \in Rows \ {"none"} : Write(h, p, r)

DeletePlanRow(h, p) == Write(h, p, "none")

-----------------------------------------------------------------------------
(* Refresh.                                                                *)

Tick ==
  /\ caller[Ticker] = "idle"
  /\ CallerGoto(Ticker, "read")
  /\ UNCHANGED <<planTable, jobs, entries, current, bounds>>

ReadRows(t) ==
  /\ caller[t] = "read"
  /\ current' = [current EXCEPT ![t] = planTable]
  /\ CallerGoto(t, "apply")
  /\ UNCHANGED <<planTable, jobs, entries, bounds>>

\* The request's context ends while the rows are read.  rows.Next then reports
\* the end, rows.Err is not consulted, and a part of the table is applied.
ReadSomeRows(h) ==
  /\ caller[h] = "read"
  /\ failures < MaxFailures /\ failures' = failures + 1
  /\ \E read \in SUBSET PlanIds : current' =
       [current EXCEPT ![h] = [p \in PlanIds |-> IF p \in read THEN planTable[p] ELSE "none"]]
  /\ CallerGoto(h, "apply")
  /\ UNCHANGED <<planTable, jobs, entries, writes>>

\* The query or a Scan fails: the error is dropped by the handlers, logged by Run.
RefreshFails(t) ==
  /\ caller[t] = "read"
  /\ failures < MaxFailures /\ failures' = failures + 1
  /\ CallerGoto(t, "idle")
  /\ UNCHANGED <<planTable, jobs, entries, current, writes>>

\* Mutant: the first loop does not compare the schedules.
KeepsEnabled(t, p) == jobs[p] # "none" /\ current[t][p] \notin {"none", "off"}

\* The first loop keeps a job whose row is enabled with the same schedule.
Keeps(t, p) == jobs[p] # "none" /\ current[t][p] = jobs[p]

\* The second loop adds an entry for every other enabled plan, if cron takes it.
Adds(t, p) == ~Keeps(t, p) /\ current[t][p] \in Valid

\* Mutant: a changed schedule does not remove the old cron entry.
ApplyWithoutRemove(t) ==
  /\ caller[t] = "apply"
  /\ jobs' = [p \in PlanIds |-> IF Keeps(t, p) THEN jobs[p]
                              ELSE IF Adds(t, p) THEN current[t][p] ELSE "none"]
  /\ entries' = [p \in PlanIds |-> [s \in Valid |->
       entries[p][s] + (IF Adds(t, p) /\ current[t][p] = s THEN 1 ELSE 0)]]
  /\ CallerGoto(t, "idle")
  /\ current' = [current EXCEPT ![t] = NoRows]
  /\ UNCHANGED <<planTable, bounds>>

\* Both loops, under the mutex.
Apply(t) ==
  /\ caller[t] = "apply"
  /\ jobs' = [p \in PlanIds |-> IF Keeps(t, p) THEN jobs[p]
                              ELSE IF Adds(t, p) THEN current[t][p] ELSE "none"]
  /\ entries' = [p \in PlanIds |-> [s \in Valid |->
       entries[p][s]
         - (IF ~Keeps(t, p) /\ jobs[p] = s THEN 1 ELSE 0)
         + (IF Adds(t, p) /\ current[t][p] = s THEN 1 ELSE 0)]]
  /\ CallerGoto(t, "idle")
  /\ current' = [current EXCEPT ![t] = NoRows]
  /\ UNCHANGED <<planTable, bounds>>

-----------------------------------------------------------------------------

Refresh(t) == ReadRows(t) \/ RefreshFails(t) \/ Apply(t)

PlanRequest(h) ==
  \/ \E p \in PlanIds : CreatePlan(h, p) \/ UpdatePlan(h, p) \/ DeletePlanRow(h, p)
  \/ ReadSomeRows(h)

SchedulerNext == Tick \/ (\E h \in Requests : PlanRequest(h)) \/ (\E t \in Callers : Refresh(t))

SchedulerSpec == SchedulerInit /\ [][SchedulerNext]_scheduler

\* The ticker keeps ticking and no call of Refresh stays where it is.
SchedulerFairness ==
  /\ WF_scheduler(Tick)
  /\ \A t \in Callers : WF_scheduler(ReadRows(t)) /\ WF_scheduler(Apply(t))

SchedulerFairSpec == SchedulerSpec /\ SchedulerFairness

-----------------------------------------------------------------------------
(* Properties.                                                             *)

\* Cron holds exactly the entries planJobIDs knows, one for each job with the
\* schedule remembered for it: no entry of a changed or deleted plan goes on
\* firing unseen, and no plan has two (the two loops of Refresh).
EntriesMatchJobs ==
  \A p \in PlanIds : \A s \in Valid : entries[p][s] = (IF jobs[p] = s THEN 1 ELSE 0)

\* The jobs are those of the enabled rows with a schedule cron accepts.
InSync ==
  \A p \in PlanIds : jobs[p] = IF planTable[p] \in Valid THEN planTable[p] ELSE "none"

\* Once the table is no longer written, cron follows it for good, whatever stale
\* or partial snapshots were applied before (the ticker of Run).
Converges == <>[]InSync
=============================================================================
