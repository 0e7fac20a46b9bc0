--------------------------- MODULE BackupContract ---------------------------
(***************************************************************************)
(* What the backup runner promises, without nodes, contexts, webhooks or   *)
(* control points: which runs execute, for which plan, and whether the     *)
(* record of a run is absent, open (pending or running) or closed.         *)
(***************************************************************************)
CONSTANTS Plans, Runs

VARIABLES active,   \* the runs that execute
          plan,     \* the plan of a run
          used,     \* run ids that were handed out
          record,   \* the record of a run
          settled   \* the leader has reconciled what its predecessor left

vars == <<active, plan, used, record, settled>>

Init ==
  /\ active = {} /\ used = {} /\ settled = FALSE
  /\ plan \in [Runs -> Plans]
  /\ record = [r \in Runs |-> "absent"]

\* A run starts under a fresh id if its plan has none executing.
Start(p, r) ==
  /\ r \notin used
  /\ \A s \in active : plan[s] # p
  /\ active' = active \cup {r} /\ used' = used \cup {r}
  /\ plan' = [plan EXCEPT ![r] = p]
  /\ UNCHANGED <<record, settled>>

\* An executing run writes its own record and no other.
Write(r) ==
  /\ r \in active
  /\ \E s \in {"absent", "open", "closed"} : record' = [record EXCEPT ![r] = s]
  /\ UNCHANGED <<active, plan, used, settled>>

\* A run ends; it leaves no open record behind.
Finish(r) ==
  /\ r \in active /\ record[r] # "open"
  /\ active' = active \ {r}
  /\ UNCHANGED <<plan, used, record, settled>>

\* Records are deleted.
Forget(rs) ==
  /\ record' = [r \in Runs |-> IF r \in rs THEN "absent" ELSE record[r]]
  /\ UNCHANGED <<active, plan, used, settled>>

\* The leader dies with its runs; records stay as they are.
Crash ==
  /\ active' = {} /\ settled' = FALSE
  /\ UNCHANGED <<plan, used, record>>

Reconcile ==
  /\ settled' = TRUE
  /\ record' = [r \in Runs |-> IF record[r] = "open" THEN "closed" ELSE record[r]]
  /\ UNCHANGED <<active, plan, used>>

Next ==
  \/ \E p \in Plans, r \in Runs : Start(p, r)
  \/ \E r \in Runs : Write(r) \/ Finish(r)
  \/ \E rs \in SUBSET Runs : Forget(rs)
  \/ Crash \/ Reconcile

Spec == Init /\ [][Next]_vars
=============================================================================
