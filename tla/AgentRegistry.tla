--------------------------- MODULE AgentRegistry ---------------------------
(***************************************************************************)
(* The life of agent streams on the leader: ManagerAgentServer.Channel,    *)
(* AgentRegistry.Register/Unregister, the live state a stream feeds        *)
(* (metrics, containers), the nodes table, and the CleanupNodes handler    *)
(* that reads the one and deletes from the other.                          *)
(*                                                                         *)
(* A node may have several streams at the leader: an agent reconnects long *)
(* before the leader notices that the old stream is dead.  The registry    *)
(* mutex makes Register and the lookup in Unregister atomic; everything    *)
(* else of the two runs outside of it.                                     *)
(***************************************************************************)
EXTENDS Naturals

CONSTANTS Nodes,       \* agent ids
          Streams,     \* Channel calls, each a stream of its own
          NodeOf,      \* NodeOf[c]: the agent id a stream authenticates as
          None,        \* no stream
          MaxRestarts  \* bound on the number of leader restarts

ASSUME NodeOfAssumption == NodeOf \in [Streams -> Nodes]
ASSUME NoneAssumption == None \notin Streams
ASSUME RestartAssumption == MaxRestarts \in Nat

VARIABLES
  registry,    \* AgentRegistry.agents
  spc,         \* control point of a stream's Channel call
  status,      \* nodes.status, "none" when there is no row
  metrics,     \* nodes with a live sample in metricsStore.current
  containers,  \* nodes with live containers in containerStore.state
  superseded,  \* nodes for which Register ever returned a previous stream
  cpc,         \* control point of a CleanupNodes request
  online,      \* the registry as CleanupNodes read it
  victims,     \* the nodes CleanupNodes decided to delete
  restarts     \* leader restarts so far (bounded by MaxRestarts)

cleanup == <<cpc, online, victims>>
live    == <<metrics, containers>>
vars == <<registry, spc, status, live, superseded, cleanup, restarts>>

\* Control points in the order of Channel: the last four are its deferred calls.
Open    == {"upsert", "serving", "applying", "offline", "unregister"}
Closing == {"clearMetrics", "clearContainers"}

TypeOK ==
  /\ registry \in [Nodes -> Streams \cup {None}]
  /\ spc \in [Streams -> {"new", "closed"} \cup Open \cup Closing]
  /\ status \in [Nodes -> {"none", "online", "offline"}]
  /\ metrics \subseteq Nodes
  /\ containers \subseteq Nodes
  /\ superseded \subseteq Nodes
  /\ cpc \in {"idle", "select", "delete", "metrics", "containers"}
  /\ online \subseteq Nodes
  /\ victims \subseteq Nodes
  /\ restarts \in 0..MaxRestarts

Init ==
  /\ registry = [n \in Nodes |-> None]
  /\ spc = [c \in Streams |-> "new"]
  /\ status = [n \in Nodes |-> "none"]
  /\ metrics = {} /\ containers = {} /\ superseded = {}
  /\ cpc = "idle" /\ online = {} /\ victims = {}
  /\ restarts = 0

Goto(c, l) == spc' = [spc EXCEPT ![c] = l]

\* `UPDATE nodes SET status = s WHERE id = n`
SetStatus(n, s) == status' = [status EXCEPT ![n] = IF @ = "none" THEN @ ELSE s]

-----------------------------------------------------------------------------
(* Channel.                                                                *)

\* The Hello arrived.  A previous stream is returned and logged, not closed.
Register(c) ==
  /\ spc[c] = "new"
  /\ registry' = [registry EXCEPT ![NodeOf[c]] = c]
  /\ superseded' = IF registry[NodeOf[c]] = None THEN superseded
                   ELSE superseded \cup {NodeOf[c]}
  /\ Goto(c, "upsert")
  /\ UNCHANGED <<status, live, cleanup, restarts>>

\* upsertNode, whose failure is only logged, then the Welcome.
upsertNode(c) ==
  /\ spc[c] = "upsert"
  /\ status' \in {status, [status EXCEPT ![NodeOf[c]] = "online"]}
  /\ Goto(c, "serving")
  /\ UNCHANGED <<registry, live, superseded, cleanup, restarts>>

\* Mutant: a heartbeat bumps last_seen and leaves the status.
HeartbeatLastSeenOnly(c) ==
  /\ spc[c] = "serving"
  /\ Goto(c, "applying")
  /\ UNCHANGED <<registry, status, live, superseded, cleanup, restarts>>

\* applyHeartbeat of whichever stream still delivers one: the UPDATE, whose
\* error is ignored, then metricsStore.Apply.
HeartbeatRow(c) ==
  /\ spc[c] = "serving"
  /\ SetStatus(NodeOf[c], "online") \/ UNCHANGED status
  /\ Goto(c, "applying")
  /\ UNCHANGED <<registry, live, superseded, cleanup, restarts>>

HeartbeatApply(c) ==
  /\ spc[c] = "applying"
  /\ metrics' = metrics \cup {NodeOf[c]}
  /\ Goto(c, "serving")
  /\ UNCHANGED <<registry, status, containers, superseded, cleanup, restarts>>

\* handleEvent with a ContainerReport: an empty one clears the live state.
ContainerReport(c) ==
  /\ spc[c] = "serving"
  /\ containers' \in {containers \cup {NodeOf[c]}, containers \ {NodeOf[c]}}
  /\ UNCHANGED <<registry, spc, status, metrics, superseded, cleanup, restarts>>

\* Recv fails, or the upsert and Welcome do.
StreamEnds(c) ==
  /\ spc[c] \in {"upsert", "serving"}
  /\ Goto(c, "offline")
  /\ UNCHANGED <<registry, status, live, superseded, cleanup, restarts>>

\* The deferred UPDATE, whether or not another stream took over; its error is
\* ignored.
MarkOfflineRow(c) ==
  /\ spc[c] = "offline"
  /\ SetStatus(NodeOf[c], "offline") \/ UNCHANGED status
  /\ Goto(c, "unregister")
  /\ UNCHANGED <<registry, live, superseded, cleanup, restarts>>

\* Mutant: Unregister clears the live state and keeps the registry entry.
UnregisterLeaks(c) ==
  /\ spc[c] = "unregister"
  /\ Goto(c, IF registry[NodeOf[c]] = c THEN "clearMetrics" ELSE "closed")
  /\ UNCHANGED <<registry, status, live, superseded, cleanup, restarts>>

\* Unregister under the mutex: only the connection itself is removed.
Unregister(c) ==
  /\ spc[c] = "unregister"
  /\ IF registry[NodeOf[c]] = c
     THEN /\ registry' = [registry EXCEPT ![NodeOf[c]] = None]
          /\ Goto(c, "clearMetrics")
     ELSE /\ Goto(c, "closed")
          /\ UNCHANGED registry
  /\ UNCHANGED <<status, live, superseded, cleanup, restarts>>

\* metricsStore.MarkOffline and containerStore.MarkNodeOffline, after the mutex.
MarkOffline(c) ==
  /\ spc[c] = "clearMetrics"
  /\ metrics' = metrics \ {NodeOf[c]}
  /\ Goto(c, "clearContainers")
  /\ UNCHANGED <<registry, status, containers, superseded, cleanup, restarts>>

\* Mutant: the containers of a node stay when it disconnects.
KeepContainers(c) ==
  /\ spc[c] = "clearContainers"
  /\ Goto(c, "closed")
  /\ UNCHANGED <<registry, status, live, superseded, cleanup, restarts>>

MarkNodeOffline(c) ==
  /\ spc[c] = "clearContainers"
  /\ containers' = containers \ {NodeOf[c]}
  /\ Goto(c, "closed")
  /\ UNCHANGED <<registry, status, metrics, superseded, cleanup, restarts>>

-----------------------------------------------------------------------------
(* CleanupNodes, one request at a time.                                    *)

CleanupReadRegistry ==
  /\ cpc = "idle" /\ cpc' = "select"
  /\ online' = {n \in Nodes : registry[n] # None}
  /\ UNCHANGED <<registry, spc, status, live, superseded, victims, restarts>>

\* The rows not online and old enough; the age is not modelled.
CleanupSelect ==
  /\ cpc = "select"
  /\ \E vs \in SUBSET {n \in Nodes \ online : status[n] # "none"} :
       /\ victims' = vs
       /\ cpc' = IF vs = {} THEN "idle" ELSE "delete"
  /\ online' = {}
  /\ UNCHANGED <<registry, spc, status, live, superseded, restarts>>

\* A query or the transaction fails: rolled back, nothing deleted.
CleanupAbort ==
  /\ cpc \in {"select", "delete"} /\ cpc' = "idle"
  /\ online' = {} /\ victims' = {}
  /\ UNCHANGED <<registry, spc, status, live, superseded, restarts>>

\* The transaction: rows that reference the nodes, then the nodes.
CleanupDelete ==
  /\ cpc = "delete" /\ cpc' = "metrics"
  /\ status' = [n \in Nodes |-> IF n \in victims THEN "none" ELSE status[n]]
  /\ UNCHANGED <<registry, spc, live, superseded, online, victims, restarts>>

CleanupMarkOffline ==
  /\ cpc = "metrics" /\ cpc' = "containers"
  /\ metrics' = metrics \ victims
  /\ UNCHANGED <<registry, spc, status, containers, superseded, online, victims,
                 restarts>>

CleanupMarkNodeOffline ==
  /\ cpc = "containers" /\ cpc' = "idle"
  /\ containers' = containers \ victims
  /\ victims' = {}
  /\ UNCHANGED <<registry, spc, status, metrics, superseded, online, restarts>>

\* The leader process ends and comes back: what was in memory is gone.
RestartLeader ==
  /\ restarts < MaxRestarts /\ restarts' = restarts + 1
  /\ registry' = [n \in Nodes |-> None]
  /\ spc' = [c \in Streams |-> IF spc[c] = "new" THEN "new" ELSE "closed"]
  /\ metrics' = {} /\ containers' = {} /\ superseded' = {}
  /\ cpc' = "idle" /\ online' = {} /\ victims' = {}
  /\ UNCHANGED status

-----------------------------------------------------------------------------

Deferred(c) ==
  MarkOfflineRow(c) \/ Unregister(c) \/ MarkOffline(c) \/ MarkNodeOffline(c)

StreamStep(c) ==
  \/ Register(c) \/ upsertNode(c) \/ HeartbeatRow(c) \/ HeartbeatApply(c)
  \/ ContainerReport(c)
  \/ StreamEnds(c) \/ Deferred(c)

CleanupNodes ==
  \/ CleanupReadRegistry \/ CleanupSelect \/ CleanupAbort \/ CleanupDelete
  \/ CleanupMarkOffline \/ CleanupMarkNodeOffline

Next == (\E c \in Streams : StreamStep(c)) \/ CleanupNodes \/ RestartLeader

Spec == Init /\ [][Next]_vars

\* A handler that can go on does; the agent's ticker keeps sending heartbeats,
\* and their UPDATE does not fail for ever.
Fairness ==
  \A c \in Streams :
    /\ WF_vars(upsertNode(c)) /\ WF_vars(HeartbeatApply(c)) /\ WF_vars(Deferred(c))
    /\ SF_vars(HeartbeatRow(c) /\ SetStatus(NodeOf[c], "online"))

FairSpec == Spec /\ Fairness

-----------------------------------------------------------------------------
(* Properties.                                                             *)

\* The registry routes commands for a node only to a stream of that node whose
\* Channel call has not yet unregistered (Register, Unregister).
RegistryHoldsOpenStream ==
  \A n \in Nodes : registry[n] # None =>
    /\ NodeOf[registry[n]] = n
    /\ spc[registry[n]] \in Open

\* A stream leaves the registry only by its own Unregister, by a newer stream of
\* its node or with the process: the end of a superseded stream never takes the
\* stream that replaced it out (the comparison in Unregister).
OnlyOwnerUnregisters ==
  [][\A n \in Nodes : registry[n] # None /\ registry'[n] = None =>
       \/ spc[registry[n]] = "unregister"
       \/ restarts' # restarts]_vars

\* A node whose streams have all ended shows no live metrics or containers,
\* unless one of its streams was superseded (Unregister's MarkOffline and
\* MarkNodeOffline).
OfflineIsClean ==
  \A n \in Nodes \ superseded :
    (\A c \in Streams : NodeOf[c] = n => spc[c] \in {"new", "closed"})
      => n \notin metrics /\ n \notin containers

\* The row of a node that keeps a stream becomes online again after the end of a
\* superseded stream flipped it, unless CleanupNodes deleted the row
\* (MarkOfflineRow, applyHeartbeat).
StatusHeals ==
  \A c \in Streams :
    spc[c] = "serving" ~> \/ spc[c] \notin {"serving", "applying"}
                          \/ status[NodeOf[c]] \in {"online", "none"}
=============================================================================
