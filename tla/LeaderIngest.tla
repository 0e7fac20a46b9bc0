---------------------------- MODULE LeaderIngest ----------------------------
(***************************************************************************)
(* What the leader keeps of a node's messages: heartbeats in metricsStore  *)
(* (metrics_store.go), container reports in containerStore                 *)
(* (container_store.go) and log lines in logStore (log_store.go), in       *)
(* memory and in SQLite, and the live log streams (ContainerLogStream)     *)
(* that read the last of them.                                             *)
(*                                                                         *)
(* One stream of one node at a time: its receive goroutine handles one     *)
(* message after the other (Channel, handleEvent).  Streams that overlap   *)
(* are the subject of AgentRegistry.                                       *)
(***************************************************************************)
EXTENDS Integers, Sequences

CONSTANTS Containers,
          Viewers,      \* requests to ContainerLogStream
          None,         \* no sample, no bucket, no row
          MinuteLen,    \* seconds in a minute
          Rx,           \* values of a node's receive counter
          LogMax,       \* maxLinesPerCnt
          Every,        \* pruneBatchEvery
          TailLen,      \* lines ContainerLogStream shows first
          Keep,         \* minutes RunPruneLoop keeps
          ViewBuf,      \* capacity of a live-log channel (256)
          MaxBatch,     \* bound on the lines of a LogBatch
          MaxMsgs,      \* bound on the messages, breaks and cleanups
          MaxLines,     \* bound on the log lines
          MaxCrashes,   \* bound on the restarts of the leader
          MaxTime       \* bound on the clock

ASSUME MinuteAssumption == MinuteLen \in Nat \ {0} /\ MaxTime \in Nat /\ Rx \subseteq Nat
ASSUME LogAssumption == LogMax \in Nat /\ Every \in Nat \ {0} /\ ViewBuf \in Nat
ASSUME NoneAssumption == None \notin [minute : Nat, sum : Nat, count : Nat]

VARIABLES
  online, known,    \* the stream is up; the node has its row in nodes
  recv,             \* the receive goroutine: control, and the message it handles
  current,          \* metricsStore.current: counter and time of the last sample
  bucket, flushing, \* metricsStore.buckets; buckets handed to a flushBucket goroutine
  buckets,          \* node_metric_buckets: rate and sample_count by minute
  state, rows,      \* containerStore.state, container_state: the report of each view
  lines, lastId,    \* container_log_lines (ids in order), the last id given
  pending, prunes,  \* logStore.pendingPrn, pruneOne goroutines to run
  subs, view,       \* logStore.subscribers; the ContainerLogStream requests
  panicked,         \* a send on a closed channel
  now, msgs, crashes,
  \* Ghosts: the heartbeats of this process by minute; the last report, its number and
  \* whether its rows were written.
  heard, report

metrics    == <<current, bucket, flushing, buckets, heard>>
containers == <<state, rows, report>>
logs       == <<lines, lastId, pending, prunes>>
live       == <<subs, view, panicked>>
env        == <<now, msgs, crashes>>
vars       == <<online, known, recv, metrics, containers, logs, live, env>>

Minutes == 0 .. MaxTime \div MinuteLen
Idle    == [at |-> "idle"]

\* A request to ContainerLogStream: its channel, the last line shown of those fanned
\* out after it subscribed (or the last one before), whether one was dropped for it.
Viewer  == [at |-> "new", ch |-> <<>>, closed |-> FALSE, shown |-> 0, slow |-> FALSE]
Gone    == [Viewer EXCEPT !.at = "left"]   \* nobody reads its channel any more

Init ==
  /\ online = FALSE /\ known = FALSE /\ recv = Idle
  /\ current = None /\ bucket = None /\ flushing = {} /\ buckets = [m \in Minutes |-> None]
  /\ heard = [m \in Minutes |-> [sum |-> 0, count |-> 0]]
  /\ state = [c \in Containers |-> 0] /\ rows = [c \in Containers |-> 0]
  /\ report = [n |-> 0, set |-> {}, kept |-> FALSE]
  /\ lines = <<>> /\ lastId = 0 /\ pending = 0 /\ prunes = 0
  /\ subs = {} /\ view = [v \in Viewers |-> Viewer] /\ panicked = FALSE
  /\ now = 0 /\ msgs = 0 /\ crashes = 0

-----------------------------------------------------------------------------
(* The stream.                                                             *)

MarkOffline     == current' = None
MarkNodeOffline == state' = [c \in Containers |-> 0]

\* Register and upsertNode.
Connect ==
  /\ ~online /\ online' = TRUE /\ known' = TRUE
  /\ UNCHANGED <<recv, metrics, containers, logs, live, env>>

\* Unregister drops the live state; the accumulator of the minute stays.
Disconnect ==
  /\ online /\ recv = Idle /\ msgs < MaxMsgs
  /\ online' = FALSE /\ msgs' = msgs + 1
  /\ MarkOffline /\ MarkNodeOffline
  /\ UNCHANGED <<known, recv, bucket, flushing, buckets, heard, rows, report, logs, live, now, crashes>>

\* CleanupNodes: the row of the node goes with all that refers to it, then its live
\* state (AgentRegistry has these as two steps).  The registry was read earlier, so
\* the node may be back meanwhile.
CleanupNodes ==
  /\ known /\ msgs < MaxMsgs
  /\ known' = FALSE /\ msgs' = msgs + 1
  /\ buckets' = [m \in Minutes |-> None] /\ rows' = [c \in Containers |-> 0] /\ lines' = <<>>
  /\ MarkOffline /\ MarkNodeOffline /\ report' = [report EXCEPT !.kept = FALSE]
  /\ UNCHANGED <<online, recv, bucket, flushing, heard, lastId, pending, prunes,
                 live, now, crashes>>

Receive(m) ==
  /\ online /\ recv = Idle /\ msgs < MaxMsgs
  /\ recv' = m /\ msgs' = msgs + 1
  /\ UNCHANGED <<online, known, metrics, containers, logs, live, now, crashes>>

-----------------------------------------------------------------------------
(* metricsStore.                                                           *)

bytesPerSecond(rx, prev, dt) == IF rx < prev \/ dt <= 0 THEN 0 ELSE (rx - prev) \div dt

Rate(rx) == IF current = None THEN 0 ELSE bytesPerSecond(rx, current.rx, now - current.at)

Add(b, rate) == [b EXCEPT !.sum = @ + rate, !.count = @ + 1]

\* Mutant: the rollover keeps the accumulator.
feedBucketKeepsSum(rate) ==
  LET minute == now \div MinuteLen
      fresh  == [minute |-> minute, sum |-> 0, count |-> 0]
  IN /\ bucket' = Add(IF bucket = None THEN fresh ELSE [bucket EXCEPT !.minute = minute], rate)
     /\ flushing' = IF bucket # None /\ bucket.minute # minute THEN flushing \cup {bucket} ELSE flushing

\* The bucket of an earlier minute is handed to flushBucket and a new one started.
feedBucket(rate) ==
  LET minute == now \div MinuteLen
      fresh  == [minute |-> minute, sum |-> 0, count |-> 0]
      rolls  == bucket # None /\ bucket.minute # minute
  IN /\ bucket' = Add(IF bucket = None \/ rolls THEN fresh ELSE bucket, rate)
     /\ flushing' = IF rolls THEN flushing \cup {bucket} ELSE flushing

\* applyHeartbeat: Apply.  Persist, which follows, writes tables nothing here reads.
ApplyHeartbeat ==
  /\ recv.at = "heartbeat" /\ recv' = Idle
  /\ current' = [rx |-> recv.rx, at |-> now]
  /\ feedBucket(Rate(recv.rx))
  /\ heard' = [heard EXCEPT ![now \div MinuteLen] = Add(@, Rate(recv.rx))]
  /\ UNCHANGED <<online, known, buckets, containers, logs, live, env>>

\* The upsert fails for a node without a row.
flushBucket ==
  \E b \in flushing :
    /\ flushing' = flushing \ {b}
    /\ \/ known /\ buckets' = [buckets EXCEPT ![b.minute] = [rate |-> b.sum \div b.count, count |-> b.count]]
       \/ UNCHANGED buckets
    /\ UNCHANGED <<online, known, recv, current, bucket, heard, containers, logs, live, env>>

\* The prune loop drops the rows of minutes gone by.
RunPruneLoop ==
  /\ buckets' = [m \in Minutes |-> IF m + Keep < now \div MinuteLen THEN None ELSE buckets[m]]
  /\ UNCHANGED <<online, known, recv, current, bucket, flushing, heard, containers, logs, live, env>>

-----------------------------------------------------------------------------
(* containerStore.                                                         *)

\* Apply: the map, for every container of the report; the others of the node go.
ApplyReport ==
  /\ recv.at = "report" /\ recv' = [recv EXCEPT !.at = "persist"]
  /\ report' = [n |-> report.n + 1, set |-> recv.set, kept |-> FALSE]
  /\ state' = [c \in Containers |-> IF c \in recv.set THEN report.n + 1 ELSE 0]
  /\ UNCHANGED <<online, known, metrics, rows, logs, live, env>>

\* Mutant: rows of containers that are gone stay.
KeptRows(set, old) ==
  [c \in Containers |-> IF c \in set THEN report.n ELSE old[c]]

\* The rows after persistBatch of a node with a row: an empty report drops none.
PersistedRows(set, old) ==
  [c \in Containers |-> IF c \in set THEN report.n ELSE IF set = {} THEN old[c] ELSE 0]

\* persistBatch in one transaction: an error of a row is ignored and leaves that row
\* as it was, a failed commit leaves them all.  Without the node's row every insert
\* fails.
persistBatch ==
  /\ recv.at = "persist" /\ recv' = Idle
  /\ \E done \in SUBSET Containers :
       /\ rows' = [c \in Containers |->
            IF known /\ c \in done THEN PersistedRows(recv.set, rows)[c] ELSE rows[c]]
       /\ report' = [report EXCEPT !.kept = known /\ done = Containers]
  /\ UNCHANGED <<online, known, state, metrics, logs, live, env>>

\* What Get shows of a container: the live view before the row.
Get(c) == IF state[c] # 0 THEN state[c] ELSE rows[c]

\* What All lists: the live views, and the rows of containers without one.
All == {[c |-> c, n |-> state[c]] : c \in {d \in Containers : state[d] # 0}}
       \cup {[c |-> c, n |-> rows[c]] : c \in {d \in Containers : state[d] = 0 /\ rows[d] # 0}}

-----------------------------------------------------------------------------
(* logStore and the live streams.                                          *)

\* Apply: the lines are inserted in one transaction; a failed Begin drops the
\* batch, a failed Commit does not keep it from the subscribers.
InsertLines ==
  /\ recv.at = "lines"
  /\ LET ids == [i \in 1 .. recv.n |-> lastId + i] IN
     \/ recv' = Idle /\ UNCHANGED <<lines, lastId>>
     \/ /\ recv' = [at |-> "fan", todo |-> ids, chs |-> None, prune |-> FALSE]
        /\ lastId' = lastId + recv.n
        /\ lines' = lines \o ids \/ UNCHANGED lines
  /\ UNCHANGED <<online, known, metrics, containers, pending, prunes, live, env>>

\* fanout copies the channels under the lock ...
FanoutCopies ==
  /\ recv.at = "fan" /\ recv.todo # <<>> /\ recv.chs = None
  /\ recv' = [recv EXCEPT !.chs = subs]
  /\ UNCHANGED <<online, known, metrics, containers, logs, live, env>>

\* ... and sends after releasing it, without waiting for a slow subscriber; then
\* the line is counted.
FanoutSends ==
  /\ recv.at = "fan" /\ recv.todo # <<>> /\ recv.chs # None
  /\ LET e == Head(recv.todo) IN
     /\ view' = [v \in Viewers |->
          IF v \notin recv.chs \/ view[v].at = "left" THEN view[v]
          ELSE IF Len(view[v].ch) < ViewBuf THEN [view[v] EXCEPT !.ch = Append(@, e)]
          ELSE [view[v] EXCEPT !.slow = TRUE]]
     /\ panicked' = (panicked \/ \E v \in recv.chs : view[v].closed)
  /\ LET full == pending + 1 >= Every IN
     /\ pending' = IF full THEN 0 ELSE pending + 1
     /\ recv' = [recv EXCEPT !.todo = Tail(@), !.chs = None, !.prune = @ \/ full]
  /\ UNCHANGED <<online, known, metrics, containers, lines, lastId, prunes, subs, env>>

ApplyEnds ==
  /\ recv.at = "fan" /\ recv.todo = <<>>
  /\ recv' = Idle /\ prunes' = prunes + IF recv.prune THEN 1 ELSE 0
  /\ UNCHANGED <<online, known, metrics, containers, lines, lastId, pending, live, env>>

LastOf(s, n) == SubSeq(s, Len(s) - n + 1, Len(s))

\* Rows older than the one LogMax places from the newest go.
Pruned(s) ==
  IF Len(s) > LogMax THEN LastOf(s, LogMax + 1) ELSE s

pruneOne ==
  /\ prunes > 0 /\ prunes' = prunes - 1
  /\ lines' = Pruned(lines)
  /\ UNCHANGED <<online, known, recv, metrics, containers, lastId, pending, live, env>>

\* Lines whose fanout has copied the channels, and those sent.
Copied == lastId - IF recv.at = "fan" THEN Len(recv.todo) - (IF recv.chs = None THEN 0 ELSE 1) ELSE 0
Fanned == lastId - IF recv.at = "fan" THEN Len(recv.todo) ELSE 0

\* RunRetentionLoop deletes the lines that are too old.
RunRetentionLoop ==
  /\ \E n \in 1 .. Len(lines) : lines' = SubSeq(lines, n + 1, Len(lines))
  /\ UNCHANGED <<online, known, recv, metrics, containers, lastId, pending, prunes, live, env>>

\* ContainerLogStream shows the last lines of the table ...
TailLines(v) ==
  /\ view[v].at = "new"
  /\ LET first == LastOf(lines, IF TailLen < Len(lines) THEN TailLen ELSE Len(lines)) IN
     view' = [view EXCEPT ![v].at = "tailed", ![v].shown = IF first = <<>> THEN 0 ELSE first[Len(first)]]
  /\ UNCHANGED <<online, known, recv, metrics, containers, logs, subs, panicked, env>>

\* ... and subscribes to those to come, the lines fanned out in between aside.
Subscribe(v) ==
  /\ view[v].at = "tailed"
  /\ subs' = subs \cup {v} /\ view' = [view EXCEPT ![v].at = "live", ![v].shown = Copied]
  /\ UNCHANGED <<online, known, recv, metrics, containers, logs, panicked, env>>

Show(v) ==
  /\ view[v].at = "live" /\ view[v].ch # <<>>
  /\ view' = [view EXCEPT ![v].ch = Tail(@), ![v].shown = Head(view[v].ch)]
  /\ UNCHANGED <<online, known, recv, metrics, containers, logs, subs, panicked, env>>

\* Mutant: the subscriptions of the container go with the last entry removed.
LeaveForAll(v) ==
  /\ view[v].at = "live"
  /\ subs' = {} /\ view' = [view EXCEPT ![v] = Gone]
  /\ UNCHANGED <<online, known, recv, metrics, containers, logs, panicked, env>>

\* Mutant: cancel closes the channel.
LeaveCloses(v) ==
  /\ view[v].at = "live"
  /\ subs' = subs \ {v} /\ view' = [view EXCEPT ![v] = [Gone EXCEPT !.closed = TRUE]]
  /\ UNCHANGED <<online, known, recv, metrics, containers, logs, panicked, env>>

\* The browser is gone: cancel takes the channel out of the map and leaves it open.
Leave(v) ==
  /\ view[v].at = "live"
  /\ subs' = subs \ {v} /\ view' = [view EXCEPT ![v] = Gone]
  /\ UNCHANGED <<online, known, recv, metrics, containers, logs, panicked, env>>

-----------------------------------------------------------------------------

\* The leader goes down; memory, goroutines and requests go with it.
Restart ==
  /\ crashes < MaxCrashes /\ crashes' = crashes + 1
  /\ online' = FALSE /\ recv' = Idle
  /\ current' = None /\ bucket' = None /\ flushing' = {}
  /\ heard' = [m \in Minutes |-> [sum |-> 0, count |-> 0]]
  /\ state' = [c \in Containers |-> 0]
  /\ pending' = 0 /\ prunes' = 0
  /\ subs' = {} /\ view' = [v \in Viewers |-> IF view[v].at = "new" THEN Viewer ELSE Gone]
  /\ UNCHANGED <<known, buckets, rows, report, lines, lastId, panicked, now, msgs>>

Tick ==
  /\ now < MaxTime /\ now' = now + 1
  /\ UNCHANGED <<online, known, recv, metrics, containers, logs, live, msgs, crashes>>

Message ==
  \/ \E rx \in Rx : Receive([at |-> "heartbeat", rx |-> rx])
  \/ \E set \in SUBSET Containers : Receive([at |-> "report", set |-> set])
  \/ \E n \in 1 .. MaxBatch : lastId + n <= MaxLines /\ Receive([at |-> "lines", n |-> n])

Ingest ==
  \/ ApplyHeartbeat \/ ApplyReport \/ persistBatch
  \/ InsertLines \/ FanoutCopies \/ FanoutSends \/ ApplyEnds

Next ==
  \/ Connect \/ Disconnect \/ CleanupNodes \/ Message \/ Ingest
  \/ flushBucket \/ RunPruneLoop \/ pruneOne \/ RunRetentionLoop \/ Restart \/ Tick
  \/ \E v \in Viewers : TailLines(v) \/ Subscribe(v) \/ Show(v) \/ Leave(v)

Spec == Init /\ [][Next]_vars

-----------------------------------------------------------------------------
(* Properties.                                                             *)

\* Once a report that names containers is handled and its rows are written, what
\* the UI shows of the node is that report, also after the agent or the leader
\* went away: no container of an earlier report comes back from the table.
ShownIsLatest ==
  recv.at # "persist" /\ report.kept /\ known /\ report.set # {} =>
    /\ All = [c : report.set, n : {report.n}]
    /\ \A c \in Containers : Get(c) = IF c \in report.set THEN report.n ELSE 0

\* The row of a minute is the average of all heartbeats of that minute and says
\* how many they were, however late the goroutine writes it.
BucketIsMinute ==
  \A b \in flushing : b.sum = heard[b.minute].sum /\ b.count = heard[b.minute].count

\* A live viewer gets every line whose fanout began after it subscribed, in order,
\* unless one was dropped because it was slow; other viewers come and go.
LiveIsGapless ==
  \A v \in Viewers : view[v].at = "live" /\ ~view[v].slow =>
    view[v].ch = [i \in 1 .. Fanned - view[v].shown |-> view[v].shown + i]

\* cancel does not close the channel: fanout may be about to send on it, and a send
\* on a closed channel takes the leader down.
NoPanic == ~panicked
==============================================================================
