---------------------------- MODULE AgentMonitor ----------------------------
(***************************************************************************)
(* The monitor of the agent (agent/monitor.go): the container collector    *)
(* (container_collector.go) that samples Docker, counts restarts and tells *)
(* the log collector what runs, and the log collector (log_collector.go)   *)
(* with one tail goroutine per container and one that ships their lines.   *)
(* connectAndServe starts the monitor when the stream is up and stops it   *)
(* when the stream broke.                                                  *)
(*                                                                         *)
(* The clock counts whole seconds, and a line is the second of its         *)
(* timestamp.  Docker and the containers are external; what they may do is *)
(* bounded by MaxEvents in all.                                            *)
(***************************************************************************)
EXTENDS Integers, Sequences, FiniteSets, Functions

CONSTANTS Containers,
          Unseen,        \* no last restart count
          LoopRestarts,  \* restarts within the window that make a crash loop (3)
          Window,        \* the window, in seconds (60)
          KeepFor,       \* age at which pruneRestartLog drops a restart (300)
          BufMax,        \* lines a stream may hold (4 * maxLinesPerBatch) ...
          BufKeep,       \* ... and how many are kept when there are more (2 *)
          MaxEvents,     \* bound on what happens to the containers and the stream
          MaxTime        \* bound on the clock

ASSUME BufAssumption == BufMax \in Nat /\ BufKeep \in 0 .. BufMax
ASSUME CountAssumption == LoopRestarts \in Nat /\ Unseen \notin Nat
ASSUME WindowAssumption == Window \in Nat /\ KeepFor \in Nat /\ Window <= KeepFor

VARIABLES
  up,          \* connectAndServe: "down", "up", "stopping" (in monitor.Stop)
  session,     \* the session the monitor was last started for
  dead,        \* the context of that session is cancelled
  cc, listed, flagged,  \* the container collector: control, what it saw running, CrashedLoop
  lastCount, restartLog,
  shipper, batch,       \* logCollector.Run: control, the streams flush copied
  streams, disabled,    \* logCollector.streams (0: none), logCollector.disabled
  st,                   \* the containerLogStreams made so far, with their tails
  running, count, logged,  \* Docker: running, restart_count, the lines logged
  now, events,
  sent, restarts        \* ghosts: last line sent to the leader; restarts since the first sighting

monitor    == <<up, session, dead>>
collector  == <<cc, listed, flagged, lastCount, restartLog>>
shipping   == <<shipper, batch, sent>>
logStreams == <<streams, disabled, st>>
docker     == <<running, count, logged, events, restarts>>
vars       == <<monitor, collector, shipping, logStreams, docker, now>>

Init ==
  /\ up = "down" /\ session = 0 /\ dead = TRUE
  /\ cc = "off" /\ listed = {} /\ flagged = [c \in Containers |-> FALSE]
  /\ lastCount = [c \in Containers |-> Unseen] /\ restartLog = [c \in Containers |-> <<>>]
  /\ shipper = "off" /\ batch = <<>> /\ sent = [c \in Containers |-> 0]
  /\ streams = [c \in Containers |-> 0] /\ disabled = {} /\ st = <<>>
  /\ running = Containers /\ count = [c \in Containers |-> LoopRestarts]
  /\ logged = [c \in Containers |-> <<>>] /\ restarts = [c \in Containers |-> 0]
  /\ now = 0 /\ events = 0

\* The context of stream n is done.
Done(n) == st[n].cancelled \/ st[n].session # session \/ dead

-----------------------------------------------------------------------------
(* monitor.Start and monitor.Stop, as connectAndServe calls them.          *)

Start ==
  /\ up = "down"
  /\ up' = "up" /\ session' = session + 1 /\ dead' = FALSE
  /\ \/ cc' = "sample" /\ shipper' = "wait"
     \/ UNCHANGED <<cc, shipper>>               \* Docker is not reachable
  /\ UNCHANGED <<listed, flagged, lastCount, restartLog, batch, sent, logStreams, docker, now>>

\* The stream broke: connectAndServe cancels its context and calls Stop.
Stop ==
  /\ up = "up" /\ events < MaxEvents
  /\ up' = "stopping" /\ dead' = TRUE /\ events' = events + 1
  /\ UNCHANGED <<session, collector, shipping, logStreams, running, count, logged, restarts, now>>

\* wg.Wait returns.
Stopped ==
  /\ up = "stopping" /\ cc = "off" /\ shipper = "off"
  /\ up' = "down"
  /\ UNCHANGED <<session, dead, collector, shipping, logStreams, docker, now>>

-----------------------------------------------------------------------------
(* containerCollector.                                                     *)

\* Mutant: the loop waits for the ticker alone.
CollectorWaits ==
  /\ cc = "wait" /\ cc' = "sample"
  /\ UNCHANGED <<monitor, listed, flagged, lastCount, restartLog, shipping, logStreams, docker, now>>

\* The select of Run: the ticker or the end of the context.
CollectorWakes ==
  /\ cc = "wait"
  /\ cc' = "sample" \/ (dead /\ cc' = "off")
  /\ UNCHANGED <<monitor, listed, flagged, lastCount, restartLog, shipping, logStreams, docker, now>>

\* ListContainers returns every container with its state, of which Sync will ask for
\* the running ones.  With a dead context, or when Docker is late, there is no sample.
ListContainers ==
  /\ cc = "sample"
  /\ \/ ~dead /\ cc' = "build" /\ listed' = running
     \/ cc' = "wait" /\ UNCHANGED listed
  /\ UNCHANGED <<monitor, flagged, lastCount, restartLog, shipping, logStreams, docker, now>>

\* The positions of the restarts less than an age ago.
Since(ts, age) == {i \in DOMAIN ts : ts[i] > now - age}

countRecent(ts) == Cardinality(Since(ts, Window))

\* Mutant: the restarts of the container's whole life count at the first sighting.
NewRestartsSinceBirth(c) ==
  IF lastCount[c] = Unseen THEN count[c]
  ELSE IF count[c] > lastCount[c] THEN count[c] - lastCount[c] ELSE 0

\* recordRestarts: the restarts since the last sample.  The first sighting only
\* sets the baseline.
NewRestarts(c) ==
  IF lastCount[c] # Unseen /\ count[c] > lastCount[c] THEN count[c] - lastCount[c] ELSE 0

Recorded(c) == restartLog[c] \o [i \in 1 .. NewRestarts(c) |-> now]

\* What buildSnapshot leaves of a container: its restarts, and CrashedLoop in the
\* report.  One whose inspect fails is left out of the report.
buildSnapshot(c, inspected) ==
  IF inspected
  THEN [log |-> Recorded(c), count |-> count[c],
        crashed |-> countRecent(Recorded(c)) >= LoopRestarts]
  ELSE [log |-> restartLog[c], count |-> lastCount[c], crashed |-> FALSE]

\* sampleOnce builds the snapshots in parallel and waits for all of them.
BuildSnapshots ==
  /\ cc = "build"
  /\ \E seen \in SUBSET Containers :
       LET snap == [c \in Containers |-> buildSnapshot(c, c \in seen)] IN
       /\ dead => seen = {}
       /\ restartLog' = [c \in Containers |-> snap[c].log]
       /\ lastCount'  = [c \in Containers |-> snap[c].count]
       /\ flagged'    = [c \in Containers |-> snap[c].crashed]
  /\ cc' = "sync"
  /\ UNCHANGED <<monitor, listed, shipping, logStreams, docker, now>>

\* The timestamps are ordered: those that are kept are the last ones.
pruneRestartLog ==
  restartLog' = [c \in Containers |->
    LET ts == restartLog[c] IN SubSeq(ts, Len(ts) - Cardinality(Since(ts, KeepFor)) + 1, Len(ts))]

-----------------------------------------------------------------------------
(* logCollector: the set of streams.                                       *)

\* The orders in which a loop may visit a set.  Of a map there are finitely many keys.
Orders(S) == {order \in Bijection(1 .. Cardinality(S), S) : Cardinality(S) \in Nat}

Cancel(ns) == [n \in DOMAIN st |-> IF n \in ns /\ ~st[n].cancelled
                                   THEN [st[n] EXCEPT !.cancelled = TRUE, !.upTo = Len(logged[st[n].c])]
                                   ELSE st[n]]

\* Streams of containers that stopped end, running ones without a stream get one.
\* The context of a new stream comes from the sample that was listed, whatever
\* became of the session since.
Sync ==
  LET ended == {c \in Containers : streams[c] # 0 /\ c \notin listed} IN
  \E new \in Orders({c \in listed \ disabled : streams[c] = 0}) :
     /\ st' = Cancel({streams[c] : c \in ended})
              \o [i \in DOMAIN new |->
                   [c |-> new[i], session |-> session, cancelled |-> FALSE,
                    at |-> "inspect", seen |-> 0, upTo |-> 0, buf |-> <<>>]]
     /\ streams' = [c \in Containers |->
          IF c \in ended THEN 0
          ELSE IF c \in Range(new) THEN Len(st) + (CHOOSE i \in DOMAIN new : new[i] = c)
          ELSE streams[c]]

\* The rest of sampleOnce: onSnapshot, the report, which goes out or fails with the
\* stream, and pruneRestartLog.
SampleEnds ==
  /\ cc = "sync" /\ cc' = "wait" /\ listed' = {}
  /\ Sync /\ pruneRestartLog
  /\ UNCHANGED <<monitor, flagged, lastCount, shipping, disabled, docker, now>>

\* Mutant: the stream leaves the map, its tail goes on.
SetDisabledForgets(c, off) ==
  /\ up = "up" /\ (c \in disabled) # off /\ events < MaxEvents /\ events' = events + 1
  /\ disabled' = IF off THEN disabled \cup {c} ELSE disabled \ {c}
  /\ streams' = IF off THEN [streams EXCEPT ![c] = 0] ELSE streams
  /\ UNCHANGED <<st, monitor, collector, shipping, running, count, logged, restarts, now>>

\* The commands DisableLogs and EnableLogs.
SetDisabled(c, off) ==
  /\ up = "up" /\ (c \in disabled) # off /\ events < MaxEvents /\ events' = events + 1
  /\ disabled' = IF off THEN disabled \cup {c} ELSE disabled \ {c}
  /\ IF off /\ streams[c] # 0
     THEN st' = Cancel({streams[c]}) /\ streams' = [streams EXCEPT ![c] = 0]
     ELSE UNCHANGED <<st, streams>>
  /\ UNCHANGED <<monitor, collector, shipping, running, count, logged, restarts, now>>

\* The end of logCollector.Run.
stopAll ==
  /\ shipper = "wait" /\ dead
  /\ shipper' = "off"
  /\ st' = Cancel(Range(streams)) /\ streams' = [c \in Containers |-> 0]
  /\ UNCHANGED <<monitor, collector, batch, sent, disabled, docker, now>>

-----------------------------------------------------------------------------
(* logCollector: the tail of stream n, and flush.                          *)

Tail0(n, s) ==
  /\ st' = [st EXCEPT ![n] = s]
  /\ UNCHANGED <<monitor, collector, shipping, streams, disabled, docker, now>>

\* The tail returns.  Its buffer is out of reach once the stream has left the map and
\* no flush copied it.
Ended(n) == [st[n] EXCEPT !.at = "ended", !.seen = 0, !.upTo = 0, !.session = 0,
                          !.buf = IF n \in Range(streams) \cup Range(batch) THEN @ ELSE <<>>]

\* A log that is opened from the present moment starts with the current second:
\* Logs sends since.Unix(), and the lines before are those of earlier seconds.
BeforeSince(c) ==
  {k \in 0 .. Len(logged[c]) : \A i \in DOMAIN logged[c] : i <= k <=> logged[c][i] < now}

\* The tail will open the log from now on.
FromNow(n) == \E k \in BeforeSince(st[n].c) : Tail0(n, [st[n] EXCEPT !.at = "open", !.seen = k])

\* A tail whose inspect fails ends; its stream stays in the map.
Inspect(n) ==
  /\ st[n].at = "inspect"
  /\ \/ ~Done(n) /\ FromNow(n)
     \/ Tail0(n, Ended(n))

\* Logs is opened; when that fails the tail backs off and tries again.
OpenLogs(n) ==
  /\ st[n].at = "open"
  /\ Tail0(n, IF Done(n) THEN Ended(n) ELSE [st[n] EXCEPT !.at = "read"])

\* consumeFramed or consumeRaw takes a line; rateOK may refuse it.  A tail that
\* was cancelled may still read what it had received by then.
Consume(n) ==
  LET s    == st[n]
      next == s.seen + 1
      buf  == Append(s.buf, logged[s.c][next])
  IN /\ s.at = "read" /\ next <= IF s.cancelled THEN s.upTo ELSE Len(logged[s.c])
     /\ \/ Tail0(n, [s EXCEPT !.seen = next])
        \/ Tail0(n, [s EXCEPT !.seen = next,
             !.buf = IF Len(buf) > BufMax THEN SubSeq(buf, Len(buf) - BufKeep + 1, Len(buf)) ELSE buf])

\* Mutant: the next Logs call starts where the last one did.
ConsumeEndsKeepsSince(n) ==
  /\ st[n].at = "read"
  /\ Tail0(n, [st[n] EXCEPT !.at = IF Done(n) THEN "ended" ELSE "open", !.seen = 0])

\* The log stream ends or breaks: the tail ends, or opens it again from now on.
ConsumeEnds(n) ==
  /\ st[n].at = "read"
  /\ IF Done(n) THEN Tail0(n, Ended(n)) ELSE FromNow(n)

\* flush copies the streams, then ships the lines of one after the other.
Flush ==
  /\ shipper = "wait" /\ Range(streams) # {0}
  /\ shipper' = "ship" /\ batch' \in Orders(Range(streams) \ {0})
  /\ UNCHANGED <<monitor, collector, sent, logStreams, docker, now>>

\* The lines are taken from the buffer whether or not emit succeeds.
Ship ==
  /\ shipper = "ship"
  /\ IF batch = <<>>
     THEN shipper' = "wait" /\ UNCHANGED <<batch, sent, st>>
     ELSE LET s == st[Head(batch)] IN
          /\ batch' = Tail(batch) /\ UNCHANGED shipper
          /\ st' = [st EXCEPT ![Head(batch)] = [s EXCEPT !.buf = <<>>]]
          /\ \/ ~dead /\ s.buf # <<>> /\ sent' = [sent EXCEPT ![s.c] = s.buf[Len(s.buf)]]
             \/ UNCHANGED sent
  /\ UNCHANGED <<monitor, collector, streams, disabled, docker, now>>

-----------------------------------------------------------------------------
(* Docker, the containers and the clock (external).                        *)

Happens == events < MaxEvents /\ events' = events + 1

Restarts(c) ==
  /\ Happens /\ c \in running
  /\ count' = [count EXCEPT ![c] = @ + 1]
  /\ restarts' = [restarts EXCEPT ![c] = IF lastCount[c] = Unseen THEN 0 ELSE @ + 1]
  /\ UNCHANGED <<running, logged, monitor, collector, shipping, logStreams, now>>

\* docker stop and docker start; the start sets the restart count to zero.
StopsOrStarts(c) ==
  /\ Happens
  /\ IF c \in running THEN running' = running \ {c} /\ UNCHANGED count
     ELSE running' = running \cup {c} /\ count' = [count EXCEPT ![c] = 0]
  /\ UNCHANGED <<logged, restarts, monitor, collector, shipping, logStreams, now>>

Logs(c) ==
  /\ Happens /\ c \in running
  /\ logged' = [logged EXCEPT ![c] = Append(@, now)]
  /\ UNCHANGED <<running, count, restarts, monitor, collector, shipping, logStreams, now>>

Tick ==
  /\ now < MaxTime /\ now' = now + 1
  /\ UNCHANGED <<monitor, collector, shipping, logStreams, docker>>

CollectorStep == CollectorWakes \/ ListContainers \/ BuildSnapshots \/ SampleEnds
ShipperStep == stopAll \/ Flush \/ Ship
TailStep(n) == Inspect(n) \/ OpenLogs(n) \/ Consume(n) \/ ConsumeEnds(n)

Next ==
  \/ Start \/ Stop \/ Stopped
  \/ CollectorStep \/ ShipperStep
  \/ \E n \in DOMAIN st : TailStep(n)
  \/ \E c \in Containers :
       \/ Restarts(c) \/ StopsOrStarts(c) \/ Logs(c)
       \/ \E off \in BOOLEAN : SetDisabled(c, off)
  \/ Tick

Spec == Init /\ [][Next]_vars

\* The goroutines run, and a select that can always take the end of the context
\* takes it in the end.
FairSpec ==
  /\ Spec
  /\ WF_vars(CollectorStep) /\ SF_vars(CollectorWakes /\ cc' = "off")
  /\ WF_vars(ShipperStep) /\ SF_vars(stopAll)
  /\ WF_vars(Stopped)

-----------------------------------------------------------------------------
(* Properties.                                                             *)

\* A tail whose context is live is the one its container has in the map, and no
\* container whose logs are disabled has one.  Sync, SetDisabled and stopAll can
\* then end it; a tail that left the map alive could never be stopped.
LiveTailIsListed ==
  \A n \in DOMAIN st :
    st[n].at # "ended" /\ ~Done(n) => streams[st[n].c] = n /\ st[n].c \notin disabled

\* The lines of a container reach the leader in the order of their seconds, across
\* restarts of the container, of the tail and of the session: what flush may still
\* ship is of no earlier second than what was shipped.  A tail that opens the log
\* again repeats the lines of the second in which it does so (Logs truncates its
\* `since'), but never one of a second before.
ShippedInOrder ==
  \A n \in (Range(streams) \cup Range(batch)) \ {0} :
    LET lines == <<sent[st[n].c]>> \o st[n].buf
    IN \A i \in 1 .. Len(lines) - 1 : lines[i] <= lines[i + 1]

\* A container is reported as crash-looping only when it restarted LoopRestarts
\* times while the agent knew it: not for restarts before its first sighting.
CrashLoopIsReal ==
  \A c \in Containers : flagged[c] => restarts[c] >= LoopRestarts

\* monitor.Stop returns, so a broken stream is followed by the next attempt to
\* connect.
StopReturns ==
  up = "stopping" ~> up = "down"
==============================================================================
