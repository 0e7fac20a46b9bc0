------------------------- MODULE AgentMonitorProofs -------------------------
(***************************************************************************)
(* The monitor of the agent for any number of containers, lines, restarts  *)
(* and sessions: a live tail can be stopped, the lines of a container are  *)
(* shipped in the order of their seconds, and a crash loop that is         *)
(* reported took place.                                                    *)
(***************************************************************************)
EXTENDS AgentStreamProofs, FiniteSetTheorems

-----------------------------------------------------------------------------
(* The restarts.                                                           *)

\* Every restart on record, and every one the next sample will record, took place
\* while the agent knew the container.
RestartInv ==
  \A c \in Containers :
    /\ lastCount[c] \in Nat \cup {Unseen} /\ count[c] \in Nat /\ restarts[c] \in Nat
    /\ restartLog[c] \in Seq(Nat)
    /\ Len(restartLog[c]) + NewRestarts(c) <= restarts[c]
    /\ flagged[c] => restarts[c] >= LoopRestarts /\ lastCount[c] # Unseen
    /\ lastCount[c] = Unseen => restartLog[c] = <<>>

RestartTyped ==
  /\ DOMAIN count = Containers /\ DOMAIN restarts = Containers
  /\ now \in Nat

CrashInv == RestartTyped /\ RestartInv

\* A log has no more restarts within an age than entries.
LEMMA SinceBound ==
  ASSUME NEW ts \in Seq(Nat), NEW age
  PROVE  /\ Cardinality(Since(ts, age)) \in Nat
         /\ Cardinality(Since(ts, age)) <= Len(ts)
<1>1. Since(ts, age) \subseteq 1 .. Len(ts)
  BY DEF Since
<1>2. IsFiniteSet(1 .. Len(ts)) /\ Cardinality(1 .. Len(ts)) = Len(ts)
  <2>1. Len(ts) \in Nat
    OBVIOUS
  <2>2. \A n \in Nat : IsFiniteSet(1 .. n) /\ Cardinality(1 .. n) = n
    <3> SUFFICES ASSUME NEW n \in Nat PROVE IsFiniteSet(1 .. n) /\ Cardinality(1 .. n) = n
      OBVIOUS
    <3>1. IsFiniteSet(1 .. n) /\ Cardinality(1 .. n) = IF 1 > n THEN 0 ELSE n - 1 + 1
      BY FS_Interval, 1 \in Int, n \in Int
    <3> QED
      BY <3>1
  <2> QED
    BY <2>1, <2>2
<1>3. IsFiniteSet(Since(ts, age)) /\ Cardinality(Since(ts, age)) <= Cardinality(1 .. Len(ts))
  BY <1>1, <1>2, FS_Subset
<1> QED
  BY <1>2, <1>3, FS_CardinalityType

\* A sample adds the new restarts to the log.
LEMMA RecordedLength ==
  ASSUME CrashInv, NEW c \in Containers
  PROVE  /\ NewRestarts(c) \in Nat
         /\ Recorded(c) \in Seq(Nat)
         /\ Len(Recorded(c)) = Len(restartLog[c]) + NewRestarts(c)
<1>1. NewRestarts(c) \in Nat
  BY CountAssumption DEF CrashInv, RestartInv, NewRestarts
<1> DEFINE add == [i \in 1 .. NewRestarts(c) |-> now]
<1>2. add \in Seq(Nat) /\ Len(add) = NewRestarts(c)
  BY <1>1 DEF CrashInv, RestartTyped
<1>3. restartLog[c] \in Seq(Nat)
  BY DEF CrashInv, RestartInv
<1> HIDE DEF add
<1>4. restartLog[c] \o add \in Seq(Nat) /\ Len(restartLog[c] \o add) = Len(restartLog[c]) + Len(add)
  <2>1. \A s, ts \in Seq(Nat) : s \o ts \in Seq(Nat) /\ Len(s \o ts) = Len(s) + Len(ts)
    OBVIOUS
  <2> QED
    BY <1>2, <1>3, <2>1, Zenon
<1>5. Recorded(c) = restartLog[c] \o add
  BY DEF Recorded, add
<1> QED
  BY <1>1, <1>2, <1>4, <1>5

\* buildSnapshots records the restarts that docker counted since the last sample, and flags
\* a crash loop on no others.
LEMMA BuildKeepsCrash ==
  ASSUME CrashInv, BuildSnapshots
  PROVE  CrashInv'
<1>1. PICK seen \in SUBSET Containers :
        /\ restartLog' = [c \in Containers |-> buildSnapshot(c, c \in seen).log]
        /\ lastCount'  = [c \in Containers |-> buildSnapshot(c, c \in seen).count]
        /\ flagged'    = [c \in Containers |-> buildSnapshot(c, c \in seen).crashed]
  BY DEF BuildSnapshots
<1>2. UNCHANGED <<count, restarts, now>>
  BY DEF BuildSnapshots, docker
<1>3. RestartTyped'
  BY <1>2 DEF CrashInv, RestartTyped
<1>4. ASSUME NEW c \in Containers PROVE
        /\ (lastCount[c] \in Nat \cup {Unseen} /\ count[c] \in Nat /\ restarts[c] \in Nat)'
        /\ (restartLog[c] \in Seq(Nat))'
        /\ (Len(restartLog[c]) + NewRestarts(c) <= restarts[c])'
        /\ (flagged[c] => restarts[c] >= LoopRestarts /\ lastCount[c] # Unseen)'
        /\ (lastCount[c] = Unseen => restartLog[c] = <<>>)'
  <2>1. /\ lastCount[c] \in Nat \cup {Unseen} /\ count[c] \in Nat /\ restarts[c] \in Nat
        /\ restartLog[c] \in Seq(Nat)
        /\ Len(restartLog[c]) + NewRestarts(c) <= restarts[c]
        /\ flagged[c] => restarts[c] >= LoopRestarts /\ lastCount[c] # Unseen
        /\ lastCount[c] = Unseen => restartLog[c] = <<>>
    BY DEF CrashInv, RestartInv
  <2>2. CASE c \in seen
    <3>1. /\ restartLog'[c] = Recorded(c) /\ lastCount'[c] = count[c]
          /\ flagged'[c] => Cardinality(Since(Recorded(c), Window)) >= LoopRestarts
      BY <1>1, <2>2, Zenon DEF buildSnapshot, countRecent
    <3>2. /\ NewRestarts(c) \in Nat /\ Recorded(c) \in Seq(Nat)
          /\ Len(Recorded(c)) = Len(restartLog[c]) + NewRestarts(c)
      BY RecordedLength
    <3>3. /\ Cardinality(Since(Recorded(c), Window)) \in Nat
          /\ Cardinality(Since(Recorded(c), Window)) <= Len(Recorded(c))
      BY <3>2, SinceBound
    <3>4. NewRestarts(c)' = 0
      BY <1>2, <3>1, <2>1 DEF NewRestarts
    <3>5. Len(Recorded(c)) \in Nat
      BY <3>2
    <3>6. Len(Recorded(c)) <= restarts[c]
      BY <2>1, <3>2
    <3>7. flagged'[c] => restarts[c] >= LoopRestarts
      BY <3>1, <3>3, <3>5, <3>6, <2>1, CountAssumption
    <3> QED
      BY <1>2, <3>1, <3>2, <3>4, <3>5, <3>6, <3>7, <2>1, CountAssumption, SMTT(30)
  <2>3. CASE c \notin seen
    <3>1. restartLog'[c] = restartLog[c] /\ lastCount'[c] = lastCount[c] /\ flagged'[c] = FALSE
      BY <1>1, <2>3 DEF buildSnapshot
    <3>2. NewRestarts(c)' = NewRestarts(c)
      BY <1>2, <3>1 DEF NewRestarts
    <3> QED
      BY <1>2, <3>1, <3>2, <2>1
  <2> QED
    BY <2>2, <2>3
<1> QED
  BY <1>3, <1>4 DEF CrashInv, RestartInv

\* The end of a sample forgets containers, never invents a restart.
LEMMA PruneKeepsCrash ==
  ASSUME CrashInv, SampleEnds
  PROVE  CrashInv'
<1>1. UNCHANGED <<count, restarts, now, lastCount, flagged>>
  BY DEF SampleEnds, docker
<1>2. RestartTyped'
  BY <1>1 DEF CrashInv, RestartTyped
<1>3. ASSUME NEW c \in Containers PROVE
        /\ (lastCount[c] \in Nat \cup {Unseen} /\ count[c] \in Nat /\ restarts[c] \in Nat)'
        /\ (restartLog[c] \in Seq(Nat))'
        /\ (Len(restartLog[c]) + NewRestarts(c) <= restarts[c])'
        /\ (flagged[c] => restarts[c] >= LoopRestarts /\ lastCount[c] # Unseen)'
        /\ (lastCount[c] = Unseen => restartLog[c] = <<>>)'
  <2>1. /\ lastCount[c] \in Nat \cup {Unseen} /\ count[c] \in Nat /\ restarts[c] \in Nat
        /\ restartLog[c] \in Seq(Nat)
        /\ Len(restartLog[c]) + NewRestarts(c) <= restarts[c]
        /\ flagged[c] => restarts[c] >= LoopRestarts /\ lastCount[c] # Unseen
        /\ lastCount[c] = Unseen => restartLog[c] = <<>>
    BY DEF CrashInv, RestartInv
  <2> DEFINE ts == restartLog[c]
             k  == Cardinality(Since(ts, KeepFor))
  <2>2. restartLog'[c] = SubSeq(ts, Len(ts) - k + 1, Len(ts))
    BY Zenon DEF SampleEnds, pruneRestartLog
  <2>3. k \in Nat /\ k <= Len(ts) /\ Len(ts) \in Nat /\ ts \in Seq(Nat)
    BY <2>1, SinceBound
  <2>4. NewRestarts(c)' = NewRestarts(c) /\ NewRestarts(c) \in Nat
    BY <1>1, RecordedLength DEF NewRestarts
  <2> HIDE DEF k, ts
  <2>5. /\ SubSeq(ts, Len(ts) - k + 1, Len(ts)) \in Seq(Nat)
        /\ Len(SubSeq(ts, Len(ts) - k + 1, Len(ts))) = k
    <3>1. Len(ts) - k + 1 \in 1 .. Len(ts) + 1 /\ Len(ts) \in Len(ts) - k .. Len(ts)
      BY <2>3
    <3>2. \A i \in Len(ts) - k + 1 .. Len(ts) : ts[i] \in Nat
      BY <2>3, <3>1
    <3> QED
      BY <2>3, <3>1, <3>2
  <2>6. Len(restartLog'[c]) = k /\ restartLog'[c] \in Seq(Nat)
    BY <2>2, <2>5
  <2>7. lastCount[c] = Unseen => restartLog'[c] = <<>>
    <3> SUFFICES ASSUME lastCount[c] = Unseen PROVE restartLog'[c] = <<>>
      OBVIOUS
    <3>1. Len(ts) = 0
      BY <2>1 DEF ts
    <3>2. k = 0
      BY <2>3, <3>1
    <3> QED
      BY <2>6, <3>2
  <2>8. k + NewRestarts(c) <= restarts[c]
    <3>1. Len(ts) + NewRestarts(c) <= restarts[c]
      BY <2>1 DEF ts
    <3> QED
      BY <3>1, <2>1, <2>3, <2>4
  <2> QED
    BY <1>1, <2>1, <2>4, <2>6, <2>7, <2>8
<1> QED
  BY <1>2, <1>3 DEF CrashInv, RestartInv

\* What Docker does to the counts.
LEMMA DockerKeepsCrash ==
  ASSUME CrashInv, NEW d \in Containers, Restarts(d) \/ StopsOrStarts(d)
  PROVE  CrashInv'
<1>1. UNCHANGED <<now, lastCount, restartLog, flagged>>
  BY DEF Restarts, StopsOrStarts, collector
<1>2. RestartTyped'
  BY <1>1 DEF CrashInv, RestartTyped, Restarts, StopsOrStarts
<1>3. ASSUME NEW c \in Containers PROVE
        /\ (lastCount[c] \in Nat \cup {Unseen} /\ count[c] \in Nat /\ restarts[c] \in Nat)'
        /\ (Len(restartLog[c]) + NewRestarts(c) <= restarts[c])'
        /\ (flagged[c] => restarts[c] >= LoopRestarts /\ lastCount[c] # Unseen)'
  <2>1. /\ lastCount[c] \in Nat \cup {Unseen} /\ count[c] \in Nat /\ restarts[c] \in Nat
        /\ Len(restartLog[c]) \in Nat /\ Len(restartLog[c]) + NewRestarts(c) <= restarts[c]
        /\ flagged[c] => restarts[c] >= LoopRestarts /\ lastCount[c] # Unseen
        /\ lastCount[c] = Unseen => Len(restartLog[c]) = 0
    BY DEF CrashInv, RestartInv
  <2>2. \/ count'[c] = count[c] /\ restarts'[c] = restarts[c]
        \/ count'[c] = 0 /\ restarts'[c] = restarts[c]
        \/ lastCount[c] = Unseen /\ count'[c] = count[c] + 1 /\ restarts'[c] = 0
        \/ lastCount[c] # Unseen /\ count'[c] = count[c] + 1 /\ restarts'[c] = restarts[c] + 1
    BY DEF CrashInv, RestartTyped, Restarts, StopsOrStarts
  <2>3. /\ NewRestarts(c) = IF lastCount[c] # Unseen /\ count[c] > lastCount[c] THEN count[c] - lastCount[c] ELSE 0
        /\ NewRestarts(c)' = IF lastCount[c] # Unseen /\ count'[c] > lastCount[c] THEN count'[c] - lastCount[c] ELSE 0
    BY <1>1 DEF NewRestarts
  <2>4. count'[c] \in Nat /\ restarts'[c] \in Nat
    BY <2>1, <2>2
  <2>5. restarts'[c] < restarts[c] => lastCount[c] = Unseen
    BY <2>1, <2>2
  <2>6. Len(restartLog[c]) + NewRestarts(c)' <= restarts'[c]
    <3>1. CASE lastCount[c] = Unseen
      BY <3>1, <2>1, <2>2, <2>3, <2>4
    <3>2. CASE lastCount[c] # Unseen
      <4>1. lastCount[c] \in Nat
        BY <3>2, <2>1
      <4> DEFINE L == Len(restartLog[c])
      <4>2. L \in Nat
        BY <2>1
      <4> HIDE DEF L
      <4>3. L + (IF count[c] > lastCount[c] THEN count[c] - lastCount[c] ELSE 0) <= restarts[c]
        BY <3>2, <2>1, <2>3 DEF L
      <4>4. L + (IF count'[c] > lastCount[c] THEN count'[c] - lastCount[c] ELSE 0) <= restarts'[c]
        BY <3>2, <4>1, <4>2, <4>3, <2>1, <2>2, SMTT(30)
      <4> QED
        BY <3>2, <2>3, <4>4 DEF L
    <3> QED
      BY <3>1, <3>2
  <2>7. flagged[c] => restarts'[c] >= LoopRestarts /\ lastCount[c] # Unseen
    BY <2>1, <2>4, <2>5, CountAssumption
  <2> QED
    BY <1>1, <2>1, <2>4, <2>6, <2>7
<1>4. \A c \in Containers : (restartLog[c] \in Seq(Nat))' /\ (lastCount[c] = Unseen => restartLog[c] = <<>>)'
  BY <1>1 DEF CrashInv, RestartInv
<1> QED
  BY <1>2, <1>3, <1>4 DEF CrashInv, RestartInv

\* Crash loops do not depend on the steps of the log streams.
LEMMA CrashFrame ==
  ASSUME CrashInv, UNCHANGED <<count, restarts, lastCount, restartLog, flagged>>, now' \in Nat
  PROVE  CrashInv'
<1>1. \A c \in Containers : NewRestarts(c)' = NewRestarts(c)
  BY DEF NewRestarts
<1> QED
  BY <1>1 DEF CrashInv, RestartTyped, RestartInv

\* The counts of the restarts are kept by every step of the agent, of Docker and of
\* the clock.
LEMMA CrashInductive ==
  /\ Init => CrashInv
  /\ CrashInv /\ [Next]_vars => CrashInv'
<1>1. ASSUME Init PROVE CrashInv
  <2>1. RestartTyped
    BY <1>1 DEF Init, RestartTyped
  <2>2. ASSUME NEW c \in Containers PROVE
          /\ lastCount[c] = Unseen /\ count[c] = LoopRestarts /\ restarts[c] = 0
          /\ restartLog[c] = <<>> /\ ~flagged[c]
    BY <1>1 DEF Init
  <2>3. ASSUME NEW c \in Containers PROVE
          restartLog[c] \in Seq(Nat) /\ Len(restartLog[c]) = 0 /\ NewRestarts(c) = 0
    <3>1. <<>> \in Seq(Nat) /\ Len(<<>>) = 0
      OBVIOUS
    <3> QED
      BY <2>2, <3>1, Zenon DEF NewRestarts
  <2>4. RestartInv
    <3>1. ASSUME NEW c \in Containers PROVE
            /\ lastCount[c] \in Nat \cup {Unseen} /\ count[c] \in Nat /\ restarts[c] \in Nat
            /\ Len(restartLog[c]) + NewRestarts(c) <= restarts[c]
      <4>1. lastCount[c] = Unseen /\ count[c] = LoopRestarts /\ restarts[c] = 0
        BY <2>2
      <4>2. Len(restartLog[c]) = 0 /\ NewRestarts(c) = 0
        BY <2>3
      <4>3. Len(restartLog[c]) + NewRestarts(c) <= restarts[c]
        BY <4>1, <4>2
      <4> QED
        BY <4>1, <4>3, CountAssumption
    <3> QED
      BY <3>1, <2>2, <2>3 DEF RestartInv
  <2> QED
    BY <2>1, <2>4 DEF CrashInv
<1>2. ASSUME CrashInv, [Next]_vars PROVE CrashInv'
  <2>0. now \in Nat
    BY <1>2 DEF CrashInv, RestartTyped
  <2>1. CASE BuildSnapshots
    BY <1>2, <2>1, BuildKeepsCrash
  <2>2. CASE SampleEnds
    BY <1>2, <2>2, PruneKeepsCrash
  <2>3. CASE \E c \in Containers : Restarts(c) \/ StopsOrStarts(c)
    BY <1>2, <2>3, DockerKeepsCrash
  <2>4. CASE Start \/ Stop \/ Stopped \/ CollectorWakes \/ ListContainers
    <3>1. UNCHANGED <<count, restarts, lastCount, restartLog, flagged, now>>
      BY <2>4 DEF Start, Stop, Stopped, CollectorWakes, ListContainers, collector, docker
    <3> QED
      BY <1>2, <2>0, <3>1, CrashFrame
  <2>5. CASE ShipperStep
    <3>1. UNCHANGED <<count, restarts, lastCount, restartLog, flagged, now>>
      BY <2>5 DEF ShipperStep, stopAll, Flush, Ship, collector, docker
    <3> QED
      BY <1>2, <2>0, <3>1, CrashFrame
  <2>6. CASE \E n \in DOMAIN st : TailStep(n)
    <3>1. UNCHANGED <<count, restarts, lastCount, restartLog, flagged, now>>
      BY <2>6, Zenon DEF TailStep, Inspect, OpenLogs, Consume, ConsumeEnds, FromNow, Tail0, collector, docker
    <3> QED
      BY <1>2, <2>0, <3>1, CrashFrame
  <2>7. CASE \E c \in Containers : Logs(c) \/ \E off \in BOOLEAN : SetDisabled(c, off)
    <3>1. UNCHANGED <<count, restarts, lastCount, restartLog, flagged, now>>
      BY <2>7 DEF Logs, SetDisabled, collector
    <3> QED
      BY <1>2, <2>0, <3>1, CrashFrame
  <2>8. CASE Tick
    <3>1. UNCHANGED <<count, restarts, lastCount, restartLog, flagged>> /\ now' \in Nat
      BY <2>0, <2>8 DEF Tick, collector, docker
    <3> QED
      BY <1>2, <3>1, CrashFrame
  <2>9. CASE UNCHANGED vars
    <3>1. UNCHANGED <<count, restarts, lastCount, restartLog, flagged, now>>
      BY <2>9 DEF vars, collector, docker
    <3> QED
      BY <1>2, <2>0, <3>1, CrashFrame
  <2> QED
    BY <1>2, <2>1, <2>2, <2>3, <2>4, <2>5, <2>6, <2>7, <2>8, <2>9 DEF Next, CollectorStep
<1> QED
  BY <1>1, <1>2

\* CrashedLoop is set only for a container that restarted LoopRestarts times while
\* the collector knew it, whatever restart counts Docker reports, however samples,
\* failed inspects, stops and prunes interleave (recordRestarts, pruneRestartLog).
THEOREM CrashLoopsAreReal == Spec => []CrashLoopIsReal
<1>1. CrashInv => CrashLoopIsReal
  BY DEF CrashInv, RestartInv, CrashLoopIsReal
<1> QED
  BY <1>1, CrashInductive, PTL DEF Spec

-----------------------------------------------------------------------------
(* The log streams.                                                        *)

\* flush takes the buffers under the lock, each in the order its tail filled it.
LEMMA FlushKeepsLines ==
  ASSUME LinesInv, Flush
  PROVE  LinesInv'
<1>1. UNCHANGED <<st, streams, disabled, logged, sent, running, listed, now>>
  BY DEF Flush, logStreams, docker, collector
<1>2. Typed /\ ClockInv /\ MapInv /\ LineInv /\ OrderInv /\ SentInv
  BY DEF LinesInv
<1>3. batch' \in Seq(Range(streams) \ {0})
  BY <1>2, OrderView DEF Flush
<1>4. ASSUME NEW m \in Range(batch') PROVE m \in Range(streams) \ {0}
  BY <1>3 DEF Range
<1>5. ASSUME NEW m \in Range(streams) \ {0}
      PROVE  m \in DOMAIN st /\ streams[st[m].c] = m
  <2>1. PICK c \in Containers : streams[c] = m
    BY <1>2 DEF Range, Typed
  <2> QED
    BY <1>2, <2>1 DEF MapInv
<1>6. Range(streams)' = Range(streams)
  BY <1>1 DEF Range
<1>7. Live' = Range(streams) \ {0} /\ Live' \subseteq Live
  BY <1>4, <1>6 DEF Live, Range
<1>8. batch' \in Seq(Nat)
  <2>1. DOMAIN st \subseteq Nat
    BY <1>2 DEF Typed
  <2>2. Range(streams) \ {0} \subseteq Nat
    BY <1>5, <2>1
  <2>3. \A S, T : S \subseteq T => Seq(S) \subseteq Seq(T)
    OBVIOUS
  <2> QED
    BY <1>3, <2>2, <2>3
<1>9. Range(st)' = Range(st)
  BY <1>1 DEF Range
<1>10. Typed'
  BY <1>1, <1>2, <1>8, <1>9 DEF Typed
<1>11. \A n : Lines(n)' = Lines(n) /\ (InOrder(n)' <=> InOrder(n))
  BY <1>1 DEF Lines, Held, ToCome, Ahead, Active, InOrder
<1>12. ClockInv' /\ MapInv' /\ LineInv' /\ OrderInv'
  <2>1. ClockInv' /\ MapInv'
    BY <1>1, <1>2 DEF ClockInv, MapInv
  <2> QED
    BY <1>1, <1>2, <1>11, <2>1 DEF LineInv, OrderInv, Follows
<1>13. SentInv'
  <2>1. \A n \in Live' : \A t \in Lines(n)' : sent[st[n].c] <= t
    BY <1>2, <1>7, <1>11 DEF SentInv
  <2>2. Range(batch') \subseteq DOMAIN st
    BY <1>4, <1>5
  <2>3. ASSUME NEW m \in Range(batch'), NEW n \in Live', st[m].c = st[n].c PROVE m <= n
    <3>1. m = n /\ m \in DOMAIN st
      BY <1>4, <1>5, <1>7, <2>3
    <3> QED
      BY <1>2, <3>1 DEF Typed
  <2>4. Range(batch)' = Range(batch')
    BY DEF Range
  <2> QED
    BY <1>1, <2>1, <2>2, <2>3, <2>4 DEF SentInv
<1> QED
  BY <1>10, <1>12, <1>13 DEF LinesInv

\* The invariant depends on the streams, the lines and what is shipped alone, and
\* the clock may move on.
LEMMA LinesFrame ==
  ASSUME LinesInv, UNCHANGED <<st, streams, disabled, logged, sent, batch>>,
         running' \subseteq Containers, listed' \subseteq Containers,
         now' \in {now, now + 1}
  PROVE  LinesInv'
<1>1. Typed /\ ClockInv /\ MapInv /\ LineInv /\ OrderInv /\ SentInv
  BY DEF LinesInv
<1>2. Range(st)' = Range(st) /\ Range(batch)' = Range(batch) /\ Live' = Live
  BY DEF Range, Live
<1>3. now \in Nat /\ now' \in Nat /\ \A x \in Nat : x <= now => x <= now'
  BY <1>1 DEF Typed
<1>4. Typed'
  BY <1>1, <1>2, <1>3 DEF Typed
<1>5. \A n : Held(n)' = Held(n) /\ ToCome(n)' = ToCome(n) /\ Lines(n)' = Lines(n)
  BY DEF Lines, Held, ToCome, Ahead, Active
<1>6. ClockInv'
  <2> SUFFICES ASSUME NEW c \in Containers
               PROVE  /\ \A i, j \in DOMAIN logged[c] : i <= j => logged[c][i] <= logged[c][j]
                      /\ \A i \in DOMAIN logged[c] : logged[c][i] <= now'
                      /\ sent[c] <= now'
    BY DEF ClockInv
  <2>1. sent[c] \in Nat /\ \A i \in DOMAIN logged[c] : logged[c][i] \in Nat
    BY <1>1 DEF Typed
  <2>2. /\ \A i, j \in DOMAIN logged[c] : i <= j => logged[c][i] <= logged[c][j]
        /\ \A i \in DOMAIN logged[c] : logged[c][i] <= now
        /\ sent[c] <= now
    BY <1>1 DEF ClockInv
  <2> QED
    BY <1>3, <2>1, <2>2, Zenon
<1>7. LineInv'
  <2> SUFFICES ASSUME NEW n \in DOMAIN st PROVE InOrder(n)'
    BY DEF LineInv
  <2>1. InOrder(n)
    BY <1>1 DEF LineInv
  <2>2. \A a \in Held(n) : a \in Nat
    BY <1>1 DEF Typed, Held
  <2>3. \A a \in Held(n) : a <= now' /\ \A b \in ToCome(n) : a <= b
    BY <1>3, <2>1, <2>2, Zenon DEF InOrder
  <2> QED
    BY <1>5, <2>1, <2>3 DEF InOrder
<1>8. MapInv' /\ OrderInv'
  BY <1>1, <1>5 DEF MapInv, OrderInv, Follows
<1>9. SentInv'
  BY <1>1, <1>2, <1>5 DEF SentInv
<1> QED
  BY <1>4, <1>6, <1>7, <1>8, <1>9 DEF LinesInv

\* A batch that is sent holds lines newer than those sent before it.
LEMMA ShipKeepsLines ==
  ASSUME LinesInv, Ship
  PROVE  LinesInv'
<1>0. /\ Typed /\ ClockInv /\ MapInv /\ LineInv /\ OrderInv /\ SentInv
      /\ running \subseteq Containers /\ listed \subseteq Containers
  BY DEF LinesInv, Typed
<1>1. UNCHANGED <<streams, disabled, logged, running, listed, now>>
  BY DEF Ship, docker, collector
<1>2. CASE batch = <<>>
  <2>1. UNCHANGED <<batch, sent, st>>
    BY <1>2 DEF Ship
  <2> QED
    BY <1>0, <1>1, <2>1, LinesFrame, Zenon
<1>3. CASE batch # <<>>
  <2> DEFINE h == Head(batch)
             s == st[h]
  <2>1. /\ batch' = Tail(batch) /\ st' = [st EXCEPT ![h] = [s EXCEPT !.buf = <<>>]]
        /\ \/ s.buf # <<>> /\ sent' = [sent EXCEPT ![s.c] = s.buf[Len(s.buf)]]
           \/ UNCHANGED sent
    BY <1>3 DEF Ship
  <2>2. batch \in Seq(Nat)
    BY <1>0 DEF Typed
  <2>3. h \in Range(batch) /\ batch' \in Seq(Nat) /\ Range(batch') \subseteq Range(batch)
    <3>1. /\ Len(batch) \in Nat /\ Len(batch) # 0
          /\ h = batch[1] /\ batch' \in Seq(Nat) /\ Len(batch') = Len(batch) - 1
          /\ \A i \in 1 .. Len(batch) - 1 : batch'[i] = batch[i + 1]
      BY <1>3, <2>1, <2>2
    <3>2. DOMAIN batch = 1 .. Len(batch) /\ DOMAIN batch' = 1 .. Len(batch) - 1
      BY <2>2, <3>1
    <3>3. 1 \in DOMAIN batch /\ \A i \in DOMAIN batch' : i + 1 \in DOMAIN batch
      BY <3>1, <3>2
    <3>4. h \in Range(batch)
      BY <3>1, <3>3 DEF Range
    <3>5. ASSUME NEW y \in Range(batch') PROVE y \in Range(batch)
      <4>1. PICK i \in DOMAIN batch' : y = batch'[i]
        BY <3>5, Zenon DEF Range
      <4>2. y = batch[i + 1] /\ i + 1 \in DOMAIN batch
        BY <3>1, <3>2, <3>3, <4>1
      <4> QED
        BY <4>2, Zenon DEF Range
    <3> QED
      BY <3>1, <3>4, <3>5, Zenon
  <2>4. h \in DOMAIN st /\ Range(batch) \subseteq DOMAIN st /\ Live \subseteq DOMAIN st
    BY <1>0, <2>3, LiveExists DEF SentInv
  <2> HIDE DEF h
  <2>5. /\ st' \in Seq(Range(st')) /\ DOMAIN st' = DOMAIN st /\ st'[h] = [s EXCEPT !.buf = <<>>]
        /\ \A k \in DOMAIN st \ {h} : st'[k] = st[k]
    BY <1>0, <2>1, <2>4, Replaced, Zenon
  <2>6. /\ Fields \subseteq DOMAIN s /\ s.c \in Containers /\ s.seen \in Nat /\ s.upTo \in Nat
        /\ s.buf \in Seq(Nat)
    BY <1>0, <2>4 DEF Typed
  <2>7. /\ Fields \subseteq DOMAIN st'[h] /\ st'[h].c = s.c /\ st'[h].cancelled = s.cancelled
        /\ st'[h].at = s.at /\ st'[h].seen = s.seen /\ st'[h].upTo = s.upTo /\ st'[h].buf = <<>>
    BY <2>5, <2>6 DEF Fields
  <2>8. \A k \in DOMAIN st :
          /\ Fields \subseteq DOMAIN st'[k]
          /\ st'[k].c = st[k].c /\ st'[k].cancelled = st[k].cancelled /\ st'[k].at = st[k].at
          /\ st'[k].seen = st[k].seen /\ st'[k].upTo = st[k].upTo
          /\ st'[k].buf = IF k = h THEN <<>> ELSE st[k].buf
    BY <1>0, <2>5, <2>7, Zenon DEF Typed
  <2>9. DOMAIN st' = DOMAIN st /\ \A k \in DOMAIN st : Active(k)' <=> Active(k)
    BY <2>5, <2>8 DEF Active
  <2>10. \A k \in DOMAIN st : st'[k].buf = st[k].buf \/ DOMAIN st'[k].buf = {}
    BY <2>8
  <2>11. \/ sent' = sent
         \/ \E i \in DOMAIN s.buf : sent' = [sent EXCEPT ![s.c] = s.buf[i]]
    <3>1. s.buf # <<>> => Len(s.buf) \in DOMAIN s.buf
      BY <2>6
    <3> QED
      BY <2>1, <3>1
  <2> HIDE DEF s
  <2>12. DOMAIN sent = Containers /\ DOMAIN sent' = Containers
    BY <1>0, <2>11 DEF Typed
  <2>13. ASSUME NEW c \in Containers PROVE
           \/ sent'[c] = sent[c]
           \/ c = s.c /\ \E i \in DOMAIN s.buf : sent'[c] = s.buf[i]
    BY <2>11, <2>12
  <2>14. Typed'
    <3>1. ASSUME NEW k \in DOMAIN st' PROVE
            /\ Fields \subseteq DOMAIN st'[k] /\ st'[k].c \in Containers
            /\ st'[k].seen \in Nat /\ st'[k].upTo \in Nat /\ st'[k].buf \in Seq(Nat)
      <4>1. /\ st[k].c \in Containers /\ st[k].seen \in Nat /\ st[k].upTo \in Nat
            /\ st[k].buf \in Seq(Nat) /\ <<>> \in Seq(Nat)
        BY <1>0, <2>9 DEF Typed
      <4> QED
        BY <2>8, <2>9, <4>1, ZenonT(30)
    <3>2. ASSUME NEW c \in Containers PROVE sent'[c] \in Nat
      <4>0. s.buf \in Seq(Nat)
        BY <1>0, <2>6 DEF Typed
      <4>1. sent[c] \in Nat /\ \A i \in DOMAIN s.buf : s.buf[i] \in Nat
        BY <1>0, <4>0 DEF Typed
      <4> QED
        BY <2>13, <4>1
    <3> QED
      BY <1>0, <1>1, <2>3, <2>5, <2>12, <3>1, <3>2 DEF Typed
  <2>15. MapInv'
    BY <1>0, <1>1, <2>8, <2>9 DEF MapInv
  <2>16. \A i \in DOMAIN s.buf : s.buf[i] \in Held(h)
    BY DEF Held, s
  <2>17. ClockInv'
    <3>1. \A a \in Held(h) : a <= now
      BY <1>0, <2>4 DEF LineInv, InOrder
    <3>2. \A c \in Containers : sent[c] <= now
      BY <1>0 DEF ClockInv
    <3>3. \A c \in Containers : sent'[c] <= now
      BY <2>13, <2>16, <3>1, <3>2
    <3> QED
      BY <1>0, <1>1, <3>3 DEF ClockInv
  <2>18. ASSUME NEW n \in DOMAIN st
         PROVE  Held(n)' = (IF n = h THEN {} ELSE Held(n)) /\ ToCome(n)' = ToCome(n)
    <3>1. Held(n)' = (IF n = h THEN {} ELSE Held(n))
      BY <2>8 DEF Held
    <3>2. Ahead(n)' = Ahead(n)
      BY <1>1, <2>8, <2>9 DEF Ahead
    <3> QED
      BY <1>1, <2>8, <3>1, <3>2 DEF ToCome
  <2>19. LineInv'
    <3> SUFFICES ASSUME NEW n \in DOMAIN st PROVE InOrder(n)'
      BY <2>9 DEF LineInv
    <3>1. InOrder(n)
      BY <1>0 DEF LineInv
    <3>2. \A i, j \in DOMAIN st'[n].buf : i < j => st'[n].buf[i] <= st'[n].buf[j]
      BY <2>10, <3>1, Zenon DEF InOrder
    <3>3. \A a \in Held(n)' : a <= now /\ \A b \in ToCome(n)' : a <= b
      BY <2>18, <3>1 DEF InOrder
    <3> QED
      BY <1>1, <2>8, <3>1, <3>2, <3>3 DEF InOrder
  <2>20. \A n \in DOMAIN st : Lines(n)' \subseteq Lines(n)
    BY <2>18 DEF Lines
  <2>21. OrderInv'
    <3>1. Steady
      BY <2>8, <2>9, <2>20, Zenon DEF Steady
    <3> QED
      BY <1>0, <2>14, <3>1, SteadyOrder
  <2>22. SentInv'
    <3>1. Range(streams)' = Range(streams) /\ Range(batch)' \subseteq Range(batch)
      BY <1>1, <2>3, Zenon DEF Range
    <3>2. Live' \subseteq Live
      BY <3>1 DEF Live
    <3>3. ASSUME NEW n \in Live', NEW t \in Lines(n)' PROVE sent'[st'[n].c] <= t
      <4>1. n \in Live /\ n \in DOMAIN st /\ st[n].c \in Containers /\ st'[n].c = st[n].c
        BY <1>0, <2>4, <2>8, <3>2 DEF Typed
      <4>2. t \in Lines(n) /\ sent[st[n].c] <= t
        BY <1>0, <2>20, <3>3, <4>1 DEF SentInv
      <4>3. CASE sent'[st[n].c] = sent[st[n].c]
        BY <4>1, <4>2, <4>3
      <4>4. CASE st[n].c = s.c /\ \E i \in DOMAIN s.buf : sent'[st[n].c] = s.buf[i]
        <5>1. sent'[st[n].c] \in Held(h)
          BY <2>16, <4>4
        <5>2. h <= n /\ st[h].c = st[n].c
          BY <1>0, <2>3, <4>1, <4>4 DEF SentInv, s
        <5>3. CASE n = h
          <6>1. t \in ToCome(h)
            BY <2>18, <3>3, <4>1, <5>3 DEF Lines
          <6> QED
            BY <1>0, <2>4, <4>1, <5>1, <6>1 DEF LineInv, InOrder
        <5>4. CASE n # h
          <6>1. h < n
            <7>1. h \in Nat /\ n \in Nat
              BY <1>0, <2>4, <4>1 DEF Typed
            <7> QED
              BY <5>2, <5>4, <7>1
          <6>2. Follows(h, n) /\ sent'[st[n].c] \in Lines(h)
            BY <1>0, <2>4, <4>1, <5>1, <5>2, <6>1 DEF OrderInv, Lines
          <6> QED
            BY <4>1, <4>2, <6>2 DEF Follows
        <5> QED
          BY <5>3, <5>4
      <4> QED
        BY <2>13, <4>1, <4>3, <4>4
    <3>4. Range(batch)' \subseteq DOMAIN st'
      BY <2>4, <2>9, <3>1
    <3>5. ASSUME NEW m \in Range(batch)', NEW n \in Live', st'[m].c = st'[n].c PROVE m <= n
      <4>1. m \in Range(batch) /\ n \in Live /\ st[m].c = st[n].c
        BY <2>4, <2>8, <3>1, <3>2, <3>5
      <4> QED
        BY <1>0, <4>1 DEF SentInv
    <3> QED
      BY <3>3, <3>4, <3>5 DEF SentInv
  <2> QED
    BY <2>14, <2>15, <2>17, <2>19, <2>21, <2>22 DEF LinesInv
<1> QED
  BY <1>2, <1>3

\* A container logs a line, of the present second.
LEMMA LogsKeepsLines ==
  ASSUME LinesInv, NEW d \in Containers, Logs(d)
  PROVE  LinesInv'
<1>0. Typed /\ ClockInv /\ MapInv /\ LineInv /\ OrderInv /\ SentInv
  BY DEF LinesInv
<1>1. /\ UNCHANGED <<st, streams, disabled, sent, batch, running, listed, now>>
      /\ logged' = [logged EXCEPT ![d] = Append(@, now)]
  BY DEF Logs, logStreams, shipping, collector
<1>2. /\ DOMAIN logged' = Containers /\ now \in Nat
      /\ \A c \in Containers : logged'[c] = IF c = d THEN Append(logged[c], now) ELSE logged[c]
  BY <1>0, <1>1 DEF Typed
<1>3. ASSUME NEW c \in Containers
      PROVE  /\ logged[c] \in Seq(Nat) /\ logged'[c] \in Seq(Nat)
             /\ Len(logged[c]) \in Nat /\ Len(logged[c]) <= Len(logged'[c])
             /\ DOMAIN logged[c] = 1 .. Len(logged[c])
             /\ \A i \in DOMAIN logged'[c] :
                  \/ i \in DOMAIN logged[c] /\ logged'[c][i] = logged[c][i]
                  \/ i = Len(logged[c]) + 1 /\ logged'[c][i] = now
  <2>1. logged[c] \in Seq(Nat)
    BY <1>0 DEF Typed
  <2>2. CASE c = d
    <3>1. logged'[c] = Append(logged[c], now) /\ now \in Nat
      BY <1>2, <2>2
    <3> QED
      BY <2>1, <3>1, AppendView
  <2>3. CASE c # d
    BY <1>2, <2>1, <2>3
  <2> QED
    BY <2>2, <2>3
<1>4. Range(st)' = Range(st) /\ Range(batch)' = Range(batch) /\ Live' = Live
  BY <1>1 DEF Range, Live
<1>5. Typed'
  BY <1>0, <1>1, <1>2, <1>3, <1>4 DEF Typed
<1>6. ClockInv'
  <2> SUFFICES ASSUME NEW c \in Containers
               PROVE  /\ \A i, j \in DOMAIN logged'[c] : i <= j => logged'[c][i] <= logged'[c][j]
                      /\ \A i \in DOMAIN logged'[c] : logged'[c][i] <= now
                      /\ sent[c] <= now
    BY <1>1 DEF ClockInv
  <2>1. /\ \A i, j \in DOMAIN logged[c] : i <= j => logged[c][i] <= logged[c][j]
        /\ \A i \in DOMAIN logged[c] : logged[c][i] <= now
        /\ sent[c] <= now
    BY <1>0 DEF ClockInv
  <2>2. \A i \in DOMAIN logged'[c] : logged'[c][i] <= now
    BY <1>2, <1>3, <2>1
  <2>3. ASSUME NEW i \in DOMAIN logged'[c], NEW j \in DOMAIN logged'[c], i <= j
        PROVE  logged'[c][i] <= logged'[c][j]
    <3>1. CASE j \in DOMAIN logged[c]
      <4>1. Len(logged[c]) \in Nat /\ j \in 1 .. Len(logged[c])
        BY <1>3, <3>1, Zenon
      <4>2. i # Len(logged[c]) + 1 /\ j # Len(logged[c]) + 1
        BY <2>3, <4>1
      <4> QED
        BY <1>3, <2>1, <2>3, <3>1, <4>2, Zenon
    <3>2. CASE j \notin DOMAIN logged[c]
      BY <1>3, <2>2, <3>2
    <3> QED
      BY <3>1, <3>2
  <2> QED
    BY <2>1, <2>2, <2>3
<1>7. ASSUME NEW n \in DOMAIN st
      PROVE  /\ Held(n)' = Held(n)
             /\ \A t \in ToCome(n)' : t \in ToCome(n) \/ (~st[n].cancelled /\ t = now)
  <2>1. Held(n)' = Held(n)
    BY <1>1 DEF Held
  <2> SUFFICES ASSUME NEW t \in ToCome(n)'
               PROVE  t \in ToCome(n) \/ (~st[n].cancelled /\ t = now)
    BY <2>1
  <2> DEFINE c == st[n].c
  <2>2. c \in Containers /\ st[n].upTo \in Nat /\ st[n].upTo <= Len(logged[c])
    BY <1>0 DEF Typed, LineInv, InOrder
  <2>3. PICK i \in Ahead(n)' : t = logged'[c][i]
    BY <1>1, Zenon DEF ToCome
  <2>4. /\ i \in DOMAIN logged'[c] /\ Active(n) /\ i > st[n].seen
        /\ st[n].cancelled => i <= st[n].upTo
    BY <1>1, <2>3 DEF Ahead, Active
  <2>5. CASE i \in DOMAIN logged[c] /\ logged'[c][i] = logged[c][i]
    <3>1. i \in Ahead(n)
      BY <2>4, <2>5 DEF Ahead
    <3> QED
      BY <2>3, <2>5, <3>1 DEF ToCome
  <2>6. CASE i = Len(logged[c]) + 1 /\ logged'[c][i] = now
    <3> HIDE DEF c
    <3>1. ~(i <= st[n].upTo)
      BY <1>3, <2>2, <2>6
    <3> QED
      BY <2>3, <2>4, <2>6, <3>1
  <2> QED
    BY <1>3, <2>2, <2>4, <2>5, <2>6
<1>8. LineInv'
  <2> SUFFICES ASSUME NEW n \in DOMAIN st PROVE InOrder(n)'
    BY <1>1 DEF LineInv
  <2>1. InOrder(n) /\ st[n].c \in Containers /\ st[n].upTo \in Nat
    BY <1>0 DEF LineInv, Typed
  <2>2. \A a \in Held(n)' : a <= now /\ \A b \in ToCome(n)' : a <= b
    BY <1>7, <2>1, Zenon DEF InOrder
  <2>3. st[n].upTo <= Len(logged'[st[n].c])
    <3>1. st[n].upTo <= Len(logged[st[n].c])
      BY <2>1 DEF InOrder
    <3>2. Len(logged[st[n].c]) \in Nat /\ Len(logged'[st[n].c]) \in Nat
          /\ Len(logged[st[n].c]) <= Len(logged'[st[n].c])
      BY <1>3, <2>1
    <3> QED
      BY <2>1, <3>1, <3>2
  <2> QED
    BY <1>1, <2>1, <2>2, <2>3 DEF InOrder
<1>9. Steady
  <2>1. \A n \in DOMAIN st : \A t \in Lines(n)' : t \in Lines(n) \/ (~st[n].cancelled /\ t = now)
    BY <1>7 DEF Lines
  <2> QED
    BY <1>1, <2>1 DEF Steady
<1>10. OrderInv'
  BY <1>0, <1>5, <1>9, SteadyOrder
<1>11. SentInv'
  BY <1>0, <1>1, <1>4, <1>5, <1>9, SteadySent
<1>12. MapInv'
  BY <1>0, <1>1 DEF MapInv
<1> QED
  BY <1>5, <1>6, <1>8, <1>10, <1>11, <1>12 DEF LinesInv

\* At the start there are no streams and nothing was sent.
LEMMA LinesInit ==
  ASSUME Init
  PROVE  LinesInv
<1>1. /\ st = <<>> /\ batch = <<>> /\ listed = {} /\ running = Containers
      /\ streams = [c \in Containers |-> 0] /\ logged = [c \in Containers |-> <<>>]
      /\ sent = [c \in Containers |-> 0] /\ now = 0
  BY DEF Init
<1>2. st \in Seq(Range(st)) /\ DOMAIN st = {} /\ batch \in Seq(Nat) /\ DOMAIN batch = {}
  BY <1>1
<1>3. Range(batch) = {} /\ Range(streams) \subseteq {0}
  BY <1>1, <1>2 DEF Range
<1>4. Live = {}
  BY <1>3 DEF Live
<1>5. Typed
  BY <1>1, <1>2 DEF Typed
<1>6. ClockInv
  <2>1. \A c \in Containers : DOMAIN logged[c] = {} /\ sent[c] <= now
    BY <1>1
  <2> QED
    BY <2>1 DEF ClockInv
<1>7. MapInv /\ LineInv /\ OrderInv
  BY <1>1, <1>2 DEF MapInv, LineInv, OrderInv
<1>8. SentInv
  BY <1>1, <1>3, <1>4 DEF SentInv
<1> QED
  BY <1>5, <1>6, <1>7, <1>8 DEF LinesInv

\* The invariant of the streams is kept by every step of the monitor, the tails,
\* flush, Docker and the clock.
LEMMA LinesInductive ==
  /\ Init => LinesInv
  /\ LinesInv /\ [Next]_vars => LinesInv'
<1>1. Init => LinesInv
  BY LinesInit
<1>2. ASSUME LinesInv, [Next]_vars PROVE LinesInv'
  <2>0. running \subseteq Containers /\ listed \subseteq Containers
    BY <1>2 DEF LinesInv, Typed
  <2>1. CASE stopAll
    BY <1>2, <2>1, stopAllGrows, GrownLines DEF LinesInv
  <2>2. CASE \E c \in Containers : \E off \in BOOLEAN : SetDisabled(c, off)
    BY <1>2, <2>2, SetDisabledGrows, GrownLines DEF LinesInv
  <2>3. CASE SampleEnds
    BY <1>2, <2>3, SyncGrows, GrownLines DEF LinesInv
  <2>4. CASE \E n \in DOMAIN st : TailStep(n)
    <3>1. PICK n \in DOMAIN st : TailStep(n)
      BY <2>4
    <3>2. Moved(n)
      BY <1>2, <3>1, TailMoves
    <3> QED
      BY <1>2, <3>2, MovedLines DEF LinesInv
  <2>5. CASE Flush
    BY <1>2, <2>5, FlushKeepsLines
  <2>6. CASE Ship
    BY <1>2, <2>6, ShipKeepsLines
  <2>7. CASE \E c \in Containers : Logs(c)
    BY <1>2, <2>7, LogsKeepsLines
  <2>8. CASE Start \/ Stop \/ Stopped \/ CollectorWakes \/ BuildSnapshots \/ Tick
    <3>1. /\ UNCHANGED <<st, streams, disabled, logged, sent, batch, running, listed>>
          /\ now' = now \/ now' = now + 1
      BY <2>8 DEF Start, Stop, Stopped, CollectorWakes, BuildSnapshots, Tick,
                  collector, shipping, logStreams, docker
    <3> QED
      BY <1>2, <2>0, <3>1, LinesFrame
  <2>9. CASE ListContainers
    <3>1. UNCHANGED <<st, streams, disabled, logged, sent, batch, running, now>> /\ listed' \subseteq Containers
      BY <2>0, <2>9 DEF ListContainers, shipping, logStreams, docker
    <3> QED
      BY <1>2, <2>0, <3>1, LinesFrame
  <2>10. CASE \E c \in Containers : Restarts(c) \/ StopsOrStarts(c)
    <3>1. UNCHANGED <<st, streams, disabled, logged, sent, batch, listed, now>> /\ running' \subseteq Containers
      BY <2>0, <2>10, ZenonT(30) DEF Restarts, StopsOrStarts, collector, shipping, logStreams
    <3> QED
      BY <1>2, <2>0, <3>1, LinesFrame
  <2>11. CASE UNCHANGED vars
    <3>1. UNCHANGED <<st, streams, disabled, logged, sent, batch, running, listed, now>>
      BY <2>11 DEF vars, collector, shipping, logStreams, docker
    <3> QED
      BY <1>2, <2>0, <3>1, LinesFrame
  <2> QED
    BY <1>2, <2>1, <2>2, <2>3, <2>4, <2>5, <2>6, <2>7, <2>8, <2>9, <2>10, <2>11, Zenon
    DEF Next, CollectorStep, ShipperStep
<1> QED
  BY <1>1, <1>2

\* A tail whose context is live is the one its container has in the map, and its
\* container is not disabled: Sync, SetDisabled and stopAll can always end it,
\* however samples, DisableLogs commands and sessions interleave.
THEOREM LiveTailListed == Spec => []LiveTailIsListed
<1>1. ASSUME LinesInv PROVE LiveTailIsListed
  <2> SUFFICES ASSUME NEW n \in DOMAIN st, ~Done(n)
               PROVE  streams[st[n].c] = n /\ st[n].c \notin disabled
    BY DEF LiveTailIsListed
  <2>1. Typed /\ MapInv
    BY <1>1 DEF LinesInv
  <2>2. ~st[n].cancelled
    BY Zenon DEF Done
  <2>3. streams[st[n].c] = n
    BY <2>1, <2>2, Zenon DEF MapInv
  <2>4. st \in Seq(Range(st)) /\ st[n].c \in Containers
    BY <2>1, Zenon DEF Typed
  <2>5. n # 0
    BY <2>4
  <2> QED
    BY <2>1, <2>3, <2>4, <2>5, Zenon DEF MapInv
<1>2. LinesInv => LiveTailIsListed
  BY <1>1
<1> QED
  BY <1>2, LinesInductive, PTL DEF Spec

\* The lines flush may still ship are of no earlier second than the last one shipped
\* for their container, and in the order of their seconds: across restarts of the
\* container and of the tail, new sessions, streams that were replaced and a flush
\* that copied the old one.
THEOREM LinesInOrder == Spec => []ShippedInOrder
<1>1. ASSUME LinesInv PROVE ShippedInOrder
  <2>0. Typed /\ MapInv /\ LineInv /\ SentInv
    BY <1>1 DEF LinesInv
  <2> SUFFICES ASSUME NEW n \in Live,
                      NEW i \in 1 .. Len(<<sent[st[n].c]>> \o st[n].buf) - 1
               PROVE  (<<sent[st[n].c]>> \o st[n].buf)[i] <= (<<sent[st[n].c]>> \o st[n].buf)[i + 1]
    BY DEF ShippedInOrder, Live
  <2>1. n \in DOMAIN st
    BY <2>0, LiveExists DEF SentInv
  <2> DEFINE x == sent[st[n].c]
             b == st[n].buf
  <2>2. x \in Nat /\ b \in Seq(Nat) /\ Len(b) \in Nat /\ DOMAIN b = 1 .. Len(b)
    BY <2>0, <2>1 DEF Typed
  <2>3. /\ \A j \in DOMAIN b : x <= b[j]
        /\ \A j, k \in DOMAIN b : j < k => b[j] <= b[k]
    BY <2>0, <2>1 DEF SentInv, LineInv, InOrder, Lines, Held
  <2> HIDE DEF x, b
  <2>4. /\ Len(<<x>> \o b) = 1 + Len(b) /\ (<<x>> \o b)[1] = x
        /\ \A j \in 2 .. 1 + Len(b) : (<<x>> \o b)[j] = b[j - 1]
    <3>1. <<x>> \in Seq(Nat) /\ Len(<<x>>) = 1 /\ <<x>>[1] = x
      BY <2>2
    <3>2. /\ Len(<<x>> \o b) = Len(<<x>>) + Len(b)
          /\ \A j \in 1 .. Len(<<x>>) + Len(b) :
               (<<x>> \o b)[j] = IF j <= Len(<<x>>) THEN <<x>>[j] ELSE b[j - Len(<<x>>)]
      BY <2>2, <3>1
    <3> QED
      BY <2>2, <3>1, <3>2
  <2>5. i \in 1 .. Len(b)
    BY <2>2, <2>4 DEF x, b
  <2>6. (<<x>> \o b)[i + 1] = b[i]
    <3>1. i + 1 \in 2 .. 1 + Len(b) /\ (i + 1) - 1 = i
      BY <2>2, <2>5
    <3> QED
      BY <2>4, <3>1
  <2>7. CASE i = 1
    BY <2>2, <2>3, <2>4, <2>5, <2>6, <2>7 DEF x, b
  <2>8. CASE i # 1
    <3>1. i \in 2 .. 1 + Len(b) /\ i - 1 \in DOMAIN b /\ i \in DOMAIN b /\ i - 1 < i
      BY <2>2, <2>5, <2>8
    <3>2. (<<x>> \o b)[i] = b[i - 1] /\ b[i - 1] <= b[i]
      BY <2>3, <2>4, <3>1
    <3> QED
      BY <2>6, <3>2 DEF x, b
  <2> QED
    BY <2>7, <2>8
<1>2. LinesInv => ShippedInOrder
  BY <1>1
<1> QED
  BY <1>2, LinesInductive, PTL DEF Spec

=============================================================================
