------------------------- MODULE LeaderIngestProofs -------------------------
(***************************************************************************)
(* What the runs of LeaderIngest and PtyOutput check on three messages and *)
(* two viewers, for every set of containers and viewers and any number of  *)
(* messages.  The hub of the terminals and the three stores share the      *)
(* receive goroutine and nothing else: each has its own inductive          *)
(* invariant.                                                              *)
(***************************************************************************)
EXTENDS LeaderIngest, PtyOutput, TLAPS

-----------------------------------------------------------------------------
(* ptyHub: terminal output on its way to a browser (module PtyOutput), for *)
(* any length of output and any capacity of the buffer.                    *)

\* deliver is only about to send a chunk that exists.
HoldsChunk == holds => next <= Chunks

OutputInv == OutputTypeOK /\ HoldsChunk /\ GaplessUntilDead

\* Every step of the pump, of the subscriber and of the queue keeps the invariant of the
\* output.
LEMMA OutputInvariance ==
  OutputSpec => []OutputInv
<1>1. OutputInit => OutputInv
  <2> SUFFICES ASSUME OutputInit PROVE OutputInv
    OBVIOUS
  <2>1. OutputTypeOK /\ HoldsChunk
    <3>1. sub \in BOOLEAN /\ holds \in BOOLEAN /\ dead \in BOOLEAN /\ HoldsChunk
      BY Zenon DEF OutputInit, HoldsChunk
    <3>2. /\ next \in 1..(Chunks + 1)
          /\ out \in Seq(1..Chunks) /\ Len(out) <= Buffer
          /\ serving \in {"loop"} \cup Ends /\ got \in Seq(1..Chunks)
      BY ChunksAssumption, BufferAssumption DEF OutputInit
    <3>3. QED BY <3>1, <3>2 DEF OutputTypeOK
  <2>3. GaplessUntilDead BY DEF OutputInit, GaplessUntilDead
  <2>4. QED BY <2>1, <2>3 DEF OutputInv
<1>2. OutputInv /\ [OutputNext]_output => OutputInv'
  <2> SUFFICES ASSUME OutputInv, [OutputNext]_output PROVE OutputInv'
    OBVIOUS
  <2> USE ChunksAssumption, BufferAssumption DEF OutputInv, OutputTypeOK, HoldsChunk, Ends
  <2>1. CASE deliverLookup
    <3>1. CASE sub BY <2>1, <3>1 DEF deliverLookup, GaplessUntilDead
    <3>2. CASE ~sub BY <2>1, <3>2 DEF deliverLookup, GaplessUntilDead
    <3>3. QED BY <3>1, <3>2
  <2>2. CASE deliverSend
    <3>1. CASE Len(out) < Buffer
      <4>1. OutputTypeOK' /\ HoldsChunk'
        <5>1. /\ sub' \in BOOLEAN /\ holds' \in BOOLEAN /\ dead' \in BOOLEAN
              /\ HoldsChunk'
          BY <2>2, <3>1, Zenon DEF deliverSend
        <5>2. next \in 1..Chunks BY <2>2 DEF deliverSend
        <5>3. out' \in Seq(1..Chunks) /\ Len(out') = Len(out) + 1
          <6>1. out' = Append(out, next) BY <2>2, <3>1 DEF deliverSend
          <6>2. QED BY <5>2, <6>1
        <5>4. Len(out') <= Buffer
          <6>1. Len(out) \in Nat OBVIOUS
          <6>2. QED BY <3>1, <5>3, <6>1
        <5>5. QED BY <2>2, <5>1, <5>2, <5>3, <5>4 DEF deliverSend
      <4>2. /\ out' = Append(out, next) /\ next' = next + 1
            /\ UNCHANGED <<dead, sub, got>> /\ next \in Nat /\ Len(got) \in Nat
        BY <2>2, <3>1 DEF deliverSend
      <4>3. GaplessUntilDead'
        <5>1. /\ Len(out') = Len(out) + 1 /\ Len(out) \in Nat
              /\ \A i \in 1..Len(out) : out'[i] = out[i]
              /\ out'[Len(out) + 1] = next
          BY <4>2
        <5>2. SUFFICES ASSUME ~dead, sub
                       PROVE  /\ Len(got) + Len(out') = next
                              /\ \A i \in 1..Len(got) : got[i] = i
                              /\ \A i \in 1..Len(out') : out'[i] = Len(got) + i
          BY <4>2 DEF GaplessUntilDead
        <5>3. /\ Len(got) + Len(out) = next - 1
              /\ \A i \in 1..Len(got) : got[i] = i
              /\ \A i \in 1..Len(out) : out[i] = Len(got) + i
          BY <5>2 DEF GaplessUntilDead
        <5>4. Len(got) + Len(out') = next
          BY <4>2, <5>1, <5>3
        <5>5. ASSUME NEW i \in 1..Len(out') PROVE out'[i] = Len(got) + i
          <6>1. CASE i \in 1..Len(out) BY <5>1, <5>3, <6>1
          <6>2. CASE i = Len(out) + 1 BY <4>2, <5>1, <5>3, <6>2
          <6>3. i \in 1..Len(out) \/ i = Len(out) + 1 BY <5>1
          <6>4. QED BY <6>1, <6>2, <6>3
        <5>6. QED BY <5>3, <5>4, <5>5
      <4>4. QED BY <4>1, <4>3
    <3>2. CASE ~(Len(out) < Buffer)
      <4>1. /\ sub' \in BOOLEAN /\ holds' \in BOOLEAN /\ dead' \in BOOLEAN
            /\ HoldsChunk' /\ GaplessUntilDead'
        BY <2>2, <3>2, Zenon DEF deliverSend, GaplessUntilDead
      <4>2. QED BY <2>2, <3>2, <4>1 DEF deliverSend
    <3>3. QED BY <3>1, <3>2
  <2>3. CASE TakeOut
    <3>1. /\ Head(out) = out[1] /\ Head(out) \in 1..Chunks /\ Len(out) \in Nat \ {0}
          /\ got' \in Seq(1..Chunks) /\ out' \in Seq(1..Chunks)
          /\ Len(out') = Len(out) - 1
          /\ \A i \in 1..(Len(out) - 1) : out'[i] = out[i + 1]
      BY <2>3 DEF TakeOut
    <3>2. Len(out') <= Buffer
      <4>1. Len(out) \in Nat OBVIOUS
      <4>2. QED BY <3>1, <4>1
    <3>3. OutputTypeOK' /\ HoldsChunk' BY <2>3, <3>1, <3>2 DEF TakeOut
    <3>4. GaplessUntilDead'
      <4>1. /\ Len(got') = Len(got) + 1 /\ Len(got) \in Nat
            /\ \A i \in 1..Len(got) : got'[i] = got[i]
            /\ got'[Len(got) + 1] = out[1]
        BY <2>3, <3>1 DEF TakeOut
      <4>2. UNCHANGED <<next, dead, sub>> BY <2>3 DEF TakeOut
      <4>3. SUFFICES ASSUME ~dead, sub
                     PROVE  /\ Len(got') + Len(out') = next - 1
                            /\ \A i \in 1..Len(got') : got'[i] = i
                            /\ \A i \in 1..Len(out') : out'[i] = Len(got') + i
        BY <4>2 DEF GaplessUntilDead
      <4>4. /\ Len(got) + Len(out) = next - 1
            /\ \A i \in 1..Len(got) : got[i] = i
            /\ \A i \in 1..Len(out) : out[i] = Len(got) + i
        BY <4>3 DEF GaplessUntilDead
      <4>5. Len(got') + Len(out') = next - 1
        BY <3>1, <4>1, <4>4
      <4>6. ASSUME NEW i \in 1..Len(got') PROVE got'[i] = i
        <5>1. out[1] = Len(got) + 1 BY <3>1, <4>4
        <5>2. CASE i \in 1..Len(got)
          <6>1. got'[i] = got[i] /\ got[i] = i BY <4>1, <4>4, <5>2
          <6>2. QED BY <6>1
        <5>3. CASE i = Len(got) + 1 BY <4>1, <5>1, <5>3
        <5>4. i \in 1..Len(got) \/ i = Len(got) + 1 BY <4>1
        <5>5. QED BY <5>2, <5>3, <5>4
      <4>7. ASSUME NEW i \in 1..Len(out') PROVE out'[i] = Len(got') + i
        <5>1. i \in 1..(Len(out) - 1) /\ i + 1 \in 1..Len(out) BY <3>1
        <5>2. out'[i] = Len(got) + (i + 1) BY <3>1, <4>4, <5>1, Zenon
        <5>3. QED BY <4>1, <5>1, <5>2
      <4>8. QED BY <4>5, <4>6, <4>7
    <3>5. QED BY <3>3, <3>4
  <2>4. CASE SeeDead BY <2>4 DEF SeeDead, GaplessUntilDead
  <2>5. CASE BrowserGone BY <2>5 DEF BrowserGone, GaplessUntilDead
  <2>6. CASE Unsubscribe
    BY <2>6, Zenon DEF Unsubscribe, GaplessUntilDead
  <2>7. CASE UNCHANGED output BY <2>7 DEF output, GaplessUntilDead
  <2>8. QED
    BY <2>1, <2>2, <2>3, <2>4, <2>5, <2>6, <2>7 DEF OutputNext, deliver, Serve
<1>3. QED BY <1>1, <1>2, PTL DEF OutputSpec

\* Until it is marked dead a subscriber loses no output, repeats none and gets it
\* in order, for any buffer and any length of output (deliver, Serve).
THEOREM Gapless ==
  OutputSpec => []GaplessUntilDead
<1>1. OutputInv => GaplessUntilDead BY DEF OutputInv
<1>2. QED BY <1>1, OutputInvariance, PTL

-----------------------------------------------------------------------------
(* metricsStore.                                                           *)

\* A later time is in the same minute or a later one.
LEMMA DivMonotone ==
  ASSUME NEW n \in Nat, NEW m \in Nat, n <= m, NEW d \in Nat \ {0}
  PROVE  n \div d <= m \div d
  OBVIOUS

\* The minute of a time is a number.
LEMMA DivNat ==
  ASSUME NEW n \in Nat, NEW d \in Nat \ {0}
  PROVE  n \div d \in Nat
  OBVIOUS

Sums         == [sum : Nat, count : Nat]
Accumulators == [minute : Nat, sum : Nat, count : Nat]
Nothing      == [sum |-> 0, count |-> 0]

MetricsTyped ==
  /\ now \in 0 .. MaxTime
  /\ "at" \in DOMAIN recv /\ (recv.at = "heartbeat" => recv.rx \in Rx)
  /\ current \in {None} \cup [rx : Rx, at : Nat]
  /\ bucket \in {None} \cup Accumulators /\ flushing \subseteq Accumulators
  /\ heard \in [Minutes -> Sums]

\* The accumulator holds all that was heard in its minute, the latest with a
\* heartbeat; those on their way to the table are of earlier minutes.
Accounted ==
  /\ bucket = None => flushing = {} /\ \A m \in Minutes : heard[m] = Nothing
  /\ bucket # None =>
       /\ bucket.minute <= now \div MinuteLen
       /\ bucket.sum = heard[bucket.minute].sum /\ bucket.count = heard[bucket.minute].count
       /\ \A m \in Minutes : m > bucket.minute => heard[m] = Nothing
       /\ \A b \in flushing : b.minute < bucket.minute
  /\ BucketIsMinute

MetricsInv == MetricsTyped /\ Accounted

\* One heartbeat more, in an accumulator or in what was heard.
LEMMA AddCounts ==
  ASSUME NEW rate \in Nat, NEW b \in Accumulators
  PROVE  /\ Add(b, rate) \in Accumulators /\ Add(b, rate).minute = b.minute
         /\ Add(b, rate).sum = b.sum + rate /\ Add(b, rate).count = b.count + 1
<1> DEFINE a == [b EXCEPT !.sum = @ + rate]
           z == [a EXCEPT !.count = @ + 1]
<1>1. Add(b, rate) = z BY DEF Add
<1>2. a \in Accumulators /\ a.minute = b.minute /\ a.sum = b.sum + rate /\ a.count = b.count
  BY DEF Accumulators
<1> HIDE DEF a
<1>3. z \in Accumulators /\ z.minute = a.minute /\ z.sum = a.sum /\ z.count = a.count + 1
  BY <1>2 DEF Accumulators
<1>4. QED BY <1>1, <1>2, <1>3

\* addSample adds the rate to the sum and one to the count.
LEMMA AddHears ==
  ASSUME NEW rate \in Nat, NEW b \in Sums
  PROVE  /\ Add(b, rate) \in Sums
         /\ Add(b, rate).sum = b.sum + rate /\ Add(b, rate).count = b.count + 1
<1> DEFINE a == [b EXCEPT !.sum = @ + rate]
           z == [a EXCEPT !.count = @ + 1]
<1>1. Add(b, rate) = z BY DEF Add
<1>2. a \in Sums /\ a.sum = b.sum + rate /\ a.count = b.count BY DEF Sums
<1> HIDE DEF a
<1>3. z \in Sums /\ z.sum = a.sum /\ z.count = a.count + 1 BY <1>2 DEF Sums
<1>4. QED BY <1>1, <1>2, <1>3

\* The minute of the clock has its place among the minutes.
LEMMA MinuteExists ==
  ASSUME now \in 0 .. MaxTime
  PROVE  now \div MinuteLen \in Minutes /\ now \div MinuteLen \in Nat
<1>1. now \div MinuteLen \in Nat BY MinuteAssumption, DivNat
<1>2. now \div MinuteLen <= MaxTime \div MinuteLen BY MinuteAssumption, DivMonotone
<1>3. QED BY <1>1, <1>2, MinuteAssumption DEF Minutes

\* Counters that were reset and clocks that stood still give no rate.
LEMMA RateIsNat ==
  ASSUME MetricsTyped, NEW rx \in Rx
  PROVE  Rate(rx) \in Nat
<1>1. CASE current = None BY <1>1 DEF Rate
<1>2. CASE current # None
  <2>0. current \in [rx : Rx, at : Nat] BY <1>2 DEF MetricsTyped
  <2>1. current.rx \in Nat /\ current.at \in Nat /\ rx \in Nat /\ now \in Nat
    <3>1. current.rx \in Rx /\ current.at \in Nat BY <2>0
    <3>2. now \in Nat BY MinuteAssumption DEF MetricsTyped
    <3>3. QED BY <3>1, <3>2, MinuteAssumption, Zenon
  <2>2. CASE rx < current.rx \/ now - current.at <= 0
    BY <1>2, <2>2 DEF Rate, bytesPerSecond
  <2>3. CASE ~(rx < current.rx \/ now - current.at <= 0)
    <3>1. rx - current.rx \in Nat /\ now - current.at \in Nat \ {0} BY <2>1, <2>3
    <3>2. QED BY <1>2, <2>3, <3>1, DivNat DEF Rate, bytesPerSecond
  <2>4. QED BY <2>2, <2>3
<1>3. QED BY <1>1, <1>2

\* The bucket does not depend on the steps of the other stores.
LEMMA MetricsFrame ==
  ASSUME MetricsInv, UNCHANGED <<bucket, flushing, heard, now>>,
         current' \in {current, None}, recv' = recv \/ ("at" \in DOMAIN recv' /\ recv'.at # "heartbeat")
  PROVE  MetricsInv'
  BY DEF MetricsInv, MetricsTyped, Accounted, BucketIsMinute, Minutes

\* A heartbeat goes into the bucket of its minute, and a bucket of an earlier minute goes to
\* its flush as it is.
LEMMA HeartbeatAccounted ==
  ASSUME MetricsInv, ApplyHeartbeat
  PROVE  MetricsInv'
<1> DEFINE minute == now \div MinuteLen
           rate   == Rate(recv.rx)
           fresh  == [minute |-> minute, sum |-> 0, count |-> 0]
           rolls  == bucket # None /\ bucket.minute # minute
           base   == IF bucket = None \/ rolls THEN fresh ELSE bucket
<1>1. minute \in Minutes /\ minute \in Nat BY MinuteExists DEF MetricsInv, MetricsTyped
<1>2. rate \in Nat BY RateIsNat DEF MetricsInv, MetricsTyped, ApplyHeartbeat
<1>3. /\ bucket' = Add(base, rate)
      /\ flushing' = IF rolls THEN flushing \cup {bucket} ELSE flushing
      /\ heard' = [heard EXCEPT ![minute] = Add(@, rate)]
      /\ current' = [rx |-> recv.rx, at |-> now] /\ recv.at = "heartbeat"
      /\ recv' = Idle /\ UNCHANGED now
  BY DEF ApplyHeartbeat, feedBucket, env
<1>4. base \in Accumulators /\ base.minute = minute
  BY <1>1 DEF MetricsInv, MetricsTyped, Accumulators
<1>5. base.sum = heard[minute].sum /\ base.count = heard[minute].count
  <2>1. CASE bucket = None BY <1>1, <2>1 DEF MetricsInv, Accounted, Nothing
  <2>2. CASE rolls
    <3>1. bucket.minute < minute
      BY <1>1, <2>2 DEF MetricsInv, MetricsTyped, Accounted, Accumulators
    <3>2. heard[minute] = Nothing BY <1>1, <2>2, <3>1 DEF MetricsInv, Accounted
    <3>3. QED BY <2>2, <3>2 DEF Nothing
  <2>3. CASE bucket # None /\ bucket.minute = minute BY <2>3 DEF MetricsInv, Accounted
  <2>4. QED BY <2>1, <2>2, <2>3
<1> HIDE DEF minute, rate, base
<1>6. /\ bucket' \in Accumulators /\ bucket'.minute = minute
      /\ bucket'.sum = base.sum + rate /\ bucket'.count = base.count + 1
  BY <1>2, <1>3, <1>4, AddCounts
<1>7. /\ heard' \in [Minutes -> Sums]
      /\ heard'[minute].sum = heard[minute].sum + rate
      /\ heard'[minute].count = heard[minute].count + 1
      /\ \A m \in Minutes \ {minute} : heard'[m] = heard[m]
  <2>1. heard \in [Minutes -> Sums] BY DEF MetricsInv, MetricsTyped
  <2>2. /\ Add(heard[minute], rate) \in Sums
        /\ Add(heard[minute], rate).sum = heard[minute].sum + rate
        /\ Add(heard[minute], rate).count = heard[minute].count + 1
    BY <1>1, <1>2, <2>1, AddHears
  <2>3. QED BY <1>1, <1>3, <2>1, <2>2
<1>8. flushing' \subseteq Accumulators BY <1>3 DEF MetricsInv, MetricsTyped
<1>9. MetricsTyped'
  BY <1>3, <1>6, <1>7, <1>8, MinuteAssumption DEF MetricsInv, MetricsTyped, Idle, Minutes
<1>10. bucket # None => bucket.minute \in Nat /\ bucket.minute <= minute
  BY DEF MetricsInv, MetricsTyped, Accounted, Accumulators, minute
<1>11. ASSUME NEW b \in flushing'
       PROVE  /\ b.minute < minute /\ b.minute \in Nat
              /\ b.sum = heard[b.minute].sum /\ b.count = heard[b.minute].count
  <2>1. CASE b \in flushing
    <3>1. bucket # None /\ b.minute < bucket.minute BY <2>1 DEF MetricsInv, Accounted
    <3>2. b.minute \in Nat BY <2>1 DEF MetricsInv, MetricsTyped, Accumulators
    <3>3. b.sum = heard[b.minute].sum /\ b.count = heard[b.minute].count
      BY <2>1 DEF MetricsInv, Accounted, BucketIsMinute
    <3>4. QED BY <1>1, <1>10, <3>1, <3>2, <3>3
  <2>2. CASE b \notin flushing
    <3>1. rolls /\ b = bucket BY <1>3, <2>2
    <3>2. QED BY <1>1, <1>10, <3>1 DEF MetricsInv, Accounted
  <2>3. QED BY <2>1, <2>2
<1>12. \A b \in flushing' : /\ b.minute < minute
                           /\ b.sum = heard'[b.minute].sum /\ b.count = heard'[b.minute].count
  <2>1. ASSUME NEW b \in flushing' PROVE heard'[b.minute] = heard[b.minute]
    <3>1. b.minute \in Minutes \ {minute} BY <1>1, <1>11, MinuteAssumption DEF Minutes
    <3>2. QED BY <1>7, <3>1
  <2>2. QED BY <1>11, <2>1
<1>13. ASSUME NEW m \in Minutes, m > minute PROVE heard'[m] = Nothing
  <2>1. heard[m] = Nothing
    <3>1. CASE bucket = None BY <3>1 DEF MetricsInv, Accounted
    <3>2. CASE bucket # None
      <4>1. m > bucket.minute BY <1>1, <1>10, <1>13, <3>2, MinuteAssumption DEF Minutes
      <4>2. QED BY <3>2, <4>1 DEF MetricsInv, Accounted
    <3>3. QED BY <3>1, <3>2
  <2>2. m \in Minutes \ {minute} BY <1>1, <1>13, MinuteAssumption DEF Minutes
  <2>3. QED BY <1>7, <2>1, <2>2
<1>14. bucket' # None /\ bucket'.minute <= now' \div MinuteLen
  BY <1>1, <1>3, <1>6, NoneAssumption DEF Accumulators, minute
<1>15. /\ bucket'.sum = heard'[bucket'.minute].sum
       /\ bucket'.count = heard'[bucket'.minute].count
  BY <1>5, <1>6, <1>7
<1>16. Accounted'
  BY <1>6, <1>12, <1>13, <1>14, <1>15 DEF Accounted, BucketIsMinute, Minutes
<1>17. QED BY <1>9, <1>16 DEF MetricsInv

\* Receive takes the message into an idle receive loop, and touches nothing else.
LEMMA Received ==
  ASSUME NEW m, Receive(m)
  PROVE  /\ recv = Idle /\ recv' = m
         /\ UNCHANGED <<bucket, flushing, heard, now, current>>
         /\ UNCHANGED <<lastId, subs, view, panicked>>
<1>1. recv = Idle /\ recv' = m /\ UNCHANGED metrics /\ UNCHANGED now BY Zenon DEF Receive
<1>2. UNCHANGED logs /\ UNCHANGED live BY Zenon DEF Receive
<1>3. UNCHANGED <<bucket, flushing, heard, current>> BY <1>1 DEF metrics
<1>4. UNCHANGED <<lastId, subs, view, panicked>> BY <1>2 DEF logs, live
<1>5. QED BY <1>1, <1>3, <1>4

\* Every step keeps the bucket accounted for.
LEMMA MetricsStep ==
  ASSUME MetricsInv, [Next]_vars
  PROVE  MetricsInv'
<1>1. CASE ApplyHeartbeat BY <1>1, HeartbeatAccounted
<1>2. CASE flushBucket
  BY <1>2 DEF flushBucket, MetricsInv, MetricsTyped, Accounted, BucketIsMinute, Minutes, env
<1>3. CASE Restart
  BY <1>3 DEF Restart, MetricsInv, MetricsTyped, Accounted, BucketIsMinute, Minutes, Sums,
    Nothing, Idle
<1>4. CASE Tick
  <2>1. now \in Nat /\ now' = now + 1 /\ now' \in 0 .. MaxTime
    BY <1>4, MinuteAssumption DEF Tick, MetricsInv, MetricsTyped
  <2>2. /\ now \div MinuteLen <= now' \div MinuteLen
        /\ now \div MinuteLen \in Nat /\ now' \div MinuteLen \in Nat
    BY <2>1, MinuteAssumption, DivMonotone, DivNat
  <2>3. bucket # None => bucket.minute <= now' \div MinuteLen
    BY <2>2 DEF MetricsInv, MetricsTyped, Accounted, Accumulators
  <2>4. UNCHANGED <<recv, current, bucket, flushing, heard>> BY <1>4 DEF Tick, metrics
  <2>5. MetricsTyped' BY <2>1, <2>4 DEF MetricsInv, MetricsTyped, Minutes
  <2>6. Accounted' BY <2>3, <2>4 DEF MetricsInv, Accounted, BucketIsMinute, Minutes
  <2>7. QED BY <2>5, <2>6 DEF MetricsInv
<1>5. CASE Message
  <2>1. CASE \E rx \in Rx : Receive([at |-> "heartbeat", rx |-> rx])
    <3>1. PICK rx \in Rx : Receive([at |-> "heartbeat", rx |-> rx]) BY <2>1, Zenon
    <3>2. recv' = [at |-> "heartbeat", rx |-> rx] BY <3>1, Received, Zenon
    <3>3. UNCHANGED <<bucket, flushing, heard, now, current>> BY <3>1, Received, Zenon
    <3>4. QED BY <3>2, <3>3 DEF MetricsInv, MetricsTyped, Accounted, BucketIsMinute, Minutes
  <2>2. CASE \E set \in SUBSET Containers : Receive([at |-> "report", set |-> set])
    <3>1. PICK set : Receive([at |-> "report", set |-> set]) BY <2>2, Zenon
    <3>2. recv' = [at |-> "report", set |-> set] BY <3>1, Received, Zenon
    <3>3. UNCHANGED <<bucket, flushing, heard, now, current>> BY <3>1, Received, Zenon
    <3>4. "at" \in DOMAIN recv' /\ recv'.at # "heartbeat" BY <3>2
    <3>5. QED BY <3>3, <3>4, MetricsFrame
  <2>3. CASE \E n \in 1 .. MaxBatch : Receive([at |-> "lines", n |-> n])
    <3>1. PICK n : Receive([at |-> "lines", n |-> n]) BY <2>3, Zenon
    <3>2. recv' = [at |-> "lines", n |-> n] BY <3>1, Received, Zenon
    <3>3. UNCHANGED <<bucket, flushing, heard, now, current>> BY <3>1, Received, Zenon
    <3>4. "at" \in DOMAIN recv' /\ recv'.at # "heartbeat" BY <3>2
    <3>5. QED BY <3>3, <3>4, MetricsFrame
  <2>4. QED BY <1>5, <2>1, <2>2, <2>3, Zenon DEF Message
<1>6. CASE Disconnect \/ CleanupNodes
  BY <1>6, MetricsFrame DEF Disconnect, CleanupNodes, MarkOffline, env
<1>7. CASE ApplyReport \/ persistBatch \/ InsertLines \/ FanoutCopies \/ FanoutSends \/ ApplyEnds
  <2>1. UNCHANGED <<bucket, flushing, heard, now, current>>
    BY <1>7 DEF ApplyReport, persistBatch, InsertLines, FanoutCopies, FanoutSends,
      ApplyEnds, metrics, env
  <2>2. "at" \in DOMAIN recv' /\ recv'.at # "heartbeat"
    <3> USE DEF MetricsInv, MetricsTyped, Idle
    <3>1. CASE ApplyReport BY <3>1 DEF ApplyReport
    <3>2. CASE FanoutCopies BY <3>2 DEF FanoutCopies
    <3>3. CASE FanoutSends BY <3>3 DEF FanoutSends
    <3>4. CASE InsertLines BY <3>4 DEF InsertLines
    <3>5. CASE persistBatch \/ ApplyEnds BY <3>5 DEF persistBatch, ApplyEnds
    <3>6. QED BY <1>7, <3>1, <3>2, <3>3, <3>4, <3>5
  <2>3. QED BY <2>1, <2>2, MetricsFrame
<1>8. CASE Connect \/ RunPruneLoop \/ pruneOne \/ RunRetentionLoop \/ UNCHANGED vars
  BY <1>8, MetricsFrame DEF Connect, RunPruneLoop, pruneOne, RunRetentionLoop, vars,
    metrics, env
<1>9. CASE \E v \in Viewers : TailLines(v) \/ Subscribe(v) \/ Show(v) \/ Leave(v)
  BY <1>9, MetricsFrame DEF TailLines, Subscribe, Show, Leave, metrics, env
<1>10. QED BY <1>1, <1>2, <1>3, <1>4, <1>5, <1>6, <1>7, <1>8, <1>9 DEF Next, Ingest

\* The row flushBucket writes of a minute is that of all heartbeats of the minute
\* (BucketIsMinute), however late the goroutine runs and whatever came after.
THEOREM RowsAreMinutes == Spec => []BucketIsMinute
<1>1. Init => MetricsInv
  BY MinuteAssumption DEF Init, MetricsInv, MetricsTyped, Accounted, BucketIsMinute,
    Minutes, Sums, Nothing, Idle
<1>2. MetricsInv => BucketIsMinute BY DEF MetricsInv, Accounted
<1>3. QED BY <1>1, <1>2, MetricsStep, PTL DEF Spec

-----------------------------------------------------------------------------
(* containerStore.                                                         *)

ReportTyped ==
  /\ "at" \in DOMAIN recv /\ (recv.at \in {"report", "persist"} => recv.set \subseteq Containers)
  /\ {"n", "set", "kept"} \subseteq DOMAIN report
  /\ report.n \in Nat /\ report.set \subseteq Containers

\* A live view is of the last report; the rows are once that report was written; while
\* it is being written it is the report of the message at hand.
ReportInv ==
  /\ ReportTyped
  /\ recv.at = "persist" => recv.set = report.set /\ ~report.kept
  /\ recv.at = "persist" \/ report.kept => report.n # 0
  /\ \A c \in Containers : state[c] = 0 \/ (c \in report.set /\ state[c] = report.n)
  /\ report.kept /\ report.set # {} =>
       \A c \in Containers : rows[c] = IF c \in report.set THEN report.n ELSE 0

\* The invariant of containerStore says what is shown.
LEMMA ReportShown == ReportInv => ShownIsLatest
<1>1. SUFFICES ASSUME ReportInv, report.kept, report.set # {}
               PROVE  /\ All = [c : report.set, n : {report.n}]
                      /\ \A c \in Containers : Get(c) = IF c \in report.set THEN report.n ELSE 0
  BY DEF ShownIsLatest
<1>3. report.n # 0 /\ \A c \in Containers : rows[c] = IF c \in report.set THEN report.n ELSE 0
  BY <1>1 DEF ReportInv
<1>4. \A c \in Containers : state[c] = 0 \/ (c \in report.set /\ state[c] = report.n)
  BY <1>1, Zenon DEF ReportInv
<1>5. report.set \subseteq Containers BY <1>1 DEF ReportInv, ReportTyped
<1>6. All \subseteq [c : report.set, n : {report.n}] BY <1>3, <1>4, <1>5 DEF All
<1>7. ASSUME NEW e \in [c : report.set, n : {report.n}] PROVE e \in All
  <2>1. e = [c |-> e.c, n |-> report.n] /\ e.c \in Containers /\ e.c \in report.set BY <1>5
  <2>2. CASE state[e.c] = 0 BY <1>3, <2>1, <2>2 DEF All
  <2>3. CASE state[e.c] # 0 BY <1>4, <2>1, <2>3 DEF All
  <2>4. QED BY <2>2, <2>3
<1>8. QED BY <1>3, <1>4, <1>6, <1>7, Zenon DEF Get

\* The containers shown do not depend on the steps of the other stores.
LEMMA ReportFrame ==
  ASSUME ReportInv, UNCHANGED <<rows, report>>, state' = state \/ MarkNodeOffline,
         recv' = recv \/ ("at" \in DOMAIN recv' /\ recv'.at \notin {"report", "persist"})
  PROVE  ReportInv'
  BY DEF ReportInv, ReportTyped, MarkNodeOffline

\* Every step keeps the containers shown those of the latest report.
LEMMA ReportStep ==
  ASSUME ReportInv, [Next]_vars
  PROVE  ReportInv'
<1>1. CASE ApplyReport
  <2>1. /\ report' = [n |-> report.n + 1, set |-> recv.set, kept |-> FALSE]
        /\ recv.set \subseteq Containers
        /\ recv' = [recv EXCEPT !.at = "persist"] /\ "at" \in DOMAIN recv
        /\ report.n \in Nat
        /\ state' = [c \in Containers |-> IF c \in recv.set THEN report.n + 1 ELSE 0]
    BY <1>1 DEF ApplyReport, ReportInv, ReportTyped
  <2>2. recv'.at = "persist" /\ recv'.set = recv.set /\ "at" \in DOMAIN recv' BY <2>1
  <2>3. report'.n # 0 /\ report'.n \in Nat /\ report'.kept = FALSE /\ report'.set = recv.set
    BY <2>1
  <2>4. \A c \in Containers : state'[c] = 0 \/ (c \in report'.set /\ state'[c] = report'.n)
    BY <2>1
  <2>5. QED BY <2>1, <2>2, <2>3, <2>4 DEF ReportInv, ReportTyped
<1>2. CASE persistBatch
  <2>1. PICK done \in SUBSET Containers :
          /\ rows' = [c \in Containers |->
               IF known /\ c \in done THEN PersistedRows(recv.set, rows)[c] ELSE rows[c]]
          /\ report' = [report EXCEPT !.kept = known /\ done = Containers]
    BY <1>2, Zenon DEF persistBatch
  <2>2. /\ report'.n = report.n /\ report'.set = report.set
        /\ report'.kept = (known /\ done = Containers)
        /\ {"n", "set", "kept"} \subseteq DOMAIN report'
    BY <2>1 DEF ReportInv, ReportTyped
  <2>3. recv.at = "persist" /\ recv.set = report.set /\ report.n # 0
    BY <1>2 DEF persistBatch, ReportInv
  <2>4. report'.kept /\ report'.set # {} =>
          \A c \in Containers : rows'[c] = IF c \in report'.set THEN report'.n ELSE 0
    BY <2>1, <2>2, <2>3, Zenon DEF PersistedRows
  <2>5. "at" \in DOMAIN recv' /\ recv'.at = "idle" /\ state' = state
    BY <1>2 DEF persistBatch, Idle
  <2>6. QED BY <2>2, <2>3, <2>4, <2>5 DEF ReportInv, ReportTyped
<1>3. CASE CleanupNodes
  <2>1. /\ report'.n = report.n /\ report'.set = report.set /\ report'.kept = FALSE
        /\ {"n", "set", "kept"} \subseteq DOMAIN report'
    BY <1>3 DEF CleanupNodes, ReportInv, ReportTyped
  <2>2. recv' = recv /\ \A c \in Containers : state'[c] = 0
    BY <1>3 DEF CleanupNodes, MarkNodeOffline
  <2>3. QED BY <2>1, <2>2 DEF ReportInv, ReportTyped
<1>4. CASE Message
  <2>1. UNCHANGED <<rows, report, state>> BY <1>4 DEF Message, Receive, containers
  <2>2. CASE \E rx \in Rx : Receive([at |-> "heartbeat", rx |-> rx])
    BY <2>1, <2>2, ReportFrame DEF Receive
  <2>3. CASE \E set \in SUBSET Containers : Receive([at |-> "report", set |-> set])
    <3>1. /\ "at" \in DOMAIN recv' /\ recv'.at = "report" /\ recv'.set \subseteq Containers
      BY <2>3 DEF Receive
    <3>2. QED BY <2>1, <3>1 DEF ReportInv, ReportTyped
  <2>4. CASE \E n \in 1 .. MaxBatch : Receive([at |-> "lines", n |-> n])
    BY <2>1, <2>4, ReportFrame DEF Receive
  <2>5. QED BY <1>4, <2>2, <2>3, <2>4, Zenon DEF Message
<1>5. CASE Restart BY <1>5, ReportFrame DEF Restart, MarkNodeOffline, Idle
<1>6. CASE Disconnect BY <1>6, ReportFrame DEF Disconnect
<1>7. CASE ApplyHeartbeat \/ InsertLines \/ FanoutCopies \/ FanoutSends \/ ApplyEnds
  <2>1. UNCHANGED <<rows, report, state>>
    BY <1>7 DEF ApplyHeartbeat, InsertLines, FanoutCopies, FanoutSends, ApplyEnds, containers
  <2>2. "at" \in DOMAIN recv' /\ recv'.at \notin {"report", "persist"}
    <3> USE DEF ReportInv, ReportTyped, Idle
    <3>1. CASE ApplyHeartbeat \/ ApplyEnds BY <3>1 DEF ApplyHeartbeat, ApplyEnds
    <3>2. CASE FanoutCopies BY <3>2 DEF FanoutCopies
    <3>3. CASE FanoutSends BY <3>3 DEF FanoutSends
    <3>4. CASE InsertLines BY <3>4 DEF InsertLines
    <3>5. QED BY <1>7, <3>1, <3>2, <3>3, <3>4
  <2>3. QED BY <2>1, <2>2, ReportFrame
<1>8. CASE Connect \/ flushBucket \/ RunPruneLoop \/ pruneOne \/ RunRetentionLoop \/ Tick \/ UNCHANGED vars
  BY <1>8, ReportFrame, Zenon
  DEF Connect, flushBucket, RunPruneLoop, pruneOne, RunRetentionLoop, Tick, vars, containers
<1>9. CASE \E v \in Viewers : TailLines(v) \/ Subscribe(v) \/ Show(v) \/ Leave(v)
  BY <1>9, ReportFrame DEF TailLines, Subscribe, Show, Leave, containers
<1>10. QED BY <1>1, <1>2, <1>3, <1>4, <1>5, <1>6, <1>7, <1>8, <1>9 DEF Next, Ingest

\* Once the rows of a report that names containers are written, what Get and All show
\* is that report (ShownIsLatest), through breaks, cleanups and restarts.
THEOREM LatestShown == Spec => []ShownIsLatest
<1>1. Init => ReportInv BY DEF Init, ReportInv, ReportTyped, Idle
<1>2. QED BY <1>1, ReportStep, ReportShown, PTL DEF Spec

-----------------------------------------------------------------------------
(* logStore and the live streams.                                          *)

\* The fanout of a line is between its two steps.
Copying == recv.at = "fan" /\ recv.chs # None

\* The lines to fan out are the last ones inserted, in order.
FanInv ==
  /\ "at" \in DOMAIN recv /\ lastId \in Nat
  /\ recv.at = "lines" => recv.n \in Nat
  /\ recv.at = "fan" =>
       /\ {"todo", "chs", "prune"} \subseteq DOMAIN recv
       /\ recv.todo \in Seq(Nat) /\ Len(recv.todo) <= lastId
       /\ \A i \in 1 .. Len(recv.todo) : recv.todo[i] = Fanned + i

\* Subscribed are the live viewers; the channels a fanout copied are of viewers that
\* are or were live, and nobody has closed one.
SubsInv ==
  /\ DOMAIN view = Viewers /\ subs = {v \in Viewers : view[v].at = "live"}
  /\ Copying => recv.todo # <<>> /\ recv.chs \subseteq Viewers
  /\ \A v \in Viewers :
       /\ {"at", "ch", "closed", "shown", "slow"} \subseteq DOMAIN view[v]
       /\ view[v].closed = FALSE
       /\ view[v].at \in {"new", "tailed"} => view[v].ch = <<>>
       /\ Copying /\ v \in recv.chs => view[v].at \in {"live", "left"}

\* What waits in the channel of a live viewer that has kept pace continues what it
\* was shown up to the last line fanned out; one that came after the channels were
\* copied waits for the line after.
Keeps(r, last, late) ==
  /\ r.ch \in Seq(Nat) /\ r.shown \in Nat
  /\ ~r.slow => IF late THEN r.ch = <<>> /\ r.shown = last + 1
                ELSE /\ r.shown + Len(r.ch) = last
                     /\ \A i \in 1 .. Len(r.ch) : r.ch[i] = r.shown + i

PaceInv ==
  \A v \in Viewers : view[v].at = "live" => Keeps(view[v], Fanned, Copying /\ v \notin recv.chs)

LiveInv == FanInv /\ SubsInv /\ PaceInv /\ ~panicked

\* The lines given to the viewers are counted.
LEMMA FannedIsNat == FanInv => Fanned \in Nat
<1>1. CASE recv.at = "fan" BY <1>1 DEF FanInv, Fanned
<1>2. CASE recv.at # "fan" BY <1>2 DEF FanInv, Fanned
<1>3. QED BY <1>1, <1>2

\* The invariant of the live view says that no viewer misses a line.
LEMMA LiveShown == LiveInv => LiveIsGapless
<1>1. SUFFICES ASSUME LiveInv, NEW v \in Viewers, view[v].at = "live", ~view[v].slow
               PROVE  view[v].ch = [i \in 1 .. Fanned - view[v].shown |-> view[v].shown + i]
  BY DEF LiveIsGapless
<1> DEFINE r == view[v]
           late == Copying /\ v \notin recv.chs
<1>2. Fanned \in Nat BY <1>1, FannedIsNat DEF LiveInv
<1>3. Keeps(r, Fanned, late) /\ ~r.slow BY <1>1 DEF LiveInv, PaceInv
<1> HIDE DEF r, late
<1>4. CASE late
  <2>1. r.ch = <<>> /\ 1 .. Fanned - r.shown = {} BY <1>2, <1>3, <1>4 DEF Keeps
  <2>2. QED BY <2>1 DEF r
<1>5. CASE ~late
  <2>1. r.ch \in Seq(Nat) /\ Len(r.ch) = Fanned - r.shown BY <1>2, <1>3, <1>5 DEF Keeps
  <2>2. r.ch = [i \in 1 .. Len(r.ch) |-> r.ch[i]] BY <2>1
  <2>3. \A i \in 1 .. Len(r.ch) : r.ch[i] = r.shown + i BY <1>3, <1>5 DEF Keeps
  <2>4. QED BY <2>1, <2>2, <2>3 DEF r
<1>6. QED BY <1>4, <1>5

\* At the start there are no lines and no viewers.
LEMMA LiveInit == Init => LiveInv
<1>1. SUFFICES ASSUME Init PROVE LiveInv BY Zenon
<1>2. \A v \in Viewers :
        /\ {"at", "ch", "closed", "shown", "slow"} \subseteq DOMAIN view[v]
        /\ view[v].closed = FALSE /\ view[v].at = "new" /\ view[v].ch = <<>>
  BY <1>1 DEF Init, Viewer
<1>3. ~Copying BY <1>1 DEF Init, Idle, Copying
<1>4. FanInv BY <1>1, Zenon DEF Init, FanInv, Idle
<1>5. SubsInv BY <1>1, <1>2, <1>3 DEF Init, SubsInv
<1>6. PaceInv BY <1>2 DEF PaceInv
<1>7. QED BY <1>1, <1>4, <1>5, <1>6 DEF Init, LiveInv

\* Steps that are not about the log.
LEMMA LiveFrame ==
  ASSUME LiveInv, UNCHANGED <<lastId, subs, view, panicked>>,
         \/ recv' = recv
         \/ /\ recv.at # "fan" /\ recv'.at # "fan" /\ "at" \in DOMAIN recv'
            /\ recv'.at = "lines" => recv'.n \in Nat
  PROVE  LiveInv'
<1>1. CASE recv' = recv
  BY <1>1, Zenon DEF LiveInv, FanInv, SubsInv, PaceInv, Copying, Fanned, Keeps
<1>2. CASE recv' # recv
  <2>1. Fanned' = Fanned /\ ~Copying /\ ~Copying' BY <1>2 DEF Fanned, Copying
  <2>2. FanInv' BY <1>2 DEF LiveInv, FanInv
  <2>3. SubsInv' BY <2>1 DEF LiveInv, SubsInv
  <2>4. PaceInv' BY <2>1 DEF LiveInv, PaceInv, Keeps
  <2>5. QED BY <2>2, <2>3, <2>4 DEF LiveInv
<1>3. QED BY <1>1, <1>2

\* A step of one viewer keeps the invariant if it does for that viewer.
LEMMA ViewerStep ==
  ASSUME LiveInv, UNCHANGED <<recv, lastId, panicked>>, NEW v \in Viewers, NEW r,
         view' = [view EXCEPT ![v] = r],
         subs' = IF r.at = "live" THEN subs \cup {v} ELSE subs \ {v},
         {"at", "ch", "closed", "shown", "slow"} \subseteq DOMAIN r, r.closed = FALSE,
         r.at \in {"new", "tailed"} => r.ch = <<>>,
         Copying /\ v \in recv.chs => r.at \in {"live", "left"},
         r.at = "live" => Keeps(r, Fanned, Copying /\ v \notin recv.chs)
  PROVE  LiveInv'
<1>1. Fanned' = Fanned /\ Copying' = Copying BY DEF Fanned, Copying
<1>2. FanInv' BY <1>1 DEF LiveInv, FanInv
<1>3. /\ DOMAIN view' = Viewers /\ view'[v] = r
      /\ \A w \in Viewers \ {v} : view'[w] = view[w]
  BY DEF LiveInv, SubsInv
<1>4. subs' = {w \in Viewers : view'[w].at = "live"} BY <1>3, Zenon DEF LiveInv, SubsInv
<1>5. SubsInv' BY <1>1, <1>3, <1>4, Zenon DEF LiveInv, SubsInv
<1>6. PaceInv' BY <1>1, <1>3 DEF LiveInv, PaceInv
<1>7. QED BY <1>2, <1>5, <1>6 DEF LiveInv

\* The steps of one viewer keep its own view and leave the others alone.
LEMMA ViewerMoves ==
  ASSUME LiveInv, NEW v \in Viewers, TailLines(v) \/ Subscribe(v) \/ Show(v) \/ Leave(v)
  PROVE  LiveInv'
<1> DEFINE r == view[v]
<1>0. /\ UNCHANGED <<recv, lastId, panicked>> /\ DOMAIN view = Viewers
      /\ {"at", "ch", "closed", "shown", "slow"} \subseteq DOMAIN r /\ r.closed = FALSE
      /\ r.at \in {"new", "tailed"} => r.ch = <<>>
      /\ Copying /\ v \in recv.chs => r.at \in {"live", "left"}
  BY DEF TailLines, Subscribe, Show, Leave, logs, LiveInv, SubsInv
<1>1. CASE TailLines(v)
  <2>1. PICK n : view' = [view EXCEPT ![v].at = "tailed", ![v].shown = n]
    BY <1>1, Zenon DEF TailLines
  <2> DEFINE t == [r EXCEPT !.at = "tailed", !.shown = n]
  <2>2. view' = [view EXCEPT ![v] = t] BY <1>0, <2>1, Zenon
  <2>3. subs' = subs \ {v} BY <1>1 DEF TailLines, LiveInv, SubsInv
  <2>4. /\ {"at", "ch", "closed", "shown", "slow"} \subseteq DOMAIN t
        /\ t.closed = FALSE /\ t.ch = <<>> /\ t.at = "tailed"
    BY <1>0, <1>1 DEF TailLines
  <2>5. ~(Copying /\ v \in recv.chs) BY <1>0, <1>1 DEF TailLines
  <2> HIDE DEF t
  <2>6. QED BY <1>0, <2>2, <2>3, <2>4, <2>5, ViewerStep, Zenon
<1>2. CASE Subscribe(v)
  <2> DEFINE t == [r EXCEPT !.at = "live", !.shown = Copied]
  <2>1. view' = [view EXCEPT ![v] = t] BY <1>0, <1>2, Zenon DEF Subscribe
  <2>2. /\ {"at", "ch", "closed", "shown", "slow"} \subseteq DOMAIN t
        /\ t.closed = FALSE /\ t.ch = <<>> /\ t.at = "live" /\ t.shown = Copied
    BY <1>0, <1>2 DEF Subscribe
  <2>3. ~(Copying /\ v \in recv.chs) BY <1>0, <1>2 DEF Subscribe
  <2>4. subs' = subs \cup {v} BY <1>2 DEF Subscribe
  <2>5. Fanned \in Nat BY FannedIsNat DEF LiveInv
  <2>6. Copied = IF Copying THEN Fanned + 1 ELSE Fanned
    <3>1. CASE recv.at = "fan"
      BY <3>1 DEF Copied, Fanned, Copying, LiveInv, FanInv
    <3>2. CASE recv.at # "fan" BY <3>2 DEF Copied, Fanned, Copying, LiveInv, FanInv
    <3>3. QED BY <3>1, <3>2
  <2> HIDE DEF t
  <2>7. Keeps(t, Fanned, Copying /\ v \notin recv.chs)
    BY <2>2, <2>3, <2>5, <2>6 DEF Keeps
  <2>8. QED BY <1>0, <2>1, <2>2, <2>3, <2>4, <2>7, ViewerStep, Zenon
<1>3. CASE Show(v)
  <2> DEFINE t == [r EXCEPT !.ch = Tail(@), !.shown = Head(r.ch)]
  <2>1. view' = [view EXCEPT ![v] = t] BY <1>0, <1>3, Zenon DEF Show
  <2>2. /\ {"at", "ch", "closed", "shown", "slow"} \subseteq DOMAIN t
        /\ t.closed = FALSE /\ t.ch = Tail(r.ch) /\ t.at = "live" /\ t.shown = Head(r.ch)
        /\ t.slow = r.slow
    BY <1>0, <1>3 DEF Show
  <2>3. v \in subs /\ subs' = subs \cup {v} BY <1>3 DEF Show, LiveInv, SubsInv
  <2>4. Keeps(r, Fanned, Copying /\ v \notin recv.chs) BY <1>3 DEF Show, LiveInv, PaceInv
  <2>5. r.ch # <<>> /\ r.ch \in Seq(Nat) BY <1>3, <2>4 DEF Show, Keeps
  <2>6. /\ Tail(r.ch) \in Seq(Nat) /\ Head(r.ch) \in Nat /\ Head(r.ch) = r.ch[1]
        /\ Len(Tail(r.ch)) = Len(r.ch) - 1 /\ Len(r.ch) \in Nat /\ Len(r.ch) > 0
        /\ \A i \in 1 .. Len(Tail(r.ch)) : Tail(r.ch)[i] = r.ch[i + 1]
    BY <2>5
  <2>7. Fanned \in Nat /\ r.shown \in Nat BY <2>4, FannedIsNat DEF LiveInv, Keeps
  <2> DEFINE late == Copying /\ v \notin recv.chs
  <2> HIDE DEF t, r, late
  <2>8. ~r.slow => ~late BY <2>4, <2>5 DEF Keeps, late
  <2>9. Keeps(t, Fanned, late)
    <3>1. CASE r.slow BY <2>2, <2>6, <3>1 DEF Keeps
    <3>2. CASE ~r.slow
      <4>1. r.shown + Len(r.ch) = Fanned /\ \A i \in 1 .. Len(r.ch) : r.ch[i] = r.shown + i
        BY <2>4, <2>8, <3>2 DEF Keeps, late
      <4>2. Head(r.ch) = r.shown + 1 BY <2>6, <4>1
      <4>3. Head(r.ch) + Len(Tail(r.ch)) = Fanned BY <2>6, <2>7, <4>1, <4>2
      <4>4. ASSUME NEW i \in 1 .. Len(Tail(r.ch)) PROVE Tail(r.ch)[i] = Head(r.ch) + i
        <5>1. i \in Nat /\ i + 1 \in 1 .. Len(r.ch) /\ Tail(r.ch)[i] = r.ch[i + 1] BY <2>6
        <5>2. r.ch[i + 1] = r.shown + (i + 1) BY <4>1, <5>1
        <5>3. QED BY <2>7, <4>2, <5>1, <5>2
      <4>5. QED BY <2>2, <2>6, <2>8, <3>2, <4>3, <4>4 DEF Keeps
    <3>3. QED BY <3>1, <3>2
  <2>10. QED BY <1>0, <2>1, <2>2, <2>3, <2>9, ViewerStep, Zenon DEF late
<1>4. CASE Leave(v)
  <2>1. /\ view' = [view EXCEPT ![v] = Gone] /\ subs' = subs \ {v} BY <1>4 DEF Leave
  <2>2. /\ {"at", "ch", "closed", "shown", "slow"} \subseteq DOMAIN Gone
        /\ Gone.closed = FALSE /\ Gone.at = "left"
    BY DEF Gone, Viewer
  <2>3. QED BY <1>0, <2>1, <2>2, ViewerStep, Zenon
<1>5. QED BY <1>1, <1>2, <1>3, <1>4

\* Lines that are inserted have yet to be given to the viewers.
LEMMA InsertKeeps ==
  ASSUME LiveInv, InsertLines
  PROVE  LiveInv'
<1>1. /\ recv.at = "lines" /\ recv.n \in Nat /\ lastId \in Nat
      /\ UNCHANGED <<subs, view, panicked>>
  BY DEF InsertLines, LiveInv, FanInv, live
<1> DEFINE ids == [i \in 1 .. recv.n |-> lastId + i]
<1>2. CASE recv' = Idle /\ UNCHANGED lastId BY <1>1, <1>2, LiveFrame DEF Idle
<1>3. CASE /\ recv' = [at |-> "fan", todo |-> ids, chs |-> None, prune |-> FALSE]
           /\ lastId' = lastId + recv.n
  <2>1. ids \in Seq(Nat) /\ Len(ids) = recv.n /\ \A i \in 1 .. recv.n : ids[i] = lastId + i
    BY <1>1
  <2> HIDE DEF ids
  <2>2. ~Copying /\ ~Copying' BY <1>1, <1>3 DEF Copying
  <2>3. Fanned = lastId /\ Fanned' = lastId BY <1>1, <1>3, <2>1 DEF Fanned
  <2>4. FanInv' BY <1>1, <1>3, <2>1, <2>3 DEF FanInv
  <2>5. SubsInv' BY <1>1, <2>2 DEF LiveInv, SubsInv
  <2>6. PaceInv' BY <1>1, <2>2, <2>3 DEF LiveInv, PaceInv
  <2>7. QED BY <1>1, <2>4, <2>5, <2>6 DEF LiveInv
<1>4. QED BY <1>2, <1>3 DEF InsertLines

\* The copy of the subscribers is of the viewers that are live.
LEMMA CopyKeeps ==
  ASSUME LiveInv, FanoutCopies
  PROVE  LiveInv'
<1>1. /\ recv.at = "fan" /\ recv.todo # <<>> /\ recv.chs = None
      /\ {"at", "todo", "chs", "prune"} \subseteq DOMAIN recv
      /\ recv' = [recv EXCEPT !.chs = subs]
      /\ UNCHANGED <<lastId, subs, view, panicked>>
  BY DEF FanoutCopies, LiveInv, FanInv, live, logs
<1>2. /\ recv'.at = "fan" /\ recv'.todo = recv.todo /\ recv'.chs = subs
      /\ {"at", "todo", "chs", "prune"} \subseteq DOMAIN recv'
  BY <1>1
<1>3. Fanned' = Fanned /\ ~Copying /\ (Copying' => recv'.chs = subs)
  BY <1>1, <1>2 DEF Fanned, Copying
<1>4. FanInv' BY <1>1, <1>2, <1>3 DEF LiveInv, FanInv
<1>5. SubsInv' BY <1>1, <1>2, <1>3 DEF LiveInv, SubsInv
<1>6. PaceInv' BY <1>1, <1>2, <1>3 DEF LiveInv, PaceInv, SubsInv
<1>7. QED BY <1>1, <1>4, <1>5, <1>6 DEF LiveInv

\* A line is put into the channel of every subscriber of the copy, or marks it slow.
LEMMA SendKeeps ==
  ASSUME LiveInv, FanoutSends
  PROVE  LiveInv'
<1> DEFINE e == Head(recv.todo)
<1>1. /\ recv.at = "fan" /\ recv.todo # <<>> /\ recv.chs # None /\ Copying
      /\ {"at", "todo", "chs", "prune"} \subseteq DOMAIN recv /\ recv.todo \in Seq(Nat)
      /\ UNCHANGED <<lastId, subs>> /\ lastId \in Nat
  BY DEF FanoutSends, LiveInv, FanInv, Copying
<1>2. /\ recv'.at = "fan" /\ recv'.todo = Tail(recv.todo) /\ recv'.chs = None
      /\ {"at", "todo", "chs", "prune"} \subseteq DOMAIN recv'
  BY <1>1 DEF FanoutSends
<1>3. /\ Tail(recv.todo) \in Seq(Nat) /\ e \in Nat /\ e = recv.todo[1]
      /\ Len(Tail(recv.todo)) = Len(recv.todo) - 1 /\ Len(recv.todo) \in Nat /\ Len(recv.todo) > 0
      /\ \A i \in 1 .. Len(Tail(recv.todo)) : Tail(recv.todo)[i] = recv.todo[i + 1]
  BY <1>1
<1>4. Fanned \in Nat /\ Fanned' = Fanned + 1 /\ ~Copying'
  BY <1>1, <1>2, <1>3, FannedIsNat DEF Fanned, Copying, LiveInv
<1>5. \A i \in 1 .. Len(recv.todo) : recv.todo[i] = Fanned + i BY <1>1 DEF LiveInv, FanInv
<1>6. e = Fanned + 1 BY <1>3, <1>5
<1>7. FanInv'
  <2>1. ASSUME NEW i \in 1 .. Len(Tail(recv.todo)) PROVE Tail(recv.todo)[i] = Fanned + 1 + i
    <3>1. i + 1 \in 1 .. Len(recv.todo) /\ Tail(recv.todo)[i] = recv.todo[i + 1] BY <1>3
    <3>2. QED BY <1>4, <1>5, <3>1
  <2>2. Len(Tail(recv.todo)) <= lastId BY <1>1, <1>3 DEF LiveInv, FanInv
  <2>3. QED BY <1>1, <1>2, <1>3, <1>4, <2>1, <2>2 DEF FanInv
<1>8. recv.chs \subseteq Viewers BY <1>1 DEF LiveInv, SubsInv
<1>9. ~panicked'
  <2>1. \A v \in recv.chs : ~view[v].closed BY <1>8 DEF LiveInv, SubsInv
  <2>2. panicked' = (panicked \/ \E v \in recv.chs : view[v].closed) BY DEF FanoutSends
  <2>3. ~panicked BY DEF LiveInv
  <2>4. QED BY <2>1, <2>2, <2>3, Zenon
<1>10. view' = [v \in Viewers |->
          IF v \notin recv.chs \/ view[v].at = "left" THEN view[v]
          ELSE IF Len(view[v].ch) < ViewBuf THEN [view[v] EXCEPT !.ch = Append(@, e)]
          ELSE [view[v] EXCEPT !.slow = TRUE]]
  BY DEF FanoutSends
<1> HIDE DEF e
<1>11. ASSUME NEW v \in Viewers
       PROVE  /\ {"at", "ch", "closed", "shown", "slow"} \subseteq DOMAIN view'[v]
              /\ view'[v].closed = FALSE /\ view'[v].at = view[v].at
              /\ view'[v].at \in {"new", "tailed"} => view'[v].ch = <<>>
              /\ view'[v].at = "live" => Keeps(view'[v], Fanned', FALSE)
  <2> DEFINE r == view[v]
  <2>1. /\ {"at", "ch", "closed", "shown", "slow"} \subseteq DOMAIN r /\ r.closed = FALSE
        /\ r.at \in {"new", "tailed"} => r.ch = <<>>
        /\ v \in recv.chs => r.at \in {"live", "left"}
        /\ r.at = "live" => Keeps(r, Fanned, v \notin recv.chs)
    BY <1>1 DEF LiveInv, SubsInv, PaceInv
  <2>2. CASE v \notin recv.chs \/ r.at = "left"
    <3>1. view'[v] = r BY <1>10, <2>2
    <3>2. r.at = "live" => Keeps(r, Fanned', FALSE)
      BY <1>4, <2>1, <2>2 DEF Keeps
    <3>3. QED BY <2>1, <3>1, <3>2, Zenon
  <2>3. CASE v \in recv.chs /\ r.at # "left" /\ Len(r.ch) < ViewBuf
    <3>1. view'[v] = [r EXCEPT !.ch = Append(r.ch, e)] BY <1>10, <2>3
    <3>2. /\ view'[v].ch = Append(r.ch, e) /\ view'[v].shown = r.shown /\ view'[v].at = "live"
          /\ view'[v].slow = r.slow /\ view'[v].closed = FALSE /\ r.at = "live"
          /\ {"at", "ch", "closed", "shown", "slow"} \subseteq DOMAIN view'[v]
      BY <2>1, <2>3, <3>1, Zenon
    <3>3. r.ch \in Seq(Nat) /\ r.shown \in Nat BY <2>1, <3>2 DEF Keeps
    <3>4. /\ Append(r.ch, e) \in Seq(Nat) /\ Len(Append(r.ch, e)) = Len(r.ch) + 1
          /\ \A i \in 1 .. Len(r.ch) : Append(r.ch, e)[i] = r.ch[i]
          /\ Append(r.ch, e)[Len(r.ch) + 1] = e /\ Len(r.ch) \in Nat
      BY <1>3, <3>3
    <3>5. ~r.slow => /\ r.shown + Len(r.ch) = Fanned
                     /\ \A i \in 1 .. Len(r.ch) : r.ch[i] = r.shown + i
      BY <2>1, <2>3, <3>2 DEF Keeps
    <3>6. ~r.slow => /\ r.shown + Len(Append(r.ch, e)) = Fanned'
                     /\ \A i \in 1 .. Len(Append(r.ch, e)) : Append(r.ch, e)[i] = r.shown + i
      BY <1>4, <1>6, <3>3, <3>4, <3>5
    <3>7. Keeps(view'[v], Fanned', FALSE) BY <3>2, <3>3, <3>4, <3>6 DEF Keeps
    <3>8. QED BY <3>2, <3>7, Zenon
  <2>4. CASE v \in recv.chs /\ r.at # "left" /\ ~(Len(r.ch) < ViewBuf)
    <3>1. view'[v] = [r EXCEPT !.slow = TRUE] BY <1>10, <2>4
    <3>2. /\ view'[v].ch = r.ch /\ view'[v].shown = r.shown /\ view'[v].at = "live"
          /\ view'[v].slow = TRUE /\ view'[v].closed = FALSE /\ r.at = "live"
          /\ {"at", "ch", "closed", "shown", "slow"} \subseteq DOMAIN view'[v]
      BY <2>1, <2>4, <3>1
    <3>3. QED BY <2>1, <3>2 DEF Keeps
  <2>5. QED BY <2>2, <2>3, <2>4, Zenon
<1>12. SubsInv' BY <1>1, <1>4, <1>10, <1>11 DEF LiveInv, SubsInv
<1>13. PaceInv' BY <1>4, <1>11, Zenon DEF PaceInv
<1>14. QED BY <1>7, <1>9, <1>12, <1>13 DEF LiveInv

\* Every step keeps the live view.
LEMMA LiveStep ==
  ASSUME LiveInv, [Next]_vars
  PROVE  LiveInv'
<1>1. CASE InsertLines BY <1>1, InsertKeeps
<1>2. CASE FanoutCopies BY <1>2, CopyKeeps
<1>3. CASE FanoutSends BY <1>3, SendKeeps
<1>4. CASE ApplyEnds
  <2>1. /\ recv.at = "fan" /\ recv.todo = <<>> /\ recv' = Idle
        /\ UNCHANGED <<lastId, subs, view, panicked>> /\ lastId \in Nat
    BY <1>4 DEF ApplyEnds, live, LiveInv, FanInv
  <2>2. Fanned' = Fanned /\ ~Copying /\ ~Copying'
    BY <2>1 DEF Fanned, Copying, Idle, LiveInv, SubsInv
  <2>3. FanInv' BY <2>1 DEF FanInv, Idle
  <2>4. SubsInv' BY <2>1, <2>2 DEF LiveInv, SubsInv
  <2>5. PaceInv' BY <2>1, <2>2 DEF LiveInv, PaceInv
  <2>6. QED BY <2>1, <2>3, <2>4, <2>5, Zenon DEF LiveInv
<1>5. CASE Restart
  <2>1. /\ recv' = Idle /\ subs' = {} /\ UNCHANGED <<lastId, panicked>>
        /\ view' = [v \in Viewers |-> IF view[v].at = "new" THEN Viewer ELSE Gone]
    BY <1>5 DEF Restart
  <2>2. \A v \in Viewers :
          /\ {"at", "ch", "closed", "shown", "slow"} \subseteq DOMAIN view'[v]
          /\ view'[v].closed = FALSE /\ view'[v].at # "live" /\ view'[v].ch = <<>>
    BY <2>1 DEF Viewer, Gone
  <2>3. ~Copying' BY <2>1, Zenon DEF Copying, Idle
  <2>4. FanInv' BY <2>1 DEF LiveInv, FanInv, Idle
  <2>5. SubsInv' BY <2>1, <2>2, <2>3 DEF SubsInv
  <2>6. PaceInv' BY <2>2 DEF PaceInv
  <2>7. QED BY <2>1, <2>4, <2>5, <2>6, Zenon DEF LiveInv
<1>6. CASE Message
  <2>0. PICK m : Receive(m) BY <1>6, Zenon DEF Message
  <2>1. UNCHANGED <<lastId, subs, view, panicked>> /\ recv.at = "idle"
    BY <2>0, Received DEF Idle
  <2>2. /\ recv'.at # "fan" /\ "at" \in DOMAIN recv'
        /\ recv'.at = "lines" => recv'.n \in Nat
    <3>1. CASE \E rx \in Rx : Receive([at |-> "heartbeat", rx |-> rx]) BY <3>1 DEF Receive
    <3>2. CASE \E set \in SUBSET Containers : Receive([at |-> "report", set |-> set])
      BY <3>2 DEF Receive
    <3>3. CASE \E n \in 1 .. MaxBatch : Receive([at |-> "lines", n |-> n])
      <4>1. PICK n \in 1 .. MaxBatch : recv' = [at |-> "lines", n |-> n] BY <3>3 DEF Receive
      <4>2. QED BY <4>1
    <3>4. QED BY <1>6, <3>1, <3>2, <3>3, Zenon DEF Message
  <2>3. QED BY <2>1, <2>2, LiveFrame, Zenon
<1>7. CASE ApplyHeartbeat \/ ApplyReport \/ persistBatch
  <2>1. UNCHANGED <<lastId, subs, view, panicked>> /\ recv.at # "fan" /\ "at" \in DOMAIN recv
    BY <1>7 DEF ApplyHeartbeat, ApplyReport, persistBatch, logs, live, LiveInv, FanInv
  <2>2. recv'.at \in {"idle", "persist"} /\ "at" \in DOMAIN recv'
    BY <1>7, <2>1 DEF ApplyHeartbeat, ApplyReport, persistBatch, Idle
  <2>3. QED BY <2>1, <2>2, LiveFrame
<1>8. CASE \/ Connect \/ Disconnect \/ CleanupNodes \/ flushBucket \/ RunPruneLoop \/ pruneOne
           \/ RunRetentionLoop \/ Tick \/ UNCHANGED vars
  <2>1. UNCHANGED <<recv, lastId, subs, view, panicked>>
    BY <1>8, Zenon DEF Connect, Disconnect, CleanupNodes, flushBucket, RunPruneLoop, pruneOne,
                RunRetentionLoop, Tick, vars, logs, live
  <2>2. QED BY <2>1, LiveFrame
<1>9. CASE \E v \in Viewers : TailLines(v) \/ Subscribe(v) \/ Show(v) \/ Leave(v)
  BY <1>9, ViewerMoves
<1>10. QED BY <1>1, <1>2, <1>3, <1>4, <1>5, <1>6, <1>7, <1>8, <1>9 DEF Next, Ingest

\* However fanout, viewers that come and go and restarts interleave, a live viewer is
\* shown every line fanned out after it subscribed, in order, as long as none had to be
\* dropped for it (LiveIsGapless).
THEOREM LiveGapless == Spec => []LiveIsGapless
BY LiveInit, LiveStep, LiveShown, PTL DEF Spec

\* fanout never sends on a closed channel (NoPanic): cancel leaves it open, and the
\* copy of the channels may be older than the cancel.
THEOREM NeverPanics == Spec => []NoPanic
<1>1. LiveInv => NoPanic BY DEF LiveInv, NoPanic
<1>2. QED BY <1>1, LiveInit, LiveStep, PTL DEF Spec
=============================================================================
