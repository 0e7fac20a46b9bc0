------------------------- MODULE AgentStreamProofs --------------------------
(***************************************************************************)
(* The log streams of the agent: the invariant that ties the lines a tail  *)
(* may still read, the lines in its buffer and the lines already sent, the *)
(* two kinds of step that keep it, and that the steps of a tail are of one *)
(* of them. AgentMonitorProofs has the other steps of the monitor.         *)
(***************************************************************************)
EXTENDS AgentMonitor, TLAPS

-----------------------------------------------------------------------------
(* The streams.                                                            *)

Fields == {"c", "session", "cancelled", "at", "seen", "upTo", "buf"}

\* The tail of stream n has the log open, or is about to open it again.
Active(n) == st[n].at \in {"open", "read"}

\* The streams flush may still ship.
Live == (Range(streams) \cup Range(batch)) \ {0}

\* The lines stream n holds, those its tail may still read, and both.
Held(n) == {st[n].buf[i] : i \in DOMAIN st[n].buf}

Ahead(n) ==
  {i \in DOMAIN logged[st[n].c] :
     Active(n) /\ i > st[n].seen /\ (st[n].cancelled => i <= st[n].upTo)}

ToCome(n) == {logged[st[n].c][i] : i \in Ahead(n)}

Lines(n) == Held(n) \cup ToCome(n)

Typed ==
  /\ st \in Seq(Range(st))
  /\ \A n \in DOMAIN st :
       /\ Fields \subseteq DOMAIN st[n] /\ st[n].c \in Containers
       /\ st[n].seen \in Nat /\ st[n].upTo \in Nat /\ st[n].buf \in Seq(Nat)
  /\ DOMAIN streams = Containers /\ DOMAIN logged = Containers /\ DOMAIN sent = Containers
  /\ \A c \in Containers : logged[c] \in Seq(Nat) /\ sent[c] \in Nat /\ streams[c] \in Nat
  /\ listed \subseteq Containers /\ running \subseteq Containers /\ batch \in Seq(Nat)
  /\ now \in Nat

\* The lines of a container are in the order of their seconds, up to the present one.
ClockInv ==
  \A c \in Containers :
    /\ \A i, j \in DOMAIN logged[c] : i <= j => logged[c][i] <= logged[c][j]
    /\ \A i \in DOMAIN logged[c] : logged[c][i] <= now
    /\ sent[c] <= now

\* The map holds the streams that were not cancelled, and none that is disabled.
MapInv ==
  /\ \A c \in Containers : streams[c] # 0 =>
       streams[c] \in DOMAIN st /\ st[streams[c]].c = c /\ c \notin disabled
  /\ \A n \in DOMAIN st : ~st[n].cancelled => streams[st[n].c] = n

\* The lines of one stream: those it holds are in order and before those to come.
InOrder(n) ==
  /\ \A i, j \in DOMAIN st[n].buf : i < j => st[n].buf[i] <= st[n].buf[j]
  /\ \A a \in Held(n) : a <= now /\ \A b \in ToCome(n) : a <= b
  /\ st[n].upTo <= Len(logged[st[n].c])

LineInv == \A n \in DOMAIN st : InOrder(n)

\* An earlier stream m and a later one n of the same container.
Follows(m, n) ==
  /\ st[m].cancelled
  /\ \A a \in Lines(m), b \in Lines(n) : a <= b

OrderInv ==
  \A m, n \in DOMAIN st : m < n /\ st[m].c = st[n].c => Follows(m, n)

\* What was sent, and what flush is about to send.
SentInv ==
  /\ \A n \in Live : \A t \in Lines(n) : sent[st[n].c] <= t
  /\ Range(batch) \subseteq DOMAIN st
  /\ \A m \in Range(batch), n \in Live : st[m].c = st[n].c => m <= n

LinesInv == Typed /\ ClockInv /\ MapInv /\ LineInv /\ OrderInv /\ SentInv

\* The lines of a stream are of seconds up to the present one.
LEMMA LinesTyped ==
  ASSUME Typed, ClockInv, LineInv, NEW n \in DOMAIN st
  PROVE  /\ \A t \in Lines(n) : t \in Nat /\ t <= now
         /\ \A a \in Held(n), b \in ToCome(n) : a <= b
<1>1. st[n].c \in Containers /\ st[n].buf \in Seq(Nat) /\ logged[st[n].c] \in Seq(Nat)
  BY DEF Typed
<1>2. \A a \in Held(n) : a \in Nat
  BY <1>1 DEF Held
<1>3. \A a \in Held(n) : a <= now /\ \A b \in ToCome(n) : a <= b
  BY DEF LineInv, InOrder
<1>4. \A b \in ToCome(n) : b \in Nat /\ b <= now
  <2>1. \A i \in DOMAIN logged[st[n].c] : logged[st[n].c][i] \in Nat /\ logged[st[n].c][i] <= now
    BY <1>1 DEF ClockInv
  <2> QED
    BY <2>1 DEF ToCome, Ahead
<1> QED
  BY <1>2, <1>3, <1>4 DEF Lines

\* The streams flush may ship exist.
LEMMA LiveExists ==
  ASSUME Typed, MapInv, Range(batch) \subseteq DOMAIN st
  PROVE  Live \subseteq DOMAIN st
<1> SUFFICES ASSUME NEW n \in Live PROVE n \in DOMAIN st
  OBVIOUS
<1>1. CASE n \in Range(batch)
  BY <1>1
<1>2. CASE n \in Range(streams) /\ n # 0
  <2>1. PICK c \in Containers : streams[c] = n
    BY <1>2 DEF Range, Typed
  <2> QED
    BY <1>2, <2>1 DEF MapInv
<1> QED
  BY <1>1, <1>2 DEF Live

\* A step after which the streams have no lines but those they had and, unless they
\* are cancelled, such as were logged in the present second.
Steady ==
  /\ DOMAIN st \subseteq DOMAIN st'
  /\ \A n \in DOMAIN st :
       /\ st'[n].c = st[n].c /\ (st[n].cancelled => st'[n].cancelled)
       /\ \A t \in Lines(n)' : t \in Lines(n) \/ (~st[n].cancelled /\ t = now)
  /\ \A n \in DOMAIN st' \ DOMAIN st :
       /\ Lines(n)' = {}
       /\ \A m \in DOMAIN st' : m < n /\ st'[m].c = st'[n].c => st'[m].cancelled
       /\ \A m \in DOMAIN st : m < n

\* The streams of a container stay in order.
LEMMA SteadyOrder ==
  ASSUME Typed, Typed', ClockInv, LineInv, OrderInv, Steady
  PROVE  OrderInv'
<1> SUFFICES ASSUME NEW m \in DOMAIN st', NEW n \in DOMAIN st', m < n, st'[m].c = st'[n].c
             PROVE  Follows(m, n)'
  BY DEF OrderInv
<1>1. CASE n \notin DOMAIN st
  <2>1. Lines(n)' = {} /\ st'[m].cancelled
    BY <1>1 DEF Steady
  <2> QED
    BY <2>1 DEF Follows
<1>2. CASE n \in DOMAIN st /\ m \notin DOMAIN st
  <2>1. n < m
    BY <1>2 DEF Steady
  <2>2. m \in Nat /\ n \in Nat
    BY DEF Typed
  <2> QED
    BY <2>1, <2>2
<1>3. CASE n \in DOMAIN st /\ m \in DOMAIN st
  <2>1. st[m].c = st[n].c
    BY <1>3 DEF Steady
  <2>2. st[m].cancelled /\ \A a \in Lines(m), b \in Lines(n) : a <= b
    BY <1>3, <2>1 DEF OrderInv, Follows
  <2>3. st'[m].cancelled /\ \A t \in Lines(m)' : t \in Lines(m)
    BY <1>3, <2>2 DEF Steady
  <2>4. \A t \in Lines(n)' : t \in Lines(n) \/ t = now
    BY <1>3 DEF Steady
  <2>5. \A t \in Lines(m) : t <= now
    BY <1>3, LinesTyped
  <2> QED
    BY <2>2, <2>3, <2>4, <2>5 DEF Follows
<1> QED
  BY <1>1, <1>2, <1>3

\* What flush may still ship stays behind what was sent.
LEMMA SteadySent ==
  ASSUME Typed, Typed', ClockInv, MapInv, SentInv, Steady, sent' = sent, batch' = batch,
         \A n \in Live' : n \in Live \/ n \in DOMAIN st' \ DOMAIN st
  PROVE  SentInv'
<1>1. Range(batch)' = Range(batch) /\ Range(batch) \subseteq DOMAIN st /\ Live \subseteq DOMAIN st
  BY LiveExists DEF Range, SentInv
<1>2. ASSUME NEW n \in Live', NEW t \in Lines(n)' PROVE sent'[st'[n].c] <= t
  <2>1. n \in Live /\ n \in DOMAIN st /\ st'[n].c = st[n].c /\ st[n].c \in Containers
    BY <1>1, <1>2 DEF Steady, Typed
  <2>2. t \in Lines(n) \/ t = now
    BY <1>2, <2>1 DEF Steady
  <2>3. sent[st[n].c] <= now /\ \A u \in Lines(n) : sent[st[n].c] <= u
    BY <2>1 DEF ClockInv, SentInv
  <2> QED
    BY <2>1, <2>2, <2>3
<1>3. ASSUME NEW m \in Range(batch)', NEW n \in Live', st'[m].c = st'[n].c PROVE m <= n
  <2>1. m \in Range(batch) /\ m \in DOMAIN st /\ st'[m].c = st[m].c
    BY <1>1, <1>3 DEF Steady
  <2>2. CASE n \in Live
    <3>1. st'[n].c = st[n].c
      BY <1>1, <2>2 DEF Steady
    <3> QED
      BY <1>3, <2>1, <2>2, <3>1, Zenon DEF SentInv
  <2>3. CASE n \in DOMAIN st' \ DOMAIN st
    <3>1. m < n
      BY <2>1, <2>3 DEF Steady
    <3>2. m \in Nat /\ n \in Nat
      BY <2>1, <2>3 DEF Typed
    <3> QED
      BY <3>1, <3>2
  <2> QED
    BY <1>3, <2>2, <2>3
<1>4. Range(batch)' \subseteq DOMAIN st'
  BY <1>1 DEF Steady
<1> QED
  BY <1>2, <1>3, <1>4 DEF SentInv

\* Sync, SetDisabled and stopAll: the streams of ns are cancelled, and containers
\* without a stream may get a new one.
Grown(ns) ==
  /\ st' \in Seq(Range(st')) /\ Len(st') >= Len(st)
  /\ \A n \in DOMAIN st :
       /\ Fields \subseteq DOMAIN st'[n]
       /\ st'[n].c = st[n].c /\ st'[n].at = st[n].at
       /\ st'[n].seen = st[n].seen /\ st'[n].buf = st[n].buf
       /\ st'[n].cancelled <=> (st[n].cancelled \/ n \in ns)
       /\ st'[n].upTo = IF n \in ns /\ ~st[n].cancelled THEN Len(logged[st[n].c]) ELSE st[n].upTo
  /\ \A n \in DOMAIN st' \ DOMAIN st :
       /\ Fields \subseteq DOMAIN st'[n]
       /\ st'[n].c \in Containers /\ st'[n].at = "inspect" /\ st'[n].seen = 0 /\ st'[n].upTo = 0
       /\ st'[n].buf = <<>> /\ ~st'[n].cancelled
       /\ streams[st'[n].c] = 0 /\ streams'[st'[n].c] = n
  /\ DOMAIN streams' = Containers
  /\ \A c \in Containers :
       \/ streams'[c] = 0 /\ (streams[c] # 0 => streams[c] \in ns)
       \/ streams'[c] = streams[c] /\ c \notin disabled' \ disabled
       \/ streams'[c] \in DOMAIN st' \ DOMAIN st /\ st'[streams'[c]].c = c /\ c \notin disabled'
  /\ UNCHANGED <<logged, sent, batch, running, now>> /\ listed' \in {listed, {}}

\* Streams that are cancelled keep their lines, and new ones start empty.
LEMMA GrownLines ==
  ASSUME Typed, ClockInv, MapInv, LineInv, OrderInv, SentInv, NEW ns, Grown(ns)
  PROVE  LinesInv'
<1>1. Typed'
  <2>1. /\ st' \in Seq(Range(st')) /\ DOMAIN streams' = Containers
        /\ UNCHANGED <<logged, sent, batch, running, now>> /\ listed' \subseteq Containers
    BY DEF Grown, Typed
  <2>2. Len(st) \in Nat /\ Len(st') \in Nat /\ DOMAIN st = 1 .. Len(st) /\ DOMAIN st' = 1 .. Len(st')
    BY <2>1 DEF Typed
  <2>3. ASSUME NEW n \in DOMAIN st' PROVE
         /\ Fields \subseteq DOMAIN st'[n] /\ st'[n].c \in Containers
         /\ st'[n].seen \in Nat /\ st'[n].upTo \in Nat /\ st'[n].buf \in Seq(Nat)
    <3>1. CASE n \in DOMAIN st
      <4>1. /\ st[n].c \in Containers /\ st[n].seen \in Nat /\ st[n].upTo \in Nat /\ st[n].buf \in Seq(Nat)
            /\ Len(logged[st[n].c]) \in Nat
        BY <3>1 DEF Typed
      <4>2. /\ Fields \subseteq DOMAIN st'[n]
            /\ st'[n].c = st[n].c /\ st'[n].seen = st[n].seen /\ st'[n].buf = st[n].buf
            /\ st'[n].upTo = IF n \in ns /\ ~st[n].cancelled THEN Len(logged[st[n].c]) ELSE st[n].upTo
        BY <3>1 DEF Grown
      <4> QED
        BY <4>1, <4>2
    <3>2. CASE n \notin DOMAIN st
      <4>1. /\ Fields \subseteq DOMAIN st'[n] /\ st'[n].c \in Containers
            /\ st'[n].seen = 0 /\ st'[n].upTo = 0 /\ st'[n].buf = <<>>
        BY <2>3, <3>2 DEF Grown
      <4> QED
        BY <4>1
    <3> QED
      BY <3>1, <3>2
  <2>4. ASSUME NEW c \in Containers PROVE streams'[c] \in Nat
    <3>1. \/ streams'[c] = 0 \/ streams'[c] = streams[c] \/ streams'[c] \in DOMAIN st'
      BY DEF Grown
    <3>2. streams[c] \in Nat
      BY DEF Typed
    <3> QED
      BY <2>2, <3>1, <3>2
  <2> QED
    BY <2>1, <2>3, <2>4 DEF Typed
<1>2. MapInv'
  <2>1. st' \in Seq(Range(st')) /\ Len(st') >= Len(st)
    BY DEF Grown
  <2>2. Len(st) \in Nat /\ Len(st') \in Nat /\ DOMAIN st = 1 .. Len(st) /\ DOMAIN st' = 1 .. Len(st')
    BY <2>1 DEF Typed
  <2>3. DOMAIN st \subseteq DOMAIN st' /\ 0 \notin DOMAIN st'
    BY <2>1, <2>2
  <2>4. ASSUME NEW c \in Containers, streams'[c] # 0
        PROVE  streams'[c] \in DOMAIN st' /\ st'[streams'[c]].c = c /\ c \notin disabled'
    <3>1. CASE streams'[c] = streams[c] /\ c \notin disabled' \ disabled
      <4>1. streams[c] \in DOMAIN st /\ st[streams[c]].c = c /\ c \notin disabled
        BY <2>4, <3>1 DEF MapInv
      <4>2. st'[streams[c]].c = st[streams[c]].c
        BY <4>1 DEF Grown
      <4> QED
        BY <2>3, <3>1, <4>1, <4>2
    <3>2. CASE streams'[c] \in DOMAIN st' \ DOMAIN st /\ st'[streams'[c]].c = c /\ c \notin disabled'
      BY <3>2
    <3> QED
      BY <2>4, <3>1, <3>2 DEF Grown
  <2>5. ASSUME NEW n \in DOMAIN st', ~st'[n].cancelled
        PROVE  streams'[st'[n].c] = n
    <3>1. CASE n \in DOMAIN st
      <4>1. ~st[n].cancelled /\ n \notin ns /\ st'[n].c = st[n].c
        BY <2>5, <3>1 DEF Grown
      <4> DEFINE c == st[n].c
      <4>2. c \in Containers /\ streams[c] = n /\ n # 0
        BY <2>2, <3>1, <4>1 DEF MapInv, Typed
      <4>3. ~(streams'[c] = 0 /\ (streams[c] # 0 => streams[c] \in ns))
        BY <4>1, <4>2
      <4>4. ~(streams'[c] \in DOMAIN st' \ DOMAIN st /\ st'[streams'[c]].c = c)
        BY <4>2 DEF Grown
      <4>5. streams'[c] = streams[c]
        BY <4>2, <4>3, <4>4 DEF Grown
      <4> QED
        BY <4>1, <4>2, <4>5
    <3>2. CASE n \notin DOMAIN st
      BY <2>5, <3>2 DEF Grown
    <3> QED
      BY <3>1, <3>2
  <2> QED
    BY <2>4, <2>5 DEF MapInv
<1>3. /\ DOMAIN st \subseteq DOMAIN st' /\ 0 \notin DOMAIN st'
      /\ \A m \in DOMAIN st, n \in DOMAIN st' \ DOMAIN st : m < n
  <2>1. st' \in Seq(Range(st')) /\ Len(st') >= Len(st)
    BY DEF Grown
  <2>2. Len(st) \in Nat /\ Len(st') \in Nat /\ DOMAIN st = 1 .. Len(st) /\ DOMAIN st' = 1 .. Len(st')
    BY <2>1 DEF Typed
  <2> QED
    BY <2>1, <2>2
<1>4. ASSUME NEW n \in DOMAIN st
      PROVE  /\ st'[n].c = st[n].c /\ (st[n].cancelled => st'[n].cancelled)
             /\ Held(n)' = Held(n) /\ ToCome(n)' \subseteq ToCome(n)
  <2>1. /\ st'[n].c = st[n].c /\ st'[n].at = st[n].at
        /\ st'[n].seen = st[n].seen /\ st'[n].buf = st[n].buf
        /\ st'[n].cancelled <=> (st[n].cancelled \/ n \in ns)
        /\ st'[n].upTo = IF n \in ns /\ ~st[n].cancelled THEN Len(logged[st[n].c]) ELSE st[n].upTo
        /\ logged' = logged
    BY DEF Grown
  <2>2. Active(n)' <=> Active(n)
    BY <2>1 DEF Active
  <2>3. Ahead(n)' \subseteq Ahead(n)
    BY <2>1, <2>2 DEF Ahead
  <2> QED
    BY <2>1, <2>3 DEF Held, ToCome
<1>5. ASSUME NEW n \in DOMAIN st' \ DOMAIN st
      PROVE  /\ Held(n)' = {} /\ ToCome(n)' = {} /\ st'[n].buf = <<>>
             /\ st'[n].upTo = 0 /\ st'[n].c \in Containers
  <2>1. /\ st'[n].at = "inspect" /\ st'[n].buf = <<>> /\ st'[n].upTo = 0 /\ st'[n].c \in Containers
    BY DEF Grown
  <2>2. ~Active(n)' /\ DOMAIN st'[n].buf = {}
    BY <2>1 DEF Active
  <2> QED
    BY <2>1, <2>2 DEF Held, ToCome, Ahead
<1>6. Steady
  <2>1. ASSUME NEW n \in DOMAIN st' \ DOMAIN st, NEW m \in DOMAIN st', m < n, st'[m].c = st'[n].c
        PROVE  st'[m].cancelled
    <3>1. streams[st'[n].c] = 0 /\ streams'[st'[n].c] = n
      BY <2>1 DEF Grown
    <3>2. CASE m \in DOMAIN st
      <4>1. ~st[m].cancelled => streams[st[m].c] = m
        BY <3>2 DEF MapInv
      <4> QED
        BY <1>3, <1>4, <2>1, <3>1, <3>2, <4>1
    <3>3. CASE m \notin DOMAIN st
      <4>1. m = n
        BY <2>1, <3>1, <3>3 DEF Grown
      <4>2. n \in Nat
        BY <1>1, <2>1 DEF Typed
      <4> QED
        BY <2>1, <4>1, <4>2
    <3> QED
      BY <3>2, <3>3
  <2> QED
    BY <1>3, <1>4, <1>5, <2>1 DEF Steady, Lines
<1>7. LineInv'
  <2> SUFFICES ASSUME NEW n \in DOMAIN st' PROVE InOrder(n)'
    BY DEF LineInv
  <2>1. logged' = logged /\ now' = now
    BY DEF Grown
  <2>2. CASE n \in DOMAIN st
    <3>1. /\ \A i, j \in DOMAIN st[n].buf : i < j => st[n].buf[i] <= st[n].buf[j]
          /\ \A a \in Held(n) : a <= now /\ \A b \in ToCome(n) : a <= b
          /\ st[n].upTo <= Len(logged[st[n].c])
      BY <2>2 DEF LineInv, InOrder
    <3>2. /\ st'[n].c = st[n].c /\ st'[n].buf = st[n].buf
          /\ st'[n].upTo = IF n \in ns /\ ~st[n].cancelled THEN Len(logged[st[n].c]) ELSE st[n].upTo
      BY <2>2 DEF Grown
    <3>3. Len(logged[st[n].c]) \in Nat
      BY <2>2 DEF Typed
    <3>4. st'[n].upTo <= Len(logged[st[n].c])
      BY <3>1, <3>2, <3>3
    <3>5. Held(n)' = Held(n) /\ ToCome(n)' \subseteq ToCome(n)
      BY <1>4, <2>2
    <3> QED
      BY <2>1, <3>1, <3>2, <3>4, <3>5 DEF InOrder
  <2>3. CASE n \notin DOMAIN st
    <3>1. Held(n)' = {} /\ st'[n].buf = <<>> /\ st'[n].upTo = 0 /\ st'[n].c \in Containers
      BY <1>5, <2>3
    <3>2. Len(logged'[st'[n].c]) \in Nat /\ DOMAIN st'[n].buf = {}
      BY <2>1, <3>1 DEF Typed
    <3> QED
      BY <3>1, <3>2 DEF InOrder
  <2> QED
    BY <2>2, <2>3
<1>8. OrderInv'
  BY <1>1, <1>6, SteadyOrder
<1>9. ASSUME NEW n \in Live' PROVE n \in Live \/ n \in DOMAIN st' \ DOMAIN st
  <2>1. Range(batch)' = Range(batch)
    BY DEF Range, Grown
  <2>2. CASE n \in Range(batch)
    BY <1>9, <2>2 DEF Live
  <2>3. CASE n \in Range(streams') /\ n # 0
    <3>1. PICK c \in Containers : streams'[c] = n
      BY <2>3 DEF Range, Grown
    <3>2. n = streams[c] \/ n \in DOMAIN st' \ DOMAIN st
      BY <2>3, <3>1 DEF Grown
    <3>3. n = streams[c] => n \in Range(streams)
      BY DEF Range, Typed
    <3> QED
      BY <2>3, <3>2, <3>3 DEF Live
  <2> QED
    BY <1>9, <2>1, <2>2, <2>3 DEF Live, Range
<1>10. SentInv'
  <2>1. sent' = sent /\ batch' = batch
    BY DEF Grown
  <2> QED
    BY <1>1, <1>6, <1>9, <2>1, SteadySent
<1>11. ClockInv'
  BY DEF ClockInv, Grown
<1> QED
  BY <1>1, <1>2, <1>7, <1>8, <1>10, <1>11 DEF LinesInv

\* A function on 1 .. k is a sequence of its values.
LEMMA FunIsSeq ==
  ASSUME NEW k \in Nat, NEW S, NEW f \in [1 .. k -> S]
  PROVE  f \in Seq(Range(f)) /\ Len(f) = k
<1>1. f \in [1 .. k -> Range(f)]
  BY DEF Range
<1> QED
  BY <1>1

\* A loop visits the elements of a finite set, and none of them twice.
LEMMA OrderView ==
  ASSUME NEW S, NEW order \in Orders(S)
  PROVE  /\ order \in Seq(S)
         /\ \A i, j \in DOMAIN order : order[i] = order[j] => i = j
<1>1. Cardinality(S) \in Nat /\ order \in [1 .. Cardinality(S) -> S] /\ IsInjective(order)
  BY DEF Orders, Bijection, Injection
<1> QED
  BY <1>1 DEF IsInjective

\* What cancelling the streams of ns does to each field.
LEMMA CancelView ==
  ASSUME Typed, NEW ns
  PROVE  /\ Cancel(ns) \in Seq(Range(Cancel(ns))) /\ Len(Cancel(ns)) = Len(st)
         /\ DOMAIN Cancel(ns) = DOMAIN st
         /\ \A n \in DOMAIN st :
              /\ Fields \subseteq DOMAIN Cancel(ns)[n]
              /\ Cancel(ns)[n].c = st[n].c /\ Cancel(ns)[n].at = st[n].at
              /\ Cancel(ns)[n].seen = st[n].seen /\ Cancel(ns)[n].buf = st[n].buf
              /\ Cancel(ns)[n].cancelled <=> (st[n].cancelled \/ n \in ns)
              /\ Cancel(ns)[n].upTo = IF n \in ns /\ ~st[n].cancelled THEN Len(logged[st[n].c]) ELSE st[n].upTo
<1>1. Len(st) \in Nat /\ DOMAIN st = 1 .. Len(st)
  BY DEF Typed
<1>2. DOMAIN Cancel(ns) = 1 .. Len(st) /\ Cancel(ns) \in [1 .. Len(st) -> Range(Cancel(ns))]
  BY <1>1, Zenon DEF Cancel, Range
<1>3. Cancel(ns) \in Seq(Range(Cancel(ns))) /\ Len(Cancel(ns)) = Len(st)
  BY <1>1, <1>2, FunIsSeq
<1>4. ASSUME NEW n \in DOMAIN st PROVE
              /\ Fields \subseteq DOMAIN Cancel(ns)[n]
              /\ Cancel(ns)[n].c = st[n].c /\ Cancel(ns)[n].at = st[n].at
              /\ Cancel(ns)[n].seen = st[n].seen /\ Cancel(ns)[n].buf = st[n].buf
              /\ Cancel(ns)[n].cancelled <=> (st[n].cancelled \/ n \in ns)
              /\ Cancel(ns)[n].upTo = IF n \in ns /\ ~st[n].cancelled THEN Len(logged[st[n].c]) ELSE st[n].upTo
  <2>1. Fields \subseteq DOMAIN st[n]
    BY DEF Typed
  <2>2. CASE n \in ns /\ ~st[n].cancelled
    <3>1. Cancel(ns)[n] = [st[n] EXCEPT !.cancelled = TRUE, !.upTo = Len(logged[st[n].c])]
      BY <2>2 DEF Cancel
    <3> QED
      BY <2>1, <2>2, <3>1 DEF Fields
  <2>3. CASE ~(n \in ns /\ ~st[n].cancelled)
    <3>1. Cancel(ns)[n] = st[n]
      BY <2>3 DEF Cancel
    <3> QED
      BY <2>1, <2>3, <3>1
  <2> QED
    BY <2>2, <2>3
<1> QED
  BY <1>1, <1>2, <1>3, <1>4

\* stopAll: every stream of the map is cancelled and the map emptied.
LEMMA stopAllGrows ==
  ASSUME LinesInv, stopAll
  PROVE  Grown(Range(streams))
<1>1. /\ st' = Cancel(Range(streams)) /\ streams' = [c \in Containers |-> 0]
      /\ UNCHANGED <<logged, sent, batch, running, listed, now>>
  BY DEF stopAll, collector, docker
<1>2. Typed /\ \A c \in Containers : streams[c] \in Range(streams)
  BY DEF LinesInv, Typed, Range
<1> DEFINE ns == Range(streams)
<1>3. /\ st' \in Seq(Range(st')) /\ Len(st') = Len(st) /\ DOMAIN st' = DOMAIN st
      /\ \A n \in DOMAIN st :
              /\ Fields \subseteq DOMAIN st'[n]
              /\ st'[n].c = st[n].c /\ st'[n].at = st[n].at
              /\ st'[n].seen = st[n].seen /\ st'[n].buf = st[n].buf
              /\ st'[n].cancelled <=> (st[n].cancelled \/ n \in ns)
              /\ st'[n].upTo = IF n \in ns /\ ~st[n].cancelled THEN Len(logged[st[n].c]) ELSE st[n].upTo
  BY <1>1, <1>2, CancelView
<1>4. Len(st) \in Nat
  BY <1>2 DEF Typed
<1> HIDE DEF ns
<1>5. Len(st') >= Len(st)
  BY <1>3, <1>4
<1>6. Grown(ns)
  BY <1>1, <1>2, <1>3, <1>5 DEF Grown, ns
<1> QED
  BY <1>6 DEF ns

\* SetDisabled: the stream of the container, if it has one, is cancelled.
LEMMA SetDisabledGrows ==
  ASSUME LinesInv, NEW d \in Containers, NEW off \in BOOLEAN, SetDisabled(d, off)
  PROVE  \E ns : Grown(ns)
<1>0. Typed /\ Len(st) \in Nat /\ DOMAIN streams = Containers
  BY DEF LinesInv, Typed
<1>1. UNCHANGED <<logged, sent, batch, running, listed, now>>
  BY DEF SetDisabled, collector, shipping
<1>2. disabled' = IF off THEN disabled \cup {d} ELSE disabled \ {d}
  BY DEF SetDisabled
<1>3. CASE off /\ streams[d] # 0
  <2> DEFINE ns == {streams[d]}
  <2>1. st' = Cancel(ns) /\ streams' = [streams EXCEPT ![d] = 0]
    BY <1>3 DEF SetDisabled
  <2>2. /\ st' \in Seq(Range(st')) /\ Len(st') = Len(st) /\ DOMAIN st' = DOMAIN st
        /\ \A n \in DOMAIN st :
              /\ Fields \subseteq DOMAIN st'[n]
              /\ st'[n].c = st[n].c /\ st'[n].at = st[n].at
              /\ st'[n].seen = st[n].seen /\ st'[n].buf = st[n].buf
              /\ st'[n].cancelled <=> (st[n].cancelled \/ n \in ns)
              /\ st'[n].upTo = IF n \in ns /\ ~st[n].cancelled THEN Len(logged[st[n].c]) ELSE st[n].upTo
    BY <1>0, <2>1, CancelView
  <2>3. /\ DOMAIN streams' = Containers
        /\ \A c \in Containers :
             \/ streams'[c] = 0 /\ streams[c] \in ns
             \/ streams'[c] = streams[c] /\ c \notin disabled' \ disabled
    BY <1>0, <1>2, <1>3, <2>1
  <2> HIDE DEF ns
  <2>4. Len(st') >= Len(st)
    BY <1>0, <2>2
  <2>5. Grown(ns)
    BY <1>1, <2>2, <2>3, <2>4 DEF Grown
  <2> QED
    BY <2>5
<1>4. CASE ~(off /\ streams[d] # 0)
  <2>1. UNCHANGED <<st, streams>>
    BY <1>4 DEF SetDisabled
  <2>2. /\ DOMAIN streams' = Containers
        /\ \A c \in Containers :
             \/ streams'[c] = 0 /\ streams[c] = 0
             \/ streams'[c] = streams[c] /\ c \notin disabled' \ disabled
    BY <1>0, <1>2, <1>4, <2>1
  <2>3. st \in Seq(Range(st)) /\ \A n \in DOMAIN st : Fields \subseteq DOMAIN st[n]
    BY <1>0 DEF Typed
  <2>4. Range(st)' = Range(st)
    BY <2>1 DEF Range
  <2>5. Len(st') >= Len(st)
    BY <1>0, <2>1
  <2>6. Grown({})
    BY <1>1, <2>1, <2>2, <2>3, <2>4, <2>5 DEF Grown
  <2> QED
    BY <2>6
<1> QED
  BY <1>3, <1>4

\* Two functions on 1 .. k and 1 .. l, one after the other.
LEMMA Joined ==
  ASSUME NEW s, NEW f, s \in Seq(Range(s)), f \in Seq(Range(f))
  PROVE  /\ s \o f \in Seq(Range(s \o f)) /\ Len(s \o f) = Len(s) + Len(f)
         /\ \A i \in 1 .. Len(s) : (s \o f)[i] = s[i]
         /\ \A i \in Len(s) + 1 .. Len(s) + Len(f) : (s \o f)[i] = f[i - Len(s)]
<1> DEFINE S == Range(s) \cup Range(f)
<1>1. s \in Seq(S) /\ f \in Seq(S)
  <2>1. s \in [1 .. Len(s) -> Range(s)] /\ Len(s) \in Nat /\ f \in [1 .. Len(f) -> Range(f)] /\ Len(f) \in Nat
    OBVIOUS
  <2>2. s \in [1 .. Len(s) -> S] /\ f \in [1 .. Len(f) -> S]
    BY <2>1
  <2> QED
    BY <2>1, <2>2
<1> HIDE DEF S
<1>2. /\ s \o f \in Seq(S) /\ Len(s \o f) = Len(s) + Len(f)
      /\ \A i \in 1 .. Len(s) + Len(f) : (s \o f)[i] = IF i <= Len(s) THEN s[i] ELSE f[i - Len(s)]
  BY <1>1
<1>3. Len(s) \in Nat /\ Len(f) \in Nat
  BY <1>1
<1>4. s \o f \in [1 .. Len(s) + Len(f) -> S] /\ Len(s) + Len(f) \in Nat
  <2>1. \A q \in Seq(S) : q \in [1 .. Len(q) -> S]
    OBVIOUS
  <2>2. s \o f \in [1 .. Len(s \o f) -> S]
    BY <1>2, <2>1, Zenon
  <2>3. Len(s) + Len(f) \in Nat
    BY <1>3
  <2> QED
    BY <1>2, <2>2, <2>3
<1>5. s \o f \in Seq(Range(s \o f))
  BY <1>4, FunIsSeq, Zenon
<1>6. \A i \in 1 .. Len(s) : (s \o f)[i] = s[i]
  BY <1>2, <1>3
<1>7. \A i \in Len(s) + 1 .. Len(s) + Len(f) : (s \o f)[i] = f[i - Len(s)]
  BY <1>2, <1>3
<1> QED
  BY <1>2, <1>5, <1>6, <1>7, Zenon

\* Sync: streams of containers that are gone are cancelled, containers that are
\* listed and have none get one.
LEMMA SyncGrows ==
  ASSUME LinesInv, SampleEnds
  PROVE  \E ns : Grown(ns)
<1>0. /\ Typed /\ Len(st) \in Nat /\ DOMAIN st = 1 .. Len(st)
      /\ DOMAIN streams = Containers /\ listed \subseteq Containers
  BY DEF LinesInv, Typed
<1>1. UNCHANGED <<logged, sent, batch, running, disabled, now>> /\ listed' = {}
  BY DEF SampleEnds, docker, shipping
<1> DEFINE ended == {c \in Containers : streams[c] # 0 /\ c \notin listed}
           ns    == {streams[c] : c \in ended}
           N     == {c \in listed \ disabled : streams[c] = 0}
           C     == Cancel(ns)
<1>2. PICK new \in Orders(N) :
      /\ st' = C \o [i \in DOMAIN new |->
                      [c |-> new[i], session |-> session, cancelled |-> FALSE,
                       at |-> "inspect", seen |-> 0, upTo |-> 0, buf |-> <<>>]]
      /\ streams' = [c \in Containers |->
          IF c \in ended THEN 0
          ELSE IF c \in Range(new) THEN Len(st) + (CHOOSE i \in DOMAIN new : new[i] = c)
          ELSE streams[c]]
  BY Zenon DEF SampleEnds, Sync
<1> DEFINE fresh == [i \in DOMAIN new |->
                      [c |-> new[i], session |-> session, cancelled |-> FALSE,
                       at |-> "inspect", seen |-> 0, upTo |-> 0, buf |-> <<>>]]
<1>4. new \in Seq(N) /\ \A i, j \in DOMAIN new : new[i] = new[j] => i = j
  BY OrderView
<1>5. /\ C \in Seq(Range(C)) /\ Len(C) = Len(st) /\ DOMAIN C = DOMAIN st
      /\ \A n \in DOMAIN st :
              /\ Fields \subseteq DOMAIN C[n]
              /\ C[n].c = st[n].c /\ C[n].at = st[n].at
              /\ C[n].seen = st[n].seen /\ C[n].buf = st[n].buf
              /\ C[n].cancelled <=> (st[n].cancelled \/ n \in ns)
              /\ C[n].upTo = IF n \in ns /\ ~st[n].cancelled THEN Len(logged[st[n].c]) ELSE st[n].upTo
  BY <1>0, CancelView
<1>6. \A c \in ended : streams[c] \in ns
  OBVIOUS
<1> HIDE DEF ns, C
<1>7. Len(new) \in Nat /\ DOMAIN new = 1 .. Len(new) /\ \A i \in 1 .. Len(new) : new[i] \in N
  BY <1>4
<1>8. fresh \in Seq(Range(fresh)) /\ Len(fresh) = Len(new)
  <2>1. DOMAIN fresh = 1 .. Len(new)
    BY <1>7
  <2>2. fresh \in [1 .. Len(new) -> Range(fresh)]
    BY <2>1, Zenon DEF Range
  <2> QED
    BY <1>7, <2>2, FunIsSeq, ZenonT(30)
<1>9. ASSUME NEW i \in 1 .. Len(new) PROVE
        /\ Fields \subseteq DOMAIN fresh[i] /\ fresh[i].c = new[i] /\ fresh[i].at = "inspect"
        /\ fresh[i].seen = 0 /\ fresh[i].upTo = 0 /\ fresh[i].buf = <<>> /\ ~fresh[i].cancelled
  BY <1>7 DEF Fields
<1>f. st' = C \o fresh
  BY <1>2
<1> HIDE DEF fresh, N, ended
<1>10. /\ st' \in Seq(Range(st')) /\ Len(st') = Len(st) + Len(new)
       /\ \A i \in 1 .. Len(st) : st'[i] = C[i]
       /\ \A i \in Len(st) + 1 .. Len(st) + Len(new) : st'[i] = fresh[i - Len(st)]
  <2>1. C \in Seq(Range(C)) /\ fresh \in Seq(Range(fresh))
    BY <1>5, <1>8
  <2>2. /\ C \o fresh \in Seq(Range(C \o fresh)) /\ Len(C \o fresh) = Len(C) + Len(fresh)
        /\ \A i \in 1 .. Len(C) : (C \o fresh)[i] = C[i]
        /\ \A i \in Len(C) + 1 .. Len(C) + Len(fresh) : (C \o fresh)[i] = fresh[i - Len(C)]
    BY <2>1, Joined
  <2>3. Len(C) = Len(st) /\ Len(fresh) = Len(new) /\ st' = C \o fresh
    BY <1>f, <1>5, <1>8
  <2> QED
    BY <2>2, <2>3
<1>11. DOMAIN st' = 1 .. Len(st) + Len(new) /\ Len(st') >= Len(st)
  BY <1>0, <1>7, <1>10
<1>12. \A n \in DOMAIN st :
       /\ Fields \subseteq DOMAIN st'[n]
       /\ st'[n].c = st[n].c /\ st'[n].at = st[n].at
       /\ st'[n].seen = st[n].seen /\ st'[n].buf = st[n].buf
       /\ st'[n].cancelled <=> (st[n].cancelled \/ n \in ns)
       /\ st'[n].upTo = IF n \in ns /\ ~st[n].cancelled THEN Len(logged[st[n].c]) ELSE st[n].upTo
  BY <1>0, <1>5, <1>10
<1>13. ASSUME NEW i \in 1 .. Len(new)
       PROVE  /\ new[i] \in Containers /\ new[i] \notin ended /\ new[i] \notin disabled
              /\ streams[new[i]] = 0 /\ streams'[new[i]] = Len(st) + i
  <2>1. new[i] \in N
    BY <1>7
  <2>2. new[i] \in Containers /\ new[i] \notin ended /\ new[i] \notin disabled /\ streams[new[i]] = 0
    BY <1>0, <2>1 DEF N, ended
  <2>3. new[i] \in Range(new)
    BY <1>7 DEF Range
  <2>4. (CHOOSE j \in DOMAIN new : new[j] = new[i]) = i
    BY <1>4, <1>7
  <2>5. streams'[new[i]] = Len(st) + (CHOOSE j \in DOMAIN new : new[j] = new[i])
    BY <1>2, <2>2, <2>3
  <2> QED
    BY <2>2, <2>4, <2>5, Zenon
<1>14. ASSUME NEW n \in DOMAIN st' \ DOMAIN st PROVE
       /\ Fields \subseteq DOMAIN st'[n]
       /\ st'[n].c \in Containers /\ st'[n].at = "inspect" /\ st'[n].seen = 0 /\ st'[n].upTo = 0
       /\ st'[n].buf = <<>> /\ ~st'[n].cancelled
       /\ streams[st'[n].c] = 0 /\ streams'[st'[n].c] = n
  <2>1. n \in Len(st) + 1 .. Len(st) + Len(new) /\ n - Len(st) \in 1 .. Len(new) /\ Len(st) + (n - Len(st)) = n
    BY <1>0, <1>7, <1>11
  <2>2. st'[n] = fresh[n - Len(st)]
    BY <1>10, <2>1
  <2> QED
    BY <1>9, <1>13, <2>1, <2>2
<1>15. ASSUME NEW c \in Containers PROVE
       \/ streams'[c] = 0 /\ (streams[c] # 0 => streams[c] \in ns)
       \/ streams'[c] = streams[c] /\ c \notin disabled' \ disabled
       \/ streams'[c] \in DOMAIN st' \ DOMAIN st /\ st'[streams'[c]].c = c /\ c \notin disabled'
  <2>1. CASE c \in ended
    BY <1>2, <1>6, <2>1
  <2>2. CASE c \notin ended /\ c \notin Range(new)
    BY <1>1, <1>2, <2>2
  <2>3. CASE c \in Range(new)
    <3>1. PICK i \in 1 .. Len(new) : new[i] = c
      BY <1>7, <2>3 DEF Range
    <3>2. streams'[c] = Len(st) + i /\ c \notin disabled
      BY <1>13, <3>1
    <3>3. /\ Len(st) + i \in Len(st) + 1 .. Len(st) + Len(new) /\ (Len(st) + i) - Len(st) = i
          /\ Len(st) + i \in DOMAIN st' \ DOMAIN st
      BY <1>0, <1>7, <1>11
    <3>4. st'[Len(st) + i].c = new[i]
      BY <1>9, <1>10, <3>3
    <3> QED
      BY <1>1, <3>1, <3>2, <3>3, <3>4
  <2> QED
    BY <2>1, <2>2, <2>3
<1>16. DOMAIN streams' = Containers
  BY <1>2
<1>17. Grown(ns)
  BY <1>1, <1>10, <1>11, <1>12, <1>14, <1>15, <1>16 DEF Grown
<1> QED
  BY <1>17

\* The tail of stream n makes a step: it ends, opens the log from the present second
\* on, or takes a line, which it may keep.
Moved(n) ==
  /\ n \in DOMAIN st
  /\ st' \in Seq(Range(st')) /\ DOMAIN st' = DOMAIN st
  /\ \A k \in DOMAIN st \ {n} : st'[k] = st[k]
  /\ Fields \subseteq DOMAIN st'[n] /\ st'[n].c = st[n].c
  /\ st'[n].cancelled <=> st[n].cancelled
  /\ st'[n].seen \in Nat /\ st'[n].upTo \in Nat /\ st'[n].buf \in Seq(Nat)
  /\ st'[n].upTo \in {st[n].upTo, 0}
  /\ \A t \in Lines(n)' : t \in Lines(n) \/ (~st[n].cancelled /\ t = now)
  /\ InOrder(n)'
  /\ UNCHANGED <<logged, sent, batch, running, listed, streams, disabled, now>>

\* A stream that moves on keeps its lines and every other stream its own.
LEMMA MovedLines ==
  ASSUME Typed, ClockInv, MapInv, LineInv, OrderInv, SentInv, NEW n, Moved(n)
  PROVE  LinesInv'
<1>1. Typed'
  <2>1. ASSUME NEW k \in DOMAIN st' PROVE
         /\ Fields \subseteq DOMAIN st'[k] /\ st'[k].c \in Containers
         /\ st'[k].seen \in Nat /\ st'[k].upTo \in Nat /\ st'[k].buf \in Seq(Nat)
    <3>1. CASE k = n
      BY <3>1, ZenonT(30) DEF Moved, Typed
    <3>2. CASE k # n
      <4>1. k \in DOMAIN st /\ st'[k] = st[k]
        BY <3>2, Zenon DEF Moved
      <4> QED
        BY <4>1 DEF Typed
    <3> QED
      BY <3>1, <3>2
  <2>2. st' \in Seq(Range(st')) /\ UNCHANGED <<logged, sent, batch, running, listed, streams, now>>
    BY Zenon DEF Moved
  <2> QED
    BY <2>1, <2>2 DEF Typed
<1>2. MapInv'
  <2>1. /\ DOMAIN st' = DOMAIN st /\ UNCHANGED <<streams, disabled>>
        /\ \A k \in DOMAIN st : st'[k].c = st[k].c /\ (st'[k].cancelled <=> st[k].cancelled)
    BY DEF Moved
  <2> QED
    BY <2>1 DEF MapInv
<1>3. DOMAIN st' = DOMAIN st /\ UNCHANGED <<logged, sent, batch, streams, now>>
  BY DEF Moved
<1>4. ASSUME NEW k \in DOMAIN st, k # n
      PROVE  /\ st'[k] = st[k] /\ Lines(k)' = Lines(k) /\ InOrder(k)'
  <2>1. st'[k] = st[k]
    BY <1>4 DEF Moved
  <2>2. Held(k)' = Held(k) /\ ToCome(k)' = ToCome(k)
    BY <1>3, <2>1 DEF Held, ToCome, Ahead, Active
  <2>3. InOrder(k)
    BY DEF LineInv
  <2> QED
    BY <1>3, <2>1, <2>2, <2>3 DEF Lines, InOrder
<1>5. LineInv'
  BY <1>3, <1>4 DEF LineInv, Moved
<1>6. Steady
  <2>1. ASSUME NEW k \in DOMAIN st PROVE
       /\ st'[k].c = st[k].c /\ (st[k].cancelled => st'[k].cancelled)
       /\ \A t \in Lines(k)' : t \in Lines(k) \/ (~st[k].cancelled /\ t = now)
    <3>1. CASE k = n
      BY <3>1, Zenon DEF Moved
    <3>2. CASE k # n
      BY <1>4, <3>2, Zenon
    <3> QED
      BY <3>1, <3>2
  <2> QED
    BY <1>3, <2>1 DEF Steady
<1>7. OrderInv'
  BY <1>1, <1>6, SteadyOrder
<1>8. SentInv'
  <2>1. Live' = Live
    BY <1>3 DEF Live, Range
  <2> QED
    BY <1>1, <1>3, <1>6, <2>1, SteadySent
<1>9. ClockInv'
  BY <1>3 DEF ClockInv
<1> QED
  BY <1>1, <1>2, <1>5, <1>7, <1>8, <1>9 DEF LinesInv

-----------------------------------------------------------------------------
(* The steps of a tail.                                                    *)

\* An empty buffer is one.
LEMMA EmptyIsSeq == <<>> \in Seq(Nat) /\ 0 \in Nat
  OBVIOUS

\* A line that is appended is the last one.
LEMMA AppendView ==
  ASSUME NEW L \in Seq(Nat), NEW t \in Nat, NEW M, M = Append(L, t)
  PROVE  /\ M \in Seq(Nat) /\ Len(L) \in Nat /\ Len(L) <= Len(M)
         /\ DOMAIN L = 1 .. Len(L)
         /\ \A i \in DOMAIN M :
              \/ i \in DOMAIN L /\ M[i] = L[i]
              \/ i = Len(L) + 1 /\ M[i] = t
  OBVIOUS

\* One stream of the sequence is replaced.
LEMMA Replaced ==
  ASSUME Typed, NEW n \in DOMAIN st, NEW s, st' = [st EXCEPT ![n] = s]
  PROVE  /\ st' \in Seq(Range(st')) /\ DOMAIN st' = DOMAIN st /\ st'[n] = s
         /\ \A k \in DOMAIN st \ {n} : st'[k] = st[k]
<1>1. Len(st) \in Nat /\ DOMAIN st = 1 .. Len(st) /\ DOMAIN st' = DOMAIN st
  BY DEF Typed
<1>2. st' \in [1 .. Len(st) -> Range(st')]
  BY <1>1, Zenon DEF Range
<1>3. st' \in Seq(Range(st'))
  BY <1>1, <1>2, FunIsSeq, Zenon
<1> QED
  BY <1>1, <1>3

\* The buffer after a line: at most BufMax lines, the last BufKeep of them when
\* there were more.
Buffer(buf) == IF Len(buf) > BufMax THEN SubSeq(buf, Len(buf) - BufKeep + 1, Len(buf)) ELSE buf

\* A line added to a full buffer pushes out the oldest ones: the buffer stays in order.
LEMMA BufferView ==
  ASSUME NEW buf \in Seq(Nat), NEW line \in Nat,
         \A i, j \in DOMAIN buf : i < j => buf[i] <= buf[j],
         \A i \in DOMAIN buf : buf[i] <= line
  PROVE  /\ Buffer(Append(buf, line)) \in Seq(Nat)
         /\ \A i, j \in DOMAIN Buffer(Append(buf, line)) :
              i < j => Buffer(Append(buf, line))[i] <= Buffer(Append(buf, line))[j]
         /\ \A i \in DOMAIN Buffer(Append(buf, line)) :
              \/ Buffer(Append(buf, line))[i] = line
              \/ \E j \in DOMAIN buf : Buffer(Append(buf, line))[i] = buf[j]
<1> DEFINE B == Append(buf, line)
<1>1. Len(buf) \in Nat /\ DOMAIN buf = 1 .. Len(buf)
  OBVIOUS
<1>2. /\ B \in Seq(Nat) /\ Len(B) = Len(buf) + 1
      /\ \A i \in 1 .. Len(buf) : B[i] = buf[i]
      /\ B[Len(buf) + 1] = line
  OBVIOUS
<1> HIDE DEF B
<1>3. DOMAIN B = 1 .. Len(buf) + 1
  BY <1>1, <1>2
<1>4. \A i \in DOMAIN B : (i \in DOMAIN buf /\ B[i] = buf[i]) \/ (i = Len(buf) + 1 /\ B[i] = line)
  BY <1>1, <1>2, <1>3
<1>5. \A i, j \in DOMAIN B : i < j => B[i] <= B[j]
  <2> SUFFICES ASSUME NEW i \in DOMAIN B, NEW j \in DOMAIN B, i < j PROVE B[i] <= B[j]
    OBVIOUS
  <2>1. i \in DOMAIN buf /\ B[i] = buf[i]
    BY <1>1, <1>3, <1>4
  <2> QED
    BY <1>4, <2>1
<1>6. CASE Len(B) > BufMax
  <2> DEFINE k == Len(B) - BufKeep
             P == SubSeq(B, k + 1, Len(B))
  <2>1. k \in Nat /\ k <= Len(B) /\ Len(B) \in Nat /\ Len(B) - k = BufKeep /\ BufKeep \in Nat
    BY <1>1, <1>2, <1>6, BufAssumption
  <2> HIDE DEF k
  <2>2. P \in Seq(Nat) /\ Len(P) = Len(B) - k /\ \A i \in 1 .. Len(B) - k : P[i] = B[k + i]
    <3>1. k + 1 \in 1 .. Len(B) + 1 /\ Len(B) \in (k + 1) - 1 .. Len(B)
      BY <2>1
    <3>2. \A i \in k + 1 .. Len(B) : B[i] \in Nat
      BY <1>2, <2>1
    <3> QED
      BY <1>2, <2>1, <3>1, <3>2
  <2>3. DOMAIN P = 1 .. Len(B) - k
    BY <2>1, <2>2
  <2> HIDE DEF P
  <2>4. \A i \in DOMAIN P : k + i \in DOMAIN B /\ P[i] = B[k + i] /\ i \in Nat
    BY <1>1, <1>2, <1>3, <2>1, <2>2, <2>3
  <2>5. \A i, j \in DOMAIN P : i < j => P[i] <= P[j]
    <3> SUFFICES ASSUME NEW i \in DOMAIN P, NEW j \in DOMAIN P, i < j PROVE P[i] <= P[j]
      OBVIOUS
    <3>1. k + i < k + j
      BY <2>1, <2>4
    <3> QED
      BY <1>5, <2>4, <3>1
  <2>6. \A i \in DOMAIN P : P[i] = line \/ \E j \in DOMAIN buf : P[i] = buf[j]
    BY <1>4, <2>4
  <2>7. Buffer(Append(buf, line)) = P
    BY <1>6, ZenonT(30) DEF Buffer, B, P, k
  <2> QED
    BY <2>2, <2>5, <2>6, <2>7
<1>7. CASE ~(Len(B) > BufMax)
  <2>1. Buffer(Append(buf, line)) = B
    BY <1>7 DEF Buffer, B
  <2> QED
    BY <1>2, <1>4, <1>5, <2>1
<1> QED
  BY <1>6, <1>7

\* What Tail0 leaves alone, and the stream it replaces.
LEMMA Tail0View ==
  ASSUME Typed, NEW n \in DOMAIN st, NEW s, Tail0(n, s)
  PROVE  /\ st' \in Seq(Range(st')) /\ DOMAIN st' = DOMAIN st /\ st'[n] = s
         /\ \A k \in DOMAIN st \ {n} : st'[k] = st[k]
         /\ UNCHANGED <<logged, sent, batch, running, listed, streams, disabled, now>>
<1>1. /\ st' = [st EXCEPT ![n] = s]
      /\ UNCHANGED <<logged, sent, batch, running, listed, streams, disabled, now>>
  BY DEF Tail0, collector, shipping, docker
<1> QED
  BY <1>1, Replaced, Zenon

\* A tail that ends moves its own stream only.
LEMMA TailEnds ==
  ASSUME LinesInv, NEW n \in DOMAIN st, Tail0(n, Ended(n))
  PROVE  Moved(n)
<1>1. Typed /\ LineInv
  BY DEF LinesInv
<1>2. /\ st' \in Seq(Range(st')) /\ DOMAIN st' = DOMAIN st /\ st'[n] = Ended(n)
      /\ \A k \in DOMAIN st \ {n} : st'[k] = st[k]
      /\ UNCHANGED <<logged, sent, batch, running, listed, streams, disabled, now>>
  BY <1>1, Tail0View
<1>3. Fields \subseteq DOMAIN st[n] /\ st[n].buf \in Seq(Nat) /\ Len(logged[st[n].c]) \in Nat
  BY <1>1 DEF Typed
<1>4. /\ Fields \subseteq DOMAIN st'[n] /\ st'[n].c = st[n].c /\ st'[n].cancelled = st[n].cancelled
      /\ st'[n].at = "ended" /\ st'[n].seen = 0 /\ st'[n].upTo = 0
      /\ st'[n].buf = st[n].buf \/ st'[n].buf = <<>>
  BY <1>2, <1>3 DEF Ended, Fields
<1>5. Held(n)' \subseteq Held(n) /\ ToCome(n)' = {}
  <2>1. ~Active(n)'
    BY <1>4 DEF Active
  <2>2. Ahead(n)' = {}
    BY <2>1 DEF Ahead
  <2>3. CASE st'[n].buf = st[n].buf
    BY <2>2, <2>3 DEF Held, ToCome
  <2>4. CASE st'[n].buf = <<>>
    <3>1. DOMAIN st'[n].buf = {}
      BY <2>4
    <3> QED
      BY <2>2, <3>1 DEF Held, ToCome
  <2> QED
    BY <1>4, <2>3, <2>4
<1>6. InOrder(n)'
  <2>1. /\ \A i, j \in DOMAIN st[n].buf : i < j => st[n].buf[i] <= st[n].buf[j]
        /\ \A a \in Held(n) : a <= now
    BY <1>1 DEF LineInv, InOrder
  <2>2. \A i, j \in DOMAIN st'[n].buf : i < j => st'[n].buf[i] <= st'[n].buf[j]
    BY <1>4, <2>1
  <2>3. st'[n].upTo <= Len(logged[st[n].c])
    BY <1>3, <1>4
  <2> QED
    BY <1>2, <1>4, <1>5, <2>1, <2>2, <2>3 DEF InOrder
<1>7. st'[n].buf \in Seq(Nat) /\ 0 \in Nat
  BY <1>3, <1>4, EmptyIsSeq, Zenon
<1>8. \A t \in Lines(n)' : t \in Lines(n)
  BY <1>5 DEF Lines
<1> QED
  BY <1>2, <1>4, <1>6, <1>7, <1>8, ZenonT(30) DEF Moved

\* The log is opened from the present second on.
LEMMA TailOpens ==
  ASSUME LinesInv, NEW n \in DOMAIN st, ~Done(n), FromNow(n)
  PROVE  Moved(n)
<1>1. Typed /\ ClockInv /\ LineInv
  BY DEF LinesInv
<1>2. PICK k \in BeforeSince(st[n].c) : Tail0(n, [st[n] EXCEPT !.at = "open", !.seen = k])
  BY Zenon DEF FromNow
<1>3. /\ st' \in Seq(Range(st')) /\ DOMAIN st' = DOMAIN st
      /\ st'[n] = [st[n] EXCEPT !.at = "open", !.seen = k]
      /\ \A j \in DOMAIN st \ {n} : st'[j] = st[j]
      /\ UNCHANGED <<logged, sent, batch, running, listed, streams, disabled, now>>
  BY <1>1, <1>2, Tail0View
<1>4. /\ Fields \subseteq DOMAIN st[n] /\ st[n].buf \in Seq(Nat) /\ st[n].upTo \in Nat
      /\ st[n].c \in Containers /\ logged[st[n].c] \in Seq(Nat) /\ now \in Nat
  BY <1>1 DEF Typed
<1>5. /\ Fields \subseteq DOMAIN st'[n] /\ st'[n].c = st[n].c /\ st'[n].cancelled = st[n].cancelled
      /\ st'[n].at = "open" /\ st'[n].seen = k /\ st'[n].upTo = st[n].upTo /\ st'[n].buf = st[n].buf
  BY <1>3, <1>4 DEF Fields
<1>6. ~st[n].cancelled
  BY DEF Done
<1>7. k \in Nat /\ \A i \in DOMAIN logged[st[n].c] : i > k => logged[st[n].c][i] = now
  <2>1. /\ k \in 0 .. Len(logged[st[n].c])
        /\ \A i \in DOMAIN logged[st[n].c] : i <= k <=> logged[st[n].c][i] < now
    BY DEF BeforeSince
  <2>2. \A i \in DOMAIN logged[st[n].c] : logged[st[n].c][i] <= now /\ logged[st[n].c][i] \in Nat /\ i \in Nat
    BY <1>1, <1>4 DEF ClockInv
  <2> QED
    BY <1>4, <2>1, <2>2
<1>8. Held(n)' = Held(n) /\ \A t \in ToCome(n)' : t = now
  BY <1>3, <1>5, <1>7 DEF Held, ToCome, Ahead
<1>9. InOrder(n)'
  <2>1. InOrder(n)
    BY <1>1 DEF LineInv
  <2> QED
    BY <1>3, <1>5, <1>8, <2>1 DEF InOrder
<1> QED
  BY <1>3, <1>4, <1>5, <1>6, <1>7, <1>8, <1>9 DEF Moved, Lines

\* A tail that opens its log moves its own stream only.
LEMMA TailReads ==
  ASSUME LinesInv, NEW n \in DOMAIN st, st[n].at = "open",
         Tail0(n, [st[n] EXCEPT !.at = "read"])
  PROVE  Moved(n)
<1>1. Typed /\ LineInv
  BY DEF LinesInv
<1>2. /\ st' \in Seq(Range(st')) /\ DOMAIN st' = DOMAIN st /\ st'[n] = [st[n] EXCEPT !.at = "read"]
      /\ \A k \in DOMAIN st \ {n} : st'[k] = st[k]
      /\ UNCHANGED <<logged, sent, batch, running, listed, streams, disabled, now>>
  BY <1>1, Tail0View
<1>3. Fields \subseteq DOMAIN st[n] /\ st[n].buf \in Seq(Nat) /\ st[n].upTo \in Nat /\ st[n].seen \in Nat
  BY <1>1 DEF Typed
<1>4. /\ Fields \subseteq DOMAIN st'[n] /\ st'[n].c = st[n].c /\ st'[n].cancelled = st[n].cancelled
      /\ st'[n].at = "read" /\ st'[n].seen = st[n].seen /\ st'[n].upTo = st[n].upTo /\ st'[n].buf = st[n].buf
  BY <1>2, <1>3 DEF Fields
<1>5. Held(n)' = Held(n) /\ ToCome(n)' = ToCome(n)
  <2>1. Active(n) /\ Active(n)'
    BY <1>4 DEF Active
  <2>2. Ahead(n)' = Ahead(n)
    BY <1>2, <1>4, <2>1 DEF Ahead
  <2> QED
    BY <1>2, <1>4, <2>2 DEF Held, ToCome
<1>6. InOrder(n)'
  <2>1. InOrder(n)
    BY <1>1 DEF LineInv
  <2> QED
    BY <1>2, <1>4, <1>5, <2>1 DEF InOrder
<1> QED
  BY <1>2, <1>3, <1>4, <1>5, <1>6 DEF Moved, Lines

\* A tail that reads a line puts it behind the lines it read before.
LEMMA TailTakes ==
  ASSUME LinesInv, NEW n \in DOMAIN st, Consume(n)
  PROVE  Moved(n)
<1> DEFINE s    == st[n]
           next == st[n].seen + 1
           line == logged[st[n].c][st[n].seen + 1]
<1>1. Typed /\ ClockInv /\ LineInv
  BY DEF LinesInv
<1>2. /\ Fields \subseteq DOMAIN s /\ s.buf \in Seq(Nat) /\ s.upTo \in Nat /\ s.seen \in Nat
      /\ next \in Nat /\ s.c \in Containers /\ logged[s.c] \in Seq(Nat)
      /\ Len(logged[s.c]) \in Nat /\ now \in Nat
  BY <1>1 DEF Typed
<1>3. /\ \A i, j \in DOMAIN s.buf : i < j => s.buf[i] <= s.buf[j]
      /\ \A a \in Held(n) : a <= now /\ \A b \in ToCome(n) : a <= b
      /\ s.upTo <= Len(logged[s.c])
  BY <1>1 DEF LineInv, InOrder
<1>4. Active(n) /\ s.at = "read" /\ next <= (IF s.cancelled THEN s.upTo ELSE Len(logged[s.c]))
  BY DEF Active, Consume
<1>5. next \in DOMAIN logged[s.c] /\ next \in Ahead(n)
  <2>1. next <= Len(logged[s.c]) /\ next > s.seen
    BY <1>2, <1>3, <1>4
  <2>2. next \in DOMAIN logged[s.c]
    BY <1>2, <2>1
  <2> QED
    BY <1>4, <2>1, <2>2 DEF Ahead
<1>6. line \in ToCome(n) /\ line \in Nat /\ line <= now
  <2>1. line \in ToCome(n)
    BY <1>5 DEF ToCome
  <2>2. line \in Nat /\ line <= now
    BY <1>1, <1>2, <1>5 DEF ClockInv
  <2> QED
    BY <2>1, <2>2
<1>7. \A i \in DOMAIN s.buf : s.buf[i] <= line
  BY <1>3, <1>6 DEF Held
<1>8. \/ Tail0(n, [s EXCEPT !.seen = next])
      \/ Tail0(n, [s EXCEPT !.seen = next, !.buf = Buffer(Append(s.buf, line))])
  BY DEF Consume, Buffer
<1>9. \A i \in Ahead(n) : i > next => line <= logged[s.c][i]
  <2>1. \A i \in Ahead(n) : i \in DOMAIN logged[s.c] /\ (i > next => next <= i)
    BY <1>2 DEF Ahead
  <2>2. \A i, j \in DOMAIN logged[s.c] : i <= j => logged[s.c][i] <= logged[s.c][j]
    BY <1>1, <1>2 DEF ClockInv
  <2> QED
    BY <1>5, <2>1, <2>2, Zenon
<1>10. ASSUME NEW B \in Seq(Nat), Tail0(n, [s EXCEPT !.seen = next, !.buf = B]),
              \A i, j \in DOMAIN B : i < j => B[i] <= B[j],
              \A i \in DOMAIN B : B[i] = line \/ \E j \in DOMAIN s.buf : B[i] = s.buf[j]
       PROVE  Moved(n)
  <2>1. /\ st' \in Seq(Range(st')) /\ DOMAIN st' = DOMAIN st /\ st'[n] = [s EXCEPT !.seen = next, !.buf = B]
        /\ \A k \in DOMAIN st \ {n} : st'[k] = st[k]
        /\ UNCHANGED <<logged, sent, batch, running, listed, streams, disabled, now>>
    BY <1>1, <1>10, Tail0View
  <2>2. /\ Fields \subseteq DOMAIN st'[n] /\ st'[n].c = s.c /\ st'[n].cancelled = s.cancelled
        /\ st'[n].at = "read" /\ st'[n].seen = next /\ st'[n].upTo = s.upTo /\ st'[n].buf = B
    BY <1>2, <1>4, <2>1 DEF Fields
  <2>3. Ahead(n)' = {i \in Ahead(n) : i > next}
    <3>1. Active(n)'
      BY <2>2 DEF Active
    <3>2. \A i \in DOMAIN logged[s.c] : i \in Nat /\ (i > next => i > s.seen)
      BY <1>2
    <3> QED
      BY <1>4, <2>1, <2>2, <3>1, <3>2 DEF Ahead
  <2> HIDE DEF line
  <2>4. Held(n)' \subseteq Held(n) \cup {line}
    BY <1>10, <2>2 DEF Held
  <2>5. \A b \in ToCome(n)' : b \in ToCome(n) /\ line <= b
    <3> SUFFICES ASSUME NEW b \in ToCome(n)' PROVE b \in ToCome(n) /\ line <= b
      OBVIOUS
    <3>1. PICK i \in Ahead(n)' : b = logged[s.c][i]
      BY <2>1, <2>2 DEF ToCome
    <3> QED
      BY <1>9, <2>3, <3>1 DEF ToCome
  <2>6. InOrder(n)'
    <3>1. \A a \in Held(n)' : a <= now /\ \A b \in ToCome(n)' : a <= b
      BY <1>3, <1>6, <2>4, <2>5
    <3>2. \A i, j \in DOMAIN st'[n].buf : i < j => st'[n].buf[i] <= st'[n].buf[j]
      BY <1>10, <2>2
    <3> QED
      BY <1>3, <2>1, <2>2, <3>1, <3>2 DEF InOrder
  <2>7. \A t \in Lines(n)' : t \in Lines(n)
    BY <1>6, <2>4, <2>5 DEF Lines
  <2> QED
    BY <1>2, <1>10, <2>1, <2>2, <2>6, <2>7 DEF Moved
<1>11. CASE Tail0(n, [s EXCEPT !.seen = next])
  <2>1. [s EXCEPT !.seen = next] = [s EXCEPT !.seen = next, !.buf = s.buf]
    BY <1>2, Zenon DEF Fields
  <2> QED
    BY <1>2, <1>3, <1>10, <1>11, <2>1, Zenon
<1>12. CASE Tail0(n, [s EXCEPT !.seen = next, !.buf = Buffer(Append(s.buf, line))])
  <2>1. /\ Buffer(Append(s.buf, line)) \in Seq(Nat)
        /\ \A i, j \in DOMAIN Buffer(Append(s.buf, line)) :
              i < j => Buffer(Append(s.buf, line))[i] <= Buffer(Append(s.buf, line))[j]
        /\ \A i \in DOMAIN Buffer(Append(s.buf, line)) :
              \/ Buffer(Append(s.buf, line))[i] = line
              \/ \E j \in DOMAIN s.buf : Buffer(Append(s.buf, line))[i] = s.buf[j]
    <3> HIDE DEF s, line
    <3> QED
      BY <1>2, <1>3, <1>6, <1>7, BufferView, Zenon
  <2> QED
    BY <1>10, <1>12, <2>1, Zenon
<1> QED
  BY <1>8, <1>11, <1>12

\* Every step of a tail moves its own stream only.
LEMMA TailMoves ==
  ASSUME LinesInv, NEW n \in DOMAIN st, TailStep(n)
  PROVE  Moved(n)
<1>1. CASE Inspect(n)
  BY <1>1, TailEnds, TailOpens, Zenon DEF Inspect
<1>2. CASE OpenLogs(n)
  <2>1. CASE Done(n)
    BY <1>2, <2>1, TailEnds DEF OpenLogs
  <2>2. CASE ~Done(n)
    BY <1>2, <2>2, TailReads DEF OpenLogs
  <2> QED
    BY <2>1, <2>2
<1>3. CASE Consume(n)
  BY <1>3, TailTakes
<1>4. CASE ConsumeEnds(n)
  <2>1. CASE Done(n)
    BY <1>4, <2>1, TailEnds DEF ConsumeEnds
  <2>2. CASE ~Done(n)
    BY <1>4, <2>2, TailOpens, Zenon DEF ConsumeEnds
  <2> QED
    BY <2>1, <2>2
<1> QED
  BY <1>1, <1>2, <1>3, <1>4 DEF TailStep

=============================================================================
