--------------------------- MODULE TerminalProofs ---------------------------
(***************************************************************************)
(* Proofs about Terminal: a shell that was handed to a browser does not    *)
(* outlive its handler, whatever the number of sessions and streams.       *)
(***************************************************************************)
EXTENDS Terminal, TLAPS

\* Where a session's PtyOpen can be: on the stream, with a receive loop, or answered.
Cmd(o, s) == [op |-> o, s |-> s]
Queued(o, s) == \E i \in 1..Len(inbox) : inbox[i] = Cmd(o, s)
Opens(w, s) == w \in {[at |-> "create", s |-> s], [at |-> "insert", s |-> s]}
Opening(e, s) == Opens(loop[e], s)
Told(s) == \E ok \in BOOLEAN : [op |-> "open", s |-> s, ok |-> ok] \in replies
Single(s) ==
  \A i, j \in 1..Len(inbox) : inbox[i] = Cmd("open", s) /\ inbox[j] = Cmd("open", s) => i = j

\* A PtyOpen is in one place at most: none before Serve sent it, and none but its
\* answer once the session is handed out.
OnceInv ==
  \A s \in Sessions :
    /\ serve[s] = "idle" => ~Queued("open", s) /\ ~Told(s) /\ \A e \in Streams : ~Opening(e, s)
    /\ s \in opened => ~Queued("open", s) /\ \A e \in Streams : ~Opening(e, s)
    /\ Queued("open", s) => ~Told(s) /\ \A e \in Streams : ~Opening(e, s)
    /\ Told(s) => \A e \in Streams : ~Opening(e, s)
    /\ Single(s)
    /\ \A e, f \in Streams : Opening(e, s) /\ Opening(f, s) => e = f

\* It stays on the stream Serve sent it on.
RouteInv ==
  /\ client # "serving" => inbox = <<>> /\ replies = {} /\ epoch < MaxStreams
  /\ \A s \in Sessions : Queued("open", s) \/ Told(s) => conn[s] = epoch
  /\ \A s \in Sessions, e \in Streams : Opening(e, s) => conn[s] = e

\* A session that was handed out and is in the table belongs to the latest stream.
\* CloseAll knows it, and when its handler has gone its PtyClose is under way.
HandedInv ==
  \A s \in opened :
    /\ serve[s] \notin {"idle", "opening"}
    /\ s \in sessions =>
         /\ conn[s] = epoch
         /\ client = "closeall" => s \in Range(closing)
         /\ client = "serving" /\ serve[s] \in {"closing", "done"} => Queued("close", s)

\* Every container is that of a session in the table, or one on its way in or out.
OwnedInv ==
  \A s \in containers :
    s \in sessions \cup finishing \/ \E e \in Streams : loop[e] = [at |-> "insert", s |-> s]

TermInv == TypeOK /\ OnceInv /\ RouteInv /\ HandedInv /\ OwnedInv

-----------------------------------------------------------------------------
(* The operators.                                                          *)

\* Positions of a sequence, and of two in a row.
LEMMA InRange ==
  ASSUME NEW S, NEW q \in Seq(S), NEW i \in 1..Len(q)
  PROVE  q[i] \in Range(q)
<1>1. i \in DOMAIN q
  OBVIOUS
<1> QED BY <1>1 DEF Range

\* What two sequences hold, one after the other.
LEMMA Joined ==
  ASSUME NEW S, NEW a \in Seq(S), NEW b \in Seq(S)
  PROVE  /\ a \o b \in Seq(S) /\ Len(a \o b) = Len(a) + Len(b)
         /\ \A k \in 1..(Len(a) + Len(b)) :
              (a \o b)[k] = IF k <= Len(a) THEN a[k] ELSE b[k - Len(a)]
OBVIOUS

\* A command at the end of the stream: the queue holds it and what it held.
LEMMA AppendQueued ==
  ASSUME inbox \in Seq(Commands), NEW c \in Commands, inbox' = Append(inbox, c)
  PROVE  /\ inbox' \in Seq(Commands)
         /\ \A o, s : Queued(o, s)' <=> (Queued(o, s) \/ c = Cmd(o, s))
         /\ \A s : Single(s) /\ (c = Cmd("open", s) => ~Queued("open", s)) => Single(s)'
<1>1. /\ inbox' \in Seq(Commands) /\ Len(inbox') = Len(inbox) + 1 /\ Len(inbox) \in Nat
      /\ \A i \in 1..Len(inbox) : inbox'[i] = inbox[i]
      /\ inbox'[Len(inbox) + 1] = c
  OBVIOUS
<1>2. \A o, s : Queued(o, s)' <=> (Queued(o, s) \/ c = Cmd(o, s))
  <2>1. SUFFICES ASSUME NEW o, NEW s PROVE Queued(o, s)' <=> (Queued(o, s) \/ c = Cmd(o, s))
    OBVIOUS
  <2>2. ASSUME Queued(o, s)' PROVE Queued(o, s) \/ c = Cmd(o, s)
    <3>1. PICK i \in 1..Len(inbox') : inbox'[i] = Cmd(o, s)
      BY <2>2 DEF Queued, Cmd
    <3>2. i \in 1..Len(inbox) \/ i = Len(inbox) + 1
      BY <1>1
    <3> QED BY <3>1, <3>2, <1>1 DEF Queued
  <2>3. ASSUME Queued(o, s) \/ c = Cmd(o, s) PROVE Queued(o, s)'
    <3>1. 1..Len(inbox) \subseteq 1..Len(inbox') /\ Len(inbox) + 1 \in 1..Len(inbox')
      BY <1>1
    <3> QED BY <2>3, <3>1, <1>1 DEF Queued, Cmd
  <2> QED BY <2>2, <2>3
<1>3. ASSUME NEW s, Single(s), c = Cmd("open", s) => ~Queued("open", s) PROVE Single(s)'
  <2>1. SUFFICES ASSUME NEW i \in 1..Len(inbox'), NEW j \in 1..Len(inbox'),
                        inbox'[i] = Cmd("open", s), inbox'[j] = Cmd("open", s)
                 PROVE  i = j
    BY DEF Single, Cmd
  <2>2. (i \in 1..Len(inbox) \/ i = Len(inbox) + 1) /\ (j \in 1..Len(inbox) \/ j = Len(inbox) + 1)
    BY <1>1
  <2> QED BY <2>1, <2>2, <1>1, <1>3 DEF Single, Queued
<1> QED BY <1>1, <1>2, <1>3

\* The receive loop takes the first command: the others stay.
LEMMA TailQueued ==
  ASSUME inbox \in Seq(Commands), inbox # <<>>, inbox' = Tail(inbox)
  PROVE  /\ inbox' \in Seq(Commands) /\ Head(inbox) \in Commands
         /\ \A o, s : Queued(o, s) <=> (Queued(o, s)' \/ Head(inbox) = Cmd(o, s))
         /\ \A s : Single(s) => Single(s)' /\ (Head(inbox) = Cmd("open", s) => ~Queued("open", s)')
<1>1. /\ inbox' \in Seq(Commands) /\ Len(inbox') = Len(inbox) - 1 /\ Len(inbox) \in Nat \ {0}
      /\ \A i \in 1..Len(inbox') : inbox'[i] = inbox[i + 1]
      /\ Head(inbox) = inbox[1] /\ Head(inbox) \in Commands
  OBVIOUS
<1>2. ASSUME NEW o, NEW s PROVE Queued(o, s) <=> (Queued(o, s)' \/ Head(inbox) = Cmd(o, s))
  <2>1. ASSUME Queued(o, s), Head(inbox) # Cmd(o, s) PROVE Queued(o, s)'
    <3>1. PICK i \in 1..Len(inbox) : inbox[i] = Cmd(o, s)
      BY <2>1 DEF Queued
    <3>2. i - 1 \in 1..Len(inbox') /\ (i - 1) + 1 = i
      BY <3>1, <2>1, <1>1
    <3> QED BY <3>1, <3>2, <1>1, Zenon DEF Queued, Cmd
  <2>2. ASSUME Queued(o, s)' PROVE Queued(o, s)
    <3>1. PICK i \in 1..Len(inbox') : inbox'[i] = Cmd(o, s)
      BY <2>2 DEF Queued, Cmd
    <3>2. i + 1 \in 1..Len(inbox)
      BY <1>1
    <3> QED BY <3>1, <3>2, <1>1 DEF Queued
  <2>3. 1 \in 1..Len(inbox)
    BY <1>1
  <2> QED BY <2>1, <2>2, <2>3, <1>1 DEF Queued
<1>3. ASSUME NEW s, Single(s)
      PROVE  Single(s)' /\ (Head(inbox) = Cmd("open", s) => ~Queued("open", s)')
  <2>1. \A i \in 1..Len(inbox') : i + 1 \in 1..Len(inbox) /\ i + 1 # 1
    BY <1>1
  <2>2. 1 \in 1..Len(inbox)
    BY <1>1
  <2>3. ASSUME NEW i \in 1..Len(inbox'), NEW j \in 1..Len(inbox'),
               inbox'[i] = Cmd("open", s), inbox'[j] = Cmd("open", s)
        PROVE  i = j
    <3>1. i + 1 = j + 1
      BY <2>3, <2>1, <1>1, <1>3 DEF Single
    <3> QED BY <3>1
  <2>4. Single(s)'
    BY <2>3 DEF Single, Cmd
  <2>5. ASSUME NEW i \in 1..Len(inbox'), inbox'[i] = Cmd("open", s), Head(inbox) = Cmd("open", s)
        PROVE  FALSE
    BY <2>5, <2>1, <2>2, <1>1, <1>3 DEF Single
  <2> QED BY <2>4, <2>5 DEF Queued, Cmd
<1> QED BY <1>1, <1>2, <1>3

\* Without drops one session from the snapshot, and no other.
LEMMA WithoutOne ==
  ASSUME NEW q \in Seq(Sessions), NEW s
  PROVE  /\ Without(q, s) \in Seq(Sessions)
         /\ \A x \in Range(q) : x # s => x \in Range(Without(q, s))
<1> DEFINE i == CHOOSE k \in DOMAIN q : q[k] = s
           a == SubSeq(q, 1, i - 1)
           b == SubSeq(q, i + 1, Len(q))
<1>1. CASE s \notin Range(q)
  BY <1>1 DEF Without
<1>2. CASE s \in Range(q)
  <2>1. i \in DOMAIN q /\ q[i] = s
    BY <1>2 DEF Range
  <2>2. DOMAIN q = 1..Len(q) /\ Len(q) \in Nat
    OBVIOUS
  <2>3. i \in Int /\ 1 <= i /\ i <= Len(q)
    BY <2>1, <2>2
  <2>4. Without(q, s) = a \o b
    BY <1>2, Zenon DEF Without
  <2> HIDE DEF i
  <2>5. /\ a \in Seq(Sessions) /\ Len(a) = i - 1
        /\ \A k \in 1..(i - 1) : a[k] = q[k]
    BY <2>2, <2>3
  <2>6. /\ b \in Seq(Sessions) /\ Len(b) = Len(q) - i
        /\ \A k \in 1..(Len(q) - i) : b[k] = q[i + k]
    <3>1. i + 1 \in Int /\ Len(q) \in Int /\ (Len(q) - (i + 1)) + 1 = Len(q) - i
      BY <2>2, <2>3
    <3>2. \A k \in (i + 1)..Len(q) : q[k] \in Sessions
      BY <2>2, <2>3
    <3>3. /\ b \in Seq(Sessions)
          /\ Len(b) = IF i + 1 <= Len(q) THEN (Len(q) - (i + 1)) + 1 ELSE 0
          /\ \A k \in 1..((Len(q) - (i + 1)) + 1) : b[k] = q[((i + 1) + k) - 1]
      BY <3>1, <3>2
    <3>4. \A k \in 1..(Len(q) - i) : ((i + 1) + k) - 1 = i + k
      BY <2>2, <2>3
    <3> HIDE DEF a, b
    <3>5. Len(b) = Len(q) - i
      <4>1. CASE i + 1 <= Len(q)
        BY <4>1, <3>1, <3>3
      <4>2. CASE ~(i + 1 <= Len(q))
        <5>1. Len(q) - i = 0
          BY <4>2, <2>3
        <5> QED BY <4>2, <5>1, <3>3
      <4> QED BY <4>1, <4>2
    <3> QED BY <3>1, <3>3, <3>4, <3>5
  <2> HIDE DEF a, b
  <2>7. /\ a \o b \in Seq(Sessions) /\ Len(a \o b) = Len(q) - 1
        /\ \A k \in 1..Len(a \o b) : (a \o b)[k] = IF k <= Len(a) THEN a[k] ELSE b[k - Len(a)]
    <3>1. /\ a \o b \in Seq(Sessions) /\ Len(a \o b) = Len(a) + Len(b)
          /\ \A k \in 1..(Len(a) + Len(b)) :
               (a \o b)[k] = IF k <= Len(a) THEN a[k] ELSE b[k - Len(a)]
      BY <2>5, <2>6, Joined, Zenon
    <3>2. Len(a) + Len(b) = Len(q) - 1
      BY <2>5, <2>6, <2>2, <2>3
    <3> QED BY <3>1, <3>2
  <2>8. ASSUME NEW x \in Range(q), x # s PROVE x \in Range(a \o b)
    <3>1. PICK k \in 1..Len(q) : q[k] = x
      BY <2>2 DEF Range
    <3>2. CASE k < i
      <4>1. k \in 1..(i - 1) /\ k \in 1..Len(a \o b) /\ k <= Len(a)
        BY <3>2, <2>2, <2>3, <2>5, <2>7
      <4>2. (a \o b)[k] = x
        BY <4>1, <3>1, <2>5, <2>7
      <4> QED BY <4>1, <4>2, <2>7, InRange, Zenon
    <3>3. CASE k > i
      <4>1. /\ k - 1 \in 1..Len(a \o b) /\ ~(k - 1 <= Len(a))
            /\ (k - 1) - Len(a) = k - i /\ k - i \in 1..(Len(q) - i) /\ i + (k - i) = k
        BY <3>3, <2>2, <2>3, <2>5, <2>7
      <4>2. (a \o b)[k - 1] = x
        BY <4>1, <3>1, <2>6, <2>7, ZenonT(30)
      <4> QED BY <4>1, <4>2, <2>7, InRange, Zenon
    <3>4. k # i
      BY <3>1, <2>8, <2>1
    <3> QED BY <3>2, <3>3, <3>4, <2>3
  <2> QED BY <2>4, <2>7, <2>8
<1> QED BY <1>1, <1>2

-----------------------------------------------------------------------------
(* What the shared steps of the actions do.                                *)

\* Send: the command is queued if its stream is up, and nothing else changes.
LEMMA SendEffect ==
  ASSUME inbox \in Seq(Commands), NEW e, NEW op \in Ops, NEW s \in Sessions, Send(e, op, s)
  PROVE  /\ inbox' \in Seq(Commands)
         /\ \A o, x : Queued(o, x)' <=> (Queued(o, x) \/ (Up(e) /\ o = op /\ x = s))
         /\ \A x : Single(x) /\ (op = "open" /\ x = s => ~Queued("open", s)) => Single(x)'
         /\ client # "serving" => inbox' = inbox
<1> DEFINE c == Cmd(op, s)
<1>1. c \in Commands /\ \A o, x : c = Cmd(o, x) <=> o = op /\ x = s
  BY DEF Commands, Cmd
<1>2. CASE Up(e)
  <2>1. inbox' = Append(inbox, c)
    BY <1>2 DEF Send, Cmd
  <2> HIDE DEF c
  <2> QED BY <2>1, <1>1, <1>2, AppendQueued DEF Up
<1>3. CASE ~Up(e)
  <2>1. inbox' = inbox
    BY <1>3 DEF Send
  <2> QED BY <2>1, <1>3 DEF Queued, Single, Cmd
<1> QED BY <1>2, <1>3

\* Reply: of the answers to PtyOpen only that of the session may be new.
LEMMA ReplyEffect ==
  ASSUME replies \subseteq [op : Ops, s : Sessions, ok : BOOLEAN],
         NEW e, NEW op \in Ops, NEW s \in Sessions, NEW ok \in BOOLEAN, Reply(e, op, s, ok)
  PROVE  /\ replies' \subseteq [op : Ops, s : Sessions, ok : BOOLEAN]
         /\ \A x : Told(x)' <=> (Told(x) \/ (Up(e) /\ op = "open" /\ x = s))
         /\ client # "serving" => replies' = replies
<1>1. CASE Up(e)
  <2>1. replies' = replies \cup {[op |-> op, s |-> s, ok |-> ok]}
    BY <1>1 DEF Reply
  <2>2. \A x, k : [op |-> "open", s |-> x, ok |-> k] = [op |-> op, s |-> s, ok |-> ok]
                    <=> op = "open" /\ x = s /\ k = ok
    OBVIOUS
  <2> QED BY <2>1, <2>2, <1>1 DEF Told, Up
<1>2. CASE ~Up(e)
  BY <1>2 DEF Reply, Told
<1> QED BY <1>1, <1>2

\* Works: the other receive loops stay where they are.
LEMMA WorksEffect ==
  ASSUME loop \in [Streams -> Loops], NEW e \in Streams, NEW w \in Loops, Works(e, w)
  PROVE  /\ loop' \in [Streams -> Loops]
         /\ loop'[e] = w /\ \A f \in Streams : f # e => loop'[f] = loop[f]
         /\ \A f \in Streams : \A x : f # e => (Opening(f, x)' <=> Opening(f, x))
         /\ \A x : Opening(e, x)' <=> Opens(w, x)
BY DEF Works, Opening, Opens

\* A receive loop that is not idle works for a session.
LEMMA BusyLoop ==
  ASSUME loop \in [Streams -> Loops], NEW e \in Streams, loop[e].at # "idle"
  PROVE  loop[e].s \in Sessions /\ loop[e] = [at |-> loop[e].at, s |-> loop[e].s]
<1>1. loop[e] \in [at : {"create", "insert", "remove", "write"}, s : Sessions]
  BY DEF Loops, Idle
<1> QED BY <1>1

-----------------------------------------------------------------------------
(* The leader's steps.                                                     *)

\* The handler of a new session sends one PtyOpen, for that session.
LEMMA ServeOpenKeeps ==
  ASSUME TermInv, NEW s \in Sessions, ServeOpen(s) PROVE TermInv'
<1> USE DEF TermInv
<1>t. /\ serve \in [Sessions -> {"idle", "opening", "attached", "cancelled", "closing", "done"}]
      /\ conn \in [Sessions -> 0..MaxStreams] /\ inbox \in Seq(Commands) /\ epoch \in Streams
  BY DEF TypeOK
<1>a. /\ serve[s] = "idle" /\ serve' = [serve EXCEPT ![s] = "opening"]
      /\ conn' = [conn EXCEPT ![s] = epoch] /\ Send(epoch, "open", s)
      /\ UNCHANGED <<opened, typing, inputs, epoch, client, replies, loop, sessions, finishing,
                     containers, closing>>
  BY DEF ServeOpen, Goto, pty
<1>b. /\ inbox' \in Seq(Commands)
      /\ \A o, x : Queued(o, x)' <=> (Queued(o, x) \/ (Up(epoch) /\ o = "open" /\ x = s))
      /\ \A x : Single(x) /\ ("open" = "open" /\ x = s => ~Queued("open", s)) => Single(x)'
      /\ client # "serving" => inbox' = inbox
  BY <1>a, <1>t, SendEffect, Zenon DEF Ops
<1>c. /\ \A x : Told(x)' <=> Told(x)
      /\ \A e \in Streams : \A x : Opening(e, x)' <=> Opening(e, x)
  BY <1>a DEF Told, Opening, Opens
<1>d. /\ \A x \in Sessions : x # s => serve'[x] = serve[x] /\ conn'[x] = conn[x]
      /\ serve'[s] = "opening" /\ conn'[s] = epoch
  BY <1>a, <1>t
<1>e. /\ ~Queued("open", s) /\ ~Told(s) /\ \A e \in Streams : ~Opening(e, s)
      /\ s \notin opened
  BY <1>a DEF OnceInv, HandedInv
<1>1. TypeOK'
  BY <1>a, <1>b DEF TypeOK, Streams
<1>2. OnceInv'
  BY <1>a, <1>b, <1>c, <1>d, <1>e DEF OnceInv
<1>3. RouteInv'
  BY <1>a, <1>b, <1>c, <1>d, <1>e DEF RouteInv, Up
<1>4. HandedInv'
  BY <1>a, <1>b, <1>d, <1>e DEF HandedInv, TypeOK
<1>5. OwnedInv'
  BY <1>a DEF OwnedInv
<1> QED BY <1>1, <1>2, <1>3, <1>4, <1>5

\* An input on the stream is no PtyOpen.
LEMMA ReadInputKeeps ==
  ASSUME TermInv, NEW s \in Sessions, ReadInput(s) PROVE TermInv'
<1> USE DEF TermInv
<1>a. /\ inputs < MaxInputs /\ inputs' = inputs + 1 /\ typing' = typing \cup {s}
      /\ Send(conn[s], "input", s)
      /\ UNCHANGED <<serve, conn, opened, epoch, client, replies, loop, sessions, finishing,
                     containers, closing>>
  BY DEF ReadInput, pty
<1>b. /\ inbox' \in Seq(Commands)
      /\ \A o, x : Queued(o, x)' <=> (Queued(o, x) \/ (Up(conn[s]) /\ o = "input" /\ x = s))
      /\ \A x : Single(x) /\ ("input" = "open" /\ x = s => ~Queued("open", s)) => Single(x)'
      /\ client # "serving" => inbox' = inbox
  BY <1>a, SendEffect, Zenon DEF Ops, TypeOK
<1>c. /\ \A x : Told(x)' <=> Told(x)
      /\ \A e \in Streams : \A x : Opening(e, x)' <=> Opening(e, x)
  BY <1>a DEF Told, Opening, Opens
<1>1. TypeOK'
  BY <1>a, <1>b, BoundsAssumption DEF TypeOK
<1>2. OnceInv'
  BY <1>a, <1>b, <1>c DEF OnceInv
<1>3. RouteInv'
  BY <1>a, <1>b, <1>c DEF RouteInv
<1>4. HandedInv'
  BY <1>a, <1>b DEF HandedInv
<1>5. OwnedInv'
  BY <1>a DEF OwnedInv
<1> QED BY <1>1, <1>2, <1>3, <1>4, <1>5

\* The PtyClose goes to the stream the session belongs to.
LEMMA DetachKeeps ==
  ASSUME TermInv, NEW s \in Sessions, Detach(s) PROVE TermInv'
<1> USE DEF TermInv
<1>a. /\ serve[s] \in {"attached", "cancelled"} /\ serve' = [serve EXCEPT ![s] = "closing"]
      /\ typing' = typing \ {s} /\ Send(conn[s], "close", s)
      /\ UNCHANGED <<conn, opened, inputs, epoch, client, replies, loop, sessions, finishing,
                     containers, closing>>
  BY DEF Detach, Goto, pty
<1>b. /\ inbox' \in Seq(Commands)
      /\ \A o, x : Queued(o, x)' <=> (Queued(o, x) \/ (Up(conn[s]) /\ o = "close" /\ x = s))
      /\ \A x : Single(x) /\ ("close" = "open" /\ x = s => ~Queued("open", s)) => Single(x)'
      /\ client # "serving" => inbox' = inbox
  BY <1>a, SendEffect, Zenon DEF Ops, TypeOK
<1>c. /\ \A x : Told(x)' <=> Told(x)
      /\ \A e \in Streams : \A x : Opening(e, x)' <=> Opening(e, x)
  BY <1>a DEF Told, Opening, Opens
<1>d. serve'[s] = "closing" /\ \A x \in Sessions : x # s => serve'[x] = serve[x]
  BY <1>a DEF TypeOK
<1>1. TypeOK'
  BY <1>a, <1>b DEF TypeOK
<1>2. OnceInv'
  BY <1>a, <1>b, <1>c, <1>d DEF OnceInv
<1>3. RouteInv'
  BY <1>a, <1>b, <1>c DEF RouteInv
<1>4. HandedInv'
  BY <1>a, <1>b, <1>d DEF HandedInv, Up, TypeOK
<1>5. OwnedInv'
  BY <1>a DEF OwnedInv
<1> QED BY <1>1, <1>2, <1>3, <1>4, <1>5

\* A handler that gives up waiting leaves everything else as it is.
LEMMA TimeoutKeeps ==
  ASSUME TermInv, NEW s \in Sessions, OpenTimeout(s) \/ InputTimeout(s) \/ CloseTimeout(s)
  PROVE  TermInv'
<1> USE DEF TermInv
<1>a. /\ \/ serve[s] \in {"opening", "closing"} /\ serve' = [serve EXCEPT ![s] = "done"]
         \/ serve[s] = "attached" /\ serve' = [serve EXCEPT ![s] = "cancelled"]
      /\ typing' \subseteq typing
      /\ UNCHANGED <<conn, opened, inputs, epoch, client, inbox, replies, loop, sessions, finishing,
                     containers, closing>>
  BY DEF OpenTimeout, InputTimeout, CloseTimeout, Goto, wire, pty
<1>c. /\ \A o, x : Queued(o, x)' <=> Queued(o, x)
      /\ \A x : Told(x)' <=> Told(x)
      /\ \A x : Single(x)' <=> Single(x)
      /\ \A e \in Streams : \A x : Opening(e, x)' <=> Opening(e, x)
  BY <1>a DEF Queued, Told, Single, Opening, Opens, Cmd
<1>d. /\ \A x \in Sessions : x # s => serve'[x] = serve[x]
      /\ \/ serve[s] \in {"opening", "closing"} /\ serve'[s] = "done"
         \/ serve[s] = "attached" /\ serve'[s] = "cancelled"
  BY <1>a DEF TypeOK
<1>1. TypeOK'
  BY <1>a, Zenon DEF TypeOK
<1>2. OnceInv'
  BY <1>a, <1>c, <1>d DEF OnceInv
<1>3. RouteInv'
  BY <1>a, <1>c DEF RouteInv
<1>4. HandedInv'
  BY <1>a, <1>c, <1>d, Zenon DEF HandedInv, TypeOK
<1>5. OwnedInv'
  BY <1>a DEF OwnedInv
<1> QED BY <1>1, <1>2, <1>3, <1>4, <1>5

\* An answer hands a session out only while Serve waits for it.
LEMMA OpenReplyKeeps ==
  ASSUME TermInv, NEW m \in replies, OpenReply(m) PROVE TermInv'
<1> USE DEF TermInv
<1>t. m \in [op : Ops, s : Sessions, ok : BOOLEAN] /\ m.s \in Sessions /\ m.ok \in BOOLEAN
  BY SMTT(30) DEF TypeOK
<1>a. /\ m.op = "open" /\ replies' = replies \ {m}
      /\ UNCHANGED <<conn, typing, inputs, epoch, client, inbox, loop, sessions, finishing,
                     containers, closing>>
  BY DEF OpenReply, pty
<1>b. m = [op |-> "open", s |-> m.s, ok |-> m.ok]
  BY <1>a, <1>t
<1>c. /\ \A o, x : Queued(o, x)' <=> Queued(o, x)
      /\ \A x : Told(x)' => Told(x)
      /\ \A x : Single(x)' <=> Single(x)
      /\ \A e \in Streams : \A x : Opening(e, x)' <=> Opening(e, x)
  BY <1>a DEF Queued, Told, Single, Opening, Opens, Cmd
<1>d. Told(m.s)
  BY <1>b, <1>t DEF Told
<1>e. /\ \A x \in Sessions : x # m.s => serve'[x] = serve[x] /\ (x \in opened' <=> x \in opened)
      /\ \/ serve'[m.s] = serve[m.s] /\ (m.s \in opened' <=> m.s \in opened)
         \/ /\ serve[m.s] = "opening"
            /\ \/ serve'[m.s] = "attached"
               \/ serve'[m.s] = "done" /\ (m.s \in opened' <=> m.s \in opened)
  <2>1. CASE serve[m.s] = "opening" /\ m.ok
    BY <2>1, <1>t DEF OpenReply, Goto, TypeOK
  <2>2. CASE serve[m.s] = "opening" /\ ~m.ok
    BY <2>2, <1>t DEF OpenReply, Goto, TypeOK
  <2>3. CASE serve[m.s] # "opening"
    BY <2>3, <1>t DEF OpenReply
  <2> QED BY <2>1, <2>2, <2>3, <1>t
<1>f. opened' \subseteq Sessions
  BY <1>t DEF OpenReply, TypeOK
<1>g. serve' \in [Sessions -> {"idle", "opening", "attached", "cancelled", "closing", "done"}]
  <2>1. \/ serve' = serve \/ serve' = [serve EXCEPT ![m.s] = "attached"]
        \/ serve' = [serve EXCEPT ![m.s] = "done"]
    BY DEF OpenReply, Goto
  <2> QED BY <2>1, <1>t, Zenon DEF TypeOK
<1>1. TypeOK'
  BY <1>a, <1>f, <1>g DEF TypeOK
<1>2. OnceInv'
  BY <1>a, <1>c, <1>d, <1>e, <1>t DEF OnceInv
<1>3. RouteInv'
  BY <1>a, <1>c DEF RouteInv
<1>4. HandedInv'
  <2>1. client = "serving" /\ conn[m.s] = epoch
    BY <1>d, <1>t DEF RouteInv
  <2> QED BY <2>1, <1>a, <1>c, <1>e, <1>f, <1>t DEF HandedInv
<1>5. OwnedInv'
  BY <1>a DEF OwnedInv
<1> QED BY <1>1, <1>2, <1>3, <1>4, <1>5

\* The other answers move Serve on, past the point where it was handed the session.
LEMMA OtherReplyKeeps ==
  ASSUME TermInv, NEW m \in replies, InputReply(m) \/ CloseReply(m) PROVE TermInv'
<1> USE DEF TermInv
<1>t. m.s \in Sessions
  BY DEF TypeOK
<1>a. /\ m.op # "open" /\ replies' = replies \ {m}
      /\ \/ serve' = serve
         \/ serve[m.s] = "attached" /\ serve' = [serve EXCEPT ![m.s] = "cancelled"]
         \/ serve[m.s] = "closing" /\ serve' = [serve EXCEPT ![m.s] = "done"]
      /\ typing' \subseteq typing
      /\ UNCHANGED <<conn, opened, inputs, epoch, client, inbox, loop, sessions, finishing,
                     containers, closing>>
  BY DEF InputReply, CloseReply, Goto, pty
<1>c. /\ \A o, x : Queued(o, x)' <=> Queued(o, x)
      /\ \A x : Told(x)' => Told(x)
      /\ \A x : Single(x)' <=> Single(x)
      /\ \A e \in Streams : \A x : Opening(e, x)' <=> Opening(e, x)
  BY <1>a DEF Queued, Told, Single, Opening, Opens, Cmd
<1>d. /\ \A x \in Sessions : x # m.s => serve'[x] = serve[x]
      /\ \/ serve'[m.s] = serve[m.s]
         \/ serve[m.s] = "attached" /\ serve'[m.s] = "cancelled"
         \/ serve[m.s] = "closing" /\ serve'[m.s] = "done"
  BY <1>a, <1>t DEF TypeOK
<1>1. TypeOK'
  BY <1>a, <1>t, ZenonT(30) DEF TypeOK
<1>2. OnceInv'
  BY <1>a, <1>c, <1>d, <1>t DEF OnceInv
<1>3. RouteInv'
  BY <1>a, <1>c DEF RouteInv
<1>4. HandedInv'
  BY <1>a, <1>c, <1>d, <1>t, Zenon DEF HandedInv, TypeOK
<1>5. OwnedInv'
  BY <1>a DEF OwnedInv
<1> QED BY <1>1, <1>2, <1>3, <1>4, <1>5

-----------------------------------------------------------------------------
(* The agent's steps.                                                      *)

\* The PtyOpen leaves the stream; its session is with the receive loop, or refused.
LEMMA RecvOpenKeeps == ASSUME TermInv, RecvOpen PROVE TermInv'
<1> USE DEF TermInv
<1> DEFINE s == Head(inbox).s
           w == [at |-> "create", s |-> s]
<1>t. inbox \in Seq(Commands) /\ epoch \in Streams /\ loop \in [Streams -> Loops]
      /\ replies \subseteq [op : Ops, s : Sessions, ok : BOOLEAN]
  BY DEF TypeOK
<1>a. /\ Up(epoch) /\ loop[epoch] = Idle /\ inbox # <<>> /\ Head(inbox).op = "open"
      /\ inbox' = Tail(inbox)
      /\ \/ Reply(epoch, "open", s, FALSE) /\ loop' = loop
         \/ Works(epoch, w) /\ replies' = replies
      /\ UNCHANGED <<serve, conn, opened, typing, inputs, epoch, client, sessions, finishing,
                     containers, closing>>
  BY Zenon DEF RecvOpen, leader, pty
<1>b. /\ inbox' \in Seq(Commands) /\ Head(inbox) \in Commands
      /\ \A o, x : Queued(o, x) <=> (Queued(o, x)' \/ Head(inbox) = Cmd(o, x))
      /\ \A x : Single(x) => Single(x)' /\ (Head(inbox) = Cmd("open", x) => ~Queued("open", x)')
  <2>1. inbox # <<>> /\ inbox' = Tail(inbox)
    BY <1>a, Zenon
  <2> QED BY <2>1, <1>t, TailQueued, Zenon
<1>c. s \in Sessions /\ Head(inbox) = Cmd("open", s)
  BY <1>a, <1>b DEF Commands, Cmd
<1>d. \A o, x : Head(inbox) = Cmd(o, x) <=> o = "open" /\ x = s
  BY <1>c DEF Cmd
<1>e. /\ ~Told(s) /\ conn[s] = epoch /\ s \notin opened /\ serve[s] # "idle"
      /\ \A e \in Streams : ~Opening(e, s)
  BY <1>b, <1>c DEF OnceInv, RouteInv
<1>f. w \in Loops /\ \A x : Opens(w, x) <=> x = s
  BY <1>c DEF Loops, Opens
<1>n. \A x : ~Opens(Idle, x) /\ Idle # [at |-> "insert", s |-> x]
  BY DEF Idle, Opens
<1> HIDE DEF s, w
<1>p. PICK ep \in Streams : ep = epoch
  BY <1>t
<1>g. /\ \/ \A x : Told(x)' <=> (Told(x) \/ x = s)
         \/ replies' = replies /\ \A x : Told(x)' <=> Told(x)
      /\ replies' \subseteq [op : Ops, s : Sessions, ok : BOOLEAN]
      /\ loop' \in [Streams -> Loops]
      /\ \/ \A e \in Streams : \A x : Opening(e, x)' <=> Opening(e, x)
         \/ /\ \A x : Told(x)' <=> Told(x)
            /\ \A e \in Streams : \A x : Opening(e, x)' <=> (Opening(e, x) \/ (e = ep /\ x = s))
      /\ \A e \in Streams : \A x : loop[e] = [at |-> "insert", s |-> x] => loop'[e] = loop[e]
  <2>1. CASE Reply(epoch, "open", s, FALSE) /\ loop' = loop
    <3>1. /\ replies' \subseteq [op : Ops, s : Sessions, ok : BOOLEAN]
          /\ \A x : Told(x)' <=> (Told(x) \/ (Up(epoch) /\ "open" = "open" /\ x = s))
      BY <2>1, <1>c, <1>t, ReplyEffect, Zenon DEF Ops
    <3>2. \A e \in Streams : \A x : Opening(e, x)' <=> Opening(e, x)
      BY <2>1 DEF Opening, Opens
    <3> QED BY <2>1, <3>1, <3>2, <1>a, <1>t
  <2>2. CASE Works(ep, w) /\ replies' = replies
    <3>1. /\ loop' \in [Streams -> Loops]
          /\ loop'[ep] = w /\ \A f \in Streams : f # ep => loop'[f] = loop[f]
          /\ \A f \in Streams : \A x : f # ep => (Opening(f, x)' <=> Opening(f, x))
          /\ \A x : Opening(ep, x)' <=> Opens(w, x)
      BY <2>2, <1>t, <1>f, WorksEffect
    <3>2. \A x : Told(x)' <=> Told(x)
      BY <2>2 DEF Told
    <3>3. \A x : ~Opening(ep, x) /\ loop[ep] # [at |-> "insert", s |-> x]
      BY <1>a, <1>n, <1>p, Zenon DEF Opening
    <3>4. \A e \in Streams : \A x : Opening(e, x)' <=> (Opening(e, x) \/ (e = ep /\ x = s))
      BY <3>1, <3>3, <1>f, Zenon
    <3>5. \A e \in Streams : \A x : loop[e] = [at |-> "insert", s |-> x] => loop'[e] = loop[e]
      BY <3>1, <3>3
    <3> QED BY <2>2, <3>1, <3>2, <3>4, <3>5, <1>t
  <2> QED BY <1>a, <1>p, <2>1, <2>2, Zenon
<1>1. TypeOK'
  BY <1>a, <1>b, <1>g DEF TypeOK
<1>u. UNCHANGED <<serve, conn, opened, epoch, client>> /\ client = "serving"
  BY <1>a, Zenon DEF Up
<1>q. /\ \A x : Queued("open", x)' => Queued("open", x) /\ x # s
      /\ \A x : Single(x) => Single(x)'
  <2>1. Single(s)
    BY <1>c, Zenon DEF OnceInv
  <2> QED BY <1>b, <1>c, <2>1, Zenon
<1>2. OnceInv'
  BY <1>u, <1>q, <1>e, <1>g DEF OnceInv
<1>3. RouteInv'
  BY <1>u, <1>q, <1>e, <1>g, <1>p, Zenon DEF RouteInv
<1>4. HandedInv'
  BY <1>a, <1>b, <1>d DEF HandedInv
<1>5. OwnedInv'
  BY <1>a, <1>g DEF OwnedInv
<1> QED BY <1>1, <1>2, <1>3, <1>4, <1>5

\* No container loses the entry, the teardown or the receive loop it belongs to.
LEMMA OwnedKeeps ==
  ASSUME OwnedInv, containers' \subseteq containers,
         \A x \in containers' : x \in sessions \cup finishing => x \in sessions' \cup finishing',
         \A e \in Streams : \A x : loop[e] = [at |-> "insert", s |-> x] =>
            loop'[e] = loop[e] \/ x \in sessions'
  PROVE  OwnedInv'
<1> SUFFICES ASSUME NEW x \in containers'
             PROVE  \/ x \in sessions' \cup finishing'
                    \/ \E e \in Streams : loop'[e] = [at |-> "insert", s |-> x]
  BY DEF OwnedInv
<1>1. x \in sessions \cup finishing \/ \E e \in Streams : loop[e] = [at |-> "insert", s |-> x]
  BY DEF OwnedInv
<1> QED BY <1>1

\* A step of the agent that brings no PtyOpen or answer to one into being, adds no
\* session and takes away no PtyClose or entry of CloseAll that is still needed.
LEMMA CalmKeeps ==
  ASSUME TermInv, TypeOK', UNCHANGED <<serve, conn, opened, epoch, client>>,
         \A x : Queued("open", x)' => Queued("open", x),
         \A x : Single(x) => Single(x)',
         \A x : Told(x)' => Told(x),
         \A e \in Streams : \A x : Opening(e, x)' => Opening(e, x),
         client # "serving" => inbox' = inbox /\ replies' = replies,
         sessions' \subseteq sessions,
         \A x \in sessions' : Queued("close", x) => Queued("close", x)',
         \A x \in sessions' : x \in Range(closing) => x \in Range(closing'),
         OwnedInv'
  PROVE  TermInv'
<1> USE DEF TermInv
<1>1. OnceInv'
  BY DEF OnceInv
<1>2. RouteInv'
  BY DEF RouteInv
<1>3. HandedInv'
  BY DEF HandedInv
<1> QED BY <1>1, <1>2, <1>3

\* A loop that is put to work on something else than a PtyOpen opens nothing.
LEMMA NotOpening ==
  /\ \A x : ~Opens(Idle, x) /\ Idle # [at |-> "insert", s |-> x]
  /\ \A l, s, x : l \in {"remove", "write"} =>
       ~Opens([at |-> l, s |-> s], x) /\ [at |-> l, s |-> s] # [at |-> "insert", s |-> x]
  /\ Idle \in Loops
  /\ \A l \in {"create", "insert", "remove", "write"}, s \in Sessions : [at |-> l, s |-> s] \in Loops
BY Zenon DEF Opens, Idle, Loops

\* The agent hands input to a session it knows or answers at once, and opens nothing.
LEMMA RecvInputKeeps == ASSUME TermInv, RecvInput PROVE TermInv'
<1> USE DEF TermInv
<1> DEFINE s == Head(inbox).s
           w == [at |-> "write", s |-> s]
<1>t. /\ inbox \in Seq(Commands) /\ epoch \in Streams /\ loop \in [Streams -> Loops]
      /\ replies \subseteq [op : Ops, s : Sessions, ok : BOOLEAN]
  BY DEF TypeOK
<1>p. PICK ep \in Streams : ep = epoch
  BY <1>t
<1>a. /\ Up(ep) /\ loop[ep] = Idle /\ inbox # <<>> /\ Head(inbox).op = "input"
      /\ inbox' = Tail(inbox)
      /\ \/ Works(ep, w) /\ replies' = replies
         \/ (\E ok \in BOOLEAN : Reply(ep, "input", s, ok)) /\ loop' = loop
      /\ UNCHANGED <<serve, conn, opened, typing, inputs, epoch, client, sessions, finishing,
                     containers, closing>>
  BY <1>p DEF RecvInput, leader, pty
<1>b. /\ inbox' \in Seq(Commands) /\ Head(inbox) \in Commands
      /\ \A o, x : Queued(o, x) <=> (Queued(o, x)' \/ Head(inbox) = Cmd(o, x))
      /\ \A x : Single(x) => Single(x)' /\ (Head(inbox) = Cmd("open", x) => ~Queued("open", x)')
  <2>1. inbox # <<>> /\ inbox' = Tail(inbox)
    BY <1>a, Zenon
  <2> QED BY <2>1, <1>t, TailQueued, Zenon
<1>h. Head(inbox) \in Commands /\ Head(inbox).op = "input"
  BY <1>a, <1>b, Zenon
<1>c. s \in Sessions /\ \A x : Head(inbox) # Cmd("close", x)
  BY <1>h DEF Commands, Cmd
<1>d. /\ w \in Loops /\ \A x : ~Opens(w, x) /\ w # [at |-> "insert", s |-> x]
      /\ Idle \in Loops /\ \A x : ~Opens(Idle, x) /\ Idle # [at |-> "insert", s |-> x]
  BY <1>c, NotOpening
<1> HIDE DEF s, w
<1>e. /\ loop' \in [Streams -> Loops]
      /\ \A e \in Streams : \A x : Opening(e, x)' => Opening(e, x)
      /\ \A e \in Streams : \A x : loop[e] = [at |-> "insert", s |-> x] => loop'[e] = loop[e]
  <2>1. CASE loop' = loop
    BY <2>1, <1>t DEF Opening, Opens
  <2>2. CASE Works(ep, w)
    <3>1. \A x : loop[ep] # [at |-> "insert", s |-> x]
      BY <1>a, <1>d, Zenon
    <3> QED BY <2>2, <3>1, <1>t, <1>d, WorksEffect, Zenon
  <2> QED BY <2>1, <2>2, <1>a
<1>f. replies' \subseteq [op : Ops, s : Sessions, ok : BOOLEAN] /\ \A x : Told(x)' => Told(x)
  <2>1. CASE replies' = replies
    BY <2>1, <1>t DEF Told
  <2>2. ASSUME NEW k \in BOOLEAN, Reply(ep, "input", s, k)
        PROVE  replies' \subseteq [op : Ops, s : Sessions, ok : BOOLEAN] /\ \A x : Told(x)' => Told(x)
    <3>1. Reply(ep, "input", s, TRUE) \/ Reply(ep, "input", s, FALSE)
      BY <2>2, Zenon
    <3> QED BY <3>1, <1>t, <1>c, ReplyEffect, Zenon DEF Ops
  <2> QED BY <2>1, <2>2, <1>a
<1>1. TypeOK'
  BY <1>a, <1>b, <1>e, <1>f DEF TypeOK
<1>2. OwnedInv'
  <2>1. UNCHANGED <<sessions, finishing, containers>>
    BY <1>a, Zenon
  <2> QED BY <2>1, <1>e, OwnedKeeps, Zenon
<1> QED BY <1>1, <1>2, <1>a, <1>b, <1>c, <1>e, <1>f, CalmKeeps, Zenon DEF Up

\* Close takes its session out of the table before its command is gone.
LEMMA RecvCloseKeeps == ASSUME TermInv, RecvClose PROVE TermInv'
<1> USE DEF TermInv
<1> DEFINE s == Head(inbox).s
           w == [at |-> "remove", s |-> s]
<1>t. /\ inbox \in Seq(Commands) /\ epoch \in Streams /\ loop \in [Streams -> Loops]
      /\ replies \subseteq [op : Ops, s : Sessions, ok : BOOLEAN]
  BY DEF TypeOK
<1>p. PICK ep \in Streams : ep = epoch
  BY <1>t
<1>a. /\ Up(ep) /\ loop[ep] = Idle /\ inbox # <<>> /\ Head(inbox).op = "close"
      /\ inbox' = Tail(inbox)
      /\ \/ /\ sessions' = sessions \ {s} /\ finishing' = finishing \cup {s}
            /\ Works(ep, w) /\ replies' = replies
         \/ /\ s \notin sessions /\ Reply(ep, "close", s, TRUE)
            /\ UNCHANGED <<sessions, finishing, loop>>
      /\ UNCHANGED <<serve, conn, opened, typing, inputs, epoch, client, containers, closing>>
  BY <1>p, ZenonT(30) DEF RecvClose, finish, leader
<1>b. /\ inbox' \in Seq(Commands) /\ Head(inbox) \in Commands
      /\ \A o, x : Queued(o, x) <=> (Queued(o, x)' \/ Head(inbox) = Cmd(o, x))
      /\ \A x : Single(x) => Single(x)' /\ (Head(inbox) = Cmd("open", x) => ~Queued("open", x)')
  <2>1. inbox # <<>> /\ inbox' = Tail(inbox)
    BY <1>a, Zenon
  <2> QED BY <2>1, <1>t, TailQueued, Zenon
<1>h. Head(inbox) \in Commands /\ Head(inbox).op = "close"
  BY <1>a, <1>b, Zenon
<1>c. s \in Sessions /\ \A x : Head(inbox) = Cmd("close", x) => x = s
  BY <1>h DEF Commands, Cmd
<1>d. /\ w \in Loops /\ \A x : ~Opens(w, x) /\ w # [at |-> "insert", s |-> x]
      /\ Idle \in Loops /\ \A x : ~Opens(Idle, x) /\ Idle # [at |-> "insert", s |-> x]
  BY <1>c, NotOpening
<1> HIDE DEF s, w
<1>e. /\ loop' \in [Streams -> Loops]
      /\ \A e \in Streams : \A x : Opening(e, x)' => Opening(e, x)
      /\ \A e \in Streams : \A x : loop[e] = [at |-> "insert", s |-> x] => loop'[e] = loop[e]
  <2>1. CASE loop' = loop
    BY <2>1, <1>t DEF Opening, Opens
  <2>2. CASE Works(ep, w)
    <3>1. \A x : loop[ep] # [at |-> "insert", s |-> x]
      BY <1>a, <1>d, Zenon
    <3> QED BY <2>2, <3>1, <1>t, <1>d, WorksEffect, Zenon
  <2> QED BY <2>1, <2>2, <1>a, Zenon
<1>f. replies' \subseteq [op : Ops, s : Sessions, ok : BOOLEAN] /\ \A x : Told(x)' => Told(x)
  <2>1. CASE replies' = replies
    BY <2>1, <1>t DEF Told
  <2>2. CASE Reply(ep, "close", s, TRUE)
    BY <2>2, <1>t, <1>c, ReplyEffect, Zenon DEF Ops
  <2> QED BY <2>1, <2>2, <1>a, Zenon
<1>g. sessions' \subseteq sessions /\ s \notin sessions' /\ finishing' \subseteq Sessions
      /\ sessions \cup finishing \subseteq sessions' \cup finishing'
  BY <1>a, <1>c, Zenon DEF TypeOK
<1>1. TypeOK'
  BY <1>a, <1>b, <1>e, <1>f, <1>g DEF TypeOK
<1>2. OwnedInv'
  <2>1. containers' = containers
    BY <1>a, Zenon
  <2> QED BY <2>1, <1>e, <1>g, OwnedKeeps, Zenon
<1> QED BY <1>1, <1>2, <1>a, <1>b, <1>c, <1>e, <1>f, <1>g, CalmKeeps, Zenon DEF Up

\* A PtyOpen is answered: the receive loop is free, and only the answer is left.
LEMMA AnsweredKeeps ==
  ASSUME TermInv, TypeOK', UNCHANGED <<serve, conn, opened, epoch, client, inbox, closing>>,
         NEW e \in Streams, NEW s \in Sessions, Opening(e, s),
         \A f \in Streams : \A x : Opening(f, x)' => Opening(f, x) /\ f # e,
         \A x : Told(x)' => Told(x) \/ (Up(e) /\ x = s),
         client # "serving" => replies' = replies,
         sessions' \subseteq sessions \cup {s},
         OwnedInv'
  PROVE  TermInv'
<1> USE DEF TermInv
<1>a. /\ \A o, x : Queued(o, x)' <=> Queued(o, x)
      /\ \A x : Single(x)' <=> Single(x)
  BY SMTT(30), Zenon DEF Queued, Single, Cmd
<1>b. conn[s] = e /\ s \notin opened /\ ~Queued("open", s) /\ ~Told(s) /\ serve[s] # "idle"
      /\ \A f \in Streams : ~Opening(f, s)'
  BY SMTT(30) DEF RouteInv, OnceInv
<1>1. OnceInv'
  BY <1>a, <1>b, ZenonT(30) DEF OnceInv
<1>2. RouteInv'
  BY <1>a, <1>b, Zenon DEF RouteInv, Up
<1>3. HandedInv'
  <2> SUFFICES ASSUME NEW x \in opened
               PROVE  /\ serve[x] \notin {"idle", "opening"}
                      /\ x \in sessions' =>
                           /\ conn[x] = epoch
                           /\ client = "closeall" => x \in Range(closing)
                           /\ client = "serving" /\ serve[x] \in {"closing", "done"} =>
                                Queued("close", x)'
    BY Zenon DEF HandedInv
  <2>1. x # s /\ (x \in sessions' => x \in sessions)
    BY <1>b, Zenon
  <2> QED BY <1>a, <2>1, Zenon DEF HandedInv
<1> QED BY <1>1, <1>2, <1>3

\* Create refused, or the session inserted.
LEMMA OpenEndsKeeps ==
  ASSUME TermInv, NEW e \in Streams, StartFails(e) \/ InsertSession(e) PROVE TermInv'
<1> USE DEF TermInv
<1> DEFINE s == loop[e].s
<1>t. /\ loop \in [Streams -> Loops]
      /\ replies \subseteq [op : Ops, s : Sessions, ok : BOOLEAN]
  BY SMTT(30) DEF TypeOK
<1>a. /\ \/ /\ loop[e].at = "create" /\ Reply(e, "open", s, FALSE)
            /\ UNCHANGED <<sessions, finishing, containers>>
         \/ /\ loop[e].at = "insert" /\ sessions' = sessions \cup {s} /\ Reply(e, "open", s, TRUE)
            /\ UNCHANGED <<finishing, containers>>
      /\ Works(e, Idle)
      /\ UNCHANGED <<serve, conn, opened, typing, inputs, epoch, client, inbox, closing>>
  BY Zenon DEF StartFails, InsertSession, leader, pty
<1>b. /\ loop[e].at \in {"create", "insert"}
      /\ s \in Sessions /\ loop[e] = [at |-> loop[e].at, s |-> s]
  <2>1. loop[e].at \in {"create", "insert"}
    BY <1>a, Zenon
  <2> QED BY <2>1, <1>t, BusyLoop
<1>c. Opening(e, s) /\ \A x : loop[e] = [at |-> "insert", s |-> x] => x = s /\ loop[e].at = "insert"
  BY <1>b DEF Opening, Opens
<1> HIDE DEF s
<1>d. /\ loop' \in [Streams -> Loops]
      /\ \A f \in Streams : \A x : Opening(f, x)' => Opening(f, x) /\ f # e
      /\ \A f \in Streams : f # e => loop'[f] = loop[f]
  <2>1. Works(e, Idle)
    BY <1>a, Zenon
  <2> QED BY <2>1, <1>t, NotOpening, WorksEffect, Zenon
<1>e. /\ replies' \subseteq [op : Ops, s : Sessions, ok : BOOLEAN]
      /\ \A x : Told(x)' => Told(x) \/ (Up(e) /\ x = s)
      /\ client # "serving" => replies' = replies
  BY <1>a, <1>b, <1>t, ReplyEffect, Zenon DEF Ops
<1>1. TypeOK'
  BY <1>a, <1>b, <1>d, <1>e, Zenon DEF TypeOK
<1>2. OwnedInv'
  <2>1. /\ sessions \cup finishing \subseteq sessions' \cup finishing' /\ containers' = containers
        /\ loop[e].at = "insert" => s \in sessions'
    BY <1>a, Zenon
  <2>2. \A f \in Streams : \A x : loop[f] = [at |-> "insert", s |-> x] =>
           loop'[f] = loop[f] \/ x \in sessions'
    BY <2>1, <1>c, <1>d, Zenon
  <2> QED BY <2>1, <2>2, OwnedKeeps, Zenon
<1>3. sessions' \subseteq sessions \cup {s}
  BY <1>a, Zenon
<1> QED BY <1>1, <1>2, <1>3, <1>a, <1>b, <1>c, <1>d, <1>e, AnsweredKeeps, Zenon

\* The container starts before the session is known.
LEMMA StartContainerKeeps ==
  ASSUME TermInv, NEW e \in Streams, StartContainer(e) PROVE TermInv'
<1> USE DEF TermInv
<1> DEFINE who == loop[e].s
           w == [at |-> "insert", s |-> who]
<1>t. loop \in [Streams -> Loops]
  BY DEF TypeOK
<1>a. /\ loop[e].at = "create" /\ Works(e, w) /\ containers' = containers \cup {who}
      /\ UNCHANGED <<serve, conn, opened, typing, inputs, epoch, client, inbox, replies, sessions,
                     finishing, closing>>
  BY Zenon DEF StartContainer, leader, wire
<1>b. who \in Sessions /\ loop[e] = [at |-> "create", s |-> who]
  <2>1. loop[e].at = "create"
    BY <1>a, Zenon
  <2> QED BY <2>1, <1>t, BusyLoop
<1>c. /\ w \in Loops /\ \A x : Opens(w, x) => Opening(e, x)
      /\ \A x : loop[e] # [at |-> "insert", s |-> x]
  BY <1>b, NotOpening DEF Opening, Opens
<1> HIDE DEF who
<1>d. /\ loop' \in [Streams -> Loops] /\ loop'[e] = w
      /\ \A f \in Streams : \A x : Opening(f, x)' => Opening(f, x)
      /\ \A f \in Streams : f # e => loop'[f] = loop[f]
  <2> HIDE DEF w
  <2> QED BY <1>a, <1>t, <1>c, WorksEffect
<1>e. /\ \A o, x : Queued(o, x)' <=> Queued(o, x)
      /\ \A x : Single(x)' <=> Single(x)
      /\ \A x : Told(x)' <=> Told(x)
  BY <1>a DEF Queued, Single, Told, Cmd
<1>1. TypeOK'
  BY <1>a, <1>b, <1>d DEF TypeOK
<1>2. OwnedInv'
  <2>1. ASSUME NEW x \in containers'
        PROVE  x \in sessions' \cup finishing' \/ \E f \in Streams : loop'[f] = [at |-> "insert", s |-> x]
    <3>1. CASE x = who
      BY <3>1, <1>d, Zenon
    <3>2. CASE x \in containers
      <4>1. x \in sessions \cup finishing \/ \E f \in Streams : loop[f] = [at |-> "insert", s |-> x]
        BY <3>2 DEF OwnedInv
      <4> HIDE DEF w
      <4> QED BY <4>1, <1>a, <1>c, <1>d
    <3> QED BY <3>1, <3>2, <1>a
  <2> QED BY <2>1 DEF OwnedInv
<1>3. UNCHANGED <<serve, conn, opened, epoch, client, inbox, replies, sessions, closing>>
  BY <1>a, Zenon
<1> QED BY <1>1, <1>2, <1>3, <1>d, <1>e, CalmKeeps

\* Write and Close return.
LEMMA ReturnKeeps ==
  ASSUME TermInv, NEW e \in Streams, WriteReturns(e) \/ CloseReturns(e) PROVE TermInv'
<1> USE DEF TermInv
<1>t. /\ loop \in [Streams -> Loops]
      /\ replies \subseteq [op : Ops, s : Sessions, ok : BOOLEAN]
  BY SMTT(30) DEF TypeOK
<1>a. /\ loop[e].at \in {"write", "remove"} /\ Works(e, Idle)
      /\ \E op \in {"input", "close"}, ok \in BOOLEAN : Reply(e, op, loop[e].s, ok)
      /\ UNCHANGED <<serve, conn, opened, typing, inputs, epoch, client, inbox, sessions,
                     finishing, containers, closing>>
  BY Zenon DEF WriteReturns, CloseReturns, leader, pty
<1>b. loop[e].s \in Sessions /\ \A x : loop[e] # [at |-> "insert", s |-> x]
  <2>1. loop[e].at \in {"write", "remove"}
    BY <1>a, Zenon
  <2> QED BY <2>1, <1>t, BusyLoop
<1>d. /\ loop' \in [Streams -> Loops]
      /\ \A f \in Streams : \A x : Opening(f, x)' => Opening(f, x)
      /\ \A f \in Streams : f # e => loop'[f] = loop[f]
  <2>1. Works(e, Idle)
    BY <1>a, Zenon
  <2> QED BY <2>1, <1>t, NotOpening, WorksEffect, Zenon
<1>e. /\ replies' \subseteq [op : Ops, s : Sessions, ok : BOOLEAN]
      /\ \A x : Told(x)' => Told(x)
      /\ client # "serving" => replies' = replies
  <2>1. PICK op \in {"input", "close"} : \E ok \in BOOLEAN : Reply(e, op, loop[e].s, ok)
    BY <1>a
  <2>2. Reply(e, op, loop[e].s, TRUE) \/ Reply(e, op, loop[e].s, FALSE)
    BY <2>1, Zenon
  <2> QED BY <2>2, <1>b, <1>t, ReplyEffect, ZenonT(30) DEF Ops
<1>f. /\ \A o, x : Queued(o, x)' <=> Queued(o, x)
      /\ \A x : Single(x)' <=> Single(x)
  BY <1>a DEF Queued, Single, Cmd
<1>1. TypeOK'
  BY <1>a, <1>d, <1>e DEF TypeOK
<1>2. OwnedInv'
  <2>1. UNCHANGED <<sessions, finishing, containers>>
    BY <1>a, Zenon
  <2>2. \A f \in Streams : \A x : loop[f] = [at |-> "insert", s |-> x] => loop'[f] = loop[f]
    BY <1>b, <1>d, Zenon
  <2> QED BY <2>1, <2>2, OwnedKeeps, Zenon
<1>3. UNCHANGED <<serve, conn, opened, epoch, client, inbox, sessions, closing>>
  BY <1>a, Zenon
<1> QED BY <1>1, <1>2, <1>3, <1>e, <1>d, <1>f, CalmKeeps

-----------------------------------------------------------------------------
(* Teardown and the stream.                                                *)

\* What a step of a teardown changes: sessions and containers only go.
TornDown ==
  /\ sessions' \subseteq sessions /\ finishing' \subseteq Sessions
  /\ containers' \subseteq containers
  /\ \A x \in containers' : x \in sessions \cup finishing => x \in sessions' \cup finishing'
  /\ closing' \in Seq(Sessions)
  /\ \A x \in sessions' : x \in Range(closing) => x \in Range(closing')

\* pump or CloseAll ends a session, its container is removed, or CloseAll goes on
\* to the next: a session leaves CloseAll's snapshot only when it is out of the table.
LEMMA TeardownKeeps ==
  ASSUME TermInv, \/ \E s \in Sessions : PumpEnds(s) \/ removeContainer(s)
                  \/ CloseAllFinish
  PROVE  TermInv'
<1> USE DEF TermInv
<1>t. closing \in Seq(Sessions) /\ sessions \subseteq Sessions /\ finishing \subseteq Sessions
  BY DEF TypeOK
<1>a. UNCHANGED <<serve, conn, opened, typing, inputs, epoch, client, inbox, replies, loop>>
  BY DEF PumpEnds, removeContainer, CloseAllFinish, leader, wire
<1>b. TornDown
  <2> USE DEF TornDown
  <2>1. ASSUME NEW s \in Sessions, PumpEnds(s) PROVE TornDown
    <3>1. /\ sessions' = sessions \ {s} /\ finishing' = finishing \cup {s}
          /\ closing' = Without(closing, s) /\ containers' = containers
      BY <2>1 DEF PumpEnds, finish
    <3> QED BY <3>1, <1>t, WithoutOne
  <2>2. ASSUME NEW s \in Sessions, removeContainer(s) PROVE TornDown
    <3>1. /\ finishing' = finishing \ {s} /\ containers' = containers \ {s}
          /\ UNCHANGED <<sessions, closing>>
      BY <2>2 DEF removeContainer
    <3> QED BY <3>1, <1>t
  <2>3. ASSUME CloseAllFinish PROVE TornDown
    <3> DEFINE h == Head(closing)
    <3>1. /\ closing # <<>> /\ containers' = containers
          /\ \/ sessions' = sessions \ {h} /\ finishing' = finishing \cup {h} /\ closing' = closing
             \/ h \notin sessions /\ closing' = Tail(closing) /\ UNCHANGED <<sessions, finishing>>
      BY <2>3 DEF CloseAllFinish, finish
    <3>2. /\ h \in Sessions /\ Tail(closing) \in Seq(Sessions)
          /\ \A x \in Range(closing) : x # h => x \in Range(Tail(closing))
      <4>1. /\ h \in Sessions /\ Tail(closing) \in Seq(Sessions) /\ h = closing[1]
            /\ Len(Tail(closing)) = Len(closing) - 1 /\ Len(closing) \in Nat
            /\ \A i \in 1..Len(Tail(closing)) : Tail(closing)[i] = closing[i + 1]
        BY <3>1, <1>t
      <4>2. ASSUME NEW x \in Range(closing), x # h PROVE x \in Range(Tail(closing))
        <5>1. PICK i \in 1..Len(closing) : closing[i] = x
          BY <1>t DEF Range
        <5>2. i - 1 \in 1..Len(Tail(closing)) /\ (i - 1) + 1 = i
          BY <5>1, <4>1, <4>2
        <5>3. Tail(closing)[i - 1] = x
          BY <5>1, <5>2, <4>1
        <5> QED BY <5>2, <5>3, <4>1, InRange, Zenon
      <4> QED BY <4>1, <4>2
    <3> HIDE DEF h
    <3> QED BY <3>1, <3>2, <1>t, Zenon
  <2> QED BY <2>1, <2>2, <2>3
<1>c. /\ \A o, x : Queued(o, x)' <=> Queued(o, x)
      /\ \A x : Told(x)' <=> Told(x)
      /\ \A x : Single(x)' <=> Single(x)
      /\ \A e \in Streams : \A x : Opening(e, x)' <=> Opening(e, x)
  BY <1>a DEF Queued, Told, Single, Opening, Opens, Cmd
<1>1. TypeOK'
  BY <1>a, <1>b DEF TypeOK, TornDown
<1>2. OwnedInv'
  BY <1>a, <1>b DEF OwnedInv, TornDown
<1> QED BY <1>1, <1>2, <1>a, <1>b, <1>c, CalmKeeps DEF TornDown

\* The stream drops, CloseAll takes its snapshot, and the next stream starts once
\* that is worked off.
LEMMA StreamKeeps ==
  ASSUME TermInv, StreamDrops \/ CloseAll \/ Reconnect PROVE TermInv'
<1> USE DEF TermInv
<1>a. UNCHANGED <<serve, conn, opened, typing, inputs, loop, sessions, finishing, containers>>
  BY DEF StreamDrops, CloseAll, Reconnect, leader, pty
<1>b. \A e \in Streams : \A x : Opening(e, x)' <=> Opening(e, x)
  BY <1>a DEF Opening, Opens
<1>5. OwnedInv'
  BY <1>a DEF OwnedInv
<1>6. CASE StreamDrops
  <2>1. /\ client' = "ended" /\ inbox' = <<>> /\ replies' = {} /\ UNCHANGED <<epoch, closing>>
    BY <1>6 DEF StreamDrops
  <2>0. epoch < MaxStreams
    BY <1>6 DEF StreamDrops
  <2>2. Len(inbox') = 0
    BY <2>1
  <2>3. /\ \A x : ~Queued("open", x)' /\ ~Told(x)' /\ Single(x)'
    BY <2>1, <2>2 DEF Queued, Told, Single, Cmd
  <2>4. TypeOK'
    BY <1>a, <2>1 DEF TypeOK
  <2>5. OnceInv'
    BY <1>a, <1>b, <2>3 DEF OnceInv
  <2>6. RouteInv'
    BY <1>a, <1>b, <2>0, <2>1, <2>3 DEF RouteInv
  <2>7. HandedInv'
    BY <1>a, <2>1 DEF HandedInv
  <2> QED BY <2>4, <2>5, <2>6, <2>7, <1>5
<1>c. ASSUME UNCHANGED <<inbox, replies>>
      PROVE  /\ \A o, x : Queued(o, x)' <=> Queued(o, x)
             /\ \A x : Told(x)' <=> Told(x)
             /\ \A x : Single(x)' <=> Single(x)
  BY <1>c DEF Queued, Told, Single, Cmd
<1>7. CASE CloseAll
  <2>1. /\ client = "ended" /\ client' = "closeall" /\ UNCHANGED <<epoch, inbox, replies>>
        /\ closing' \in Bijection(1..Cardinality(sessions), sessions) /\ Cardinality(sessions) \in Nat
    BY <1>7 DEF CloseAll, Orders, wire
  <2>2. Range(closing') = sessions /\ closing' \in [1..Cardinality(sessions) -> sessions]
    BY <2>1 DEF Bijection, Injection, Surjection, Range
  <2>3. closing' \in Seq(Sessions)
    <3>1. closing' \in [1..Cardinality(sessions) -> Sessions]
      BY <2>2 DEF TypeOK
    <3> QED BY <2>1, <3>1
  <2>4. TypeOK'
    BY <1>a, <2>1, <2>3 DEF TypeOK
  <2>5. OnceInv'
    BY <1>a, <1>b, <1>c, <2>1 DEF OnceInv
  <2>6. RouteInv'
    BY <1>a, <1>b, <1>c, <2>1 DEF RouteInv
  <2>7. HandedInv'
    BY <1>a, <2>1, <2>2 DEF HandedInv
  <2> QED BY <2>4, <2>5, <2>6, <2>7, <1>5
<1>8. CASE Reconnect
  <2>1. /\ client = "closeall" /\ closing = <<>> /\ client' = "serving" /\ epoch' = epoch + 1
        /\ UNCHANGED <<inbox, replies, closing>>
    BY <1>8 DEF Reconnect, wire
  <2>2. \A s \in opened : s \notin sessions
    BY <2>1 DEF HandedInv, Range
  <2>3. \A x : ~Queued("open", x) /\ ~Told(x)
    <3>1. inbox = <<>> /\ replies = {}
      BY <2>1 DEF RouteInv
    <3>2. 1..Len(inbox) = {}
      BY <3>1
    <3> QED BY <3>1, <3>2 DEF Queued, Told
  <2>4. TypeOK'
    <3>1. epoch' \in Streams
      BY <2>1, BoundsAssumption DEF RouteInv, TypeOK, Streams
    <3> QED BY <1>a, <2>1, <3>1 DEF TypeOK
  <2>5. OnceInv'
    BY <1>a, <1>b, <1>c, <2>1 DEF OnceInv
  <2>6. RouteInv'
    BY <1>a, <1>b, <1>c, <2>1, <2>3 DEF RouteInv
  <2>7. HandedInv'
    BY <1>a, <2>1, <2>2 DEF HandedInv
  <2> QED BY <2>4, <2>5, <2>6, <2>7, <1>5
<1> QED BY <1>6, <1>7, <1>8

-----------------------------------------------------------------------------
(* The theorem.                                                            *)

\* At the start there are no sessions and no shells.
LEMMA TermInit == Init => TermInv
<1> SUFFICES ASSUME Init PROVE TermInv
  OBVIOUS
<1>1. /\ serve = [s \in Sessions |-> "idle"] /\ conn = [s \in Sessions |-> 0]
      /\ opened = {} /\ typing = {} /\ inputs = 0 /\ epoch = 1 /\ client = "serving"
      /\ inbox = <<>> /\ replies = {} /\ loop = [e \in Streams |-> Idle]
      /\ sessions = {} /\ finishing = {} /\ containers = {} /\ closing = <<>>
  BY DEF Init
<1>2. /\ \A e \in Streams : \A x : ~Opening(e, x)
      /\ \A x : ~Told(x)
  BY <1>1, NotOpening DEF Opening, Told
<1>3. \A o, x : ~Queued(o, x) /\ Single(x)
  <2>1. 1..Len(inbox) = {}
    BY <1>1
  <2> QED BY <2>1 DEF Queued, Single
<1>4. TypeOK
  BY <1>1, NotOpening, BoundsAssumption DEF TypeOK, Streams
<1>5. OnceInv /\ RouteInv
  BY <1>1, <1>2, <1>3 DEF OnceInv, RouteInv
<1>6. HandedInv /\ OwnedInv
  BY <1>1 DEF HandedInv, OwnedInv
<1> QED BY <1>4, <1>5, <1>6 DEF TermInv

\* Every step keeps the invariant of the sessions.
LEMMA TermNext == TermInv /\ [Next]_vars => TermInv'
<1> SUFFICES ASSUME TermInv, [Next]_vars PROVE TermInv'
  OBVIOUS
<1>1. CASE UNCHANGED vars
  <2>1. UNCHANGED <<serve, conn, opened, typing, inputs, epoch, client, inbox, replies, loop,
                    sessions, finishing, containers, closing>>
    BY <1>1 DEF vars, leader, wire, pty
  <2>2. TypeOK' /\ OwnedInv'
    BY <2>1, Zenon DEF TermInv, TypeOK, OwnedInv
  <2>3. /\ \A o, x : Queued(o, x)' <=> Queued(o, x)
        /\ \A x : Told(x)' <=> Told(x)
        /\ \A x : Single(x)' <=> Single(x)
        /\ \A e \in Streams : \A x : Opening(e, x)' <=> Opening(e, x)
    BY <2>1, Zenon DEF Queued, Told, Single, Opening, Opens, Cmd
  <2> QED BY <2>1, <2>2, <2>3, CalmKeeps
<1>2. ASSUME NEW s \in Sessions, Leader(s) PROVE TermInv'
  BY <1>2, ServeOpenKeeps, ReadInputKeeps, DetachKeeps, TimeoutKeeps DEF Leader
<1>3. ASSUME NEW m \in replies, OpenReply(m) \/ InputReply(m) \/ CloseReply(m) PROVE TermInv'
  BY <1>3, OpenReplyKeeps, OtherReplyKeeps
<1>4. ASSUME NEW e \in Streams, recvLoop(e) \/ WriteReturns(e) PROVE TermInv'
  BY <1>4, StartContainerKeeps, OpenEndsKeeps, ReturnKeeps DEF recvLoop
<1>5. CASE RecvOpen \/ RecvInput \/ RecvClose
  BY <1>5, RecvOpenKeeps, RecvInputKeeps, RecvCloseKeeps
<1>6. CASE StreamDrops \/ CloseAll \/ Reconnect
  BY <1>6, StreamKeeps
<1>7. CASE CloseAllFinish \/ \E s \in Sessions : Teardown(s)
  BY <1>7, TeardownKeeps DEF Teardown
<1> QED BY <1>1, <1>2, <1>3, <1>4, <1>5, <1>6, <1>7 DEF Next, Dispatch

\* A shell that was handed to a browser is gone once its handler has returned and
\* nothing for it is under way, for any number of terminals, streams and inputs (the
\* deferred PtyClose of Serve, Close, CloseAll and pump of the ptyManager).
THEOREM ShellsAreClosed == Spec => []OpenedIsClosed
<1>1. TermInv => OpenedIsClosed
  <2> SUFFICES ASSUME TermInv, NEW s \in opened, serve[s] = "done", Quiet(s), s \in containers
               PROVE  FALSE
    BY DEF OpenedIsClosed
  <2>1. client = "serving" /\ s \notin finishing
    BY DEF Quiet
  <2>2. \A e \in Streams : loop[e] # [at |-> "insert", s |-> s]
    BY DEF Quiet, Idle
  <2>3. ~Queued("close", s)
    BY DEF Quiet, Queued, Cmd
  <2>4. s \in sessions
    BY <2>1, <2>2 DEF TermInv, OwnedInv
  <2> QED BY <2>1, <2>3, <2>4 DEF TermInv, HandedInv
<1> QED BY <1>1, TermInit, TermNext, PTL DEF Spec

=============================================================================
