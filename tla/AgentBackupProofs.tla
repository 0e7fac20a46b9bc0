-------------------------- MODULE AgentBackupProofs --------------------------
(***************************************************************************)
(* RunBackup for every request, tree and buffer.  For every tree that      *)
(* changes under the tar engine in any way, what the walker has written is *)
(* well formed and holds every file that was there throughout.  The error  *)
(* RunBackup returns is the one that happened, success means that the      *)
(* objects are stored, and no part of an archive is ever stored under the  *)
(* key of the run.                                                         *)
(***************************************************************************)
EXTENDS AgentBackup, TLAPS

WkFields == {"at", "root", "names", "f", "size", "pos", "eof", "err", "stuck"}

-----------------------------------------------------------------------------
(* What an archive is does not depend on the steps taken since.            *)

\* A body that holds every file that was there throughout keeps doing so as more
\* files go or are touched.
LEMMA CompleteStays ==
  ASSUME req' = req, gone \subseteq gone', touched \subseteq touched'
  PROVE  \A b : Complete(b) => Complete(b)'
  BY DEF Complete, Headers

\* Whether a body is well formed depends on the body alone.
LEMMA WellFormedStays == \A b : WellFormed(b)' = WellFormed(b)
  BY DEF WellFormed, Headers

-----------------------------------------------------------------------------
(* The archive as it grows: what the upload has read, and what is on its way.  *)

W == got \o out

Units == [k : {"hdr", "data", "zero", "end"}, f : Files \cup DOMAIN Tree \cup {""}, n : Nat]

Ended == wk.at \in {"flush", "hand", "done"}

\* Blocks the entry at hand still lacks.
Rem == IF wk.at = "body" THEN wk.size - wk.pos ELSE 0

\* The entry of header i is complete and followed by another or by the end, or it
\* is the last one, of which Rem blocks are to come.
Entry(i) ==
  LET next == i + W[i].n + 1 IN
  /\ \/ next <= Len(W) /\ W[next].k \in {"hdr", "end"}
     \/ /\ next = Len(W) + Rem + 1 /\ ~Ended
        /\ wk.at = "body" => W[i].f = wk.f
  /\ \A j \in i + 1 .. next - 1 :
       j <= Len(W) => W[j].k \in {"data", "zero"} /\ W[j].f = W[i].f

Has(f) == \E i \in Headers(W) : W[i].f = f

\* File f as it was, as far as it was copied.
Right(f) ==
  \A i \in Headers(W) : W[i].f = f =>
    /\ W[i].n = Size[f]
    /\ \A j \in i + 1 .. i + Size[f] : j <= Len(W) => W[j] = U("data", f, j - i - 1)

Unchanged == Files \ (touched \cup Links)
InRoot == wk.at \in {"dir", "entry", "visit", "header", "body"}

\* What was written, while nothing has failed.
ShapeInv ==
  /\ \A i \in Headers(W) : Entry(i)
  /\ W # <<>> => W[1].k = "hdr"
  /\ wk.at \in {"entry", "visit", "header", "body", "close"} \/ Ended => W # <<>>
  /\ wk.at = "root" /\ wk.root > 1 => W # <<>>
  /\ \A i \in DOMAIN W : W[i].k = "end" <=> (Ended /\ i = Len(W))

\* The entry at hand, of a file nobody changed, is as it was.
Copied ==
  wk.at \in {"visit", "header", "body"} /\ wk.f \in Unchanged => wk.size = Size[wk.f] /\ ~wk.eof

\* The sources walked so far, and the one in turn.
Past ==
  \A k \in 1 .. wk.root - 1 : k <= Len(req.sources) =>
    \A f \in Tree[req.sources[k]] \ gone : Has(f)
Here ==
  InRoot => \A f \in Tree[req.sources[wk.root]] \ gone :
              f \in wk.names \/ Has(f) \/ (wk.at \in {"visit", "header"} /\ f = wk.f)

ContentInv == (\A f \in Unchanged : Right(f)) /\ Copied /\ Past /\ Here

WkTyped ==
  /\ WkFields \subseteq DOMAIN wk
  /\ wk.root \in Nat \ {0} /\ wk.size \in Nat /\ wk.pos \in Nat
  /\ wk.at \in {"idle", "root", "dir", "entry", "visit", "header", "body", "close", "flush", "hand", "done"}
  /\ InRoot => wk.root <= Len(req.sources) /\ wk.names \subseteq Files
  /\ wk.at = "idle" => wk.root = 1
  /\ wk.at = "dir" => wk.f \in DOMAIN Tree
  /\ wk.at \in {"visit", "header", "body"} => wk.f \in Files
  /\ wk.at = "body" => wk.pos < wk.size
  /\ wk.at \in {"visit", "header"} => wk.pos = 0

OutTyped ==
  /\ got \in Seq(Units) /\ out \in Seq(Units)
  /\ wk.at = "idle" => W = <<>>

NoErr == wk.err = ""

ErrTyped ==
  /\ wk.stuck => ~NoErr
  /\ NoErr /\ (Ended \/ wk.at = "close") => wk.root > Len(req.sources)
  /\ wk.at # "idle" => IsTar /\ req.sources # <<>>

TreeTyped ==
  /\ DOMAIN len = Files
  /\ \A f \in Files : len[f] \in Nat /\ (f \notin touched => len[f] = Size[f] /\ f \notin gone)

ArchiveTyped == WkTyped /\ OutTyped /\ ErrTyped /\ TreeTyped

ArchiveInv == ArchiveTyped /\ (NoErr => ShapeInv /\ ContentInv)


\* What the upload has read and what waits in the pipe form one sequence of units.
LEMMA WIsSeq ==
  ASSUME got \in Seq(Units), out \in Seq(Units)
  PROVE  W \in Seq(Units)
  BY DEF W

\* One unit more.
LEMMA OneMore ==
  ASSUME W \in Seq(Units), NEW u \in Units, W' = Append(W, u)
  PROVE  /\ Len(W) \in Nat /\ Len(W') = Len(W) + 1 /\ \A i \in 1 .. Len(W) : W'[i] = W[i]
         /\ W'[Len(W) + 1] = u /\ W' # <<>>
         /\ Headers(W) \subseteq 1 .. Len(W) /\ \A i \in Headers(W) : W[i].n \in Nat
         /\ u.k = "hdr" => Headers(W)' = Headers(W) \cup {Len(W) + 1}
         /\ u.k # "hdr" => Headers(W)' = Headers(W)
         /\ DOMAIN W = 1 .. Len(W) /\ DOMAIN W' = 1 .. Len(W) + 1
<1>1. /\ Len(W) \in Nat /\ Len(W') = Len(W) + 1 /\ W' \in Seq(Units)
      /\ \A i \in 1 .. Len(W) : W'[i] = W[i]
      /\ W'[Len(W) + 1] = u
  OBVIOUS
<1>2. DOMAIN W = 1 .. Len(W) /\ DOMAIN W' = 1 .. Len(W) + 1 BY <1>1
<1>3. W' # <<>> BY <1>1
<1>4. Headers(W) \subseteq 1 .. Len(W) BY <1>2 DEF Headers
<1>5. \A i \in Headers(W) : W[i].n \in Nat
  <2>1. \A i \in 1 .. Len(W) : W[i] \in Units OBVIOUS
  <2>2. QED BY <1>4, <2>1, Zenon DEF Units
<1>6. u.k = "hdr" => Headers(W)' = Headers(W) \cup {Len(W) + 1} BY <1>1, <1>2 DEF Headers
<1>7. u.k # "hdr" => Headers(W)' = Headers(W) BY <1>1, <1>2 DEF Headers
<1>8. QED BY <1>1, <1>2, <1>3, <1>4, <1>5, <1>6, <1>7

\* What the writers hold moves on to the upload.
LEMMA MovesOn ==
  ASSUME got \in Seq(Units), out \in Seq(Units), out # <<>>,
         got' = Append(got, Head(out)), out' = Tail(out)
  PROVE  W' = W /\ got' \in Seq(Units) /\ out' \in Seq(Units)
<1>1. Head(out) \in Units /\ Tail(out) \in Seq(Units) /\ out = <<Head(out)>> \o Tail(out)
  OBVIOUS
<1>2. got' = got \o <<Head(out)>> BY <1>1
<1>3. <<Head(out)>> \in Seq(Units) BY <1>1
<1>4. (got \o <<Head(out)>>) \o Tail(out) = got \o (<<Head(out)>> \o Tail(out))
  BY <1>1, <1>3
<1>5. QED BY <1>1, <1>2, <1>4 DEF W

\* A unit the walker writes goes to the end of that sequence.
LEMMA Written ==
  ASSUME got \in Seq(Units), out \in Seq(Units), NEW u \in Units,
         got' = got, out' = Append(out, u)
  PROVE  W' = Append(W, u) /\ out' \in Seq(Units)
<1>1. out' = out \o <<u>> /\ <<u>> \in Seq(Units) OBVIOUS
<1>2. got \o (out \o <<u>>) = (got \o out) \o <<u>> BY <1>1
<1>3. (got \o out) \o <<u>> = Append(got \o out, u) OBVIOUS
<1>4. QED BY <1>1, <1>2, <1>3 DEF W

-----------------------------------------------------------------------------
(* The shape of the archive, step by step.                                 *)

\* A step that writes nothing, between two entries.
LEMMA ShapeStays ==
  ASSUME ShapeInv, W' = W, wk.at # "body", wk'.at # "body", Ended' <=> Ended,
         wk'.at \in {"entry", "visit", "header", "close"} \/ Ended' => W # <<>>,
         wk'.at = "root" /\ wk'.root > 1 => W # <<>>
  PROVE  ShapeInv'
<1>1. Rem = 0 /\ Rem' = 0 BY DEF Rem
<1>2. Headers(W)' = Headers(W) BY DEF Headers
<1>3. ASSUME NEW i \in Headers(W) PROVE Entry(i)' BY <1>1, <1>3 DEF ShapeInv, Entry
<1>4. QED BY <1>2, <1>3 DEF ShapeInv

\* A header, of the directory or of an entry.
LEMMA ShapeHeader ==
  ASSUME W \in Seq(Units), ShapeInv, NEW u \in Units, W' = Append(W, u), u.k = "hdr", u.n = Rem',
         wk.at # "body", ~Ended, ~Ended', wk'.at = "body" => wk'.f = u.f
  PROVE  ShapeInv'
<1>0. Rem = 0 BY DEF Rem
<1>1. /\ Len(W) \in Nat /\ Len(W') = Len(W) + 1 /\ \A i \in 1 .. Len(W) : W'[i] = W[i]
      /\ W'[Len(W) + 1] = u /\ W' # <<>> /\ Headers(W) \subseteq 1 .. Len(W)
      /\ (\A i \in Headers(W) : W[i].n \in Nat) /\ Headers(W)' = Headers(W) \cup {Len(W) + 1}
      /\ DOMAIN W = 1 .. Len(W) /\ DOMAIN W' = 1 .. Len(W) + 1
  BY OneMore
<1>2. ASSUME NEW i \in Headers(W) PROVE Entry(i)'
  <2>1. Entry(i) /\ i \in 1 .. Len(W) /\ W[i].n \in Nat /\ W'[i] = W[i]
    BY <1>1, <1>2 DEF ShapeInv
  <2> DEFINE next == i + W[i].n + 1
  <2>0. \A j \in i + 1 .. next - 1 : j <= Len(W) => W[j].k \in {"data", "zero"} /\ W[j].f = W[i].f
    BY <2>1 DEF Entry
  <2>2. next <= Len(W) + 1 /\ (next <= Len(W) => W[next].k \in {"hdr", "end"})
    BY <1>0, <1>1, <2>1 DEF Entry
  <2>3. W'[next].k \in {"hdr", "end"}
    <3>1. CASE next <= Len(W)
      <4>1. next \in 1 .. Len(W) BY <1>1, <2>1, <3>1
      <4>2. QED BY <1>1, <2>2, <3>1, <4>1
    <3>2. CASE next = Len(W) + 1 BY <1>1, <3>2
    <3>3. QED BY <1>1, <2>1, <2>2, <3>1, <3>2
  <2>4. ASSUME NEW j \in i + 1 .. next - 1 PROVE W'[j].k \in {"data", "zero"} /\ W'[j].f = W'[i].f
    <3>1. j \in 1 .. Len(W) BY <1>1, <2>1, <2>2
    <3>2. j <= Len(W) BY <1>1, <3>1
    <3>3. W[j].k \in {"data", "zero"} /\ W[j].f = W[i].f BY <2>0, <2>4, <3>2
    <3>4. QED BY <1>1, <2>1, <3>1, <3>3
  <2>5. next <= Len(W') BY <1>1, <2>2
  <2>6. QED BY <2>1, <2>3, <2>4, <2>5, Zenon DEF Entry
<1>3. ASSUME NEW i, i = Len(W) + 1 PROVE Entry(i)'
  <2>1. u.n \in Nat BY Zenon DEF Units
  <2>2. i + W'[i].n + 1 = Len(W') + Rem' + 1 BY <1>1, <1>3, <2>1
  <2>3. \A j \in i + 1 .. (i + W'[i].n + 1) - 1 : ~(j <= Len(W')) BY <1>1, <1>3, <2>1
  <2>4. wk'.at = "body" => W'[i].f = wk'.f BY <1>1, <1>3
  <2>5. i \in Nat /\ W'[i].n \in Nat /\ Len(W') \in Nat /\ Rem' \in Nat BY <1>1, <1>3, <2>1
  <2>6. QED BY <2>2, <2>3, <2>4, <2>5, Zenon DEF Entry
<1>4. W'[1].k = "hdr"
  <2>1. CASE W = <<>> BY <1>1, <2>1
  <2>2. CASE W # <<>> 
    <3>1. 1 \in 1 .. Len(W) BY <1>1, <2>2
    <3>2. QED BY <1>1, <2>2, <3>1 DEF ShapeInv
  <2>3. QED BY <2>1, <2>2
<1>5. \A i \in DOMAIN W' : W'[i].k # "end"
  <2>1. \A i \in 1 .. Len(W) : W[i].k # "end" BY <1>1 DEF ShapeInv
  <2>2. QED BY <1>1, <2>1
<1>6. QED BY <1>1, <1>2, <1>3, <1>4, <1>5 DEF ShapeInv

\* A block of the entry at hand.
LEMMA ShapeBody ==
  ASSUME W \in Seq(Units), ShapeInv, NEW u \in Units, W' = Append(W, u),
         u.k \in {"data", "zero"}, u.f = wk.f, wk.at = "body", ~Ended, ~Ended',
         Rem \in Nat \ {0}, Rem' = Rem - 1, wk'.f = wk.f
  PROVE  ShapeInv'
<1>1. /\ Len(W) \in Nat /\ Len(W') = Len(W) + 1 /\ \A i \in 1 .. Len(W) : W'[i] = W[i]
      /\ W'[Len(W) + 1] = u /\ W' # <<>> /\ Headers(W) \subseteq 1 .. Len(W)
      /\ (\A i \in Headers(W) : W[i].n \in Nat) /\ Headers(W)' = Headers(W)
      /\ DOMAIN W = 1 .. Len(W) /\ DOMAIN W' = 1 .. Len(W) + 1
  BY OneMore
<1>2. ASSUME NEW i \in Headers(W) PROVE Entry(i)'
  <2>1. Entry(i) /\ i \in 1 .. Len(W) /\ W[i].n \in Nat /\ W'[i] = W[i]
    BY <1>1, <1>2 DEF ShapeInv
  <2> DEFINE next == i + W[i].n + 1
             nextp == i + W'[i].n + 1
  <2>0. \A j \in i + 1 .. next - 1 : j <= Len(W) => W[j].k \in {"data", "zero"} /\ W[j].f = W[i].f
    BY <2>1 DEF Entry
  <2>2. \/ next <= Len(W) /\ W[next].k \in {"hdr", "end"}
        \/ next = Len(W) + Rem + 1 /\ W[i].f = wk.f
    BY <2>1 DEF Entry
  <2>3. \/ nextp <= Len(W') /\ W'[nextp].k \in {"hdr", "end"}
        \/ nextp = Len(W') + Rem' + 1 /\ W'[i].f = wk'.f
    <3>1. CASE next <= Len(W) /\ W[next].k \in {"hdr", "end"}
      <4>1. next \in 1 .. Len(W) BY <1>1, <2>1, <3>1
      <4>2. QED BY <1>1, <2>1, <3>1, <4>1
    <3>2. CASE next = Len(W) + Rem + 1 /\ W[i].f = wk.f BY <1>1, <2>1, <3>2
    <3>3. QED BY <2>2, <3>1, <3>2, Zenon
  <2>4. ASSUME NEW j \in i + 1 .. nextp - 1, j <= Len(W')
        PROVE  W'[j].k \in {"data", "zero"} /\ W'[j].f = W'[i].f
    <3>1. CASE j = Len(W) + 1
      <4>1. W[i].f = wk.f BY <1>1, <2>1, <2>2, <3>1
      <4>2. QED BY <1>1, <2>1, <3>1, <4>1
    <3>2. CASE j # Len(W) + 1
      <4>1. j \in i + 1 .. next - 1 BY <2>1, <2>4
      <4>2. j \in Int /\ i + 1 <= j /\ j <= Len(W) + 1 BY <1>1, <2>1, <2>4
      <4>a. Len(W) \in Nat /\ i \in 1 .. Len(W) BY <1>1, <2>1
      <4>b. j # Len(W) + 1 BY <3>2
      <4>3. j <= Len(W) /\ j \in 1 .. Len(W) BY <4>2, <4>a, <4>b
      <4>4. W[j].k \in {"data", "zero"} /\ W[j].f = W[i].f BY <2>0, <4>1, <4>3
      <4>5. QED BY <1>1, <2>1, <4>3, <4>4
    <3>3. QED BY <3>1, <3>2, Zenon
  <2>5. QED BY <2>3, <2>4, Zenon DEF Entry
<1>3. W # <<>> /\ W'[1].k = "hdr"
  <2>1. W # <<>> /\ W[1].k = "hdr" BY DEF ShapeInv
  <2>2. 1 \in 1 .. Len(W) BY <1>1, <2>1
  <2>3. QED BY <1>1, <2>1, <2>2
<1>4. \A i \in DOMAIN W' : W'[i].k # "end"
  <2>1. \A i \in 1 .. Len(W) : W[i].k # "end" BY <1>1 DEF ShapeInv
  <2>2. QED BY <1>1, <2>1
<1>5. QED BY <1>1, <1>2, <1>3, <1>4 DEF ShapeInv

\* The end marker.
LEMMA ShapeEnd ==
  ASSUME W \in Seq(Units), ShapeInv, NEW u \in Units, W' = Append(W, u),
         u.k = "end", wk.at = "close", ~Ended, Ended'
  PROVE  ShapeInv'
<1>0. Rem = 0 BY DEF Rem
<1>1. /\ Len(W) \in Nat /\ Len(W') = Len(W) + 1 /\ \A i \in 1 .. Len(W) : W'[i] = W[i]
      /\ W'[Len(W) + 1] = u /\ W' # <<>> /\ Headers(W) \subseteq 1 .. Len(W)
      /\ (\A i \in Headers(W) : W[i].n \in Nat) /\ Headers(W)' = Headers(W)
      /\ DOMAIN W = 1 .. Len(W) /\ DOMAIN W' = 1 .. Len(W) + 1
  BY OneMore
<1>2. ASSUME NEW i \in Headers(W) PROVE Entry(i)'
  <2>1. Entry(i) /\ i \in 1 .. Len(W) /\ W[i].n \in Nat /\ W'[i] = W[i]
    BY <1>1, <1>2 DEF ShapeInv
  <2> DEFINE next == i + W[i].n + 1
  <2>0. \A j \in i + 1 .. next - 1 : j <= Len(W) => W[j].k \in {"data", "zero"} /\ W[j].f = W[i].f
    BY <2>1 DEF Entry
  <2>2. next <= Len(W) + 1 /\ (next <= Len(W) => W[next].k \in {"hdr", "end"})
    BY <1>0, <1>1, <2>1 DEF Entry
  <2>3. W'[next].k \in {"hdr", "end"}
    <3>1. CASE next <= Len(W)
      <4>1. next \in 1 .. Len(W) BY <1>1, <2>1, <3>1
      <4>2. QED BY <1>1, <2>2, <3>1, <4>1
    <3>2. CASE next = Len(W) + 1 BY <1>1, <3>2
    <3>3. QED BY <1>1, <2>1, <2>2, <3>1, <3>2
  <2>4. ASSUME NEW j \in i + 1 .. next - 1 PROVE W'[j].k \in {"data", "zero"} /\ W'[j].f = W'[i].f
    <3>1. j \in 1 .. Len(W) BY <1>1, <2>1, <2>2
    <3>2. j <= Len(W) BY <1>1, <3>1
    <3>3. W[j].k \in {"data", "zero"} /\ W[j].f = W[i].f BY <2>0, <2>4, <3>2
    <3>4. QED BY <1>1, <2>1, <3>1, <3>3
  <2>5. next <= Len(W') BY <1>1, <2>2
  <2>6. QED BY <2>1, <2>3, <2>4, <2>5, Zenon DEF Entry
<1>3. W'[1].k = "hdr"
  <2>1. W # <<>> /\ W[1].k = "hdr" BY DEF ShapeInv
  <2>2. 1 \in 1 .. Len(W) BY <1>1, <2>1
  <2>3. QED BY <1>1, <2>1, <2>2
<1>4. \A i \in DOMAIN W' : W'[i].k = "end" <=> i = Len(W')
  <2>1. \A i \in 1 .. Len(W) : W[i].k # "end" BY <1>1 DEF ShapeInv
  <2>2. QED BY <1>1, <2>1
<1>5. QED BY <1>1, <1>2, <1>3, <1>4 DEF ShapeInv

-----------------------------------------------------------------------------
(* The content of the archive, step by step.                               *)

\* A step that writes nothing changes neither which files the archive holds nor whether
\* their blocks are right.
LEMMA SameContent ==
  ASSUME W' = W
  PROVE  \A f : (Has(f) => Has(f)') /\ (Right(f) => Right(f)')
  BY DEF Has, Right, Headers

\* A unit more takes no header away.
LEMMA GrownHas ==
  ASSUME W \in Seq(Units), NEW u \in Units, W' = Append(W, u)
  PROVE  \A f : Has(f) \/ (u.k = "hdr" /\ f = u.f) => Has(f)'
<1>1. /\ Len(W) \in Nat /\ \A i \in 1 .. Len(W) : W'[i] = W[i]
      /\ W'[Len(W) + 1] = u /\ Headers(W) \subseteq 1 .. Len(W)
      /\ Headers(W) \subseteq Headers(W)'
      /\ u.k = "hdr" => Len(W) + 1 \in Headers(W)'
  BY OneMore
<1>2. ASSUME NEW f, Has(f) PROVE Has(f)'
  <2>1. PICK i \in Headers(W) : W[i].f = f BY <1>2 DEF Has
  <2>2. i \in Headers(W)' /\ W'[i].f = f BY <1>1, <2>1
  <2>3. QED BY <2>2, Zenon DEF Has
<1>3. ASSUME NEW f, u.k = "hdr", f = u.f PROVE Has(f)'
  BY <1>1, <1>3 DEF Has
<1>4. QED BY <1>2, <1>3

\* A header or the end marker leaves the entries before it as they are.
LEMMA RightBetween ==
  ASSUME W \in Seq(Units), ShapeInv, NEW u \in Units, W' = Append(W, u), wk.at # "body",
         NEW f \in Files, Right(f), u.k = "hdr" /\ u.f = f => u.n = Size[f]
  PROVE  Right(f)'
<1>0. Rem = 0 BY DEF Rem
<1>1. /\ Len(W) \in Nat /\ Len(W') = Len(W) + 1 /\ \A i \in 1 .. Len(W) : W'[i] = W[i]
      /\ W'[Len(W) + 1] = u /\ Headers(W) \subseteq 1 .. Len(W)
      /\ (\A i \in Headers(W) : W[i].n \in Nat)
      /\ u.k = "hdr" => Headers(W)' = Headers(W) \cup {Len(W) + 1}
      /\ u.k # "hdr" => Headers(W)' = Headers(W)
  BY OneMore
<1>2. Size[f] \in Nat BY TreeAssumption
<1>3. ASSUME NEW i \in Headers(W)', W'[i].f = f
      PROVE  /\ W'[i].n = Size[f]
             /\ \A j \in i + 1 .. i + Size[f] : j <= Len(W') => W'[j] = U("data", f, j - i - 1)
  <2>1. CASE i \in Headers(W)
    <3>1. i \in 1 .. Len(W) /\ W[i].f = f /\ W'[i] = W[i] BY <1>1, <1>3, <2>1
    <3>2. /\ W[i].n = Size[f]
          /\ \A j \in i + 1 .. i + Size[f] : j <= Len(W) => W[j] = U("data", f, j - i - 1)
      BY <2>1, <3>1 DEF Right
    <3>3. i + W[i].n + 1 <= Len(W) + 1
      <4>1. Entry(i) BY <2>1 DEF ShapeInv
      <4>2. QED BY <1>0, <1>1, <1>2, <3>1, <3>2, <4>1 DEF Entry
    <3>4. ASSUME NEW j \in i + 1 .. i + Size[f] PROVE W'[j] = U("data", f, j - i - 1)
      <4>1. j \in 1 .. Len(W) /\ j <= Len(W) BY <1>1, <1>2, <3>1, <3>2, <3>3
      <4>2. QED BY <1>1, <3>2, <4>1
    <3>5. QED BY <3>1, <3>2, <3>4, Zenon
  <2>2. CASE i \notin Headers(W)
    <3>1. i = Len(W) + 1 /\ u.k = "hdr" /\ W'[i] = u BY <1>1, <1>3, <2>2
    <3>2. \A j \in i + 1 .. i + Size[f] : ~(j <= Len(W')) BY <1>1, <1>2, <3>1
    <3>3. QED BY <1>3, <3>1, <3>2
  <2>3. QED BY <2>1, <2>2, Zenon
<1>4. QED BY <1>3, Zenon DEF Right

\* The last block of an entry of s blocks whose header is at i.
LEMMA BlockEnd ==
  \A i, s \in Nat : (i + s + 1) - 1 = i + s
  OBVIOUS

\* Positions beyond the end of what is written.
LEMMA Beyond ==
  \A a, b, l \in Nat : (~(a > l) => a <= l) /\ (a > l /\ b > a => b > l)
  OBVIOUS

\* Inside an entry of s blocks, the next position holds the block the walker is at.
LEMMA NextBlock ==
  \A l, i, s, p, j \in Nat : i + s + 1 = l + (s - p) + 1 /\ j = l + 1 => j - i - 1 = p
  OBVIOUS

\* A block: of a file nobody changed it is the one that was there.
LEMMA RightBody ==
  ASSUME W \in Seq(Units), ShapeInv, NEW u \in Units, W' = Append(W, u), wk.at = "body",
         u.k # "hdr", wk.size \in Nat, wk.pos \in Nat,
         NEW f \in Files, Right(f), f = wk.f => wk.size = Size[f] /\ u = U("data", f, wk.pos)
  PROVE  Right(f)'
<1>0. Rem = wk.size - wk.pos BY DEF Rem
<1>1. /\ Len(W) \in Nat /\ Len(W') = Len(W) + 1 /\ \A i \in 1 .. Len(W) : W'[i] = W[i]
      /\ W'[Len(W) + 1] = u /\ Headers(W) \subseteq 1 .. Len(W)
      /\ (\A i \in Headers(W) : W[i].n \in Nat) /\ Headers(W)' = Headers(W)
  BY OneMore
<1>2. Size[f] \in Nat BY TreeAssumption
<1>3. ASSUME NEW i \in Headers(W), W'[i].f = f
      PROVE  /\ W'[i].n = Size[f]
             /\ \A j \in i + 1 .. i + Size[f] : j <= Len(W') => W'[j] = U("data", f, j - i - 1)
  <2>1. i \in 1 .. Len(W) /\ W[i].f = f /\ W'[i] = W[i] BY <1>1, <1>3
  <2>2. /\ W[i].n = Size[f]
        /\ \A j \in i + 1 .. i + Size[f] : j <= Len(W) => W[j] = U("data", f, j - i - 1)
    BY <1>3, <2>1, Zenon DEF Right
  <2>3. \/ i + Size[f] + 1 <= Len(W)
        \/ i + Size[f] + 1 = Len(W) + Rem + 1 /\ f = wk.f
    <3>1. Entry(i) BY DEF ShapeInv
    <3>2. QED BY <2>1, <2>2, <3>1 DEF Entry
  <2>4. ASSUME NEW j \in i + 1 .. i + Size[f], j <= Len(W') PROVE W'[j] = U("data", f, j - i - 1)
    <3>1. CASE j <= Len(W)
      <4>1. j \in 1 .. Len(W) BY <1>1, <1>2, <2>1, <3>1
      <4>2. QED BY <1>1, <2>2, <3>1, <4>1
    <3>2. CASE j = Len(W) + 1
      <4>1. f = wk.f /\ i + Size[f] + 1 = Len(W) + Rem + 1 BY <1>1, <1>2, <2>1, <2>3, <3>2
      <4>0. wk.size = Size[f] /\ Len(W) \in Nat /\ i \in Nat /\ j \in Nat
        BY <1>1, <2>1, <3>2, <4>1
      <4>a. i + wk.size + 1 = Len(W) + (wk.size - wk.pos) + 1 BY <1>0, <4>0, <4>1
      <4>2. j - i - 1 = wk.pos BY <3>2, <4>0, <4>a, NextBlock, SMTT(30)
      <4>3. QED BY <1>1, <3>2, <4>1, <4>2
    <3>3. Len(W) \in Nat /\ j \in Int /\ j <= Len(W) + 1 BY <1>1, <1>2, <2>1, <2>4
    <3>4. j <= Len(W) \/ j = Len(W) + 1 BY <3>3
    <3>5. QED BY <3>1, <3>2, <3>4, Zenon
  <2>5. QED BY <2>1, <2>2, <2>4
<1>4. QED BY <1>1, <1>3 DEF Right

-----------------------------------------------------------------------------
(* Every step keeps what is written right.                                 *)

\* A step of another goroutine that hands nothing or a unit to the upload.
LEMMA ArchiveFrame ==
  ASSUME ArchiveInv, W' = W, got' \in Seq(Units), out' \in Seq(Units),
         UNCHANGED <<req, wk, len, gone, touched>>
  PROVE  ArchiveInv'
<1>1. WkTyped' BY DEF ArchiveInv, ArchiveTyped, WkTyped, InRoot
<1>2. OutTyped' BY DEF ArchiveInv, ArchiveTyped, OutTyped
<1>3. ErrTyped' /\ NoErr' = NoErr
  BY Zenon DEF ArchiveInv, ArchiveTyped, ErrTyped, NoErr, Ended, IsTar
<1>4. TreeTyped' BY DEF ArchiveInv, ArchiveTyped, TreeTyped
<1>5. ASSUME ShapeInv PROVE ShapeInv' BY <1>5 DEF ShapeInv, Headers, Entry, Rem, Ended
<1>6. ASSUME ContentInv PROVE ContentInv'
  BY <1>6, SameContent DEF ContentInv, Copied, Past, Here, Unchanged, InRoot
<1>7. QED BY <1>1, <1>2, <1>3, <1>4, <1>5, <1>6 DEF ArchiveInv, ArchiveTyped

\* The walk is over, with an error.
LEMMA ArchiveFails ==
  ASSUME ArchiveTyped, WkFields \subseteq DOMAIN wk', wk'.at \in {"close", "flush", "hand", "done"},
         ~NoErr', wk.at # "idle", wk'.root = wk.root, wk'.size = wk.size, wk'.pos = wk.pos,
         UNCHANGED <<req, got, len, gone, touched>>, out' \in Seq(Units)
  PROVE  ArchiveInv'
<1>1. WkTyped' BY DEF ArchiveTyped, WkTyped, InRoot
<1>2. OutTyped' BY DEF ArchiveTyped, OutTyped
<1>3. ErrTyped' BY Zenon DEF ArchiveTyped, ErrTyped, IsTar
<1>4. TreeTyped' BY DEF ArchiveTyped, TreeTyped
<1>5. QED BY <1>1, <1>2, <1>3, <1>4 DEF ArchiveInv, ArchiveTyped

\* The walk goes on.
LEMMA ArchiveGoes ==
  ASSUME ArchiveTyped, UNCHANGED <<req, got, len, gone, touched>>, wk.at # "idle", wk'.at # "idle",
         wk'.err = wk.err, wk'.stuck = wk.stuck, out' \in Seq(Units), WkTyped',
         NoErr /\ (Ended' \/ wk'.at = "close") => wk'.root > Len(req.sources)
  PROVE  ArchiveTyped' /\ NoErr' = NoErr
<1>1. NoErr' = NoErr BY Zenon DEF NoErr
<1>2. OutTyped' BY DEF ArchiveTyped, OutTyped
<1>3. ErrTyped' BY <1>1, Zenon DEF ArchiveTyped, ErrTyped, IsTar
<1>4. TreeTyped' BY DEF ArchiveTyped, TreeTyped
<1>5. QED BY <1>1, <1>2, <1>3, <1>4 DEF ArchiveTyped

\* The tree changes.
LEMMA ArchiveChange ==
  ASSUME ArchiveInv, NEW f \in Files, Change(f)
  PROVE  ArchiveInv'
<1>1. /\ UNCHANGED <<req, wk, got, out>> /\ touched' = touched \cup {f}
      /\ gone \subseteq gone' /\ gone' \subseteq gone \cup {f}
      /\ \/ len' = len
         \/ \E n \in 0 .. MaxSize : len' = [len EXCEPT ![f] = n]
  BY DEF Change, walker, upload
<1>2. W' = W BY <1>1 DEF W
<1>3. WkTyped' BY <1>1 DEF ArchiveInv, ArchiveTyped, WkTyped, InRoot
<1>4. OutTyped' BY <1>1, <1>2 DEF ArchiveInv, ArchiveTyped, OutTyped
<1>5. ErrTyped' /\ NoErr' = NoErr
  BY <1>1, Zenon DEF ArchiveInv, ArchiveTyped, ErrTyped, NoErr, Ended, IsTar
<1>6. TreeTyped' BY <1>1, TreeAssumption DEF ArchiveInv, ArchiveTyped, TreeTyped
<1>7. ASSUME ShapeInv PROVE ShapeInv'
  BY <1>1, <1>2, <1>7 DEF ShapeInv, Headers, Entry, Rem, Ended
<1>8. ASSUME ContentInv PROVE ContentInv'
  BY <1>1, <1>2, <1>8, SameContent DEF ContentInv, Copied, Past, Here, Unchanged, InRoot
<1>9. QED BY <1>3, <1>4, <1>5, <1>6, <1>7, <1>8 DEF ArchiveInv, ArchiveTyped

\* A step of the walk that writes nothing keeps the rest.
LEMMA ContentStays ==
  ASSUME ContentInv, W' = W, UNCHANGED <<req, gone, touched>>, Copied', Here',
         wk'.root = wk.root
  PROVE  ContentInv'
<1>1. \A f \in Unchanged' : Right(f)' BY SameContent DEF ContentInv, Unchanged
<1>2. Past' BY SameContent DEF ContentInv, Past
<1>3. QED BY <1>1, <1>2 DEF ContentInv

\* The walk reaches the end of the sources, or takes the next one.
LEMMA RootArchive ==
  ASSUME ArchiveInv, req \in Requests, WalkRoot
  PROVE  ArchiveInv'
<1>0. /\ UNCHANGED <<req, got, len, gone, touched, out>> /\ wk.at = "root"
  BY DEF WalkRoot, WalkerOnly, Fails, upload, tree
<1>1. WkTyped /\ OutTyped /\ ErrTyped /\ WkFields \subseteq DOMAIN wk
  BY DEF ArchiveInv, ArchiveTyped, WkTyped
<1>2. W' = W BY <1>0 DEF W
<1>S. req.sources \in Seq(DOMAIN Tree)
  BY <1>0, <1>1, RequestsAssumption, Zenon DEF ErrTyped, IsTar
<1>3. CASE Fails("ctx") \/ Fails("root")
  <2>1. /\ wk'.at = "close" /\ wk'.err \in {"ctx", "root"} /\ wk'.root = wk.root
        /\ wk'.size = wk.size /\ wk'.pos = wk.pos /\ WkFields \subseteq DOMAIN wk'
    BY <1>1, <1>3, Zenon DEF Fails, WkFields
  <2>2. ~NoErr' BY <2>1, Zenon DEF NoErr
  <2>3. QED BY <1>0, <1>1, <2>1, <2>2, ArchiveFails DEF ArchiveInv, OutTyped
<1>4. CASE wk.root > Len(req.sources) /\ wk' = [wk EXCEPT !.at = "close"]
  <2>1. /\ wk'.at = "close" /\ wk'.err = wk.err /\ wk'.root = wk.root /\ wk'.stuck = wk.stuck
        /\ wk'.size = wk.size /\ wk'.pos = wk.pos /\ WkFields \subseteq DOMAIN wk'
    BY <1>1, <1>4 DEF WkFields
  <2>2. WkTyped' BY <1>1, <2>1 DEF WkTyped, InRoot
  <2>3. ArchiveTyped' /\ NoErr' = NoErr
    BY <1>0, <1>1, <1>4, <2>1, <2>2, ArchiveGoes DEF ArchiveInv, OutTyped
  <2>4. ASSUME NoErr PROVE ShapeInv' /\ ContentInv'
    <3>1. ShapeInv /\ ContentInv BY <2>4 DEF ArchiveInv
    <3>2. wk.root > 1
      <4>1. req.sources # <<>> BY <1>0, <1>1 DEF ErrTyped
      <4>2. Len(req.sources) \in Nat \ {0} BY <1>S, <4>1
      <4>3. QED BY <1>1, <1>4, <4>2 DEF WkTyped
    <3>3. W # <<>> BY <1>0, <3>1, <3>2 DEF ShapeInv
    <3>4. ~Ended /\ ~Ended' BY <1>0, <2>1 DEF Ended
    <3>5. ShapeInv' BY <1>0, <1>2, <2>1, <3>1, <3>3, <3>4, ShapeStays
    <3>6. Copied' /\ Here' BY <2>1 DEF Copied, Here, InRoot
    <3>7. QED BY <1>0, <1>2, <2>1, <3>1, <3>5, <3>6, ContentStays
  <2>5. QED BY <2>3, <2>4 DEF ArchiveInv
<1>5. CASE /\ ~(wk.root > Len(req.sources))
           /\ wk' = [wk EXCEPT !.at = "dir", !.f = req.sources[wk.root], !.size = 0, !.pos = 0,
                       !.names = Tree[req.sources[wk.root]] \ gone]
  <2>1. /\ wk'.at = "dir" /\ wk'.err = wk.err /\ wk'.root = wk.root /\ wk'.stuck = wk.stuck
        /\ wk'.size = 0 /\ wk'.pos = 0 /\ WkFields \subseteq DOMAIN wk'
        /\ wk'.f = req.sources[wk.root] /\ wk'.names = Tree[req.sources[wk.root]] \ gone
    BY <1>1, <1>5 DEF WkFields
  <2>2. wk.root \in 1 .. Len(req.sources) BY <1>1, <1>5, <1>S DEF WkTyped
  <2>3. req.sources[wk.root] \in DOMAIN Tree BY <1>S, <2>2
  <2>4. Tree[req.sources[wk.root]] \subseteq Files BY <2>3 DEF Files
  <2>5. WkTyped' BY <1>0, <1>1, <2>1, <2>2, <2>3, <2>4 DEF WkTyped, InRoot
  <2>6. ArchiveTyped' /\ NoErr' = NoErr
    <3>1. ~Ended' BY <2>1 DEF Ended
    <3>2. QED BY <1>0, <1>1, <2>1, <2>5, <3>1, ArchiveGoes DEF ArchiveInv, OutTyped
  <2>7. ASSUME NoErr PROVE ShapeInv' /\ ContentInv'
    <3>1. ShapeInv /\ ContentInv BY <2>7 DEF ArchiveInv
    <3>2. ~Ended /\ ~Ended' BY <1>0, <2>1 DEF Ended
    <3>3. ShapeInv' BY <1>0, <1>2, <2>1, <3>1, <3>2, ShapeStays
    <3>4. Copied' /\ Here' BY <1>0, <2>1 DEF Copied, Here, InRoot
    <3>5. QED BY <1>0, <1>2, <2>1, <3>1, <3>3, <3>4, ContentStays
  <2>8. QED BY <2>6, <2>7 DEF ArchiveInv
<1>6. QED BY <1>3, <1>4, <1>5 DEF WalkRoot

\* A write met the closed pipe.
LEMMA RefusedArchive ==
  ASSUME ArchiveInv, UNCHANGED <<req, got, len, gone, touched, out>>, wk.at # "idle",
         wk' = [wk EXCEPT !.at = "close", !.err = "closed", !.stuck = TRUE]
  PROVE  ArchiveInv'
<1>1. WkFields \subseteq DOMAIN wk /\ out \in Seq(Units) /\ ArchiveTyped
  BY DEF ArchiveInv, ArchiveTyped, WkTyped, OutTyped
<1>2. /\ wk'.at = "close" /\ wk'.err = "closed" /\ wk'.root = wk.root
      /\ wk'.size = wk.size /\ wk'.pos = wk.pos /\ WkFields \subseteq DOMAIN wk'
  BY <1>1 DEF WkFields
<1>3. ~NoErr' BY <1>2 DEF NoErr
<1>4. QED BY <1>1, <1>2, <1>3, ArchiveFails

\* A walk that fails, for whatever cause, writes nothing more.
LEMMA FailedArchive ==
  ASSUME ArchiveInv, UNCHANGED <<req, got, len, gone, touched>>, wk.at # "idle",
         \/ Fails("ctx") \/ Fails("gone") \/ Fails("denied") \/ Fails("io")
  PROVE  ArchiveInv'
<1>1. WkFields \subseteq DOMAIN wk /\ out \in Seq(Units) /\ ArchiveTyped
  BY DEF ArchiveInv, ArchiveTyped, WkTyped, OutTyped
<1>2. /\ wk'.at = "close" /\ wk'.err \in {"ctx", "gone", "denied", "io"} /\ wk'.root = wk.root
      /\ wk'.size = wk.size /\ wk'.pos = wk.pos /\ WkFields \subseteq DOMAIN wk' /\ out' = out
  BY <1>1, Zenon DEF WkFields, Fails
<1>3. ~NoErr' BY <1>2, Zenon DEF NoErr
<1>4. QED BY <1>1, <1>2, <1>3, ArchiveFails

\* The header of a directory.
LEMMA DirArchive ==
  ASSUME ArchiveInv, WalkDir
  PROVE  ArchiveInv'
<1>0. UNCHANGED <<req, got, len, gone, touched>> /\ wk.at = "dir"
  BY DEF WalkDir, WalkerOnly, upload, tree
<1>1. WkTyped /\ OutTyped /\ ErrTyped /\ WkFields \subseteq DOMAIN wk
  BY DEF ArchiveInv, ArchiveTyped, WkTyped
<1>3. CASE Fails("ctx") BY <1>0, <1>3, FailedArchive
<1>4. CASE out' = out /\ wk' = [wk EXCEPT !.at = "close", !.err = "closed", !.stuck = TRUE]
  BY <1>0, <1>4, RefusedArchive
<1>5. CASE out' = Append(out, U("hdr", wk.f, 0)) /\ wk' = [wk EXCEPT !.at = "entry"]
  <2> DEFINE u == U("hdr", wk.f, 0)
  <2>1. /\ wk'.at = "entry" /\ wk'.err = wk.err /\ wk'.root = wk.root /\ wk'.stuck = wk.stuck
        /\ wk'.size = wk.size /\ wk'.pos = wk.pos /\ WkFields \subseteq DOMAIN wk'
        /\ wk'.f = wk.f /\ wk'.names = wk.names
    BY <1>1, <1>5 DEF WkFields
  <2>2. wk.f \in DOMAIN Tree BY <1>0, <1>1 DEF WkTyped
  <2>3. u \in Units /\ u.k = "hdr" /\ u.f = wk.f /\ u.n = 0
    <3>1. u.k = "hdr" /\ u.f = wk.f /\ u.n = 0 BY DEF U
    <3>2. QED BY <2>2, <3>1, Zenon DEF Units, U
  <2> HIDE DEF u
  <2>4. W' = Append(W, u) /\ out' \in Seq(Units) /\ W \in Seq(Units)
    BY <1>0, <1>1, <1>5, <2>3, Written, WIsSeq DEF OutTyped, u
  <2>5. WkTyped' BY <1>0, <1>1, <2>1 DEF WkTyped, InRoot
  <2>6. ArchiveTyped' /\ NoErr' = NoErr
    <3>1. ~Ended' BY <2>1 DEF Ended
    <3>2. QED BY <1>0, <1>1, <2>1, <2>4, <2>5, <3>1, ArchiveGoes DEF ArchiveInv
  <2>7. ASSUME NoErr PROVE ShapeInv' /\ ContentInv'
    <3>1. ShapeInv /\ ContentInv BY <2>7 DEF ArchiveInv
    <3>2. ~Ended /\ ~Ended' /\ Rem' = 0 BY <1>0, <2>1 DEF Ended, Rem
    <3>3. ShapeInv' BY <1>0, <2>1, <2>3, <2>4, <3>1, <3>2, ShapeHeader
    <3>4. \A f \in Unchanged' : Right(f)'
      <4>1. ASSUME NEW f \in Unchanged PROVE Right(f)'
        <5>1. f \in Files /\ Right(f) BY <3>1 DEF Unchanged, ContentInv
        <5>2. u.f # f BY <2>2, <2>3, <5>1, TreeAssumption
        <5>3. QED BY <1>0, <2>3, <2>4, <3>1, <5>1, <5>2, RightBetween
      <4>2. QED BY <1>0, <4>1 DEF Unchanged
    <3>5. \A f : Has(f) => Has(f)' BY <2>3, <2>4, GrownHas
    <3>6. Copied' BY <2>1 DEF Copied
    <3>7. Past' BY <1>0, <2>1, <3>1, <3>5 DEF Past, ContentInv
    <3>8. Here' BY <1>0, <2>1, <3>1, <3>5 DEF Here, ContentInv, InRoot
    <3>9. QED BY <3>3, <3>4, <3>6, <3>7, <3>8 DEF ContentInv
  <2>8. QED BY <2>6, <2>7 DEF ArchiveInv
<1>6. QED BY <1>3, <1>4, <1>5 DEF WalkDir, Write

\* The next name of the directory, or the next source.
LEMMA EntryArchive ==
  ASSUME ArchiveInv, NextEntry
  PROVE  ArchiveInv'
<1>0. UNCHANGED <<req, got, len, gone, touched, out>> /\ wk.at = "entry"
  BY ZenonT(30) DEF NextEntry, WalkerOnly, upload, tree, Fails
<1>1. WkTyped /\ OutTyped /\ ErrTyped /\ WkFields \subseteq DOMAIN wk /\ out \in Seq(Units)
  BY DEF ArchiveInv, ArchiveTyped, WkTyped, OutTyped
<1>2. W' = W BY <1>0 DEF W
<1>3. CASE Fails("gone") BY <1>0, <1>3, FailedArchive
<1>4. CASE wk.names = {} /\ wk' = [wk EXCEPT !.at = "root", !.root = @ + 1]
  <2>1. /\ wk'.at = "root" /\ wk'.err = wk.err /\ wk'.root = wk.root + 1 /\ wk'.stuck = wk.stuck
        /\ wk'.size = wk.size /\ wk'.pos = wk.pos /\ WkFields \subseteq DOMAIN wk'
    BY <1>1, <1>4 DEF WkFields
  <2>2. WkTyped' BY <1>1, <2>1 DEF WkTyped, InRoot
  <2>3. ArchiveTyped' /\ NoErr' = NoErr
    <3>1. ~Ended' BY <2>1 DEF Ended
    <3>2. QED BY <1>0, <1>1, <2>1, <2>2, <3>1, ArchiveGoes DEF ArchiveInv
  <2>4. ASSUME NoErr PROVE ShapeInv' /\ ContentInv'
    <3>1. ShapeInv /\ ContentInv BY <2>4 DEF ArchiveInv
    <3>2. ~Ended /\ ~Ended' BY <1>0, <2>1 DEF Ended
    <3>3. W # <<>> BY <1>0, <3>1 DEF ShapeInv
    <3>4. ShapeInv' BY <1>0, <1>2, <2>1, <3>1, <3>2, <3>3, ShapeStays
    <3>5. \A f \in Unchanged' : Right(f)'
      BY <1>0, <1>2, <3>1, SameContent DEF ContentInv, Unchanged
    <3>6. Copied' /\ Here' BY <2>1 DEF Copied, Here, InRoot
    <3>7. \A f \in Tree[req.sources[wk.root]] \ gone : Has(f)
      BY <1>0, <1>4, <3>1 DEF ContentInv, Here, InRoot
    <3>8. wk.root \in Nat \ {0} BY <1>1 DEF WkTyped
    <3>9. ASSUME NEW k \in 1 .. wk.root, k <= Len(req.sources)
          PROVE  \A f \in Tree[req.sources[k]] \ gone : Has(f)'
      <4>1. CASE k = wk.root BY <1>2, <3>7, <4>1, SameContent
      <4>2. CASE k # wk.root
        <5>1. k \in 1 .. wk.root - 1 BY <3>8, <4>2
        <5>2. QED BY <1>2, <3>1, <3>9, <5>1, SameContent DEF ContentInv, Past
      <4>3. QED BY <4>1, <4>2
    <3>10. wk'.root - 1 = wk.root BY <2>1, <3>8
    <3>11. Past' BY <1>0, <3>9, <3>10 DEF Past
    <3>12. QED BY <3>4, <3>5, <3>6, <3>11 DEF ContentInv
  <2>5. QED BY <2>3, <2>4 DEF ArchiveInv
<1>5. ASSUME NEW f \in wk.names, f \notin gone,
             wk' = [wk EXCEPT !.at = "visit", !.names = @ \ {f}, !.f = f, !.pos = 0,
                      !.eof = FALSE, !.size = IF f \in Links THEN 0 ELSE len[f]]
      PROVE  ArchiveInv'
  <2>1. /\ wk'.at = "visit" /\ wk'.err = wk.err /\ wk'.root = wk.root /\ wk'.stuck = wk.stuck
        /\ wk'.size = (IF f \in Links THEN 0 ELSE len[f]) /\ wk'.pos = 0 /\ WkFields \subseteq DOMAIN wk'
        /\ wk'.f = f /\ wk'.names = wk.names \ {f}
    BY <1>1, <1>5 DEF WkFields
  <2>2. ~wk'.eof BY <1>1, <1>5 DEF WkFields
  <2>3. f \in Files BY <1>0, <1>1, <1>5 DEF WkTyped, InRoot
  <2>4. len[f] \in Nat /\ (f \notin touched => len[f] = Size[f])
    BY <2>3 DEF ArchiveInv, ArchiveTyped, TreeTyped
  <2>5. wk'.size \in Nat BY <2>1, <2>4
  <2>6. WkTyped' BY <1>0, <1>1, <2>1, <2>3, <2>5 DEF WkTyped, InRoot
  <2>7. ArchiveTyped' /\ NoErr' = NoErr
    <3>1. ~Ended' BY <2>1 DEF Ended
    <3>2. QED BY <1>0, <1>1, <2>1, <2>6, <3>1, ArchiveGoes DEF ArchiveInv
  <2>8. ASSUME NoErr PROVE ShapeInv' /\ ContentInv'
    <3>1. ShapeInv /\ ContentInv BY <2>8 DEF ArchiveInv
    <3>2. ~Ended /\ ~Ended' BY <1>0, <2>1 DEF Ended
    <3>3. W # <<>> BY <1>0, <3>1, ZenonT(30) DEF ShapeInv
    <3>4. ShapeInv' BY <1>0, <1>2, <2>1, <3>1, <3>2, <3>3, ShapeStays
    <3>5. Copied' BY <1>0, <2>1, <2>2, <2>4 DEF Copied, Unchanged
    <3>6. Here' BY <1>0, <1>2, <2>1, <3>1, SameContent DEF ContentInv, Here, InRoot
    <3>7. QED BY <1>0, <1>2, <2>1, <3>1, <3>4, <3>5, <3>6, ContentStays, Zenon
  <2>9. QED BY <2>7, <2>8 DEF ArchiveInv
<1>6. QED
  <2>1. CASE \E f \in wk.names :
               IF f \in gone THEN Fails("gone") /\ Blame("gone")
               ELSE /\ wk' = [wk EXCEPT !.at = "visit", !.names = @ \ {f}, !.f = f, !.pos = 0,
                                !.eof = FALSE, !.size = IF f \in Links THEN 0 ELSE len[f]]
                    /\ UNCHANGED <<out, happened>>
    BY <1>3, <1>5, <2>1, ZenonT(30)
  <2>2. QED BY <1>4, <2>1, ZenonT(30) DEF NextEntry

\* The callback on a name up to its header.
LEMMA VisitArchive ==
  ASSUME ArchiveInv, Visit
  PROVE  ArchiveInv'
<1>0. UNCHANGED <<req, got, len, gone, touched, out>> /\ wk.at = "visit"
  BY DEF Visit, WalkerOnly, upload, tree, Fails
<1>1. WkTyped /\ OutTyped /\ ErrTyped /\ WkFields \subseteq DOMAIN wk /\ out \in Seq(Units)
  BY DEF ArchiveInv, ArchiveTyped, WkTyped, OutTyped
<1>2. W' = W BY <1>0 DEF W
<1>3. CASE Fails("ctx") \/ Fails("denied") BY <1>0, <1>3, FailedArchive
<1>4. CASE \/ wk' = [wk EXCEPT !.at = "entry"] /\ wk.f \in gone
           \/ wk' = [wk EXCEPT !.at = "header"]
  <2>1. /\ wk'.at \in {"entry", "header"} /\ wk'.err = wk.err /\ wk'.root = wk.root
        /\ wk'.stuck = wk.stuck /\ WkFields \subseteq DOMAIN wk'
        /\ wk'.size = wk.size /\ wk'.pos = wk.pos /\ wk'.f = wk.f /\ wk'.names = wk.names
        /\ wk'.at = "entry" => wk.f \in gone
    BY <1>1, <1>4 DEF WkFields
  <2>2. wk'.eof = wk.eof BY <1>1, <1>4 DEF WkFields
  <2>3. WkTyped' BY <1>0, <1>1, <2>1 DEF WkTyped, InRoot
  <2>4. ArchiveTyped' /\ NoErr' = NoErr
    <3>1. ~Ended' /\ wk'.at # "close" /\ wk'.at # "idle" BY <2>1 DEF Ended
    <3>2. QED BY <1>0, <1>1, <2>1, <2>3, <3>1, ArchiveGoes DEF ArchiveInv
  <2>5. ASSUME NoErr PROVE ShapeInv' /\ ContentInv'
    <3>1. ShapeInv /\ ContentInv BY <2>5 DEF ArchiveInv
    <3>2. ~Ended /\ ~Ended' /\ wk'.at # "body" /\ wk'.at # "root" BY <1>0, <2>1 DEF Ended
    <3>3. W # <<>> BY <1>0, <3>1 DEF ShapeInv
    <3>4. ShapeInv' BY <1>0, <1>2, <2>1, <3>1, <3>2, <3>3, ShapeStays
    <3>5. Copied' BY <1>0, <2>1, <2>2, <3>1 DEF Copied, Unchanged, ContentInv
    <3>6. Here' BY <1>0, <1>2, <2>1, <3>1, SameContent DEF ContentInv, Here, InRoot
    <3>7. QED BY <1>0, <1>2, <2>1, <3>1, <3>4, <3>5, <3>6, ContentStays
  <2>6. QED BY <2>4, <2>5 DEF ArchiveInv
<1>5. QED BY <1>3, <1>4 DEF Visit

\* The header of an entry.
LEMMA HeaderArchive ==
  ASSUME ArchiveInv, WriteHeader
  PROVE  ArchiveInv'
<1>0. UNCHANGED <<req, got, len, gone, touched>> /\ wk.at = "header"
  BY DEF WriteHeader, WalkerOnly, upload, tree
<1>1. WkTyped /\ OutTyped /\ ErrTyped /\ WkFields \subseteq DOMAIN wk
  BY DEF ArchiveInv, ArchiveTyped, WkTyped
<1>4. CASE out' = out /\ wk' = [wk EXCEPT !.at = "close", !.err = "closed", !.stuck = TRUE]
  BY <1>0, <1>4, RefusedArchive
<1>5. CASE out' = Append(out, U("hdr", wk.f, wk.size)) /\ wk' = [wk EXCEPT !.at = AfterUnit(0)]
  <2> DEFINE u == U("hdr", wk.f, wk.size)
  <2>1. /\ wk'.at = AfterUnit(0) /\ wk'.err = wk.err /\ wk'.root = wk.root /\ wk'.stuck = wk.stuck
        /\ wk'.size = wk.size /\ wk'.pos = wk.pos /\ WkFields \subseteq DOMAIN wk'
        /\ wk'.f = wk.f /\ wk'.names = wk.names
    BY <1>1, <1>5 DEF WkFields
  <2>2. wk'.eof = wk.eof BY <1>1, <1>5 DEF WkFields
  <2>3. wk.f \in Files /\ wk.size \in Nat /\ wk.pos = 0 BY <1>0, <1>1 DEF WkTyped
  <2>4. u \in Units /\ u.k = "hdr" /\ u.f = wk.f /\ u.n = wk.size
    <3>1. u.k = "hdr" /\ u.f = wk.f /\ u.n = wk.size BY DEF U
    <3>2. QED BY <2>3, <3>1, Zenon DEF Units, U
  <2> HIDE DEF u
  <2>5. W' = Append(W, u) /\ out' \in Seq(Units) /\ W \in Seq(Units)
    BY <1>0, <1>1, <1>5, <2>4, Written, WIsSeq DEF OutTyped, u
  <2>6. \/ wk'.at = "entry" /\ wk.size = 0
        \/ wk'.at = "body" /\ wk.size # 0
    BY <2>1 DEF AfterUnit
  <2>7. WkTyped' BY <1>0, <1>1, <2>1, <2>3, <2>6 DEF WkTyped, InRoot
  <2>8. ArchiveTyped' /\ NoErr' = NoErr
    <3>1. ~Ended' /\ wk'.at # "close" /\ wk'.at # "idle" BY <2>6 DEF Ended
    <3>2. QED BY <1>0, <1>1, <2>1, <2>5, <2>7, <3>1, ArchiveGoes DEF ArchiveInv
  <2>9. ASSUME NoErr PROVE ShapeInv' /\ ContentInv'
    <3>1. ShapeInv /\ ContentInv BY <2>9 DEF ArchiveInv
    <3>2. ~Ended /\ ~Ended' BY <1>0, <2>6 DEF Ended
    <3>3. Rem' = wk.size BY <2>1, <2>3, <2>6 DEF Rem
    <3>4. ShapeInv' BY <1>0, <2>1, <2>4, <2>5, <3>1, <3>2, <3>3, ShapeHeader
    <3>5. \A f \in Unchanged' : Right(f)'
      <4>1. ASSUME NEW f \in Unchanged PROVE Right(f)'
        <5>1. f \in Files /\ Right(f) BY <3>1 DEF Unchanged, ContentInv
        <5>2. u.f = f => u.n = Size[f] BY <1>0, <2>4, <3>1, <4>1 DEF ContentInv, Copied
        <5>3. QED BY <1>0, <2>4, <2>5, <3>1, <5>1, <5>2, RightBetween
      <4>2. QED BY <1>0, <4>1 DEF Unchanged
    <3>6. \A f : Has(f) \/ f = wk.f => Has(f)' BY <2>4, <2>5, GrownHas
    <3>7. Copied' BY <1>0, <2>1, <2>2, <3>1 DEF Copied, Unchanged, ContentInv
    <3>8. Past' BY <1>0, <2>1, <3>1, <3>6 DEF Past, ContentInv
    <3>9. Here' BY <1>0, <2>1, <3>1, <3>6 DEF Here, ContentInv, InRoot
    <3>10. QED BY <3>4, <3>5, <3>7, <3>8, <3>9 DEF ContentInv
  <2>10. QED BY <2>8, <2>9 DEF ArchiveInv
<1>6. QED BY <1>4, <1>5 DEF WriteHeader, Write

\* A block of a body.
LEMMA BodyArchive ==
  ASSUME ArchiveInv, copyExactly
  PROVE  ArchiveInv'
<1> DEFINE ended == wk.eof \/ wk.pos >= len[wk.f]
           u == U(IF ended THEN "zero" ELSE "data", wk.f, wk.pos)
           next == [wk EXCEPT !.pos = @ + 1, !.eof = ended, !.at = AfterUnit(wk.pos + 1)]
<1>0. UNCHANGED <<req, got, len, gone, touched>> /\ wk.at = "body"
  BY DEF copyExactly, WalkerOnly, upload, tree
<1>1. WkTyped /\ OutTyped /\ ErrTyped /\ WkFields \subseteq DOMAIN wk
  BY DEF ArchiveInv, ArchiveTyped, WkTyped
<1>4. CASE out' = out /\ wk' = [wk EXCEPT !.at = "close", !.err = "closed", !.stuck = TRUE]
  BY <1>0, <1>4, RefusedArchive
<1>5. CASE out' = Append(out, u) /\ wk' = next
  <2>1. /\ wk'.at = AfterUnit(wk.pos + 1) /\ wk'.err = wk.err /\ wk'.root = wk.root
        /\ wk'.stuck = wk.stuck /\ WkFields \subseteq DOMAIN wk'
        /\ wk'.size = wk.size /\ wk'.pos = wk.pos + 1 /\ wk'.f = wk.f /\ wk'.names = wk.names
    BY <1>1, <1>5 DEF WkFields
  <2>2. ~ended => ~wk'.eof BY <1>1, <1>5, ZenonT(30) DEF WkFields
  <2>3. wk.f \in Files /\ wk.size \in Nat /\ wk.pos \in Nat /\ wk.pos < wk.size
    BY <1>0, <1>1 DEF WkTyped
  <2>4. u \in Units /\ u.k \in {"data", "zero"} /\ u.f = wk.f /\ (~ended => u = U("data", wk.f, wk.pos))
    <3>1. u.k \in {"data", "zero"} /\ u.f = wk.f /\ u.n = wk.pos BY DEF U
    <3>2. ~ended => u = U("data", wk.f, wk.pos) OBVIOUS
    <3>3. QED BY <2>3, <3>1, <3>2, Zenon DEF Units, U
  <2> HIDE DEF u
  <2>5. W' = Append(W, u) /\ out' \in Seq(Units) /\ W \in Seq(Units)
    BY <1>0, <1>1, <1>5, <2>4, Written, WIsSeq DEF OutTyped
  <2>6. \/ wk'.at = "entry" /\ wk.pos + 1 = wk.size
        \/ wk'.at = "body" /\ wk.pos + 1 < wk.size
    BY <2>1, <2>3 DEF AfterUnit
  <2>7. WkTyped' BY <1>0, <1>1, <2>1, <2>3, <2>6 DEF WkTyped, InRoot
  <2>8. ArchiveTyped' /\ NoErr' = NoErr
    <3>1. ~Ended' /\ wk'.at # "close" /\ wk'.at # "idle" BY <2>6 DEF Ended
    <3>2. QED BY <1>0, <1>1, <2>1, <2>5, <2>7, <3>1, ArchiveGoes DEF ArchiveInv
  <2>9. ASSUME NoErr PROVE ShapeInv' /\ ContentInv'
    <3>1. ShapeInv /\ ContentInv BY <2>9 DEF ArchiveInv
    <3>2. ~Ended /\ ~Ended' BY <1>0, <2>6 DEF Ended
    <3>3. Rem = wk.size - wk.pos /\ Rem \in Nat \ {0} BY <1>0, <2>3 DEF Rem
    <3>4. Rem' = Rem - 1 BY <2>1, <2>3, <2>6, <3>3 DEF Rem
    <3>5. ShapeInv' BY <1>0, <2>1, <2>4, <2>5, <3>1, <3>2, <3>3, <3>4, ShapeBody, ZenonT(30)
    <3>6. wk.f \in Unchanged => wk.size = Size[wk.f] /\ ~ended
      <4>1. wk.f \in Unchanged => wk.size = Size[wk.f] /\ ~wk.eof
        BY <1>0, <3>1 DEF ContentInv, Copied
      <4>2. wk.f \in Unchanged => len[wk.f] = Size[wk.f]
        BY <2>3 DEF ArchiveInv, ArchiveTyped, TreeTyped, Unchanged
      <4>3. wk.f \in Unchanged => ~(wk.pos >= len[wk.f]) BY <2>3, <4>1, <4>2
      <4>4. QED BY <4>1, <4>3
    <3> HIDE DEF ended
    <3>7. \A f \in Unchanged' : Right(f)'
      <4>1. ASSUME NEW f \in Unchanged PROVE Right(f)'
        <5>1. f \in Files /\ Right(f) BY <3>1 DEF Unchanged, ContentInv
        <5>2. f = wk.f => wk.size = Size[f] /\ u = U("data", f, wk.pos) BY <2>4, <3>6, <4>1
        <5>3. u.k # "hdr" BY <2>4
        <5>4. QED BY <1>0, <2>3, <2>4, <2>5, <3>1, <5>1, <5>2, <5>3, RightBody
      <4>2. QED BY <1>0, <4>1 DEF Unchanged
    <3>8. \A f : Has(f) => Has(f)' BY <2>4, <2>5, GrownHas
    <3>9. Copied' BY <1>0, <2>1, <2>2, <3>6 DEF Copied, Unchanged
    <3>10. Past' BY <1>0, <2>1, <3>1, <3>8, ZenonT(30) DEF Past, ContentInv
    <3>11. Here' BY <1>0, <2>1, <3>1, <3>8 DEF Here, ContentInv, InRoot
    <3>12. QED BY <3>5, <3>7, <3>9, <3>10, <3>11 DEF ContentInv
  <2>10. QED BY <2>8, <2>9 DEF ArchiveInv
<1>6. QED BY <1>4, <1>5 DEF copyExactly, Write

\* The writers are closed and the error is handed over.
LEMMA CloseArchive ==
  ASSUME ArchiveInv, CloseTar \/ CloseGzip \/ HandOver
  PROVE  ArchiveInv'
<1>0. UNCHANGED <<req, got, len, gone, touched>> /\ wk.at \in {"close", "flush", "hand"}
  BY Zenon DEF CloseTar, CloseGzip, HandOver, WalkerOnly, upload, tree
<1>1. WkTyped /\ OutTyped /\ ErrTyped /\ WkFields \subseteq DOMAIN wk /\ out \in Seq(Units)
  BY DEF ArchiveInv, ArchiveTyped, WkTyped, OutTyped
<1>2. /\ wk'.at \in {"flush", "hand", "done"} /\ wk'.root = wk.root
      /\ wk'.size = wk.size /\ wk'.pos = wk.pos /\ WkFields \subseteq DOMAIN wk'
  BY <1>1, Zenon DEF CloseTar, CloseGzip, HandOver, WkFields
<1>3. NoErr' => wk'.err = wk.err /\ NoErr
  BY <1>1, Zenon DEF CloseTar, CloseGzip, HandOver, WkFields, FirstErr, NoErr
<1>4. wk.at # "close" => out' = out
  BY Zenon DEF CloseTar, CloseGzip, HandOver
<1> DEFINE u == U("end", "", 0)
<1>5. wk.at = "close" => out' = out \/ out' = Append(out, u)
  BY Zenon DEF CloseTar, CloseGzip, HandOver
<1>6. u \in Units /\ u.k = "end"
  <2>1. 0 \in Nat OBVIOUS
  <2>2. QED BY <2>1 DEF Units, U
<1>7. wk.at = "close" /\ NoErr' => out' = Append(out, u) /\ wk'.stuck = wk.stuck
  BY <1>1, Zenon DEF CloseTar, CloseGzip, HandOver, WkFields, FirstErr, NoErr, ErrTyped
<1> HIDE DEF u
<1>8. out' \in Seq(Units) BY <1>0, <1>1, <1>4, <1>5, <1>6
<1>9. CASE ~NoErr' BY <1>0, <1>1, <1>2, <1>8, <1>9, ArchiveFails DEF ArchiveInv
<1>10. CASE NoErr'
  <2>1. NoErr /\ wk'.err = wk.err /\ ShapeInv /\ ContentInv BY <1>3, <1>10 DEF ArchiveInv
  <2>2. wk'.stuck = wk.stuck
    <3>1. wk.at # "close" => wk'.stuck = wk.stuck
      BY <1>1, Zenon DEF CloseTar, CloseGzip, HandOver, WkFields
    <3>2. QED BY <1>7, <1>10, <3>1
  <2>3. WkTyped' BY <1>0, <1>1, <1>2 DEF WkTyped, InRoot
  <2>4. wk.root > Len(req.sources) BY <1>0, <1>1, <2>1 DEF ErrTyped, Ended
  <2>5. ArchiveTyped'
    BY <1>0, <1>1, <1>2, <1>8, <2>1, <2>2, <2>3, <2>4, ArchiveGoes, Zenon DEF ArchiveInv
  <2>6. Copied' /\ Here' BY <1>2 DEF Copied, Here, InRoot
  <2>7. CASE wk.at # "close"
    <3>1. W' = W BY <1>0, <1>4, <2>7 DEF W
    <3>2. Ended /\ Ended' BY <1>0, <1>2, <2>7 DEF Ended
    <3>3. W # <<>> BY <2>1, <3>2 DEF ShapeInv
    <3>4. wk'.at # "body" /\ wk'.at # "root" /\ wk.at # "body" BY <1>0, <1>2
    <3>5. ShapeInv' BY <2>1, <3>1, <3>2, <3>3, <3>4, ShapeStays
    <3>6. ContentInv' BY <1>0, <1>2, <2>1, <2>6, <3>1, ContentStays
    <3>7. QED BY <2>5, <3>5, <3>6 DEF ArchiveInv
  <2>8. CASE wk.at = "close"
    <3>1. W' = Append(W, u) /\ W \in Seq(Units)
      BY <1>0, <1>1, <1>6, <1>7, <1>10, <2>8, Written, WIsSeq DEF OutTyped
    <3>2. ~Ended /\ Ended' BY <1>2, <2>8 DEF Ended
    <3>3. ShapeInv' BY <1>6, <2>1, <2>8, <3>1, <3>2, ShapeEnd
    <3>4. \A f \in Unchanged' : Right(f)'
      <4>1. ASSUME NEW f \in Unchanged PROVE Right(f)'
        <5>1. f \in Files /\ Right(f) BY <2>1 DEF Unchanged, ContentInv
        <5>2. u.k # "hdr" /\ wk.at # "body" BY <1>6, <2>8
        <5>3. QED BY <1>6, <2>1, <3>1, <5>1, <5>2, RightBetween
      <4>2. QED BY <1>0, <4>1 DEF Unchanged
    <3>5. \A f : Has(f) => Has(f)' BY <1>6, <3>1, GrownHas
    <3>6. Past' BY <1>0, <1>2, <2>1, <3>5 DEF Past, ContentInv
    <3>7. QED BY <2>5, <2>6, <3>3, <3>4, <3>6 DEF ArchiveInv, ContentInv
  <2>9. QED BY <2>7, <2>8
<1>11. QED BY <1>9, <1>10

\* Every step of RunBackup keeps the archive well formed and whole so far.
LEMMA ArchiveStep ==
  ASSUME ArchiveInv, req \in Requests, pc = "start" => wk.at = "idle", [Next]_vars
  PROVE  ArchiveInv'
<1>1. CASE WalkerStep
  <2>1. CASE ReadFails
    <3>1. UNCHANGED <<req, got, len, gone, touched>> /\ wk.at = "body" /\ Fails("io")
      BY <2>1 DEF ReadFails, WalkerOnly, upload, tree
    <3>2. QED BY <3>1, FailedArchive
  <2>2. QED
    BY <1>1, <2>1, RootArchive, DirArchive, EntryArchive, VisitArchive, HeaderArchive,
       BodyArchive, CloseArchive DEF WalkerStep
<1>2. got \in Seq(Units) /\ out \in Seq(Units) BY DEF ArchiveInv, ArchiveTyped, OutTyped
<1>3. ASSUME UNCHANGED <<req, wk, len, gone, touched, got, out>> PROVE ArchiveInv'
  <2>1. W' = W BY <1>3 DEF W
  <2>2. QED BY <1>2, <1>3, <2>1, ArchiveFrame
<1>4. CASE Start
  <2>1. UNCHANGED <<req, got, out, len, gone, touched>> /\ pc = "start"
    BY <1>4, Zenon DEF Start, upload, tree
  <2>2. CASE wk' = wk BY <1>3, <2>1, <2>2
  <2>3. CASE wk' = [wk EXCEPT !.at = "root"] /\ req.sources # <<>> /\ IsTar
    <3>1. wk.at = "idle" BY <2>1
    <3>2. WkTyped /\ OutTyped /\ ErrTyped /\ WkFields \subseteq DOMAIN wk /\ ArchiveTyped
      BY DEF ArchiveInv, ArchiveTyped, WkTyped
    <3>3. /\ wk'.at = "root" /\ wk'.err = wk.err /\ wk'.root = wk.root /\ wk'.stuck = wk.stuck
          /\ wk'.size = wk.size /\ wk'.pos = wk.pos /\ WkFields \subseteq DOMAIN wk'
      BY <2>3, <3>2 DEF WkFields
    <3>4. W' = W BY <2>1 DEF W
    <3>5. WkTyped' BY <2>1, <3>2, <3>3 DEF WkTyped, InRoot
    <3>6. OutTyped' BY <1>2, <2>1, <3>3 DEF OutTyped
    <3>7. NoErr' = NoErr /\ ~Ended' BY <3>3 DEF NoErr, Ended
    <3>8. ErrTyped' BY <2>1, <2>3, <3>2, <3>3, <3>7, Zenon DEF ErrTyped, IsTar
    <3>9. TreeTyped' BY <2>1 DEF ArchiveInv, ArchiveTyped, TreeTyped
    <3>10. ASSUME NoErr PROVE ShapeInv' /\ ContentInv'
      <4>1. ShapeInv /\ ContentInv BY <3>10 DEF ArchiveInv
      <4>2. wk.root = 1 /\ ~Ended BY <3>1, <3>2 DEF WkTyped, Ended
      <4>3. ShapeInv' BY <3>1, <3>3, <3>4, <3>7, <4>1, <4>2, ShapeStays
      <4>4. Copied' /\ Here' BY <3>3 DEF Copied, Here, InRoot
      <4>5. QED BY <2>1, <3>3, <3>4, <4>1, <4>3, <4>4, ContentStays
    <3>11. QED BY <3>5, <3>6, <3>7, <3>8, <3>9, <3>10 DEF ArchiveInv, ArchiveTyped
  <2>4. QED BY <1>4, <2>2, <2>3, Zenon DEF Start, IsTar
<1>5. CASE UploadReads
  <2>1. W' = W /\ got' \in Seq(Units) /\ out' \in Seq(Units)
    BY <1>2, <1>5, MovesOn DEF UploadReads
  <2>2. QED BY <1>5, <2>1, ArchiveFrame DEF UploadReads, tree
<1>6. CASE UploadCompletes \/ UploadAborts
  BY <1>3, <1>6, Zenon DEF UploadCompletes, UploadAborts, UploadEnds, tree, walker
<1>7. CASE NewUploader \/ ClosePipe \/ Join
  BY <1>3, <1>7, Zenon DEF NewUploader, ClosePipe, Join, walker, tree, upload
<1>8. CASE Prepare \/ NextSource \/ pgDump \/ StartSidecar \/ verifyRestore \/ UploadDump
  BY <1>3, <1>8, ZenonT(30) DEF Prepare, NextSource, pgDump, StartSidecar, verifyRestore,
    UploadDump, PgOnly,
                    walker, tree, upload
<1>9. CASE CancelBackup \/ StreamEnds \/ ProgressStops \/ UNCHANGED vars
  BY <1>3, <1>9 DEF CancelBackup, StreamEnds, ProgressStops, vars, walker, tree, upload
<1>10. QED
  BY <1>1, <1>4, <1>5, <1>6, <1>7, <1>8, <1>9, ArchiveChange DEF Next, MainStep, UploadStep

-----------------------------------------------------------------------------
(* What is stored.                                                         *)

\* The object an earlier run left under a key is no archive of this run.
LEMMA PreviousKind == Previous[1].k = "previous"
<1>1. \A x : <<U("previous", x, 0)>>[1].k = "previous" BY DEF U
<1>2. QED BY <1>1, Zenon DEF Previous

\* What the upload has read when it meets the end of the body.
LEMMA WholeArchive ==
  ASSUME ArchiveInv, req \in Requests, NoErr, wk.at = "done", out = <<>>
  PROVE  WellFormed(got) /\ Complete(got) /\ got # Previous
<1>1. WkTyped /\ OutTyped /\ ErrTyped /\ ShapeInv /\ ContentInv /\ Ended /\ Rem = 0
  BY DEF ArchiveInv, ArchiveTyped, Ended, Rem
<1>2. W = got /\ got \in Seq(Units)
  BY <1>1 DEF W, OutTyped
<1>3. Len(got) \in Nat /\ DOMAIN got = 1 .. Len(got) BY <1>2
<1>4. got # <<>> /\ got[1].k = "hdr" BY <1>1, <1>2 DEF ShapeInv
<1>5. \A i \in DOMAIN got : got[i].k = "end" <=> i = Len(got) BY <1>1, <1>2 DEF ShapeInv
<1>6. ASSUME NEW i \in Headers(got)
      PROVE  /\ i \in DOMAIN got /\ got[i].n \in Nat /\ i + got[i].n + 1 \in DOMAIN got
             /\ got[i + got[i].n + 1].k \in {"hdr", "end"}
             /\ \A j \in i + 1 .. (i + got[i].n + 1) - 1 :
                  j <= Len(got) /\ got[j].k \in {"data", "zero"} /\ got[j].f = got[i].f
  <2>1. i \in 1 .. Len(got) BY <1>3, <1>6 DEF Headers
  <2>2. got[i] \in Units BY <1>2, <2>1
  <2>3. got[i].n \in Nat BY <2>2, Zenon DEF Units
  <2>4. Entry(i) BY <1>1, <1>2, <1>6 DEF ShapeInv
  <2>5. /\ i + got[i].n + 1 <= Len(got) /\ got[i + got[i].n + 1].k \in {"hdr", "end"}
        /\ \A j \in i + 1 .. (i + got[i].n + 1) - 1 :
             j <= Len(got) => got[j].k \in {"data", "zero"} /\ got[j].f = got[i].f
    BY <1>1, <1>2, <2>4 DEF Entry
  <2>6. \A j \in i + 1 .. (i + got[i].n + 1) - 1 : j <= Len(got) BY <1>3, <2>1, <2>3, <2>5
  <2>7. i + got[i].n + 1 \in DOMAIN got BY <1>3, <2>1, <2>3, <2>5
  <2>8. QED BY <1>3, <2>1, <2>3, <2>5, <2>6, <2>7
<1>7. WellFormed(got) BY <1>4, <1>5, <1>6 DEF WellFormed
<1>8. ASSUME NEW k \in 1 .. Len(req.sources), NEW f \in Tree[req.sources[k]] \ gone
      PROVE  /\ \E i \in Headers(got) : got[i].f = f
             /\ f \notin touched /\ f \notin Links =>
                  \A i \in Headers(got) : got[i].f = f =>
                    got[i].n = Size[f] /\ \A j \in i + 1 .. i + Size[f] : got[j] = U("data", f, j - i - 1)
  <2>0. req.sources \in Seq(DOMAIN Tree) BY <1>1, RequestsAssumption, Zenon DEF ErrTyped, IsTar
  <2>2. req.sources[k] \in DOMAIN Tree BY <2>0
  <2>3. f \in Files BY <2>2 DEF Files
  <2>4. Len(req.sources) \in Nat /\ wk.root > Len(req.sources) /\ wk.root \in Nat
    BY <1>1, <2>0 DEF ErrTyped, WkTyped
  <2>5. k \in 1 .. wk.root - 1 /\ k <= Len(req.sources) BY <2>4
  <2>6. Has(f) BY <1>1, <2>5 DEF ContentInv, Past
  <2>7. ASSUME f \notin touched, f \notin Links, NEW i \in Headers(got), got[i].f = f
        PROVE  got[i].n = Size[f] /\ \A j \in i + 1 .. i + Size[f] : got[j] = U("data", f, j - i - 1)
    <3>1. Right(f) BY <1>1, <2>3, <2>7 DEF ContentInv, Unchanged
    <3>2. /\ got[i].n = Size[f]
          /\ \A j \in i + 1 .. i + Size[f] : j <= Len(got) => got[j] = U("data", f, j - i - 1)
      BY <1>2, <2>7, <3>1 DEF Right
    <3>3. Size[f] \in Nat /\ i \in Nat BY <1>3, <1>6, <2>3, TreeAssumption
    <3>4. (i + got[i].n + 1) - 1 = i + Size[f]
      <4>1. (i + Size[f] + 1) - 1 = i + Size[f] BY <3>3, BlockEnd
      <4>2. QED BY <3>2, <4>1
    <3>5. \A j \in i + 1 .. i + Size[f] : j <= Len(got) BY <1>6, <2>7, <3>4
    <3>6. QED BY <3>2, <3>5
  <2>8. QED BY <1>2, <2>6, <2>7 DEF Has
<1>9. Complete(got) BY <1>8 DEF Complete
<1>10. got # Previous BY <1>4, PreviousKind
<1>11. QED BY <1>7, <1>9, <1>10

-----------------------------------------------------------------------------
(* The cause of a failure.                                                 *)

\* While RunBackup has not returned, the context, the walker and the upload know only
\* errors that happened, but for the walker's "closed", which the closed pipe gives it.
Known ==
  pc # "returned" =>
    /\ ctx => "ctx" \in happened
    /\ wk.err \in {"", "closed"} \cup happened
    /\ uperr \in {""} \cup happened
    /\ rclosed => up = "ended"

\* The pipe is closed by the walker as it ends, or by RunBackup after the upload.
PipeInv ==
  /\ WkFields \subseteq DOMAIN wk
  /\ wk.err = "closed" \/ wk.stuck => rclosed
  /\ pipe \in {"open", "eof", "err"}
  /\ pipe # "open" => wk.at = "done"
  /\ pipe = "eof" => wk.err = ""
  /\ pipe = "err" => wk.err # ""
  /\ up = "ended" /\ uperr = "" => pipe = "eof"
  /\ pc = "join" => up = "ended"
  /\ pc \in {"start", "init"} => up = "idle"
  /\ pc = "start" => wk.at = "idle"

CauseInv == Known /\ PipeInv /\ CauseReported

\* The cause is kept by a step that touches none of what it is about.
LEMMA CauseFrame ==
  ASSUME CauseInv, UNCHANGED <<pc, result, ctx, wk, uperr, up, rclosed, pipe, happened>>
  PROVE  CauseInv'
<1>1. Known' BY Zenon DEF CauseInv, Known
<1>2. PipeInv' BY Zenon DEF CauseInv, PipeInv
<1>3. CauseReported' BY Zenon DEF CauseInv, CauseReported
<1>4. QED BY <1>1, <1>2, <1>3 DEF CauseInv

\* RunBackup returns.
LEMMA CauseReturns ==
  ASSUME CauseInv, NEW e \in {"ok"} \cup happened', Return(e),
         UNCHANGED <<wk, uperr, up, pipe>>, rclosed => rclosed'
  PROVE  CauseInv'
<1>1. Known' BY Zenon DEF Known, Return
<1>2. PipeInv' BY Zenon DEF CauseInv, PipeInv, Return
<1>3. CauseReported' BY Zenon DEF CauseReported, Return
<1>4. QED BY <1>1, <1>2, <1>3 DEF CauseInv

\* RunBackup goes on.
LEMMA CauseGoes ==
  ASSUME CauseInv, pc # "returned", NEW l, pc' = l, l = "join" => up = "ended",
         l # "start", l = "init" => pc = "start" /\ up' = up,
         UNCHANGED <<result, ctx, uperr, pipe, happened>>,
         wk' = wk \/ (wk' = [wk EXCEPT !.at = "root"] /\ pipe = "open"),
         up' = up \/ (up # "ended" /\ up' = "reading"), rclosed' = rclosed \/ (rclosed' /\ up = "ended")
  PROVE  CauseInv'
<1>1. wk'.err = wk.err /\ wk'.stuck = wk.stuck /\ WkFields \subseteq DOMAIN wk'
  BY Zenon DEF CauseInv, PipeInv, WkFields
<1>2. Known' BY <1>1, Zenon DEF CauseInv, Known
<1>3. PipeInv' BY <1>1, Zenon DEF CauseInv, PipeInv
<1>4. CauseReported' BY Zenon DEF CauseInv, CauseReported
<1>5. QED BY <1>2, <1>3, <1>4 DEF CauseInv

\* The walker goes on or fails.
LEMMA CauseWalks ==
  ASSUME CauseInv, UNCHANGED <<pc, result, ctx, uperr, up, rclosed, pipe>>,
         happened \subseteq happened', pipe = "open",
         WkFields \subseteq DOMAIN wk',
         pc # "returned" => wk'.err \in {wk.err, "closed"} \cup happened',
         wk'.err = "closed" => wk.err = "closed" \/ rclosed,
         wk'.stuck => wk.stuck \/ rclosed, wk.at # "idle"
  PROVE  CauseInv'
<1>1. Known' BY Zenon DEF CauseInv, Known
<1>2. PipeInv' BY Zenon DEF CauseInv, PipeInv
<1>3. CauseReported' BY Zenon DEF CauseInv, CauseReported
<1>4. QED BY <1>1, <1>2, <1>3 DEF CauseInv

\* A walker step records only errors that happened.
LEMMA WalkerCause ==
  ASSUME CauseInv, WalkerStep
  PROVE  CauseInv'
<1>0. WkFields \subseteq DOMAIN wk BY Zenon DEF CauseInv, PipeInv
<1>1. CASE HandOver
  <2>1. /\ UNCHANGED <<pc, result, ctx, uperr, up, rclosed, happened>>
        /\ pipe' = IF wk.err = "" THEN "eof" ELSE "err"
        /\ wk' = [wk EXCEPT !.at = "done"] /\ wk.at = "hand"
    BY <1>1, Zenon DEF HandOver, main, upload
  <2>2. /\ wk'.err = wk.err /\ wk'.stuck = wk.stuck /\ wk'.at = "done"
        /\ WkFields \subseteq DOMAIN wk'
    BY <1>0, <2>1, Zenon DEF WkFields
  <2>3. Known' BY <2>1, <2>2, Zenon DEF CauseInv, Known
  <2>4. pipe = "open" BY <2>1, Zenon DEF CauseInv, PipeInv
  <2>5. PipeInv' BY <2>1, <2>2, <2>4, Zenon DEF CauseInv, PipeInv
  <2>6. CauseReported' BY <2>1, Zenon DEF CauseInv, CauseReported
  <2>7. QED BY <2>3, <2>5, <2>6 DEF CauseInv
<1>2. ASSUME UNCHANGED <<pc, result, ctx, uperr, up, rclosed, pipe>>, wk.at \notin {"idle", "done"},
             happened \subseteq happened', WkFields \subseteq DOMAIN wk',
             pc # "returned" => wk'.err \in {wk.err, "closed"} \cup happened',
             wk'.err = "closed" => wk.err = "closed" \/ rclosed,
             wk'.stuck => wk.stuck \/ rclosed
      PROVE  CauseInv'
  <2>1. pipe = "open" BY <1>2, Zenon DEF CauseInv, PipeInv
  <2>2. QED BY <1>2, <2>1, CauseWalks
<1>3. pc # "returned" /\ ctx => "ctx" \in happened BY Zenon DEF CauseInv, Known
<1> USE <1>0, <1>3 DEF WalkerOnly, main, upload, Fails, Blame, Write, WkFields
<1>4. CASE WalkRoot
  <2>1. UNCHANGED <<pc, result, ctx, uperr, up, rclosed, pipe>> /\ wk.at = "root"
    BY <1>4 DEF WalkRoot
  <2>2. happened \subseteq happened' BY <1>4 DEF WalkRoot
  <2>3. WkFields \subseteq DOMAIN wk' /\ wk'.stuck = wk.stuck BY <1>4, Zenon DEF WalkRoot
  <2>4. wk'.err = wk.err \/ (wk'.err = "ctx" /\ ctx) \/ (wk'.err # "closed" /\ wk'.err \in happened')
    BY <1>4, Zenon DEF WalkRoot
  <2>5. QED BY <1>2, <2>1, <2>2, <2>3, <2>4
<1>5. CASE WalkDir BY <1>2, <1>5, Zenon DEF WalkDir
<1>6. CASE NextEntry BY <1>2, <1>6, Zenon DEF NextEntry
<1>7. CASE Visit
  <2>1. UNCHANGED <<pc, result, ctx, uperr, up, rclosed, pipe>> /\ wk.at = "visit"
    BY <1>7 DEF Visit
  <2>2. happened \subseteq happened' BY <1>7 DEF Visit
  <2>3. WkFields \subseteq DOMAIN wk' /\ wk'.stuck = wk.stuck BY <1>7, Zenon DEF Visit
  <2>4. wk'.err = wk.err \/ (wk'.err = "ctx" /\ ctx) \/ (wk'.err # "closed" /\ wk'.err \in happened')
    BY <1>7, Zenon DEF Visit
  <2>5. QED BY <1>2, <2>1, <2>2, <2>3, <2>4
<1>8. CASE WriteHeader BY <1>2, <1>8, Zenon DEF WriteHeader
<1>9. CASE copyExactly
  <2>1. UNCHANGED <<pc, result, ctx, uperr, up, rclosed, pipe, happened>> /\ wk.at = "body"
    BY <1>9 DEF copyExactly
  <2>2. CASE rclosed /\ wk' = [wk EXCEPT !.at = "close", !.err = "closed", !.stuck = TRUE]
    BY <1>2, <2>1, <2>2
  <2>3. CASE ~(rclosed /\ wk' = [wk EXCEPT !.at = "close", !.err = "closed", !.stuck = TRUE])
    <3>1. wk'.err = wk.err /\ wk'.stuck = wk.stuck /\ WkFields \subseteq DOMAIN wk'
      BY <1>9, <2>3, Zenon DEF copyExactly
    <3>2. QED BY <1>2, <2>1, <3>1
  <2>4. QED BY <2>2, <2>3
<1>10. CASE ReadFails BY <1>2, <1>10 DEF ReadFails
<1>11. CASE CloseTar
  <2>1. UNCHANGED <<pc, result, ctx, uperr, up, rclosed, pipe, happened>> /\ wk.at = "close"
    BY <1>11, Zenon DEF CloseTar
  <2>2. CASE wk' = [wk EXCEPT !.at = "flush"] BY <1>2, <2>1, <2>2
  <2>3. CASE rclosed /\ wk' = [wk EXCEPT !.at = "flush", !.err = FirstErr("closed"), !.stuck = TRUE]
    <3>1. wk'.err \in {wk.err, "closed"} /\ WkFields \subseteq DOMAIN wk' BY <2>3 DEF FirstErr
    <3>2. QED BY <1>2, <2>1, <2>3, <3>1
  <2>4. QED BY <1>11, <2>2, <2>3, Zenon DEF CloseTar
<1>12. CASE CloseGzip BY <1>2, <1>12, Zenon DEF CloseGzip, FirstErr, CauseInv, PipeInv
<1>13. QED
  BY <1>1, <1>4, <1>5, <1>6, <1>7, <1>8, <1>9, <1>10, <1>11, <1>12 DEF WalkerStep

\* An upload step records only errors that happened, and closes the pipe behind it.
LEMMA UploadCause ==
  ASSUME CauseInv, UploadStep
  PROVE  CauseInv'
<1>1. CASE UploadReads BY <1>1, CauseFrame DEF UploadReads, main
<1>2. ASSUME up' = "ended", up = "reading", happened \subseteq happened',
             UNCHANGED <<pc, result, ctx, wk, pipe, rclosed>>,
             pc # "returned" => uperr' \in {""} \cup happened', uperr' = "" => pipe = "eof"
      PROVE  CauseInv'
  <2>1. Known' BY <1>2, Zenon DEF CauseInv, Known
  <2>2. PipeInv' BY <1>2, Zenon DEF CauseInv, PipeInv
  <2>3. CauseReported' BY <1>2, Zenon DEF CauseInv, CauseReported
  <2>4. QED BY <2>1, <2>2, <2>3 DEF CauseInv
<1>3. CASE UploadCompletes
  BY <1>2, <1>3, Zenon DEF UploadCompletes, UploadEnds, Blame, main, walker
<1>4. CASE UploadAborts
  <2>1. up = "reading" /\ UNCHANGED <<pc, result, ctx, wk, pipe, rclosed>> /\ up' = "ended"
    BY <1>4 DEF UploadAborts, UploadEnds, main, walker
  <2>2. CASE pipe = "err" /\ UploadEnds(wk.err, FALSE) /\ UNCHANGED happened
    <3>1. wk.err # "" /\ (pc # "returned" => wk.err \in happened)
      BY <2>1, <2>2, Zenon DEF CauseInv, PipeInv, Known
    <3>2. QED BY <1>2, <2>1, <2>2, <3>1, Zenon DEF UploadEnds
  <2>3. CASE UploadEnds("s3", FALSE) /\ Blame("s3") BY <1>2, <2>1, <2>3 DEF UploadEnds, Blame
  <2>4. CASE ctx /\ UploadEnds("ctx", FALSE) /\ UNCHANGED happened
    BY <1>2, <2>1, <2>4, Zenon DEF UploadEnds, CauseInv, Known
  <2>5. QED BY <1>4, <2>2, <2>3, <2>4, Zenon DEF UploadAborts
<1>5. QED BY <1>1, <1>3, <1>4 DEF UploadStep

\* RunBackup itself returns only an error that happened, or "ok" without one.
LEMMA MainCause ==
  ASSUME CauseInv, MainStep
  PROVE  CauseInv'
<1>1. pc # "returned" /\ ctx => "ctx" \in happened BY Zenon DEF CauseInv, Known
<1> USE DEF Goto, Blame, walker, upload
<1>2. CASE Start
  <2>1. CASE Return("request") /\ Blame("request") /\ UNCHANGED wk
    BY <1>2, <2>1, CauseReturns, Zenon DEF Start
  <2>2. CASE ~(Return("request") /\ Blame("request") /\ UNCHANGED wk)
    <3>1. /\ pc = "start" /\ pc' \in {"mktemp", "init"}
          /\ UNCHANGED <<result, ctx, happened, uperr, up, pipe, rclosed>>
          /\ wk' \in {wk, [wk EXCEPT !.at = "root"]}
      BY <1>2, <2>2, Zenon DEF Start
    <3>2. CASE wk' = wk BY <3>1, <3>2, CauseGoes
    <3>3. CASE wk' # wk
      <4>1. pipe = "open" BY <3>1, Zenon DEF CauseInv, PipeInv
      <4>2. QED BY <3>1, <3>3, <4>1, CauseGoes
    <3>4. QED BY <3>2, <3>3
  <2>3. QED BY <2>1, <2>2
<1>3. CASE NewUploader
  <2>1. CASE Goto("upload") /\ up' = "reading" /\ UNCHANGED <<rclosed, happened>>
    <3>1. up # "ended" BY <1>3, Zenon DEF NewUploader, CauseInv, PipeInv
    <3>2. QED BY <1>3, <2>1, <3>1, CauseGoes DEF NewUploader
  <2>2. CASE Return("init") /\ Blame("init") /\ rclosed' = TRUE /\ UNCHANGED up
    BY <1>3, <2>2, CauseReturns DEF NewUploader
  <2>3. QED BY <1>3, <2>1, <2>2, Zenon DEF NewUploader
<1>4. CASE ClosePipe BY <1>4, CauseGoes DEF ClosePipe
<1>5. CASE Join
  <2>1. pc = "join" /\ Cause(wk.err, uperr) \in {""} \cup happened
    BY <1>5, Zenon DEF Join, Cause, CauseInv, Known, PipeInv
  <2>2. PICK e : Return(e) /\ e \in {"ok"} \cup happened BY <1>5, <2>1, Zenon DEF Join
  <2>3. QED BY <1>5, <2>2, CauseReturns, Zenon DEF Join
<1>6. CASE Prepare \/ NextSource \/ pgDump \/ StartSidecar \/ verifyRestore \/ UploadDump
  <2>1. UNCHANGED <<wk, uperr, up, pipe, rclosed>> /\ pc # "returned" /\ happened \subseteq happened'
    BY <1>6, Zenon DEF Prepare, NextSource, pgDump, StartSidecar, verifyRestore,
      UploadDump, PgOnly, ReturnPg
  <2>2. \/ \E e \in {"ok"} \cup happened' : Return(e)
        \/ UNCHANGED <<result, ctx, happened>> /\ pc' \notin {"start", "init", "join"}
    <3> USE <1>1, <2>1 DEF ReturnPg
    <3>1. CASE Prepare BY <3>1 DEF Prepare
    <3>2. CASE NextSource BY <3>2 DEF NextSource
    <3>3. CASE pgDump BY <3>3 DEF pgDump
    <3>4. CASE StartSidecar BY <3>4 DEF StartSidecar
    <3>5. CASE verifyRestore BY <3>5 DEF verifyRestore
    <3>6. CASE UploadDump BY <3>6 DEF UploadDump
    <3>7. QED BY <1>6, <3>1, <3>2, <3>3, <3>4, <3>5, <3>6
  <2>3. QED BY <2>1, <2>2, CauseReturns, CauseGoes, Zenon
<1>7. QED BY <1>2, <1>3, <1>4, <1>5, <1>6 DEF MainStep

\* Every step keeps the cause.
LEMMA CauseStep ==
  ASSUME CauseInv, [Next]_vars
  PROVE  CauseInv'
<1>1. CASE CancelBackup \/ StreamEnds
  <2>1. /\ ctx' = TRUE /\ happened' = happened \cup {"ctx"}
        /\ UNCHANGED <<pc, result, wk, uperr, up, rclosed, pipe>>
    BY <1>1 DEF CancelBackup, StreamEnds, Blame, walker, upload
  <2>2. Known' BY <2>1, Zenon DEF CauseInv, Known
  <2>3. PipeInv' BY <2>1, Zenon DEF CauseInv, PipeInv
  <2>4. CauseReported' BY <2>1, Zenon DEF CauseInv, CauseReported
  <2>5. QED BY <2>2, <2>3, <2>4 DEF CauseInv
<1>2. CASE ProgressStops \/ (\E f \in Files : Change(f)) \/ UNCHANGED vars
  <2>1. UNCHANGED <<pc, result, ctx, wk, uperr, up, rclosed, pipe, happened>>
    BY <1>2 DEF ProgressStops, Change, vars, main, walker, upload
  <2>2. QED BY <2>1, CauseFrame
<1>3. QED BY <1>1, <1>2, WalkerCause, UploadCause, MainCause DEF Next

\* At the start nothing has happened and nothing is returned.
LEMMA CauseInit == Init => CauseInv
<1>1. SUFFICES ASSUME Init PROVE CauseInv OBVIOUS
<1>2. WkFields \subseteq DOMAIN wk /\ wk.err = "" /\ wk.stuck = FALSE /\ wk.at = "idle"
  BY <1>1, Zenon DEF Init, WkFields, Walker
<1>3. Known BY <1>1, <1>2, Zenon DEF Init, Known
<1>4. PipeInv BY <1>1, <1>2, Zenon DEF Init, PipeInv
<1>5. QED BY <1>1, <1>3, <1>4, Zenon DEF Init, CauseInv, CauseReported

\* The error RunBackup returns is one that happened (CauseReported): never the echo of
\* a failed upload in the walker, never a complaint of the archive format.
THEOREM CauseIsReported == Spec => []CauseReported
<1>1. CauseInv => CauseReported BY DEF CauseInv
<1>2. QED BY <1>1, CauseInit, CauseStep, PTL DEF Spec

-----------------------------------------------------------------------------
(* What is stored.                                                         *)

\* Success is no error.
OkInv == "ok" \notin happened

\* The two engines do not mix.
EngineInv ==
  /\ req \in Requests
  /\ pc \in {"init", "upload", "join"} => IsTar
  /\ pc \in {"mktemp", "source", "dump", "verify", "up", "put"} => ~IsTar
  /\ up # "idle" => IsTar
  /\ pc = "start" => wk.at = "idle"

\* The tar engine stores complete archives only, and one when it succeeds.
UpOk == up = "ended" /\ uperr = ""
StoredInv ==
  IsTar =>
    /\ DOMAIN bucket = {<<>>}
    /\ bucket[<<>>] # Previous => WellFormed(bucket[<<>>]) /\ Complete(bucket[<<>>])
    /\ UpOk \/ result = "ok" => bucket[<<>>] # Previous

\* The pgdump engine has stored the dumps of the sources before the one in turn.
DumpOf(d, i) == d[1].f = req.sources[i] /\ d[1].n = i
DumpInv ==
  ~IsTar =>
    /\ src \in Nat \ {0}
    /\ result = "ok" => src > Len(req.sources)
    /\ pc \in {"dump", "verify", "up", "put"} => src <= Len(req.sources)
    /\ pc \in {"verify", "up", "put"} => DumpOf(dump, src)
    /\ pc = "put" /\ req.verify => dump[1].k = "dump"
    /\ \A i \in 1 .. src - 1 : KeyOf(i) \in DOMAIN bucket /\ DumpOf(bucket[KeyOf(i)], i)
    /\ \A k \in DOMAIN bucket : bucket[k] # Previous /\ req.verify => bucket[k][1].k = "dump"

\* "ok" is the name of no fault: no step adds it to what happened.
LEMMA OkStep ==
  ASSUME OkInv, [Next]_vars
  PROVE  OkInv'
<1> DEFINE Faults == {"request", "init", "root", "gone", "denied", "io", "s3", "ctx", "tmp", "dsn",
                      "dump", "verify"}
           Goal == happened' = happened \/ \E e \in Faults : Blame(e)
<1>0. SUFFICES Goal BY DEF OkInv, Blame
<1>1. CASE WalkRoot \/ NextEntry BY <1>1, Zenon DEF WalkRoot, NextEntry
<1>2. CASE Visit \/ ReadFails BY <1>2 DEF Visit, ReadFails
<1>3. CASE WalkDir \/ WriteHeader \/ copyExactly \/ CloseTar \/ CloseGzip \/ HandOver \/ UploadReads
  BY <1>3, Zenon DEF WalkDir, WriteHeader, copyExactly, CloseTar, CloseGzip, HandOver,
    UploadReads
<1>4. CASE UploadCompletes BY <1>4, Zenon DEF UploadCompletes
<1>5. CASE UploadAborts BY <1>5, Zenon DEF UploadAborts
<1>6. CASE Start BY <1>6, Zenon DEF Start
<1>7. CASE NewUploader BY <1>7 DEF NewUploader
<1>8. CASE ClosePipe \/ Join BY <1>8, Zenon DEF ClosePipe, Join
<1>9. CASE Prepare \/ NextSource \/ pgDump \/ StartSidecar \/ verifyRestore \/ UploadDump
  BY <1>9, Zenon DEF Prepare, NextSource, pgDump, StartSidecar, verifyRestore, UploadDump,
    ReturnPg
<1>10. CASE ProgressStops \/ UNCHANGED vars \/ \E f \in Files : Change(f)
  BY <1>10, Zenon DEF ProgressStops, vars, Change
<1>11. CASE CancelBackup \/ StreamEnds BY <1>11, Zenon DEF CancelBackup, StreamEnds
<1>12. QED
  BY <1>1, <1>2, <1>3, <1>4, <1>5, <1>6, <1>7, <1>8, <1>9, <1>10, <1>11
  DEF Next, WalkerStep, MainStep, UploadStep

\* A step that neither stores nor moves RunBackup.
LEMMA StoreFrame ==
  ASSUME EngineInv, StoredInv, DumpInv,
         UNCHANGED <<req, pc, result, up, uperr, bucket, src, dump>>,
         gone \subseteq gone', touched \subseteq touched', wk' = wk \/ wk.at # "idle"
  PROVE  EngineInv' /\ StoredInv' /\ DumpInv'
<1>1. IsTar' = IsTar /\ UpOk' = UpOk BY DEF IsTar, UpOk
<1>2. EngineInv' BY <1>1 DEF EngineInv
<1>3. StoredInv' BY <1>1, CompleteStays, WellFormedStays DEF StoredInv
<1>4. DumpInv' BY <1>1, Zenon DEF DumpInv, DumpOf, KeyOf, DSN
<1>5. QED BY <1>2, <1>3, <1>4

\* The upload ends.
LEMMA UploadStored ==
  ASSUME CauseInv, ArchiveInv, EngineInv, StoredInv, DumpInv, UploadCompletes \/ UploadAborts
  PROVE  EngineInv' /\ StoredInv' /\ DumpInv'
<1>1. /\ up = "reading" /\ up' = "ended" /\ UNCHANGED <<req, pc, result, wk, gone, touched, src, dump>>
  BY Zenon DEF UploadCompletes, UploadAborts, UploadEnds, main, walker, tree, pg
<1>2. IsTar /\ IsTar' BY <1>1, Zenon DEF EngineInv, IsTar
<1>3. EngineInv' BY <1>1, <1>2 DEF EngineInv
<1>4. DumpInv' BY <1>2, Zenon DEF DumpInv
<1>5. \A b : Complete(b) => Complete(b)' BY <1>1, CompleteStays
<1>6. DOMAIN bucket = {<<>>} BY <1>2 DEF StoredInv
<1>7. \/ bucket' = bucket /\ ~UpOk'
      \/ Store(<<>>, got) /\ UploadCompletes
  <2>1. CASE UploadCompletes BY <2>1, Zenon DEF UploadCompletes, UploadEnds, UpOk
  <2>2. CASE UploadAborts
    <3>1. pipe = "err" => wk.err # "" BY Zenon DEF CauseInv, PipeInv
    <3>2. QED BY <2>2, <3>1, Zenon DEF UploadAborts, UploadEnds, UpOk
  <2>3. QED BY <2>1, <2>2
<1>8. CASE bucket' = bucket /\ ~UpOk'
  BY <1>1, <1>2, <1>3, <1>4, <1>5, <1>8, WellFormedStays, Zenon DEF StoredInv
<1>9. CASE Store(<<>>, got) /\ UploadCompletes
  <2>1. out = <<>> /\ pipe = "eof" BY <1>9, Zenon DEF UploadCompletes
  <2>2. wk.at = "done" /\ NoErr BY <2>1, Zenon DEF CauseInv, PipeInv, NoErr
  <2>3. WellFormed(got) /\ Complete(got) /\ got # Previous
    BY <2>1, <2>2, WholeArchive DEF EngineInv
  <2>4. bucket'[<<>>] = got /\ DOMAIN bucket' = {<<>>} BY <1>6, <1>9 DEF Store
  <2>6. StoredInv' BY <1>5, <2>3, <2>4, WellFormedStays DEF StoredInv
  <2>7. QED BY <1>3, <1>4, <2>6
<1>10. QED BY <1>3, <1>4, <1>7, <1>8, <1>9

\* RunBackup's side of the tar engine.
LEMMA MainStored ==
  ASSUME CauseInv, OkInv, EngineInv, StoredInv, DumpInv, Start \/ NewUploader \/ ClosePipe \/ Join
  PROVE  EngineInv' /\ StoredInv' /\ DumpInv'
<1>1. UNCHANGED <<req, uperr, bucket, gone, touched, src, dump>>
  BY Zenon DEF Start, NewUploader, ClosePipe, Join, upload, tree
<1>2. IsTar' = IsTar BY <1>1 DEF IsTar
<1>3. /\ pc' \in {"init", "upload", "join"} => IsTar
      /\ pc' \notin {"start", "source", "dump", "verify", "up", "put"}
      /\ pc' = "mktemp" => ~IsTar
  BY Zenon DEF Start, NewUploader, ClosePipe, Join, Return, Goto, EngineInv, IsTar
<1>4. up' # "idle" => IsTar
  BY Zenon DEF Start, NewUploader, ClosePipe, Join, upload, EngineInv
<1>5. EngineInv' BY <1>1, <1>2, <1>3, <1>4 DEF EngineInv
<1>6. result' = "ok" => result = "ok" \/ (UpOk /\ IsTar)
  <2>1. CASE Start \/ NewUploader \/ ClosePipe
    BY <2>1, Zenon DEF Start, NewUploader, ClosePipe, Return, Goto
  <2>2. CASE Join
    <3>1. up = "ended" /\ IsTar BY <2>2, Zenon DEF Join, CauseInv, PipeInv, EngineInv
    <3>2. wk.err \in {"", "closed"} \cup happened /\ uperr \in {""} \cup happened
      BY <2>2, Zenon DEF CauseInv, Known, Join
    <3>3. result' = IF Cause(wk.err, uperr) = "" THEN "ok" ELSE Cause(wk.err, uperr)
      BY <2>2, Zenon DEF Join, Return
    <3>4. Cause(wk.err, uperr) = "" => uperr = "" BY Zenon DEF Cause
    <3>5. Cause(wk.err, uperr) # "ok" BY <3>2, Zenon DEF Cause, OkInv
    <3>6. QED BY <3>1, <3>3, <3>4, <3>5, Zenon DEF UpOk
  <2>3. QED BY <2>1, <2>2
<1>7. UpOk' => UpOk
  BY <1>1, Zenon DEF UpOk, Start, NewUploader, ClosePipe, Join, upload
<1>8. StoredInv'
  BY <1>1, <1>2, <1>6, <1>7, CompleteStays, WellFormedStays, ZenonT(30) DEF StoredInv
<1>9. ~IsTar /\ result' = "ok" => result = "ok" BY <1>6
<1>10. DumpInv' BY <1>1, <1>2, <1>3, <1>9, Zenon DEF DumpInv, DumpOf, KeyOf, DSN
<1>11. QED BY <1>5, <1>8, <1>10

\* The sources of a run have keys of their own.
LEMMA KeysDiffer ==
  ASSUME NEW i \in Nat, NEW j \in Nat, 0 < i, i < j, j <= Len(req.sources), Len(req.sources) \in Nat
  PROVE  KeyOf(i) # KeyOf(j)
<1>1. Len(req.sources) > 1 OBVIOUS
<1>2. KeyOf(i) = <<i, DSN(i).dbname>> /\ KeyOf(j) = <<j, DSN(j).dbname>> BY <1>1 DEF KeyOf
<1>3. i # j OBVIOUS
<1>4. QED BY <1>2, <1>3

\* A dump is stored at the key of its source.
LEMMA DumpStored ==
  ASSUME DumpInv, ~IsTar, pc = "put", Store(KeyOf(src), dump), Len(req.sources) \in Nat
  PROVE  /\ KeyOf(src) \in DOMAIN bucket' /\ DumpOf(bucket'[KeyOf(src)], src)
         /\ \A i \in 1 .. src - 1 : KeyOf(i) \in DOMAIN bucket' /\ DumpOf(bucket'[KeyOf(i)], i)
         /\ \A k \in DOMAIN bucket' : bucket'[k] # Previous /\ req.verify => bucket'[k][1].k = "dump"
<1>1. /\ src \in Nat \ {0} /\ src <= Len(req.sources) /\ DumpOf(dump, src)
      /\ req.verify => dump[1].k = "dump"
      /\ \A i \in 1 .. src - 1 : KeyOf(i) \in DOMAIN bucket /\ DumpOf(bucket[KeyOf(i)], i)
      /\ \A k \in DOMAIN bucket : bucket[k] # Previous /\ req.verify => bucket[k][1].k = "dump"
  BY DEF DumpInv
<1>2. /\ DOMAIN bucket' = DOMAIN bucket \cup {KeyOf(src)} /\ bucket'[KeyOf(src)] = dump
      /\ \A k \in DOMAIN bucket : k # KeyOf(src) => bucket'[k] = bucket[k]
  BY DEF Store
<1>3. ASSUME NEW i \in 1 .. src - 1 PROVE KeyOf(i) \in DOMAIN bucket' /\ DumpOf(bucket'[KeyOf(i)], i)
  <2>1. i \in Nat /\ 0 < i /\ i < src BY <1>1, <1>3
  <2>2. KeyOf(i) # KeyOf(src) BY <1>1, <2>1, KeysDiffer
  <2>3. QED BY <1>1, <1>2, <2>2
<1>4. QED BY <1>1, <1>2, <1>3, ZenonT(30)

\* The steps of the pg engine store whole dumps, one per source, under different keys.
LEMMA PgStored ==
  ASSUME EngineInv, StoredInv, DumpInv,
         Prepare \/ NextSource \/ pgDump \/ StartSidecar \/ verifyRestore \/ UploadDump
  PROVE  EngineInv' /\ StoredInv' /\ DumpInv'
<1>0. UNCHANGED <<req, wk, up>> /\ pc \in {"mktemp", "source", "dump", "verify", "up", "put"}
  BY Zenon DEF Prepare, NextSource, pgDump, StartSidecar, verifyRestore, UploadDump,
    PgOnly, walker, upload
<1>1. ~IsTar /\ IsTar' = IsTar BY <1>0, Zenon DEF EngineInv, IsTar
<1>2. pc' \in {"returned", "source", "dump", "verify", "up", "put"}
  BY Zenon DEF Prepare, NextSource, pgDump, StartSidecar, verifyRestore, UploadDump,
    Return, ReturnPg, Goto
<1>3. EngineInv' BY <1>0, <1>1, <1>2 DEF EngineInv
<1>4. SUFFICES DumpInv'
  <2>1. StoredInv' BY <1>1 DEF StoredInv
  <2>2. QED BY <1>3, <2>1
<1>5. Len(req.sources) \in Nat /\ src \in Nat \ {0}
  BY <1>1, RequestsAssumption DEF EngineInv, DumpInv
<1>6. \A d, i : DumpOf(d, i)' = DumpOf(d, i) /\ KeyOf(i)' = KeyOf(i)
  BY <1>0 DEF DumpOf, KeyOf, DSN
<1>7. /\ result = "ok" => src > Len(req.sources)
      /\ pc \in {"dump", "verify", "up", "put"} => src <= Len(req.sources)
      /\ pc \in {"verify", "up", "put"} => DumpOf(dump, src)
      /\ pc = "put" /\ req.verify => dump[1].k = "dump"
      /\ \A i \in 1 .. src - 1 : KeyOf(i) \in DOMAIN bucket /\ DumpOf(bucket[KeyOf(i)], i)
      /\ \A k \in DOMAIN bucket : bucket[k] # Previous /\ req.verify => bucket[k][1].k = "dump"
  BY <1>1 DEF DumpInv
<1>8. ASSUME src' = src, result' = "ok" => result = "ok" \/ src > Len(req.sources),
             pc' \in {"dump", "verify", "up", "put"} => src <= Len(req.sources),
             pc' \in {"verify", "up", "put"} => DumpOf(dump', src),
             pc' = "put" /\ req.verify => dump'[1].k = "dump",
             \A i \in 1 .. src - 1 : KeyOf(i) \in DOMAIN bucket' /\ DumpOf(bucket'[KeyOf(i)], i),
             \A k \in DOMAIN bucket' : bucket'[k] # Previous /\ req.verify => bucket'[k][1].k = "dump"
      PROVE  DumpInv'
  BY <1>0, <1>5, <1>6, <1>7, <1>8, ZenonT(30) DEF DumpInv
<1>9. CASE Prepare \/ NextSource \/ StartSidecar
  <2>1. src' = src /\ dump' = dump /\ bucket' = bucket
    BY <1>9 DEF Prepare, NextSource, StartSidecar, ReturnPg
  <2>2. result' = "ok" => result = "ok" \/ src > Len(req.sources)
    BY <1>9, ZenonT(30) DEF Prepare, NextSource, StartSidecar, ReturnPg, Return, Goto
  <2>3. /\ pc' \notin {"verify", "put"} /\ (pc' = "dump" => ~(src > Len(req.sources)))
        /\ pc' = "up" => pc = "verify"
    BY <1>9, Zenon DEF Prepare, NextSource, StartSidecar, ReturnPg, Return, Goto
  <2>4. pc' \in {"dump", "verify", "up", "put"} => src <= Len(req.sources)
    <3>1. pc' = "dump" \/ pc' = "up" \/ pc' \notin {"dump", "verify", "up", "put"}
      BY <1>2, <2>3
    <3>2. pc' = "up" => src <= Len(req.sources) BY <1>7, <2>3
    <3>3. ~(src > Len(req.sources)) => src <= Len(req.sources) BY <1>5, Beyond
    <3>4. QED BY <2>3, <3>1, <3>2, <3>3
  <2>5. QED BY <1>2, <1>7, <1>8, <2>1, <2>2, <2>3, <2>4
<1>10. CASE pgDump
  <2>1. src' = src /\ bucket' = bucket /\ pc = "dump" BY <1>10 DEF pgDump, ReturnPg
  <2>2. CASE ReturnPg("dump")
    <3>1. pc' = "returned" /\ result' = "dump" BY <2>2 DEF ReturnPg, Return
    <3>2. QED BY <1>7, <1>8, <2>1, <3>1
  <2>3. ASSUME NEW k, dump' = <<U(k, req.sources[src], src)>>, Goto(IF req.verify THEN "verify" ELSE "put")
        PROVE  DumpInv'
    <3>1. DumpOf(dump', src) BY <2>3 DEF DumpOf, U
    <3>2. result' = result /\ (pc' = "put" => ~req.verify) BY <2>3 DEF Goto
    <3>3. QED BY <1>7, <1>8, <2>1, <3>1, <3>2
  <2>4. QED BY <1>10, <2>2, <2>3 DEF pgDump
<1>11. CASE verifyRestore
  <2>1. src' = src /\ dump' = dump /\ bucket' = bucket /\ pc = "up"
    BY <1>11 DEF verifyRestore, ReturnPg
  <2>2. result' = "ok" => result = "ok" BY <1>11 DEF verifyRestore, ReturnPg, Return, Goto
  <2>3. pc' = "returned" \/ (pc' = "put" /\ dump[1].k = "dump")
    BY <1>11 DEF verifyRestore, ReturnPg, Return, Goto
  <2>4. QED BY <1>7, <1>8, <2>1, <2>2, <2>3
<1>12. CASE UploadDump
  <2>1. pc = "put" /\ dump' = dump BY <1>12 DEF UploadDump
  <2>2. CASE Store(KeyOf(src), dump) /\ src' = src + 1 /\ Goto("source")
    <3>1. /\ KeyOf(src) \in DOMAIN bucket' /\ DumpOf(bucket'[KeyOf(src)], src)
          /\ \A i \in 1 .. src - 1 : KeyOf(i) \in DOMAIN bucket' /\ DumpOf(bucket'[KeyOf(i)], i)
          /\ \A k \in DOMAIN bucket' : bucket'[k] # Previous /\ req.verify => bucket'[k][1].k = "dump"
      BY <1>1, <1>5, <2>1, <2>2, DumpStored
    <3>2. pc' = "source" /\ result' = result BY <2>2 DEF Goto
    <3>3. \A i \in 1 .. src' - 1 : i = src \/ i \in 1 .. src - 1 BY <1>5, <2>2
    <3>4. \A i \in 1 .. src' - 1 : KeyOf(i) \in DOMAIN bucket' /\ DumpOf(bucket'[KeyOf(i)], i)
      BY <3>1, <3>3
    <3>5. src' \in Nat \ {0} /\ src' > src BY <1>5, <2>2
    <3>6. result' = "ok" => src' > Len(req.sources)
      <4>1. src > Len(req.sources) => src' > Len(req.sources) BY <1>5, <3>5, Beyond
      <4>2. result = "ok" => src > Len(req.sources) BY <1>7
      <4>3. QED BY <3>2, <4>1, <4>2
    <3>7. QED BY <1>0, <1>6, <3>1, <3>2, <3>4, <3>5, <3>6, Zenon DEF DumpInv
  <2>3. CASE /\ (Return("s3") \/ Return("ctx")) /\ src' = src
             /\ Store(KeyOf(src), dump) \/ bucket' = bucket
    <3>1. pc' = "returned" /\ result' # "ok" /\ src' = src
      BY <1>12, <2>3 DEF Return, UploadDump, Goto
    <3>2. CASE bucket' = bucket BY <1>7, <1>8, <3>1, <3>2, ZenonT(30)
    <3>3. CASE Store(KeyOf(src), dump)
      <4>1. /\ \A i \in 1 .. src - 1 : KeyOf(i) \in DOMAIN bucket' /\ DumpOf(bucket'[KeyOf(i)], i)
            /\ \A k \in DOMAIN bucket' : bucket'[k] # Previous /\ req.verify => bucket'[k][1].k = "dump"
        BY <1>1, <1>5, <2>1, <3>3, DumpStored
      <4>2. QED BY <1>8, <3>1, <4>1
    <3>4. QED BY <2>3, <3>2, <3>3
  <2>4. QED BY <1>12, <2>2, <2>3 DEF UploadDump
<1>13. QED BY <1>9, <1>10, <1>11, <1>12

-----------------------------------------------------------------------------
(* The theorems.                                                           *)

BackupInv == CauseInv /\ ArchiveInv /\ OkInv /\ EngineInv /\ StoredInv /\ DumpInv

\* The invariant of RunBackup holds before it starts.
LEMMA BackupInit == Init => BackupInv
<1>1. SUFFICES ASSUME Init PROVE BackupInv OBVIOUS
<1>2. /\ WkFields \subseteq DOMAIN wk /\ wk.at = "idle" /\ wk.root = 1 /\ wk.size = 0 /\ wk.pos = 0
      /\ ~wk.stuck /\ NoErr
  BY <1>1, Zenon DEF Init, Walker, WkFields, NoErr
<1>3. CauseInv BY <1>1, CauseInit
<1>4. got = <<>> /\ out = <<>> /\ W = <<>> /\ Headers(W) = {} /\ DOMAIN W = {}
  <2>1. got = <<>> /\ out = <<>> BY <1>1, Zenon DEF Init
  <2>2. W = <<>> BY <2>1 DEF W
  <2>3. DOMAIN W = {} BY <2>2
  <2>4. QED BY <2>1, <2>2, <2>3 DEF Headers
<1>5. ArchiveInv
  <2>1. WkTyped BY <1>2 DEF WkTyped, InRoot
  <2>2. OutTyped BY <1>2, <1>4 DEF OutTyped
  <2>3. ErrTyped BY <1>2 DEF ErrTyped, Ended
  <2>4. len = Size /\ gone = {} BY <1>1, Zenon DEF Init
  <2>5. TreeTyped BY <2>4, TreeAssumption DEF TreeTyped
  <2>6. ShapeInv BY <1>2, <1>4 DEF ShapeInv, Ended
  <2>7. ContentInv
    <3>1. \A f : Right(f) BY <1>4 DEF Right
    <3>2. Copied /\ Here BY <1>2 DEF Copied, Here, InRoot
    <3>3. Past BY <1>2 DEF Past
    <3>4. QED BY <3>1, <3>2, <3>3 DEF ContentInv
  <2>8. QED BY <2>1, <2>2, <2>3, <2>5, <2>6, <2>7 DEF ArchiveInv, ArchiveTyped
<1>6. OkInv BY <1>1, Zenon DEF Init, OkInv
<1>7. pc = "start" /\ up = "idle" /\ src = 1 /\ result # "ok" /\ req \in Requests
  BY <1>1, Zenon DEF Init
<1>8. EngineInv BY <1>2, <1>7 DEF EngineInv
<1>9. bucket = [k \in {<<>>} |-> Previous] BY <1>1, Zenon DEF Init
<1>10. StoredInv BY <1>7, <1>9 DEF StoredInv, UpOk
<1>11. DumpInv BY <1>7, <1>9 DEF DumpInv
<1>12. QED BY <1>3, <1>5, <1>6, <1>8, <1>10, <1>11 DEF BackupInv

\* Every step keeps the invariant of RunBackup.
LEMMA BackupStep ==
  ASSUME BackupInv, [Next]_vars
  PROVE  BackupInv'
<1>1. CauseInv /\ ArchiveInv /\ OkInv /\ EngineInv /\ StoredInv /\ DumpInv BY DEF BackupInv
<1>2. SUFFICES EngineInv' /\ StoredInv' /\ DumpInv'
  <2>1. req \in Requests /\ (pc = "start" => wk.at = "idle") BY <1>1 DEF EngineInv
  <2>2. ArchiveInv' BY <1>1, <2>1, ArchiveStep
  <2>3. QED BY <1>1, <2>2, CauseStep, OkStep DEF BackupInv
<1>3. ASSUME UNCHANGED <<req, pc, result, up, uperr, bucket, src, dump>>,
             gone \subseteq gone', touched \subseteq touched', wk' = wk \/ wk.at # "idle"
      PROVE  EngineInv' /\ StoredInv' /\ DumpInv'
  BY <1>1, <1>3, StoreFrame
<1>4. CASE WalkerStep
  <2>1. UNCHANGED <<req, pc, result, up, uperr, bucket, src, dump, gone, touched>>
    BY <1>4, ZenonT(30) DEF WalkerStep, WalkRoot, WalkDir, NextEntry, Visit, WriteHeader,
      copyExactly, ReadFails,
                CloseTar, CloseGzip, HandOver, WalkerOnly, main, upload, pg, tree
  <2>2. wk.at # "idle"
    BY <1>4, ZenonT(30) DEF WalkerStep, WalkRoot, WalkDir, NextEntry, Visit, WriteHeader,
      copyExactly, ReadFails,
                CloseTar, CloseGzip, HandOver
  <2>3. QED BY <1>3, <2>1, <2>2
<1>5. CASE UploadReads \/ ProgressStops \/ CancelBackup \/ StreamEnds \/ UNCHANGED vars
  BY <1>3, <1>5, ZenonT(30) DEF UploadReads, ProgressStops, CancelBackup, StreamEnds,
    vars, main, upload, pg, tree, walker
<1>6. ASSUME NEW f, Change(f) PROVE EngineInv' /\ StoredInv' /\ DumpInv'
  BY <1>3, <1>6 DEF Change, main, upload, pg, walker
<1>7. QED
  BY <1>1, <1>4, <1>5, <1>6, UploadStored, MainStored, PgStored DEF Next, MainStep, UploadStep

\* The object a run leaves is the one of an earlier run or a complete archive of the
\* tree, and a dump of a plan with verify_restore has been restored (NeverPartial).
THEOREM WholeOrNothing == Spec => []NeverPartial
<1>1. BackupInv => NeverPartial
  <2>1. SUFFICES ASSUME BackupInv, NEW k \in DOMAIN bucket, bucket[k] # Previous
                 PROVE  IF IsTar THEN WellFormed(bucket[k]) /\ Complete(bucket[k])
                                 ELSE req.verify => bucket[k][1].k = "dump"
    BY ZenonT(30) DEF NeverPartial
  <2>2. CASE IsTar BY <2>1, <2>2 DEF BackupInv, StoredInv
  <2>3. CASE ~IsTar BY <2>1, <2>3 DEF BackupInv, DumpInv
  <2>4. QED BY <2>2, <2>3, ZenonT(30)
<1>2. QED BY <1>1, BackupInit, BackupStep, PTL DEF Spec

\* A run that reports success has stored the archive, or every dump at a key of its own
\* (SuccessIsStored).
THEOREM SuccessStored == Spec => []SuccessIsStored
<1>1. BackupInv => SuccessIsStored
  <2>1. SUFFICES ASSUME BackupInv, result = "ok"
                 PROVE  IF IsTar THEN <<>> \in DOMAIN bucket /\ bucket[<<>>] # Previous
                        ELSE \A i \in DOMAIN req.sources :
                               \E k \in DOMAIN bucket : bucket[k][1].f = req.sources[i] /\ bucket[k][1].n = i
    BY DEF SuccessIsStored
  <2>2. CASE IsTar BY <2>1, <2>2 DEF BackupInv, StoredInv
  <2>3. CASE ~IsTar
    <3>1. /\ src \in Nat \ {0} /\ src > Len(req.sources)
          /\ \A i \in 1 .. src - 1 : KeyOf(i) \in DOMAIN bucket /\ DumpOf(bucket[KeyOf(i)], i)
      BY <2>1, <2>3 DEF BackupInv, DumpInv
    <3>2. Len(req.sources) \in Nat /\ DOMAIN req.sources = 1 .. Len(req.sources)
      BY <2>1, RequestsAssumption DEF BackupInv, EngineInv
    <3>3. \A i \in DOMAIN req.sources : i \in 1 .. src - 1 BY <3>1, <3>2
    <3>4. QED BY <2>3, <3>1, <3>3 DEF DumpOf
  <2>4. QED BY <2>2, <2>3
<1>2. QED BY <1>1, BackupInit, BackupStep, PTL DEF Spec
==============================================================================
