----------------------------- MODULE HostFiles ------------------------------
(***************************************************************************)
(* Paths, managed roots and the file operations of an agent, as functions. *)
(*                                                                         *)
(* A path a request names is [abs, names]: whether it starts with a slash, *)
(* and its elements, "." and ".." included.  A clean absolute path is the  *)
(* sequence of its elements; <<>> is "/".  A file system maps such paths   *)
(* to nodes; the content of a file is abstracted to its length in bytes.   *)
(***************************************************************************)
EXTENDS Integers, Sequences

CONSTANTS Paths,            \* the clean paths of the host, closed under parents
          NoNode,           \* nothing at a path
          MaxInlineBytes,   \* FilesDeps.MaxInlineBytes of the leader
          FSMaxInlineBytes, \* Config.FSMaxInlineBytes of the agent
          Word,             \* 2^32: the modulus of the wire's max_bytes
          HostPasswd,       \* /etc/passwd of the host: lines [name, fields, uid] ...
          ImagePasswd       \* ... and that of the agent's image; uid -1 is no number

ASSUME InlineAssumption == MaxInlineBytes \in Nat /\ FSMaxInlineBytes \in Nat
ASSUME WordAssumption == Word \in Nat \ {0}

Given(names) == [abs |-> TRUE, names |-> names]

Front(s) == SubSeq(s, 1, Len(s) - 1)
Under(root, p) == Len(root) <= Len(p) /\ SubSeq(p, 1, Len(root)) = root

\* path.Clean and filepath.Clean: drop ".", let ".." take back an element.
Clean(p) ==
  LET step(done, name) ==
        CASE name = "." -> done
          [] name = ".." /\ done # <<>> /\ done[Len(done)] # ".." -> Front(done)
          [] name = ".." /\ done = <<>> /\ p.abs -> done
          [] OTHER -> Append(done, name)
      upTo[n \in 0..Len(p.names)] == IF n = 0 THEN <<>> ELSE step(upTo[n - 1], p.names[n])
  IN  [p EXCEPT !.names = upTo[Len(p.names)]]

-----------------------------------------------------------------------------
(* The leader: managed roots.  A row of node_paths is [path, ro, owner],   *)
(* and path is unique among the rows of a node.                            *)

virtualFullRoot == [path |-> <<>>, ro |-> FALSE, owner |-> 0]

\* The comparison of findManagedRoot.  With the row "/" the prefix would be
\* "//", which no clean path has: that row contains only "/" itself.
Governs(row, p) == p = row.path \/ (row.path # <<>> /\ Under(row.path, p))

\* The row that governs a path, as a set that is empty when there is none.
findManagedRoot(rows, p) ==
  LET c == Clean(p)
      hits == {r \in rows : c.abs /\ Governs(r, c.names)}
  IN  IF hits # {} THEN {CHOOSE r \in hits : \A s \in hits : Len(s.path) <= Len(r.path)}
      ELSE IF c.abs THEN {virtualFullRoot} ELSE {}

\* The row with exactly this path, for listings.
resolveManagedRoot(rows, root) ==
  IF Clean(root).names = <<>> THEN {virtualFullRoot}
  ELSE {r \in rows : r.path = Clean(root).names}

\* max_bytes as ReadFile of the leader puts it on the wire.
AskedBytes(max) ==
  IF max > 0 /\ max < Word /\ max < MaxInlineBytes THEN max ELSE MaxInlineBytes % Word

-----------------------------------------------------------------------------
(* The agent: paths and reads.                                             *)

\* The path to open, as a set that is empty when it is refused.
resolvePath(root, sub) ==
  LET r == Clean(root)
      final == Clean([r EXCEPT !.names = @ \o sub])
  IN  IF r.names = <<>> \/ Under(r.names, final.names) THEN {final.names} ELSE {}

\* A path that is not absolute is refused too; findManagedRoot lets none through.
resolveAbs(p) == Clean(p).names

inlineLimit(configured, requested) ==
  IF requested > 0 /\ requested < configured THEN requested ELSE configured

readCapped(length, limit) ==
  [bytes |-> IF length > limit THEN limit ELSE length, truncated |-> length > limit]

\* The first line of the account counts, and fails the lookup if its uid is bad.
lookupInPasswd(lines, name) ==
  LET hits == SelectSeq(lines, LAMBDA l : l.fields >= 6 /\ l.name = name)
  IN  IF hits = <<>> \/ Head(hits).uid < 0 THEN {} ELSE {Head(hits).uid}

\* The host's account, else the image's (os/user).
LookupUser(name) ==
  IF lookupInPasswd(HostPasswd, name) # {} THEN lookupInPasswd(HostPasswd, name)
  ELSE lookupInPasswd(ImagePasswd, name)

-----------------------------------------------------------------------------
(* The agent: operations that change files.  Each yields [ok, fs].         *)

Dir(owner) == [dir |-> TRUE, data |-> 0, owner |-> owner]
File(data) == [dir |-> FALSE, data |-> data, owner |-> 0]

IsDir(fs, p) == p \in Paths /\ fs[p] # NoNode /\ fs[p].dir
Fits(fs, p)  == p \in Paths /\ p # <<>> /\ IsDir(fs, Front(p))
Below(fs, p) == {q \in Paths : p # q /\ Under(p, q) /\ fs[q] # NoNode}

Done(fs)    == [ok |-> TRUE, fs |-> fs]
Refused(fs) == [ok |-> FALSE, fs |-> fs]

MkdirFs(fs, p, parents) ==
  LET missing == {q \in Paths : Under(q, p) /\ fs[q] = NoNode}
      able == IF parents THEN \A q \in Paths : Under(q, p) /\ fs[q] # NoNode => fs[q].dir
              ELSE Fits(fs, p) /\ fs[p] = NoNode
  IN  IF able THEN Done([q \in Paths |-> IF q \in missing THEN Dir(0) ELSE fs[q]])
      ELSE Refused(fs)

\* rename(2).
RenameFs(fs, a, b) ==
  LET able == /\ fs[a] # NoNode /\ Fits(fs, b)
              /\ a = b \/ ~Under(a, b)
              /\ fs[b] # NoNode => fs[b].dir = fs[a].dir
              /\ a # b /\ fs[b] # NoNode => Below(fs, b) = {}
      from(q) == a \o SubSeq(q, Len(b) + 1, Len(q))
  IN  IF ~able THEN Refused(fs)
      ELSE Done([q \in Paths |->
                   IF a # b /\ Under(b, q)
                   THEN IF from(q) \in Paths THEN fs[from(q)] ELSE NoNode
                   ELSE IF a # b /\ Under(a, q) THEN NoNode ELSE fs[q]])

\* A recursive delete of "/" leaves the root, which fails it, and nothing else.
DeleteFs(fs, p, recursive) ==
  IF recursive \/ (p # <<>> /\ fs[p] # NoNode /\ Below(fs, p) = {})
  THEN [ok |-> p # <<>>,
        fs |-> [q \in Paths |-> IF q # <<>> /\ Under(p, q) THEN NoNode ELSE fs[q]]]
  ELSE Refused(fs)

ChownFs(fs, p, owner, recursive) ==
  IF fs[p] = NoNode THEN Refused(fs)
  ELSE Done([q \in Paths |-> IF fs[q] # NoNode /\ (q = p \/ (recursive /\ Under(p, q)))
                             THEN [fs[q] EXCEPT !.owner = owner] ELSE fs[q]])

\* Every node lies in a directory.
IsTree(fs) == \A q \in Paths : q # <<>> /\ fs[q] # NoNode => IsDir(fs, Front(q))

\* What may come of an operation that changes one path after the other: its result,
\* or a failure after a part of it that leaves a tree.
Walk(fs, result) ==
  LET changed  == {q \in Paths : result.fs[q] # fs[q]}
      part(ps) == [q \in Paths |-> IF q \in ps THEN result.fs[q] ELSE fs[q]]
      parts    == {part(ps) : ps \in SUBSET changed \ {changed}}
  IN  {result} \cup {Refused(p) : p \in {g \in parts : IsTree(g)}}
=============================================================================
