---------------------------- MODULE KeyTemplate ----------------------------
(***************************************************************************)
(* The object keys of a backup: validateKeyTemplate (handlers_backup.go)   *)
(* accepts the template of a plan, renderKeyTemplate and s3KeySafe         *)
(* (runner.go) make a key of it for every node in scope.  Pure functions;  *)
(* the assumptions at the end are evaluated over all inputs of the bounds. *)
(*                                                                         *)
(* A value is a sequence of characters.  A template is a sequence of       *)
(* characters and placeholders: the placeholders start with a brace and    *)
(* end at the next one, so strings.Replacer finds them in one pass.        *)
(***************************************************************************)
EXTENDS Naturals, FiniteSets

LOCAL INSTANCE SequencesExt

CONSTANTS SafeChars,   \* characters s3KeySafe keeps, other than the dash
          OtherChars,  \* characters it replaces
          MaxName,     \* bound on the length of a value
          MaxParts     \* bound on the length of a template

Dash   == "-"
Chars  == SafeChars \cup OtherChars \cup {Dash}
Names  == BoundedSeq(Chars, MaxName)
Fields == {"{host}", "{node_id}", "{date}"}

Templates == BoundedSeq(Fields \cup {Dash}, MaxParts)

-----------------------------------------------------------------------------

\* strings.Trim(s, "-").
Trim(s) ==
  LET inner == {i \in DOMAIN s : s[i] # Dash} IN
  IF inner = {} THEN <<>>
  ELSE SubSeq(s, CHOOSE i \in inner : \A j \in inner : i <= j,
                 CHOOSE i \in inner : \A j \in inner : i >= j)

\* One character of s3KeySafe: a dash for another character, unless the last one
\* written stands for another already.
Step(b, c) ==
  IF c \notin OtherChars THEN [out |-> Append(b.out, c), lastDash |-> FALSE]
  ELSE IF b.lastDash THEN b
  ELSE [out |-> Append(b.out, Dash), lastDash |-> TRUE]

s3KeySafe(s) == Trim(FoldLeft(Step, [out |-> <<>>, lastDash |-> FALSE], s).out)

\* An agent sends its id as its host name.  The day is the same for all nodes of a run.
Value(field, node) == IF field = "{date}" THEN <<"d">> ELSE s3KeySafe(node)

renderKeyTemplate(tmpl, node) ==
  FlattenSeq([i \in DOMAIN tmpl |-> IF tmpl[i] \in Fields THEN Value(tmpl[i], node) ELSE <<tmpl[i]>>])

\* The scope of a plan: every node, a list of names, or a label.  Blank entries of the
\* list do not count.
NamedIn(list) == {n \in Range(list) : n # <<>>}

validateKeyTemplate(scope, tmpl) ==
  \/ Contains(tmpl, "{host}") \/ Contains(tmpl, "{node_id}")
  \/ scope.type = "node" /\ Len(SelectSeq(scope.list, LAMBDA n : n # <<>>)) = 1

\* The connected nodes a run of the plan reaches.
Targets(scope, nodes) == IF scope.type = "node" THEN nodes \cap NamedIn(scope.list) ELSE nodes

-----------------------------------------------------------------------------

\* The loop of s3KeySafe against its description: every run of other characters is
\* one dash, nothing else is touched, and dashes at either end go.
SafeReference(s) ==
  LET kept == {i \in DOMAIN s : s[i] \notin OtherChars \/ i = 1 \/ s[i - 1] \notin OtherChars}
      At(k) == CHOOSE i \in kept : Cardinality({j \in kept : j <= i}) = k
  IN Trim([k \in 1 .. Cardinality(kept) |-> IF s[At(k)] \in OtherChars THEN Dash ELSE s[At(k)]])

ASSUME SafeMeetsReference == \A s \in Names : s3KeySafe(s) = SafeReference(s)

\* A key that is safe stays as it is.
ASSUME SafeIsStable == \A s \in Names : s3KeySafe(s3KeySafe(s)) = s3KeySafe(s)

Scopes(names) ==
  {[type |-> "all", list |-> <<>>]} \cup {[type |-> "node", list |-> <<n, m>>] : n, m \in names \cup {<<>>}}

\* No two nodes of a run write the same object: the keys of an accepted template
\* differ for nodes whose names differ once they are safe.
ASSUME KeysAreDistinct ==
  LET safe == {s3KeySafe(n) : n \in Names} IN
  \A tmpl \in Templates : \A n \in safe, m \in safe : n # m =>
    \A scope \in Scopes({n, m}) :
      validateKeyTemplate(scope, tmpl) /\ {n, m} \subseteq Targets(scope, {n, m}) =>
        renderKeyTemplate(tmpl, n) # renderKeyTemplate(tmpl, m)
=============================================================================
