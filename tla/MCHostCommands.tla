--------------------------- MODULE MCHostCommands ---------------------------
(* An instance of HostCommands for TLC. *)
EXTENDS HostCommands, TLC

Seqs == INSTANCE SequencesExt

CONSTANTS j1, j2, q1, q2

Plain(command, enabled) == Job(TRUE, 5, TRUE, command, "", enabled)

D == <<"d">>
A == <<"d", "a">>
B == <<"d", "b">>
MCPaths == {<<>>, D, A, B}

MCHostInit == (<<>> :> Dir(0)) @@ (D :> Dir(1)) @@ (A :> File(5)) @@ (B :> NoNode)

\* Two requests.  Between them they create, change and delete jobs, one with a
\* percent sign, and write, move, read and delete the same file.
First ==
  {[kind |-> "createJob", id |-> j1, job |-> Plain(<<"c", "%", "c">>, TRUE)],
   [kind |-> "write", path |-> Given(A), data |-> 1, own |-> FALSE]}
Second ==
  {[kind |-> "createJob", id |-> j2, job |-> Plain(<<"c">>, TRUE)],
   [kind |-> "createJob", id |-> j2, job |-> Job(TRUE, 4, TRUE, <<"c">>, "", TRUE)],
   [kind |-> "updateJob", id |-> j1, job |-> Plain(<<"c">>, FALSE)],
   [kind |-> "deleteJob", id |-> j1],
   [kind |-> "apply"],
   [kind |-> "write", path |-> Given(<<"d", "x", "..", "a">>), data |-> 2, own |-> TRUE],
   [kind |-> "write", path |-> Given(A), data |-> 4, own |-> FALSE],
   [kind |-> "rename", path |-> Given(A), to |-> Given(B)],
   [kind |-> "mkdir", path |-> Given(B), parents |-> TRUE, own |-> FALSE],
   [kind |-> "delete", path |-> Given(D), recursive |-> TRUE],
   [kind |-> "chown", path |-> Given(D), owner |-> 2, recursive |-> TRUE],
   [kind |-> "read", path |-> Given(A), max |-> 3],
   [kind |-> "suggest", path |-> Given(A)],
   [kind |-> "lookupUser", name |-> "www"],
   [kind |-> "list", path |-> Given(D), sub |-> <<".">>]}
MCRequests == [q \in Reqs |-> IF q = q1 THEN First ELSE Second]

Account(name, uid) == [name |-> name, fields |-> 7, uid |-> uid]
MCHostPasswd  == <<Account("root", 0), [Account("www", 5) EXCEPT !.fields = 1], Account("www", 33)>>
MCImagePasswd == <<Account("root", 0), Account("www", 82)>>

MCRootsInit == {[path |-> D, ro |-> FALSE, owner |-> 1]}
MCProfiles  == {[path |-> A, ro |-> TRUE, owner |-> 1]}

-----------------------------------------------------------------------------
(* The functions behind the steps, against what they are for.              *)

Lengths == 0..6

\* A read that is not marked truncated returned the whole file, one that is
\* marked returned less, and none exceeds the limit of the agent.
ASSUME ReadIsHonest ==
  \A configured, max, length \in Lengths :
    LET got == readCapped(length, inlineLimit(configured, AskedBytes(max)))
    IN  /\ got.truncated <=> got.bytes # length
        /\ got.bytes <= length /\ got.bytes <= configured

Names == {"d", "a", ".", ".."}
SomePaths == [abs : BOOLEAN, names : Seqs!BoundedSeq(Names, 3)]

\* A listing stays in its root, whatever the path below it says.
ASSUME ListingStaysInside ==
  \A root \in {p \in SomePaths : p.abs}, sub \in Seqs!BoundedSeq(Names, 3) :
    \A final \in resolvePath(root, sub) : Under(Clean(root).names, final)

\* Cleaning is idempotent, and leaves neither "." nor, in an absolute path, "..".
ASSUME CleanIsClean ==
  \A p \in SomePaths :
    /\ Clean(Clean(p)) = Clean(p)
    /\ \A i \in DOMAIN Clean(p).names : /\ Clean(p).names[i] # "."
                                        /\ p.abs => Clean(p).names[i] # ".."

\* The agent accepts every entry the leader stored, so no stored job can keep it
\* from writing the file ("freezes every other job on that node").
ASSUME LeaderIsStricter ==
  \A r \in [oneLine : BOOLEAN, fields : 4..6, plain : BOOLEAN, command : Seqs!BoundedSeq({"c"}, 1),
            user : {"", "root", "no such"}, enabled : BOOLEAN] :
    validateCronJob(DefaultUser(r)) => validateCronEntry(DefaultUser(r))

\* A name the host knows has the host's id, whatever the image makes of it.
ASSUME HostAccountsWin == LookupUser("www") = {33}

\* cron runs a command with percent signs as it was typed.
ASSUME PercentSurvives ==
  \A cmd \in Seqs!BoundedSeq({"c", "%", "\\"}, 5) : Runs(escapeCronPercent(cmd)) = cmd
=============================================================================
