----------------------------- MODULE CronTable ------------------------------
(***************************************************************************)
(* What a cron job is at its four stations: the fields of a request, the   *)
(* row of the table cronjobs, the line the agent writes to /etc/cron.d/bpm *)
(* and what cron makes of that line.                                       *)
(*                                                                         *)
(* A schedule is abstracted to what the two validators look at: whether it *)
(* and the command are on a single line, how many fields it has, and       *)
(* whether each is made of crontab characters.  A command is a sequence of *)
(* characters of which only the percent sign and the backslash matter.     *)
(***************************************************************************)
EXTENDS Integers, Sequences

CONSTANTS Jobs,   \* ids of cron jobs
          Absent  \* no row, no line, nothing to do

\* The lines of the crontab; a comment is a job that is disabled.
Lines == [user : STRING, text : Seq(STRING), comment : BOOLEAN]

ASSUME AbsentAssumption == Absent \notin Lines

\* The accounts cronUserRe and userRegex (the same expression) accept.
Users == {"root", "app"}

\* The fields of a cronReq, as Create and Update decode them.
Job(oneLine, fields, plain, command, user, enabled) ==
  [oneLine |-> oneLine, fields |-> fields, plain |-> plain,
   command |-> command, user |-> user, enabled |-> enabled]

NoUser == ""

\* `if req.RunAs == "" { req.RunAs = "root" }`
DefaultUser(r) == [r EXCEPT !.user = IF @ = NoUser THEN "root" ELSE @]

validateCronJob(r) ==
  /\ r.oneLine
  /\ r.fields = 5 /\ r.plain
  /\ r.command # <<>>
  /\ r.user \in Users

validateCronEntry(e) ==
  /\ e.oneLine
  /\ e.fields = 5
  /\ e.command # <<>>
  /\ e.user \in Users \cup {NoUser}

\* A sequence put together from pieces, in order.
Joined(pieces) ==
  LET upTo[n \in 0..Len(pieces)] == IF n = 0 THEN <<>> ELSE upTo[n - 1] \o pieces[n]
  IN  upTo[Len(pieces)]

escapeCronPercent(cmd) ==
  Joined([i \in DOMAIN cmd |-> IF cmd[i] = "%" THEN <<"\\", "%">> ELSE <<cmd[i]>>])

\* The loop of cronManager.Apply over the entries.  A disabled job is written
\* as a comment.
FileOf(rows) ==
  [j \in Jobs |->
     IF rows[j] = Absent THEN Absent
     ELSE [user |-> IF rows[j].user = NoUser THEN "root" ELSE rows[j].user,
           text |-> escapeCronPercent(rows[j].command),
           comment |-> ~rows[j].enabled]]

\* crontab(5): the command ends at the first percent sign that no backslash
\* escapes; the rest is fed to its standard input.
Escaped(t, i) == i > 1 /\ t[i - 1] = "\\"
Runs(t) ==
  LET ends == {i \in DOMAIN t : t[i] = "%" /\ ~Escaped(t, i)}
      upTo == IF ends = {} THEN Len(t)
              ELSE (CHOOSE i \in ends : \A k \in ends : i <= k) - 1
      dropped(i) == t[i] = "\\" /\ i < Len(t) /\ t[i + 1] = "%"
  IN  Joined([i \in 1..upTo |-> IF dropped(i) THEN <<>> ELSE <<t[i]>>])

\* What cron does for a job: nothing, or a command as a user.
CronDoes(line) ==
  IF line = Absent \/ line.comment THEN Absent
  ELSE [user |-> line.user, command |-> Runs(line.text)]

\* What the row says should be done.
RowWants(row) ==
  IF row = Absent \/ ~row.enabled THEN Absent
  ELSE [user |-> row.user, command |-> row.command]
=============================================================================
