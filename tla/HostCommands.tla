---------------------------- MODULE HostCommands ----------------------------
(***************************************************************************)
(* The handlers that change a host through its agent: the cron jobs        *)
(* (handlers_cron.go, agent/cron.go) and the files (handlers_files.go,     *)
(* agent/handlers.go), over the one channel they share: Request on the     *)
(* leader, the receive loop of the agent's stream.                         *)
(*                                                                         *)
(* The receive loop runs one command at a time, in the order of the        *)
(* stream.  A request that waited 30 seconds gives up, its command does    *)
(* not: it runs whenever its turn comes.  When the stream breaks, the      *)
(* command that is being run goes on (worker "old") while the loop of the  *)
(* next stream (worker "cur") starts on new ones.                          *)
(***************************************************************************)
EXTENDS CronTable, HostFiles, Functions

CONSTANTS Reqs,          \* HTTP requests
          Requests,      \* Requests[q]: what a request may ask for
          RootsInit,     \* the rows of node_paths at the start
          Profiles,      \* rows CreatePath may insert into node_paths
          HostInit,      \* the files of the host at the start
          None,          \* no request, no command
          Room,          \* commands the flow control of an unread stream lets through
          MaxBreaks,     \* bound on the number of broken streams
          MaxRootEdits   \* bound on the changes of node_paths

Kinds == {"createJob", "updateJob", "deleteJob", "apply", "write", "mkdir", "rename",
          "delete", "chown", "list", "read", "suggest", "lookupUser"}
Fields == [oneLine : BOOLEAN, fields : Nat, plain : BOOLEAN, command : Seq(STRING),
           user : STRING, enabled : BOOLEAN]

ASSUME RoomAssumption == Room \in Nat \ {0}
ASSUME NoneAssumption == None \notin Reqs /\ None # "applied"
ASSUME RequestsAssumption ==
  \A q \in Reqs : \A o \in Requests[q] :
    /\ o.kind \in Kinds
    /\ o.kind \in {"createJob", "updateJob", "deleteJob"} => o.id \in Jobs
    /\ o.kind \in {"createJob", "updateJob"} => o.job \in Fields
\* UNIQUE(node_id, path) of node_paths.
ASSUME RootsAssumption ==
  /\ \A r \in RootsInit \cup Profiles : r.path \in Seq(STRING)
  /\ \A r, s \in RootsInit : r.path = s.path => r = s

VARIABLES
  db,       \* the rows of cronjobs
  roots,    \* the rows of node_paths
  pc,       \* control point of a request's handler
  loc,      \* the local variables of the handler
  mu,       \* the request that holds CronDeps.applyMu
  ans,      \* the answer of the handler
  link,     \* the stream is up
  wire,     \* commands on the stream, in order
  sent,     \* commands sent so far
  run,      \* the command each worker of the agent is running
  replies,  \* results on the way to the leader
  cron,     \* /etc/cron.d/bpm
  fs, tmp,  \* the files, and the contents of their .bpm-tmp files
  breaks, rootEdits,
  \* Ghosts: the request that last changed a job's row; the requests that could not
  \* read the node of their job; the newest push that reached the crontab, and
  \* whether an old worker wrote an older one over it; the command whose effect a
  \* path shows; the last one to a path whose success was reported; the paths an
  \* old worker touched.
  writer, blind, newest, leftover, by, acked, oldWrote

tables  == <<db, writer, blind>>
paths   == <<roots, rootEdits>>
handler == <<tables, paths, pc, loc, mu, ans, acked>>
crontab == <<cron, newest, leftover>>
files   == <<fs, tmp, by, oldWrote>>
host    == <<crontab, files>>
channel == <<link, wire, sent, run, replies, breaks>>
vars    == <<handler, channel, host>>

Workers == {"cur", "old"}
Idle    == [at |-> "idle"]

\* op: the request; todo: paths whose root is still to be looked up; found: the
\* root looked up last, whether Delete found the row, or the owner SuggestOwner saw
\* first; snap: the entries
\* loadCronEntries returned; conn: the stream RequireAgent returned, by number;
\* num: the command waited for; seen: the rows in force at each lookup, and left:
\* the client left during one (ghosts).
Blank == [op |-> None, todo |-> <<>>, found |-> None, snap |-> None,
          conn |-> 0, num |-> 0, seen |-> {}, left |-> FALSE]

Init ==
  /\ db = [j \in Jobs |-> Absent] /\ writer = [j \in Jobs |-> None] /\ blind = {}
  /\ roots = RootsInit /\ rootEdits = 0
  /\ pc = [q \in Reqs |-> "new"] /\ loc = [q \in Reqs |-> Blank]
  /\ mu = None /\ ans = [q \in Reqs |-> None]
  /\ link = TRUE /\ wire = <<>> /\ sent = 0 /\ breaks = 0
  /\ run = [w \in Workers |-> Idle] /\ replies = {}
  /\ cron = [j \in Jobs |-> Absent] /\ newest = 0 /\ leftover = FALSE
  /\ fs = HostInit /\ tmp = [p \in Paths |-> None]
  /\ by = [p \in Paths |-> 0] /\ acked = [p \in Paths |-> 0] /\ oldWrote = {}

Goto(q, l, locals) ==
  /\ pc' = [pc EXCEPT ![q] = l] /\ loc' = [loc EXCEPT ![q] = locals]
  /\ UNCHANGED ans
Answer(q, a) ==
  /\ pc' = [pc EXCEPT ![q] = "done"] /\ loc' = [loc EXCEPT ![q] = Blank]
  /\ ans' = [ans EXCEPT ![q] = a]

-----------------------------------------------------------------------------
(* Cron handlers.                                                          *)

Asking(o) == [Blank EXCEPT !.op = o]
SetRow(j, row, q) ==
  db' = [db EXCEPT ![j] = row] /\ writer' = [writer EXCEPT ![j] = q]

\* A client names a job after it was stored: its id is a random uuid.
Known(j) == writer[j] # None

CreateJob(q) ==
  \E o \in {c \in Requests[q] : c.kind = "createJob"} :
    LET row == DefaultUser(o.job) IN
    /\ pc[q] = "new" /\ ~Known(o.id)
    /\ IF validateCronJob(row)
       THEN SetRow(o.id, row, q) /\ Goto(q, "lock", Asking(o)) /\ UNCHANGED blind
       ELSE Answer(q, "refused") /\ UNCHANGED tables
    /\ UNCHANGED <<paths, mu, acked, channel, host>>

UpdateJob(q) ==
  \E o \in {c \in Requests[q] : c.kind = "updateJob"} :
    LET row == DefaultUser(o.job) IN
    /\ pc[q] = "new" /\ Known(o.id)
    /\ IF validateCronJob(row) /\ db[o.id] # Absent
       THEN SetRow(o.id, row, q) /\ Goto(q, "lookup", Asking(o)) /\ UNCHANGED blind
       ELSE Answer(q, "refused") /\ UNCHANGED tables
    /\ UNCHANGED <<paths, mu, acked, channel, host>>

\* Update reads the node of the job back.  Of a job deleted since, and when the read
\* fails, there is no node, no push and no error.
LookupNode(q) ==
  /\ pc[q] = "lookup"
  /\ \/ /\ db[loc[q].op.id] # Absent
        /\ Goto(q, "lock", loc[q]) /\ UNCHANGED blind
     \/ /\ Answer(q, "applied")
        /\ blind' = IF db[loc[q].op.id] # Absent THEN blind \cup {q} ELSE blind
  /\ UNCHANGED <<db, writer, paths, mu, acked, channel, host>>

\* Delete reads the node first, and ignores a failure of that too.
DeleteJobLookup(q) ==
  \E o \in {c \in Requests[q] : c.kind = "deleteJob"} :
    /\ pc[q] = "new" /\ Known(o.id)
    /\ \E found \in {db[o.id] # Absent, FALSE} :
         Goto(q, "delete", [Asking(o) EXCEPT !.found = found])
    /\ UNCHANGED <<tables, paths, mu, acked, channel, host>>

DeleteJob(q) ==
  LET there == db[loc[q].op.id] # Absent IN
  /\ pc[q] = "delete"
  /\ IF there THEN SetRow(loc[q].op.id, Absent, q) ELSE UNCHANGED <<db, writer>>
  /\ IF loc[q].found THEN Goto(q, "lock", loc[q]) ELSE Answer(q, "applied")
  /\ blind' = IF there /\ ~loc[q].found THEN blind \cup {q} ELSE blind
  /\ UNCHANGED <<paths, mu, acked, channel, host>>

ForceApply(q) ==
  \E o \in {c \in Requests[q] : c.kind = "apply"} :
    /\ pc[q] = "new"
    /\ Goto(q, "lock", Asking(o))
    /\ UNCHANGED <<tables, paths, mu, acked, channel, host>>

-----------------------------------------------------------------------------
(* Pushing the jobs of the node: applyToAgent.                             *)

\* AgentRegistry.RequireAgent.  While no stream is up, the registry may still
\* hold the one that broke.
RequireAgent(q) == [loc[q] EXCEPT !.conn = IF link THEN breaks ELSE breaks - 1]
Offline == ~link

\* Mutant: the push does not take applyMu.
LockNothing(q) ==
  /\ pc[q] = "lock"
  /\ \/ Goto(q, "load", RequireAgent(q))
     \/ Offline /\ Answer(q, "failed")
  /\ UNCHANGED <<tables, paths, mu, acked, channel, host>>

LockApply(q) ==
  /\ pc[q] = "lock" /\ mu = None
  /\ \/ Goto(q, "load", RequireAgent(q)) /\ mu' = q
     \/ Offline /\ Answer(q, "failed") /\ UNCHANGED mu
  /\ UNCHANGED <<tables, paths, acked, channel, host>>

\* A failed read, or a row that does not scan, fails the push.
loadCronEntries(q) ==
  /\ pc[q] = "load"
  /\ \/ Goto(q, "send", [loc[q] EXCEPT !.snap = db]) /\ UNCHANGED mu
     \/ Answer(q, "failed") /\ mu' = None
  /\ UNCHANGED <<tables, paths, acked, channel, host>>

-----------------------------------------------------------------------------
(* File handlers.                                                          *)

IsCron(o) == o.kind \in {"createJob", "updateJob", "deleteJob", "apply"}
Changes(o) == o.kind \in {"write", "mkdir", "rename", "delete", "chown"}
Addressed(o) == IF o.kind = "rename" THEN <<o.path, o.to>> ELSE <<o.path>>

\* What the model keeps of a file handler's answer: reads have a result.
Result(o, how) == IF Changes(o) THEN "answered" ELSE how

\* WriteFile refuses a body beyond the limit; the others start with the lookup.
AskFile(q) ==
  \E o \in Requests[q] :
    /\ pc[q] = "new" /\ ~IsCron(o) /\ o.kind # "lookupUser"
    /\ IF o.kind = "write" /\ o.data > MaxInlineBytes
       THEN Answer(q, "answered")
       ELSE Goto(q, "check", [Asking(o) EXCEPT !.todo = Addressed(o)])
    /\ UNCHANGED <<tables, paths, mu, acked, channel, host>>

\* A path lies in a read-only root when the innermost row around it says so.
\* A row for "/" is left aside: findManagedRoot never applies it.
InReadOnlyRoot(rows, p) ==
  \E r \in rows : /\ r.ro /\ r.path # <<>> /\ Under(r.path, p)
                  /\ \A s \in rows : Under(s.path, p) => Len(s.path) <= Len(r.path)

\* LookupUser names an account and no path.
AskUser(q) ==
  \E o \in {c \in Requests[q] : c.kind = "lookupUser"} :
    /\ pc[q] = "new"
    /\ \/ Goto(q, "send", [RequireAgent(q) EXCEPT !.op = o])
       \/ Offline /\ Answer(q, "failed")
    /\ UNCHANGED <<tables, paths, mu, acked, channel, host>>

\* The root a handler works with, given the rows it read.
RootFor(o, rows, p) ==
  IF o.kind = "list" THEN resolveManagedRoot(rows, p) ELSE findManagedRoot(rows, p)

\* Mutant: Rename asks for the root of its target only.
NextLookupLast(q) == <<loc[q].todo[Len(loc[q].todo)], <<>>>>

\* The loop over the paths: the next one and those that remain.
NextLookup(q) == <<Head(loc[q].todo), Tail(loc[q].todo)>>

\* One lookup, with the rows as the query returned them.  A path without a root,
\* or a change under a read-only one, is refused.
Lookup(q, rows) ==
  LET p == NextLookup(q)[1]
      rest == NextLookup(q)[2]
      root == RootFor(loc[q].op, rows, p)
  IN  IF loc[q].op.kind = "suggest" /\ root # {} /\ Clean(p).names = <<>>
      THEN Answer(q, "fine")                       \* "/" has no directory
      ELSE IF \E r \in root : ~(Changes(loc[q].op) /\ r.ro)
      THEN \/ Goto(q, IF rest = <<>> THEN "send" ELSE "check",
                [RequireAgent(q) EXCEPT !.todo = rest, !.found = CHOOSE r \in root : TRUE,
                               !.seen = @ \cup {[path |-> Clean(p).names,
                                                 ro |-> InReadOnlyRoot(roots, Clean(p).names)]},
                               !.left = @ \/ rows # roots])
           \/ rest = <<>> /\ Offline /\ Answer(q, Result(loc[q].op, "failed"))
      ELSE Answer(q, Result(loc[q].op, "failed"))

LookupRoot(q) ==
  /\ pc[q] = "check"
  /\ UNCHANGED <<tables, paths, mu, acked, channel, host>>
  /\ Lookup(q, roots)

\* The client leaves while findManagedRoot iterates: its context ends the
\* iteration early, and nobody asks rows.Err().
LookupRootCut(q) ==
  /\ pc[q] = "check" /\ loc[q].op.kind # "list"
  /\ \E rows \in SUBSET roots : rows # roots /\ Lookup(q, rows)
  /\ UNCHANGED <<tables, paths, mu, acked, channel, host>>

CreatePath(row) ==
  /\ rootEdits < MaxRootEdits /\ \A r \in roots : r.path # row.path
  /\ roots' = roots \cup {row} /\ rootEdits' = rootEdits + 1
  /\ UNCHANGED <<tables, pc, loc, mu, ans, acked, channel, host>>

DeletePath(row) ==
  /\ rootEdits < MaxRootEdits
  /\ roots' = roots \ {row} /\ rootEdits' = rootEdits + 1
  /\ UNCHANGED <<tables, pc, loc, mu, ans, acked, channel, host>>

-----------------------------------------------------------------------------
(* The channel: AgentConn.Request and the answer.                          *)

\* The second command of a request: that of a write or mkdir hands the new file to
\* the default owner of its root, that of SuggestOwner asks for the directory.
SecondBody(o, found) ==
  IF o.kind = "suggest"
  THEN [kind |-> "stat", path |-> Given(Front(Clean(o.path).names))]
  ELSE [kind |-> "chown", path |-> o.path, owner |-> found.owner, recursive |-> FALSE]

Body(q) ==
  LET o == loc[q].op IN
  IF IsCron(o) THEN [kind |-> "applyCron", rows |-> loc[q].snap]
  ELSE IF pc[q] = "second" THEN SecondBody(o, loc[q].found)
  ELSE IF o.kind = "suggest" THEN [kind |-> "stat", path |-> o.path]
  ELSE o

Up(q) == link /\ loc[q].conn = breaks

\* The agent does not read its stream, and no more commands fit on it.
Full == link /\ Len(wire) >= Room

\* Send puts the command on the stream, under sendMu, which senders get in turn.
\* While the stream is full it blocks, and no deadline of the request ends that: the
\* select comes after it.  On a stream that broke it fails, or the command is lost
\* on the way.
Send(q) ==
  /\ pc[q] \in {"send", "second"} /\ (Up(q) => ~Full)
  /\ sent' = sent + 1
  /\ wire' = IF Up(q) THEN Append(wire, [req |-> q, n |-> sent + 1, body |-> Body(q),
                                         seen |-> loc[q].seen, left |-> loc[q].left])
             ELSE wire
  /\ Goto(q, IF pc[q] = "send" THEN "wait" ELSE "waitSecond",
          [loc[q] EXCEPT !.num = sent + 1, !.snap = None])
  /\ UNCHANGED <<tables, paths, mu, acked, link, run, replies, breaks, host>>

\* The answer of a cron handler says whether the push succeeded.
withApplyResult(how) == IF how = "ok" THEN "applied" ELSE "failed"

\* needs_fix: the owner of the directory is another one.
Suggestion(q, how, owner) ==
  IF how # "ok" THEN "failed" ELSE IF owner # loc[q].found THEN "fix" ELSE "fine"

\* What a handler does with the outcome of Request.  That of the second command of a
\* write or mkdir is ignored.
Conclude(q, how, owner) ==
  LET o == loc[q].op
      first == pc[q] \in {"send", "wait"}
  IN  /\ mu' = IF IsCron(o) THEN None ELSE mu
      /\ IF IsCron(o) THEN Answer(q, withApplyResult(how))
         ELSE IF o.kind = "suggest"
         THEN IF first /\ how = "ok" THEN Goto(q, "second", [loc[q] EXCEPT !.found = owner])
              ELSE Answer(q, Suggestion(q, how, owner))
         ELSE IF first /\ how = "ok" /\ o.kind \in {"write", "mkdir"} /\ o.own
         THEN Goto(q, "second", loc[q])
         ELSE Answer(q, Result(o, how))
      /\ acked' = IF first /\ how = "ok" /\ ~IsCron(o) /\ o.kind = "write"
                  THEN [acked EXCEPT ![Clean(o.path).names] =
                          IF @ < loc[q].num THEN loc[q].num ELSE @]
                  ELSE acked
      /\ UNCHANGED <<tables, paths>>

SendFails(q) ==
  /\ pc[q] \in {"send", "second"} /\ ~Up(q)
  /\ UNCHANGED <<channel, host>>
  /\ Conclude(q, "failed", 0)

Waiting(q) == pc[q] \in {"wait", "waitSecond"}

Deliver(q) ==
  /\ Waiting(q)
  /\ \E r \in replies :
       /\ r.n = loc[q].num
       /\ Conclude(q, r.how, r.owner)
       /\ replies' = replies \ {r}
  /\ UNCHANGED <<link, wire, sent, run, breaks, host>>

\* Mutant: Request without a deadline of its own.
NeverTimesOut(q) == FALSE /\ UNCHANGED vars

\* The 30 seconds of RequestWithDefault, or the client leaves.
Timeout(q) ==
  /\ Waiting(q)
  /\ UNCHANGED <<channel, host>>
  /\ Conclude(q, "failed", 0)

-----------------------------------------------------------------------------
(* The agent: recvLoop and HandleCommand.                                  *)

agentRest == <<handler, link, sent, breaks>>
SetRun(w, r) == run' = [run EXCEPT ![w] = r]

\* The result goes back on the stream the command came from, if it is still up.
\* Of the entry of a Stat the owner matters.
Results(w, n, how, owner) ==
  IF w = "cur" THEN replies \cup {[n |-> n, how |-> how, owner |-> owner]} ELSE replies
Reply(w, how) ==
  /\ SetRun(w, Idle)
  /\ replies' = Results(w, run[w].cmd.n, how, 0)

CronBusy == \E w \in Workers : run[w].at = "renameCron"

\* recvLoop takes the next command when HandleCommand returned from the last.
Receive ==
  /\ link /\ run["cur"] = Idle /\ wire # <<>>
  /\ SetRun("cur", [at |-> "got", cmd |-> Head(wire)])
  /\ wire' = Tail(wire)
  /\ UNCHANGED <<agentRest, replies, host>>

\* cronManager.Apply: once it has its mutex the entries are checked, all of them, and
\* the file is prepared beside the old one.
PrepareCron(w) ==
  LET rows == run[w].cmd.body.rows IN
  /\ run[w].at = "got" /\ run[w].cmd.body.kind = "applyCron" /\ ~CronBusy
  /\ \/ /\ \A j \in Jobs : rows[j] # Absent => validateCronEntry(rows[j])
        /\ SetRun(w, [run[w] EXCEPT !.at = "renameCron"]) /\ UNCHANGED replies
     \/ Reply(w, "failed")
  /\ UNCHANGED <<agentRest, wire, host>>

\* Rename over the old file, which stays as it is when that fails.
RenameCron(w) ==
  LET n == run[w].cmd.n IN
  /\ run[w].at = "renameCron"
  /\ \/ /\ cron' = FileOf(run[w].cmd.body.rows) /\ Reply(w, "ok")
        /\ newest' = IF n > newest THEN n ELSE newest
        /\ leftover' = (w = "old" /\ n < newest)
     \/ UNCHANGED crontab /\ Reply(w, "failed")
  /\ UNCHANGED <<agentRest, wire, files>>

Touch(w, ps, n) ==
  /\ by' = [p \in Paths |-> IF p \in ps THEN n ELSE by[p]]
  /\ oldWrote' = IF w = "old" THEN oldWrote \cup ps ELSE oldWrote

\* What may come of a command other than a write.  Mkdir -p, a recursive delete and a
\* recursive chown are walks that may fail on the way; a chown skips what it may not
\* change.  The others are one call of the operating system.
Outcomes(b) ==
  LET p == IF b.kind = "lookupUser" THEN <<>> ELSE resolveAbs(b.path) IN
  CASE b.kind = "mkdir"  -> Walk(fs, MkdirFs(fs, p, b.parents))
    [] b.kind = "rename" -> {RenameFs(fs, p, resolveAbs(b.to)), Refused(fs)}
    [] b.kind = "delete" -> Walk(fs, DeleteFs(fs, p, b.recursive))
    [] b.kind = "chown"  -> LET done == Walk(fs, ChownFs(fs, p, b.owner, b.recursive))
                            IN  done \cup {Done(o.fs) : o \in {d \in done : b.recursive /\ fs[p] # NoNode}}
    [] b.kind = "list"   -> {[ok |-> \E d \in resolvePath(b.path, b.sub) : IsDir(fs, d), fs |-> fs]}
    [] b.kind = "lookupUser" -> {[ok |-> LookupUser(b.name) # {}, fs |-> fs]}
    [] b.kind = "stat"   -> {[ok |-> fs[p] # NoNode, fs |-> fs]}
    [] b.kind = "read"   -> {[ok |-> fs[p] # NoNode /\ ~IsDir(fs, p), fs |-> fs]}

Truncated(b) ==
  /\ b.kind = "read"
  /\ readCapped(fs[resolveAbs(b.path)].data,
                inlineLimit(FSMaxInlineBytes, AskedBytes(b.max))).truncated

StatOwner(b) ==
  IF b.kind = "stat" /\ fs[resolveAbs(b.path)] # NoNode THEN fs[resolveAbs(b.path)].owner ELSE 0

HandleCommand(w) ==
  /\ run[w].at = "got" /\ run[w].cmd.body.kind \notin {"write", "applyCron"}
  /\ LET b == run[w].cmd.body IN
     \E out \in Outcomes(b) :
       LET how == IF ~out.ok THEN "failed" ELSE IF Truncated(b) THEN "truncated" ELSE "ok" IN
       /\ fs' = out.fs
       /\ Touch(w, {p \in Paths : out.fs[p] # fs[p]}, run[w].cmd.n)
       /\ SetRun(w, Idle) /\ replies' = Results(w, run[w].cmd.n, how, StatOwner(b))
  /\ UNCHANGED <<agentRest, wire, crontab, tmp>>

\* Mutant: the result is sent as soon as the content is written.
WriteTmpAcks(w) ==
  /\ run[w].at = "got" /\ run[w].cmd.body.kind = "write"
  /\ LET p == resolveAbs(run[w].cmd.body.path) IN
     /\ tmp' = [tmp EXCEPT ![p] = [data |-> run[w].cmd.body.data, n |-> run[w].cmd.n]]
     /\ SetRun(w, [run[w] EXCEPT !.at = "rename"])
     /\ replies' = Results(w, run[w].cmd.n, "ok", 0)
  /\ UNCHANGED <<agentRest, wire, crontab, fs, by, oldWrote>>

\* WriteFile: the content goes to a file beside the target, which may keep a part of
\* it when that fails, ...
WriteTmp(w) ==
  /\ run[w].at = "got" /\ run[w].cmd.body.kind = "write"
  /\ LET p == resolveAbs(run[w].cmd.body.path)
         Wrote(data) ==
           /\ Fits(fs, p)
           /\ tmp' = [tmp EXCEPT ![p] = [data |-> data, n |-> run[w].cmd.n]]
           /\ oldWrote' = IF w = "old" THEN oldWrote \cup {p} ELSE oldWrote
     IN  \/ /\ Wrote(run[w].cmd.body.data)
            /\ SetRun(w, [run[w] EXCEPT !.at = "rename"]) /\ UNCHANGED replies
         \/ Wrote(0) /\ Reply(w, "failed")
         \/ Reply(w, "failed") /\ UNCHANGED <<tmp, oldWrote>>
  /\ UNCHANGED <<agentRest, wire, crontab, fs, by>>

\* ... which is then renamed over it.
RenameTmp(w) ==
  /\ run[w].at = "rename"
  /\ LET p == resolveAbs(run[w].cmd.body.path) IN
     /\ IF tmp[p] # None /\ Fits(fs, p) /\ ~IsDir(fs, p)
        THEN /\ fs' = [fs EXCEPT ![p] = File(tmp[p].data)]
             /\ Touch(w, {p}, tmp[p].n)
             /\ Reply(w, "ok")
        ELSE Reply(w, "failed") /\ UNCHANGED <<fs, by, oldWrote>>
     /\ tmp' = [tmp EXCEPT ![p] = None]
  /\ UNCHANGED <<agentRest, wire, crontab>>

\* The stream breaks: commands and results on it are lost.  connectAndServe waits
\* two seconds for the receive loop and leaves a command that takes longer behind,
\* or the agent itself dies.
Break ==
  /\ link /\ breaks < MaxBreaks /\ run["old"] = Idle
  /\ link' = FALSE /\ breaks' = breaks + 1
  /\ wire' = <<>> /\ replies' = {}
  /\ run' \in {[w \in Workers |-> IF w = "old" THEN run["cur"] ELSE Idle],
               [w \in Workers |-> Idle]}
  /\ UNCHANGED <<handler, sent, host>>

Reconnect ==
  /\ ~link
  /\ link' = TRUE
  /\ UNCHANGED <<handler, wire, sent, run, replies, breaks, host>>

-----------------------------------------------------------------------------
Ask(q) ==
  CreateJob(q) \/ UpdateJob(q) \/ DeleteJobLookup(q) \/ ForceApply(q) \/ AskFile(q) \/ AskUser(q)

\* The steps of a handler in which the agent has no part.
HandlerStep(q) ==
  \/ LookupNode(q) \/ DeleteJob(q) \/ loadCronEntries(q)
  \/ LookupRoot(q) \/ LockApply(q)
  \/ Send(q) \/ SendFails(q) \/ Timeout(q)

AgentStep ==
  \/ Receive
  \/ \E w \in Workers : PrepareCron(w) \/ RenameCron(w)
                        \/ HandleCommand(w) \/ WriteTmp(w) \/ RenameTmp(w)

Next ==
  \/ \E q \in Reqs : Ask(q) \/ HandlerStep(q) \/ LookupRootCut(q) \/ Deliver(q)
  \/ AgentStep
  \/ \E row \in Profiles : CreatePath(row)
  \/ \E row \in roots : DeletePath(row)
  \/ Break \/ Reconnect

Spec == Init /\ [][Next]_vars

\* Handlers run on and timers fire.  A mutex (applyMu, sendMu) is taken once it stays
\* free, which it does in the end as a request takes each twice at most.  Nothing is
\* assumed of the agent: it may hang in a command for ever.  Every step of a handler
\* changes its pc or loc.
FairSpec == Spec /\ \A q \in Reqs : WF_<<pc, loc>>(HandlerStep(q))

-----------------------------------------------------------------------------
(* Properties.                                                             *)

\* "saved" and "running on the host" are different claims (withApplyResult).
\* When the request that last changed a job was told "applied", cron does for
\* the job what its row says, and keeps doing it: no push that was loaded
\* before, was delayed or was given up brings an older set of jobs back.  Two
\* things can spoil this: Update and Delete answer "applied" without a push when
\* they could not read the job's node, and a receive loop left over from a broken
\* stream may write the push it holds over a newer one.
AppliedIsRunning ==
  \A j \in Jobs :
    (~leftover /\ writer[j] \notin blind \cup {None} /\ ans[writer[j]] = "applied")
       => CronDoes(cron[j]) = RowWants(db[j])

\* No command changes a file whose request named, at either end, a path that lay
\* in a read-only root when the handler looked (findManagedRoot): renames, owners
\* and the chown after a write included.  The exception is a client that leaves
\* during the lookup, which cuts the list of roots short.
ReadOnlyHolds ==
  [][\A w \in Workers :
       (run[w] # Idle /\ run'[w] = Idle /\ fs' # fs) =>
         \/ run[w].cmd.left
         \/ \A p \in Range(Addressed(run[w].cmd.body)) :
              [path |-> Clean(p).names, ro |-> FALSE] \in run[w].cmd.seen]_vars

\* A write that was reported as done stays until a command sent after it changes
\* the path: one that was given up before and runs late comes before it on the
\* stream.  Only a command left over from a broken stream can spoil this.
AckedWriteStands ==
  \A p \in Paths : p \in oldWrote \/ by[p] >= acked[p]

\* Every request is answered, also when the agent hangs in a command, as long as its
\* stream does not stay full: Send has no deadline.  A handler that waits for applyMu
\* is held up no longer than the one that has it.
Answered ==
  \A q \in Reqs : []<>~Full => (pc[q] # "new" ~> pc[q] = "done")
=============================================================================
