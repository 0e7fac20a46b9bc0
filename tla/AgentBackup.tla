----------------------------- MODULE AgentBackup -----------------------------
(***************************************************************************)
(* RunBackup on the agent (agent/backup.go, agent/backup_pgdump.go): one   *)
(* run of the tar engine, whose walker goroutine archives a tree that      *)
(* keeps changing into a pipe an S3 upload reads, or of the pgdump engine, *)
(* which dumps, optionally restores and uploads one database after the     *)
(* other.                                                                  *)
(*                                                                         *)
(* An archive is a sequence of units: the header of an entry, one unit per *)
(* block of its body, the end marker.  `out' is what the tar and gzip      *)
(* writers hold and the pipe has not handed to the upload yet.             *)
(***************************************************************************)
EXTENDS Integers, Sequences

CONSTANTS Requests,   \* the RunBackupReq's the leader may send
          Tree,       \* Tree[r]: the names in directory r
          Links,      \* the names that are symbolic links
          Size,       \* Size[f]: blocks of file f when the run starts
          MaxSize,    \* bound on the blocks of a file
          Buf,        \* units the writers above the pipe may hold
          Line,       \* Line[s]: source s of the pgdump engine, as key=value tokens
          Secrets,    \* names of readable files in /run/secrets
          MaxEdits    \* bound on the changes of the tree during the run

Files == UNION {Tree[r] : r \in DOMAIN Tree}

ASSUME BufAssumption == Buf \in Nat \ {0}
ASSUME TreeAssumption ==
  /\ Files \cap DOMAIN Tree = {} /\ MaxSize \in Nat
  /\ DOMAIN Size = Files /\ \A f \in Files : Size[f] \in Nat
ASSUME RequestsAssumption ==
  \A r \in Requests :
    /\ r.engine = "pgdump" => r.sources \in Seq(DOMAIN Line)
    /\ r.engine # "pgdump" => r.sources \in Seq(DOMAIN Tree)

VARIABLES
  req,                 \* the request
  pc,                  \* control point of RunBackup and runPgDump
  result,              \* what RunBackup returned: "ok" or the error
  ctx,                 \* runCtx is cancelled
  registered,          \* the run is in backupRuns
  ticking,             \* the goroutine of startProgressEmitter runs
  wk,                  \* the walker goroutine
  out,                 \* units on their way to the upload
  pipe,                \* "open", "eof", "err" (closed by the walker) ...
  rclosed,             \* ... and closed by the reader
  up, got, uperr,      \* Uploader.Upload: control, body read, error
  bucket,              \* the objects by key
  len, gone,           \* the tree: blocks of each file, names removed
  absent, denied,      \* source directories missing, files that cannot be opened
  src, dump,           \* pgdump: source in turn, the dump file
  tmp, sidecar,        \* pgdump: the temporary directory, the sidecar
  edits,
  happened, touched    \* ghosts: what went wrong so far, the files changed

walker == <<wk, out>>
upload == <<up, got, uperr>>
tree   == <<len, gone, absent, denied, edits, touched>>
pg     == <<src, dump, tmp, sidecar>>
main   == <<pc, result, ctx, registered, ticking>>
vars   == <<req, main, walker, pipe, rclosed, upload, bucket, tree, pg, happened>>

U(k, f, n) == [k |-> k, f |-> f, n |-> n]
Previous   == <<U("previous", "", 0)>>     \* the object of an earlier run
NoDump     == <<>>

\* at: control point; root: source in turn; names: names of the directory still
\* to visit; f, size, pos: the entry, its length in the header, the blocks
\* written; err: walkErr; stuck: the error of the tar and gzip writers.
Walker == [at |-> "idle", root |-> 1, names |-> {}, f |-> "", size |-> 0,
           pos |-> 0, eof |-> FALSE, err |-> "", stuck |-> FALSE]

Init ==
  /\ req \in Requests
  /\ pc = "start" /\ result = "" /\ ctx = FALSE /\ registered = FALSE /\ ticking = FALSE
  /\ wk = Walker /\ out = <<>> /\ pipe = "open" /\ rclosed = FALSE
  /\ up = "idle" /\ got = <<>> /\ uperr = ""
  /\ bucket = [k \in {<<>>} |-> Previous]
  /\ len = Size /\ gone = {} /\ edits = 0 /\ touched = {}
  /\ absent \in {{}} \cup {{r} : r \in DOMAIN Tree}
  /\ denied \in {{}} \cup {{f} : f \in Files \ Links}
  /\ src = 1 /\ dump = NoDump /\ tmp = FALSE /\ sidecar = "none"
  /\ happened = {}

Blame(e) == happened' = happened \cup {e}
Store(k, body) == bucket' = [x \in DOMAIN bucket \cup {k} |-> IF x = k THEN body ELSE bucket[x]]

\* The deferred calls: the run leaves backupRuns, its context ends, stopProgress
\* and RemoveAll run.
Return(r) ==
  /\ pc' = "returned" /\ result' = r /\ ctx' = TRUE /\ registered' = FALSE
  /\ tmp' = FALSE
  /\ UNCHANGED ticking
Goto(l) == pc' = l /\ UNCHANGED <<result, ctx, registered, ticking, tmp>>

-----------------------------------------------------------------------------
(* RunBackup: the caller's side of the tar engine.                         *)

Start ==
  /\ pc = "start"
  /\ IF req.sources = <<>> \/ req.engine \notin {"", "tar", "pgdump"}
     THEN Return("request") /\ Blame("request") /\ UNCHANGED wk
     ELSE /\ registered' = TRUE
          /\ pc' = IF req.engine = "pgdump" THEN "mktemp" ELSE "init"
          /\ ticking' = (req.engine # "pgdump")
          /\ wk' = IF req.engine = "pgdump" THEN wk ELSE [wk EXCEPT !.at = "root"]
          /\ UNCHANGED <<result, ctx, tmp, happened>>
  /\ UNCHANGED <<req, out, pipe, rclosed, upload, bucket, tree, src, dump, sidecar>>

\* s3.NewUploader.
NewUploader ==
  /\ pc = "init"
  /\ \/ Goto("upload") /\ up' = "reading" /\ UNCHANGED <<rclosed, happened>>
     \/ Return("init") /\ Blame("init") /\ rclosed' = TRUE /\ UNCHANGED up
  /\ UNCHANGED <<req, walker, pipe, got, uperr, bucket, tree, src, dump, sidecar>>

\* Mutant: the read end of the pipe is left open.
AbandonPipe ==
  /\ pc = "upload" /\ up = "ended"
  /\ Goto("join")
  /\ UNCHANGED <<req, walker, pipe, rclosed, upload, bucket, tree, src, dump, sidecar, happened>>

\* The upload is over; whatever the walker still writes is refused.
ClosePipe ==
  /\ pc = "upload" /\ up = "ended"
  /\ Goto("join") /\ rclosed' = TRUE
  /\ UNCHANGED <<req, walker, pipe, upload, bucket, tree, src, dump, sidecar, happened>>

\* Mutant: the walker's error goes first, its cause or the pipe's echo of it.
Echoed(walkErr, uploadErr) ==
  IF walkErr # "" THEN walkErr ELSE uploadErr

\* The error RunBackup returns: the walker's, unless it is the echo of a failed upload.
Cause(walkErr, uploadErr) ==
  IF walkErr # "" /\ ~(uploadErr # "" /\ walkErr = "closed") THEN walkErr ELSE uploadErr

Join ==
  /\ pc = "join" /\ wk.at = "done"
  /\ LET e == Cause(wk.err, uperr) IN Return(IF e = "" THEN "ok" ELSE e)
  /\ UNCHANGED <<req, walker, pipe, rclosed, upload, bucket, tree, src, dump, sidecar, happened>>

\* CancelBackup, or the end of the stream's context.
CancelBackup ==
  /\ registered /\ ~ctx
  /\ ctx' = TRUE /\ registered' = FALSE /\ Blame("ctx")
  /\ UNCHANGED <<req, pc, result, ticking, walker, pipe, rclosed, upload, bucket, tree, pg>>
StreamEnds ==
  /\ registered /\ ~ctx
  /\ ctx' = TRUE /\ Blame("ctx")
  /\ UNCHANGED <<req, pc, result, registered, ticking, walker, pipe, rclosed, upload, bucket, tree, pg>>

\* The progress goroutine sees the end of the context or stopProgress.
ProgressStops ==
  /\ ticking /\ ctx
  /\ ticking' = FALSE
  /\ UNCHANGED <<req, pc, result, ctx, registered, walker, pipe, rclosed, upload, bucket, tree, pg, happened>>

-----------------------------------------------------------------------------
(* The walker: tarOneRoot for each source, over filepath.Walk.             *)

\* The walk is over, with an error; tw.Close is next.
Fails(e) == wk' = [wk EXCEPT !.at = "close", !.err = e] /\ UNCHANGED out

\* A write to the tar writer goes into the buffers, waits for room in them, or
\* meets the closed pipe.
Write(u, next) ==
  \/ Len(out) < Buf /\ out' = Append(out, u) /\ wk' = next
  \/ /\ rclosed /\ UNCHANGED out
     /\ wk' = [wk EXCEPT !.at = "close", !.err = "closed", !.stuck = TRUE]

WalkerOnly ==
  UNCHANGED <<req, main, pipe, rclosed, upload, bucket, tree, pg>>

\* The loop over the sources; Lstat and readDirNames of the next one.
WalkRoot ==
  /\ wk.at = "root"
  /\ IF wk.root > Len(req.sources)
     THEN wk' = [wk EXCEPT !.at = "close"] /\ UNCHANGED <<out, happened>>
     ELSE IF ctx THEN Fails("ctx") /\ UNCHANGED happened
     ELSE LET r == req.sources[wk.root] IN
          IF r \in absent THEN Fails("root") /\ Blame("root")
          ELSE /\ wk' = [wk EXCEPT !.at = "dir", !.f = r, !.size = 0, !.pos = 0,
                           !.names = Tree[r] \ gone]
               /\ UNCHANGED <<out, happened>>
  /\ WalkerOnly

\* The callback on the directory itself.
WalkDir ==
  /\ wk.at = "dir"
  /\ IF ctx THEN Fails("ctx")
     ELSE Write(U("hdr", wk.f, 0), [wk EXCEPT !.at = "entry"])
  /\ WalkerOnly /\ UNCHANGED happened

\* filepath.Walk takes the next name (in lexical order, on which nothing here depends)
\* and calls lstat on it; the callback returns the error of a name that is gone.  A
\* source is a directory of files and links: no directory below it, no single file.
NextEntry ==
  /\ wk.at = "entry"
  /\ \/ /\ wk.names = {}
        /\ wk' = [wk EXCEPT !.at = "root", !.root = @ + 1] /\ UNCHANGED <<out, happened>>
     \/ \E f \in wk.names :
          IF f \in gone THEN Fails("gone") /\ Blame("gone")
          ELSE /\ wk' = [wk EXCEPT !.at = "visit", !.names = @ \ {f}, !.f = f, !.pos = 0,
                           !.eof = FALSE, !.size = IF f \in Links THEN 0 ELSE len[f]]
               /\ UNCHANGED <<out, happened>>
  /\ WalkerOnly

\* The callback up to the header: readlink of a link, open of a file.  A name
\* removed since lstat is skipped.
Visit ==
  /\ wk.at = "visit"
  /\ IF ctx THEN Fails("ctx") /\ UNCHANGED happened
     ELSE IF wk.f \in gone THEN wk' = [wk EXCEPT !.at = "entry"] /\ UNCHANGED <<out, happened>>
     ELSE IF wk.f \in denied THEN Fails("denied") /\ Blame("denied")
     ELSE wk' = [wk EXCEPT !.at = "header"] /\ UNCHANGED <<out, happened>>
  /\ WalkerOnly

AfterUnit(n) == IF n = wk.size THEN "entry" ELSE "body"

WriteHeader ==
  /\ wk.at = "header"
  /\ Write(U("hdr", wk.f, wk.size), [wk EXCEPT !.at = AfterUnit(0)])
  /\ WalkerOnly /\ UNCHANGED happened

\* One block of the body: of the file as it is now, up to the length in the
\* header, or padding once the file ended before it.
copyExactly ==
  /\ wk.at = "body"
  /\ LET ended == wk.eof \/ wk.pos >= len[wk.f]
     IN Write(U(IF ended THEN "zero" ELSE "data", wk.f, wk.pos),
              [wk EXCEPT !.pos = @ + 1, !.eof = ended, !.at = AfterUnit(wk.pos + 1)])
  /\ WalkerOnly /\ UNCHANGED happened

\* Reading a file fails in the middle of its body.
ReadFails ==
  /\ wk.at = "body" /\ ~wk.eof
  /\ Fails("io") /\ Blame("io")
  /\ WalkerOnly

FirstErr(e) == IF wk.err = "" THEN e ELSE wk.err

\* tw.Close: the end marker, unless a write failed or a body was cut short.
CloseTar ==
  /\ wk.at = "close"
  /\ IF wk.stuck \/ wk.err = "io"
     THEN wk' = [wk EXCEPT !.at = "flush"] /\ UNCHANGED out
     ELSE \/ Len(out) < Buf /\ out' = Append(out, U("end", "", 0)) /\ wk' = [wk EXCEPT !.at = "flush"]
          \/ /\ rclosed /\ UNCHANGED out
             /\ wk' = [wk EXCEPT !.at = "flush", !.err = FirstErr("closed"), !.stuck = TRUE]
  /\ WalkerOnly /\ UNCHANGED happened

\* gzw.Close writes what is left and the trailer.
CloseGzip ==
  /\ wk.at = "flush"
  /\ \/ ~wk.stuck /\ ~rclosed /\ out = <<>> /\ wk' = [wk EXCEPT !.at = "hand"]
     \/ (wk.stuck \/ rclosed) /\ wk' = [wk EXCEPT !.at = "hand", !.err = FirstErr("closed")]
  /\ UNCHANGED out /\ WalkerOnly /\ UNCHANGED happened

\* Mutant: a plain Close of the pipe.
HandPlainly ==
  /\ wk.at = "hand"
  /\ wk' = [wk EXCEPT !.at = "done"] /\ pipe' = "eof"
  /\ UNCHANGED <<out, req, main, rclosed, upload, bucket, tree, pg, happened>>

\* The deferred function: walkErr into its channel, then CloseWithError.
HandOver ==
  /\ wk.at = "hand"
  /\ wk' = [wk EXCEPT !.at = "done"] /\ pipe' = IF wk.err = "" THEN "eof" ELSE "err"
  /\ UNCHANGED <<out, req, main, rclosed, upload, bucket, tree, pg, happened>>

-----------------------------------------------------------------------------
(* Uploader.Upload, over the SDK's multipart upload (external): the object *)
(* is stored when the body ends with EOF.                                  *)

UploadReads ==
  /\ up = "reading" /\ out # <<>>
  /\ got' = Append(got, Head(out)) /\ out' = Tail(out)
  /\ UNCHANGED <<req, main, wk, pipe, rclosed, up, uperr, bucket, tree, pg, happened>>

UploadEnds(e, stored) ==
  /\ up' = "ended" /\ uperr' = e
  /\ IF stored THEN Store(<<>>, got) ELSE UNCHANGED bucket
  /\ UNCHANGED <<req, main, walker, pipe, rclosed, got, tree, pg>>

UploadCompletes ==
  /\ up = "reading" /\ out = <<>> /\ pipe = "eof"
  /\ \/ UploadEnds("", TRUE) /\ UNCHANGED happened
     \/ \E stored \in BOOLEAN : UploadEnds("s3", stored) /\ Blame("s3")

\* The body ends with the walker's error, the service fails or the context ends:
\* the upload is aborted.
UploadAborts ==
  /\ up = "reading"
  /\ \/ out = <<>> /\ pipe = "err" /\ UploadEnds(wk.err, FALSE) /\ UNCHANGED happened
     \/ UploadEnds("s3", FALSE) /\ Blame("s3")
     \/ ctx /\ UploadEnds("ctx", FALSE) /\ UNCHANGED happened

-----------------------------------------------------------------------------
(* runPgDump.                                                              *)

\* The last value given for a key; unknown keys are skipped, a token without "="
\* has key "".
Value(s, k, default) ==
  LET given == {i \in DOMAIN s : s[i].key = k}
  IN IF given = {} THEN default ELSE s[CHOOSE i \in given : \A j \in given : j <= i].val

parsePGDSN(s) ==
  LET secret == Value(s, "password_secret", "") IN
  [ok |-> /\ \A i \in DOMAIN s : s[i].key # ""
          /\ \A k \in {"host", "user", "dbname"} : Value(s, k, "") # ""
          /\ secret = "" \/ secret \in Secrets,
   port |-> Value(s, "port", "5432"), dbname |-> Value(s, "dbname", "")]

DSN(i) == parsePGDSN(Line[req.sources[i]])

\* Mutant: the suffix is the name of the database alone.
KeyByName(i) ==
  IF Len(req.sources) > 1 THEN <<DSN(i).dbname>> ELSE <<>>

\* The key of source i, as the suffix appendKeySuffix puts into the key of the
\* request.
KeyOf(i) ==
  IF Len(req.sources) > 1 THEN <<i, DSN(i).dbname>> ELSE <<>>

PgOnly == UNCHANGED <<req, walker, pipe, rclosed, upload, tree>>

ReturnPg(e) == Return(e) /\ Blame(e) /\ UNCHANGED <<src, dump, bucket>>

\* MkdirTemp and NewUploader.
Prepare ==
  /\ pc = "mktemp" /\ UNCHANGED sidecar
  /\ \/ ReturnPg("tmp")
     \/ ReturnPg("init")
     \/ /\ pc' = "source" /\ tmp' = TRUE
        /\ UNCHANGED <<result, ctx, registered, ticking, src, dump, bucket, happened>>
  /\ PgOnly

NextSource ==
  /\ pc = "source" /\ UNCHANGED <<sidecar, src, dump, bucket>>
  /\ IF src > Len(req.sources) THEN Return("ok") /\ UNCHANGED happened
     ELSE IF ctx THEN Return("ctx") /\ UNCHANGED happened
     ELSE IF ~DSN(src).ok THEN Return("dsn") /\ Blame("dsn")
     ELSE Goto("dump") /\ UNCHANGED happened
  /\ PgOnly

\* pg_dump -f: an error or a dump file.  "torn" is a dump whose schema does not
\* restore; damage to the rows alone is a "dump" here, for nothing in the code sees it.
pgDump ==
  /\ pc = "dump" /\ UNCHANGED sidecar
  /\ \/ ReturnPg("dump")
     \/ \E k \in {"dump", "torn"} :
          /\ dump' = <<U(k, req.sources[src], src)>>
          /\ Goto(IF req.verify THEN "verify" ELSE "put")
          /\ UNCHANGED <<src, bucket, happened>>
  /\ PgOnly

\* docker run: a client killed with the context may leave its container behind.
StartSidecar ==
  /\ pc = "verify"
  /\ \/ Goto("up") /\ sidecar' = "up" /\ UNCHANGED <<src, dump, bucket, happened>>
     \/ ReturnPg("verify") /\ UNCHANGED sidecar
     \/ ctx /\ ReturnPg("verify") /\ sidecar' = "left"
  /\ PgOnly

\* pg_isready within 25 s, docker cp, pg_restore --schema-only; docker rm in every case.
verifyRestore ==
  /\ pc = "up"
  /\ \/ ReturnPg("verify")
     \/ dump[1].k = "dump" /\ Goto("put") /\ UNCHANGED <<src, dump, bucket, happened>>
  /\ sidecar' = "none"
  /\ PgOnly

\* Open and Upload of the dump file, then the next source.
UploadDump ==
  /\ pc = "put"
  /\ \/ Store(KeyOf(src), dump) /\ src' = src + 1 /\ Goto("source") /\ UNCHANGED <<dump, happened>>
     \/ /\ Return("s3") /\ Blame("s3") /\ UNCHANGED <<src, dump>>
        /\ Store(KeyOf(src), dump) \/ UNCHANGED bucket
     \/ ctx /\ Return("ctx") /\ UNCHANGED <<src, dump, bucket, happened>>
  /\ UNCHANGED sidecar /\ PgOnly

-----------------------------------------------------------------------------
(* The tree changes under the walk (other programs of the host).           *)

Change(f) ==
  /\ edits < MaxEdits /\ wk.at \notin {"idle", "done"} /\ f \notin gone
  /\ edits' = edits + 1 /\ touched' = touched \cup {f}
  /\ \/ gone' = gone \cup {f} /\ UNCHANGED len
     \/ /\ f \notin Links /\ UNCHANGED gone
        /\ \E n \in 0 .. MaxSize : n # len[f] /\ len' = [len EXCEPT ![f] = n]
  /\ UNCHANGED <<req, main, walker, pipe, rclosed, upload, bucket, absent, denied, pg, happened>>

WalkerStep ==
  \/ WalkRoot \/ WalkDir \/ NextEntry \/ Visit \/ WriteHeader
  \/ copyExactly \/ ReadFails \/ CloseTar \/ CloseGzip \/ HandOver
MainStep ==
  \/ Start \/ NewUploader \/ ClosePipe \/ Join
  \/ Prepare \/ NextSource \/ pgDump \/ StartSidecar \/ verifyRestore \/ UploadDump
UploadStep == UploadReads \/ UploadCompletes \/ UploadAborts

Next ==
  \/ WalkerStep \/ MainStep \/ UploadStep \/ ProgressStops
  \/ CancelBackup \/ StreamEnds
  \/ \E f \in Files : Change(f)

Spec == Init /\ [][Next]_vars

\* The agent's goroutines run; nothing is assumed of S3, of the database or of Docker.
FairSpec ==
  /\ Spec
  /\ WF_vars(WalkerStep) /\ WF_vars(ProgressStops)
  /\ WF_vars(Start \/ NewUploader \/ ClosePipe \/ Join)

-----------------------------------------------------------------------------
(* Properties.                                                             *)

Headers(body) == {i \in DOMAIN body : body[i].k = "hdr"}

\* Every header is followed by as many blocks of its file as it says, then by the
\* next header or the end marker, which is last.
WellFormed(body) ==
  /\ body # <<>> /\ body[1].k = "hdr"
  /\ \A i \in Headers(body) :
       LET next == i + body[i].n + 1 IN
       /\ next \in DOMAIN body /\ body[next].k \in {"hdr", "end"}
       /\ \A j \in i + 1 .. next - 1 : body[j].k \in {"data", "zero"} /\ body[j].f = body[i].f
  /\ \A i \in DOMAIN body : body[i].k = "end" <=> i = Len(body)

\* A file that was there throughout is in the archive, and one that nobody
\* changed is there as it was.
Complete(body) ==
  \A k \in 1 .. Len(req.sources) : \A f \in Tree[req.sources[k]] \ gone :
    /\ \E i \in Headers(body) : body[i].f = f
    /\ f \notin touched /\ f \notin Links =>
         \A i \in Headers(body) : body[i].f = f =>
           body[i].n = Size[f] /\ \A j \in i + 1 .. i + Size[f] : body[j] = U("data", f, j - i - 1)

IsTar == req.engine \in {"", "tar"}

\* The object a run leaves at its key is the one of an earlier run or a complete
\* archive, however the run ends: an upload is never completed with the part of
\* the archive that was written before the walk failed (the CloseWithError in
\* RunBackup).  A dump of a plan with verify_restore is stored only after a
\* restore of it succeeded.
NeverPartial ==
  \A k \in DOMAIN bucket : bucket[k] # Previous =>
    IF IsTar THEN WellFormed(bucket[k]) /\ Complete(bucket[k])
             ELSE req.verify => bucket[k][1].k = "dump"

\* A run that reports success has stored what it reports: the complete archive,
\* or for every database its own dump at a key of its own (the index in the suffix
\* runPgDump appends).
SuccessIsStored ==
  result = "ok" =>
    IF IsTar THEN <<>> \in DOMAIN bucket /\ bucket[<<>>] # Previous
    ELSE \A i \in DOMAIN req.sources :
           \E k \in DOMAIN bucket : bucket[k][1].f = req.sources[i] /\ bucket[k][1].n = i

\* The error RunBackup returns is something that happened: neither the echo of a
\* failed upload in the walker (the ErrClosedPipe of its own teardown) nor an error
\* the archive format raises because a file changed while it was copied.
CauseReported ==
  result \notin {"", "ok"} => result \in happened

\* Once the upload is over or RunBackup returned, everything it started ends: the
\* walker is not left blocked in a write to the pipe, nor the progress goroutine
\* behind it.  Nothing is assumed of S3.
NothingLeaks ==
  (up = "ended" \/ pc = "returned")
    ~> (pc = "returned" /\ wk.at \in {"idle", "done"} /\ ~ticking)
==============================================================================
