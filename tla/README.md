# LabExtend in TLA+

LabExtend manages a Docker Swarm: one **leader** with a web interface and a
SQLite database, and one **agent** per node. This directory models the parts of
it in which goroutines, requests, streams and restarts meet, checks the models
with TLC on small instances, and proves the safety of the central ones for every
instance with TLAPS. `PROJECT.json` lists the components, the runs, the lines of
`src/` behind every definition, the hazards of the code and the theorems.

## The system

An agent keeps one bidirectional gRPC stream to the leader. It sends heartbeats,
container reports, log batches and terminal output, and answers commands; its
receive loop runs commands one after the other. When the stream breaks it waits
two seconds for that loop, closes the terminals, stops the collectors and
connects again. On the leader

- `grpc_server.go` runs one `Channel` call per stream and keeps the registry of
  connected agents; `agent_request.go` sends a command and waits for its answer;
- the metrics, container and log stores hold the live state and its history;
- `internal/backup` runs backup plans on agents, at the times of a cron table or
  when asked to; the agent archives or dumps and uploads to S3;
- the alert engine compares the live state with rules every five seconds and
  tells browsers (over an SSE hub) and Discord;
- web analytics turns the access lines among the logs into page views and visitors;
- `handlers_cron.go` and `handlers_files.go` change cron jobs and files of a host
  by way of its agent;
- `handlers_terminal.go` and `pty_hub.go` connect a browser with a shell in a
  helper container of a node.

## Modules

State machines. Every SQL statement, request, lock and channel operation that
another goroutine can see is a step of its own.

| module | code | state and steps |
|---|---|---|
| `BackupRunner` | `backup/runner.go`, deletion handlers of `handlers_backup.go` | The tables of plans, runs and run items, the claims, and one control point for each run and each (run, node) goroutine. Deadlines, lost agents, handlers and crashes fall between any two steps. |
| `BackupContract` | what the runner promises | Which runs execute, for which plan, and whether a record is absent, open or closed. `BackupRunner` implements it. |
| `BackupScheduler` | `backup/scheduler.go`, plan handlers | The plan table, cron's entries and `planJobIDs`. `Refresh` is a read and an application under the mutex, called by the ticker and by requests; a cancelled request may leave its read partial. |
| `AgentBackup` | `agent/backup.go`, `agent/backup_pgdump.go` | One `RunBackup`: the walker over a tree that changes, tar and gzip writers, the pipe, the upload, the progress goroutine, cancellation and loss of the stream; or one database after the other, dumped, restored in a sidecar and uploaded. |
| `AgentRegistry` | `grpc_server.go`, `CleanupNodes` | One control point per stream, in the order of `Channel` and its deferred calls; registry, status column and live state. |
| `LeaderIngest` | `metrics_store.go`, `container_store.go`, `log_store.go`, `ContainerLogStream` | What a node's messages become in memory and in the tables: samples and minute buckets with their late writers, containers and their rows, log lines with fan-out, tail, pruning and retention. |
| `AgentMonitor` | `agent/monitor.go`, `container_collector.go`, `log_collector.go` | Sessions of the monitor, samples and restart counts, one tail goroutine per container and the shipper. Time passes in seconds, the unit in which a log is asked for, and a second holds several lines. |
| `AlertEngine` | `alert_engine.go`, rule handlers | One rule: its row, the snapshot an evaluation works on, and the hysteresis state per target. Points in time are ages. |
| `AlertDelivery` | `fire`, `webhookURL`, `discord/webhook.go`, `sse.go`, webhook handlers | The cache of webhook URLs beside the handlers that edit them, posts with retries, and the hub with its bounded channels. |
| `WebAnalytics` | `analytics_store.go` | One site: the pending aggregate, the salt of the day, the flush under way and the tables. `record` is two steps, since it reads the clock before it takes the mutex. Ghosts mark the days whose salt was lost (`lost`) or whose midnight overtook a `record` call (`late`). |
| `HostCommands` | `handlers_cron.go`, `handlers_files.go`, `agent/cron.go`, `agent/handlers.go`, `agent_request.go` | Requests that change a host: lookups, which may fail, `applyMu`, the command on a stream with room for `Room` of them, the receive loop, the mutex of the crontab, the two steps of an atomic write, the answer or the timeout. A recursive command may fail half way (`Walk`). After a broken stream the old loop's command goes on beside the new loop. Ghosts mark the requests that answered without a push (`blind`) and what an old loop wrote (`leftover`, `oldWrote`). |
| `PtyOutput` | `pty_hub.go`, output loop of `Serve` | Numbered chunks between `deliver` and the browser, with the bounded buffer and the `dead` mark. |
| `Terminal` | `Serve`, `agent/pty.go`, stream handling of `agent/grpc_client.go` | Sessions, requests on the wire, the receive loop of each stream, input that blocks with its lock held, the session table and the helper containers. |

Functions. Their properties are named assumptions, which TLC evaluates over all
inputs of the bounds when it starts the run in brackets.

| module | code | what is checked |
|---|---|---|
| `KeyTemplate` [`backup_runner`] | `renderKeyTemplate`, `s3KeySafe`, `validateKeyTemplate` | The loop meets its description; nodes of a run with different safe names write to different keys. |
| `CronTable`, `HostFiles` [`host_commands`, in `MCHostCommands`] | cron lines, `path.Clean`, managed roots, reads, listings, accounts | A percent sign survives the crontab; the leader's validator is stricter than the agent's; a read says when it was cut; a listing stays inside; the host's accounts win. |
| `AccessLine` [`web_analytics`] | `analytics_parse.go`, counters of `record`, `Ingest` | However a client writes the host, one site counts it; the site is not its own referrer; the rules tell products apart that carry each other's names; no line of a batch is skipped; the figures add up. |
| `HostSample` [`agent_monitor`] | `heartbeat_linux.go`, `CPUPercent`, `rateOK` | The CPU share is the busy part of the interval also when a counter wraps or a reading failed; used is within total whichever source answers; a disk counts once; the line budget is exact. |

`MC...` modules hold the constants of an instance and bring in the functions that
go with it. Modules named `...Proofs` hold theorems. Operators whose comment begins
with "Mutant" are wrong variants of the definition that follows. No specification
uses them; each shows that some property notices that mistake.

## What the runs check

| run | instance | question |
|---|---|---|
| `backup_runner` | one plan, two runs, one node, one crash | Does every open record have a goroutine that will close it (`NoOrphanRun`)? Is a success complete? Are claims released, records settled, is the contract implemented? |
| `agent_registry` | one node, three streams, one cleanup, one restart | Is only an open stream registered, is live state dropped, and is a status that a superseded stream wrote corrected? |
| `backup_scheduler` | two plans, two requests and the ticker, two writes, one failed read | Do cron and `planJobIDs` agree at every moment, and does cron follow the table in the end? |
| `pty_output` | seven chunks, a buffer of two | Is output free of holes until the subscription is dead, and does a dead one end? |
| `terminal` | two sessions, a limit of one, three streams, two inputs | Is every answered session closed, and does every container end, but for that of a shell which never takes its input? |
| `alert_engine` | one target, duration 2, cooldown 3, threshold 2, one restart, two rules | Are duration and the grace after a restart kept, and does the alert follow what lasts? |
| `alert_delivery` | two alerts, one edit of the webhook, two browsers, channels of one | Is the cached URL that of the row? Is a message accepted at most once? Can the hub panic, or a handler wait for a slow browser? |
| `web_analytics` | two clients, two receive goroutines, three page views around a midnight, one failed transaction, one restart | Is every page view accounted for, is a client hashed once a day, and are salts and hashes of finished days forgotten? |
| `host_commands` | a request that creates a job or writes a file beside one of any kind, two jobs, one broken stream, one edit of the managed roots | Does the host run what was told "applied"? Does an acknowledged write stand? Do read-only roots hold? Is every request answered when the stream does not stay full? |
| `agent_backup` | two sources and two changes under the walk; up to two databases; a failure of any step | Is a partial archive ever stored? Is a success stored and is the reported error the cause? Does everything end that was started? |
| `agent_monitor` | one container, three events, one tick | Is every live tail in the map? Are lines shipped in the order of their seconds? Is a crash loop real? Does `Stop` return? |
| `leader_ingest` | three messages, two containers, two viewers, four lines, one restart | Is the latest report what is shown? Is a bucket its minute? Does a viewer miss a line? Can the leader panic on a channel of a viewer who left? |

### Bounds

Two runs of one plan are what exclusion is about; what several nodes add to the
verdict of a run is covered by the theorem `Completeness` for any number of them. With
a third stream a node is superseded while a predecessor is still closing. A buffer
of two overflows, drains and overflows again within seven chunks. Two sessions
exceed a limit of one, and three streams let a receive loop outlive two. Ages up to
three lie on both sides of the duration, the cooldown and the threshold; a rule's
targets share nothing but its row, so one is enough. Three page views of two
clients, two of them in flight at once, fall on both sides of a midnight, a failed
write and a restart. Two requests are what an interleaving of handlers needs, and
one broken stream is what lets a command outlive its turn; a stream with
room for one command is full with the first. Channels of capacity one
are full after one message. In the collectors containers
share only the maps that hold them and their locks, so one with its restarts is
enough there. Where a property needs no bound, a theorem covers all instances.

`CHECK_DEADLOCK FALSE` is set where ids, requests or events run out: the model ends
there and the program does not. `ViewerSymmetry` permutes the two viewers, which
no definition tells apart; that run checks no liveness.

### Fairness

Weak fairness of a goroutine's next step stands for the Go scheduler, and of a
timeout for its timer. It is assumed of

- runs, node jobs, restart and reconciliation in `BackupRunner`: an agent may
  never answer, and the run's context expires;
- the ticker and callers that have begun in `BackupScheduler`;
- the handlers of a stream in `AgentRegistry`, and strong fairness of the status
  update of a heartbeat: an agent with an open stream sends one again and again;
- the evaluation and the passing of time in `AlertEngine`, not the measurements;
- the cases of `Hub.Run` and the handlers of browsers in `AlertDelivery`, not the
  browsers' reading;
- `deliver` and `Serve` in `PtyOutput`, and strong fairness of the `dead` case:
  Go's `select` picks a ready case at random, so it does not pass one over for ever;
- `Flush` in `WebAnalytics`: its ticker fires, and a flush goes on to fail or succeed;
  the number of failures is bounded, so that one succeeds in the end;
- the handlers and timers in `HostCommands`; weak fairness is enough for `applyMu`, since
  the requests are finitely many and the mutex stays free once the others have left it.
  Nothing of the agent, which may hang for ever: that its stream does not stay full is a
  premise of `Answered`;
- the walker, the progress goroutine and `RunBackup` itself in `AgentBackup`; nothing
  of S3, the database or Docker;
- collector, shipper and `Stop` in `AgentMonitor`, and strong fairness of the `select`
  case for the end of the context;
- timers, receive loops, reconnection and Docker's removals in `Terminal`, and strong
  fairness of the end of a session whose lock is free again and again.

No fairness is assumed of users, of agents that answer, or of streams that end.
`LeaderIngest` states no liveness.

## What is proved

Every theorem holds for all values of the constants that satisfy the named `ASSUME`s.

| component | module and theorems | inductive invariant |
|---|---|---|
| `BackupRunner` | `BackupRunnerProofs`: `TypeInvariant`, `Exclusion`, `NoOrphans`, `Finality`, `Refinement` | `OneRunPerPlan` is inductive with the types; `NoOrphanRun` needs `Control`: a run without a row is at its first statements, a live run with an open row has its terminal update before it, and a process that is down executes nothing. |
| | `Completeness` | `CompleteInv`. `NodeInv`: what a node goroutine reported agrees with its item's row, at each of its control points; a failed update or a deletion leaves a row that is open or gone. `VerdictInv`: a run past its aggregation holds a verdict of `success` only when it has targets and all of them reported success. |
| `BackupScheduler` | `BackupRunnerProofs`: `SchedulerTypeInvariant`, `NoLeakedEntry` | `EntriesMatchJobs` is inductive with the types: `Refresh` keeps it for any snapshot, stale or partial. |
| `AgentBackup` | `AgentBackupProofs`: `CauseIsReported` | `CauseInv`. The context, the walker and the upload know only errors that happened, except for the walker's "closed", which the pipe gives it once `RunBackup` closed it behind the upload (`Known`, `PipeInv`). |
| | `WholeOrNothing`, `SuccessStored` | `BackupInv`. While the walker has met no error, what it wrote is a well-formed archive up to the entry it is in (`ShapeInv`) and holds every unchanged file of the roots it has passed (`ContentInv`, from `Past` and `Here`); an object that the tar engine stored is complete, and there is one when it succeeds (`StoredInv`); the databases before the one in turn have a dump each, at a key of its own (`DumpInv`). |
| `AgentRegistry` | `LeaderProofs`: `RegistryTypeInvariant`, `Routing`, `Cleaning`, `Ownership` | `OpenIsRegistered` (the only stream of a node that was never superseded is the registered one) and `LiveHasCleaner` (live state has a stream that still has to drop it). |
| `AlertEngine` | `LeaderProofs`: `EngineTypeInvariant`, `DurationHeld`, `CooldownHeld`, `RestartGrace` | `overSince` is no older than the last evaluation within bounds, `lastFired` is the time of the last alert, and no snapshot holds a silence longer than the leader has run. |
| `AlertDelivery` | `LeaderProofs`: `NotTwice`, `CacheCurrent`, `HubSafe` | Three invariants of parts that share no state. `PostInv`: what is posted again was accepted by nobody. `CacheInv`: what the engine read and has still to store is the row, or the race is marked. `HubInv`: a browser is in one channel of the hub at most and before its handler leaves (`RegistersOnce`), and the channels in the hub's map are open (`SubsAreOpen`). |
| `LeaderIngest` | `LeaderIngestProofs`: `RowsAreMinutes`, `LatestShown` | `MetricsInv`: the bucket holds all that was heard in its minute, the latest with a heartbeat, and the buckets on their way to the table are of earlier ones (`Accounted`). `ReportInv`: what is live is of the last report, and so are the rows once it was written. |
| | `LiveGapless`, `NeverPanics` | `LiveInv`. The lines still to fan out are the last ones inserted (`FanInv`); subscribed are the live viewers, and nobody closes a channel that `fanout` may have copied (`SubsInv`); what waits in the channel of a viewer that keeps pace continues what it was shown, up to the last line fanned out (`PaceInv`). |
| `PtyOutput` | `LeaderIngestProofs`: `Gapless` | `HoldsChunk`: `deliver` is about to send only a chunk that exists. |
| `AgentMonitor` | `AgentMonitorProofs`: `CrashLoopsAreReal` | `CrashInv`: the restarts on record, with those the next sample will record, are no more than took place while the agent knew the container. |
| | `LiveTailListed`, `LinesInOrder` | `LinesInv`, in `AgentStreamProofs`. A live tail is the one its container's entry names (`MapInv`); the seconds of the lines of a buffer never decrease, up to what its tail has read (`LineInv`); of two tails of a container the earlier is cancelled, and the later one reads behind it (`OrderInv`); what `flush` may still ship is of no earlier second than what was shipped (`SentInv`). |
| `Terminal` | `TerminalProofs`: `ShellsAreClosed` | `TermInv`. A `PtyOpen` is in one place at most: on the stream, with a receive loop, or answered (`OnceInv`), and stays on the stream it was sent on (`RouteInv`). A session that was handed out and is in the table belongs to the latest stream, and once its handler has gone its `PtyClose` is under way (`HandedInv`). Every container is that of a session in the table or on its way in or out (`OwnedInv`). |
| `WebAnalytics` | `WebAnalyticsProofs`: `TypeInvariant`, `ViewsAccounted`, `HashedOnce` | `EmptyHanded` (a flush holds nothing outside its write) makes `Accounted` inductive. `VisitorOnce` needs `SaltInv`: the hashes of a day share one salt (`OneSalt`), and a salt of the running day is saved, or no hash made with it reaches the table before it (`SaltSaved`). |

A proof module may hold several components that share no state; their specifications
are told apart by the prefix of `Spec`, `Init` and `Next` (`EngineSpec`,
`DeliverySpec`, `SchedulerSpec`, `OutputSpec`).

The assumptions are types of the constants, capacities and limits that are not zero,
a non-empty set of plans, a `None` that is no stream and no bucket, valid and invalid
schedules that differ, files that are not directories, sources a request can name,
ages that reach beyond the numbers they are compared with, and restarts that are kept
for at least the window they are counted in.

Model-checked only:

- every liveness property (`PlanReleased`, `RunSettles`, `Converges`, `StatusHeals`,
  `AlertFollows`, `Forgotten`, `DeadEnds`, `ContainerEnds`, `HandlersLeave`, `Answered`,
  `NothingLeaks`, `StopReturns`), since fairness and `ENABLED` are beyond TLAPS;
- the functions (`KeyTemplate`, `CronTable`, `HostFiles`, `AccessLine`, `HostSample`),
  since induction over sequences is;
- `AppliedIsRunning`, `AckedWriteStands` and `ReadOnlyHolds` of `HostCommands`.

## What the models showed

No run expects a violation. Properties carry an exception, or stop short of a
comment in the code, where the code does less than one would like.

Streams and terminals
- `Register` returns the superseded stream "so the caller can close its stream"
  (`grpc_server.go:76`), and the caller only logs. A heartbeat of that stream after the
  newer one unregistered brings live state back for a node that is gone;
  `OfflineIsClean` speaks of nodes that were never superseded.
- `CleanupNodes` calls itself "non-destructive for live nodes"; a node that connects
  between its read of the registry and its transaction loses its row.
- "Clean stream end → reset backoff" (`grpc_client.go:73`) is never reached: a stream
  ends with an error, and the backoff only grows.
- A terminal's subscriber "is killed rather than fed a corrupted stream"
  (`pty_hub.go:14`). `Serve` may take chunks behind the hole before its `select` sees
  `dead`; `GaplessUntilDead` ends there.
- "Whatever ends the session, the agent has to hear about it" (`handlers_terminal.go:120`).
  A `PtyOpen` answered after the timeout leaves a shell no `PtyClose` is sent for; it
  ends with its cap or its stream.
- `ptyManager.Write` holds `writeMu` while the write to the shell blocks. The receive
  loop, `PtyClose`, the one-hour cap and `CloseAll`, hence the next connection, wait for
  a shell that does not read: the exception in `ContainerEnds`.

Backups
- `ReconcileStaleRuns` runs beside the HTTP server: it may fail a run that executes,
  whose row `DeleteRun` then accepts for deletion.
- Two concurrent `Refresh` calls may apply an older snapshot last; the next tick
  repairs it, which is why `Converges` is a liveness property.
- A file that vanishes is skipped when it is opened, because "That is not a reason to
  abandon the whole node" (`backup.go:310`), and fails the run when `filepath.Walk` finds
  it missing first (`:269`). An upload has no timeout of its own, so a stalled one holds
  the receive loop. `CancelBackup` could not overtake a running backup on the serial
  receive loop, and the leader never sends it. `pruneRetention` deletes nothing.
- `s3KeySafe` leaves two dashes where a literal dash precedes an unsafe character; its
  comment says that runs collapse. Host names that are equal once safe share a key.

Hosts
- A command whose request timed out still runs, in its turn. After a broken stream a
  slow write may finish beside the next loop, through the same `.bpm-tmp`, and undo a
  write acknowledged later: the exception in `AckedWriteStands` (`oldWrote`).
- A client that leaves during `findManagedRoot` cuts the list of roots short, and the
  command is still sent: the exception in `ReadOnlyHolds`. A row `/` in `node_paths`
  governs no path below it. The check looks at the path a request names, so renaming or
  deleting a parent of a read-only root is not refused.
- A leader that goes down between storing a cron job and pushing it leaves table and
  host apart until the next push. So do `Update` and `Delete` when they cannot read the
  job's node: they ignore the error (`handlers_cron.go:148`, `:160`), push nothing and
  answer "applied": the first exception in `AppliedIsRunning` (`blind`).
- A receive loop left over from a broken stream may hold a push of cron jobs, wait for
  the mutex of `cronManager`, and write it over a newer one: the second exception
  (`leftover`).
- `AgentConn.Request` sends before it looks at its context (`agent_request.go:38`). When
  the agent does not read its stream, flow control blocks `Send`, with `applyMu` held by
  a cron handler, and no deadline of the request ends that.

Monitoring
- A tail that opens a log again asks for it since the present second, for `Logs` sends
  `since.Unix()`: the lines of that second are shipped again. `ShippedInOrder` allows
  that repetition and no older line.
- A log tail whose `Inspect` fails, or which `Sync` starts after `stopAll`, leaves an entry
  in `streams` without a tail. `recordRestarts` dates all restarts since the last sample
  "now".
- An empty container report keeps the old rows. A node's last minute is written when it
  reports again. A minute that a restart splits is averaged over its second part.
  `pruneOne` keeps one line more than the limit. A live viewer may see a gap or a
  duplicate between tail and subscription; `LiveIsGapless` begins with the subscription.
- The log lines of a node that has connected and not yet sent a container report have no
  known image, and web analytics passes them over.
- A client that leaves before the hub took its registration may be unregistered first;
  its channel then stays in the map. After `Hub.Run` returned, unregistering blocks once
  the channel is full: the exception in `HandlersLeave`.
- `webhookURL` may store the URL it read before an edit after the edit dropped the cache,
  for good: the exception in `CacheIsCurrent` (`raced`). A URL shorter than 16 characters
  is masked to bullets that `isMaskedURL` does not recognise, so saving the form replaces
  it ("If URL is empty or masked-shape, keep the existing one", `handlers_monitoring.go:646`).
- `isRealBlockDevice` sums "top-level disks only", and takes `mmcblk0p1` and `md0` for
  such; `DiskCountsOnce` speaks of the families the code names. The CPU share assumes
  that idle and iowait never go back. An empty `/proc/stat` reads as zero totals without
  an error. `cros` is a part of "microsoft", so a client on macOS that says so counts as
  ChromeOS.

Web analytics
- `Load` picks up the salt "so returning visitors are not counted twice on the same day"
  (`analytics_store.go:102`). `Flush` clears `saltDirty` before it writes; when the write
  fails, no later flush saves the salt, and a restart makes a new one (`lost`).
- A `record` call that midnight and the rollover overtake adds a hash to a finished day,
  whose visitors are then counted again from the hashes that are left (`late`).

## What the models leave out

- Payloads, messages, formatting and file modes. Docker, S3, SQLite and the kernel are
  external: a statement is atomic, and a removal that Docker is asked for succeeds.
- In `BackupRunner` the terminal UPDATE, on a context that has not expired, succeeds: the
  code only logs its error (`runner.go:463`), and such a row stays open until the next
  start. `NoOrphanRun` and `RunSettles` rest on this; `PlanReleased` and `RunSettles` rest
  on a `Send` that returns.
- In `AgentBackup` a source is a directory of files and links: directories below it and
  a source that is a single file go through the same callback. A `torn` dump is one whose
  schema does not restore, which is all that `pg_restore --schema-only` can tell; a dump
  with damaged rows counts as a dump.
- In `LeaderIngest`, `CleanupNodes` is one step and the rows of a report are one
  transaction whose single statements may fail; `AgentRegistry` has the steps of the
  former. The finished bucket of a minute is a value of its own, so a bucket shared with
  the next minute cannot be expressed. `AgentMonitor` has no `lc.mu` and no `sendMu`:
  `StopReturns` is about the contexts, channels and requests a goroutine waits on.
- `Persist` after a heartbeat writes a history that only queries read.
- A rule's numbers are constants and its comparator is `>`. A target that vanishes while
  its alert is triggered is not evaluated again, and `overSince` still counts when it
  returns: `AlertFollows` speaks of targets that stay visible, and `NoEarlyAlarm` of
  evaluations that happened.
- In `WebAnalytics`, hourly and breakdown rows and retention. `AccessLine` has no URL or
  JSON parser: a referrer is blank, no URL, or a URL with a host.

## Not modelled

- Accounts, sessions, second factors, rate limits, the authentication of agents and
  requests, audit rows: what their concurrency raises are questions of security, which
  this project does not treat.
- Password hashing, TLS set-up, configuration, migrations, routing, the embedded frontend:
  straight-line code or library calls.
- S3 settings and browsing, swarm topology, service updates and the queries behind the
  listings and charts: each is one request to an external service or one read of a table.
- `cronctl/manager.go`, `ListCron`, `DisableLogs` and `EnableLogs` as commands: nothing sends or
  uses them. The agent's handlers for the log switches are in `AgentMonitor`.
- The frontend and generated code.
