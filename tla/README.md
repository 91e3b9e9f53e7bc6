# Verification of toolset-api

TLA+ models, TLC runs and TLAPS proofs for the parts of toolset-api whose
behaviour depends on order: the gateway process with its limiter, registry and
proxies, its asynchronous execution queue, the path of a run to its sandbox, the
browser service and the file service. Every definition is translated from the
source; `PROJECT.json` maps definitions to lines.

## 1. The system

toolset-api is a gateway (Go) in front of tool services. It authenticates a
request, proxies it to a service, or puts code into a queue it drains itself.

| Part | State | Operations | Interacts with |
| --- | --- | --- | --- |
| Async job queue (`executor/queue.go`) | tables `job_queue`, `executions` | Submit, Get, Cancel, ClaimNext, Complete | exec handlers, workers, SQLite |
| Worker pool (`queue/worker.go`) | goroutines, one job each | Start, Stop, processOne | queue, exec client |
| Exec client, handlers (`executor/executor.go`, `handlers/exec.go`) | none | Execute, ExecSync, ExecAsync, ExecStatus, ExecCancel | sandboxes, queue |
| Code sandboxes (`tools/exec-*/executor-server.go`) | none between requests | handleExec, executeCode | exec client |
| Gateway process (`main.go`) | up, draining, stopping, down | run, pickAddr, shutdown | all |
| Database (`db/db.go`, `gateway/migrations/`) | SQLite file, WAL, `busy_timeout` 5 s | Open, Migrate | queue, registry, auth |
| Browser service (`tools/browser/browser-server.js`) | sessions map, browser pool, idle timers | create, get, delete, action, SIGTERM | browser proxy |
| Browser, files, search proxies (`handlers/`) | none | forward with a time limit | services |
| MCP handlers (`handlers/mcp.go`) | none | initialize, tools/list, tools/call | the proxies, exec client |
| File service (`tools/files/file-server.go`) | the workspace directory | read, write, list, delete, move | files proxy |
| Auth and limits (`auth/`) | key table, per-client windows | Middleware, RequireTool, Allow | every request |
| Registry (`registry/`) | `tools` table and a cache | Register, RegisterDefaults, List, GetByName | start-up, handlers |
| Config, CLI, SDKs, images | - | - | - |

What is hard in each, and what makes it correct:

* **Queue and workers.** Each operation is a SQLite transaction of several
  statements; POST, DELETE and several workers run at once, the process stops
  in the middle and another opens the same file. Correct means: code runs at
  most once and oldest first, the two rows of a job agree, a result stays, an
  answer stays true, a job settles.
* **Browser service.** JavaScript between awaits is atomic and nothing else is:
  the cap, the pool, the map and the timers are read before an await and used
  after it; Playwright's newContext, newPage, evaluate and context.close may throw,
  and have no time limit. Correct means: what the map holds can be used, and its
  close will begin; no context is forgotten unless an operation threw; a deleted
  id never comes back.
* **Sandboxes and the exec path.** Four time limits in a row (caller, HTTP
  client 310 s, sandbox 300 s, MCP 30 s), and a request that is copied through
  two tables. A deadline kills the process that was started and not its
  children, and nothing tells the sandbox of a cancel or a lost connection. Correct
  means: every path grants the same budget, the processes started keep to it, a
  record of success is one.
* **Files.** Requests run at once on one directory without a lock; a check is
  apart from the call it guards, a write is truncate then fill, a move creates
  directories first, a walk and a delete take an entry at a time, the disk fills
  up and the service stops in the middle. Correct means: what is answered was
  true while the request ran, an answered write is whole, nothing is lost that
  nobody removed, and a mixture of two contents needs two requests that overlapped.
* **Auth and limits.** A fixed one-minute window per client, in memory. Correct
  means: not more than twice the limit in any minute, and a refusal only for
  whoever used the limit up.
* **Registry.** A table that outlives the process and a cache that does not,
  written one after the other; a lookup that fails looks like a missing tool.
  Correct means: ids other rows refer to stay, a tool has one row.
* **Gateway and proxies.** A start of several steps that fails at each, a port
  probed before it is bound, services that hang, refuse or die after they have
  acted, a client library that sends a GET twice, an orderly stop with a limit.
  A handler waits for its caller's body without a limit. Correct means: every
  request ends unless its own caller withholds the body, an answer claims no more
  than is known, the gateway comes back.

`PROJECT.json` lists the hazards at their lines.

## 2. Modules

| Module | What it is |
| --- | --- |
| `JobLifecycle` | What the queue promises: a job is stored once, taken oldest first and at most once, and ends. No transactions, no processes. |
| `JobQueue` | The queue as written: handlers, workers, SQLite, the process. |
| `MCJobQueue` | Symmetry for its runs. |
| `JobQueueProofs` | Its theorems, and that it implements `JobLifecycle`. |
| `ExecPath` | One run of code from the caller to the sandbox and back, with its three clocks. |
| `ExecPathProofs` | Its theorems. |
| `SessionLifecycle` | What the browser service promises: a session is listed once, with an open context; once somebody closes it, it is not handed back, and it leaves for good. Its context may outlive it. |
| `BrowserServer` | The browser service, one action per stretch between awaits. |
| `MCBrowserServer` | Symmetry for its runs. |
| `BrowserServerProofs` | Its theorems, and that it implements `SessionLifecycle`. |
| `FileServer` | The file service, one action per file system call. |
| `MCFileServer` | The requests of its run. |
| `FileServerProofs` | The theorems about file contents. |
| `FileTreeProofs` | Lemmas about directories and paths. |
| `FilePathProofs` | The theorems about what is linked where, listed and answered. |
| `RateLimiter` | The limiter. |
| `RateLimiterProofs` | Its theorems. |
| `Registry` | The tools table and the cache. |
| `Gateway` | The process, with `RateLimiter` and `Registry` as its parts: start, requests through middleware and proxies, stop, crash. |
| `MCGateway` | The configurations, keys and requests of its run. |
| `GatewayProofs` | Its theorems, from those of its parts. |

### JobQueue

*State.* `status`, `exec` and `started` are the columns `job_queue.status`,
`executions.status` and `job_queue.started_at`; `created` is the time `Submit`
read, which becomes `created_at` with the row. `sub`, `can` and `wk` say where
each POST, DELETE and worker is; `told`, `target`, `job` and `outcome` are their
locals. `writer` is the holder of SQLite's write lock, `fresh` the readers whose
snapshot is still the latest. `gw` is the process. `ran` is a history variable.

*SQLite.* WAL mode with deferred `BEGIN`: `Cancel` and `ClaimNext` read first,
so their first update succeeds only with the lock free and no commit since the
read, and fails at once otherwise (`CancelFail`, `ClaimFails`); the busy handler
does not apply to a transaction that already reads. `Submit` and `Complete`
write first and wait for the lock, up to five seconds (`SubmitFail`,
`CompleteFails`). The same actions stand for any other error of a statement or of
the commit, before the lock or after. Uncommitted writes are invisible, so the statements of one
transaction are one action, its commit, after the action that takes the lock.

*Actions.* `SubmitStamp`, `SubmitLock`, `SubmitCommit`, `SubmitAnswer`,
`SubmitFail` are `Queue.Submit`; `CancelMissing`, `CancelRefused`,
`CancelRead`, `CancelLock`, `CancelCommit`, `CancelFail` are `Queue.Cancel`;
`ClaimSelect`, `ClaimLock`, `ClaimCommit`, `ClaimFails` are `ClaimNext`;
`Execute...` and `Complete...` the rest of `processOne`; `PollEmpty` the tick
that finds nothing. `Shutdown`, `ServerError`, `StopWorkers`, `WorkerExit`,
`Exit`, `Crash` and `Restart` are `main.run`. `Worker.Stop` cancels the context
of every worker, so `WorkerExit` leaves from any phase with a rollback. Restart
opens the tables as they are.

*Left out.* The code, the output and the limits of a job; `Get`, which changes
nothing; the `position` column, written once at submit and read only by `Get`;
columns with times nothing decides on. The wall clock may stand still or step
back between two submits.

### ExecPath

*State.* `request` is what the caller asked for and `row` what the queue stored
of it; `front`, `waited`, `answer` and `job` are the gateway's side, `wire` the
request under way, `box`, `alive`, `got`, `age`, `deadline` and `reply` the
sandbox's: `box` says which command the handler waits for, `alive` whether the
process it started for it still runs. `enabled` is the configuration. `exited`,
`arrived` and `lost` are history: the program ran to its end, how long the gateway
had waited when the request arrived, the connection broke. Sandboxes share
no state between requests, so one request at a time is the general case, and
`Return` makes room for the next. JobQueue has the competition of jobs.

*Actions.* `AskNow` is `ExecSync` and `mcpExecuteExec`, `AskLater` is `ExecAsync`
with what `Submit` stores, `WorkerCalls` what `ClaimNext` rebuilds and sends;
`Execute` is `Client.Execute` up to the request, `ReplyArrives`, `GiveUp`,
`ConnectionLost` and `CallerLeaves` are the ways it ends, each with the status
`Complete` gives the job; `Cancel` is `Queue.Cancel` on the job, which changes its
record and nothing else. `BoxReceives` is `handleExec` and `executeCode` up to the
first command; `CompileEnds` and `RunEnds` are commands that end in time.
`exec.CommandContext` kills only the process it started (`DeadlineKills`), which may
also end and leave a child behind (`LeavesChildren`); `cmd.Run` waits for whoever
holds the output, and only then reports the timeout (`TimesOut`), if ever.
`BoxCrashes` is the container, which takes children along; a connection that is
lost leaves it at work. `Tick` stops at a limit that is due, and `age` stops counting
past the deadline.

*Left out.* stdin, env, output, exit codes and resource limits; nsjail's own time limit,
which starts after the context's deadline with the same length; tools/call
answers every error with 400, where `ExecSync` tells them apart.

### BrowserServer

*State.* `sessions` is the map, `pool` the browser pool, `ctx` and `timer` the
context and idle timer of each session, `cre`, `del` and `use` where each
request is, `expiring` the closes an idle timer began, `term`, `visiting` and
`doomed` the handler of SIGTERM. `threw` is history: the sessions whose
`context.close` threw. A create names its session and the browser it
launches, if it launches one.

*Actions.* `CreateLaunch`/`CreateReuse` run from the cap check to the first
await, `LaunchDone`, `ContextOpened` and `PageOpened` from one await to the
next; `closeSession` is `BeginClose` (timer cleared, entry kept) and `EndClose`
(`context.close` has returned, or it threw and that was logged; the entry is
deleted), used by `DELETE`, the timer and SIGTERM. The context goes in its own time
while somebody closes it (`ContextCloses`); a close that overlaps another may return
before it has. `UseFound` looks the session up before the body is read and
`UseRuns` refreshes its timer after. `TermFails` is an error of `browser.close`, which
nobody catches. `BrowserCrash` is the environment. Each step after an await may never
come. What an action does to its page is one step; metadata (`url`, `title`) is left out.

### FileServer

*State.* `tree` is the directory, a set of links `<<directory, name, node>>`, and
`data` the content of each file, a sequence of blocks named after their author.
`at`, `body` and `answer` are each request's handler, `held`, `got`, `found` and
`todo` its locals: the open file, what a read and a list have collected, the
paths a walk or a delete has before it. `life` is the process. `saw`, `last`,
`met` and `under` are history: what was true of its paths during a request, who
truncated a file last, who had a file open together, which directories a delete has
had at or below its path.

*Actions.* The checks and the first call of each handler are `ReadStat`,
`WriteMkdir`, `ListStat`, `DeleteStat`, `MoveStat`, with `Refusal` for what is
refused before (path rules, sizes, the cut of the body reader, which counts the
JSON of the body: a byte of content takes one to six bytes of it, `CutShort`).
Then `ReadOpen` and `ReadBlock`; `WriteOpen` (create and truncate), `WriteFill`, and
`WriteShort` on a full disk; `ListReadDir`, and `WalkStart`, `WalkVisit`, `WalkEnd` for
`filepath.Walk`; `DeleteRemove`, `DeleteEntry`, `DeleteDir` for `os.RemoveAll`;
`MoveMkdir`, `MoveRename`. `RemoveAll` takes entries in any order, a choice of
`DeleteEntry`. `Stop`, `StopCleanly`, `Die` and `Restart` are `main`.
A file is reached by its name when it is opened and by its handle after, so a
write goes on filling a file that was moved or unlinked in the meantime.

*Left out.* `MkdirAll` is one step and reads a directory at once; permission
errors; symbolic links, which nothing in the service makes; modes, times and sizes
in listings. A path is split into names, `.`, a leading `/` and segments with
`..` in them, the distinctions `cleanRel` makes; doubled separators inside a path,
which it drops, are not spelled out. `.` resolves to the sandbox itself, which a
delete may remove and a start makes again; a write or a move cannot create it,
since `resolveForCreate` looks at the parent, which is outside.
`saw` records what is below a path among the paths of at most `Depth` names, which
are those `ListsAreRegular` is about.

### RateLimiter, Registry, Gateway

*RateLimiter.* `windows` is the limiter's map; `log` is history. `Allow` is one
step because of the mutex. The map is lost with the process (`Forget`).

*Registry.* `table` and `cache`; `missed` is history. `RegisterFound`,
`RegisterNew` and `RegisterMissed` are one round of `RegisterDefaults`: the tool is
known, it is not, its lookup failed. The table is written before the cache, in
one round of the start, before anything else uses either.

*Gateway.* `phase`, `tool`, `addr` and `execTool` are `run` and its locals, `config`
what `config.Load` read. `at`, `ask`, `grant` and `answer` are each request, `wire`
its copy on the way to a service, `effects` how often the service did it
(history). `service`, `taken` and `keyrow` belong to the environment: services that
are up or down, the ports other processes have, the rows of `api_keys`.

*Actions.* `Start`, `OpenDatabase`, `RegisterDefault`, `RegisterAborts`, `Wire`,
`PickAddr`, `Listen` are the start of `run`; `Shutdown`, `Drained`, `DrainTimeout`,
`Crash` its end. `Authenticate`, `LookupFails`, `Expire` and `Throttle` are the
middleware; `RefuseTool`, `ReadHere`, `ReadHealth` answer at once. `AwaitBody` is the
handler up to the wait for its caller's body, which `RefuseBody`, `Echo`
(`resources/read`) or `Forward` ends. `Forward` sends, and `Relay`, `Report`, `GiveUp` end
the wait with the error mapping of each handler, `Resend` being `net/http`'s retry of
a GET. Files and browser pass on the status of the service (`Verbatim`), a refusal
like its 404, 413 or 429 as well as a failure; a search is 502 unless the service's 200
can be parsed, and `tools/call` 400 (`Relayed`). On the wire a request is `denied` when
the service refuses it untouched, and `failed` when it breaks off, having done it or
not. The step from the limiter to the body shares nothing, and is one action
(`Admit`). `RequireTool` (`MayUse`) guards the routes of the tools and not `POST
/tools/call`. A key whose `expires_at` is NULL does not expire.

*Left out.* Headers, and what is in a body: `body` says whether it ever arrives, and any may
be refused. Keys are issued
before the first request; another process takes one port at a time. Runs of
code are one more forwarded call and are in `ExecPath` and `JobQueue`, with
which `Gateway` shares the events of the process: its `Shutdown`, `Crash` and
`Start` are those of `JobQueue`, and `execTool` is the id every job refers to.

## 3. Runs

| Run | Instance | Shows |
| --- | --- | --- |
| `queue_safety` | 2 jobs, 2 workers, 1 cancel, 1 stop, 1 lost result | types; rows agree; at most once; exclusive owners; answers hold; orphans bounded; results final; a cancel before the start wins; the queue implements `JobLifecycle`, oldest job first included |
| `queue_live` | 2 jobs, 2 workers, no cancel, 1 crash | every job settles, by a later process if need be, though claims fail |
| `queue_terminal` | 1 job, worker, cancel | violated: a cancelled job becomes completed |
| `queue_stop` | 1 job, 1 stop | violated: a stop leaves a job running for ever |
| `queue_position` | 1 job | violated: a position of 0 is answered |
| `exec` | every language, 3 routes, timeouts 0, 1, 3, 9 at a default of 2 and a cap of 4 | types; one budget for what is started; no false success; ended jobs quiet; same budget on every route; disabled tiers idle; tables agree; every call and every process ends |
| `browser` | 2 creates, cap 1, a delete, an action, 1 crash of a browser | types; entries usable; entries expire; contexts accounted for; a deleted id is gone; every session begins to be closed; the service implements `SessionLifecycle` |
| `browser_cap` | 2 creates, cap 1 | violated: the cap |
| `browser_single` | 2 creates | violated: one browser per type |
| `files` | 3 requests of 18 kinds, two names, blocks of 1 to 3 at a maximum of 2, an empty sandbox or one file, one fault (full disk, stop or crash) | types; mixtures need an overlap; answered writes stay; answers were true; listings regular; an entry leaves only by the delete or the move that is about it |
| `gateway` | 3 requests, 2 keys with a limit of 1 that expire at 0 or never, one default tool, 3 configurations, 2 ports, 1 fault | types; the limiter's bound; refusals earned; answers tell the work; references hold; one row per name; every request ends; the gateway comes back |
| `gateway_scopes` | as `gateway` | violated: a key limited to a tool opens its route |

*Bounds.* Two workers and one more writer are what a race for a row takes: one
to select, one to overtake it, and a third to commit in between, which the
second job's submit or the cancel does. Two jobs make order matter: they may be
stamped in either order, with one time, and commit in the other order. One stop or
crash makes every phase of every actor a place to be interrupted; the second
would start from states the first already leaves. With two creates at a cap of
one, both can pass the check, and both can launch. The safety properties of the
queue are also proved for all sizes (below), which is why its run is small.

The times of `exec` keep the order of the real ones, in units: default 2 (30 s) =
MCP limit, cap 4 (300 s) = limit of POST /exec, client 6 (310 s), so a delay of 1
fits between cap and client, one of 2 does not, and a timeout of 9 is beyond
everything. Nothing is assumed of the network: a request may be on its way for as
long as somebody waits, and longer. `EndedJobIsQuiet` therefore allows a failed job
with a running program where the connection was lost or the request arrived less
than the cap before the client's limit, and nowhere else.

In `files` three requests are what a lost update or a changed listing takes: two
that race and one that looks or interferes again. Each request may be any of a
handful of bodies chosen to meet on a file `a/b` and its directory `a`: two writers
and a reader of one file, a move onto, out of and over it, a delete of the
directory, of the file and of the sandbox. With two names and a depth of three every
collision of a file with a directory occurs. A maximum of two blocks is the
least at which a write can be cut short after it began.

In `gateway` a limit of 1 and a window of one tick make every request a boundary
of the limiter, whose bounds are also proved for all sizes. One fault covers each
single failure: a failed open, lookup or insert, a service going down, a key
revoked, a port taken, a stop or a crash. Only a key that somebody has is issued. A
run may start on a new database or on
one with rows, so that restarts are covered without a second fault. The
configurations are a valid one with tokens, one without whose port comes from the
environment, and an invalid one. One default tool stands for the list: rounds of
`RegisterDefaults` do not read each other's rows.

*Fairness.* Only what the code, the Go runtime or the container runtime makes
certain is fair.

* Queue: goroutines that can run do (`WF` per actor); a statement that waits for the
  lock gets it or gives up; a run ends because the HTTP client gives up on a
  sandbox after 310 seconds (`executor.go:32-41`). A claim may fail on an error of the
  database and is tried again at the next poll, so claims have strong fairness:
  errors do not meet every one of them. A supervisor restarts the process
  (`SupervisedSpec`; `docker-compose.yml` has a restart policy).
* Exec path: a worker calls, a reply that is there is read or the caller's limit
  passes, the deadline kills, time passes. A program, a child that holds its output and
  a request on its way need never end.
* Browser service: a timer that stays set fires, and nothing else is sure. No Playwright
  operation has a time limit in `browser-server.js`, so a page may hang and a close
  may never return, and a session whose close hangs stays in the map; what is
  shown is that its close begins (`EverySessionExpires`).
* Gateway: the start and the end of the process; each handler except where it waits for
  its caller's body (`Proceed`, `NoBody`), since a call to a service ends by an answer, an error
  or the handler's own time limit (`search.go`, `filesTimeout`, `browserTimeout`, 30 s of
  `tools/call`). The server sets no `ReadTimeout` (`main.go:178-182`) and the handlers
  read the body before their limit begins (`files.go:39`, `browser.go:72`, `mcp.go:55`), so a
  body that is to come need never arrive.

Services need not answer. Clients, SIGTERM, crashes, errors and lost results are not
fair.

*Deadlock* is checked in the runs of the queue, the exec path and the browser
service: an idle worker's empty poll is a step, and so is the end of the browser
service's process. `files` and the runs of the gateway may stop: when every request is
done, no fault is left and the clock is at its bound, or with an invalid
configuration.

*Faulty variants.* Definitions named `...Faulty` (and `EndCloseKeepsEntry`) are
plausible mistakes, each in place of the definition after it; no action uses
them. With one put in place the property it is listed with in `PROJECT.json`
fails, which shows that the property depends on the code.

## 4. What the runs found

* **A cancelled job does not stay cancelled.** `Complete` overwrites both rows
  unconditionally (`queue.go:252-264`), although `Cancel` counts cancelled as
  terminal and a second DELETE answers 409. A cancel that commits before the
  claim does is safe (`CancelledBeforeStart`).
* **Stop does not finish the job in flight.** `Worker.Stop` cancels the context
  the call and the write of the result depend on; the row stays running, and no
  code looks at running rows again. `BoundedOrphans` says how many there can be.
* **Position 0.** `positionOf` runs after the commit.
* **The session cap and the browser pool** are checked before an await and
  updated after it, so overlapping creates exceed the cap and launch two
  browsers of a type, the first of which the pool forgets.
* The model allows, and no run is about it: the deadline kills one process, and a child
  that holds the output keeps `cmd.Run`, and so the request, waiting for ever
  (`executor-server.go:229-234`, `253-271`), though `187-188` speaks of a deadline for the
  request; the processes that are started do keep to one budget (`OneBudget`). A cancel
  of a running job rewrites two rows and stops nothing: the worker still sends the code
  and the sandbox still starts it (`queue.go:167-180`, where `API_REFERENCE.md:103` says
  "cancel a queued/running job").
* Seen while modelling: `Submit` stores neither stdin nor env (`queue.go:60-70`), though the
  OpenAPI document gives `/exec/async` the body of `/exec` (`openapi.go:181-184`), so an
  asynchronous run gets none. The model leaves both out.
* Seen while modelling, without a run: `exec.max_timeout` and
  `exec.default_timeout` of the configuration are read by no code, so the bound
  `docs/API_REFERENCE.md:87` names is the sandbox's own 300 s; `tools/call` waits
  30 s for code whose default is 30 s, and POST /exec 300 s for a cap of 300 s,
  so a run that uses its whole budget is reported as an upstream error; a job
  for a disabled tier is accepted with 202 and fails at its claim.
* Seen while modelling, without a run: a `context.close` that throws is logged and its
  entry deleted, so the context is open with nobody to close it
  (`browser-server.js:118-124`); one that hangs leaves the entry, with no timer, for
  ever; SIGTERM closes sessions, then browsers, and the listener last, so a create that
  ends after the walk stores a session that is open when the process exits, where
  `browser-server.js:377` says all are closed; DELETE of an unknown id answers 204,
  where `docs/BROWSER_API.md:161` says 404; a
  browser that dies stays in the pool, and creates of its type fail from then on.
* Seen while modelling, without a run: `os.RemoveAll` works with directory handles, so
  a delete goes on in a directory that a move took out from under it, and removes
  what the move answered 201 for.
* **Twice the limit.** The limiter's windows are fixed, so a minute that straddles
  two of them may let through twice the limit, and never more (`RateBound`).
* **A lookup that fails duplicates a tool.** `RegisterDefaults` treats any error of
  `GetByName` as a missing tool (`registry.go:197`), and `tools.name` is not unique:
  that start then leaves two rows. `OneRowPerName` says that nothing else does it.
* **A key limited to a tool does not open it**: `RequireTool` compares the key's
  `tool_id`, a reference to `tools(id)`, which is generated, with the route's name
  (`auth.go:143-158`, `ScopedKeysOpenTheirTool`); the unit test uses a name for both. `POST
  /tools/call` (`main.go:139,168`) has no `RequireTool`, so the same key reaches every tool
  there, which the runs of the gateway include.
* Seen while modelling, without a run: a caller that stops sending its body holds its
  handler and its connection for ever, since nothing limits the read.
* Seen while modelling, without a run: the move body is `from` and `to`, where
  `docs/API_REFERENCE.md:74` says `path` and `destination`; a write over the size limit is
  cut by the body reader first (`file-server.go:422`), so most get 400 where
  `ARCHITECTURE.md:142` promises 413; every tool error of MCP is `CodeInvalidParams` with
  400, where `MCP_SPEC.md:128-129` tells codes apart; the 500 of `auth.go:113-117` is
  dead, since any error of a lookup is answered 401; `TOOLSET_FALLBACK_PORT`
  (`SETUP.md:393`) is read by no code, nor are the API tokens of the configuration;
  the container's health check probes `TOOLSET_PORT` or 8080, not the port
  that was picked; `ProbeToolHealth` and `Registry.Get` have no callers, so a tool's
  status is that of the last start.

## 5. Proofs

`JobQueueProofs` proves, for any finite sets of jobs, workers and cancels and
any number of faults, from `ProcessesAssumption` (the sets are finite and
disjoint) and `BoundsAssumption`:

`TypeCorrect`, `RunsAtMostOnce`, `RowsAlwaysAgree`, `OwnershipIsExclusive`,
`AnswersAlwaysHold`, `StartsOldestFirst`, `ResultsAreFinal`, `EarlyCancelWins`,
`OrphansAreBounded`, and `Refinement`: the queue implements `JobLifecycle`.

None of these properties is inductive: `AtMostOnce` alone does not say why a
second worker cannot claim a job. `IInv` adds what the lock and the snapshots
are for. `LockInv`: whoever is about to commit holds the write lock, so commits
exclude each other. `ClaimInv` and `CancelInv`: what a transaction read is still
so while its snapshot is the latest or it holds the lock; this is where the
freshness test of SQLite enters. `SubmitInv`: rows exist exactly from the commit
on. `RowInv` and `OwnInv`: the columns of a job agree with each other and with
the one worker that has it. The proof has one lemma per group of actions and one
step per conjunct; `ClaimCommit` needs `ClaimInv` to see that its row is pending
and therefore unowned, `CompleteCommit` needs `OwnInv`.

`BoundedOrphans` counts, and a stop enters its bound before the workers leave.
`OrphanInv` therefore adds to the jobs nobody has, while the gateway stops, the
workers that have not left: each `WorkerExit` trades one for the other. `Crash`
turns at most one job per worker into an orphan (the image of the workers under
`job`), `CompleteFails` one more with one lost write, and no other step makes any.

The mapping takes `status` as it is, the submission time of a job once it has a
row, and the jobs workers have in hand. A commit is the abstract step of the same
name; a stop, a crash or a lost result is `Abandon`; every other action is a
stutter. `IInv` is what makes a commit's abstract guard hold: that the claimed
row is pending and the oldest, that a completed job is the worker's own.

`ExecPathProofs` proves, for any languages and any times that satisfy
`TimesAssumption` and `LimitsAssumption`: `TypeCorrect`, `BudgetIsShared`,
`SuccessIsReal`, `EndedJobsAreQuiet`, `BudgetsAgree`, `DisabledTiersIdle`,
`TablesAgree`. `LimitsAssumption` says only that the default timeout is not above the
cap. The core of its `IInv` is `ClockInv`: a process is alive no longer than the
deadline, and while the gateway waits its clock is ahead of the sandbox's by at most
what it was when the request arrived. So a worker whose clock reaches the client's
limit has lost a race only if the request arrived late (`LateInv`, `GiveUpKeeps`). A
`completed` job needs no clock: its reply is the last thing the sandbox did
(`SuccessInv`, `JobInv`). `PlaceInv` says a request is in one place at a time and has the
budget of what was asked; `GrantedRow` that filling in a default twice is
filling it in once.

`BrowserServerProofs` proves `BrowserTypes`, `SessionsAreUsable`, `SessionsExpire`,
`ContextsAreAccounted` and `DeletesAreFinal`, for any requests, browser types, cap
and number of crashes, from `RequestsAssumption` and `LimitsAssumption`. Any number of
deletes, timers and SIGTERM may close one session at once. `Placed`: a session in
the map is stored, and only stored ones are closed. `ContextsAreAccounted` says where an
open context belongs, `threw` included, and is inductive with them: a close that
returns without an error leaves its context closed or in another close's hands.
`Launched`: what is pooled or in use was launched.

`SessionsRefine`: the service implements `SessionLifecycle`. A session of the map is
`listed`, or `closing` when somebody closes it; one that was stored and is there no
more is `gone`; contexts are mapped to themselves. The first close to begin is `Close`,
the first to return is `Leave`, `ContextCloses` is `CloseContext`, `PageOpened` is `List`, a
browser that ends, by itself or at SIGTERM, is `Lose`, and a close that finds the
entry gone is a stutter. A context may go after its entry, or never: that the two
leave together is not so, and not claimed. `Unopened` adds that a create that has not
reached `newContext` has no context yet, which is the guard of `Open`.

`FileServerProofs` proves `MixturesNeedOverlap` and `StoredWritesStay`, for any
requests, bodies and faults, from `NodesAssumption` and `BodiesAssumption`. They hold
whatever the directory looks like, so that no definition about paths is opened.
`Meets`: requests that have one file open have met. `Writer`: a write that is yet to
fill has met everyone who truncated or filled its file since; so if it met
nobody, it finds the file empty and leaves exactly its own content
(`Truncated`). `Reader` relates what a read has to what it may still find.
Every step is one of five kinds (a step off the files, two ways to open, a block, a
fill), each with its lemma, and `HandlerInv` sorts the actions into them.

`FilePathProofs` proves what depends on the directory: `FileTypes`, `NoFileIsLost`,
`NoAnswerIsStale` and `ListingsMissNothing`, for any names, seeds, requests, bodies and
depth.

* A path is resolved name by name, a recursive function. `NatSetInduction` states
  induction as a fact about a set of numbers, from the well-foundedness of `<`, and
  gives that the function exists (`TrailExists`), is unique (`TrailUnique`) and takes one
  step per name (`ResolveSteps`). From there `FileTreeProofs` says what each system
  call does to every path: `MakeDirsGrows` and `MakeDirsMakes` (only missing
  directories appear, and the path is one afterwards), `UnlinkKeeps`, `LinkFile`,
  `RenameMoves` (the target shows the moved node), and the same for `Clean`.
* `TreeInv`: a directory has one node per name and a file is no directory
  (`WellLinked`), nodes a request is yet to make are not linked (`Fresh`), and each
  handler is where its operation can be (`Placed`). Every step of the service
  satisfies `Keeps`: the directory a path ends in stays the same one unless the path
  leads nowhere before or after the step. That is what a handler may rely on
  between its system calls.
* `NoFileIsLost` accounts for each link a step takes out. `Distinct`: an entry of a
  directory is one link, so that what a call removes by its name is the link the
  property speaks of. `Swept`: the directories a delete still has to empty are below the one
  its path named (`WatchUnder`, `DeleteSwept`). `KeptNext` goes through the calls:
  `RemoveAll`'s first attempt removes its own path's entry, `DeleteEntry` a file of a
  directory under the delete, `DeleteDir` one with nothing in it; a rename removes its
  source, whose node its target has, and the file or the empty directory it
  replaces (`RenameLinks`).
* `NoAnswerIsStale`: `Answered` is one conjunction per request. `Watched`: the present
  is in the history. `Told`: what the handler found by its earlier calls is in the
  history, and a delete works below the directory its path leads through, unless
  the path was seen to be gone. `Framed`: the outermost thing a delete removes is
  what its path names. `Truth`: the property itself.
* `ListingsMissNothing`: `Walked` says of a path that was below the listed directory
  at every moment so far that it is found, or that the walk has it, or a directory
  above it, yet to visit (`VisitWalked`); and that everything found was there at some
  moment.

`RateLimiterProofs` proves `RateIsBounded` and `RefusalsEarned` for any keys, limits
above zero and length of a window. `Sorted`: a key's last `count` requests are those
of its current window, and the windows of the others are over. `Spaced`: requests
a limit apart are of windows that began a window apart, so of twice the limit
plus one, the first and the last are more than a window apart.

`GatewayProofs` has lemmas for each way to register a tool (`Numbered`: the rows'
ids are among the first that were made, so a new id is new) and composes the
parts. Each step of the gateway is a step of the limiter or
leaves it alone (`LimiterStep`), and keeps the registry's invariant and its rows
(`RegistryStep`): hence `GatewayRate`, `GatewayRefusals`, `GatewayRows`. `GatewayReferences`
follows because ids that keys and the process hold stay in the table.
`RequestInv` follows one request: where its handler is fixes what may be on the
wire and how often the service can have acted, and which statuses each end of the
wait has; hence `GatewayAnswers`: 401 and 403 are the gateway's own, while 404, 413 and
429 are its own or those of a service that refused, and in either case nothing was
done. `GatewayTypes` is its type invariant. The assumptions are those named in the
three modules.

Only model-checked: liveness (`EveryJobSettles`, `EverySessionExpires`, `EverythingEnds`,
`EveryRequestEnds`, `ComesBack`), which is out of the prover's reach.
All invariants and action properties of the passing runs are proved. That the
violated properties are violated is shown by TLC's counterexamples.

## 6. Plan

What would come next, in order:

1. `Migrate`: golang-migrate's version table and its dirty flag across a crash in
   the middle of a migration, which today is one step of the start that may fail.
2. A refinement of the file service: a store of named files, as far as a service
   without locks implements one, of which `MixturesNeedOverlap` is the exception.

## 7. Not modelled

The CLI, the SDKs, the OpenAPI generator, container images, nsjail settings and
SearXNG hold no state of the service. The text of the MCP catalog and of the
OpenAPI document is data. Of the configuration only what decides a start is
modelled; the rest is read where its component uses it. Resource limits inside a
sandbox are the kernel's. What golang-migrate does inside `Migrate` is a library's.
