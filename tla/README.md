# qnapexporter in TLA+

qnapexporter is a Go program that runs on a QNAP NAS. It serves Prometheus
metrics over HTTP, posts Grafana annotations for the NAS's notifications and for
Docker events, pings a healthcheck service, and shows a status page; a shell
script keeps it running. This directory models the parts of it in which the order
of events matters, checks them with TLC, and proves their safety with TLAPS.

## 1. Inventory

| component | source | state it keeps | operations | talks to |
|---|---|---|---|---|
| metrics endpoint | `main.go`, `prometheus.go` | `fetchMu`, environment (`hostname`, `syshdnum`, `enclosures`, `volumes`, ...), `envExpiry`, shared status; per call a wait group and a channel | `WriteMetrics`, `readEnvironment`, worker, closer, `Close` | one goroutine per request; 17 workers and a closer per scrape; external commands |
| UPS collector | `ups.go` | NUT connection, last error and its time, attempts, UPS list | `getUpsStatsMetricsWithRetry` | upsd over TCP; called by one worker per scrape |
| volumes | `volinfo.go` | `e.volumes`, `volumeLastFetch` | `readSysVolInfo` (in `readEnvironment`), `getSysInfoVolMetrics` | `getsysinfo` |
| disks, fans, enclosures, network, NVMe, caches, ping | `disk.go`, `system.go`, `network.go`, `nvme.go` | `syshdnum` (shrunk by its collector), device lists | one collector each | commands, `/sys`, `/proc` |
| healthcheck | `main.go` | global `healthCheckExpiry` | `handleHealthcheckStart`, `handleHealthcheckEnd` around each scrape | healthchecks.io |
| notifications | `main.go`, `annotator.go`, `regionmatcher.go`, `tagextractor/` | the matcher's slice; the configured tags' array | `Post`, `Match`, `Add`, `mergeTags`, `Extract` | Grafana; one goroutine per request, no lock |
| Docker events | `docker_events.go` | two channels of the current stream | `handleDockerEvents` | Docker daemon; its own annotator |
| process lifecycle | `main.go` | context, HTTP server | signal, `Shutdown`, `Close`, exit | all of the above |
| service script | `qpkg/shared/qnapexporter.sh` | PID file, `CHILD_PID` | start, stop, restart, relaunch loop | the binary, the NAS |
| status page | `status.go` | reads the shared status | `WriteHTML` | written by collectors, Docker listener and handlers |

What is hard in this code:

- **Concurrency inside a scrape.** Workers, a closer and a draining loop share a
  channel of four places and a wait group; concurrent requests share everything
  else under one mutex; a panic may leave the middle of it.
- **State that outlives a scrape**: the NUT connection and its retry budget, the
  environment with its expiry, the free sizes with theirs, the healthcheck expiry.
  Each has a check in one place and a use or a renewal in another.
- **Code without locks** called from many goroutines: the region matcher, the tags'
  array, the healthcheck expiry.
- **Failing neighbours**: commands that fail, a daemon that restarts, Grafana answers
  that are lost, pings that do not arrive.

`PROJECT.json` lists every hazard at its line ("hazards"), with the properties that
would catch it or the reason why none does yet.

## 2. Modules

| module | models | extends / instantiates |
|---|---|---|
| `ScrapeService` | what `/metrics` promises: each request is answered at most once, with one outcome per collector and a verdict, or aborted | |
| `Scrape` | `handleMetricsHTTPRequest`, `WriteMetrics`, `fetchMetricsWorker`, `readEnvironment` | `INSTANCE ScrapeService WITH ...` |
| `Scrape_proofs` | the theorems about `Scrape` | `Scrape`, `TLAPS` |
| `Inventory` | the readers of the environment and the collectors over what they found, followed one at a time over successive scrapes and processes | |
| `UpsSession` | the UPS collector over successive scrapes, the daemon, and the end of the process | |
| `SysVolumes` | volume enumeration and the free-size cache over successive scrapes | |
| `Healthcheck` | the pings around scrapes | |
| `Annotator`, `MCAnnotator` | notification handlers, region matcher, Grafana | |
| `DockerEvents` | the Docker event listener, the client's stream, the daemon | |
| `Supervisor` | the service script's commands and its relaunch loop, and the binary as the script sees it | |
| `Inventory_proofs`, `UpsSession_proofs`, `SysVolumes_proofs`, `Healthcheck_proofs`, `Annotator_proofs`, `DockerEvents_proofs`, `Supervisor_proofs` | the theorems about each | the module, `TLAPS` and library theorems |

`Scrape` shows that one scrape at a time runs its collectors, each once, over an
environment nobody rewrites. `UpsSession` and `SysVolumes` rely on that: they have
one caller. `Scrape` relies in turn on collectors returning, which `UpsSession`
checks for its own (`CollectorReturns`) and `SysVolumes` restricts for the
enumeration (`NoHangWithoutFailure`). `Inventory` relies on `Scrape` too: no reader runs
while a collector does (`CollectOnWholeEnvironment`), and the environment is read again
within its validity (`EnvFreshAtLaunch`), which is when the outages of `Inventory` end.
`CloseEnds` of `UpsSession` and `CancelEnds` of `DockerEvents` are what lets the binary of
`Supervisor` exit some time after TERM.

Each module has a section of *slips*: mistakes one could make in this code, each a
variant of the definition it is named after. Nothing uses them. `PROJECT.json`
("mutants") says which definition each replaces and which property then fails.

### Scrape

One process per request (`pc`), one per collector (`worker`), the closer, the clock.

| code | action |
|---|---|
| request reaches the handler | `Arrive` |
| `fetchMu.Lock()`, status reset, the call's locals | `Lock` |
| `time.Now().After(e.envExpiry)` | `CheckEnvironment` |
| `readEnvironment`: first field written / all done, expiry advanced / panic in `readEnclosures` | `BeginReadEnvironment` / `ReadEnvironment` / `PanicInEnvironment` |
| `wg.Add(1); go fetchMetricsWorker(...)`, one collector | `Spawn` |
| `go func() { wg.Wait(); close(metricsCh) }()` | `StartCloser`, `Close` |
| worker: collector returns / send / `wg.Done()` | `Fetch` / `Send` / `Done` |
| `for m := range metricsCh` | `Receive`, `Return` |
| handler returns | `Reply` |

A metric is a unit of a count; an answer is an error or a number of metrics. The
channel, wait group and workers of the model are those of the call that holds
`fetchMu`, reset in `Lock`; `NoGoroutineLeft` is what makes that representation
right, since no goroutine of an earlier call is left when the next takes the lock.

### Inventory

The nine collectors that ask the things of one kind for their values (`SysInfoTemp`,
`SysInfoHd`, `SysInfoFan`, `EnclosureFan`, `NetworkStats`, `NvmeSmart`, `DiskStats`,
`FlashCacheStats`, `DmCacheStats`) share nothing but the environment, and each reads only
what its own reader wrote. So a behaviour follows one of them, whichever (`collector`),
together with its reader. What is found is a number (`num`, of disks or fans) or a list
(`list`); `tool` says whether the command it needs was found, or the kernel is the one
it is for. Things are numbers in the order of enumeration, `up` those that answer now.

| code | action |
|---|---|
| `readSysInfo`, `readEnclosures`, `readNetworkInterfaces`, `readDevices`, `readNvmePath`, `readDmCacheDevices`, `readHostInfo` | `ReadEnvironment`, a disjunct each |
| panic of `readEnclosures` | `AbortEnvironment` |
| collector called, its slice allocated | `Begin`, which may end the process |
| one iteration: value reported / disk asleep / left out and logged / error returned | `Ask`: `Report` / `Asleep` / `LeaveOut` / `GiveUp` |
| the collector's return, and the shrinking of the disk count | `Finish` |
| the collectors that ask for everything at once | `DiskStats`, `FlashCacheStats`, `DmCacheStats` |
| a panic in a worker, the script's relaunch | `pc = "dead"`, `Restart` |

`LeavesOut` and `GivesUp` say which failures a collector bears. The properties blame
a failure on what the model lets fail by itself (`sick`, `envOK`) or on what went down
(`gone`), and ask that nothing else be lost: that is where a count one too small, a list
that is not emptied or a negative count shows.

### UpsSession

`pc` is where the collector is: at the connection test (`gate`), asking for the list
(`list`) or for variables (`vars`). `link` is what the TCP connection will do when
used next. A stopped daemon leaves the link `half` (the next write succeeds and the
read meets end-of-file, an error that the code does not recognise) or `dead` (the
write fails with EPIPE or ECONNRESET, which it does). Timestamps are ages.

`life` is the process's: `Signal` stands for the cancelled context, `Shutdown` and the
return of `ListenAndServe`, which does not wait for handlers, up to the test of
`ProtocolVersion` in `Close`; `Close` for LOGOUT under `upsLock`; `Exit` for `os.Exit`, with
whatever collector is still running; `Launch` for a new process. A collector holds
`upsLock` in every state but `idle` and `again`, the gap between a call that met a broken
pipe and its repetition, where `Close` may come between.

### SysVolumes

`enum` is the loop of `readSysVolInfo`, one action per outcome of an iteration; each
external command may fail. `report` is the loop of `getSysInfoVolMetrics`. Free sizes
are the age of their reading and whether they are 0. All indexes past `MaxIndex`
answer with an error, so one value stands for them: there the loop spins.

### Healthcheck

Per request: the call before the scrape (`Arrive`, `StartPing`), the scrape
(`Collect`), the call after it (`Check`, `EndPing`, `Advance`). The second call is not
deferred: a panic of `WriteMetrics`, which net/http recovers, leaves the handler without
it (`CollectPanics`; it is `PanicInEnvironment` of `Scrape`). A panic in a worker, or
`os.Exit`, ends the process wherever its requests are (`Exit`), and the next one starts
with a new expiry (`Launch`). `cutShort` remembers such an end until a scrape begins that
may ping. The expiry is kept relative to the clock (`late`). Two `Advance` at once may lose one, the outcome of a
data race on a `time.Time`.

### Annotator

Per handler, the steps of `Post`: merge tags (`Arrive` writes the tag past the end of the
configured ones, `MergeTags` reads it back into a copy), match (find an
index; use it), call Grafana, add (read the slice; write it). The array of the
configured tags has room in the model (`slot`), as it has with two of them in the
command line; where it has none each append copies it, and handlers share nothing.
Two handlers inside `mergeTags` at once is a data race, recorded in `torn`. Grafana is external: a
request is processed and answered, processed with the answer lost, or not processed.
`StartsOf` abstracts the ten regular expressions (which start texts a note is
rewritten to), `TagOf` the bracket parsing. `raced` records that two handlers were
inside the matcher at once. Go gives such a program no meaning, and the model has
only the coarsest outcomes, so the cache properties are claimed until then; that the
source has nothing to prevent it is the run `annotator_race`.

### DockerEvents

| code | action |
|---|---|
| `client.New()` | `NewClient` |
| `dockerEvents`: the request, up to the daemon's answer | `Connect`, asking for `Asked` |
| `case err := <-errs`, not nil / nil | `ReceiveError` / `ReceiveNil` |
| ten seconds or `ctx.Done()` | `Backoff` |
| `case msg := <-msgs`, `annotator.Post` | `Receive`, `Post` |
| `case <-ctx.Done()` | `Done` |

The goroutine of the client's `Events` is external: what it may do to the two
channels is `ResponseEnds` and `StreamCancelled`; the daemon, its log and the
connection are `Emit`, `ConnectionLost`, `DaemonStops`, `DaemonStarts`.

### Supervisor

One action per shell command: of an operator (`Start`, `Stop`, `Check`, `Fork`,
`Write`, `Kill`, `Await`, `Remove`) and of a supervisor's loop (`Launch`, `Record`,
`Wait`, `Clear`, `Backoff`). `term` is a pending signal, `Trap` what happens to it at the
next command boundary; it interrupts `wait` but not `sleep`. The binary
binds its port or fails to, may crash, and exits some time after TERM.

## 3. Runs

| run | instance | shows |
|---|---|---|
| `scrape` | 2 requests, 2 collectors, channel of 1 | no send on a closed channel, no goroutine left, collectors on a whole and fresh environment; `Scrape` implements `ScrapeService`; every waiting scrape ends |
| `inventory` | 9 collectors, 3 things each | what stays is reported, outages end with the next reading, only failures crash the process |
| `ups_session` | 3 attempts, hour of 4 ticks, 2 units | no query without a connection, failed dials bounded per hour, reconnection by the second scrape, the collector returns, a signal ends the process |
| `ups_retry` (violation) | 2 attempts, hour of 3 | the hourly retry never comes while scrapes do |
| `annotator` | 2 handlers, 4 notes, cache of 2, 3 annotations | cached starts are open and real, regions paired and closed once, recent starts kept, tags not mixed up |
| `annotator_race` (violation) | the same | two handlers in the matcher: an end closes another event's region |
| `healthcheck` | 1 request, period of 3 ticks, up to 8 late | start pings are followed by end pings, those of scrapes cut short by the next that may ping; no silence beyond a period |
| `healthcheck_overlap` (violation) | 2 requests | two scrapes ending together silence the pings for two periods |
| `sys_volumes` | indexes 0-2, validities 5 and 1 | no unread size reported, old sizes only where a failed scrape left them, no hang without a failure |
| `docker_events` | 3 events, hour of 2 ticks, 2 breaks | no spinning, nothing of the last hour missed, cancellation ends the listener |
| `supervisor` | 1 operator, 3 supervisors, 3 process ids | one supervisor, named by the PID file; serving again after failures; stops end |
| `supervisor_orphan` (violation) | 1 supervisor, 2 process ids | TERM between the launch and `CHILD_PID=$!` leaves the binary behind |

The violation runs are the four findings: each quotes the sentence of the repository
that the code does not keep.

### Bounds

- *Scrape.* Two requests are one in the call and one competing for the lock; a third
  adds another competitor. Two collectors over one place give a full channel with
  a sender blocked while another one has sent and exits. `EnvValidity` 2 and `MaxTime` 3 let the
  environment be fresh, expired, and expired twice over. The proofs have no bound.
- *Inventory.* Three things are one that stays, one that goes and one that comes, in any
  order: a sleeping disk below, between and above those awake.
- *UpsSession.* `MaxAttempts` and `Hour` are such that the budget is used up inside
  an hour and across one; two units let the daemon stop between them. Ages saturate
  where the code stops telling them apart; `upFails` at 2, all its property needs.
- *SysVolumes.* Three indexes give a hole, an ignored and a listed volume at once.
  `EnvValidity` is several volume validities, as in the code (5 minutes to 1), and
  `MaxLate` exceeds it, so that the expiry has to catch up.
- *Healthcheck.* `MaxLate` exceeds two periods. A tick passes only while requests
  are idle or collecting, or no process runs: pings last seconds, a tick more than a minute.
- *Annotator.* Three annotations over a cache of two give eviction; the notes
  are the firmware chain, whose middle message ends one region and would begin the
  next, and one note with another tag. Once Grafana has `MaxId` annotations, further
  POSTs fail; arrivals are not bounded.
- *DockerEvents.* Two breaks are a failed stream and a failed one after the
  reconnection; three events fall before, during and after an outage, and two ticks let
  one of them outlive the hour before it is asked for.
- *Supervisor.* Three supervisors are two restarts in a row, the second while a binary
  of the first may still hold the port. A process id is free again when no live
  supervisor remembers it; three are one per supervisor. One operator, as the
  package manager runs one command at a time: two starts at once do launch two
  supervisors (hazards).

### Fairness

`Scrape`: weak fairness of each handler, worker and closer, since the Go scheduler
runs what can run; strong fairness of `Lock`, since `sync.Mutex` hands over to a
waiter that has starved for a millisecond. It includes that a collector returns, which an
external command that hangs would break (hazards). Requests need not come and the
clock need not go on. `UpsSession`: weak fairness of the collector's steps; NUT reads
have a deadline and the daemon is on the loopback interface; strong fairness of `Close`,
which gets a mutex that is free again and again; weak fairness of `Exit`. `DockerEvents`: weak
fairness of the listener and of the stream's goroutine; strong fairness of `Done`, since
a `select` chooses at random among the cases that are ready. `Supervisor`: weak fairness of
each process, and a binary that was told to stop exits (`Shutdown` has a deadline, after which
`run` returns); crashes, starts and stops need not come. The other modules are
checked for safety only. `PingsEveryPeriod` and `RetriesAfterAnHour` are
action properties about what a scrape may not skip, and need no fairness.

## 4. Proofs

Each `_proofs` module proves, for every value of its component's constants, each safety
invariant and each action property that its runs check, the refinement of `ScrapeService`
among them. All follow one plan: an invariant `IInv`, a conjunction of `TypeOK` and named
parts; a lemma per action, or per part, that a step keeps it; `Invariant`, by temporal
logic; and the properties as consequences. No property but the types is inductive by
itself, and the parts say why the next step cannot break it. Each `IInv` was
model-checked on its run's instance before it was proved.

The assumptions are the named `ASSUME`s of the models (sizes are naturals, the budget, the
hour, the periods and the cache are positive, sets that are counted are finite, model values
are distinct) and, in two modules, a hypothesis of the theorem itself, explained there.

**`Scrape_proofs`**, for all finite sets of collectors, all sets of requests, any channel
capacity, validity and number of metrics:

| theorem | states |
|---|---|
| `TypeCorrect` | `TypeOK` |
| `ChannelSafe` | `NoSendOnClosedChannel` |
| `NoLeak` | `NoGoroutineLeft` |
| `EnvironmentStable` | `CollectOnWholeEnvironment` |
| `EnvironmentFresh` | `EnvFreshAtLaunch` |
| `OneAnswerEach` | `AnswersOnce` |
| `Implementation` | `ImplementsService`, i.e. `Spec => Service!SSpec` |

`LockInv`: exactly the holder of `fetchMu` is between `Lock` and `Return`. `CallInv` ties the
wait group to the number of workers launched and not exited, and the stage of the call to
what may have been spawned, started or closed. `EnvInv`: when the environment is whole and
how old; the expiry is never more than one validity past the last reading. `DeliveryInv`:
every worker's answer is in exactly one place, still to be fetched, held by the worker, in
the channel or in the body, and the verdict is the disjunction of those in the body.
Counting is the crux: `wg = 0` must mean that no worker is active, so each step of a worker
is also a step of a cardinality, for which `FiniteSetTheorems` is cited. From `DeliveryInv`,
at `Return` the body has exactly one answer of each collector, which is the step of the
refinement; all other steps map to `Ask`, `Abort`, `Leave` or a stutter. `OneAnswerEach` is
the part of it that a reader of the metrics cares for; it is no property of a run of its
own, since `OutcomeIn` of the refinement mapping demands each collector exactly once.

**`Inventory_proofs`**, for any number of things:

| theorem | states |
|---|---|
| `TypeCorrect` | `TypeOK` |
| `ReportsComplete` | `ReportComplete` |
| `OutagesEnd` | `OutageEnds` |
| `CrashesNeedFailures` | `CrashNeedsFailure` |

`CoverInv` follows a thing that is there at a reading and stays: what the reader counted or
listed includes it, and while a collector runs it is still to ask, reported or blamed.
`ListInv`: a list names nothing that is down unless something went down since it was read.
`CountInv`: a negative count comes of a failed reading. The readers take the least and the
greatest of a set of numbers, which exist by a lemma from the library's well-founded order.

**`UpsSession_proofs`**, for any `MaxAttempts`, `Hour` and number of units:

| theorem | states |
|---|---|
| `TypeCorrect` | `TypeOK` |
| `QueriesHaveConnection` | `QueryHasConnection` |
| `DialsThrottled` | `FailuresThrottled` |
| `SecondScrapeReconnects` | `ReconnectsBySecondScrape` |

`LinkInv`: the zero client is behind a session that was never dialled or whose last dial
failed, so the tests of `connErr` and of the protocol version keep queries from it.
`BudgetInv` is why resetting `attempts` is harmless: any failure that the counter no longer
counts is an hour old, as the reset waits for the youngest. `CleanInv`: what a daemon that
stays up leaves behind after a scrape that failed; a second failure of the kind would need a
link that the first has already dropped.

**`SysVolumes_proofs`**, for any number of volumes, any validities and any delay:

| theorem | states |
|---|---|
| `TypeCorrect` | `TypeOK` |
| `ReportsWhatWasRead` | `NeverReportsUnread` |
| `OldOnlyIfPassedOver` | `FreshUnlessPassedOver` |
| `HangNeedsFailure` | `NoHangWithoutFailure` |

`AgeInv` and `FetchInv` bound a size's age by the expiry of the environment and by
`volumeLastFetch`, except of volumes that a failed report passed over. `OutInv`: the report is
a prefix of the volumes. `ListInv`: the loop lists an index once, in order. `CountInv` counts
the volumes still to find against the indexes still to come.

**`Healthcheck_proofs`**, for any set of requests, any period and delay:

| theorem | states |
|---|---|
| `TypeCorrect` | `TypeOK` |
| `StartedIsEnded` | `NotLeftRunning`, under `[]OneAtATime` |
| `PingedEveryPeriod` | `PingsEveryPeriod`, under `[]OneAtATime` |

Nothing protects the expiry, and with overlapping scrapes both promises fail: the second in
the run `healthcheck_overlap`, the first when a request asks for its start ping between the
end ping of another and its `Advance` (TLC shows it with two requests in `Healthcheck.cfg`).
So the two are proved of the behaviours in which at most one request is served at a time, as
with a single Prometheus server, whichever goroutine serves it; panics and ends of the
process are anywhere in them. `PendingInv`: the expiry that let the start ping out is still
past at the end ping, and a start without an end has it still to come, or it was lost or
cut short. The last is why `NotLeftRunning` names `cutShort`: after a panic or a crash the
start stays without an end until the next scrape that may ping, and the theorem says that
one gives it. `RationInv`: the expiry, of this process, remembers the last end ping.
`TypeCorrect` needs `LateInv` for all behaviours: each call that saw an expiry in the past
moves it by at most one period, so it is never further ahead than one period per request.

**`Annotator_proofs`**, for any finite set of handlers, any notes, rules and tags, any
cache size and number of annotations:

| theorem | states |
|---|---|
| `TypeCorrect` | `TypeOK`, races included |
| `TagsAreOwn` | `TagsOwn`, races in the matcher included |
| `CachedAreOpen` | `CachedStartsOpen` |
| `EndsArePaired` | `RegionsPaired` |
| `EndedOnce` | `OneEndPerRegion` |
| `RecentRemembered` | `RecentStartsRemembered` |

The last four are claims until the first race, as the properties are. `AloneInv`: what the
only handler in the matcher read of the slice is still there when it writes. `OnceInv`, the
heart: an id is in one entry of the cache or in one handler's PATCH, never in both, so it is
sent an end once; `OpenInv`: wherever it is, its region is open; `EndInv`: the end it gets is
its own. `KnownInv`: each entry of the cache was added, and after it at least as many others as
follow it in the cache, so that what a full cache drops is not among the latest `CacheSize`
starts, which is `RecentInv`. `FreshInv` and `StageInv` hold
whatever races: Grafana's ids are added once each.

**`DockerEvents_proofs`**, for any number of events and breaks and any length of the hour:

| theorem | states |
|---|---|
| `TypeCorrect` | `TypeOK` |
| `NeverBusy` | `NoBusyLoop` |
| `AlwaysCaughtUp` | `CaughtUp` |

`ErrorInv`: the error of a stream comes after its end, and a listener that has read it asks for
another stream unless it is about to end. `HandedInv`: an event that the open stream was asked
for is still to be handed over, being posted, or annotated.

**`Supervisor_proofs`**, for any numbers of supervisors and process ids:

| theorem | states |
|---|---|
| `TypeCorrect` | `TypeOK`, for any operators |
| `SupervisorsAreOne` | `OneSupervisor`, for one operator |
| `PidFileTells` | `PidFileTrue`, for one operator |

`FileInv` says of each place of a command what runs and what the PID file holds; `TermInv`,
that a supervisor told to stop is one a command waits for. `OneOperator` is a hypothesis
since nothing in the script keeps two starts at once from forking twice (hazards).

### What stays model-checked

Liveness is beyond the prover: `EveryScrapeEnds`, `CollectorReturns`, `CloseEnds`,
`EventAnnotated`, `CancelEnds`, `KeepsServing`, `StopEnds`. The four violation runs are
counterexamples, which TLC shows.

A few definitions have the form they have so that they can be reasoned about, with the same
behaviours: the ages of failed dials are a function on the last `MaxAttempts + 1` of them
(`failAge`), events on their way are a set handed over oldest first (`queue`), least and
greatest numbers are chosen from sets, and no model uses a recursive operator.

## 5. Not modelled, and the plan

Formatting, parsing, logging and templates are data: hence the status page, the utilities
and the collectors without state (version, uptime, load, CPU, memory, ping), for which
`Fetch` of `Scrape` stands. What is left, in order:

1. The lines in flight on the NUT connection in `UpsSession`: an answer that came too
   late becomes part of the next one.
2. The catching up of the healthcheck's expiry after an idle time: how many scrapes ping
   more often than every five minutes.
3. A weaker hypothesis in `Healthcheck_proofs`: scrapes may overlap as long as none starts or
   ends between another's end ping and its `Advance`.

Out of reach, and why: a collector that hangs (it breaks the fairness every liveness
property needs), the answer of a scrape in progress at a crash (the process ends with
it; that it happens only after a failure is `CrashNeedsFailure`), responses cut off by
`os.Exit`, net/http's status code after a partial body.
