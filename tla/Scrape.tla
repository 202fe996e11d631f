-------------------------------- MODULE Scrape --------------------------------
(***************************************************************************)
(* GET /metrics: handleMetricsHTTPRequest (main.go) and WriteMetrics       *)
(* (lib/exporter/prometheus/prometheus.go).                                *)
(*                                                                         *)
(* net/http runs one goroutine per request.  WriteMetrics serialises them  *)
(* with fetchMu; the holder re-reads the environment when it expired,      *)
(* launches one worker goroutine per collector and a closer goroutine, and *)
(* drains the bounded channel until the closer closes it.  The channel,    *)
(* the wait group, the workers and the closer belong to one call of        *)
(* WriteMetrics: the variables hold those of the call that has fetchMu,    *)
(* and stay as that call left them until the next one makes its own.       *)
(*                                                                         *)
(* Abstractions.  A collector's answer is an error or a number of metrics. *)
(* Metric text, log lines and write errors (ignored by the code) are left  *)
(* out.  The healthcheck pings around WriteMetrics are Healthcheck.tla's.  *)
(* A collector returns: one that panics ends the process, and one that     *)
(* never returns holds fetchMu for ever (see the README's hazards).        *)
(***************************************************************************)
EXTENDS Naturals, Sequences, FiniteSets

CONSTANTS Requests,      \* HTTP handler goroutines asking for /metrics
          Collectors,    \* the keys of promExporter.fns
          ChanCap,       \* capacity of metricsCh (4 in the code)
          EnvValidity,   \* envValidity, in clock ticks
          MaxMetrics,    \* BOUND: metrics one collector returns
          MaxTime,       \* BOUND: the clock stops here
          NoRequest      \* fetchMu is free

ASSUME RequestsAssumption == NoRequest \notin Requests
ASSUME CollectorsAssumption == IsFiniteSet(Collectors)
ASSUME ChanCapAssumption == ChanCap \in Nat \ {0}
ASSUME TimeAssumption == EnvValidity \in Nat \ {0} /\ MaxTime \in Nat
ASSUME MetricsAssumption == MaxMetrics \in Nat

VARIABLES
    now,          \* the monotonic clock
    envExpiry,    \* promExporter.envExpiry
    envRead,      \* history: when readEnvironment last completed (0: never)
    envWhole,     \* history: FALSE after a readEnvironment that did not complete
    fetchMu,      \* the request that holds promExporter.fetchMu
    metricCount,  \* status.MetricCount
    pc,           \* where each handler goroutine is
    failed,       \* WriteMetrics' err # nil, per request
    body,         \* the answers written to the response so far, per request
    worker,       \* where each fetchMetricsWorker goroutine is
    result,       \* what the worker is about to send
    wg,           \* the wait group's counter
    closer,       \* the goroutine that closes the channel
    ch,           \* metricsCh
    closed        \* metricsCh has been closed

envVars == <<envExpiry, envRead, envWhole>>
callVars == <<worker, result, wg, closer, ch, closed>>
vars == <<now, envVars, fetchMu, metricCount, pc, failed, body, callVars>>

Results == [ok : {TRUE}, n : 0 .. MaxMetrics] \cup [ok : {FALSE}, n : {0}]
NoResult == [ok |-> TRUE, n |-> 0]
Messages == [from : Collectors, res : Results]

\* A goroutine that has been started and has not returned.
Active == {c \in Collectors : worker[c] \in {"fetch", "send", "sent"}}

InCall(r) == pc[r] \in {"check", "env", "spawn", "collect"}

-------------------------------------------------------------------------------
(***************************************************************************)
(* Slips one could make in this code, each as a variant of the step it is  *)
(* named for.  Nothing below uses them; every property is checked to fail  *)
(* when one of them takes the step's place.                                *)
(***************************************************************************)

\* wg.Add(1) forgotten.
SpawnWithoutAdd(r, c) ==
    /\ pc[r] = "spawn" /\ worker[c] = "idle"
    /\ worker' = [worker EXCEPT ![c] = "fetch"]
    /\ UNCHANGED <<now, envVars, fetchMu, metricCount, pc, failed, body, result,
                   wg, closer, ch, closed>>

\* close(metricsCh) without wg.Wait().
CloseWithoutWait ==
    /\ closer = "wait"
    /\ closed' = TRUE
    /\ closer' = "none"
    /\ UNCHANGED <<now, envVars, fetchMu, metricCount, pc, failed, body, worker,
                   result, wg, ch>>

\* `return err` inside the loop, at the first error.
ReturnOnFirstError(r) ==
    /\ pc[r] = "collect" /\ (failed[r] \/ (ch = <<>> /\ closed))
    /\ fetchMu' = NoRequest
    /\ pc' = [pc EXCEPT ![r] = "reply"]
    /\ UNCHANGED <<now, envVars, metricCount, failed, body, callVars>>

\* envExpiry advanced before the environment is read rather than after.
BeginByAdvancingExpiry(r) ==
    /\ pc[r] = "env" /\ envWhole
    /\ envWhole' = FALSE
    /\ envExpiry' = envExpiry + EnvValidity
    /\ UNCHANGED <<now, envRead, fetchMu, metricCount, pc, failed, body, callVars>>

\* The first expiry set to one validity from now, as for any other.
EnvExpiredOneLater == now > envExpiry + EnvValidity

\* The `return` after the send of an error is missing: the worker goes on to
\* send its (nil) metrics too.
SendFallingThrough(c) ==
    /\ worker[c] = "send" /\ Len(ch) < ChanCap
    /\ ch' = Append(ch, [from |-> c, res |-> result[c]])
    /\ worker' = [worker EXCEPT ![c] = IF result[c].ok THEN "sent" ELSE "send"]
    /\ result' = [result EXCEPT ![c] = NoResult]
    /\ UNCHANGED <<now, envVars, fetchMu, metricCount, pc, failed, body, wg,
                   closer, closed>>

\* fetchMu.Unlock() not deferred: a panic keeps the lock.
PanicKeepingLock(r) ==
    /\ pc[r] = "env" /\ ~ envWhole
    /\ pc' = [pc EXCEPT ![r] = "idle"]
    /\ UNCHANGED <<now, envVars, fetchMu, metricCount, failed, body, callVars>>

-------------------------------------------------------------------------------
\* NewExporter: envExpiry is the time of creation, tick 0; a request comes later.
Init ==
    /\ now = 1
    /\ envExpiry = 0 /\ envRead = 0 /\ envWhole = FALSE
    /\ fetchMu = NoRequest
    /\ metricCount = 0
    /\ pc = [r \in Requests |-> "idle"]
    /\ failed = [r \in Requests |-> FALSE]
    /\ body = [r \in Requests |-> <<>>]
    /\ worker = [c \in Collectors |-> "idle"]
    /\ result = [c \in Collectors |-> NoResult]
    /\ wg = 0
    /\ closer = "none"
    /\ ch = <<>> /\ closed = FALSE

Tick ==
    /\ now < MaxTime
    /\ now' = now + 1
    /\ UNCHANGED <<envVars, fetchMu, metricCount, pc, failed, body, callVars>>

\* A scrape reaches the handler.
Arrive(r) ==
    /\ pc[r] = "idle"
    /\ pc' = [pc EXCEPT ![r] = "lock"]
    /\ UNCHANGED <<now, envVars, fetchMu, metricCount, failed, body, callVars>>

\* fetchMu.Lock(), the reset of the status, and the locals of the new call.
Lock(r) ==
    /\ pc[r] = "lock"
    /\ fetchMu = NoRequest
    /\ fetchMu' = r
    /\ metricCount' = 0
    /\ pc' = [pc EXCEPT ![r] = "check"]
    /\ worker' = [c \in Collectors |-> "idle"]
    /\ result' = [c \in Collectors |-> NoResult]
    /\ wg' = 0
    /\ closer' = "none"
    /\ ch' = <<>> /\ closed' = FALSE
    /\ UNCHANGED <<now, envVars, failed, body>>

EnvExpired == now > envExpiry

CheckEnvironment(r) ==
    /\ pc[r] = "check"
    /\ pc' = [pc EXCEPT ![r] = IF EnvExpired THEN "env" ELSE "spawn"]
    /\ UNCHANGED <<now, envVars, fetchMu, metricCount, failed, body, callVars>>

\* readEnvironment begins to overwrite hostname, syshdnum, enclosures, volumes...
BeginReadEnvironment(r) ==
    /\ pc[r] = "env" /\ envWhole
    /\ envWhole' = FALSE
    /\ UNCHANGED <<now, envExpiry, envRead, fetchMu, metricCount, pc, failed,
                   body, callVars>>

\* The rest of it: interfaces, devices, caches.  The new expiry is counted from
\* the old one, not from the clock.
ReadEnvironment(r) ==
    /\ pc[r] = "env" /\ ~ envWhole
    /\ envExpiry' = envExpiry + EnvValidity
    /\ envRead' = now
    /\ envWhole' = TRUE
    /\ pc' = [pc EXCEPT ![r] = "spawn"]
    /\ UNCHANGED <<now, fetchMu, metricCount, failed, body, callVars>>

\* readEnclosures indexes the fields of a short line: the handler panics, the
\* deferred Unlock runs, net/http recovers and drops the connection.
PanicInEnvironment(r) ==
    /\ pc[r] = "env" /\ ~ envWhole
    /\ fetchMu' = NoRequest
    /\ pc' = [pc EXCEPT ![r] = "idle"]
    /\ UNCHANGED <<now, envVars, metricCount, failed, body, callVars>>

\* One iteration of the loop over e.fns: wg.Add(1), go fetchMetricsWorker.
Spawn(r, c) ==
    /\ pc[r] = "spawn" /\ worker[c] = "idle"
    /\ wg' = wg + 1
    /\ worker' = [worker EXCEPT ![c] = "fetch"]
    /\ UNCHANGED <<now, envVars, fetchMu, metricCount, pc, failed, body, result,
                   closer, ch, closed>>

\* After the loop: go func() { wg.Wait(); close(metricsCh) }, and drain.
StartCloser(r) ==
    /\ pc[r] = "spawn" /\ \A c \in Collectors : worker[c] # "idle"
    /\ closer' = "wait"
    /\ pc' = [pc EXCEPT ![r] = "collect"]
    /\ UNCHANGED <<now, envVars, fetchMu, metricCount, failed, body, worker,
                   result, wg, ch, closed>>

Fetch(c) ==
    /\ worker[c] = "fetch"
    /\ \E res \in Results : result' = [result EXCEPT ![c] = res]
    /\ worker' = [worker EXCEPT ![c] = "send"]
    /\ UNCHANGED <<now, envVars, fetchMu, metricCount, pc, failed, body, wg,
                   closer, ch, closed>>

\* The send blocks while the channel is full.
Send(c) ==
    /\ worker[c] = "send" /\ Len(ch) < ChanCap
    /\ ch' = Append(ch, [from |-> c, res |-> result[c]])
    /\ worker' = [worker EXCEPT ![c] = "sent"]
    /\ UNCHANGED <<now, envVars, fetchMu, metricCount, pc, failed, body, result,
                   wg, closer, closed>>

\* The worker's deferred wg.Done().
Done(c) ==
    /\ worker[c] = "sent"
    /\ wg' = wg - 1
    /\ worker' = [worker EXCEPT ![c] = "exited"]
    /\ UNCHANGED <<now, envVars, fetchMu, metricCount, pc, failed, body, result,
                   closer, ch, closed>>

Close ==
    /\ closer = "wait" /\ wg = 0
    /\ closed' = TRUE
    /\ closer' = "none"
    /\ UNCHANGED <<now, envVars, fetchMu, metricCount, pc, failed, body, worker,
                   result, wg, ch>>

\* One iteration of `for m := range metricsCh`.
Receive(r) ==
    /\ pc[r] = "collect" /\ ch # <<>>
    /\ LET m == Head(ch) IN
        /\ body' = [body EXCEPT ![r] = Append(@, m)]
        /\ metricCount' = metricCount + m.res.n
        /\ failed' = [failed EXCEPT ![r] = @ \/ ~ m.res.ok]
    /\ ch' = Tail(ch)
    /\ UNCHANGED <<now, envVars, fetchMu, pc, worker, result, wg, closer, closed>>

\* The loop ends on a closed, empty channel; the deferred Unlock runs.
Return(r) ==
    /\ pc[r] = "collect" /\ ch = <<>> /\ closed
    /\ fetchMu' = NoRequest
    /\ pc' = [pc EXCEPT ![r] = "reply"]
    /\ UNCHANGED <<now, envVars, metricCount, failed, body, callVars>>

\* The handler returns and the response goes out.
Reply(r) ==
    /\ pc[r] = "reply"
    /\ pc' = [pc EXCEPT ![r] = "idle"]
    /\ failed' = [failed EXCEPT ![r] = FALSE]
    /\ body' = [body EXCEPT ![r] = <<>>]
    /\ UNCHANGED <<now, envVars, fetchMu, metricCount, callVars>>

Handler(r) ==
    \/ CheckEnvironment(r)
    \/ BeginReadEnvironment(r)
    \/ ReadEnvironment(r)
    \/ PanicInEnvironment(r)
    \/ \E c \in Collectors : Spawn(r, c)
    \/ StartCloser(r)
    \/ Receive(r)
    \/ Return(r)
    \/ Reply(r)

Worker(c) == Fetch(c) \/ Send(c) \/ Done(c)

Next ==
    \/ Tick
    \/ \E r \in Requests : Arrive(r) \/ Lock(r) \/ Handler(r)
    \/ \E c \in Collectors : Worker(c)
    \/ Close

\* The Go scheduler runs every goroutine that can run.  A sync.Mutex hands over
\* to a waiter that starved for 1 ms, so a waiting Lock is not passed over for
\* ever.  Neither the arrival of requests nor the clock is assumed to go on.
Fairness ==
    /\ \A r \in Requests : WF_vars(Handler(r)) /\ SF_vars(Lock(r))
    /\ \A c \in Collectors : WF_vars(Worker(c))
    /\ WF_vars(Close)

Spec == Init /\ [][Next]_vars /\ Fairness

-------------------------------------------------------------------------------
TypeOK ==
    /\ now \in Nat /\ envExpiry \in Nat /\ envRead \in Nat
    /\ envWhole \in BOOLEAN
    /\ fetchMu \in Requests \cup {NoRequest}
    /\ metricCount \in Nat
    /\ pc \in [Requests ->
                {"idle", "lock", "check", "env", "spawn", "collect", "reply"}]
    /\ failed \in [Requests -> BOOLEAN]
    /\ body \in [Requests -> Seq(Messages)]
    /\ worker \in [Collectors -> {"idle", "fetch", "send", "sent", "exited"}]
    /\ result \in [Collectors -> Results]
    /\ wg \in Nat
    /\ closer \in {"none", "wait"}
    /\ ch \in Seq(Messages)
    /\ closed \in BOOLEAN

\* A send on a closed channel, or a second close, panics in a goroutine nobody
\* recovers and ends the process: the closer must not run while any worker has
\* still to send, nor before every worker was counted.
NoSendOnClosedChannel ==
    closed => /\ \A c \in Collectors : worker[c] = "exited"
              /\ closer = "none"

\* When WriteMetrics gives fetchMu back it leaves no goroutine behind: none that
\* would still read the environment, or wait for ever to send on a channel
\* nobody drains.
NoGoroutineLeft ==
    fetchMu = NoRequest => Active = {} /\ closer = "none"

\* Collectors read hostname, syshdnum, enclosures... with no lock of their own:
\* they run only over an environment that was read to its end, and that no
\* request is rewriting, a request whose readEnvironment panicked included.
CollectOnWholeEnvironment ==
    Active # {} => envWhole /\ \A r \in Requests : pc[r] # "env"

FreshLaunch ==
    \A r \in Requests :
        (pc[r] # "spawn" /\ pc'[r] = "spawn") =>
            envRead' > 0 /\ now <= envRead' + EnvValidity

\* When collectors are launched the environment they are to use is no older
\* than envValidity, although the expiry is advanced from its old value.
EnvFreshAtLaunch == [][FreshLaunch]_vars

-------------------------------------------------------------------------------
\* The refinement mapping: the answer a request holds when the handler returns.
Once(c, b) == \E i \in DOMAIN b : \A j \in DOMAIN b : b[j].from = c <=> j = i
IndexOf(c, b) == CHOOSE i \in DOMAIN b : b[i].from = c
OutcomeIn(c, b) == IF Once(c, b) THEN b[IndexOf(c, b)].res ELSE [lost |-> TRUE]

ServicePhase ==
    [r \in Requests |-> IF pc[r] = "idle" THEN "idle"
                        ELSE IF pc[r] = "reply" THEN "answered" ELSE "waiting"]

ServiceReport ==
    [r \in Requests |->
        IF pc[r] = "reply"
        THEN [outcome |-> [c \in Collectors |-> OutcomeIn(c, body[r])],
              failed |-> failed[r]]
        ELSE [aborted |-> TRUE]]

Service == INSTANCE ScrapeService WITH phase <- ServicePhase,
                                       report <- ServiceReport

\* Whatever the interleaving of workers, closer and concurrent requests, the
\* response carries one answer of every collector, written once, and
\* WriteMetrics returns an error exactly when one of them failed.
ImplementsService == Service!SSpec

Distinct(s) == \A i, j \in DOMAIN s : s[i].from = s[j].from => i = j

\* The response holds nothing but those answers: no collector is written twice.
AnswersOnce == \A r \in Requests : Distinct(body[r])

\* Every scrape is answered (or aborted by a panic), however many compete.
EveryScrapeEnds ==
    \A r \in Requests : pc[r] = "lock" ~> pc[r] \in {"reply", "idle"}
===============================================================================
