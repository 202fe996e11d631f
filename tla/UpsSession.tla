------------------------------ MODULE UpsSession ------------------------------
(***************************************************************************)
(* The "UpsStats" collector: getUpsStatsMetricsWithRetry and               *)
(* getUpsStatsMetrics (lib/exporter/prometheus/ups.go), over one TCP       *)
(* connection to the NUT daemon (upsd) that outlives the scrape; and the   *)
(* end of the process (serveHTTP in main.go, Close in prometheus.go),      *)
(* which uses the same connection.                                         *)
(*                                                                         *)
(* Scrape.tla shows that one collector runs at a time, so there is one     *)
(* caller here; what interleaves with it is the daemon, which stops,       *)
(* starts and answers late, the clock, and Close.  upsLock is held from    *)
(* "gate" on, and not between a call and its repetition.  The NUT client   *)
(* (vendored, external) is modelled by what the code can observe of it:    *)
(*   - Connect ignores the errors of its version queries, so a successful  *)
(*     dial may leave ProtocolVersion empty;                               *)
(*   - a write to a connection the peer reset returns EPIPE or ECONNRESET, *)
(*     which errors.As finds; a failed read is wrapped with %v, which it   *)
(*     does not find.                                                      *)
(*                                                                         *)
(* Time.  Timestamps occur only in time.Since(t) >= 1 hour, so the model   *)
(* keeps ages, which stop growing at Hour; the zero time.Time is Hour old. *)
(***************************************************************************)
EXTENDS Naturals

CONSTANTS MaxAttempts,   \* 10 in the code
          Hour,          \* one hour, in clock ticks
          Units          \* UPS units behind the daemon

ASSUME UpsAssumption ==
    MaxAttempts \in Nat \ {0} /\ Hour \in Nat \ {0} /\ Units \in Nat

VARIABLES
    daemon,     \* "up" or "down"
    link,       \* the TCP connection of upsClient: "none" (the zero Client),
                \* "up", "half" (the peer closed it) or "dead" (a write fails)
    proto,      \* upsClient.ProtocolVersion # ""
    connErr,    \* upsConnErr # nil
    errAge,     \* age of upsConnErrTimestamp
    attempts,   \* upsConnAttempts
    listed,     \* upsList # nil
    shown,      \* Len(status.Ups)
    pc,         \* "idle", "gate", "list", "vars", or "again" (to be repeated)
    try,        \* 1, or 2 in the call repeated after a broken pipe
    life,       \* "serving", "closing" (Close waits for upsLock), "leaving"
                \* (Close is done) or "exited"
    dialAge,    \* history: age of the last dial
    failAge,    \* history: failAge[k] is the age of the k-th last failed dial,
                \* Hour if there is none
    clean,      \* history: the daemon was up and prompt since the scrape began
    upFails     \* history: failed clean scrapes in a row (BOUND: 2)

session == <<proto, connErr, attempts, listed, shown>>
history == <<dialAge, failAge, clean, upFails>>
vars == <<daemon, link, session, errAge, pc, try, life, history>>

-------------------------------------------------------------------------------
Init ==
    /\ daemon \in {"up", "down"}
    /\ link = "none" /\ proto = FALSE /\ connErr = FALSE
    /\ errAge = Hour /\ attempts = 0 /\ listed = FALSE /\ shown = 0
    /\ pc = "idle" /\ try = 1 /\ life = "serving"
    /\ dialAge = Hour /\ failAge = [k \in 1 .. MaxAttempts + 1 |-> Hour]
    /\ clean = TRUE /\ upFails = 0

Older(age) == IF age < Hour THEN age + 1 ELSE Hour

Tick ==
    /\ errAge' = Older(errAge)
    /\ dialAge' = Older(dialAge)
    /\ failAge' = [k \in DOMAIN failAge |-> Older(failAge[k])]
    /\ UNCHANGED <<daemon, link, session, pc, try, life, clean, upFails>>

\* External: upsd stops; what the next use of its connection meets depends on
\* whether the reset has already arrived.
DaemonStops ==
    /\ daemon = "up"
    /\ daemon' = "down"
    /\ link' \in IF link = "up" THEN {"half", "dead"} ELSE {link}
    /\ clean' = FALSE
    /\ UNCHANGED <<session, errAge, pc, try, life, dialAge, failAge, upFails>>

DaemonStarts ==
    /\ daemon = "down"
    /\ daemon' = "up"
    /\ UNCHANGED <<link, session, errAge, pc, try, life, history>>

-------------------------------------------------------------------------------
\* Slip: upsLock not released on the return of the connection's error.
LockFreeUnlessDialFailed == pc \in {"idle", "again"} /\ ~ connErr

\* upsLock, which each call of getUpsStatsMetrics holds from its first line to
\* its return.
LockFree == pc \in {"idle", "again"}

\* fetchMetricsWorker calls getUpsStatsMetricsWithRetry.
Begin ==
    /\ pc = "idle" /\ LockFree
    /\ pc' = "gate" /\ try' = 1
    /\ clean' = (daemon = "up")
    /\ UNCHANGED <<daemon, link, session, errAge, life, dialAge, failAge, upFails>>

Finish(ok) ==
    /\ pc' = "idle" /\ try' = 1
    /\ upFails' = IF ok \/ ~ clean' THEN 0 ELSE IF upFails < 2 THEN upFails + 1 ELSE 2

-------------------------------------------------------------------------------
(***************************************************************************)
(* Slips one could make in this code, as variants of the steps they are    *)
(* named for; nothing uses them, every property is checked to catch one.   *)
(***************************************************************************)

\* for { ... } around the retry, or a second chance that grants another.
FinishRetryingForEver == pc' = "again" /\ UNCHANGED <<try, upFails>>

\* getUpsStatsMetrics registered instead of getUpsStatsMetricsWithRetry.
FinishWithoutRetry == Finish(FALSE)

\* The counter is reset as soon as it reaches the limit.
BudgetWithoutAge == IF attempts >= MaxAttempts THEN 0 ELSE attempts

\* upsConnErr not looked at when no attempt was made.
CarryOnAfterFailedDial ==
    /\ pc = "gate" /\ ~ proto /\ attempts >= MaxAttempts /\ errAge < Hour
    /\ pc' = "list"
    /\ UNCHANGED <<daemon, link, session, errAge, try, history>>

\* status.Ups not emptied before the names are appended again.
ListUnitsKeepingNames ==
    /\ pc = "list"
    /\ listed \/ link = "up"
    /\ listed' = TRUE
    /\ pc' = "vars"
    /\ UNCHANGED <<daemon, link, proto, connErr, attempts, shown, errAge, try,
                   history>>

-------------------------------------------------------------------------------
\* Only a broken pipe, and only the first, is tried again.
FinishBrokenPipe ==
    IF try = 1
    THEN pc' = "again" /\ try' = 2 /\ UNCHANGED upFails
    ELSE Finish(FALSE)

Again ==
    /\ pc = "again" /\ LockFree
    /\ pc' = "gate"
    /\ UNCHANGED <<daemon, link, session, errAge, try, history>>

\* The attempts already made, after the hourly reset.
Budget == IF attempts >= MaxAttempts /\ errAge = Hour THEN 0 ELSE attempts

UseConnection ==
    /\ pc = "gate" /\ proto
    /\ pc' = "list"
    /\ UNCHANGED <<daemon, link, session, errAge, try, history>>

DialFails ==
    /\ pc = "gate" /\ ~ proto /\ Budget < MaxAttempts
    /\ daemon = "down"
    /\ attempts' = Budget + 1
    /\ link' = "none" /\ connErr' = TRUE /\ errAge' = 0
    /\ dialAge' = 0
    /\ failAge' = [k \in DOMAIN failAge |-> IF k = 1 THEN 0 ELSE failAge[k - 1]]
    /\ UNCHANGED clean
    /\ Finish(FALSE)
    /\ UNCHANGED <<daemon, proto, listed, shown>>

DialSucceeds ==
    /\ pc = "gate" /\ ~ proto /\ Budget < MaxAttempts
    /\ daemon = "up"
    /\ attempts' = Budget + 1
    /\ link' = "up" /\ connErr' = FALSE
    /\ proto' \in BOOLEAN
    /\ dialAge' = 0
    /\ pc' = "list"
    /\ UNCHANGED <<daemon, errAge, listed, shown, try, failAge, clean, upFails>>

\* No attempt left: the last error is returned, and its timestamp renewed.
GiveUp ==
    /\ pc = "gate" /\ ~ proto /\ Budget >= MaxAttempts
    /\ connErr
    /\ errAge' = 0
    /\ UNCHANGED clean
    /\ Finish(FALSE)
    /\ UNCHANGED <<daemon, link, session, dialAge, failAge>>

\* No attempt left, but the last one succeeded: its connection is used.
CarryOn ==
    /\ pc = "gate" /\ ~ proto /\ Budget >= MaxAttempts
    /\ ~ connErr
    /\ pc' = "list"
    /\ UNCHANGED <<daemon, link, session, errAge, try, history>>

-------------------------------------------------------------------------------
(* The queries, GetUPSList and GetVariables. *)

\* The daemon answers too late, or with ERR: the error is returned, and the
\* connection kept.
LateAnswer ==
    /\ pc \in {"list", "vars"} /\ ~ (pc = "list" /\ listed)
    /\ link = "up"
    /\ clean' = FALSE
    /\ Finish(FALSE)
    /\ UNCHANGED <<daemon, link, session, errAge, dialAge, failAge>>

\* The peer closed the connection: the write succeeds, the read fails.
EndOfFile ==
    /\ pc \in {"list", "vars"} /\ ~ (pc = "list" /\ listed)
    /\ link = "half"
    /\ link' = "dead"
    /\ UNCHANGED clean
    /\ Finish(FALSE)
    /\ UNCHANGED <<daemon, session, errAge, dialAge, failAge>>

\* The write fails: the deferred function logs out (which fails too) and
\* forgets the protocol version; the caller tries once more.
BrokenPipe ==
    /\ pc \in {"list", "vars"} /\ ~ (pc = "list" /\ listed)
    /\ link = "dead"
    /\ proto' = FALSE
    /\ UNCHANGED clean
    /\ FinishBrokenPipe
    /\ UNCHANGED <<daemon, link, connErr, attempts, listed, shown, errAge, dialAge,
                   failAge>>

\* upsList is filled once; with no UPS in it there is nothing more to ask.
ListUnits ==
    /\ pc = "list"
    /\ listed \/ link = "up"
    /\ listed' = TRUE
    /\ UNCHANGED clean
    /\ IF Units = 0
       THEN Finish(TRUE) /\ UNCHANGED shown
       ELSE pc' = "vars" /\ shown' = 0 /\ UNCHANGED <<try, upFails>>
    /\ UNCHANGED <<daemon, link, proto, connErr, attempts, errAge, dialAge, failAge>>

\* One unit: its name goes to the status before its variables are read.
ReadUnit ==
    /\ pc = "vars" /\ link = "up"
    /\ shown' = shown + 1
    /\ UNCHANGED clean
    /\ IF shown' = Units
       THEN Finish(TRUE)
       ELSE UNCHANGED <<pc, try, upFails>>
    /\ UNCHANGED <<daemon, link, proto, connErr, attempts, listed, errAge, dialAge,
                   failAge>>

Step ==
    /\ \/ Again \/ UseConnection \/ DialFails \/ DialSucceeds \/ GiveUp \/ CarryOn
       \/ ListUnits \/ ReadUnit \/ LateAnswer \/ EndOfFile \/ BrokenPipe
    /\ UNCHANGED life

-------------------------------------------------------------------------------
(* The end of the process.                                                  *)

\* A signal cancels the context; Shutdown makes ListenAndServe return at once,
\* whatever handlers still run, and serveHTTP's deferred Close looks at the
\* protocol version, without upsLock.
Signal ==
    /\ life = "serving"
    /\ life' = IF proto THEN "closing" ELSE "leaving"
    /\ UNCHANGED <<daemon, link, session, errAge, pc, try, history>>

\* Close: LOGOUT, upon which the daemon closes the connection.  Its error is
\* ignored, and so is a connection that is gone or was replaced meanwhile.
Close ==
    /\ life = "closing" /\ LockFree
    /\ life' = "leaving"
    /\ link' \in IF link = "up" THEN {"half", "dead"} ELSE {link}
    /\ clean' = FALSE
    /\ UNCHANGED <<daemon, session, errAge, pc, try, dialAge, failAge, upFails>>

\* run returns, os.Exit ends every goroutine.
Exit ==
    /\ life = "leaving"
    /\ life' = "exited"
    /\ UNCHANGED <<daemon, link, session, errAge, pc, try, history>>

\* The service script, or the NAS, launches another process.
Launch ==
    /\ life = "exited"
    /\ life' = "serving" /\ pc' = "idle" /\ try' = 1
    /\ link' = "none" /\ proto' = FALSE /\ connErr' = FALSE
    /\ errAge' = Hour /\ attempts' = 0 /\ listed' = FALSE /\ shown' = 0
    /\ dialAge' = Hour /\ failAge' = [k \in DOMAIN failAge |-> Hour]
    /\ clean' = TRUE /\ upFails' = 0
    /\ UNCHANGED daemon

Next ==
    \/ life # "exited" /\ (Tick \/ DaemonStops \/ DaemonStarts \/ Begin \/ Step)
    \/ Signal \/ Close \/ Exit \/ Launch

\* The collector's goroutine runs, and so does main's, which gets a mutex that
\* is free again and again; nothing obliges the daemon, the clock, the next
\* scrape or a signal to come.
Spec ==
    /\ Init /\ [][Next]_vars
    /\ WF_vars(life # "exited" /\ Step)
    /\ SF_vars(Close) /\ WF_vars(Exit)

-------------------------------------------------------------------------------
TypeOK ==
    /\ daemon \in {"up", "down"}
    /\ link \in {"none", "up", "half", "dead"}
    /\ proto \in BOOLEAN /\ connErr \in BOOLEAN /\ listed \in BOOLEAN
    /\ attempts \in 0 .. MaxAttempts
    /\ errAge \in 0 .. Hour /\ dialAge \in 0 .. Hour
    /\ shown \in 0 .. Units
    /\ pc \in {"idle", "gate", "list", "vars", "again"} /\ try \in {1, 2}
    /\ life \in {"serving", "closing", "leaving", "exited"}
    /\ failAge \in [1 .. MaxAttempts + 1 -> 0 .. Hour]
    /\ clean \in BOOLEAN /\ upFails \in 0 .. 2

\* No query is sent on the zero Client (its connection is nil): every way past
\* the gate without a dial has a connection from an earlier one, and a failed
\* dial, which replaces upsClient by the zero Client, never goes on.
QueryHasConnection == pc \in {"list", "vars"} => link # "none"

\* The daemon is not dialled again and again while it refuses: at most
\* MaxAttempts failed attempts of a process in any hour, although the counter
\* is reset.
FailuresThrottled == failAge[MaxAttempts + 1] = Hour

\* A daemon that came back and answers costs at most one failed scrape (the
\* one that reads end-of-file): the next meets the broken pipe, dials again and
\* succeeds, unless the attempts are used up.
ReconnectsBySecondScrape ==
    [][(pc # "idle" /\ pc' = "idle" /\ upFails >= 1 /\ upFails' = 2)
            => attempts' = MaxAttempts]_vars

\* The collector always returns: a broken pipe is retried once, not for ever.
\* (Scrape.tla assumes this of every collector.)
CollectorReturns == pc # "idle" ~> pc = "idle" \/ life = "exited"

\* A signal ends the process, although Close waits for the lock that a scrape
\* holds while it reconnects to a daemon that stops and starts.
CloseEnds == life = "closing" ~> life = "exited"

\* CHANGELOG.md: "Retry connecting to UPS after 1 hour".  A scrape that finds no
\* connection gives up without dialling only within an hour of the last dial.
RetriesAfterAnHour == [][GiveUp => dialAge < Hour]_vars
===============================================================================
