------------------------------ MODULE Healthcheck ------------------------------
(***************************************************************************)
(* handleHealthcheck (main.go), called by every /metrics request before    *)
(* and after WriteMetrics: pings to healthchecks.io, rationed by the       *)
(* global healthCheckExpiry, which nothing protects.                       *)
(*                                                                         *)
(* Time is relative: late is time.Now() - healthCheckExpiry in ticks, and  *)
(* sinceEnd the time since the last ping of handleHealthcheckEnd.          *)
(* WriteMetrics is Collect and CollectPanics here; Scrape.tla is its       *)
(* model.  The process may end at any time and is launched again.  A       *)
(* service other than healthchecks.io passes the configuration test and    *)
(* pings nothing.                                                          *)
(***************************************************************************)
EXTENDS Integers, FiniteSets

CONSTANTS Requests,  \* /metrics requests
          Period,    \* healthCheckValidity, five minutes in ticks
          MaxLate    \* BOUND: how late the exporter is scraped

ASSUME HealthcheckAssumption ==
    /\ IsFiniteSet(Requests)
    /\ Period \in Nat \ {0} /\ MaxLate \in Nat

VARIABLES
    config,    \* the flag: "none", "malformed", "unknown" or "healthchecks.io"
    late,      \* time.Now() - healthCheckExpiry
    pc,        \* per request: "idle", "start", "collect", "check", "end", "advance",
               \* "gone" while no process runs
    failed,    \* per request: WriteMetrics returned an error
    last,      \* external: the ping the service received last, "none" at first
    endLost,   \* history: the last end ping did not arrive
    cutShort,  \* history: a scrape ended by a panic, or with the process, and none
               \* that may ping has begun since
    sinceEnd   \* history: time since the last end ping or the launch, at most Period + 1

history == <<endLost, cutShort, sinceEnd>>
vars == <<config, late, pc, failed, last, history>>

Init ==
    /\ config \in {"none", "malformed", "unknown", "healthchecks.io"}
    /\ late = 0
    /\ pc = [r \in Requests |-> "idle"]
    /\ failed = [r \in Requests |-> FALSE]
    /\ last = "none" /\ endLost = FALSE /\ cutShort = FALSE /\ sinceEnd = 0

Goto(r, label) == pc' = [pc EXCEPT ![r] = label]

\* A tick is long: a ping takes 5 s at most and the other steps no time, only a
\* collection lasts.
Tick ==
    /\ late < MaxLate
    /\ \A r \in Requests : pc[r] \in {"idle", "collect", "gone"}
    /\ late' = late + 1
    /\ sinceEnd' = IF sinceEnd > Period THEN sinceEnd ELSE sinceEnd + 1
    /\ UNCHANGED <<config, pc, failed, last, endLost, cutShort>>

-------------------------------------------------------------------------------
\* The call gets past its three early returns.
Due == config \in {"unknown", "healthchecks.io"} /\ late > 0

\* handleHealthcheckStart: nothing is advanced, whatever was sent.
Arrive(r) ==
    /\ pc[r] = "idle"
    /\ Goto(r, IF Due /\ config = "healthchecks.io" THEN "start" ELSE "collect")
    /\ cutShort' = (cutShort /\ ~ Due)
    /\ UNCHANGED <<config, late, failed, last, endLost, sinceEnd>>

\* Slip: the start ping uses up the period.
StartPingAdvancing(r) ==
    /\ pc[r] = "start"
    /\ last' \in {last, "start"}
    /\ late' = late - Period
    /\ Goto(r, "collect")
    /\ UNCHANGED <<config, failed, history>>

\* HEAD .../start; its error, and a timeout, are only logged.
StartPing(r) ==
    /\ pc[r] = "start"
    /\ last' \in {last, "start"}
    /\ Goto(r, "collect")
    /\ UNCHANGED <<config, late, failed, history>>

Collect(r) ==
    /\ pc[r] = "collect"
    /\ failed' \in {[failed EXCEPT ![r] = err] : err \in BOOLEAN}
    /\ Goto(r, "check")
    /\ UNCHANGED <<config, late, last, history>>

\* A panic of WriteMetrics (readEnclosures) leaves the handler, which does not
\* defer its second call; net/http recovers.
CollectPanics(r) ==
    /\ pc[r] = "collect"
    /\ cutShort' = TRUE
    /\ Goto(r, "idle")
    /\ UNCHANGED <<config, late, failed, last, endLost, sinceEnd>>

\* Slip: the expiry is not looked at again after the collection.
CheckAlwaysDue(r) ==
    /\ pc[r] = "check"
    /\ Goto(r, IF config = "healthchecks.io" THEN "end" ELSE "advance")
    /\ UNCHANGED <<config, late, failed, last, history>>

\* handleHealthcheckEnd looks at the expiry again, perhaps minutes later.
Check(r) ==
    /\ pc[r] = "check"
    /\ Goto(r, IF ~ Due THEN "idle"
               ELSE IF config = "healthchecks.io" THEN "end" ELSE "advance")
    /\ UNCHANGED <<config, late, failed, last, history>>

\* HEAD, or POST .../fail with the error; its own error is only logged.
EndPing(r) ==
    /\ pc[r] = "end"
    /\ \/ last' = (IF failed[r] THEN "fail" ELSE "success") /\ endLost' = FALSE
       \/ last' = last /\ endLost' = TRUE
    /\ sinceEnd' = 0
    /\ Goto(r, "advance")
    /\ UNCHANGED <<config, late, failed, cutShort>>

\* healthCheckExpiry = healthCheckExpiry.Add(healthCheckValidity): from the old
\* expiry, not from now.  Two of these at once may lose one.
Advance(r) ==
    /\ pc[r] = "advance"
    /\ late' \in {late - Period} \cup
                 IF \E g \in Requests \ {r} : pc[g] = "advance" THEN {late} ELSE {}
    /\ failed' = [failed EXCEPT ![r] = FALSE]
    /\ Goto(r, "idle")
    /\ UNCHANGED <<config, last, history>>

Handle(r) ==
    \/ Arrive(r) \/ StartPing(r)
    \/ Collect(r) \/ CollectPanics(r)
    \/ Check(r) \/ EndPing(r) \/ Advance(r)

\* A panic in a worker, which nobody recovers, or os.Exit, which waits for no
\* handler: the requests in progress end wherever they are.
Exit ==
    /\ \E r \in Requests : pc[r] # "gone"
    /\ pc' = [r \in Requests |-> "gone"]
    /\ cutShort' = (cutShort \/ \E r \in Requests : pc[r] # "idle")
    /\ UNCHANGED <<config, late, failed, last, endLost, sinceEnd>>

\* Another process starts: healthCheckExpiry = time.Now().
Launch ==
    /\ \A r \in Requests : pc[r] = "gone"
    /\ pc' = [r \in Requests |-> "idle"]
    /\ late' = 0
    /\ failed' = [r \in Requests |-> FALSE]
    /\ sinceEnd' = 0
    /\ UNCHANGED <<config, last, endLost, cutShort>>

Next == Tick \/ Exit \/ Launch \/ \E r \in Requests : Handle(r)

Spec == Init /\ [][Next]_vars

-------------------------------------------------------------------------------
\* The expiry is at most one period per request ahead of the clock.
TypeOK ==
    /\ config \in {"none", "malformed", "unknown", "healthchecks.io"}
    /\ late \in - Period * Cardinality(Requests) .. MaxLate
    /\ pc \in [Requests ->
                 {"idle", "start", "collect", "check", "end", "advance", "gone"}]
    /\ failed \in [Requests -> BOOLEAN]
    /\ last \in {"none", "start", "success", "fail"}
    /\ endLost \in BOOLEAN /\ cutShort \in BOOLEAN /\ sinceEnd \in 0 .. Period + 1

\* A service that was told of a start is told of its end, unless the end was
\* lost on the way, or the scrape was cut short: the rationing, consulted twice
\* with a collection between, never grants the first ping and refuses the second.
\* What a panic or the end of the process left open, in the middle of a scrape or
\* of its pings, the next scrape that may ping closes.
NotLeftRunning ==
    (\A r \in Requests : pc[r] = "idle") => last # "start" \/ endLost \/ cutShort

\* main.go, -healthcheck: "Healthcheck service to ping every 5 minutes".  A
\* scrape that ends more than five minutes after the last ping sends one.
PingsEveryPeriod ==
    [][\A r \in Requests :
           pc[r] = "check" /\ pc'[r] = "idle" /\ config = "healthchecks.io"
               => sinceEnd <= Period]_vars
===============================================================================
