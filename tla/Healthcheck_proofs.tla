-------------------------- MODULE Healthcheck_proofs --------------------------
(***************************************************************************)
(* Proofs about Healthcheck, for any number of requests, any period and    *)
(* any delay of the scrapes.                                               *)
(*                                                                         *)
(* The expiry is protected by nothing, and the two promises of the pings   *)
(* do not hold of scrapes that overlap (the run healthcheck_overlap).      *)
(* They are proved of every behaviour in which one scrape ends before the  *)
(* next begins, however many goroutines take turns at serving them.        *)
(***************************************************************************)
EXTENDS Healthcheck, FiniteSetTheorems, TLAPS

\* One scrape at a time, as a single Prometheus server makes them.
Serving(r) == pc[r] \notin {"idle", "gone"}
OneAtATime == \A q, r \in Requests : Serving(q) /\ Serving(r) => q = r

\* The calls that have seen the expiry in the past and are yet to advance it.
Ending == {r \in Requests : pc[r] \in {"end", "advance"}}

\* Each of them is granted one period below the lowest expiry so far.
LateInv == late >= - Period * (Cardinality(Requests) - Cardinality(Ending))

IInv == TypeOK /\ LateInv

\* What a single scrape knows: the expiry that let it ping is still past when
\* it comes to the end ping, unless it has given that one.  A start
\* without an end has its end still to come, or was cut short.
PendingInv ==
    /\ last # "none" => config = "healthchecks.io"
    /\ \A r \in Requests :
        /\ pc[r] = "start" => late > 0 /\ config = "healthchecks.io"
        /\ pc[r] = "end" => late > 0 /\ config = "healthchecks.io"
        /\ pc[r] = "advance" =>
            /\ late > 0
            /\ config = "healthchecks.io" =>
                sinceEnd = 0 /\ (last # "start" \/ endLost)
    /\ last = "start" /\ ~ endLost /\ ~ cutShort =>
        /\ late > 0
        /\ \E r \in Requests : pc[r] \in {"start", "collect", "check", "end"}

\* The time of the last end ping is remembered by the expiry, one period later.
RationInv == config = "healthchecks.io" => sinceEnd <= late + Period

SerialInv == TypeOK /\ PendingInv /\ RationInv

-------------------------------------------------------------------------------
\* Every step of the program, one case per action.
LEMMA NextCases ==
    ASSUME [Next]_vars
    PROVE  \/ UNCHANGED vars
           \/ Tick \/ Exit \/ Launch
           \/ \E r \in Requests :
                 \/ Arrive(r) \/ StartPing(r) \/ Collect(r) \/ CollectPanics(r)
                 \/ Check(r) \/ EndPing(r) \/ Advance(r)
BY DEF Next, Handle

\* The requests that are about to advance the expiry can be counted.
LEMMA EndingFinite ==
    /\ IsFiniteSet(Ending)
    /\ Cardinality(Ending) \in Nat /\ Cardinality(Requests) \in Nat
    /\ Cardinality(Ending) <= Cardinality(Requests)
<1>1. Ending \in SUBSET Requests
    BY DEF Ending
<1> QED  BY <1>1, HealthcheckAssumption, FS_Subset, FS_CardinalityType

\* One more call in progress, one period more of room, and the reverse.
LEMMA PeriodTimes ==
    ASSUME NEW n \in Int
    PROVE  - Period * (n + 1) = - Period * n - Period
BY HealthcheckAssumption

-------------------------------------------------------------------------------
\* Steps that neither begin nor end an end ping.
LEMMA LateStays ==
    ASSUME TypeOK, LateInv, late' >= late, late' \in Int, Ending' = Ending
    PROVE  LateInv'
<1>1. - Period * (Cardinality(Requests) - Cardinality(Ending)) \in Int
    BY EndingFinite, HealthcheckAssumption
<1> QED  BY <1>1 DEF LateInv, TypeOK

\* Every advance of the expiry is paid for by a request that found it past.
LEMMA LateNext ==
    ASSUME IInv, [Next]_vars
    PROVE  LateInv' /\ late' \in - Period * Cardinality(Requests) .. MaxLate
<1> USE DEF IInv
<1>0. /\ late \in Int /\ late <= MaxLate /\ MaxLate \in Nat
      /\ Period \in Nat \ {0}
      /\ Cardinality(Requests) \in Nat /\ Cardinality(Ending) \in Nat
      /\ - Period * Cardinality(Requests) \in Int
    BY HealthcheckAssumption, EndingFinite DEF TypeOK
<1>1. ASSUME late' = late, Ending' = Ending
      PROVE  LateInv' /\ late' \in - Period * Cardinality(Requests) .. MaxLate
    BY <1>1, <1>0, LateStays DEF TypeOK
<1>2. CASE UNCHANGED vars
    BY <1>1, <1>2 DEF vars, history, Ending
<1>7. /\ - Period * Cardinality(Requests)
            <= - Period * (Cardinality(Requests) - Cardinality(Ending))
      /\ - Period * Cardinality(Requests) <= 0
    <2> DEFINE n == Cardinality(Requests) - Cardinality(Ending)
    <2>1. n \in Nat /\ n <= Cardinality(Requests)
        BY <1>0, EndingFinite
    <2> HIDE DEF n
    <2>2. - Period * Cardinality(Requests) <= - Period * n
        BY <2>1, <1>0
    <2> QED  BY <2>2, <1>0 DEF n
<1>8. CASE Exit \/ Launch
    <2>1. Ending' = {} /\ late' \in {late, 0}
        BY <1>8 DEF Exit, Launch, Ending
    <2>2. Cardinality(Ending') = 0 /\ Cardinality(Requests)' = Cardinality(Requests)
        BY <2>1, FS_EmptySet
    <2>3. late >= - Period * (Cardinality(Requests) - Cardinality(Ending))
        BY DEF LateInv
    <2>4. - Period * (Cardinality(Requests) - Cardinality(Ending)) \in Int
        BY <1>0
    <2>5. late' >= - Period * Cardinality(Requests) /\ late' <= MaxLate /\ late' \in Int
        BY <2>1, <2>3, <2>4, <1>7, <1>0
    <2> QED  BY <2>2, <2>5, <1>0 DEF LateInv
<1>3. CASE Tick
    <2>1. late' = late + 1 /\ late < MaxLate /\ Ending' = Ending
        BY <1>3 DEF Tick, Ending
    <2>2. LateInv'
        BY <2>1, <1>0, LateStays
    <2> QED  BY <2>1, <2>2, <1>0 DEF TypeOK
<1>4. ASSUME NEW r \in Requests,
             Arrive(r) \/ StartPing(r) \/ Collect(r) \/ CollectPanics(r) \/ EndPing(r)
      PROVE  LateInv' /\ late' \in - Period * Cardinality(Requests) .. MaxLate
    <2>1. late' = late /\ Ending' = Ending
        BY <1>4 DEF Arrive, StartPing, Collect, CollectPanics, EndPing, Goto, Ending, TypeOK
    <2> QED  BY <2>1, <1>1
<1>5. ASSUME NEW r \in Requests, Check(r)
      PROVE  LateInv' /\ late' \in - Period * Cardinality(Requests) .. MaxLate
    <2>1. CASE ~ Due
        <3>1. late' = late /\ pc[r] = "check" /\ pc' = [pc EXCEPT ![r] = "idle"]
            BY <1>5, <2>1 DEF Check, Goto
        <3>2. Ending' = Ending
            BY <3>1 DEF Ending, TypeOK
        <3> QED  BY <3>1, <3>2, <1>1
    <2>2. CASE Due
        <3>1. late' = late /\ late > 0
            BY <1>5, <2>2 DEF Check, Due
        <3>2. Cardinality(Ending') \in Nat
              /\ Cardinality(Ending') <= Cardinality(Requests)
            <4>1. Ending' \in SUBSET Requests
                BY DEF Ending
            <4> QED  BY <4>1, HealthcheckAssumption, FS_Subset, FS_CardinalityType
        <3>3. - Period * (Cardinality(Requests) - Cardinality(Ending')) <= 0
            <4> DEFINE n == Cardinality(Requests) - Cardinality(Ending')
            <4>1. n \in Nat
                BY <3>2, <1>0
            <4> HIDE DEF n
            <4>2. - Period * n <= 0
                BY <4>1, <1>0
            <4> QED  BY <4>2 DEF n
        <3>4. LateInv'
            BY <3>1, <3>2, <3>3, <1>0 DEF LateInv
        <3> QED  BY <3>1, <3>4, <1>0 DEF TypeOK
    <2> QED  BY <2>1, <2>2
<1>6. ASSUME NEW r \in Requests, Advance(r)
      PROVE  LateInv' /\ late' \in - Period * Cardinality(Requests) .. MaxLate
    <2>1. Ending' = Ending \ {r} /\ r \in Ending
        BY <1>6 DEF Advance, Goto, Ending, TypeOK
    <2>2. Cardinality(Ending') = Cardinality(Ending) - 1
        BY <2>1, EndingFinite, FS_RemoveElement
    <2>3. late' \in {late, late - Period}
        BY <1>6 DEF Advance
    <2> DEFINE n == Cardinality(Requests) - Cardinality(Ending)
               m == Cardinality(Requests) - Cardinality(Ending')
    <2>4. n \in Int /\ m = n + 1 /\ n \in Nat
        BY <2>2, <1>0, EndingFinite
    <2>5. late >= - Period * n
        BY DEF LateInv
    <2> HIDE DEF n, m
    <2>6. - Period * m = - Period * n - Period
        BY <2>4, PeriodTimes
    <2>7. - Period * n \in Int
        BY <2>4, <1>0
    <2>8. late' >= - Period * m /\ late' <= MaxLate /\ late' \in Int
        BY <2>3, <2>5, <2>6, <2>7, <1>0
    <2>9. - Period * m >= - Period * Cardinality(Requests)
        <3>1. m <= Cardinality(Requests) /\ m \in Nat
            BY <2>1, <2>2, <2>4, <1>0, EndingFinite, FS_EmptySet DEF m, n
        <3> QED  BY <3>1, <1>0
    <2> QED  BY <2>8, <2>9, <2>4, <1>0 DEF LateInv, m
<1> QED  BY <1>2, <1>3, <1>4, <1>5, <1>6, <1>8, NextCases

\* Types; the bound of the expiry is the one of LateInv.
LEMMA TypeNext ==
    ASSUME IInv, [Next]_vars
    PROVE  TypeOK'
<1>1. late' \in - Period * Cardinality(Requests) .. MaxLate
    BY LateNext
<1> USE HealthcheckAssumption DEF IInv, TypeOK, Goto, history
<1>2. CASE UNCHANGED vars
    BY <1>1, <1>2 DEF vars, history
<1>3. CASE Tick
    BY <1>1, <1>3 DEF Tick
<1>4. ASSUME NEW r \in Requests, Arrive(r)  PROVE TypeOK'
    BY <1>1, <1>4 DEF Arrive, Due
<1>5. ASSUME NEW r \in Requests, StartPing(r)  PROVE TypeOK'
    BY <1>1, <1>5 DEF StartPing
<1>6. ASSUME NEW r \in Requests, Collect(r)  PROVE TypeOK'
    BY <1>1, <1>6 DEF Collect
<1>7. ASSUME NEW r \in Requests, Check(r)  PROVE TypeOK'
    BY <1>1, <1>7 DEF Check
<1>8. ASSUME NEW r \in Requests, EndPing(r)  PROVE TypeOK'
    <2>1. failed[r] \in BOOLEAN
        BY Zenon
    <2>2. last' \in {"none", "start", "success", "fail"} /\ endLost' \in BOOLEAN
        BY <1>8, <2>1 DEF EndPing
    <2>3. failed' \in [Requests -> BOOLEAN]
        BY <1>8, Zenon DEF EndPing
    <2>4. pc' \in [Requests ->
                      {"idle", "start", "collect", "check", "end", "advance", "gone"}]
        BY <1>8 DEF EndPing
    <2> QED  BY <1>1, <1>8, <2>2, <2>3, <2>4 DEF EndPing
<1>9. ASSUME NEW r \in Requests, Advance(r)  PROVE TypeOK'
    BY <1>1, <1>9 DEF Advance
<1>10. ASSUME NEW r \in Requests, CollectPanics(r)  PROVE TypeOK'
    BY <1>1, <1>10 DEF CollectPanics
<1>11. CASE Exit
    BY <1>1, <1>11 DEF Exit
<1>12. CASE Launch
    <2>1. failed' \in [Requests -> BOOLEAN]
        BY <1>12, Zenon DEF Launch
    <2> QED  BY <1>1, <1>12, <2>1 DEF Launch
<1> QED  BY <1>2, <1>3, <1>4, <1>5, <1>6, <1>7, <1>8, <1>9, <1>10, <1>11, <1>12,
            NextCases

\* The invariant holds when the program starts.
LEMMA TypeInit == Init => IInv
<1> SUFFICES ASSUME Init  PROVE IInv
    OBVIOUS
<1>1. Ending = {}
    BY DEF Init, Ending
<1>2. Cardinality(Ending) = 0 /\ Cardinality(Requests) \in Nat
    BY <1>1, FS_EmptySet, EndingFinite
<1>3. - Period * Cardinality(Requests) <= 0 /\ - Period * Cardinality(Requests) \in Int
    BY <1>2, HealthcheckAssumption
<1>4. LateInv
    BY <1>2, <1>3 DEF Init, LateInv
<1>5. late \in - Period * Cardinality(Requests) .. MaxLate
    BY <1>3, HealthcheckAssumption DEF Init
<1>6. failed \in [Requests -> BOOLEAN] /\ endLost \in BOOLEAN /\ cutShort \in BOOLEAN
    BY Zenon DEF Init
<1>7. sinceEnd \in 0 .. Period + 1
    BY HealthcheckAssumption DEF Init
<1> QED  BY <1>4, <1>5, <1>6, <1>7 DEF Init, IInv, TypeOK

\* The type invariant of the pings: overlapping requests may advance the expiry
\* once each, so that it is never more than one period per request ahead.
THEOREM TypeCorrect == Spec => []TypeOK
<1>1. IInv /\ [Next]_vars => IInv'
    BY TypeNext, LateNext DEF IInv
<1>2. IInv => TypeOK
    BY DEF IInv
<1> QED  BY TypeInit, <1>1, <1>2, PTL DEF Spec

-------------------------------------------------------------------------------
\* A step of one request leaves the place of the others alone.
LEMMA Others ==
    ASSUME TypeOK, NEW r \in Requests, NEW l, Goto(r, l)
    PROVE  /\ pc'[r] = l
           /\ \A q \in Requests : q # r => pc'[q] = pc[q]
BY DEF TypeOK, Goto

\* While requests come one at a time, a started ping is the one being ended.
LEMMA PendingNext ==
    ASSUME SerialInv, OneAtATime, [Next]_vars
    PROVE  PendingInv'
<1> USE DEF SerialInv, history
<1>0. late \in Int /\ Period \in Nat \ {0}
    BY HealthcheckAssumption, EndingFinite DEF TypeOK
<1>1. CASE UNCHANGED vars
    BY <1>1 DEF vars, history, PendingInv
<1>2. CASE Tick
    BY <1>0, <1>2 DEF Tick, PendingInv
<1>3. ASSUME NEW r \in Requests, Arrive(r)  PROVE PendingInv'
    <2>1. /\ pc[r] = "idle" /\ pc'[r] \in {"start", "collect"}
          /\ pc'[r] = "start" => late > 0 /\ config = "healthchecks.io"
          /\ cutShort' = (cutShort /\ ~ Due)
          /\ \A q \in Requests : q # r => pc'[q] = pc[q]
        BY <1>3, Others DEF Arrive, Due
    <2>2. last = "start" /\ ~ endLost /\ ~ cutShort' => late > 0
        BY <2>1 DEF Due, PendingInv
    <2> QED  BY <2>1, <2>2, <1>3 DEF Arrive, PendingInv
<1>4. ASSUME NEW r \in Requests, StartPing(r)  PROVE PendingInv'
    <2>1. /\ pc[r] = "start" /\ pc'[r] = "collect"
          /\ \A q \in Requests : q # r => pc'[q] = pc[q]
        BY <1>4, Others DEF StartPing
    <2>2. \A q \in Requests : q # r => pc[q] \in {"idle", "gone"}
        BY <2>1 DEF OneAtATime, Serving
    <2> QED  BY <2>1, <2>2, <1>4 DEF StartPing, PendingInv
<1>5. ASSUME NEW r \in Requests, Collect(r)  PROVE PendingInv'
    <2>1. /\ pc[r] = "collect" /\ pc'[r] = "check"
          /\ \A q \in Requests : q # r => pc'[q] = pc[q]
        BY <1>5, Others DEF Collect
    <2> QED  BY <2>1, <1>5 DEF Collect, PendingInv
<1>6. ASSUME NEW r \in Requests, Check(r)  PROVE PendingInv'
    <2>1. /\ pc[r] = "check"
          /\ pc'[r] = IF ~ Due THEN "idle"
                      ELSE IF config = "healthchecks.io" THEN "end" ELSE "advance"
          /\ \A q \in Requests : q # r => pc'[q] = pc[q]
        BY <1>6, Others DEF Check
    <2> QED  BY <2>1, <1>6 DEF Check, Due, PendingInv
<1>7. ASSUME NEW r \in Requests, EndPing(r)  PROVE PendingInv'
    <2>1. /\ pc[r] = "end" /\ pc'[r] = "advance"
          /\ \A q \in Requests : q # r => pc'[q] = pc[q]
        BY <1>7, Others DEF EndPing
    <2>2. \A q \in Requests : q # r => pc[q] \in {"idle", "gone"}
        BY <2>1 DEF OneAtATime, Serving
    <2>3. /\ late' = late /\ config' = config /\ sinceEnd' = 0
          /\ last' # "start" \/ endLost'
        BY <1>7 DEF EndPing
    <2> QED  BY <2>1, <2>2, <2>3 DEF PendingInv
<1>8. ASSUME NEW r \in Requests, Advance(r)  PROVE PendingInv'
    <2>1. /\ pc[r] = "advance" /\ pc'[r] = "idle"
          /\ \A q \in Requests : q # r => pc'[q] = pc[q]
        BY <1>8, Others DEF Advance
    <2>2. \A q \in Requests : pc'[q] \in {"idle", "gone"}
        BY <2>1 DEF OneAtATime, Serving
    <2>3. last # "start" \/ endLost
        BY <2>1 DEF PendingInv
    <2> QED  BY <2>2, <2>3, <1>8 DEF Advance, PendingInv
<1>9. ASSUME NEW r \in Requests, CollectPanics(r)  PROVE PendingInv'
    <2>1. /\ pc'[r] = "idle"
          /\ \A q \in Requests : q # r => pc'[q] = pc[q]
        BY <1>9, Others DEF CollectPanics
    <2> QED  BY <2>1, <1>9 DEF CollectPanics, PendingInv
<1>10. CASE Exit
    <2>1. \A q \in Requests : pc'[q] = "gone"
        BY <1>10 DEF Exit
    <2>2. ~ cutShort' => ~ cutShort /\ \A q \in Requests : pc[q] = "idle"
        BY <1>10 DEF Exit
    <2> QED  BY <2>1, <2>2, <1>10 DEF Exit, PendingInv
<1>11. CASE Launch
    <2>1. \A q \in Requests : pc[q] = "gone" /\ pc'[q] = "idle"
        BY <1>11 DEF Launch
    <2> QED  BY <2>1, <1>11 DEF Launch, PendingInv
<1> QED  BY <1>1, <1>2, <1>3, <1>4, <1>5, <1>6, <1>7, <1>8, <1>9, <1>10, <1>11,
            NextCases

\* Only the clock and the two steps that end a ping move either side.
LEMMA RationNext ==
    ASSUME SerialInv, OneAtATime, [Next]_vars
    PROVE  RationInv'
<1> USE DEF SerialInv, history
<1>0. late \in Int /\ sinceEnd \in Int /\ Period \in Nat \ {0}
    BY HealthcheckAssumption, EndingFinite DEF TypeOK
<1>1. CASE UNCHANGED <<config, late, sinceEnd>>
    BY <1>1 DEF RationInv
<1>2. CASE UNCHANGED vars
    BY <1>1, <1>2 DEF vars, history
<1>3. CASE Tick
    BY <1>0, <1>3 DEF Tick, RationInv
<1>4. ASSUME NEW r \in Requests,
             Arrive(r) \/ StartPing(r) \/ Collect(r) \/ CollectPanics(r) \/ Check(r)
      PROVE  RationInv'
    BY <1>4, <1>1 DEF Arrive, StartPing, Collect, CollectPanics, Check
<1>5. ASSUME NEW r \in Requests, EndPing(r)  PROVE RationInv'
    BY <1>0, <1>5 DEF EndPing, PendingInv, RationInv
<1>6. ASSUME NEW r \in Requests, Advance(r)  PROVE RationInv'
    <2>1. late > 0 /\ (config = "healthchecks.io" => sinceEnd = 0)
        BY <1>6 DEF Advance, PendingInv
    <2>2. /\ late' = late - Period \/ late' = late
          /\ sinceEnd' = sinceEnd /\ config' = config
        BY <1>6 DEF Advance
    <2>3. late' + Period >= 0
        BY <1>0, <2>1, <2>2
    <2> QED  BY <2>1, <2>2, <2>3 DEF RationInv
<1>7. CASE Exit
    BY <1>7, <1>1 DEF Exit
<1>8. CASE Launch
    BY <1>8, <1>0 DEF Launch, RationInv
<1> QED  BY <1>2, <1>3, <1>4, <1>5, <1>6, <1>7, <1>8, NextCases

\* The serial parts hold when the program starts.
LEMMA SerialInit == Init => PendingInv /\ RationInv
BY HealthcheckAssumption DEF Init, PendingInv, RationInv

\* While requests come one at a time, the serial invariant holds.
LEMMA SerialInvariant == Spec /\ []OneAtATime => []SerialInv
<1>1. Init => SerialInv
    BY TypeInit, SerialInit DEF IInv, SerialInv
<1>2. SerialInv /\ OneAtATime /\ TypeOK' /\ [Next]_vars => SerialInv'
    BY PendingNext, RationNext DEF SerialInv
<1> QED  BY TypeCorrect, <1>1, <1>2, PTL DEF Spec

\* The rationing grants both pings of a scrape or neither: between the two looks
\* at the expiry only the clock can move it, and only further into the past.  A
\* scrape that a panic or the end of the process cuts short leaves the expiry in
\* the past, or the next launch will find it so: the next scrape that may ping
\* sends the end that is missing.
THEOREM StartedIsEnded == Spec /\ []OneAtATime => []NotLeftRunning
<1>1. SerialInv => NotLeftRunning
    BY DEF SerialInv, PendingInv, NotLeftRunning
<1> QED  BY SerialInvariant, <1>1, PTL

\* The flag's promise of a ping every five minutes: the expiry never outlives
\* the last end ping by more than the period.
THEOREM PingedEveryPeriod == Spec /\ []OneAtATime => PingsEveryPeriod
<1> DEFINE P == \A r \in Requests :
                    pc[r] = "check" /\ pc'[r] = "idle" /\ config = "healthchecks.io"
                        => sinceEnd <= Period
<1>1. SerialInv /\ [Next]_vars => [P]_vars
    <2> SUFFICES ASSUME SerialInv, [Next]_vars,
                        NEW r \in Requests, pc[r] = "check", pc'[r] = "idle",
                        config = "healthchecks.io"
                 PROVE  sinceEnd <= Period
        OBVIOUS
    <2> USE DEF SerialInv
    <2>1. Check(r)
        <3>1. ASSUME NEW q \in Requests, NEW l, Goto(q, l)  PROVE q = r /\ l = "idle"
            BY <3>1, Others
        <3>2. ~ UNCHANGED vars /\ ~ Tick /\ ~ Exit /\ ~ Launch
            BY DEF vars, history, Tick, Exit, Launch
        <3>3. PICK q \in Requests :
                 \/ Arrive(q) \/ StartPing(q) \/ Collect(q) \/ CollectPanics(q)
                 \/ Check(q) \/ EndPing(q) \/ Advance(q)
            BY <3>2, NextCases
        <3>4. q = r
            BY <3>1, <3>3
               DEF Arrive, StartPing, Collect, CollectPanics, Check, EndPing, Advance
        <3> QED
            BY <3>3, <3>4
               DEF Arrive, StartPing, Collect, CollectPanics, EndPing, Advance
    <2>2. ~ Due
        BY <2>1, Others DEF Check
    <2>3. late \in Int /\ sinceEnd \in Int /\ Period \in Nat
        BY HealthcheckAssumption, EndingFinite DEF TypeOK
    <2> QED  BY <2>2, <2>3 DEF Due, RationInv
<1> QED  BY SerialInvariant, <1>1, PTL DEF Spec, PingsEveryPeriod

===============================================================================
