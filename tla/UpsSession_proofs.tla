--------------------------- MODULE UpsSession_proofs ---------------------------
(***************************************************************************)
(* Proofs about UpsSession, for any limit of attempts, any length of the   *)
(* hour and any number of units.                                           *)
(*                                                                         *)
(* The inductive invariant IInv has three parts beside TypeOK:             *)
(*   LinkInv    the zero Client is behind a session that was never dialled *)
(*              or whose last dial failed;                                 *)
(*   BudgetInv  the counter of attempts covers the failures of the last    *)
(*              hour, although it is reset, because its reset waits for    *)
(*              the youngest of them to be an hour old;                    *)
(*   CleanInv   what a daemon that stays up and prompt leaves behind after *)
(*              a scrape that failed.                                      *)
(***************************************************************************)
EXTENDS UpsSession, TLAPS

LinkInv ==
    /\ link = "none" => ~ proto /\ (attempts > 0 => connErr)
    /\ connErr => link = "none"
    /\ pc \in {"list", "vars"} => link # "none"
    /\ pc = "vars" => shown < Units

BudgetInv ==
    \A k \in 1 .. MaxAttempts + 1 :
        /\ k > attempts => failAge[k] = Hour
        /\ failAge[k] >= errAge

CleanInv ==
    /\ pc # "idle" /\ clean => daemon = "up"
    /\ pc = "again" => try = 2
    /\ pc \in {"again", "gate"} /\ try = 2 => ~ proto
    /\ pc \in {"list", "vars"} /\ try = 2 /\ clean =>
           link = "up" \/ attempts = MaxAttempts
    /\ upFails >= 1 /\ (pc = "idle" \/ clean) => link # "half"
    /\ upFails >= 1 /\ pc = "idle" => link # "up"

IInv == TypeOK /\ LinkInv /\ BudgetInv /\ CleanInv

-------------------------------------------------------------------------------
\* Every step of the program, one case per action.
LEMMA NextCases ==
    ASSUME [Next]_vars
    PROVE  \/ UNCHANGED vars
           \/ Tick \/ DaemonStops \/ DaemonStarts \/ Begin
           \/ Again \/ UseConnection \/ DialFails \/ DialSucceeds \/ GiveUp \/ CarryOn
           \/ ListUnits \/ ReadUnit \/ LateAnswer \/ EndOfFile \/ BrokenPipe
           \/ Signal \/ Close \/ Exit \/ Launch
BY DEF Next, Step

\* An age grows up to the hour that is looked at.
LEMMA OlderType ==
    ASSUME NEW age \in 0 .. Hour
    PROVE  Older(age) \in 0 .. Hour /\ Older(age) >= age
BY UpsAssumption DEF Older

\* The attempts and the units shown stay within their bounds.
LEMMA TypeNext ==
    ASSUME TypeOK, LinkInv, [Next]_vars
    PROVE  TypeOK'
<1> USE UpsAssumption DEF TypeOK, LinkInv, session, history, Finish
<1>0. life' \in {"serving", "closing", "leaving", "exited"}
    BY DEF Next, Step, Tick, DaemonStops, DaemonStarts, Begin, Signal, Close, Exit,
           Launch, vars
<1>1. CASE UNCHANGED vars
    BY <1>0, <1>1 DEF vars, session, history
<1>2. CASE Tick
    BY <1>2, OlderType DEF Tick
<1>3. CASE DaemonStops
    BY <1>0, <1>3 DEF DaemonStops
<1>4. CASE DaemonStarts
    BY <1>0, <1>4 DEF DaemonStarts
<1>5. CASE Begin
    BY <1>0, <1>5 DEF Begin
<1>6. CASE Again
    BY <1>0, <1>6 DEF Again
<1>7. CASE UseConnection
    BY <1>0, <1>7 DEF UseConnection
<1>8. CASE DialFails
    BY <1>0, <1>8 DEF DialFails, Budget
<1>9. CASE DialSucceeds
    <2>1. /\ proto' \in BOOLEAN /\ connErr' \in BOOLEAN
          /\ listed' \in BOOLEAN /\ clean' \in BOOLEAN
        BY <1>9, Zenon DEF DialSucceeds
    <2>2. failAge' \in [1 .. MaxAttempts + 1 -> 0 .. Hour]
        BY <1>9 DEF DialSucceeds
    <2>3. pc' \in {"idle", "gate", "list", "vars", "again"} /\ upFails' \in 0 .. 2
        BY <1>9 DEF DialSucceeds, Budget
    <2> QED  BY <1>0, <1>9, <2>1, <2>2, <2>3 DEF DialSucceeds, Budget
<1>10. CASE GiveUp
    BY <1>0, <1>10 DEF GiveUp, Budget
<1>11. CASE CarryOn
    BY <1>0, <1>11 DEF CarryOn, Budget
<1>12. CASE ListUnits
    BY <1>0, <1>12 DEF ListUnits
<1>13. CASE ReadUnit
    BY <1>0, <1>13 DEF ReadUnit
<1>14. CASE LateAnswer
    <2>1. /\ proto' \in BOOLEAN /\ connErr' \in BOOLEAN
          /\ listed' \in BOOLEAN /\ clean' \in BOOLEAN
        BY <1>14, Zenon DEF LateAnswer
    <2>2. failAge' \in [1 .. MaxAttempts + 1 -> 0 .. Hour]
        BY <1>14 DEF LateAnswer
    <2>3. pc' \in {"idle", "gate", "list", "vars", "again"} /\ upFails' \in 0 .. 2
        BY <1>14 DEF LateAnswer
    <2> QED  BY <1>0, <1>14, <2>1, <2>2, <2>3 DEF LateAnswer
<1>15. CASE EndOfFile
    BY <1>0, <1>15 DEF EndOfFile
<1>16. CASE BrokenPipe
    <2>1. /\ proto' \in BOOLEAN /\ connErr' \in BOOLEAN
          /\ listed' \in BOOLEAN /\ clean' \in BOOLEAN
        BY <1>16, Zenon DEF BrokenPipe
    <2>2. failAge' \in [1 .. MaxAttempts + 1 -> 0 .. Hour]
        BY <1>16 DEF BrokenPipe
    <2>3. pc' \in {"idle", "gate", "list", "vars", "again"} /\ upFails' \in 0 .. 2
        BY <1>16 DEF BrokenPipe, FinishBrokenPipe
    <2> QED  BY <1>0, <1>16, <2>1, <2>2, <2>3 DEF BrokenPipe, FinishBrokenPipe
<1>17. CASE Signal
    BY <1>0, <1>17 DEF Signal
<1>18. CASE Close
    BY <1>0, <1>18 DEF Close
<1>19. CASE Exit
    BY <1>0, <1>19 DEF Exit
<1>20. CASE Launch
    <2>1. /\ proto' \in BOOLEAN /\ connErr' \in BOOLEAN
          /\ listed' \in BOOLEAN /\ clean' \in BOOLEAN
        BY <1>20, Zenon DEF Launch
    <2>2. failAge' \in [1 .. MaxAttempts + 1 -> 0 .. Hour]
        BY <1>20 DEF Launch
    <2>3. pc' \in {"idle", "gate", "list", "vars", "again"} /\ upFails' \in 0 .. 2
        BY <1>20 DEF Launch
    <2> QED  BY <1>0, <1>20, <2>1, <2>2, <2>3 DEF Launch
<1> QED  BY <1>1, <1>2, <1>3, <1>4, <1>5, <1>6, <1>7, <1>8, <1>9, <1>10, <1>11, <1>12,
            <1>13, <1>14, <1>15, <1>16, <1>17, <1>18, <1>19, <1>20, NextCases

\* The link under the session.
LEMMA LinkNext ==
    ASSUME TypeOK, LinkInv, [Next]_vars
    PROVE  LinkInv'
<1> USE UpsAssumption DEF TypeOK, LinkInv, session, history, Finish
<1>1. CASE UNCHANGED vars
    BY <1>1 DEF vars, session, history
<1>2. CASE Tick
    BY <1>2 DEF Tick
<1>3. CASE DaemonStops
    BY <1>3 DEF DaemonStops
<1>4. CASE DaemonStarts
    BY <1>4 DEF DaemonStarts
<1>5. CASE Begin
    BY <1>5 DEF Begin
<1>6. CASE Again
    BY <1>6 DEF Again
<1>7. CASE UseConnection
    BY <1>7 DEF UseConnection
<1>8. CASE DialFails
    BY <1>8 DEF DialFails, Budget
<1>9. CASE DialSucceeds
    BY <1>9 DEF DialSucceeds, Budget
<1>10. CASE GiveUp
    BY <1>10 DEF GiveUp, Budget
<1>11. CASE CarryOn
    BY <1>11 DEF CarryOn, Budget
<1>12. CASE ListUnits
    BY <1>12 DEF ListUnits
<1>13. CASE ReadUnit
    BY <1>13 DEF ReadUnit
<1>14. CASE LateAnswer
    BY <1>14 DEF LateAnswer
<1>15. CASE EndOfFile
    BY <1>15 DEF EndOfFile
<1>16. CASE BrokenPipe
    BY <1>16 DEF BrokenPipe, FinishBrokenPipe
<1>17. CASE Signal
    BY <1>17 DEF Signal
<1>18. CASE Close
    BY <1>18 DEF Close
<1>19. CASE Exit
    BY <1>19 DEF Exit
<1>20. CASE Launch
    BY <1>20 DEF Launch
<1> QED  BY <1>1, <1>2, <1>3, <1>4, <1>5, <1>6, <1>7, <1>8, <1>9, <1>10, <1>11, <1>12,
            <1>13, <1>14, <1>15, <1>16, <1>17, <1>18, <1>19, <1>20, NextCases

\* The failed dials of the last hour.
LEMMA BudgetNext ==
    ASSUME TypeOK, BudgetInv, [Next]_vars
    PROVE  BudgetInv'
<1> USE UpsAssumption DEF TypeOK, BudgetInv, session, history, Finish
<1>1. CASE UNCHANGED vars
    BY <1>1 DEF vars, session, history
<1>2. CASE Tick
    <2>1. \A a, b \in 0 .. Hour :
            /\ Older(a) \in 0 .. Hour /\ Older(Hour) = Hour
            /\ a >= b => Older(a) >= Older(b)
        BY DEF Older
    <2> QED  BY <1>2, <2>1 DEF Tick
<1>3. CASE DaemonStops
    BY <1>3 DEF DaemonStops
<1>4. CASE DaemonStarts
    BY <1>4 DEF DaemonStarts
<1>5. CASE Begin
    BY <1>5 DEF Begin
<1>6. CASE Again
    BY <1>6 DEF Again
<1>7. CASE UseConnection
    BY <1>7 DEF UseConnection
<1>8. CASE DialFails
    <2>1. attempts' = Budget + 1 /\ errAge' = 0
        BY <1>8 DEF DialFails
    <2>2. \A k \in 1 .. MaxAttempts + 1 : k > Budget => failAge[k] = Hour
        BY DEF Budget
    <2>3. \A k \in 1 .. MaxAttempts + 1 :
            failAge'[k] = IF k = 1 THEN 0 ELSE failAge[k - 1]
        BY <1>8 DEF DialFails
    <2>4. Budget \in 0 .. MaxAttempts
        BY DEF Budget
    <2>5. ASSUME NEW k \in 1 .. MaxAttempts + 1
          PROVE  /\ k > attempts' => failAge'[k] = Hour
                 /\ failAge'[k] >= errAge'
        <3>1. CASE k = 1
            BY <3>1, <2>1, <2>3, <2>4
        <3>2. CASE k > 1
            <4>1. k - 1 \in 1 .. MaxAttempts + 1 /\ failAge'[k] = failAge[k - 1]
                BY <3>2, <2>3
            <4> QED  BY <4>1, <2>1, <2>2, <2>4
        <3> QED  BY <3>1, <3>2
    <2> QED  BY <2>5
<1>9. CASE DialSucceeds
    <2>1. attempts' = Budget + 1 /\ UNCHANGED <<errAge, failAge>>
        BY <1>9 DEF DialSucceeds
    <2>2. \A k \in 1 .. MaxAttempts + 1 : k > Budget => failAge[k] = Hour
        BY DEF Budget
    <2>3. Budget \in 0 .. MaxAttempts
        BY DEF Budget
    <2> QED  BY <2>1, <2>2, <2>3
<1>10. CASE GiveUp
    BY <1>10 DEF GiveUp, Budget
<1>11. CASE CarryOn
    BY <1>11 DEF CarryOn, Budget
<1>12. CASE ListUnits
    BY <1>12 DEF ListUnits
<1>13. CASE ReadUnit
    BY <1>13 DEF ReadUnit
<1>14. CASE LateAnswer
    BY <1>14 DEF LateAnswer
<1>15. CASE EndOfFile
    BY <1>15 DEF EndOfFile
<1>16. CASE BrokenPipe
    BY <1>16 DEF BrokenPipe, FinishBrokenPipe
<1>17. CASE Signal
    BY <1>17 DEF Signal
<1>18. CASE Close
    BY <1>18 DEF Close
<1>19. CASE Exit
    BY <1>19 DEF Exit
<1>20. CASE Launch
    BY <1>20 DEF Launch
<1> QED  BY <1>1, <1>2, <1>3, <1>4, <1>5, <1>6, <1>7, <1>8, <1>9, <1>10, <1>11, <1>12,
            <1>13, <1>14, <1>15, <1>16, <1>17, <1>18, <1>19, <1>20, NextCases

\* A failed scrape of a daemon that answers.
LEMMA CleanNext ==
    ASSUME TypeOK, LinkInv, CleanInv, [Next]_vars
    PROVE  CleanInv'
<1> USE UpsAssumption DEF TypeOK, LinkInv, CleanInv, session, history, Finish
<1>1. CASE UNCHANGED vars
    BY <1>1 DEF vars, session, history
<1>2. CASE Tick
    BY <1>2 DEF Tick
<1>3. CASE DaemonStops
    BY <1>3 DEF DaemonStops
<1>4. CASE DaemonStarts
    BY <1>4 DEF DaemonStarts
<1>5. CASE Begin
    BY <1>5 DEF Begin
<1>6. CASE Again
    BY <1>6 DEF Again
<1>7. CASE UseConnection
    BY <1>7 DEF UseConnection
<1>8. CASE DialFails
    BY <1>8 DEF DialFails, Budget
<1>9. CASE DialSucceeds
    BY <1>9 DEF DialSucceeds, Budget
<1>10. CASE GiveUp
    BY <1>10 DEF GiveUp, Budget
<1>11. CASE CarryOn
    BY <1>11 DEF CarryOn, Budget
<1>12. CASE ListUnits
    BY <1>12 DEF ListUnits
<1>13. CASE ReadUnit
    BY <1>13 DEF ReadUnit
<1>14. CASE LateAnswer
    BY <1>14 DEF LateAnswer
<1>15. CASE EndOfFile
    BY <1>15 DEF EndOfFile
<1>16. CASE BrokenPipe
    BY <1>16 DEF BrokenPipe, FinishBrokenPipe
<1>17. CASE Signal
    BY <1>17 DEF Signal
<1>18. CASE Close
    BY <1>18 DEF Close
<1>19. CASE Exit
    BY <1>19 DEF Exit
<1>20. CASE Launch
    BY <1>20 DEF Launch
<1> QED  BY <1>1, <1>2, <1>3, <1>4, <1>5, <1>6, <1>7, <1>8, <1>9, <1>10, <1>11, <1>12,
            <1>13, <1>14, <1>15, <1>16, <1>17, <1>18, <1>19, <1>20, NextCases

-------------------------------------------------------------------------------
\* The invariant holds when the program starts.
LEMMA Initially == Init => IInv
<1> SUFFICES ASSUME Init  PROVE IInv
    OBVIOUS
<1> USE UpsAssumption DEF Init
<1>1. proto \in BOOLEAN /\ connErr \in BOOLEAN /\ listed \in BOOLEAN /\ clean \in BOOLEAN
    BY Zenon
<1>2. TypeOK
    BY <1>1 DEF TypeOK
<1>3. LinkInv /\ BudgetInv /\ CleanInv
    BY DEF LinkInv, BudgetInv, CleanInv
<1> QED  BY <1>2, <1>3 DEF IInv

\* Every step preserves the invariant.
LEMMA Inductive == IInv /\ [Next]_vars => IInv'
BY TypeNext, LinkNext, BudgetNext, CleanNext DEF IInv

\* The invariant holds in every reachable state.
LEMMA Invariant == Spec => []IInv
BY Initially, Inductive, PTL DEF Spec

\* The type invariant of the session: the counter of attempts never passes its
\* limit and the status page never lists a unit twice.
THEOREM TypeCorrect == Spec => []TypeOK
<1>1. IInv => TypeOK
    BY DEF IInv
<1> QED  BY Invariant, <1>1, PTL

\* No query goes to the zero Client, whatever the daemon, the hourly reset and
\* Close do between two scrapes.
THEOREM QueriesHaveConnection == Spec => []QueryHasConnection
<1>1. IInv => QueryHasConnection
    BY DEF IInv, LinkInv, QueryHasConnection
<1> QED  BY Invariant, <1>1, PTL

\* At most MaxAttempts failed dials in any hour, although the counter of attempts
\* is reset every hour: the failures it forgets are an hour old.
THEOREM DialsThrottled == Spec => []FailuresThrottled
<1>1. IInv => FailuresThrottled
    BY UpsAssumption DEF IInv, TypeOK, BudgetInv, FailuresThrottled
<1> QED  BY Invariant, <1>1, PTL

\* Two scrapes in a row fail against a daemon that answers both only when the
\* attempts of the hour are used up.
THEOREM SecondScrapeReconnects == Spec => ReconnectsBySecondScrape
<1> DEFINE P == pc # "idle" /\ pc' = "idle" /\ upFails >= 1 /\ upFails' = 2
                    => attempts' = MaxAttempts
<1>1. IInv /\ [Next]_vars => [P]_vars
    <2> SUFFICES ASSUME IInv, [Next]_vars, pc # "idle", pc' = "idle",
                        upFails >= 1, upFails' = 2, ~ UNCHANGED vars
                 PROVE  attempts' = MaxAttempts
        OBVIOUS
    <2> USE UpsAssumption DEF IInv, TypeOK, LinkInv, CleanInv, Finish, session, history
    <2>1. CASE Tick \/ DaemonStops \/ DaemonStarts \/ Begin \/ Again \/ UseConnection
               \/ DialSucceeds \/ CarryOn \/ Signal \/ Close \/ Exit
        BY <2>1 DEF Tick, DaemonStops, DaemonStarts, Begin, Again, UseConnection,
                    DialSucceeds, CarryOn, Signal, Close, Exit
    <2>2. CASE Launch
        BY <2>2 DEF Launch
    <2>3. CASE DialFails
        BY <2>3 DEF DialFails
    <2>4. CASE GiveUp
        BY <2>4 DEF GiveUp, Budget
    <2>5. CASE ListUnits \/ ReadUnit \/ LateAnswer
        BY <2>5 DEF ListUnits, ReadUnit, LateAnswer
    <2>6. CASE EndOfFile
        BY <2>6 DEF EndOfFile
    <2>7. CASE BrokenPipe
        BY <2>7 DEF BrokenPipe, FinishBrokenPipe
    <2> QED  BY <2>1, <2>2, <2>3, <2>4, <2>5, <2>6, <2>7, NextCases
<1> QED  BY Invariant, <1>1, PTL DEF Spec, ReconnectsBySecondScrape

===============================================================================
