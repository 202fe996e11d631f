--------------------------- MODULE Inventory_proofs ---------------------------
(***************************************************************************)
(* Proofs about Inventory, for any number of things.                       *)
(*                                                                         *)
(* The inductive invariant IInv has four parts beside TypeOK:              *)
(*   CoverInv   what was there when a whole environment was read, and ever *)
(*              since, is asked about by the collector, and while it runs  *)
(*              is still to ask, reported, or has failed by itself;        *)
(*   ListInv    a list names nothing that is down unless it went down      *)
(*              since it was read;                                         *)
(*   CountInv   a negative count comes of a reading that failed;           *)
(*   AnswerInv  the three promises.                                        *)
(***************************************************************************)
EXTENDS Inventory, WellFoundedInduction, TLAPS

Atomic == {"DiskStats", "DmCacheStats", "FlashCacheStats"}

CoverInv ==
    /\ tool /\ envOK => steady \subseteq Asked
    /\ pc = "ask" =>
        /\ ~ failed
        /\ tool /\ envOK => steady \subseteq items \cup sick \cup left
        /\ collector \in Atomic \cup {"SysInfoHd"} => sick = {}
        /\ collector \in Atomic => items = {}

ListInv ==
    collector \in Listed =>
        /\ ~ gone => list \subseteq up
        /\ pc = "ask" => left \subseteq list

CountInv == collector \in Numbered /\ tool /\ envOK => num >= 0

AnswerInv == ReportComplete /\ OutageEnds /\ CrashNeedsFailure

IInv == TypeOK /\ CoverInv /\ ListInv /\ CountInv /\ AnswerInv

-------------------------------------------------------------------------------
\* A set of naturals has a least element.
LEMMA LeastNatural ==
    ASSUME NEW S \in SUBSET Nat, S # {}
    PROVE  \E x \in S : \A y \in S : x <= y
<1>0. ASSUME NEW x \in Nat, NEW y \in Nat, y < x
      PROVE  <<y, x>> \in OpToRel(<, Nat)
    <2>1. <<y, x>> \in {ss \in Nat \X Nat : ss[1] < ss[2]}
        BY <1>0
    <2> QED  BY <2>1, Zenon DEF OpToRel
<1>1. \E x \in S : \A y \in S : ~ (<<y, x>> \in OpToRel(<, Nat))
    BY WFMin, NatLessThanWellFounded
<1>2. PICK x \in S : \A y \in S : ~ (<<y, x>> \in OpToRel(<, Nat))
    BY <1>1
<1>3. ASSUME NEW y \in S  PROVE x <= y
    <2>1. ~ (y < x)
        BY <1>2, <1>0, Zenon
    <2> QED  BY <2>1
<1> QED  BY <1>3

\* Min and Max, which are choices, are members of their sets and bound them.
LEMMA LeastOf ==
    ASSUME NEW S \in SUBSET Nat, S # {}
    PROVE  Min(S) \in S
BY LeastNatural DEF Min

\* The greatest element of a bounded set is one, and bounds it.
LEMMA GreatestOf ==
    ASSUME NEW n \in Nat, NEW S \in SUBSET (0 .. n), S # {}
    PROVE  Max(S) \in S /\ \A y \in S : y <= Max(S)
<1> DEFINE U == {m \in Nat : \A y \in S : y <= m}
<1>1. n \in U
    OBVIOUS
<1>2. PICK m \in U : \A k \in U : m <= k
    BY <1>1, LeastNatural
<1>3. m \in S
    <2> SUFFICES ASSUME m \notin S  PROVE FALSE
        OBVIOUS
    <2>0. PICK z \in S : TRUE
        OBVIOUS
    <2>1. \A y \in S : y < m /\ y \in Nat /\ y >= 0
        OBVIOUS
    <2>2. m - 1 \in U
        BY <2>1, <2>0
    <2> QED  BY <2>2, <1>2
<1>4. \E x \in S : \A y \in S : x >= y
    BY <1>2, <1>3
<1> QED  BY <1>4 DEF Max

\* The three kinds of things are disjoint sets of numbers.
LEMMA Distinction ==
    /\ Numbered \cap Fixed = {} /\ Numbered \cap Listed = {} /\ Fixed \cap Listed = {}
    /\ Things \in SUBSET Nat /\ Things # {}
BY SizeAssumption DEF Numbered, Fixed, Listed, Things

\* The highest disk reported bounds those reported.
LEMMA CountBounds ==
    ASSUME TypeOK
    PROVE  Count \in 0 .. Size /\ items \subseteq 1 .. Count
<1>1. items \cup {0} \in SUBSET (0 .. Size)
    BY SizeAssumption DEF TypeOK, Things
<1>2. /\ Count \in items \cup {0}
      /\ \A y \in items \cup {0} : y <= Count
    BY <1>1, GreatestOf, SizeAssumption DEF Count
<1>3. Count \in 0 .. Size
    BY <1>1, <1>2
<1> QED  BY <1>2, <1>3 DEF TypeOK, Things

\* Every step of the program, one case per action, and the answer of the thing
\* asked split from the asking.
LEMMA NextCases ==
    ASSUME TypeOK, [Next]_vars
    PROVE  \/ UNCHANGED vars
           \/ Restart \/ Appear \/ Vanish
           \/ ReadEnvironment \/ AbortEnvironment \/ Begin
           \/ \E x \in left :
                 /\ OneByOne /\ UNCHANGED <<collector, world, env, envOK>>
                 /\ Report(x) \/ Asleep(x) \/ LeaveOut(x) \/ GiveUp(x)
           \/ Finish \/ DiskStats \/ FlashCacheStats \/ DmCacheStats
<1>1. CASE Ask
    <2>1. Min(left) \in left
        BY <1>1, LeastOf, Distinction DEF Ask, TypeOK
    <2> QED  BY <1>1, <2>1 DEF Ask
<1> QED  BY <1>1 DEF Next

-------------------------------------------------------------------------------
\* What the readers leave: nothing that is not there, and all of it when none of
\* them failed and the tool to ask with was found.
LEMMA EnvironmentRead ==
    ASSUME TypeOK, ReadEnvironment
    PROVE  /\ tool' \in BOOLEAN /\ envOK' \in BOOLEAN
           /\ num' \in -1 .. Size /\ list' \subseteq Things
           /\ collector \in Listed => list' \subseteq up
           /\ tool' /\ envOK' => steady' \subseteq Asked'
           /\ collector \in Numbered /\ tool' /\ envOK' => num' >= 0
<1> USE SizeAssumption DEF TypeOK, LookPath, Found
<1>0. collector' = collector /\ steady' = up /\ up \subseteq Things
    BY DEF ReadEnvironment
<1>1. CASE readHostInfo /\ (collector = "DmCacheStats" => ~ tool')
    BY <1>0, <1>1 DEF readHostInfo, Asked, Numbered, Fixed, Listed, Things
<1>2. CASE readSysInfo
    <2>1. /\ list' = list /\ tool' \in BOOLEAN
          /\ collector \in {"SysInfoTemp", "SysInfoHd", "SysInfoFan"}
        BY <1>2 DEF readSysInfo, Numbered
    <2>2. CASE tool' /\ collector \in Numbered /\ num' = Size /\ envOK' = TRUE
        BY <1>0, <2>1, <2>2 DEF Asked, Listed, Things
    <2>3. CASE tool' /\ collector \in Numbered /\ num' \in {0, -1} /\ envOK' = FALSE
        <3>1. num' = 0 \/ num' = -1
            BY <2>3
        <3>2. num' \in -1 .. Size
            BY <3>1
        <3> QED  BY <1>0, <2>1, <2>3, <3>2 DEF Listed
    <2>4. CASE (tool' => collector = "SysInfoTemp") /\ UNCHANGED num /\ envOK' = TRUE
        BY <1>0, <2>1, <2>4 DEF Asked, Listed, Numbered, Fixed
    <2> QED  BY <1>2, <2>2, <2>3, <2>4 DEF readSysInfo
<1>3. CASE readEnclosures
    BY <1>0, <1>3 DEF readEnclosures, Asked, Numbered, Fixed, Listed, Things
<1>4. CASE readDirectory /\ readNvmePath
    BY <1>0, <1>4 DEF readDirectory, readNvmePath, Asked, Numbered, Fixed, Listed, Things
<1>5. CASE readDmCacheDevices
    BY <1>0, <1>5 DEF readDmCacheDevices, Asked, Numbered, Fixed, Listed, Things
<1> QED  BY <1>1, <1>2, <1>3, <1>4, <1>5 DEF ReadEnvironment

\* Nothing but things in the lists, and a count within the things.
LEMMA TypeNext ==
    ASSUME TypeOK, [Next]_vars
    PROVE  TypeOK'
<1> USE Distinction, SizeAssumption DEF TypeOK
<1>1. CASE UNCHANGED vars
    BY <1>1 DEF vars, env, report, world
<1>2. CASE Restart
    <2>1. /\ tool' \in BOOLEAN /\ failed' \in BOOLEAN /\ gone' \in BOOLEAN
          /\ envOK' \in BOOLEAN
        <3>1. tool' = TRUE \/ tool' = FALSE
            BY <1>2 DEF Restart, NewProcess
        <3> QED  BY <1>2, <3>1, Zenon DEF Restart, NewProcess
    <2> QED  BY <1>2, <2>1 DEF Restart, NewProcess
<1>3. CASE Appear
    BY <1>3 DEF Appear, world, env, report
<1>4. CASE Vanish
    BY <1>4 DEF Vanish, world, env, report
<1>5. CASE ReadEnvironment
    BY <1>5, EnvironmentRead DEF ReadEnvironment
<1>6. CASE AbortEnvironment
    BY <1>6 DEF AbortEnvironment, world, env, report
<1>7. CASE Begin
    <2>1. Asked \subseteq Things
        BY DEF Asked, Things
    <2>2. left' \subseteq Things /\ pc' \in {"dead", "ask"}
        BY <1>7, <2>1 DEF Begin
    <2> QED  BY <1>7, <2>2 DEF Begin, world, env
<1>8. ASSUME NEW x \in left, Report(x), OneByOne,
             UNCHANGED <<collector, world, env, envOK>>
      PROVE  TypeOK'
    BY <1>8 DEF Report, OneByOne, world, env
<1>9. ASSUME NEW x \in left, Asleep(x), OneByOne,
             UNCHANGED <<collector, world, env, envOK>>
      PROVE  TypeOK'
    BY <1>9 DEF Asleep, OneByOne, world, env
<1>10. ASSUME NEW x \in left, LeaveOut(x), OneByOne,
             UNCHANGED <<collector, world, env, envOK>>
      PROVE  TypeOK'
    BY <1>10 DEF LeaveOut, OneByOne, world, env, Blamed
<1>11. ASSUME NEW x \in left, GiveUp(x), OneByOne,
             UNCHANGED <<collector, world, env, envOK>>
      PROVE  TypeOK'
    BY <1>11 DEF GiveUp, OneByOne, world, env, Blamed
<1>12. CASE Finish
    BY <1>12, CountBounds DEF Finish, world, report
<1>13. CASE DiskStats
    BY <1>13 DEF DiskStats, world, env, report, AnswerWith, FailAltogether
<1>14. CASE FlashCacheStats
    BY <1>14 DEF FlashCacheStats, world, env, report, AnswerWith, FailAltogether
<1>15. CASE DmCacheStats
    BY <1>15 DEF DmCacheStats, world, env, report, AnswerWith, FailAltogether,
           appendDmCacheHitMetrics
<1> QED  BY <1>1, <1>2, <1>3, <1>4, <1>5, <1>6, <1>7, <1>8, <1>9, <1>10, <1>11, <1>12,
            <1>13, <1>14, <1>15, NextCases

\* What is asked covers what stayed.
LEMMA CoverNext ==
    ASSUME TypeOK, CoverInv, [Next]_vars
    PROVE  CoverInv'
<1> USE Distinction, SizeAssumption DEF TypeOK, CoverInv, Atomic, Asked
<1>1. CASE UNCHANGED vars
    BY <1>1 DEF vars, env, report, world
<1>2. CASE Restart
    BY <1>2 DEF Restart, world, env, report, NewProcess
<1>3. CASE Appear
    BY <1>3 DEF Appear, world, env, report
<1>4. CASE Vanish
    BY <1>4 DEF Vanish, world, env, report
<1>5. CASE ReadEnvironment
    BY <1>5, EnvironmentRead DEF ReadEnvironment
<1>6. CASE AbortEnvironment
    BY <1>6 DEF AbortEnvironment, world, env, report
<1>7. CASE Begin
    BY <1>7 DEF Begin, world, env, report, Asked, Things
<1>8. ASSUME NEW x \in left, Report(x), OneByOne,
             UNCHANGED <<collector, world, env, envOK>>
      PROVE  CoverInv'
    BY <1>8 DEF Report, OneByOne, world, env
<1>9. ASSUME NEW x \in left, Asleep(x), OneByOne,
             UNCHANGED <<collector, world, env, envOK>>
      PROVE  CoverInv'
    BY <1>9 DEF Asleep, OneByOne, world, env
<1>10. ASSUME NEW x \in left, LeaveOut(x), OneByOne,
             UNCHANGED <<collector, world, env, envOK>>
      PROVE  CoverInv'
    BY <1>10 DEF LeaveOut, OneByOne, world, env, Blamed, LeavesOut
<1>11. ASSUME NEW x \in left, GiveUp(x), OneByOne,
             UNCHANGED <<collector, world, env, envOK>>
      PROVE  CoverInv'
    BY <1>11 DEF GiveUp, OneByOne, world, env, Blamed
<1>12. CASE Finish
    <2>1. /\ pc' = "answered" /\ UNCHANGED <<collector, steady, tool, envOK, list>>
          /\ num' = IF collector = "SysInfoHd" /\ tool THEN Count ELSE num
        BY <1>12 DEF Finish, world
    <2>2. CASE collector = "SysInfoHd" /\ tool
        <3>1. envOK => steady \subseteq items
            BY <1>12, <2>2 DEF Finish, OneByOne
        <3>2. envOK => steady \subseteq 1 .. num'
            BY <2>1, <2>2, <3>1, CountBounds
        <3> QED  BY <2>1, <2>2, <3>2 DEF Numbered
    <2>3. CASE ~ (collector = "SysInfoHd" /\ tool)
        BY <2>1, <2>3
    <2> QED  BY <2>2, <2>3
<1>13. CASE DiskStats
    BY <1>13 DEF DiskStats, world, env, report, AnswerWith, FailAltogether
<1>14. CASE FlashCacheStats
    BY <1>14 DEF FlashCacheStats, world, env, report, AnswerWith, FailAltogether
<1>15. CASE DmCacheStats
    BY <1>15 DEF DmCacheStats, world, env, report, AnswerWith, FailAltogether,
           appendDmCacheHitMetrics
<1> QED  BY <1>1, <1>2, <1>3, <1>4, <1>5, <1>6, <1>7, <1>8, <1>9, <1>10, <1>11, <1>12,
            <1>13, <1>14, <1>15, NextCases

\* What is listed is up until something goes down.
LEMMA ListNext ==
    ASSUME TypeOK, ListInv, [Next]_vars
    PROVE  ListInv'
<1> USE Distinction DEF TypeOK, ListInv
<1>1. CASE UNCHANGED vars
    BY <1>1 DEF vars, env, report, world
<1>2. CASE Restart
    BY <1>2 DEF Restart, world, env, report, NewProcess
<1>3. CASE Appear
    BY <1>3 DEF Appear, world, env, report
<1>4. CASE Vanish
    BY <1>4 DEF Vanish, world, env, report
<1>5. CASE ReadEnvironment
    BY <1>5, EnvironmentRead DEF ReadEnvironment
<1>6. CASE AbortEnvironment
    BY <1>6 DEF AbortEnvironment, world, env, report
<1>7. CASE Begin
    BY <1>7 DEF Begin, world, env, report, Asked
<1>8. ASSUME NEW x \in left, Report(x), OneByOne,
             UNCHANGED <<collector, world, env, envOK>>
      PROVE  ListInv'
    BY <1>8 DEF Report, OneByOne, world, env
<1>9. ASSUME NEW x \in left, Asleep(x), OneByOne,
             UNCHANGED <<collector, world, env, envOK>>
      PROVE  ListInv'
    BY <1>9 DEF Asleep, OneByOne, world, env
<1>10. ASSUME NEW x \in left, LeaveOut(x), OneByOne,
             UNCHANGED <<collector, world, env, envOK>>
      PROVE  ListInv'
    BY <1>10 DEF LeaveOut, OneByOne, world, env
<1>11. ASSUME NEW x \in left, GiveUp(x), OneByOne,
             UNCHANGED <<collector, world, env, envOK>>
      PROVE  ListInv'
    BY <1>11 DEF GiveUp, OneByOne, world, env
<1>12. CASE Finish
    BY <1>12 DEF Finish, world, env, report
<1>13. CASE DiskStats
    BY <1>13 DEF DiskStats, world, env, report, AnswerWith, FailAltogether
<1>14. CASE FlashCacheStats
    BY <1>14 DEF FlashCacheStats, world, env, report, AnswerWith, FailAltogether
<1>15. CASE DmCacheStats
    BY <1>15 DEF DmCacheStats, world, env, report, AnswerWith, FailAltogether,
           appendDmCacheHitMetrics
<1> QED  BY <1>1, <1>2, <1>3, <1>4, <1>5, <1>6, <1>7, <1>8, <1>9, <1>10, <1>11, <1>12,
            <1>13, <1>14, <1>15, NextCases

\* The count.
LEMMA CountNext ==
    ASSUME TypeOK, CountInv, [Next]_vars
    PROVE  CountInv'
<1> USE Distinction DEF TypeOK, CountInv
<1>1. CASE UNCHANGED vars
    BY <1>1 DEF vars, env, report, world
<1>2. CASE Restart
    BY <1>2 DEF Restart, world, env, report, NewProcess
<1>3. CASE Appear
    BY <1>3 DEF Appear, world, env, report
<1>4. CASE Vanish
    BY <1>4 DEF Vanish, world, env, report
<1>5. CASE ReadEnvironment
    BY <1>5, EnvironmentRead DEF ReadEnvironment
<1>6. CASE AbortEnvironment
    BY <1>6 DEF AbortEnvironment, world, env, report
<1>7. CASE Begin
    BY <1>7 DEF Begin, world, env, report
<1>8. ASSUME NEW x \in left, Report(x), OneByOne,
             UNCHANGED <<collector, world, env, envOK>>
      PROVE  CountInv'
    BY <1>8 DEF Report, OneByOne, world, env
<1>9. ASSUME NEW x \in left, Asleep(x), OneByOne,
             UNCHANGED <<collector, world, env, envOK>>
      PROVE  CountInv'
    BY <1>9 DEF Asleep, OneByOne, world, env
<1>10. ASSUME NEW x \in left, LeaveOut(x), OneByOne,
             UNCHANGED <<collector, world, env, envOK>>
      PROVE  CountInv'
    BY <1>10 DEF LeaveOut, OneByOne, world, env
<1>11. ASSUME NEW x \in left, GiveUp(x), OneByOne,
             UNCHANGED <<collector, world, env, envOK>>
      PROVE  CountInv'
    BY <1>11 DEF GiveUp, OneByOne, world, env
<1>12. CASE Finish
    BY <1>12, CountBounds DEF Finish, world, report
<1>13. CASE DiskStats
    BY <1>13 DEF DiskStats, world, env, report
<1>14. CASE FlashCacheStats
    BY <1>14 DEF FlashCacheStats, world, env, report
<1>15. CASE DmCacheStats
    BY <1>15 DEF DmCacheStats, world, env, report
<1> QED  BY <1>1, <1>2, <1>3, <1>4, <1>5, <1>6, <1>7, <1>8, <1>9, <1>10, <1>11, <1>12,
            <1>13, <1>14, <1>15, NextCases

\* The promises.
LEMMA AnswerNext ==
    ASSUME TypeOK, CoverInv, ListInv, CountInv, AnswerInv, [Next]_vars
    PROVE  AnswerInv'
<1> USE Distinction, SizeAssumption DEF TypeOK, CoverInv, ListInv, CountInv, AnswerInv,
    ReportComplete, OutageEnds, CrashNeedsFailure, Atomic
<1>1. CASE UNCHANGED vars
    BY <1>1 DEF vars, env, report, world
<1>2. CASE Restart
    BY <1>2 DEF Restart, world, env, report, NewProcess
<1>3. CASE Appear
    BY <1>3 DEF Appear, world, env, report
<1>4. CASE Vanish
    BY <1>4 DEF Vanish, world, env, report
<1>5. CASE ReadEnvironment
    BY <1>5 DEF ReadEnvironment, world, env, report
<1>6. CASE AbortEnvironment
    BY <1>6 DEF AbortEnvironment, world, env, report
<1>7. CASE Begin
    BY <1>7 DEF Begin, world, env, report, Ready
<1>8. ASSUME NEW x \in left, Report(x), OneByOne,
             UNCHANGED <<collector, world, env, envOK>>
      PROVE  AnswerInv'
    BY <1>8 DEF Report, OneByOne, world, env
<1>9. ASSUME NEW x \in left, Asleep(x), OneByOne,
             UNCHANGED <<collector, world, env, envOK>>
      PROVE  AnswerInv'
    BY <1>9 DEF Asleep, OneByOne, world, env
<1>10. ASSUME NEW x \in left, LeaveOut(x), OneByOne,
             UNCHANGED <<collector, world, env, envOK>>
      PROVE  AnswerInv'
    BY <1>10 DEF LeaveOut, OneByOne, world, env, Blamed, LeavesOut
<1>11. ASSUME NEW x \in left, GiveUp(x), OneByOne,
             UNCHANGED <<collector, world, env, envOK>>
      PROVE  AnswerInv'
    BY <1>11 DEF GiveUp, OneByOne, world, env, Blamed
<1>12. CASE Finish
    <2>1. /\ pc = "ask" /\ pc' = "answered" /\ left = {}
          /\ UNCHANGED <<items, sick, failed, tool, envOK, steady, gone>>
        BY <1>12 DEF Finish, OneByOne, world, report
    <2>2. tool /\ envOK => steady \subseteq items \cup sick
        BY <2>1
    <2>3. ~ failed
        BY <2>1
    <2> QED  BY <2>1, <2>2, <2>3
<1>13. CASE DiskStats
    BY <1>13 DEF DiskStats, world, env, report, AnswerWith, FailAltogether, Listed
<1>14. CASE FlashCacheStats
    BY <1>14 DEF FlashCacheStats, world, env, report, AnswerWith, FailAltogether
<1>15. CASE DmCacheStats
    BY <1>15 DEF DmCacheStats, world, env, report, AnswerWith, FailAltogether,
           appendDmCacheHitMetrics, Listed
<1> QED  BY <1>1, <1>2, <1>3, <1>4, <1>5, <1>6, <1>7, <1>8, <1>9, <1>10, <1>11, <1>12,
            <1>13, <1>14, <1>15, NextCases

-------------------------------------------------------------------------------
\* The invariant holds when the program starts.
LEMMA Initially == Init => IInv
<1> SUFFICES ASSUME Init  PROVE IInv
    OBVIOUS
<1>1. tool \in BOOLEAN
    <2>1. tool = TRUE \/ tool = FALSE
        BY DEF Init
    <2> QED  BY <2>1
<1>2. TypeOK
    <2>1. failed \in BOOLEAN /\ gone \in BOOLEAN /\ envOK \in BOOLEAN
        BY Zenon DEF Init
    <2> QED  BY <1>1, <2>1, SizeAssumption DEF Init, TypeOK
<1>3. CoverInv /\ ListInv /\ CountInv /\ AnswerInv
    BY DEF Init, CoverInv, ListInv, CountInv, AnswerInv,
           ReportComplete, OutageEnds, CrashNeedsFailure
<1> QED  BY <1>2, <1>3 DEF IInv

\* Every step preserves the invariant.
LEMMA Inductive == IInv /\ [Next]_vars => IInv'
BY TypeNext, CoverNext, ListNext, CountNext, AnswerNext DEF IInv

\* The invariant holds in every reachable state.
LEMMA Invariant == Spec => []IInv
BY Initially, Inductive, PTL DEF Spec

\* The type invariant: the disk count never leaves -1 .. Size, and the collectors
\* report nothing that does not exist.
THEOREM TypeCorrect == Spec => []TypeOK
<1>1. IInv => TypeOK
    BY DEF IInv
<1> QED  BY Invariant, <1>1, PTL

\* However many scrapes shrank the disk count to the disks they found awake, a
\* disk that stayed awake since the environment was read is in every report.
THEOREM ReportsComplete == Spec => []ReportComplete
<1>1. IInv => ReportComplete
    BY DEF IInv, AnswerInv
<1> QED  BY Invariant, <1>1, PTL

\* One missing thing fails a whole collector only until the environment is read
\* again.
THEOREM OutagesEnd == Spec => []OutageEnds
<1>1. IInv => OutageEnds
    BY DEF IInv, AnswerInv
<1> QED  BY Invariant, <1>1, PTL

\* No worker panics because things sleep, come or go.
THEOREM CrashesNeedFailures == Spec => []CrashNeedsFailure
<1>1. IInv => CrashNeedsFailure
    BY DEF IInv, AnswerInv
<1> QED  BY Invariant, <1>1, PTL

===============================================================================
