--------------------------- MODULE SysVolumes_proofs ---------------------------
(***************************************************************************)
(* Proofs about SysVolumes, for any number of volumes, any validities and  *)
(* any delay of the scrapes.                                               *)
(*                                                                         *)
(* The inductive invariant IInv has five parts beside TypeOK:              *)
(*   ListInv    each volume is listed once, unread, in the order of the    *)
(*              indexes;                                                   *)
(*   AgeInv     a size that was read was read after the last expiry of the *)
(*              environment but one period;                                *)
(*   FetchInv   one that no failed report has passed over was read since   *)
(*              volumeLastFetch;                                           *)
(*   OutInv     the report is of the volumes up to the position;           *)
(*   CountInv   the volumes still to find are among those at the indexes   *)
(*              still to come, unless a description failed.                *)
(***************************************************************************)
EXTENDS SysVolumes, FiniteSetTheorems, TLAPS

ListInv ==
    /\ \A j, k \in DOMAIN volumes : j < k => volumes[j].index < volumes[k].index
    /\ pc = "enum" =>
        /\ envLate > 0
        /\ \A k \in DOMAIN volumes : volumes[k].zero /\ volumes[k].index < idx

AgeInv ==
    \A k \in DOMAIN volumes : ~ volumes[k].zero =>
        /\ volumes[k].age <= envLate + EnvValidity
        /\ pc = "report" /\ k >= pos => volumes[k].age <= EnvValidity

FetchInv ==
    /\ pc = "report" /\ ~ expired => fetchAge <= VolumeValidity
    /\ \A k \in DOMAIN volumes :
        ~ volumes[k].zero /\ (pc = "report" /\ expired => k < pos) =>
            \/ volumes[k].index \in passedOver
            \/ volumes[k].age <= fetchAge
            \/ fetchAge > VolumeValidity

OutInv ==
    /\ pc = "report" =>
        /\ Len(out) = pos - 1
        /\ \A k \in 1 .. pos - 1 :
            /\ out[k] = volumes[k]
            /\ out[k].age > VolumeValidity => out[k].index \in passedOver
    /\ NeverReportsUnread

\* The indexes still to ask about that are described.
Ahead == {i \in plugged : i >= idx}

CountInv == pc = "enum" /\ ~ missed => volCount <= parsed + Cardinality(Ahead)

IInv == TypeOK /\ ListInv /\ AgeInv /\ FetchInv /\ OutInv /\ CountInv

-------------------------------------------------------------------------------
\* Every step of the program, one case per action.
LEMMA NextCases ==
    ASSUME [Next]_vars
    PROVE  \/ UNCHANGED vars
           \/ Tick \/ Plug \/ Unplug
           \/ BeginEnum \/ DescFails \/ IgnoreVolume \/ ListVolume \/ EndEnum \/ AbortEnum
           \/ Scrape \/ ReadFree \/ ReadFreeFails \/ UseCached \/ EndReport
BY DEF Next

\* Any number of the indexes is finite.
LEMMA PluggedCount ==
    ASSUME NEW S \in SUBSET Indexes
    PROVE  IsFiniteSet(S) /\ Cardinality(S) \in 0 .. MaxIndex + 1
<1>1. IsFiniteSet(Indexes) /\ Cardinality(Indexes) = MaxIndex + 1
    BY SysVolumesAssumption, FS_Interval DEF Indexes
<1> QED  BY <1>1, FS_Subset, FS_CardinalityType, SysVolumesAssumption

\* The fields of a volume.
LEMMA VolumeFields ==
    ASSUME NEW v \in Volume
    PROVE  /\ v.index \in Indexes /\ v.zero \in BOOLEAN /\ v.age \in 0 .. Unread
           /\ Unread \in Nat
<1>1. v.index \in Indexes /\ v.zero \in BOOLEAN /\ v.age \in 0 .. Unread
    BY Zenon DEF Volume
<1> QED  BY <1>1, SysVolumesAssumption DEF Unread

\* The volumes, by position.
LEMMA VolumeAt ==
    ASSUME TypeOK, NEW k \in DOMAIN volumes
    PROVE  /\ volumes[k] \in Volume
           /\ volumes[k].index \in Indexes /\ volumes[k].zero \in BOOLEAN
           /\ volumes[k].age \in 0 .. Unread /\ Unread \in Nat
<1>1. volumes[k] \in Volume
    BY DEF TypeOK
<1> QED  BY <1>1, VolumeFields

\* The positions of the list.
LEMMA Positions ==
    ASSUME TypeOK
    PROVE  Len(volumes) \in Nat /\ DOMAIN volumes = 1 .. Len(volumes)
BY DEF TypeOK

\* A function on 1 .. n is a sequence of length n.
LEMMA IsSeq ==
    ASSUME NEW S, NEW n \in Nat, NEW s \in [1 .. n -> S]
    PROVE  s \in Seq(S) /\ Len(s) = n /\ DOMAIN s = 1 .. n
OBVIOUS

\* Time passes: each volume stays where it is, its size one tick older.
LEMMA TickEffect ==
    ASSUME TypeOK, Tick
    PROVE  /\ volumes' \in Seq(Volume) /\ Len(volumes') = Len(volumes)
           /\ DOMAIN volumes' = 1 .. Len(volumes) /\ DOMAIN volumes = 1 .. Len(volumes)
           /\ \A k \in 1 .. Len(volumes) :
                /\ volumes'[k].index = volumes[k].index
                /\ volumes'[k].zero = volumes[k].zero
                /\ volumes'[k].age = Older(volumes[k].age, Unread)
<1>1. \A k \in 1 .. Len(volumes) :
         volumes'[k] = [volumes[k] EXCEPT !.age = Older(@, Unread)]
    BY Positions DEF Tick
<1>2. ASSUME NEW k \in 1 .. Len(volumes)
      PROVE  /\ volumes'[k] \in Volume
             /\ volumes'[k].index = volumes[k].index
             /\ volumes'[k].zero = volumes[k].zero
             /\ volumes'[k].age = Older(volumes[k].age, Unread)
    <2>1. volumes[k] \in Volume /\ volumes[k].age \in 0 .. Unread /\ Unread \in Nat
        BY VolumeAt, Positions
    <2>2. Older(volumes[k].age, Unread) \in 0 .. Unread
        BY <2>1 DEF Older
    <2> QED  BY <1>1, <2>1, <2>2 DEF Volume
<1>3. volumes' \in [1 .. Len(volumes) -> Volume]
    BY <1>2, Positions DEF Tick
<1> QED  BY <1>2, <1>3, IsSeq, Positions

\* A volume is listed at the end, unread.
LEMMA ListEffect ==
    ASSUME TypeOK, ListVolume
    PROVE  /\ volumes' \in Seq(Volume) /\ Len(volumes') = Len(volumes) + 1
           /\ DOMAIN volumes' = 1 .. Len(volumes) + 1 /\ Len(volumes) \in Nat
           /\ DOMAIN volumes = 1 .. Len(volumes)
           /\ \A k \in 1 .. Len(volumes) : volumes'[k] = volumes[k]
           /\ volumes'[Len(volumes')].index = idx
           /\ volumes'[Len(volumes')].zero = TRUE
           /\ volumes'[Len(volumes')].age = Unread
<1> DEFINE v == [index |-> idx, zero |-> TRUE, age |-> Unread]
<1>1. v \in Volume
    BY SysVolumesAssumption DEF ListVolume, TypeOK, Volume, Unread
<1>2. volumes \in Seq(Volume) /\ volumes' = Append(volumes, v)
    BY DEF ListVolume, TypeOK
<1>3. v.index = idx /\ v.zero = TRUE /\ v.age = Unread
    OBVIOUS
<1> HIDE DEF v
<1>4. /\ volumes' \in Seq(Volume) /\ Len(volumes') = Len(volumes) + 1
      /\ \A k \in 1 .. Len(volumes) : volumes'[k] = volumes[k]
      /\ volumes'[Len(volumes')] = v
    BY <1>1, <1>2
<1>5. DOMAIN volumes' = 1 .. Len(volumes) + 1
    BY <1>4
<1> QED  BY <1>3, <1>4, <1>5, Positions

\* A read changes the volume at the position only, and keeps its index.
LEMMA ReadEffect ==
    ASSUME TypeOK, ReadFree
    PROVE  /\ volumes' \in Seq(Volume) /\ Len(volumes') = Len(volumes)
           /\ \A k \in 1 .. Len(volumes) : k # pos => volumes'[k] = volumes[k]
           /\ \A k \in 1 .. Len(volumes) : volumes'[k].index = volumes[k].index
           /\ volumes'[pos].age = 0
           /\ DOMAIN volumes' = DOMAIN volumes /\ Len(volumes) \in Nat
           /\ DOMAIN volumes = 1 .. Len(volumes)
           /\ volumes'[pos] \in Volume /\ pos \in 1 .. Len(volumes)
           /\ out' = Append(out, volumes'[pos])
<1>1. pos \in 1 .. Len(volumes) /\ out' = Append(out, volumes'[pos])
    BY DEF TypeOK, ReadFree
<1>2. PICK isZero \in BOOLEAN :
         volumes' = [volumes EXCEPT ![pos] =
                        [index |-> @.index, zero |-> isZero, age |-> 0]]
    BY DEF ReadFree
<1> DEFINE v == [index |-> volumes[pos].index, zero |-> isZero, age |-> 0]
<1>3. volumes[pos].index \in Indexes /\ Unread \in Nat
    BY <1>1, VolumeAt, Positions
<1>4. v \in Volume /\ v.index = volumes[pos].index /\ v.age = 0
    BY <1>3 DEF Volume
<1>5. volumes' = [volumes EXCEPT ![pos] = v]
    BY <1>2
<1> HIDE DEF v
<1>6. volumes \in Seq(Volume)
    BY DEF TypeOK
<1>7. /\ volumes' \in Seq(Volume) /\ Len(volumes') = Len(volumes)
      /\ \A k \in 1 .. Len(volumes) : k # pos => volumes'[k] = volumes[k]
      /\ volumes'[pos] = v
    BY <1>1, <1>4, <1>5, <1>6
<1>8. DOMAIN volumes' = DOMAIN volumes
    BY <1>5, <1>6
<1> QED  BY <1>1, <1>4, <1>7, <1>8, Positions

\* Types; the expiry is never more than one validity ahead.
LEMMA TypeNext ==
    ASSUME TypeOK, ListInv, [Next]_vars
    PROVE  TypeOK'
<1> USE SysVolumesAssumption DEF TypeOK, ListInv, local, Searching, NextIndex
<1>1. CASE UNCHANGED vars
    BY <1>1 DEF vars, local
<1>2. CASE Tick
    <2>1. /\ UNCHANGED <<plugged, pc, volCount, parsed, idx, expired, pos>>
          /\ UNCHANGED <<out, missed, passedOver>>
          /\ envLate < MaxLate /\ envLate' = envLate + 1
          /\ fetchAge' = Older(fetchAge, VolumeValidity + 1)
        BY <1>2 DEF Tick
    <2>2. fetchAge \in 0 .. VolumeValidity + 1 /\ envLate \in - EnvValidity .. MaxLate
          /\ EnvValidity \in Nat /\ MaxLate \in Nat /\ VolumeValidity \in Nat
        OBVIOUS
    <2>3. volumes' \in Seq(Volume) /\ Len(volumes') = Len(volumes)
        BY <1>2, TickEffect
    <2> HIDE DEF TypeOK
    <2> HIDE SysVolumesAssumption
    <2>4. fetchAge' \in 0 .. VolumeValidity + 1
        BY <2>1, <2>2 DEF Older
    <2>5. envLate' \in - EnvValidity .. MaxLate
        BY <2>1, <2>2
    <2> QED  BY <2>1, <2>3, <2>4, <2>5, Zenon DEF TypeOK
<1>3. CASE Plug
    BY <1>3 DEF Plug
<1>4. CASE Unplug
    BY <1>4 DEF Unplug
<1>5. CASE BeginEnum
    <2>1. volCount' \in 0 .. MaxIndex + 1
        BY <1>5, PluggedCount DEF BeginEnum
    <2>2. expired' \in BOOLEAN /\ missed' \in BOOLEAN
        BY <1>5, Zenon DEF BeginEnum
    <2>3. pos' \in 1 .. Len(volumes') + 1
        BY <1>5 DEF BeginEnum
    <2> QED  BY <1>5, <2>1, <2>2, <2>3 DEF BeginEnum
<1>6. CASE DescFails
    BY <1>6 DEF DescFails
<1>7. CASE IgnoreVolume
    BY <1>7 DEF IgnoreVolume
<1>8. CASE ListVolume
    <2>1. pos' \in 1 .. Len(volumes') + 1
        BY <1>8, ListEffect, Positions DEF ListVolume
    <2>2. idx' \in 0 .. MaxIndex + 1 /\ parsed' \in 0 .. volCount
        BY <1>8 DEF ListVolume
    <2> QED  BY <1>8, <2>1, <2>2, ListEffect DEF ListVolume
<1>9. CASE EndEnum
    BY <1>9 DEF EndEnum, BeginReport
<1>10. CASE AbortEnum
    BY <1>10 DEF AbortEnum
<1>11. CASE Scrape
    BY <1>11 DEF Scrape, BeginReport
<1>12. CASE ReadFree
    <2>1. out' \in Seq(Volume)
        <3>1. out \in Seq(Volume)
            OBVIOUS
        <3>2. volumes'[pos] \in Volume /\ out' = Append(out, volumes'[pos])
            BY <1>12, ReadEffect
        <3> HIDE DEF TypeOK
        <3> QED  BY <3>1, <3>2
    <2>2. pos' \in 1 .. Len(volumes') + 1
        <3>1. pos' = pos + 1
            BY <1>12 DEF ReadFree
        <3> HIDE DEF TypeOK
        <3> QED  BY <3>1, <1>12, ReadEffect
    <2> QED  BY <1>12, <2>1, <2>2, ReadEffect DEF ReadFree
<1>13. CASE ReadFreeFails
    <2>1. {volumes[k].index : k \in pos .. Len(volumes)} \subseteq Indexes
        BY VolumeAt, Positions
    <2> QED  BY <1>13, <2>1 DEF ReadFreeFails
<1>14. CASE UseCached
    BY <1>14 DEF UseCached
<1>15. CASE EndReport
    BY <1>15 DEF EndReport
<1> QED  BY <1>1, <1>2, <1>3, <1>4, <1>5, <1>6, <1>7, <1>8, <1>9, <1>10, <1>11, <1>12,
            <1>13, <1>14, <1>15, NextCases

\* Volumes are only listed past those listed, and unread; the enumeration takes
\* place while the environment is late.
LEMMA ListNext ==
    ASSUME TypeOK, ListInv, [Next]_vars
    PROVE  ListInv'
<1> USE SysVolumesAssumption DEF TypeOK, ListInv, local, Searching, NextIndex
<1>1. CASE UNCHANGED vars
    BY <1>1 DEF vars, local
<1>2. CASE Tick
    <2>1. pc = "idle" /\ pc' = "idle"
        BY <1>2 DEF Tick
    <2> HIDE DEF TypeOK
    <2> QED  BY <2>1, TickEffect, <1>2
<1>3. CASE Plug
    BY <1>3 DEF Plug
<1>4. CASE Unplug
    BY <1>4 DEF Unplug
<1>5. CASE BeginEnum
    BY <1>5 DEF BeginEnum
<1>6. CASE DescFails
    <2>1. /\ pc = "enum" /\ UNCHANGED <<envLate, volumes>> /\ idx' >= idx /\ idx' \in Int
        BY <1>6 DEF DescFails
    <2>2. \A k \in DOMAIN volumes : volumes[k].index \in Int
        BY VolumeAt DEF Indexes
    <2> QED  BY <2>1, <2>2
<1>7. CASE IgnoreVolume
    <2>1. /\ pc = "enum" /\ UNCHANGED <<envLate, volumes>> /\ idx' >= idx /\ idx' \in Int
        BY <1>7 DEF IgnoreVolume
    <2>2. \A k \in DOMAIN volumes : volumes[k].index \in Int
        BY VolumeAt DEF Indexes
    <2> QED  BY <2>1, <2>2
<1>8. CASE ListVolume
    <2>1. /\ pc = "enum" /\ pc' = "enum" /\ envLate' = envLate /\ idx \in Indexes
          /\ idx' = idx + 1
        BY <1>8 DEF ListVolume, Indexes
    <2>2. \A k \in 1 .. Len(volumes) :
             volumes[k].index \in Int /\ volumes[k].zero /\ volumes[k].index < idx
        BY <2>1, VolumeAt, Positions DEF Indexes
    <2>3. DOMAIN volumes' = 1 .. Len(volumes) + 1 /\ Len(volumes) \in Nat
        BY <1>8, ListEffect
    <2> HIDE DEF TypeOK
    <2>4. ASSUME NEW k \in 1 .. Len(volumes) + 1
          PROVE  volumes'[k].zero /\ volumes'[k].index < idx'
        <3>1. CASE k = Len(volumes) + 1
            <4>1. volumes'[k].zero = TRUE /\ volumes'[k].index = idx
                BY <3>1, <1>8, ListEffect
            <4> QED  BY <4>1, <2>1 DEF Indexes
        <3>2. CASE k # Len(volumes) + 1
            <4>1. k \in 1 .. Len(volumes)
                BY <3>2, <2>3
            <4> QED  BY <4>1, <2>1, <2>2, <1>8, ListEffect DEF Indexes
        <3> QED  BY <3>1, <3>2
    <2>5. ASSUME NEW j \in 1 .. Len(volumes) + 1, NEW k \in 1 .. Len(volumes) + 1, j < k
          PROVE  volumes'[j].index < volumes'[k].index
        <3>0. j \in 1 .. Len(volumes) /\ volumes'[j] = volumes[j]
            BY <2>3, <2>5, <1>8, ListEffect
        <3>1. CASE k = Len(volumes) + 1
            <4>1. volumes'[k].index = idx
                BY <3>1, <1>8, ListEffect
            <4> QED  BY <3>0, <4>1, <2>2
        <3>2. CASE k # Len(volumes) + 1
            <4>1. k \in 1 .. Len(volumes) /\ volumes'[k] = volumes[k]
                BY <3>2, <2>3, <1>8, ListEffect
            <4> QED  BY <3>0, <4>1, <2>5, Positions
        <3> QED  BY <3>1, <3>2
    <2> QED  BY <2>1, <2>3, <2>4, <2>5
<1>9. CASE EndEnum
    BY <1>9 DEF EndEnum, BeginReport
<1>10. CASE AbortEnum
    BY <1>10 DEF AbortEnum
<1>11. CASE Scrape
    BY <1>11 DEF Scrape, BeginReport
<1>12. CASE ReadFree
    <2>1. pc' = "report"
        BY <1>12 DEF ReadFree
    <2> HIDE DEF TypeOK
    <2> QED  BY <1>12, <2>1, ReadEffect
<1>13. CASE ReadFreeFails
    BY <1>13 DEF ReadFreeFails
<1>14. CASE UseCached
    BY <1>14 DEF UseCached
<1>15. CASE EndReport
    BY <1>15 DEF EndReport
<1> QED  BY <1>1, <1>2, <1>3, <1>4, <1>5, <1>6, <1>7, <1>8, <1>9, <1>10, <1>11, <1>12,
            <1>13, <1>14, <1>15, NextCases

\* A size that was read has an age that the expiry of the environment bounds:
\* when it is past, the list is emptied and the volumes are unread again.
LEMMA AgeNext ==
    ASSUME TypeOK, ListInv, AgeInv, [Next]_vars
    PROVE  AgeInv'
<1> USE SysVolumesAssumption DEF TypeOK, AgeInv, local, Searching
<1>1. CASE UNCHANGED vars
    BY <1>1 DEF vars, local
<1>2. CASE Tick
    <2>1. pc' = "idle" /\ envLate' = envLate + 1
        BY <1>2 DEF Tick
    <2>2. ASSUME NEW k \in DOMAIN volumes, ~ volumes[k].zero
          PROVE  Older(volumes[k].age, Unread) <= envLate + 1 + EnvValidity
        <3>1. volumes[k].age \in Int /\ volumes[k].age <= envLate + EnvValidity
            BY <2>2, VolumeAt
        <3> QED  BY <3>1, VolumeAt DEF Older
    <2> QED  BY <2>1, <2>2, TickEffect, <1>2, Positions
<1>3. CASE Plug
    BY <1>3 DEF Plug
<1>4. CASE Unplug
    BY <1>4 DEF Unplug
<1>5. CASE BeginEnum
    BY <1>5 DEF BeginEnum
<1>6. CASE DescFails
    BY <1>6 DEF DescFails
<1>7. CASE IgnoreVolume
    BY <1>7 DEF IgnoreVolume
<1>8. CASE ListVolume
    BY <1>8 DEF ListVolume
<1>9. CASE EndEnum
    BY <1>9 DEF EndEnum, BeginReport, ListInv
<1>10. CASE AbortEnum
    BY <1>10 DEF AbortEnum
<1>11. CASE Scrape
    <2>1. envLate <= 0 /\ UNCHANGED <<envLate, volumes>>
        BY <1>11 DEF Scrape
    <2>2. \A k \in DOMAIN volumes : volumes[k].age \in Int
        BY VolumeAt
    <2> QED  BY <2>1, <2>2
<1>12. CASE ReadFree
    <2>1. pc = "report" /\ pc' = "report" /\ envLate' = envLate /\ pos' = pos + 1
        BY <1>12 DEF ReadFree
    <2>2. ASSUME NEW k \in 1 .. Len(volumes), ~ volumes'[k].zero
          PROVE  /\ volumes'[k].age <= envLate + EnvValidity
                 /\ k >= pos + 1 => volumes'[k].age <= EnvValidity
        <3>1. CASE k = pos
            BY <3>1, <1>12, ReadEffect
        <3>2. CASE k # pos
            <4>1. volumes'[k] = volumes[k]
                BY <3>2, <1>12, ReadEffect
            <4> QED  BY <4>1, <2>1, <2>2, Positions
        <3> QED  BY <3>1, <3>2
    <2> QED  BY <2>1, <2>2, <1>12, ReadEffect, Positions
<1>13. CASE ReadFreeFails
    BY <1>13 DEF ReadFreeFails
<1>14. CASE UseCached
    BY <1>14 DEF UseCached
<1>15. CASE EndReport
    BY <1>15 DEF EndReport
<1> QED  BY <1>1, <1>2, <1>3, <1>4, <1>5, <1>6, <1>7, <1>8, <1>9, <1>10, <1>11, <1>12,
            <1>13, <1>14, <1>15, NextCases

\* volumeLastFetch is as old as the sizes, but for those a failed report passed
\* over.
LEMMA FetchNext ==
    ASSUME TypeOK, ListInv, FetchInv, [Next]_vars
    PROVE  FetchInv'
<1> USE SysVolumesAssumption DEF TypeOK, FetchInv, local, Searching
<1>1. CASE UNCHANGED vars
    BY <1>1 DEF vars, local
<1>2. CASE Tick
    <2>1. pc = "idle" /\ pc' = "idle" /\ passedOver' = passedOver
          /\ fetchAge' = Older(fetchAge, VolumeValidity + 1)
        BY <1>2 DEF Tick
    <2>2. ASSUME NEW k \in DOMAIN volumes, volumes[k].age <= fetchAge
          PROVE  Older(volumes[k].age, Unread) <= fetchAge' \/ fetchAge' > VolumeValidity
        <3>1. volumes[k].age \in Int
            BY VolumeAt
        <3> QED  BY <3>1, <2>1, <2>2, VolumeAt DEF Older
    <2>3. fetchAge > VolumeValidity => fetchAge' > VolumeValidity
        BY <2>1 DEF Older
    <2> QED  BY <2>1, <2>2, <2>3, TickEffect, <1>2, Positions
<1>3. CASE Plug
    BY <1>3 DEF Plug
<1>4. CASE Unplug
    BY <1>4 DEF Unplug
<1>5. CASE BeginEnum
    BY <1>5 DEF BeginEnum
<1>6. CASE DescFails
    BY <1>6 DEF DescFails
<1>7. CASE IgnoreVolume
    BY <1>7 DEF IgnoreVolume
<1>8. CASE ListVolume
    BY <1>8 DEF ListVolume
<1>9. CASE EndEnum
    <2>1. \A k \in DOMAIN volumes : volumes[k].zero
        BY <1>9 DEF EndEnum, ListInv
    <2>2. /\ volumes' = volumes /\ (expired' <=> fetchAge > VolumeValidity)
          /\ fetchAge' = IF expired' THEN 0 ELSE fetchAge
        BY <1>9 DEF EndEnum, BeginReport
    <2>3. fetchAge \in Int
        OBVIOUS
    <2>4. ~ expired' => fetchAge' <= VolumeValidity
        <3> HIDE DEF TypeOK
        <3> QED  BY <2>2, <2>3
    <2> QED  BY <2>1, <2>2, <2>4
<1>10. CASE AbortEnum
    BY <1>10 DEF AbortEnum
<1>11. CASE Scrape
    <2>1. /\ pc = "idle" /\ pos' = 1 /\ (expired' <=> fetchAge > VolumeValidity)
          /\ UNCHANGED <<volumes, passedOver>>
        BY <1>11 DEF Scrape, BeginReport
    <2>2. (expired' => fetchAge' = 0) /\ (~ expired' => fetchAge' = fetchAge)
        BY <1>11 DEF Scrape, BeginReport
    <2>0. fetchAge \in Int /\ pc # "report" /\ \A k \in DOMAIN volumes : k \in Int /\ k >= 1
        BY <2>1, Positions
    <2> HIDE DEF TypeOK
    <2>3. CASE fetchAge > VolumeValidity
        <3>1. expired' /\ \A k \in DOMAIN volumes : ~ (k < pos')
            BY <2>0, <2>1, <2>3
        <3>2. pc' = "report"
            BY <1>11 DEF Scrape, BeginReport
        <3> QED  BY <2>1, <3>1, <3>2
    <2>4. CASE ~ (fetchAge > VolumeValidity)
        <3>1. ~ expired' /\ fetchAge' = fetchAge /\ fetchAge' <= VolumeValidity
            BY <2>0, <2>1, <2>2, <2>4
        <3> QED  BY <2>0, <2>1, <3>1
    <2> QED  BY <2>3, <2>4
<1>12. CASE ReadFree
    <2>1. /\ pc = "report" /\ pc' = "report" /\ pos' = pos + 1
          /\ passedOver' = passedOver \ {volumes[pos].index}
          /\ UNCHANGED <<fetchAge, expired>>
        BY <1>12 DEF ReadFree
    <2>2. ASSUME NEW k \in 1 .. Len(volumes), ~ volumes'[k].zero, expired => k < pos + 1
          PROVE  \/ volumes'[k].index \in passedOver'
                 \/ volumes'[k].age <= fetchAge
                 \/ fetchAge > VolumeValidity
        <3>1. CASE k = pos
            BY <3>1, <1>12, ReadEffect
        <3>2. CASE k # pos
            <4>1. volumes'[k] = volumes[k] /\ pos \in 1 .. Len(volumes)
                BY <3>2, <1>12, ReadEffect
            <4>2. volumes[k].index # volumes[pos].index
                <5>1. volumes[k].index \in Int /\ volumes[pos].index \in Int
                    BY <4>1, VolumeAt, Positions DEF Indexes
                <5> QED  BY <5>1, <4>1, <3>2, Positions DEF ListInv
            <4> QED  BY <4>1, <4>2, <3>2, <2>1, <2>2, Positions
        <3> QED  BY <3>1, <3>2
    <2> QED  BY <2>1, <2>2, <1>12, ReadEffect, Positions
<1>13. CASE ReadFreeFails
    BY <1>13 DEF ReadFreeFails
<1>14. CASE UseCached
    <2>1. /\ ~ expired /\ pc' = pc
          /\ UNCHANGED <<fetchAge, expired, volumes, passedOver>>
        BY <1>14 DEF UseCached, MustRead
    <2> QED  BY <2>1
<1>15. CASE EndReport
    BY <1>15 DEF EndReport
<1> QED  BY <1>1, <1>2, <1>3, <1>4, <1>5, <1>6, <1>7, <1>8, <1>9, <1>10, <1>11, <1>12,
            <1>13, <1>14, <1>15, NextCases

\* What is reported is what the list holds up to the position.
LEMMA OutNext ==
    ASSUME TypeOK, ListInv, AgeInv, FetchInv, OutInv, [Next]_vars
    PROVE  OutInv'
<1> USE SysVolumesAssumption DEF TypeOK, OutInv, NeverReportsUnread, local, Searching
<1>1. CASE UNCHANGED vars
    BY <1>1 DEF vars, local
<1>2. CASE Tick
    BY <1>2 DEF Tick
<1>3. CASE Plug
    BY <1>3 DEF Plug
<1>4. CASE Unplug
    BY <1>4 DEF Unplug
<1>5. CASE BeginEnum
    BY <1>5 DEF BeginEnum
<1>6. CASE DescFails
    BY <1>6 DEF DescFails
<1>7. CASE IgnoreVolume
    BY <1>7 DEF IgnoreVolume
<1>8. CASE ListVolume
    BY <1>8 DEF ListVolume
<1>9. CASE EndEnum
    BY <1>9 DEF EndEnum, BeginReport
<1>10. CASE AbortEnum
    BY <1>10 DEF AbortEnum
<1>11. CASE Scrape
    BY <1>11 DEF Scrape, BeginReport
<1>12. CASE ReadFree
    <2>1. /\ pc = "report" /\ pc' = "report" /\ pos' = pos + 1
          /\ passedOver' = passedOver \ {volumes[pos].index}
        BY <1>12 DEF ReadFree
    <2>2. /\ pos \in 1 .. Len(volumes) /\ Len(volumes) \in Nat
          /\ DOMAIN volumes = 1 .. Len(volumes)
        BY <1>12, ReadEffect, Positions
    <2>3. /\ Len(out') = pos /\ out'[pos] = volumes'[pos] /\ DOMAIN out' = 1 .. pos
          /\ \A k \in 1 .. pos - 1 : out'[k] = out[k]
        <3>1. out \in Seq(Volume) /\ Len(out) = pos - 1
            BY <2>1
        <3>2. volumes'[pos] \in Volume /\ out' = Append(out, volumes'[pos])
            BY <1>12, ReadEffect
        <3> HIDE DEF TypeOK, OutInv
        <3> QED  BY <3>1, <3>2, <2>2
    <2>4. ASSUME NEW k \in 1 .. pos
          PROVE  /\ out'[k] = volumes'[k] /\ out'[k].age <= EnvValidity
                 /\ out'[k].age > VolumeValidity => out'[k].index \in passedOver'
        <3>1. CASE k = pos
            BY <3>1, <2>3, <1>12, ReadEffect
        <3>2. CASE k < pos
            <4>1. /\ out'[k] = out[k] /\ volumes'[k] = volumes[k] /\ out[k] = volumes[k]
                  /\ k \in DOMAIN out
                <5>1. k \in 1 .. pos - 1 /\ k \in 1 .. Len(volumes) /\ k # pos
                    BY <3>2, <2>2
                <5>2. volumes'[k] = volumes[k]
                    BY <5>1, <1>12, ReadEffect
                <5>3. out[k] = volumes[k] /\ Len(out) = pos - 1 /\ out \in Seq(Volume)
                    BY <5>1, <2>1
                <5> HIDE DEF TypeOK, OutInv
                <5> QED  BY <5>1, <5>2, <5>3, <2>3
            <4>2. volumes[k].index # volumes[pos].index
                <5>0. k \in DOMAIN volumes /\ pos \in DOMAIN volumes
                    BY <2>2, <3>2
                <5>1. volumes[k].index \in Indexes /\ volumes[pos].index \in Indexes
                    <6> HIDE DEF OutInv, NeverReportsUnread
                    <6> QED  BY <5>0, VolumeAt, Zenon
                <5>2. volumes[k].index < volumes[pos].index
                    <6> HIDE DEF TypeOK, OutInv
                    <6> QED  BY <5>0, <3>2 DEF ListInv
                <5> QED  BY <5>1, <5>2 DEF Indexes
            <4>3. k \in 1 .. pos - 1
                BY <3>2, <2>2
            <4>4. /\ out[k].age <= EnvValidity
                  /\ out[k].age > VolumeValidity => out[k].index \in passedOver
                BY <4>1, <4>3, <2>1
            <4> HIDE DEF TypeOK, OutInv, NeverReportsUnread
            <4> QED  BY <4>1, <4>2, <4>4, <2>1
        <3> QED  BY <3>1, <3>2
    <2> HIDE DEF TypeOK
    <2> QED  BY <2>1, <2>2, <2>3, <2>4
<1>13. CASE ReadFreeFails
    BY <1>13 DEF ReadFreeFails
<1>14. CASE UseCached
    <2>1. /\ pc = "report" /\ pc' = "report" /\ pos' = pos + 1
          /\ pos \in 1 .. Len(volumes) /\ ~ volumes[pos].zero /\ ~ expired
          /\ UNCHANGED <<volumes, passedOver>> /\ out' = Append(out, volumes[pos])
        BY <1>14 DEF UseCached, MustRead
    <2>2. volumes[pos] \in Volume /\ volumes[pos].age \in Int
        BY <2>1, VolumeAt, Positions
    <2>3. volumes[pos].age <= EnvValidity
        BY <2>1, Positions DEF AgeInv
    <2>4. volumes[pos].age > VolumeValidity => volumes[pos].index \in passedOver
        BY <2>1, <2>2, Positions DEF FetchInv
    <2>5. /\ Len(out') = pos /\ out'[pos] = volumes[pos] /\ DOMAIN out' = 1 .. pos
          /\ \A k \in 1 .. pos - 1 : out'[k] = out[k]
        <3>1. /\ out \in Seq(Volume) /\ Len(out) = pos - 1 /\ pos \in Nat
              /\ out' = Append(out, volumes[pos])
            BY <2>1
        <3> HIDE DEF TypeOK, OutInv
        <3> QED  BY <3>1, <2>2
    <2>6. ASSUME NEW k \in 1 .. pos
          PROVE  /\ out'[k] = volumes[k] /\ out'[k].age <= EnvValidity
                 /\ out'[k].age > VolumeValidity => out'[k].index \in passedOver
        <3>1. CASE k = pos
            BY <3>1, <2>3, <2>4, <2>5
        <3>2. CASE k < pos
            <4>1. k \in 1 .. pos - 1 /\ k \in DOMAIN out /\ out'[k] = out[k]
                BY <3>2, <2>1, <2>5
            <4> QED  BY <4>1, <2>1
        <3> QED  BY <3>1, <3>2
    <2> HIDE DEF TypeOK
    <2> QED  BY <2>1, <2>5, <2>6
<1>15. CASE EndReport
    BY <1>15 DEF EndReport
<1> QED  BY <1>1, <1>2, <1>3, <1>4, <1>5, <1>6, <1>7, <1>8, <1>9, <1>10, <1>11, <1>12,
            <1>13, <1>14, <1>15, NextCases

\* Past an index, the described indexes still to come are one fewer.
LEMMA AheadNext ==
    ASSUME plugged \in SUBSET Indexes, idx \in 0 .. MaxIndex + 1,
           NextIndex, plugged' = plugged
    PROVE  Ahead' = Ahead \ {idx} /\ Ahead \in SUBSET Indexes
<1>1. \A i \in plugged : i >= idx' <=> (i >= idx /\ i # idx)
    BY SysVolumesAssumption DEF Indexes, NextIndex
<1> QED  BY <1>1 DEF Ahead

\* Each volume counted as parsed is one less to come: the enumeration ends if no
\* description failed.
LEMMA CountNext ==
    ASSUME TypeOK, CountInv, [Next]_vars
    PROVE  CountInv'
<1>0. /\ plugged \in SUBSET Indexes /\ idx \in 0 .. MaxIndex + 1
      /\ volCount \in Int /\ parsed \in Int /\ \A i \in plugged : i \in Int /\ i >= 0
    BY DEF TypeOK, Indexes
<1> USE SysVolumesAssumption DEF CountInv, Ahead, local, Searching, NextIndex
<1>1. CASE UNCHANGED vars
    BY <1>1 DEF vars, local
<1>2. CASE Tick
    BY <1>2 DEF Tick
<1>3. CASE Plug
    <2>1. Ahead \in SUBSET Ahead' /\ Ahead' \in SUBSET Indexes
        BY <1>0, <1>3 DEF Plug
    <2>2. Cardinality(Ahead) <= Cardinality(Ahead')
        BY <1>0, <2>1, PluggedCount, FS_Subset
    <2> QED  BY <1>0, <1>3, <2>1, <2>2, PluggedCount DEF Plug
<1>4. CASE Unplug
    <2>1. ~ missed' /\ pc' = "enum" => ~ missed /\ pc = "enum" /\ Ahead' = Ahead
        BY <1>0, <1>4 DEF Unplug, Indexes
    <2> QED  BY <1>0, <1>4, <2>1 DEF Unplug
<1>5. CASE BeginEnum
    <2>1. Ahead' = plugged
        BY <1>0, <1>5 DEF BeginEnum, Indexes
    <2>2. volCount' <= 0 + Cardinality(plugged)
        BY <1>0, <1>5, PluggedCount DEF BeginEnum
    <2> QED  BY <1>0, <1>5, <2>1, <2>2 DEF BeginEnum
<1>6. CASE DescFails
    <2>1. ~ missed' => ~ missed /\ idx \notin plugged
        BY <1>6 DEF DescFails
    <2>2. Ahead' = Ahead \ {idx}
        BY <1>0, <1>6, AheadNext DEF DescFails
    <2>3. ~ missed' => ~ missed /\ Ahead' = Ahead
        BY <2>1, <2>2
    <2> HIDE DEF Ahead
    <2> QED  BY <1>6, <2>3 DEF DescFails
<1>7. CASE IgnoreVolume
    <2>1. /\ pc = "enum" /\ idx \in plugged /\ parsed' = parsed + 1
          /\ UNCHANGED <<volCount, missed, plugged>>
        BY <1>7 DEF IgnoreVolume
    <2>2. Ahead' = Ahead \ {idx} /\ idx \in Ahead /\ Ahead \in SUBSET Indexes
        BY <1>0, <1>7, <2>1, AheadNext DEF IgnoreVolume
    <2> HIDE DEF Ahead
    <2>3. IsFiniteSet(Ahead) /\ Cardinality(Ahead) \in Nat
        BY <2>2, PluggedCount, SysVolumesAssumption
    <2>4. Cardinality(Ahead') = Cardinality(Ahead) - 1
        BY <2>2, <2>3, FS_RemoveElement
    <2> QED  BY <1>0, <2>1, <2>3, <2>4
<1>8. CASE ListVolume
    <2>1. /\ pc = "enum" /\ idx \in plugged /\ parsed' = parsed + 1
          /\ UNCHANGED <<volCount, missed, plugged>>
        BY <1>8 DEF ListVolume
    <2>2. Ahead' = Ahead \ {idx} /\ idx \in Ahead /\ Ahead \in SUBSET Indexes
        BY <1>0, <1>8, <2>1, AheadNext DEF ListVolume
    <2> HIDE DEF Ahead
    <2>3. IsFiniteSet(Ahead) /\ Cardinality(Ahead) \in Nat
        BY <2>2, PluggedCount, SysVolumesAssumption
    <2>4. Cardinality(Ahead') = Cardinality(Ahead) - 1
        BY <2>2, <2>3, FS_RemoveElement
    <2> QED  BY <1>0, <2>1, <2>3, <2>4
<1>9. CASE EndEnum
    BY <1>9 DEF EndEnum, BeginReport
<1>10. CASE AbortEnum
    BY <1>10 DEF AbortEnum
<1>11. CASE Scrape
    BY <1>11 DEF Scrape, BeginReport
<1>12. CASE ReadFree
    BY <1>12 DEF ReadFree
<1>13. CASE ReadFreeFails
    BY <1>13 DEF ReadFreeFails
<1>14. CASE UseCached
    BY <1>14 DEF UseCached
<1>15. CASE EndReport
    BY <1>15 DEF EndReport
<1> QED  BY <1>1, <1>2, <1>3, <1>4, <1>5, <1>6, <1>7, <1>8, <1>9, <1>10, <1>11, <1>12,
            <1>13, <1>14, <1>15, NextCases

-------------------------------------------------------------------------------
\* The invariant holds when the exporter starts.
LEMMA Initially == Init => IInv
<1> SUFFICES ASSUME Init PROVE IInv
    OBVIOUS
<1>1. /\ volumes = <<>> /\ out = <<>> /\ DOMAIN volumes = {} /\ DOMAIN out = {}
      /\ Len(volumes) = 0
      /\ volumes \in Seq(Volume) /\ out \in Seq(Volume)
    BY DEF Init
<1>2. pc = "idle"
    BY DEF Init
<1>3. TypeOK
    <2>1. /\ expired \in BOOLEAN /\ missed \in BOOLEAN /\ passedOver \subseteq Indexes
        BY Zenon DEF Init
    <2>2. pos \in 1 .. Len(volumes) + 1
        BY <1>1 DEF Init
    <2>3. /\ plugged \subseteq Indexes /\ envLate \in - EnvValidity .. MaxLate
          /\ fetchAge \in 0 .. VolumeValidity + 1 /\ parsed \in 0 .. volCount
          /\ volCount \in 0 .. MaxIndex + 1 /\ idx \in 0 .. MaxIndex + 1
        BY SysVolumesAssumption DEF Init
    <2> QED  BY <1>1, <1>2, <2>1, <2>2, <2>3 DEF TypeOK
<1>4. ListInv /\ AgeInv /\ FetchInv /\ OutInv /\ CountInv
    BY <1>1, <1>2 DEF ListInv, AgeInv, FetchInv, OutInv, CountInv, NeverReportsUnread
<1> QED  BY <1>3, <1>4 DEF IInv

\* Every step preserves the invariant.
LEMMA Inductive == IInv /\ [Next]_vars => IInv'
BY TypeNext, ListNext, AgeNext, FetchNext, OutNext, CountNext DEF IInv

\* The invariant holds in every reachable state.
LEMMA Invariant == Spec => []IInv
BY Initially, Inductive, PTL DEF Spec

\* Every variable has its type: the loop over the volumes stays inside the list,
\* and no more of them are parsed than were counted.
THEOREM TypeCorrect == Spec => []TypeOK
<1>1. IInv => TypeOK
    BY DEF IInv
<1> QED  BY <1>1, Invariant, PTL

\* No free size is reported that was never read, or that is from before the last
\* expiry of the environment but one period, however many reports failed.
THEOREM ReportsWhatWasRead == Spec => []NeverReportsUnread
<1>1. IInv => NeverReportsUnread
    BY DEF IInv, OutInv
<1> QED  BY <1>1, Invariant, PTL

\* A reported size older than the validity is one that a failed report passed
\* over since it was read.
THEOREM OldOnlyIfPassedOver == Spec => []FreshUnlessPassedOver
<1>1. ASSUME IInv, pc = "report" PROVE \A k \in DOMAIN out :
          out[k].age > VolumeValidity => out[k].index \in passedOver
    <2>1. Len(out) = pos - 1 /\ DOMAIN out = 1 .. Len(out)
        BY <1>1 DEF IInv, OutInv, TypeOK
    <2> QED  BY <1>1, <2>1 DEF IInv, OutInv
<1>2. IInv => FreshUnlessPassedOver
    BY <1>1 DEF FreshUnlessPassedOver
<1> QED  BY <1>2, Invariant, PTL

\* The enumeration runs past the last volume, for ever, only if a counted volume
\* could not be described.
THEOREM HangNeedsFailure == Spec => []NoHangWithoutFailure
<1>1. ASSUME IInv, pc = "enum", idx > MaxIndex, parsed < volCount, ~ missed PROVE FALSE
    <2>1. \A i \in plugged : i \in Int /\ i <= MaxIndex
        BY <1>1, SysVolumesAssumption DEF IInv, TypeOK, Indexes
    <2>2. Ahead = {} /\ idx \in Int
        BY <1>1, <2>1, SysVolumesAssumption DEF IInv, TypeOK, Ahead
    <2>3. Cardinality(Ahead) = 0
        BY <2>2, FS_EmptySet
    <2>4. volCount <= parsed + 0 /\ volCount \in Int /\ parsed \in Int
        BY <1>1, <2>3 DEF IInv, CountInv, TypeOK
    <2> QED  BY <1>1, <2>4
<1>2. IInv => NoHangWithoutFailure
    BY <1>1 DEF NoHangWithoutFailure
<1> QED  BY <1>2, Invariant, PTL
===============================================================================
