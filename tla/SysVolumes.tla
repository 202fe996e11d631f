------------------------------ MODULE SysVolumes ------------------------------
(***************************************************************************)
(* The volumes: readSysVolInfo, which readEnvironment calls, and the       *)
(* "SysInfoVol" collector (lib/exporter/prometheus/volinfo.go).            *)
(*                                                                         *)
(* Scrape.tla shows that one scrape at a time has the environment and that *)
(* the collectors start after it was read, so one scrape is one sequence   *)
(* of steps here.  The getsysinfo command is external: any call may fail,  *)
(* and volumes come and go between two calls.  A free size is kept as the  *)
(* age of the reading; `zero` tells the sizes the code distinguishes.      *)
(*                                                                         *)
(* Time is relative, in ticks, and passes between scrapes: a scrape is     *)
(* short against a validity.                                               *)
(***************************************************************************)
EXTENDS Integers, Sequences, FiniteSets

CONSTANTS MaxIndex,        \* BOUND: the highest index a volume has
          EnvValidity,     \* 5 minutes
          VolumeValidity,  \* 1 minute
          MaxLate          \* BOUND: how late the exporter is scraped

ASSUME SysVolumesAssumption ==
    /\ MaxIndex \in Nat /\ MaxLate \in Nat
    /\ EnvValidity \in Nat \ {0} /\ VolumeValidity \in Nat \ {0}

VARIABLES
    plugged,    \* external: the indexes that getsysinfo describes
    envLate,    \* time.Now() - envExpiry
    fetchAge,   \* age of volumeLastFetch, at most VolumeValidity + 1; that if zero
    volumes,    \* e.volumes: a sequence of [index, zero, age]
    pc,         \* "idle", "enum" (readSysVolInfo) or "report" (the collector)
    volCount,   \* volumes to find
    parsed,     \* parsedVolCount
    idx,        \* idx, MaxIndex + 1 standing for all that follow
    expired,    \* expired
    pos,        \* the position of the loop over e.volumes
    out,        \* the volumes reported by this scrape
    missed,     \* history: a volume was counted but not described
    passedOver  \* history: the indexes a failed report has left unread

local == <<volCount, parsed, idx, expired, pos>>
vars == <<plugged, envLate, fetchAge, volumes, pc, local, out, missed, passedOver>>

Indexes == 0 .. MaxIndex

\* freeSizeBytes of a volume just listed: 0, and read from nowhere.
Unread == EnvValidity + 1

Init ==
    /\ plugged \in SUBSET Indexes
    /\ envLate = 0 /\ fetchAge = VolumeValidity + 1
    /\ volumes = <<>> /\ pc = "idle"
    /\ volCount = 0 /\ parsed = 0 /\ idx = 0 /\ expired = FALSE /\ pos = 1
    /\ out = <<>> /\ missed = FALSE /\ passedOver = {}

Older(age, most) == IF age < most THEN age + 1 ELSE most

Tick ==
    /\ pc = "idle" /\ envLate < MaxLate
    /\ envLate' = envLate + 1
    /\ fetchAge' = Older(fetchAge, VolumeValidity + 1)
    /\ volumes' = [k \in DOMAIN volumes |->
                      [volumes[k] EXCEPT !.age = Older(@, Unread)]]
    /\ UNCHANGED <<plugged, pc, local, out, missed, passedOver>>

\* External: a volume is created, or removed.
Plug ==
    /\ \E i \in Indexes \ plugged : plugged' = plugged \cup {i}
    /\ UNCHANGED <<envLate, fetchAge, volumes, pc, local, out, missed, passedOver>>

Unplug ==
    /\ \E i \in plugged :
           /\ plugged' = plugged \ {i}
           /\ missed' = (missed \/ (pc = "enum" /\ i >= idx))
    /\ UNCHANGED <<envLate, fetchAge, volumes, pc, local, out, passedOver>>

-------------------------------------------------------------------------------
(* readSysVolInfo                                                          *)

\* An expired environment: sysvolnum, whose failure counts as no volume.
BeginEnum ==
    /\ pc = "idle" /\ envLate > 0
    /\ volCount' \in {Cardinality(plugged), 0}
    /\ volumes' = <<>> /\ parsed' = 0 /\ idx' = 0
    /\ expired' = FALSE /\ pos' = 1
    /\ out' = <<>> /\ missed' = FALSE /\ passedOver' = {}
    /\ pc' = "enum"
    /\ UNCHANGED <<plugged, envLate, fetchAge>>

\* Slip: the loop's condition off by one.
SearchingOneMore == pc = "enum" /\ parsed <= volCount

Searching == pc = "enum" /\ parsed < volCount

NextIndex == idx' = IF idx <= MaxIndex THEN idx + 1 ELSE idx

\* vol_desc fails: the index is passed, and not counted.
DescFails ==
    /\ Searching
    /\ NextIndex
    /\ missed' = (missed \/ idx \in plugged)
    /\ UNCHANGED <<plugged, envLate, fetchAge, volumes, pc, volCount, parsed,
                   expired, pos, out, passedOver>>

\* Slip: an ignored volume is not counted.
IgnoreVolumeUncounted ==
    /\ Searching /\ idx \in plugged
    /\ NextIndex
    /\ UNCHANGED <<plugged, envLate, fetchAge, volumes, pc, volCount, parsed,
                   expired, pos, out, missed, passedOver>>

\* Counted, but not listed: a single disk's volume, an unknown file system, or
\* a failure of one of the other queries.
IgnoreVolume ==
    /\ Searching /\ idx \in plugged
    /\ NextIndex /\ parsed' = parsed + 1
    /\ UNCHANGED <<plugged, envLate, fetchAge, volumes, pc, volCount,
                   expired, pos, out, missed, passedOver>>

ListVolume ==
    /\ Searching /\ idx \in plugged
    /\ NextIndex /\ parsed' = parsed + 1
    /\ volumes' = Append(volumes, [index |-> idx, zero |-> TRUE, age |-> Unread])
    /\ UNCHANGED <<plugged, envLate, fetchAge, pc, volCount,
                   expired, pos, out, missed, passedOver>>

-------------------------------------------------------------------------------
(* getSysInfoVolMetrics                                                    *)

BeginReport ==
    /\ expired' = (fetchAge > VolumeValidity)
    /\ fetchAge' = IF expired' THEN 0 ELSE fetchAge
    /\ pos' = 1 /\ out' = <<>>
    /\ pc' = "report"

\* All counted volumes were found; the rest of readEnvironment, and then the
\* collector starts.
EndEnum ==
    /\ pc = "enum" /\ parsed = volCount
    /\ envLate' = envLate - EnvValidity
    /\ BeginReport
    /\ UNCHANGED <<plugged, volumes, volCount, parsed, idx, missed, passedOver>>

\* readEnclosures panics after the enumeration: the scrape is dropped, and the
\* expiry not advanced.
AbortEnum ==
    /\ pc = "enum" /\ parsed = volCount
    /\ pc' = "idle"
    /\ UNCHANGED <<plugged, envLate, fetchAge, volumes, local, out, missed, passedOver>>

\* The environment is still valid.
Scrape ==
    /\ pc = "idle" /\ envLate <= 0
    /\ BeginReport
    /\ UNCHANGED <<plugged, envLate, volumes, volCount, parsed, idx, missed, passedOver>>

\* Slips: a free size that was never read is taken for a value; the time of the
\* reading is not looked at.
MustReadExpired(v) == expired
MustReadZero(v) == v.zero

MustRead(v) == expired \/ v.zero

ReadFree ==
    /\ pc = "report" /\ pos <= Len(volumes) /\ MustRead(volumes[pos])
    /\ \E isZero \in BOOLEAN :
           volumes' = [volumes EXCEPT ![pos] =
                          [index |-> @.index, zero |-> isZero, age |-> 0]]
    /\ out' = Append(out, volumes'[pos])
    /\ passedOver' = passedOver \ {volumes[pos].index}
    /\ pos' = pos + 1
    /\ UNCHANGED <<plugged, envLate, fetchAge, pc, volCount, parsed, idx, expired, missed>>

\* vol_freesize fails: the whole collector fails, and the volumes from here on
\* keep their old sizes although volumeLastFetch is renewed.
ReadFreeFails ==
    /\ pc = "report" /\ pos <= Len(volumes) /\ MustRead(volumes[pos])
    /\ passedOver' = passedOver \cup {volumes[k].index : k \in pos .. Len(volumes)}
    /\ out' = <<>> /\ pc' = "idle"
    /\ UNCHANGED <<plugged, envLate, fetchAge, volumes, local, missed>>

UseCached ==
    /\ pc = "report" /\ pos <= Len(volumes) /\ ~ MustRead(volumes[pos])
    /\ out' = Append(out, volumes[pos])
    /\ pos' = pos + 1
    /\ UNCHANGED <<plugged, envLate, fetchAge, volumes, pc, volCount, parsed, idx,
                   expired, missed, passedOver>>

EndReport ==
    /\ pc = "report" /\ pos > Len(volumes)
    /\ pc' = "idle"
    /\ UNCHANGED <<plugged, envLate, fetchAge, volumes, local, out, missed, passedOver>>

Next ==
    \/ Tick \/ Plug \/ Unplug
    \/ BeginEnum \/ DescFails \/ IgnoreVolume \/ ListVolume \/ EndEnum \/ AbortEnum
    \/ Scrape \/ ReadFree \/ ReadFreeFails \/ UseCached \/ EndReport

Spec == Init /\ [][Next]_vars

-------------------------------------------------------------------------------
Volume == [index : Indexes, zero : BOOLEAN, age : 0 .. Unread]

TypeOK ==
    /\ plugged \subseteq Indexes
    /\ envLate \in - EnvValidity .. MaxLate
    /\ fetchAge \in 0 .. VolumeValidity + 1
    /\ volumes \in Seq(Volume) /\ out \in Seq(Volume)
    /\ pc \in {"idle", "enum", "report"}
    /\ parsed \in 0 .. volCount /\ volCount \in 0 .. MaxIndex + 1
    /\ idx \in 0 .. MaxIndex + 1
    /\ pos \in 1 .. Len(volumes) + 1
    /\ expired \in BOOLEAN /\ missed \in BOOLEAN
    /\ passedOver \subseteq Indexes

\* CHANGELOG.md: "Try to fix spikes by forcing read if freeSizeBytes is 0".  A
\* size that was never read is never reported, whatever failed before and
\* whenever the volumes were listed anew; nor is one from before the
\* environment expired.
NeverReportsUnread == \A k \in DOMAIN out : out[k].age <= EnvValidity

\* A reported free size is older than volumeValidity only if, since it was
\* read, a scrape has failed and left it unread.
FreshUnlessPassedOver ==
    pc = "report" => \A k \in DOMAIN out :
        out[k].age > VolumeValidity => out[k].index \in passedOver

\* CHANGELOG.md: "Fix hang at startup".  The enumeration runs past the last
\* volume, and so for ever, with fetchMu held, only if a volume was counted
\* and could not be described.
NoHangWithoutFailure ==
    pc = "enum" /\ idx > MaxIndex /\ parsed < volCount => missed
===============================================================================
