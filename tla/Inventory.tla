------------------------------- MODULE Inventory -------------------------------
(***************************************************************************)
(* What readEnvironment finds on the NAS (lib/exporter/prometheus/         *)
(* prometheus.go) and the collectors that ask each thing found for its     *)
(* values: temperatures, disks, fans, enclosures, network interfaces, NVMe *)
(* drives, disk statistics, flash cache and dm-cache (system.go, disk.go,  *)
(* network.go, nvme.go).                                                   *)
(*                                                                         *)
(* Scrape.tla shows that the environment is not read while a collector     *)
(* runs.  The collectors share nothing but what they read of it, and each  *)
(* reads what its own reader wrote: a behaviour follows one of them,       *)
(* whichever, with its reader, over the successive scrapes of successive   *)
(* processes.  When the environment is read again is Scrape's question     *)
(* (EnvFreshAtLaunch): here it may be at the start of any scrape, and is   *)
(* at the first of a process.                                              *)
(*                                                                         *)
(* Things (disks in their slots, fans, drives...) are numbers, in the      *)
(* order in which they are enumerated; a disk is up when it is awake.  The *)
(* values read are data.                                                   *)
(***************************************************************************)
EXTENDS Integers, FiniteSetsExt

CONSTANT Size     \* BOUND: how many things of the kind there are, at most

ASSUME SizeAssumption == Size \in Nat \ {0}

VARIABLES
    collector,    \* the collector followed
    up,           \* external: the things that answer
    tool,         \* getsysinfo, halApp, nvmePath found; the kernel is the right one
    num,          \* syshdnum, sysfannum
    list,         \* enclosures, ifaces, devices, nvmeDevices, dmCacheClients
    pc,           \* "unread" (the next scrape reads the environment), "idle",
                  \* "ask" (the collector runs), "answered" or "dead"
    left,         \* the things still to ask
    items,        \* the things whose values are in the report
    failed,       \* the collector returned an error
    sick,         \* history: the things whose query failed by itself in this report
    steady,       \* history: the things up ever since the environment was read
    gone,         \* history: some thing went down since
    envOK         \* history: the reading of the environment met no failure

env == <<tool, num, list>>
report == <<left, items, failed, sick>>
world == <<up, steady, gone>>
vars == <<collector, world, env, pc, report, envOK>>

Things == 1 .. Size

Numbered == {"SysInfoHd", "SysInfoFan"}
Fixed == {"SysInfoTemp", "FlashCacheStats"}
Listed == {"EnclosureFan", "NetworkStats", "NvmeSmart", "DiskStats", "DmCacheStats"}
Collectors == Numbered \cup Fixed \cup Listed

\* Which failures of one thing a collector bears: it leaves the thing out and
\* goes on.  Any other failure makes the whole collector fail.
LeavesOut == {"EnclosureFan", "NvmeSmart", "SysInfoTemp"}
GivesUp == {"SysInfoHd", "SysInfoFan", "EnclosureFan", "NetworkStats", "SysInfoTemp"}

\* /sys and /dev are always there.
NeedsNoTool == {"NetworkStats", "DiskStats"}

Ready == pc \in {"idle", "answered"}

-------------------------------------------------------------------------------
(* Slips: variants of the definitions they are named for, used by none. *)

\* The count that is kept is that of the disks reported, the loop's variable
\* after its end, or a highest disk that starts below any.
CountReported == Cardinality(items)
CountPosition == num + 1
CountFromMinusOne == Max(items \cup {-1})

\* e.ifaces, e.devices... not emptied before they are filled.
FoundAgain(reading) == list \cup reading

-------------------------------------------------------------------------------
(* Processes and the NAS.                                                   *)

NewProcess ==
    /\ pc' = "unread"
    /\ tool' = (collector \in NeedsNoTool)
    /\ num' = 0 /\ list' = {}
    /\ left' = {} /\ items' = {} /\ failed' = FALSE /\ sick' = {}
    /\ steady' = {} /\ gone' = FALSE /\ envOK' = FALSE

Init ==
    /\ collector \in Collectors /\ up \in SUBSET Things
    /\ pc = "unread" /\ tool = (collector \in NeedsNoTool)
    /\ num = 0 /\ list = {}
    /\ left = {} /\ items = {} /\ failed = FALSE /\ sick = {}
    /\ steady = {} /\ gone = FALSE /\ envOK = FALSE

\* The service script launches the binary again, whatever ended it.
Restart == NewProcess /\ UNCHANGED <<collector, up>>

\* External: a disk wakes up or falls asleep, a drive or an interface comes or
\* goes, at any time.
Appear ==
    /\ \E x \in Things \ up : up' = up \cup {x}
    /\ UNCHANGED <<collector, steady, gone, env, pc, report, envOK>>

Vanish ==
    /\ \E x \in up : up' = up \ {x} /\ steady' = steady \ {x}
    /\ gone' = TRUE
    /\ UNCHANGED <<collector, env, pc, report, envOK>>

-------------------------------------------------------------------------------
(* readEnvironment, as far as it concerns this collector.                   *)

\* What the readers make of an empty list and what they found.
Found(reading) == reading

\* LookPath: a tool that was found is not looked for again.
LookPath == tool' \in IF tool THEN {TRUE} ELSE BOOLEAN

\* readHostInfo: dm-cache is read on a kernel 5 or later, the flash cache on an
\* earlier one, which is what a failing uname counts as.
readHostInfo ==
    /\ collector \in {"FlashCacheStats", "DmCacheStats"}
    /\ tool' \in BOOLEAN
    /\ envOK' \in IF tool' = (collector = "FlashCacheStats") THEN BOOLEAN ELSE {TRUE}
    /\ list' = IF collector = "FlashCacheStats" THEN list ELSE {}
    /\ UNCHANGED num

\* readSysInfo: a command that fails leaves -1, an output that is no number 0.
readSysInfo ==
    /\ collector \in {"SysInfoTemp"} \cup Numbered
    /\ LookPath
    /\ \/ tool' /\ collector \in Numbered /\ num' = Size /\ envOK' = TRUE
       \/ tool' /\ collector \in Numbered /\ num' \in {0, -1} /\ envOK' = FALSE
       \/ (tool' => collector = "SysInfoTemp") /\ UNCHANGED num /\ envOK' = TRUE
    /\ UNCHANGED list

\* readEnclosures: none, if the command is missing or fails.
readEnclosures ==
    /\ collector = "EnclosureFan"
    /\ LookPath
    /\ \/ tool' /\ list' = Found(up) /\ envOK' = TRUE
       \/ list' = {} /\ envOK' = ~ tool'
    /\ UNCHANGED num

\* readNetworkInterfaces, readDevices: the error of ReadDir is ignored, and what
\* it had read by then is used.
readDirectory ==
    /\ collector \in {"NetworkStats", "DiskStats", "NvmeSmart"}
    /\ \E reading \in SUBSET up :
          /\ list' = Found(reading)
          /\ envOK' \in {FALSE, reading = up}
    /\ UNCHANGED num

\* readNvmePath: the command is looked for once there is an NVMe drive.
readNvmePath ==
    IF collector = "NvmeSmart" /\ list' # {} THEN LookPath ELSE UNCHANGED tool

\* readDmCacheDevices on a kernel 5 or later: none, if dmsetup fails.
readDmCacheDevices ==
    /\ collector = "DmCacheStats"
    /\ tool' = TRUE
    /\ \/ list' = Found(up) /\ envOK' = TRUE
       \/ list' = {} /\ envOK' = FALSE
    /\ UNCHANGED num

ReadEnvironment ==
    /\ Ready \/ pc = "unread"
    /\ \/ readHostInfo /\ (collector = "DmCacheStats" => ~ tool')
       \/ readSysInfo
       \/ readEnclosures
       \/ readDirectory /\ readNvmePath
       \/ readDmCacheDevices
    /\ pc' = "idle"
    /\ left' = {} /\ items' = {} /\ failed' = FALSE /\ sick' = {}
    /\ steady' = up /\ gone' = FALSE
    /\ UNCHANGED <<collector, up>>

\* readEnclosures indexes past the fields of a short line: net/http recovers
\* from the panic, and the expiry was not advanced.
AbortEnvironment ==
    /\ Ready \/ pc = "unread"
    /\ pc' = "unread"
    /\ left' = {} /\ items' = {} /\ failed' = FALSE /\ sick' = {}
    /\ UNCHANGED <<collector, world, env, envOK>>

-------------------------------------------------------------------------------
(* The collectors.                                                          *)

\* The things the collector's loop goes over.
Asked ==
    IF collector \in Numbered THEN 1 .. num
    ELSE IF collector \in Fixed THEN Things ELSE list

\* A worker calls the collector.  make() of a negative capacity panics, in a
\* goroutine that nobody recovers.
Begin ==
    /\ Ready
    /\ left' = IF tool THEN Asked ELSE {}
    /\ items' = {} /\ failed' = FALSE /\ sick' = {}
    /\ pc' = IF tool /\ collector \in Numbered /\ num < 0 THEN "dead" ELSE "ask"
    /\ UNCHANGED <<collector, world, env, envOK>>

\* The collectors that ask one thing after the other.
OneByOne == pc = "ask" /\ collector \notin {"DiskStats", "DmCacheStats", "FlashCacheStats"}

Report(x) ==
    /\ x \in up
    /\ items' = items \cup {x}
    /\ left' = left \ {x}
    /\ UNCHANGED <<pc, failed, sick>>

\* A disk that is asleep answers "--".
Asleep(x) ==
    /\ collector = "SysInfoHd" /\ x \notin up
    /\ left' = left \ {x}
    /\ UNCHANGED <<pc, items, failed, sick>>

\* A query fails by itself, or because the thing found is gone; those that are
\* only counted, or fixed, are always asked about.
Blamed(x) == IF collector \in Listed /\ x \notin up THEN {} ELSE {x}

LeaveOut(x) ==
    /\ collector \in LeavesOut
    /\ left' = left \ {x}
    /\ sick' = sick \cup Blamed(x)
    /\ UNCHANGED <<pc, items, failed>>

\* The error is returned; the disk count stays as it is.
GiveUp(x) ==
    /\ collector \in GivesUp
    /\ failed' = TRUE /\ pc' = "answered" /\ left' = {}
    /\ sick' = sick \cup Blamed(x)
    /\ UNCHANGED items

Ask ==
    /\ OneByOne /\ left # {}
    /\ LET x == Min(left) IN Report(x) \/ Asleep(x) \/ LeaveOut(x) \/ GiveUp(x)
    /\ UNCHANGED <<collector, world, env, envOK>>

\* "Do not ask for data next time on disks that do not report it": the highest
\* disk reported.
Count == Max(items \cup {0})

Finish ==
    /\ OneByOne /\ left = {}
    /\ num' = IF collector = "SysInfoHd" /\ tool THEN Count ELSE num
    /\ pc' = "answered"
    /\ UNCHANGED <<collector, world, tool, list, report, envOK>>

AnswerWith(answer) ==
    /\ pc' = "answered" /\ left' = {}
    /\ items' = answer /\ failed' = FALSE /\ sick' = {}

\* One command or one file tells of all the things at once.
FailAltogether(end, blamed) ==
    /\ pc' = end /\ left' = {}
    /\ items' = {} /\ failed' = TRUE
    /\ sick' = blamed

\* disk.IOCounters reads /proc/diskstats: devices that are not in it are left
\* out, and no name stands for all names.
DiskStats ==
    /\ collector = "DiskStats" /\ pc = "ask"
    /\ \/ AnswerWith(IF left = {} THEN up ELSE left \cap up)
       \/ FailAltogether("answered", Things)
    /\ UNCHANGED <<collector, world, env, envOK>>

\* The statistics file of the flash cache, if it exists.  An empty line or one
\* without a colon is indexed past its end: a panic nobody recovers.
FlashCacheStats ==
    /\ collector = "FlashCacheStats" /\ pc = "ask"
    /\ \/ AnswerWith(left \cap up)
       \/ left # {} /\ \E end \in {"answered", "dead"} : FailAltogether(end, left)
    /\ UNCHANGED <<collector, world, env, envOK>>

\* The statistics file of the cache volume, if there is one: read, absent, not
\* understood, or with a line that is indexed past its end.
appendDmCacheHitMetrics ==
    \/ AnswerWith(left)
    \/ \E end \in {"answered", "dead"} : FailAltogether(end, left)

\* dmsetup fails if one of the clients is gone.  A status line without a slash
\* is indexed past its end.
DmCacheStats ==
    /\ collector = "DmCacheStats" /\ pc = "ask"
    /\ \/ left = {} /\ AnswerWith({})
       \/ ~ left \subseteq up /\ FailAltogether("answered", {})
       \/ left # {} /\ left \subseteq up /\ appendDmCacheHitMetrics
       \/ left # {} /\ left \subseteq up
          /\ \E end \in {"answered", "dead"} : FailAltogether(end, left)
    /\ UNCHANGED <<collector, world, env, envOK>>

Next ==
    \/ Restart \/ Appear \/ Vanish
    \/ ReadEnvironment \/ AbortEnvironment
    \/ Begin \/ Ask \/ Finish
    \/ DiskStats \/ FlashCacheStats \/ DmCacheStats

Spec == Init /\ [][Next]_vars

-------------------------------------------------------------------------------
TypeOK ==
    /\ collector \in Collectors /\ up \subseteq Things
    /\ tool \in BOOLEAN /\ num \in -1 .. Size /\ list \subseteq Things
    /\ pc \in {"unread", "idle", "ask", "answered", "dead"}
    /\ left \subseteq Things /\ items \subseteq Things /\ sick \subseteq Things
    /\ failed \in BOOLEAN
    /\ steady \subseteq up /\ gone \in BOOLEAN /\ envOK \in BOOLEAN

\* A thing that was there when the environment was read, and ever since, is in
\* every report that does not say it failed, unless its own query failed:
\* whatever was left out by earlier scrapes, and although the disk count shrinks
\* to what they found awake.
ReportComplete ==
    pc = "answered" /\ ~ failed /\ tool /\ envOK => steady \subseteq items \cup sick

\* The collectors that fail as a whole when one thing is missing recover with
\* the next reading of the environment: no query for a thing that is up having
\* failed, they fail only if something went down since that reading.
OutageEnds == pc = "answered" /\ failed => gone \/ sick # {}

\* A worker that panics ends the process.  It does so only after a failure, of
\* the last reading of the environment or of a query of this report: never
\* because things sleep, come or go.
CrashNeedsFailure == pc = "dead" => ~ envOK \/ sick # {}
===============================================================================
