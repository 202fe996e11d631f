------------------------------ MODULE Supervisor ------------------------------
(***************************************************************************)
(* The service script, qpkg/shared/qnapexporter.sh: `start` forks a        *)
(* supervisor subshell that relaunches the binary whenever it exits,       *)
(* `stop` sends it TERM and waits for it, `restart` does both.             *)
(*                                                                         *)
(* One step is one shell command.  A trapped signal is acted upon between  *)
(* two commands; it interrupts `wait`, but not `sleep`, which ends first.  *)
(* The binary, external to the script, binds its port or exits, may crash, *)
(* and ends some time after TERM; main.go is the source of that.           *)
(*                                                                         *)
(* Supervisors are numbered in the order of their start, the content of    *)
(* the PID file; 0 is no process.  Process ids are not used twice while    *)
(* somebody remembers them.  The package is enabled: `start` of a disabled  *)
(* one exits before it looks at anything.                                  *)
(***************************************************************************)
EXTENDS Naturals, FiniteSets

CONSTANTS Operators,  \* who runs the script
          MaxSups,    \* BOUND: supervisors started
          Procs       \* BOUND: binaries alive or remembered, as process ids

ASSUME SupervisorAssumption ==
    /\ MaxSups \in Nat \ {0}
    /\ IsFiniteSet(Procs) /\ Procs \subseteq Nat \ {0}

VARIABLES
    pidFile,   \* content of PID_FILE, 0 when there is none
    sup,       \* per supervisor: "none", "launch", "record", "wait", "clear", "sleep", "gone"
    term,      \* per supervisor: a TERM is pending
    child,     \* per supervisor: $!, the binary launched last
    childPid,  \* per supervisor: CHILD_PID, 0 when empty
    proc,      \* per binary: "none", "boot", "serving", "stopping"
    parent,    \* history: per binary, the supervisor that launched it
    op,        \* per operator: "idle", "check", "fork", "write", "kill", "await", "remove"
    again,     \* per operator: `restart`, start follows
    target     \* per operator: PID (stop) or $! (start)

supVars == <<sup, term, child, childPid>>
binVars == <<proc, parent>>
opVars == <<op, again, target>>
vars == <<pidFile, supVars, binVars, opVars>>

Sups == 1 .. MaxSups
Live(s) == s \in Sups /\ sup[s] \notin {"none", "gone"}
Alive(p) == proc[p] # "none"

\* A binary told to stop closes its port at some time before it exits, and one
\* stopped early never had it.
PortTaken == \E p \in Procs : proc[p] = "serving"
PortMayBeTaken == \E p \in Procs : proc[p] \in {"serving", "stopping"}

Init ==
    /\ pidFile = 0
    /\ sup = [s \in Sups |-> "none"] /\ term = [s \in Sups |-> FALSE]
    /\ child = [s \in Sups |-> 0] /\ childPid = [s \in Sups |-> 0]
    /\ proc = [p \in Procs |-> "none"] /\ parent = [p \in Procs |-> 0]
    /\ op = [o \in Operators |-> "idle"] /\ again = [o \in Operators |-> FALSE]
    /\ target = [o \in Operators |-> 0]

-------------------------------------------------------------------------------
(* The binary.                                                             *)

Serve(p) ==
    /\ proc[p] = "boot" /\ ~ PortTaken
    /\ proc' = [proc EXCEPT ![p] = "serving"]
    /\ UNCHANGED <<pidFile, supVars, parent, opVars>>

\* ListenAndServe fails, and run returns.
BindFails(p) ==
    /\ proc[p] = "boot" /\ PortMayBeTaken
    /\ proc' = [proc EXCEPT ![p] = "none"]
    /\ UNCHANGED <<pidFile, supVars, parent, opVars>>

Crash(p) ==
    /\ proc[p] = "serving"
    /\ proc' = [proc EXCEPT ![p] = "none"]
    /\ UNCHANGED <<pidFile, supVars, parent, opVars>>

\* After TERM: Shutdown, Close, exit.
Exit(p) ==
    /\ proc[p] = "stopping"
    /\ proc' = [proc EXCEPT ![p] = "none"]
    /\ UNCHANGED <<pidFile, supVars, parent, opVars>>

Binary(p) == Serve(p) \/ BindFails(p) \/ Exit(p)

-------------------------------------------------------------------------------
(* The supervisor.                                                         *)

At(s, label) == sup[s] = label /\ ~ term[s]
Goto(s, label) == sup' = [sup EXCEPT ![s] = label]

Remembered(p) == \E s \in Sups : Live(s) /\ p \in {child[s], childPid[s]}

\* "$QPKG_DIR"/qnapexporter $EXTRA_ARGS &
Launch(s) ==
    /\ At(s, "launch")
    /\ \E p \in Procs :
           /\ ~ Alive(p) /\ ~ Remembered(p)
           /\ proc' = [proc EXCEPT ![p] = "boot"]
           /\ parent' = [parent EXCEPT ![p] = s]
           /\ child' = [child EXCEPT ![s] = p]
    /\ Goto(s, "record")
    /\ UNCHANGED <<pidFile, term, childPid, opVars>>

\* CHILD_PID=$!
Record(s) ==
    /\ At(s, "record")
    /\ childPid' = [childPid EXCEPT ![s] = child[s]]
    /\ Goto(s, "wait")
    /\ UNCHANGED <<pidFile, term, child, binVars, opVars>>

\* wait "$CHILD_PID"
Wait(s) ==
    /\ At(s, "wait") /\ ~ Alive(childPid[s])
    /\ Goto(s, "clear")
    /\ UNCHANGED <<pidFile, term, child, childPid, binVars, opVars>>

\* Slip: CHILD_PID keeps the id of the binary that exited.
KeepingPid(s) ==
    /\ At(s, "clear")
    /\ Goto(s, "sleep")
    /\ UNCHANGED <<pidFile, term, child, childPid, binVars, opVars>>

\* CHILD_PID=""
Clear(s) ==
    /\ At(s, "clear")
    /\ childPid' = [childPid EXCEPT ![s] = 0]
    /\ Goto(s, "sleep")
    /\ UNCHANGED <<pidFile, term, child, binVars, opVars>>

\* Slip: the launch stands before the loop.
BackToWait(s) ==
    /\ sup[s] = "sleep"
    /\ Goto(s, "sleep")
    /\ UNCHANGED <<pidFile, term, child, childPid, binVars, opVars>>

\* sleep "$RESTART_BACKOFF", a foreground command: a trap waits for its end.
Backoff(s) ==
    /\ sup[s] = "sleep"
    /\ Goto(s, "launch")
    /\ UNCHANGED <<pidFile, term, child, childPid, binVars, opVars>>

Signalled(p) ==
    IF p \in Procs /\ Alive(p) THEN [proc EXCEPT ![p] = "stopping"] ELSE proc

\* Slip: no `exit 0` in the trap.
TrapGoingOn(s) ==
    /\ Live(s) /\ term[s] /\ sup[s] # "sleep"
    /\ proc' = Signalled(childPid[s])
    /\ term' = [term EXCEPT ![s] = FALSE]
    /\ UNCHANGED <<pidFile, sup, child, childPid, parent, opVars>>

\* The TERM trap: the recorded child is killed, the supervisor exits.
Trap(s) ==
    /\ Live(s) /\ term[s] /\ sup[s] # "sleep"
    /\ proc' = Signalled(childPid[s])
    /\ Goto(s, "gone")
    /\ UNCHANGED <<pidFile, term, child, childPid, parent, opVars>>

Loop(s) == Launch(s) \/ Record(s) \/ Wait(s) \/ Clear(s) \/ Backoff(s) \/ Trap(s)

-------------------------------------------------------------------------------
(* The script's commands.                                                  *)

OpGoto(o, label) == op' = [op EXCEPT ![o] = label]

Start(o) ==
    /\ op[o] = "idle"
    /\ OpGoto(o, "check")
    /\ UNCHANGED <<pidFile, supVars, binVars, again, target>>

\* `stop`, or the `$0 stop` of `restart`: without a PID file it only complains.
Stop(o) ==
    /\ op[o] = "idle"
    /\ \E restart \in BOOLEAN :
           /\ again' = [again EXCEPT ![o] = restart]
           /\ OpGoto(o, IF pidFile # 0 THEN "kill" ELSE IF restart THEN "check" ELSE "idle")
    /\ target' = [target EXCEPT ![o] = pidFile]
    /\ UNCHANGED <<pidFile, supVars, binVars>>

\* [ -f $PID_FILE ] && kill -0: already running, or go on.
Check(o) ==
    /\ op[o] = "check"
    /\ OpGoto(o, IF Live(pidFile) THEN "idle" ELSE "fork")
    /\ again' = [again EXCEPT ![o] = FALSE]
    /\ UNCHANGED <<pidFile, supVars, binVars, target>>

\* ( ... ) &
Fork(o) ==
    /\ op[o] = "fork"
    /\ \E s \in Sups :
           /\ sup[s] = "none" /\ \A t \in 1 .. s - 1 : sup[t] # "none"
           /\ sup' = [sup EXCEPT ![s] = "launch"]
           /\ target' = [target EXCEPT ![o] = s]
    /\ OpGoto(o, "write")
    /\ UNCHANGED <<pidFile, term, child, childPid, binVars, again>>

\* echo $! >$PID_FILE
Write(o) ==
    /\ op[o] = "write"
    /\ pidFile' = target[o]
    /\ OpGoto(o, "idle")
    /\ UNCHANGED <<supVars, binVars, again, target>>

Kill(o) ==
    /\ op[o] = "kill"
    /\ IF Live(target[o])
       THEN term' = [term EXCEPT ![target[o]] = TRUE] /\ OpGoto(o, "await")
       ELSE UNCHANGED term /\ OpGoto(o, "remove")
    /\ UNCHANGED <<pidFile, sup, child, childPid, binVars, again, target>>

\* Slip: `stop` does not wait for the supervisor.
NotAwaiting(o) ==
    /\ op[o] = "await"
    /\ OpGoto(o, "remove")
    /\ UNCHANGED <<pidFile, supVars, binVars, again, target>>

\* while kill -0 "$PID"; do sleep 1; done
Await(o) ==
    /\ op[o] = "await" /\ ~ Live(target[o])
    /\ OpGoto(o, "remove")
    /\ UNCHANGED <<pidFile, supVars, binVars, again, target>>

AfterStop(o) == OpGoto(o, IF again[o] THEN "check" ELSE "idle")

\* Slip: the PID file stays.
NotRemoving(o) ==
    /\ op[o] = "remove"
    /\ AfterStop(o)
    /\ UNCHANGED <<pidFile, supVars, binVars, again, target>>

\* rm $PID_FILE; after it, the `$0 start` of a restart.
Remove(o) ==
    /\ op[o] = "remove"
    /\ pidFile' = 0
    /\ AfterStop(o)
    /\ UNCHANGED <<supVars, binVars, again, target>>

Script(o) == Check(o) \/ Fork(o) \/ Write(o) \/ Kill(o) \/ Await(o) \/ Remove(o)

Next ==
    \/ \E p \in Procs : Binary(p) \/ Crash(p)
    \/ \E s \in Sups : Loop(s)
    \/ \E o \in Operators : Script(o) \/ Start(o) \/ Stop(o)

\* Every process gets to run, and the binary ends when told to; no crash, start
\* or stop has to come.
Fairness ==
    /\ \A p \in Procs : WF_vars(Binary(p))
    /\ \A s \in Sups : WF_vars(Loop(s))
    /\ \A o \in Operators : WF_vars(Script(o))

Spec == Init /\ [][Next]_vars /\ Fairness

-------------------------------------------------------------------------------
\* A recorded child is one that was waited for, or is about to be forgotten.
TypeOK ==
    /\ pidFile \in 0 .. MaxSups
    /\ sup \in [Sups -> {"none", "launch", "record", "wait", "clear", "sleep", "gone"}]
    /\ term \in [Sups -> BOOLEAN]
    /\ child \in [Sups -> Procs \cup {0}] /\ childPid \in [Sups -> Procs \cup {0}]
    /\ \A s \in Sups : childPid[s] # 0 => sup[s] \in {"wait", "clear", "gone"}
    /\ proc \in [Procs -> {"none", "boot", "serving", "stopping"}]
    /\ parent \in [Procs -> 0 .. MaxSups]
    /\ op \in [Operators -> {"idle", "check", "fork", "write", "kill", "await", "remove"}]
    /\ again \in [Operators -> BOOLEAN] /\ target \in [Operators -> 0 .. MaxSups]

\* However starts, stops and restarts follow each other, one supervisor runs.
OneSupervisor == Cardinality({s \in Sups : Live(s)}) <= 1

\* Between two commands the PID file names the supervisor that runs, or does
\* not exist: the next stop finds it, the next start is neither refused nor
\* doubled.
PidFileTrue ==
    (\A o \in Operators : op[o] = "idle") =>
        IF pidFile = 0 THEN \A s \in Sups : ~ Live(s) ELSE Live(pidFile)

\* While a supervisor runs and is not told to stop, the metrics are served, or
\* will be again: after a crash, and after a restart during which the old
\* binary still holds the port.
Supervised == \E s \in Sups : Live(s) /\ ~ term[s]
KeepsServing == Supervised ~> (\E p \in Procs : proc[p] = "serving") \/ ~ Supervised

\* `stop` ends, in whatever command of its loop it catches the supervisor.
StopEnds == \A o \in Operators : op[o] = "kill" ~> op[o] \in {"check", "idle"}

\* The script's comment: "`stop` cleanly kills both the loop and the running
\* child, without the child being respawned".  No binary is left running, not
\* even told to stop, without its supervisor.
NoOrphan ==
    \A p \in Procs : proc[p] \in {"boot", "serving"} => Live(parent[p])
===============================================================================
