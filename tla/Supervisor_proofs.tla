--------------------------- MODULE Supervisor_proofs ---------------------------
(***************************************************************************)
(* Proofs about Supervisor, for any number of supervisors and process ids. *)
(*                                                                         *)
(* The type invariant holds whoever runs the script.  That one supervisor  *)
(* runs and that the PID file tells of it are proved for an operator who   *)
(* waits for a command before giving the next: nothing keeps two commands  *)
(* at once from forking twice.                                             *)
(*                                                                         *)
(* The inductive invariant says of each place of a command what runs and   *)
(* what the PID file holds (FileInv), and that a supervisor told to stop   *)
(* is one that a command waits for (TermInv).                              *)
(***************************************************************************)
EXTENDS Supervisor, FiniteSetTheorems, TLAPS

OneOperator == \A o, q \in Operators : o = q

NoneLive == \A s \in Sups : ~ Live(s)

OnlyLive(s) == Live(s) /\ \A t \in Sups : Live(t) => t = s

FileInv ==
    /\ (\A o \in Operators : op[o] \in {"idle", "check"}) =>
           IF pidFile = 0 THEN NoneLive ELSE OnlyLive(pidFile)
    /\ \A o \in Operators :
        /\ op[o] = "fork" => pidFile = 0 /\ NoneLive
        /\ op[o] = "write" => OnlyLive(target[o])
        /\ op[o] = "kill" => OnlyLive(target[o])
        /\ op[o] = "await" => \A t \in Sups : Live(t) => t = target[o]
        /\ op[o] = "remove" => NoneLive

TermInv ==
    \A s \in Sups : term[s] =>
        \/ sup[s] = "gone"
        \/ Live(s) /\ \E o \in Operators : op[o] = "await" /\ target[o] = s

IInv == TypeOK /\ FileInv /\ TermInv

-------------------------------------------------------------------------------
\* Every step of the program, one case per action.
LEMMA NextCases ==
    ASSUME [Next]_vars
    PROVE  \/ UNCHANGED vars
           \/ \E p \in Procs : Serve(p) \/ BindFails(p) \/ Crash(p) \/ Exit(p)
           \/ \E s \in Sups :
                 Launch(s) \/ Record(s) \/ Wait(s) \/ Clear(s) \/ Backoff(s) \/ Trap(s)
           \/ \E o \in Operators :
                 \/ Start(o) \/ Stop(o)
                 \/ Check(o) \/ Fork(o) \/ Write(o) \/ Kill(o) \/ Await(o) \/ Remove(o)
BY DEF Next, Binary, Loop, Script

\* Types, and the recorded child.
LEMMA TypeNext ==
    ASSUME TypeOK, [Next]_vars
    PROVE  TypeOK'
<1> USE SupervisorAssumption DEF TypeOK, At, Goto, OpGoto, AfterStop, Sups, supVars,
       binVars, opVars
<1>1. CASE UNCHANGED vars
    BY <1>1 DEF vars
<1>2. ASSUME NEW p \in Procs, Serve(p)  PROVE TypeOK'
    BY <1>2 DEF Serve
<1>3. ASSUME NEW p \in Procs, BindFails(p)  PROVE TypeOK'
    BY <1>3 DEF BindFails
<1>4. ASSUME NEW p \in Procs, Crash(p)  PROVE TypeOK'
    BY <1>4 DEF Crash
<1>5. ASSUME NEW p \in Procs, Exit(p)  PROVE TypeOK'
    BY <1>5 DEF Exit
<1>6. ASSUME NEW s \in Sups, Launch(s)  PROVE TypeOK'
    BY <1>6 DEF Launch
<1>7. ASSUME NEW s \in Sups, Record(s)  PROVE TypeOK'
    BY <1>7 DEF Record
<1>8. ASSUME NEW s \in Sups, Wait(s)  PROVE TypeOK'
    BY <1>8 DEF Wait
<1>9. ASSUME NEW s \in Sups, Clear(s)  PROVE TypeOK'
    BY <1>9 DEF Clear
<1>10. ASSUME NEW s \in Sups, Backoff(s)  PROVE TypeOK'
    BY <1>10 DEF Backoff
<1>11. ASSUME NEW s \in Sups, Trap(s)  PROVE TypeOK'
    BY <1>11 DEF Trap, Signalled
<1>12. ASSUME NEW o \in Operators, Start(o)  PROVE TypeOK'
    BY <1>12 DEF Start
<1>13. ASSUME NEW o \in Operators, Stop(o)  PROVE TypeOK'
    BY <1>13 DEF Stop
<1>14. ASSUME NEW o \in Operators, Check(o)  PROVE TypeOK'
    BY <1>14 DEF Check
<1>15. ASSUME NEW o \in Operators, Fork(o)  PROVE TypeOK'
    BY <1>15 DEF Fork
<1>16. ASSUME NEW o \in Operators, Write(o)  PROVE TypeOK'
    BY <1>16 DEF Write
<1>17. ASSUME NEW o \in Operators, Kill(o)  PROVE TypeOK'
    BY <1>17 DEF Kill
<1>18. ASSUME NEW o \in Operators, Await(o)  PROVE TypeOK'
    BY <1>18 DEF Await
<1>19. ASSUME NEW o \in Operators, Remove(o)  PROVE TypeOK'
    BY <1>19 DEF Remove
<1> QED  BY <1>1, <1>2, <1>3, <1>4, <1>5, <1>6, <1>7, <1>8, <1>9, <1>10, <1>11, <1>12,
            <1>13, <1>14, <1>15, <1>16, <1>17, <1>18, <1>19,
            NextCases

-------------------------------------------------------------------------------
\* Steps that leave alone who runs, what the PID file holds, and the commands.
LEMMA FileStays ==
    ASSUME TypeOK, FileInv, \A t \in Sups : Live(t)' <=> Live(t),
           UNCHANGED <<pidFile, op, target>>
    PROVE  FileInv'
<1>1. NoneLive' <=> NoneLive
    BY DEF NoneLive
<1>2. ASSUME NEW v, v \in 0 .. MaxSups
      PROVE  (\A t \in Sups : Live(t)' => t = v) <=> (\A t \in Sups : Live(t) => t = v)
    OBVIOUS
<1>3. ASSUME NEW v \in 0 .. MaxSups
      PROVE  Live(v)' <=> Live(v)
    <2>1. CASE v = 0
        BY <2>1 DEF Live, Sups
    <2>2. CASE v \in Sups
        BY <2>2
    <2> QED  BY <2>1, <2>2, SupervisorAssumption DEF Sups
<1>4. pidFile \in 0 .. MaxSups /\ \A o \in Operators : target[o] \in 0 .. MaxSups
    BY DEF TypeOK
<1>5. OnlyLive(pidFile)' <=> OnlyLive(pidFile)
    BY <1>3, <1>4 DEF OnlyLive
<1>6. \A o \in Operators : OnlyLive(target[o])' <=> OnlyLive(target[o])
    BY <1>3, <1>4 DEF OnlyLive
<1> QED  BY <1>1, <1>5, <1>6 DEF FileInv

\* A supervisor in the middle of its loop goes on living.
LEMMA LoopLives ==
    ASSUME TypeOK, NEW s \in Sups, Live(s), NEW l, l \notin {"none", "gone"}, Goto(s, l)
    PROVE  \A t \in Sups : Live(t)' <=> Live(t)
BY DEF TypeOK, Goto, Live

\* What runs, and what the PID file holds, at each place of a command.
LEMMA FileNext ==
    ASSUME OneOperator, TypeOK, FileInv, TermInv, [Next]_vars
    PROVE  FileInv'
<1> USE SupervisorAssumption DEF supVars, binVars, opVars
<1>1. CASE UNCHANGED vars
    BY <1>1, FileStays DEF vars, Live
<1>2. ASSUME NEW p \in Procs, Serve(p)  PROVE FileInv'
    BY <1>2, FileStays DEF Serve, Live
<1>3. ASSUME NEW p \in Procs, BindFails(p)  PROVE FileInv'
    BY <1>3, FileStays DEF BindFails, Live
<1>4. ASSUME NEW p \in Procs, Crash(p)  PROVE FileInv'
    BY <1>4, FileStays DEF Crash, Live
<1>5. ASSUME NEW p \in Procs, Exit(p)  PROVE FileInv'
    BY <1>5, FileStays DEF Exit, Live
<1>6. ASSUME NEW s \in Sups, Launch(s)  PROVE FileInv'
    BY <1>6, LoopLives, FileStays DEF Launch, At, Live
<1>7. ASSUME NEW s \in Sups, Record(s)  PROVE FileInv'
    BY <1>7, LoopLives, FileStays DEF Record, At, Live
<1>8. ASSUME NEW s \in Sups, Wait(s)  PROVE FileInv'
    BY <1>8, LoopLives, FileStays DEF Wait, At, Live
<1>9. ASSUME NEW s \in Sups, Clear(s)  PROVE FileInv'
    BY <1>9, LoopLives, FileStays DEF Clear, At, Live
<1>10. ASSUME NEW s \in Sups, Backoff(s)  PROVE FileInv'
    BY <1>10, LoopLives, FileStays DEF Backoff, At, Live
<1>11. ASSUME NEW s \in Sups, Trap(s)  PROVE FileInv'
    <2>1. PICK o \in Operators : op[o] = "await" /\ target[o] = s
        BY <1>11 DEF Trap, TermInv, Live
    <2>2. \A q \in Operators : op'[q] = "await" /\ target'[q] = s
        BY <1>11, <2>1 DEF Trap, OneOperator
    <2>3. \A t \in Sups : Live(t)' => Live(t)
        BY <1>11 DEF Trap, Goto, Live, TypeOK
    <2> QED  BY <2>1, <2>2, <2>3 DEF FileInv
<1>12. ASSUME NEW o \in Operators, Start(o)  PROVE FileInv'
    <2>1. /\ op[o] = "idle" /\ op'[o] = "check" /\ \A q \in Operators : q = o
          /\ UNCHANGED <<pidFile, sup>>
        BY <1>12 DEF Start, OpGoto, TypeOK, OneOperator
    <2> QED  BY <2>1 DEF FileInv, NoneLive, OnlyLive, Live
<1>13. ASSUME NEW o \in Operators, Stop(o)  PROVE FileInv'
    <2>1. /\ op[o] = "idle" /\ \A q \in Operators : q = o
          /\ \/ op'[o] = "kill" /\ pidFile # 0
             \/ op'[o] \in {"check", "idle"} /\ pidFile = 0
          /\ target'[o] = pidFile
          /\ UNCHANGED <<pidFile, sup>>
        <3>1. PICK restart \in BOOLEAN :
                 op' = [op EXCEPT ![o] = IF pidFile # 0 THEN "kill"
                                         ELSE IF restart THEN "check" ELSE "idle"]
            BY <1>13 DEF Stop, OpGoto
        <3>2. op'[o] = IF pidFile # 0 THEN "kill" ELSE IF restart THEN "check" ELSE "idle"
            BY <3>1 DEF TypeOK
        <3>3. op[o] = "idle" /\ target'[o] = pidFile /\ UNCHANGED <<pidFile, sup>>
            BY <1>13 DEF Stop, TypeOK
        <3>4. \/ op'[o] = "kill" /\ pidFile # 0
              \/ op'[o] \in {"check", "idle"} /\ pidFile = 0
            BY <3>2
        <3> QED  BY <3>3, <3>4 DEF OneOperator
    <2>2. IF pidFile = 0 THEN NoneLive ELSE OnlyLive(pidFile)
        BY <2>1 DEF FileInv
    <2> QED  BY <2>1, <2>2 DEF FileInv, NoneLive, OnlyLive, Live
<1>14. ASSUME NEW o \in Operators, Check(o)  PROVE FileInv'
    <2>1. /\ op[o] = "check" /\ \A q \in Operators : q = o
          /\ op'[o] = (IF Live(pidFile) THEN "idle" ELSE "fork")
          /\ UNCHANGED <<pidFile, sup>>
        BY <1>14 DEF Check, OpGoto, TypeOK, OneOperator
    <2>2. IF pidFile = 0 THEN NoneLive ELSE OnlyLive(pidFile)
        BY <2>1 DEF FileInv
    <2> QED  BY <2>1, <2>2 DEF FileInv, NoneLive, OnlyLive, Live
<1>15. ASSUME NEW o \in Operators, Fork(o)  PROVE FileInv'
    <2>1. PICK s \in Sups : /\ sup' = [sup EXCEPT ![s] = "launch"]
                            /\ target' = [target EXCEPT ![o] = s]
        BY <1>15 DEF Fork
    <2>2. op'[o] = "write" /\ target'[o] = s /\ \A q \in Operators : q = o
        BY <1>15, <2>1 DEF Fork, OpGoto, TypeOK, OneOperator
    <2>3. NoneLive
        BY <1>15 DEF Fork, FileInv
    <2>4. OnlyLive(s)'
        BY <2>1, <2>3 DEF OnlyLive, NoneLive, Live, TypeOK
    <2> QED  BY <2>2, <2>4 DEF FileInv
<1>16. ASSUME NEW o \in Operators, Write(o)  PROVE FileInv'
    <2>1. /\ op[o] = "write" /\ op'[o] = "idle" /\ \A q \in Operators : q = o
          /\ pidFile' = target[o] /\ UNCHANGED <<sup, target>>
        BY <1>16 DEF Write, OpGoto, TypeOK, OneOperator
    <2>2. OnlyLive(target[o]) /\ target[o] # 0
        BY <2>1 DEF FileInv, OnlyLive, Live, Sups
    <2> QED  BY <2>1, <2>2 DEF FileInv, NoneLive, OnlyLive, Live
<1>17. ASSUME NEW o \in Operators, Kill(o)  PROVE FileInv'
    <2>1. OnlyLive(target[o])
        BY <1>17 DEF Kill, FileInv
    <2>2. /\ op'[o] = "await" /\ \A q \in Operators : q = o
          /\ UNCHANGED <<pidFile, sup, target>>
        BY <1>17, <2>1 DEF Kill, OpGoto, TypeOK, OneOperator, OnlyLive
    <2> QED  BY <2>1, <2>2 DEF FileInv, NoneLive, OnlyLive, Live
<1>18. ASSUME NEW o \in Operators, Await(o)  PROVE FileInv'
    <2>1. /\ op[o] = "await" /\ ~ Live(target[o]) /\ op'[o] = "remove"
          /\ \A q \in Operators : q = o
          /\ UNCHANGED <<pidFile, sup, target>>
        BY <1>18 DEF Await, OpGoto, TypeOK, OneOperator
    <2>2. NoneLive
        BY <2>1 DEF FileInv, NoneLive
    <2> QED  BY <2>1, <2>2 DEF FileInv, NoneLive, Live
<1>19. ASSUME NEW o \in Operators, Remove(o)  PROVE FileInv'
    <2>1. /\ op[o] = "remove" /\ op'[o] \in {"check", "idle"}
          /\ \A q \in Operators : q = o
          /\ pidFile' = 0 /\ UNCHANGED <<sup, target>>
        BY <1>19 DEF Remove, AfterStop, OpGoto, TypeOK, OneOperator
    <2>2. NoneLive
        BY <2>1 DEF FileInv
    <2> QED  BY <2>1, <2>2 DEF FileInv, NoneLive, Live
<1> QED  BY <1>1, <1>2, <1>3, <1>4, <1>5, <1>6, <1>7, <1>8, <1>9, <1>10, <1>11, <1>12,
            <1>13, <1>14, <1>15, <1>16, <1>17, <1>18, <1>19,
            NextCases

\* A supervisor told to stop is waited for until it is gone.
LEMMA TermNext ==
    ASSUME OneOperator, TypeOK, FileInv, TermInv, [Next]_vars
    PROVE  TermInv'
<1> USE SupervisorAssumption DEF TypeOK, supVars, binVars, opVars, At, Goto, Live, TermInv
<1>1. CASE UNCHANGED vars
    BY <1>1 DEF vars
<1>2. ASSUME NEW p \in Procs, Serve(p)  PROVE TermInv'
    BY <1>2 DEF Serve
<1>3. ASSUME NEW p \in Procs, BindFails(p)  PROVE TermInv'
    BY <1>3 DEF BindFails
<1>4. ASSUME NEW p \in Procs, Crash(p)  PROVE TermInv'
    BY <1>4 DEF Crash
<1>5. ASSUME NEW p \in Procs, Exit(p)  PROVE TermInv'
    BY <1>5 DEF Exit
<1>6. ASSUME NEW s \in Sups, Launch(s)  PROVE TermInv'
    BY <1>6 DEF Launch
<1>7. ASSUME NEW s \in Sups, Record(s)  PROVE TermInv'
    BY <1>7 DEF Record
<1>8. ASSUME NEW s \in Sups, Wait(s)  PROVE TermInv'
    BY <1>8 DEF Wait
<1>9. ASSUME NEW s \in Sups, Clear(s)  PROVE TermInv'
    BY <1>9 DEF Clear
<1>10. ASSUME NEW s \in Sups, Backoff(s)  PROVE TermInv'
    BY <1>10 DEF Backoff
<1>11. ASSUME NEW s \in Sups, Trap(s)  PROVE TermInv'
    BY <1>11 DEF Trap
<1>12. ASSUME NEW o \in Operators, Start(o)  PROVE TermInv'
    BY <1>12 DEF Start, OpGoto, AfterStop, OneOperator
<1>13. ASSUME NEW o \in Operators, Stop(o)  PROVE TermInv'
    BY <1>13 DEF Stop, OpGoto, AfterStop, OneOperator
<1>14. ASSUME NEW o \in Operators, Check(o)  PROVE TermInv'
    BY <1>14 DEF Check, OpGoto, AfterStop, OneOperator
<1>15. ASSUME NEW o \in Operators, Fork(o)  PROVE TermInv'
    <2>1. PICK s \in Sups : sup[s] = "none" /\ sup' = [sup EXCEPT ![s] = "launch"]
        BY <1>15 DEF Fork
    <2>2. ASSUME NEW t \in Sups, term'[t]
          PROVE  sup'[t] = "gone"
        <3>1. term[t] /\ op[o] = "fork"
            BY <1>15, <2>2 DEF Fork
        <3>2. sup[t] = "gone"
            BY <3>1 DEF OneOperator
        <3> QED  BY <2>1, <3>2
    <2> QED  BY <2>2
<1>16. ASSUME NEW o \in Operators, Write(o)  PROVE TermInv'
    BY <1>16 DEF Write, OpGoto, AfterStop, OneOperator
<1>17. ASSUME NEW o \in Operators, Kill(o)  PROVE TermInv'
    <2>1. OnlyLive(target[o])
        BY <1>17 DEF Kill, FileInv
    <2>2. /\ term' = [term EXCEPT ![target[o]] = TRUE] /\ op'[o] = "await"
          /\ UNCHANGED <<sup, target>> /\ op[o] = "kill"
        BY <1>17, <2>1 DEF Kill, OpGoto, OnlyLive
    <2>3. ASSUME NEW t \in Sups, term'[t], t # target[o]
          PROVE  sup'[t] = "gone"
        BY <2>2, <2>3 DEF OneOperator
    <2> QED  BY <2>1, <2>2, <2>3 DEF OnlyLive
<1>18. ASSUME NEW o \in Operators, Await(o)  PROVE TermInv'
    <2>1. /\ op[o] = "await" /\ ~ Live(target[o]) /\ UNCHANGED <<term, sup>>
        BY <1>18 DEF Await
    <2>2. ASSUME NEW t \in Sups, term[t]  PROVE sup[t] = "gone"
        BY <2>1, <2>2 DEF OneOperator
    <2> QED  BY <2>1, <2>2
<1>19. ASSUME NEW o \in Operators, Remove(o)  PROVE TermInv'
    BY <1>19 DEF Remove, OpGoto, AfterStop, OneOperator
<1> QED  BY <1>1, <1>2, <1>3, <1>4, <1>5, <1>6, <1>7, <1>8, <1>9, <1>10, <1>11, <1>12,
            <1>13, <1>14, <1>15, <1>16, <1>17, <1>18, <1>19,
            NextCases

-------------------------------------------------------------------------------
\* The invariant holds when the program starts.
LEMMA Initially == Init => IInv
<1> SUFFICES ASSUME Init  PROVE IInv
    OBVIOUS
<1>1. TypeOK
    <2>1. term \in [Sups -> BOOLEAN] /\ again \in [Operators -> BOOLEAN]
        BY Zenon DEF Init
    <2> QED  BY <2>1, SupervisorAssumption DEF Init, TypeOK, Sups
<1>2. FileInv /\ TermInv
    BY DEF Init, FileInv, TermInv, NoneLive, Live
<1> QED  BY <1>1, <1>2 DEF IInv

\* The type invariant, however many operators run the script at once: CHILD_PID
\* names the binary waited for, or one that has exited.
THEOREM TypeCorrect == Spec => []TypeOK
<1>1. Init => TypeOK
    BY Initially DEF IInv
<1> QED  BY <1>1, TypeNext, PTL DEF Spec

\* With one operator, the invariant holds in every reachable state.
LEMMA Invariant ==
    ASSUME OneOperator
    PROVE  Spec => []IInv
<1>1. IInv /\ [Next]_vars => IInv'
    BY TypeNext, FileNext, TermNext DEF IInv
<1> QED  BY Initially, <1>1, PTL DEF Spec

\* Starts, stops and restarts one after the other never leave two supervisors:
\* a new one is forked only when the last is gone.
THEOREM SupervisorsAreOne ==
    ASSUME OneOperator
    PROVE  Spec => []OneSupervisor
<1>1. IInv => OneSupervisor
    <2> SUFFICES ASSUME IInv  PROVE OneSupervisor
        OBVIOUS
    <2> DEFINE L == {s \in Sups : Live(s)}
    <2>1. \A s, t \in L : s = t
        <3>1. CASE \A o \in Operators : op[o] \in {"idle", "check"}
            BY <3>1 DEF IInv, FileInv, NoneLive, OnlyLive
        <3>2. ASSUME NEW o \in Operators, op[o] \notin {"idle", "check"}
              PROVE  \A s, t \in L : s = t
            BY <3>2 DEF IInv, TypeOK, FileInv, NoneLive, OnlyLive
        <3> QED  BY <3>1, <3>2
    <2>2. CASE L = {}
        BY <2>2, FS_EmptySet DEF OneSupervisor
    <2>3. ASSUME NEW s \in L  PROVE OneSupervisor
        <3>1. L = {s}
            BY <2>1
        <3> QED  BY <3>1, FS_Singleton DEF OneSupervisor
    <2> QED  BY <2>2, <2>3
<1> QED  BY Invariant, <1>1, PTL

\* Between two commands the PID file tells the truth, so that the next one does
\* what it is asked to.
THEOREM PidFileTells ==
    ASSUME OneOperator
    PROVE  Spec => []PidFileTrue
<1>1. IInv => PidFileTrue
    BY DEF IInv, FileInv, NoneLive, OnlyLive, PidFileTrue
<1> QED  BY Invariant, <1>1, PTL

===============================================================================
