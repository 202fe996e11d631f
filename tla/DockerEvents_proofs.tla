-------------------------- MODULE DockerEvents_proofs --------------------------
(***************************************************************************)
(* Proofs about DockerEvents, for any number of events and interruptions   *)
(* and any length of the hour.                                             *)
(*                                                                         *)
(* The inductive invariant IInv has two parts beside TypeOK:               *)
(*   ErrorInv    the error of a stream comes after its end, and the        *)
(*               listener that has read it asks for another, unless it is  *)
(*               about to end;                                             *)
(*   HandedInv   an event that the open stream was asked for is still to   *)
(*               hand over, being posted, or annotated.                    *)
(***************************************************************************)
EXTENDS DockerEvents, WellFoundedInduction, TLAPS

ErrorInv ==
    /\ errs # "empty" => stream = "ended"
    /\ loop = "new" => stream = "none" /\ errs = "empty"
    /\ loop = "wait" => errs = "closed"
    /\ loop \in {"select", "post"} /\ errs = "closed" => cancelled

HandedInv ==
    /\ kept \cup queue \subseteq 1 .. emitted
    /\ loop = "post" => current # 0
    /\ stream = "open" =>
        \A e \in kept :
            Recent(e) => e \in annotated \cup queue \/ (loop = "post" /\ e = current)

IInv == TypeOK /\ ErrorInv /\ HandedInv

-------------------------------------------------------------------------------
\* A set of naturals has a least element.
LEMMA LeastNatural ==
    ASSUME NEW S \in SUBSET Nat, S # {}
    PROVE  \E x \in S : \A y \in S : x <= y
<1>0. ASSUME NEW x \in Nat, NEW y \in Nat, y < x
      PROVE  <<y, x>> \in OpToRel(<, Nat)
    <2>1. <<y, x>> \in {ss \in Nat \X Nat : ss[1] < ss[2]}
        BY <1>0
    <2> QED  BY <2>1, Zenon DEF OpToRel
<1>1. \E x \in S : \A y \in S : ~ (<<y, x>> \in OpToRel(<, Nat))
    BY WFMin, NatLessThanWellFounded
<1>2. PICK x \in S : \A y \in S : ~ (<<y, x>> \in OpToRel(<, Nat))
    BY <1>1
<1>3. ASSUME NEW y \in S  PROVE x <= y
    <2>1. ~ (y < x)
        BY <1>2, <1>0, Zenon
    <2> QED  BY <2>1
<1> QED  BY <1>3

\* Min, which is a choice, is a member of its set.
LEMMA LeastOf ==
    ASSUME NEW S \in SUBSET Nat, S # {}
    PROVE  Min(S) \in S
BY LeastNatural DEF Min

\* Every step of the program, one case per action.
LEMMA NextCases ==
    ASSUME [Next]_vars
    PROVE  \/ UNCHANGED vars
           \/ Emit \/ Tick \/ ConnectionLost \/ DaemonStops \/ DaemonStarts \/ Cancel
           \/ ResponseEnds \/ StreamCancelled
           \/ NewClient \/ Connect \/ ReceiveError \/ ReceiveNil
           \/ Receive \/ Post \/ Backoff \/ Done
BY DEF Next, Stream, Listener

\* What is cut off is the end of what was sent.
LEMMA CutKeeps ==
    ASSUME Cut
    PROVE  /\ queue' \subseteq queue
           /\ stream = "open" => stream' = "broken"
           /\ stream # "open" => stream' = stream /\ queue' = queue
BY DEF Cut

\* Types, and that no stream is left behind alive.
LEMMA TypeNext ==
    ASSUME TypeOK, ErrorInv, HandedInv, [Next]_vars
    PROVE  TypeOK'
<1> USE DockerEventsAssumption DEF TypeOK, ErrorInv, HandedInv, Events, Running,
       daemonVars, streamVars, loopVars
<1>1. CASE UNCHANGED vars
    BY <1>1 DEF vars
<1>2. CASE Emit
    BY <1>2 DEF Emit
<1>3. CASE Tick
    BY <1>3 DEF Tick, Recent
<1>4. CASE ConnectionLost
    <2>1. Cut
        BY <1>4 DEF ConnectionLost
    <2>2. queue' \subseteq queue /\ (queue' # {} => Running')
        BY <2>1, CutKeeps
    <2>3. stream' \in {"none", "open", "broken", "ended"} /\ (Running' => Running)
        BY <2>1, CutKeeps
    <2> QED  BY <1>4, <2>2, <2>3 DEF ConnectionLost
<1>5. CASE DaemonStops
    <2>1. Cut
        BY <1>5 DEF DaemonStops
    <2>2. queue' \subseteq queue /\ (queue' # {} => Running')
        BY <2>1, CutKeeps
    <2>3. stream' \in {"none", "open", "broken", "ended"} /\ (Running' => Running)
        BY <2>1, CutKeeps
    <2> QED  BY <1>5, <2>2, <2>3 DEF DaemonStops
<1>6. CASE DaemonStarts
    BY <1>6 DEF DaemonStarts
<1>7. CASE Cancel
    BY <1>7 DEF Cancel
<1>8. CASE ResponseEnds
    BY <1>8 DEF ResponseEnds, EndStream
<1>9. CASE StreamCancelled
    BY <1>9 DEF StreamCancelled, EndStream
<1>10. CASE NewClient
    BY <1>10 DEF NewClient
<1>11. CASE Connect
    BY <1>11 DEF Connect, EndStream, Asked
<1>12. CASE ReceiveError
    BY <1>12 DEF ReceiveError
<1>13. CASE ReceiveNil
    BY <1>13 DEF ReceiveNil, vars, Recent
<1>14. CASE Receive
    <2>1. queue \in SUBSET Nat /\ queue # {}
        BY <1>14 DEF Receive
    <2>2. current' \in queue /\ queue' = queue \ {current'}
        BY <1>14, <2>1, LeastOf DEF Receive
    <2>3. /\ current' \in 1 .. MaxEvents /\ queue' \subseteq queue
          /\ Running /\ loop' = "post" /\ loop = "select"
          /\ UNCHANGED <<daemon, kept, emitted, age, breaks, stream, errs, annotated,
                         cancelled>>
        BY <1>14, <2>2 DEF Receive
    <2> QED  BY <2>2, <2>3
<1>15. CASE Post
    BY <1>15 DEF Post
<1>16. CASE Backoff
    BY <1>16 DEF Backoff
<1>17. CASE Done
    BY <1>17 DEF Done
<1> QED  BY <1>1, <1>2, <1>3, <1>4, <1>5, <1>6, <1>7, <1>8, <1>9, <1>10, <1>11, <1>12,
            <1>13, <1>14, <1>15, <1>16, <1>17, NextCases

\* The error of a stream.
LEMMA ErrorNext ==
    ASSUME TypeOK, ErrorInv, [Next]_vars
    PROVE  ErrorInv'
<1> USE DEF TypeOK, ErrorInv, Running, daemonVars, streamVars, loopVars
<1>1. CASE UNCHANGED vars
    BY <1>1 DEF vars
<1>2. CASE Emit
    BY <1>2 DEF Emit
<1>3. CASE Tick
    BY <1>3 DEF Tick
<1>4. CASE ConnectionLost
    BY <1>4, CutKeeps DEF ConnectionLost
<1>5. CASE DaemonStops
    BY <1>5, CutKeeps DEF DaemonStops
<1>6. CASE DaemonStarts
    BY <1>6 DEF DaemonStarts
<1>7. CASE Cancel
    BY <1>7 DEF Cancel
<1>8. CASE ResponseEnds
    BY <1>8 DEF ResponseEnds, EndStream
<1>9. CASE StreamCancelled
    BY <1>9 DEF StreamCancelled, EndStream
<1>10. CASE NewClient
    BY <1>10 DEF NewClient
<1>11. CASE Connect
    BY <1>11 DEF Connect, EndStream
<1>12. CASE ReceiveError
    BY <1>12 DEF ReceiveError
<1>13. CASE ReceiveNil
    BY <1>13 DEF ReceiveNil, vars, Recent
<1>14. CASE Receive
    BY <1>14, LeastOf DEF Receive
<1>15. CASE Post
    BY <1>15 DEF Post
<1>16. CASE Backoff
    BY <1>16 DEF Backoff
<1>17. CASE Done
    BY <1>17 DEF Done
<1> QED  BY <1>1, <1>2, <1>3, <1>4, <1>5, <1>6, <1>7, <1>8, <1>9, <1>10, <1>11, <1>12,
            <1>13, <1>14, <1>15, <1>16, <1>17, NextCases

\* The events of the open stream.
LEMMA HandedNext ==
    ASSUME TypeOK, HandedInv, [Next]_vars
    PROVE  HandedInv'
<1> USE DockerEventsAssumption DEF TypeOK, HandedInv, Events, Running, daemonVars,
       streamVars, loopVars
<1>1. CASE UNCHANGED vars
    BY <1>1 DEF vars, Recent
<1>2. CASE Emit
    BY <1>2 DEF Emit, Recent
<1>3. CASE Tick
    BY <1>3 DEF Tick, Recent
<1>4. CASE ConnectionLost
    BY <1>4, CutKeeps DEF ConnectionLost, Recent
<1>5. CASE DaemonStops
    BY <1>5, CutKeeps DEF DaemonStops, Recent
<1>6. CASE DaemonStarts
    BY <1>6 DEF DaemonStarts, Recent
<1>7. CASE Cancel
    BY <1>7 DEF Cancel, Recent
<1>8. CASE ResponseEnds
    BY <1>8 DEF ResponseEnds, EndStream, Recent
<1>9. CASE StreamCancelled
    BY <1>9 DEF StreamCancelled, EndStream, Recent
<1>10. CASE NewClient
    BY <1>10 DEF NewClient, Recent
<1>11. CASE Connect
    BY <1>11 DEF Connect, EndStream, Asked, Recent
<1>12. CASE ReceiveError
    BY <1>12 DEF ReceiveError, Recent
<1>13. CASE ReceiveNil
    BY <1>13 DEF ReceiveNil, vars, Recent
<1>14. CASE Receive
    <2>1. queue \in SUBSET Nat /\ queue # {}
        BY <1>14 DEF Receive
    <2>2. current' \in queue /\ queue' = queue \ {current'}
        BY <1>14, <2>1, LeastOf DEF Receive
    <2>3. /\ current' \in 1 .. MaxEvents /\ queue' \subseteq queue
          /\ Running /\ loop' = "post" /\ loop = "select"
          /\ UNCHANGED <<daemon, kept, emitted, age, breaks, stream, errs, annotated,
                         cancelled>>
        BY <1>14, <2>2 DEF Receive
    <2> QED  BY <2>2, <2>3 DEF Recent
<1>15. CASE Post
    BY <1>15 DEF Post, Recent
<1>16. CASE Backoff
    BY <1>16 DEF Backoff, Recent
<1>17. CASE Done
    BY <1>17 DEF Done, Recent
<1> QED  BY <1>1, <1>2, <1>3, <1>4, <1>5, <1>6, <1>7, <1>8, <1>9, <1>10, <1>11, <1>12,
            <1>13, <1>14, <1>15, <1>16, <1>17, NextCases

-------------------------------------------------------------------------------
\* The invariant holds when the program starts.
LEMMA Initially == Init => IInv
<1> SUFFICES ASSUME Init  PROVE IInv
    OBVIOUS
<1> USE DockerEventsAssumption DEF Init
<1>1. cancelled \in BOOLEAN
    BY Zenon
<1>2. TypeOK
    BY <1>1 DEF TypeOK, Running, Events
<1>3. ErrorInv /\ HandedInv
    BY DEF ErrorInv, HandedInv
<1> QED  BY <1>2, <1>3 DEF IInv

\* Every step preserves the invariant.
LEMMA Inductive == IInv /\ [Next]_vars => IInv'
BY TypeNext, ErrorNext, HandedNext DEF IInv

\* The invariant holds in every reachable state.
LEMMA Invariant == Spec => []IInv
BY Initially, Inductive, PTL DEF Spec

\* The type invariant, with the one stream at a time: an earlier request's
\* goroutine, which nobody would receive from any more, has ended.
THEOREM TypeCorrect == Spec => []TypeOK
<1>1. IInv => TypeOK
    BY DEF IInv
<1> QED  BY Invariant, <1>1, PTL

\* The changelog's promise of no CPU hogging: the closed error channel is left
\* for a new one before the loop selects again, or the listener is to end.
THEOREM NeverBusy == Spec => []NoBusyLoop
<1>1. IInv => NoBusyLoop
    BY DEF IInv, ErrorInv, NoBusyLoop
<1> QED  BY Invariant, <1>1, PTL

\* A listener with nothing left to receive has handed on every event of the past
\* hour that the daemon knows, whatever interruptions it had.
THEOREM AlwaysCaughtUp == Spec => []CaughtUp
<1>1. IInv => CaughtUp
    BY DEF IInv, HandedInv, CaughtUp
<1> QED  BY Invariant, <1>1, PTL

===============================================================================
