------------------------------ MODULE DockerEvents ------------------------------
(***************************************************************************)
(* The Docker event listener, docker_events.go: one goroutine that selects *)
(* between the errors, the events and the cancellation, posts each event   *)
(* to Grafana, and after an error waits ten seconds and asks the daemon    *)
(* again, for the events of the last hour.                                 *)
(*                                                                         *)
(* The stream is the goroutine of the client's Events and the response it  *)
(* reads: it hands events over one at a time, on an unbuffered channel,    *)
(* and at its end leaves one error in a channel it then closes, from which *)
(* a second receive gets nil.                                              *)
(*                                                                         *)
(* Events are numbered in the order in which they happen.  Ages are in     *)
(* ticks, Window of them to the hour.  That Grafana takes the annotation   *)
(* is not in the model: handleDockerEvents ignores whether it did.         *)
(***************************************************************************)
EXTENDS Naturals, FiniteSetsExt

CONSTANTS MaxEvents,  \* BOUND: events of the daemon
          Window,     \* ticks to the hour of EventsListOptions.Since
          MaxBreaks   \* BOUND: connections lost and daemons stopped

ASSUME DockerEventsAssumption ==
    MaxEvents \in Nat \ {0} /\ Window \in Nat /\ MaxBreaks \in Nat

VARIABLES
    daemon,     \* "up" or "down"
    kept,       \* events in the daemon's log
    emitted,    \* number of events so far
    age,        \* ticks since each event, at most Window + 1
    breaks,     \* connections lost so far
    stream,     \* "none", "open", "broken" (the response ends) or "ended"
    queue,      \* events of the response not yet handed over, the oldest first
    errs,       \* error channel: "empty", "error", or "closed" once the error is read
    loop,       \* "new", "connect", "select", "post", "wait", "done" or "failed"
    current,    \* event being posted
    annotated,  \* events handed to the annotator so far
    cancelled   \* ctx is done

daemonVars == <<daemon, kept, emitted, age, breaks>>
streamVars == <<stream, queue, errs>>
loopVars == <<loop, current, annotated>>
vars == <<daemonVars, streamVars, loopVars, cancelled>>

Events == 1 .. MaxEvents
Running == stream \in {"open", "broken"}
Recent(e) == age[e] <= Window

Init ==
    /\ daemon \in {"up", "down"} /\ kept = {} /\ emitted = 0
    /\ age = [e \in Events |-> 0] /\ breaks = 0
    /\ stream = "none" /\ queue = {} /\ errs = "empty"
    /\ loop = "new" /\ current = 0 /\ annotated = {}
    /\ cancelled = FALSE

-------------------------------------------------------------------------------
(* The daemon and the connection to it.                                    *)

Emit ==
    /\ daemon = "up" /\ emitted < MaxEvents
    /\ emitted' = emitted + 1
    /\ kept' = kept \cup {emitted'}
    /\ queue' = IF stream = "open" THEN queue \cup {emitted'} ELSE queue
    /\ UNCHANGED <<daemon, age, breaks, stream, errs, loopVars, cancelled>>

Tick ==
    /\ \E e \in 1 .. emitted : Recent(e)
    /\ age' = [e \in Events |-> IF e <= emitted /\ Recent(e) THEN age[e] + 1 ELSE age[e]]
    /\ UNCHANGED <<daemon, kept, emitted, breaks, streamVars, loopVars, cancelled>>

\* What the response had already brought is still read before its end.
Cut ==
    IF stream = "open"
    THEN stream' = "broken" /\ \E n \in 0 .. emitted : queue' = {e \in queue : e <= n}
    ELSE UNCHANGED <<stream, queue>>

ConnectionLost ==
    /\ stream = "open" /\ breaks < MaxBreaks
    /\ Cut
    /\ breaks' = breaks + 1
    /\ UNCHANGED <<daemon, kept, emitted, age, errs, loopVars, cancelled>>

\* The log lives in the daemon's memory.
DaemonStops ==
    /\ daemon = "up" /\ breaks < MaxBreaks
    /\ Cut
    /\ daemon' = "down" /\ kept' = {}
    /\ breaks' = breaks + 1
    /\ UNCHANGED <<emitted, age, errs, loopVars, cancelled>>

DaemonStarts ==
    /\ daemon = "down"
    /\ daemon' = "up"
    /\ UNCHANGED <<kept, emitted, age, breaks, streamVars, loopVars, cancelled>>

\* A signal reaches run, whose deferred cancelFn cancels ctx.
Cancel ==
    /\ ~ cancelled
    /\ cancelled' = TRUE
    /\ UNCHANGED <<daemonVars, streamVars, loopVars>>

-------------------------------------------------------------------------------
(* The stream's goroutine.                                                 *)

EndStream == stream' = "ended" /\ queue' = {} /\ errs' = "error"

ResponseEnds ==
    /\ stream = "broken" /\ queue = {}
    /\ EndStream
    /\ UNCHANGED <<daemonVars, loopVars, cancelled>>

StreamCancelled ==
    /\ Running /\ cancelled
    /\ EndStream
    /\ UNCHANGED <<daemonVars, loopVars, cancelled>>

-------------------------------------------------------------------------------
(* handleDockerEvents.                                                     *)

NewClient ==
    /\ loop = "new"
    /\ loop' \in {"connect", "failed"}
    /\ UNCHANGED <<daemonVars, streamVars, current, annotated, cancelled>>

\* Slip: without Since, the daemon sends what happens from now on.
AskedWithoutSince == {}

\* Since: "1h"
Asked == {e \in kept : Recent(e)}

\* dockerEvents returns once the daemon has answered, or the request failed.
Connect ==
    /\ loop = "connect"
    /\ IF daemon = "up" /\ ~ cancelled
       THEN stream' = "open" /\ queue' = Asked /\ errs' = "empty"
       ELSE EndStream
    /\ loop' = "select"
    /\ UNCHANGED <<daemonVars, current, annotated, cancelled>>

\* Slip: an error ends the listener, as one of client.New does.
ReceiveErrorReturning ==
    /\ loop = "select" /\ errs = "error"
    /\ errs' = "closed"
    /\ loop' = "done"
    /\ UNCHANGED <<daemonVars, stream, queue, current, annotated, cancelled>>

ReceiveError ==
    /\ loop = "select" /\ errs = "error"
    /\ errs' = "closed"
    /\ loop' = "wait"
    /\ UNCHANGED <<daemonVars, stream, queue, current, annotated, cancelled>>

\* case err := <-errs, where err is nil: around the loop again, at once.
ReceiveNil ==
    /\ loop = "select" /\ errs = "closed"
    /\ UNCHANGED vars

Receive ==
    /\ loop = "select" /\ Running /\ queue # {}
    /\ current' = Min(queue) /\ queue' = queue \ {current'}
    /\ loop' = "post"
    /\ UNCHANGED <<daemonVars, stream, errs, annotated, cancelled>>

\* Slip: the request for events stands in the loop, outside the error's branch.
PostAndAskAgain ==
    /\ loop = "post"
    /\ annotated' = annotated \cup {current}
    /\ loop' = "connect"
    /\ UNCHANGED <<daemonVars, streamVars, current, cancelled>>

\* annotator.Post, whose result is ignored
Post ==
    /\ loop = "post"
    /\ annotated' = annotated \cup {current}
    /\ loop' = "select"
    /\ UNCHANGED <<daemonVars, streamVars, current, cancelled>>

\* Slip: after the wait, the channels of the stream that failed are used on.
BackoffKeepingChannels ==
    /\ loop = "wait"
    /\ loop' = "select"
    /\ UNCHANGED <<daemonVars, streamVars, current, annotated, cancelled>>

\* Ten seconds, or ctx.Done, which only leaves the inner select.
Backoff ==
    /\ loop = "wait"
    /\ \/ loop' = "connect"
       \/ cancelled /\ loop' = "select"
    /\ UNCHANGED <<daemonVars, streamVars, current, annotated, cancelled>>

\* Slip: errors go before the cancellation.
DoneUnlessError ==
    /\ loop = "select" /\ cancelled /\ errs = "empty"
    /\ loop' = "done"
    /\ UNCHANGED <<daemonVars, streamVars, current, annotated, cancelled>>

Done ==
    /\ loop = "select" /\ cancelled
    /\ loop' = "done"
    /\ UNCHANGED <<daemonVars, streamVars, current, annotated, cancelled>>

Stream == ResponseEnds \/ StreamCancelled
Listener == NewClient \/ Connect \/ ReceiveError \/ ReceiveNil \/ Receive \/ Post \/ Backoff

Next ==
    \/ Emit \/ Tick \/ ConnectionLost \/ DaemonStops \/ DaemonStarts \/ Cancel
    \/ Stream \/ Listener \/ Done

\* The goroutines run, the daemon answers a request, Post ends (its client has
\* a timeout), and a select that finds ctx.Done ready again and again takes it,
\* for it chooses at random.
Fairness == WF_vars(Stream) /\ WF_vars(Listener) /\ SF_vars(Done)

Spec == Init /\ [][Next]_vars /\ Fairness

-------------------------------------------------------------------------------
\* Types, and that the listener never asks for events while the goroutine of an
\* earlier request is alive: nobody would receive from that one any more.
TypeOK ==
    /\ daemon \in {"up", "down"} /\ kept \subseteq Events
    /\ emitted \in 0 .. MaxEvents /\ age \in [Events -> 0 .. Window + 1]
    /\ breaks \in 0 .. MaxBreaks
    /\ stream \in {"none", "open", "broken", "ended"}
    /\ queue \subseteq Events /\ (queue # {} => Running)
    /\ errs \in {"empty", "error", "closed"}
    /\ loop \in {"new", "connect", "select", "post", "wait", "done", "failed"}
    /\ (loop = "connect" => ~ Running)
    /\ current \in 0 .. MaxEvents /\ annotated \subseteq Events
    /\ cancelled \in BOOLEAN

\* CHANGELOG: "Fix CPU hogging when Docker daemon is unreachable".  The loop
\* selects on a closed error channel, which never blocks, only when it is about
\* to end: whatever fails, and however often.
NoBusyLoop == loop = "select" /\ errs = "closed" => cancelled

\* When the listener has received all there is, every event of the past hour
\* that the daemon knows has been handed on, those of an outage included.
CaughtUp ==
    loop = "select" /\ stream = "open" /\ queue = {} =>
        {e \in kept : Recent(e)} \subseteq annotated

\* An event is annotated, unless first the daemon forgets it, an hour passes,
\* or the exporter ends, however the connection fails in between.
Due(e) == e \in kept /\ Recent(e) /\ ~ cancelled /\ loop # "failed"
EventAnnotated == \A e \in Events : Due(e) ~> e \in annotated \/ ~ Due(e)

\* The listener ends when told to, from the middle of a stream and from a wait.
CancelEnds == cancelled ~> loop \in {"done", "failed"}
===============================================================================
