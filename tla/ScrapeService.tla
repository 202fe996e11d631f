---------------------------- MODULE ScrapeService ----------------------------
(***************************************************************************)
(* What the metrics endpoint promises to a Prometheus server, with no word *)
(* on goroutines, channels or locks: a request is answered at most once,   *)
(* either with exactly one outcome for EVERY registered collector and a    *)
(* verdict that says whether any of them failed, or, when the handler      *)
(* panicked, with an aborted connection.  Scrape implements it.            *)
(***************************************************************************)
EXTENDS Naturals

CONSTANTS Requests,     \* the HTTP connections that scrape /metrics
          Collectors,   \* the keys of promExporter.fns
          Results       \* what one collector can report

VARIABLES phase,        \* "idle", "waiting" or "answered", per request
          report        \* the last answer given to the request

svars == <<phase, report>>

\* A complete answer: the outcome of each collector, and the verdict.
Complete ==
    {a \in [outcome : [Collectors -> Results], failed : BOOLEAN] :
        a.failed = (\E c \in Collectors : ~ a.outcome[c].ok)}

Aborted == [aborted |-> TRUE]

SInit ==
    /\ phase = [r \in Requests |-> "idle"]
    /\ report = [r \in Requests |-> Aborted]

Ask(r) ==
    /\ phase[r] = "idle"
    /\ phase' = [phase EXCEPT ![r] = "waiting"]
    /\ UNCHANGED report

Answer(r) ==
    /\ phase[r] = "waiting"
    /\ phase' = [phase EXCEPT ![r] = "answered"]
    /\ \E a \in Complete : report' = [report EXCEPT ![r] = a]

\* net/http recovers the panic of a handler and drops the connection.
Abort(r) ==
    /\ phase[r] = "waiting"
    /\ phase' = [phase EXCEPT ![r] = "idle"]
    /\ UNCHANGED report

Leave(r) ==
    /\ phase[r] = "answered"
    /\ phase' = [phase EXCEPT ![r] = "idle"]
    /\ report' = [report EXCEPT ![r] = Aborted]

SNext == \E r \in Requests : Ask(r) \/ Answer(r) \/ Abort(r) \/ Leave(r)

SSpec == SInit /\ [][SNext]_svars
==============================================================================
