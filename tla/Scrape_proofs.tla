---------------------------- MODULE Scrape_proofs ----------------------------
(***************************************************************************)
(* Proofs about Scrape, for any number of requests and collectors, any     *)
(* channel capacity and any validity of the environment.                   *)
(*                                                                         *)
(* The inductive invariant IInv has four parts beside TypeOK:              *)
(*   LockInv      who is inside WriteMetrics is who holds fetchMu;         *)
(*   CallInv      where workers and closer can be, for each place of the   *)
(*                holder, and that the wait group counts the workers;      *)
(*   EnvInv       a half-read environment has an expiry in the past, so    *)
(*                the next scrape reads it again;                          *)
(*   DeliveryInv  the answer of a collector is in the channel or in the    *)
(*                response, never in both, once its worker sent it.        *)
(***************************************************************************)
EXTENDS Scrape, FiniteSetTheorems, TLAPS

\* c has a message in s; some message in s is an error.
In(c, s) == \E i \in DOMAIN s : s[i].from = c
AnyError(s) == \E i \in DOMAIN s : ~ s[i].res.ok

LockInv == \A r \in Requests : InCall(r) <=> fetchMu = r

CallInv ==
    /\ wg = Cardinality(Active)
    /\ closed => (\A c \in Collectors : worker[c] = "exited") /\ closer = "none"
    /\ fetchMu = NoRequest => Active = {} /\ closer = "none"
    /\ closer = "wait" => \E r \in Requests : pc[r] = "collect"
    /\ \A r \in Requests :
        /\ pc[r] \in {"check", "env"} =>
            /\ \A c \in Collectors : worker[c] = "idle"
            /\ ch = <<>>
        /\ pc[r] \in {"check", "env", "spawn"} => closer = "none" /\ ~ closed
        /\ pc[r] = "collect" => \A c \in Collectors : worker[c] # "idle"

EnvInv ==
    /\ envRead <= now
    /\ envExpiry <= envRead + EnvValidity
    /\ envWhole => envRead > 0
    /\ ~ envWhole => envExpiry < now
    /\ \A r \in Requests :
        /\ pc[r] = "env" => envExpiry < now
        /\ pc[r] \in {"spawn", "collect"} => envWhole

DeliveryInv ==
    /\ Distinct(ch)
    /\ \A r \in Requests :
        /\ Distinct(body[r])
        /\ failed[r] <=> AnyError(body[r])
        /\ pc[r] \in {"idle", "lock", "check", "env"} => body[r] = <<>>
        /\ pc[r] = "reply" => \A c \in Collectors : In(c, body[r])
        /\ InCall(r) =>
            \A c \in Collectors :
                /\ In(c, ch) \/ In(c, body[r]) <=> worker[c] \in {"sent", "exited"}
                /\ ~ (In(c, ch) /\ In(c, body[r]))

IInv == TypeOK /\ LockInv /\ CallInv /\ EnvInv /\ DeliveryInv

-------------------------------------------------------------------------------
\* A message of a collector stays typed through the channel.
LEMMA MessageType ==
    ASSUME NEW c \in Collectors, NEW res \in Results
    PROVE  [from |-> c, res |-> res] \in Messages
BY DEF Messages

\* The result of a collector that has not run is a result.
LEMMA NoResultType == NoResult \in Results
BY MetricsAssumption DEF NoResult, Results

\* The fields of a result.
LEMMA ResultFields ==
    ASSUME NEW res \in Results
    PROVE  res.ok \in BOOLEAN /\ res.n \in Nat
<1>1. res.ok \in BOOLEAN
    BY Zenon DEF Results
<1>2. res.n \in (0 .. MaxMetrics) \cup {0}
    BY Zenon DEF Results
<1> QED  BY <1>1, <1>2, MetricsAssumption

\* Every step of the program, one case per action: the split that the proofs of
\* preservation share.
LEMMA NextCases ==
    ASSUME [Next]_vars
    PROVE  \/ UNCHANGED vars
           \/ Tick
           \/ \E r \in Requests :
                \/ Arrive(r) \/ Lock(r)
                \/ CheckEnvironment(r) \/ BeginReadEnvironment(r)
                \/ ReadEnvironment(r) \/ PanicInEnvironment(r)
                \/ \E c \in Collectors : Spawn(r, c)
                \/ StartCloser(r) \/ Receive(r) \/ Return(r) \/ Reply(r)
           \/ \E c \in Collectors : Fetch(c) \/ Send(c) \/ Done(c)
           \/ Close
BY DEF Next, Handler, Worker

-------------------------------------------------------------------------------
\* The wait group's counter never goes negative only because it counts the
\* workers: typing needs that fact for Done.
WgInv == wg = Cardinality(Active)

\* The workers still to finish can be counted.
LEMMA ActiveFinite == IsFiniteSet(Active) /\ Cardinality(Active) \in Nat
<1>1. Active \subseteq Collectors
    BY DEF Active
<1> QED  BY <1>1, CollectorsAssumption, FS_Subset, FS_CardinalityType

\* Adding or removing one worker moves the counter by one.
LEMMA ActiveGrows ==
    ASSUME NEW c \in Collectors, c \notin Active, Active' = Active \cup {c}
    PROVE  Cardinality(Active') = Cardinality(Active) + 1
BY ActiveFinite, FS_AddElement

\* Removing one worker.
LEMMA ActiveShrinks ==
    ASSUME NEW c \in Collectors, c \in Active, Active' = Active \ {c}
    PROVE  Cardinality(Active') = Cardinality(Active) - 1
BY ActiveFinite, FS_RemoveElement

\* Types; the wait group counts the workers, so it does not go below zero.
LEMMA TypeNext ==
    ASSUME TypeOK, WgInv, [Next]_vars
    PROVE  TypeOK'
<1> USE DEF TypeOK
<1>1. CASE UNCHANGED vars
    BY <1>1 DEF vars, envVars, callVars
<1>2. CASE Tick
    BY <1>2 DEF Tick, envVars, callVars
<1>3. ASSUME NEW r \in Requests, Arrive(r)  PROVE TypeOK'
    BY <1>3 DEF Arrive, envVars, callVars
<1>4. ASSUME NEW r \in Requests, Lock(r)  PROVE TypeOK'
    <2>1. /\ worker' \in [Collectors -> {"idle", "fetch", "send", "sent", "exited"}]
          /\ result' \in [Collectors -> Results]
        BY <1>4, NoResultType DEF Lock
    <2>2. ch' \in Seq(Messages)
        BY <1>4 DEF Lock
    <2>3. closed' \in BOOLEAN
        BY <1>4, Zenon DEF Lock
    <2> QED  BY <1>4, <2>1, <2>2, <2>3 DEF Lock, envVars
<1>5. ASSUME NEW r \in Requests, CheckEnvironment(r)  PROVE TypeOK'
    BY <1>5 DEF CheckEnvironment, envVars, callVars
<1>6. ASSUME NEW r \in Requests, BeginReadEnvironment(r)  PROVE TypeOK'
    BY <1>6 DEF BeginReadEnvironment, callVars
<1>7. ASSUME NEW r \in Requests, ReadEnvironment(r)  PROVE TypeOK'
    BY <1>7, TimeAssumption DEF ReadEnvironment, callVars
<1>8. ASSUME NEW r \in Requests, PanicInEnvironment(r)  PROVE TypeOK'
    BY <1>8 DEF PanicInEnvironment, envVars, callVars
<1>9. ASSUME NEW r \in Requests, NEW c \in Collectors, Spawn(r, c)
      PROVE  TypeOK'
    BY <1>9 DEF Spawn, envVars
<1>10. ASSUME NEW r \in Requests, StartCloser(r)  PROVE TypeOK'
    BY <1>10 DEF StartCloser, envVars
<1>11. ASSUME NEW c \in Collectors, Fetch(c)  PROVE TypeOK'
    BY <1>11 DEF Fetch, envVars
<1>12. ASSUME NEW c \in Collectors, Send(c)  PROVE TypeOK'
    <2>1. [from |-> c, res |-> result[c]] \in Messages
        BY MessageType
    <2> QED  BY <1>12, <2>1 DEF Send, envVars
<1>13. ASSUME NEW c \in Collectors, Done(c)  PROVE TypeOK'
    <2>1. c \in Active
        BY <1>13 DEF Done, Active
    <2>2. wg # 0
        BY <2>1, ActiveFinite, FS_EmptySet DEF WgInv
    <2> QED  BY <1>13, <2>2 DEF Done, envVars
<1>14. CASE Close
    BY <1>14 DEF Close, envVars
<1>15. ASSUME NEW r \in Requests, Receive(r)  PROVE TypeOK'
    <2>1. Head(ch) \in Messages /\ Tail(ch) \in Seq(Messages)
        BY <1>15 DEF Receive
    <2>2. Head(ch).res \in Results
        BY <2>1 DEF Messages
    <2>3. Head(ch).res.n \in Nat /\ Head(ch).res.ok \in BOOLEAN
        BY <2>2, ResultFields
    <2>4. body' \in [Requests -> Seq(Messages)]
        BY <1>15, <2>1 DEF Receive
    <2>5. failed' \in [Requests -> BOOLEAN]
        BY <1>15, <2>3 DEF Receive
    <2>6. metricCount' \in Nat
        BY <1>15, <2>3 DEF Receive
    <2> QED  BY <1>15, <2>1, <2>4, <2>5, <2>6 DEF Receive, envVars
<1>16. ASSUME NEW r \in Requests, Return(r)  PROVE TypeOK'
    BY <1>16 DEF Return, envVars, callVars
<1>17. ASSUME NEW r \in Requests, Reply(r)  PROVE TypeOK'
    BY <1>17 DEF Reply, envVars, callVars
<1> QED  BY <1>1, <1>2, <1>3, <1>4, <1>5, <1>6, <1>7, <1>8, <1>9, <1>10,
            <1>11, <1>12, <1>13, <1>14, <1>15, <1>16, <1>17, NextCases

-------------------------------------------------------------------------------
(***************************************************************************)
(* The channel and the response as sequences of messages: what sending     *)
(* (Append) and receiving (Head, Tail) do to In, AnyError and Distinct.    *)
(***************************************************************************)
LEMMA InAppend ==
    ASSUME NEW s \in Seq(Messages), NEW m \in Messages, NEW c
    PROVE  In(c, Append(s, m)) <=> In(c, s) \/ m.from = c
<1>1. /\ DOMAIN Append(s, m) = 1 .. Len(s) + 1
      /\ Append(s, m)[Len(s) + 1] = m
      /\ \A i \in 1 .. Len(s) : Append(s, m)[i] = s[i]
      /\ DOMAIN s = 1 .. Len(s) /\ Len(s) \in Nat
    OBVIOUS
<1> QED  BY <1>1 DEF In

\* A sequence with one more message has an error if it had, or if that is one.
LEMMA AnyErrorAppend ==
    ASSUME NEW s \in Seq(Messages), NEW m \in Messages
    PROVE  AnyError(Append(s, m)) <=> AnyError(s) \/ ~ m.res.ok
<1>1. /\ DOMAIN Append(s, m) = 1 .. Len(s) + 1
      /\ Append(s, m)[Len(s) + 1] = m
      /\ \A i \in 1 .. Len(s) : Append(s, m)[i] = s[i]
      /\ DOMAIN s = 1 .. Len(s) /\ Len(s) \in Nat
    OBVIOUS
<1> QED  BY <1>1 DEF AnyError

\* A message from a new sender keeps the senders distinct.
LEMMA DistinctAppend ==
    ASSUME NEW s \in Seq(Messages), NEW m \in Messages,
           Distinct(s), ~ In(m.from, s)
    PROVE  Distinct(Append(s, m))
<1>1. /\ DOMAIN Append(s, m) = 1 .. Len(s) + 1
      /\ Append(s, m)[Len(s) + 1] = m
      /\ \A i \in 1 .. Len(s) : Append(s, m)[i] = s[i]
      /\ DOMAIN s = 1 .. Len(s) /\ Len(s) \in Nat
    OBVIOUS
<1> QED  BY <1>1 DEF Distinct, In

\* The tail of a sequence of messages, by position.
LEMMA TailFacts ==
    ASSUME NEW s \in Seq(Messages), s # <<>>
    PROVE  /\ Head(s) = s[1] /\ Head(s) \in Messages
           /\ Tail(s) \in Seq(Messages)
           /\ Len(s) \in Nat \ {0}
           /\ DOMAIN s = 1 .. Len(s)
           /\ DOMAIN Tail(s) = 1 .. Len(s) - 1
           /\ \A i \in 1 .. Len(s) - 1 : Tail(s)[i] = s[i + 1]
OBVIOUS

\* The tail of messages with distinct senders has distinct senders.
LEMMA DistinctTail ==
    ASSUME NEW s \in Seq(Messages), s # <<>>, Distinct(s)
    PROVE  Distinct(Tail(s))
<1> SUFFICES ASSUME NEW i \in DOMAIN Tail(s), NEW j \in DOMAIN Tail(s),
                    Tail(s)[i].from = Tail(s)[j].from
             PROVE  i = j
    BY DEF Distinct
<1>1. /\ i + 1 \in DOMAIN s /\ Tail(s)[i] = s[i + 1]
      /\ j + 1 \in DOMAIN s /\ Tail(s)[j] = s[j + 1]
      /\ i \in Nat /\ j \in Nat
    BY TailFacts
<1> QED  BY <1>1 DEF Distinct

\* A sender of the sequence is that of its head or one of its tail, not both.
LEMMA InTail ==
    ASSUME NEW s \in Seq(Messages), s # <<>>, Distinct(s), NEW c
    PROVE  /\ In(c, s) <=> In(c, Tail(s)) \/ Head(s).from = c
           /\ ~ (In(c, Tail(s)) /\ Head(s).from = c)
<1>1. ASSUME In(c, Tail(s))  PROVE In(c, s) /\ Head(s).from # c
    <2>1. PICK i \in DOMAIN Tail(s) : Tail(s)[i].from = c
        BY <1>1 DEF In
    <2>2. i + 1 \in DOMAIN s /\ s[i + 1].from = c /\ 1 \in DOMAIN s /\ i + 1 # 1
        BY <2>1, TailFacts
    <2> QED  BY <2>2, TailFacts DEF In, Distinct
<1>2. ASSUME Head(s).from = c  PROVE In(c, s)
    BY <1>2, TailFacts DEF In
<1>3. ASSUME In(c, s), Head(s).from # c  PROVE In(c, Tail(s))
    <2>1. PICK i \in DOMAIN s : s[i].from = c
        BY <1>3 DEF In
    <2>2. i # 1 /\ i \in 1 .. Len(s) /\ Len(s) \in Nat
        BY <1>3, <2>1, TailFacts
    <2>3. i - 1 \in DOMAIN Tail(s) /\ Tail(s)[i - 1] = s[i]
        BY <2>2, TailFacts
    <2> QED  BY <2>1, <2>3 DEF In
<1> QED  BY <1>1, <1>2, <1>3

\* The empty sequence of messages.
LEMMA EmptyFacts ==
    /\ Distinct(<<>>) /\ ~ AnyError(<<>>)
    /\ \A c : ~ In(c, <<>>)
BY DEF Distinct, AnyError, In

-------------------------------------------------------------------------------
\* fetchMu: one request at a time is inside WriteMetrics, and a request that
\* leaves it, by a panic too, gives the lock back.
LEMMA LockNext ==
    ASSUME TypeOK, LockInv, [Next]_vars
    PROVE  LockInv'
<1> USE RequestsAssumption DEF TypeOK, LockInv, InCall
<1>1. CASE UNCHANGED vars
    BY <1>1 DEF vars
<1>2. CASE Tick
    BY <1>2 DEF Tick
<1>3. ASSUME NEW r \in Requests, Arrive(r)  PROVE LockInv'
    BY <1>3 DEF Arrive
<1>4. ASSUME NEW r \in Requests, Lock(r)  PROVE LockInv'
    BY <1>4 DEF Lock
<1>5. ASSUME NEW r \in Requests, CheckEnvironment(r)  PROVE LockInv'
    BY <1>5 DEF CheckEnvironment
<1>6. ASSUME NEW r \in Requests, BeginReadEnvironment(r)  PROVE LockInv'
    BY <1>6 DEF BeginReadEnvironment
<1>7. ASSUME NEW r \in Requests, ReadEnvironment(r)  PROVE LockInv'
    BY <1>7 DEF ReadEnvironment
<1>8. ASSUME NEW r \in Requests, PanicInEnvironment(r)  PROVE LockInv'
    BY <1>8 DEF PanicInEnvironment
<1>9. ASSUME NEW r \in Requests, NEW c \in Collectors, Spawn(r, c)
      PROVE  LockInv'
    BY <1>9 DEF Spawn
<1>10. ASSUME NEW r \in Requests, StartCloser(r)  PROVE LockInv'
    BY <1>10 DEF StartCloser
<1>11. ASSUME NEW r \in Requests, Receive(r)  PROVE LockInv'
    BY <1>11 DEF Receive
<1>12. ASSUME NEW r \in Requests, Return(r)  PROVE LockInv'
    BY <1>12 DEF Return
<1>13. ASSUME NEW r \in Requests, Reply(r)  PROVE LockInv'
    BY <1>13 DEF Reply
<1>14. ASSUME NEW c \in Collectors, Fetch(c) \/ Send(c) \/ Done(c)
       PROVE  LockInv'
    BY <1>14 DEF Fetch, Send, Done
<1>15. CASE Close
    BY <1>15 DEF Close
<1> QED  BY <1>1, <1>2, <1>3, <1>4, <1>5, <1>6, <1>7, <1>8, <1>9, <1>10,
            <1>11, <1>12, <1>13, <1>14, <1>15, NextCases

-------------------------------------------------------------------------------
\* The environment: its expiry never runs more than one validity ahead of the
\* last complete read, and stays in the past while the environment is half read.
LEMMA EnvNext ==
    ASSUME TypeOK, LockInv, EnvInv, [Next]_vars
    PROVE  EnvInv'
<1> USE TimeAssumption, RequestsAssumption DEF TypeOK, EnvInv
<1>1. CASE UNCHANGED vars
    BY <1>1 DEF vars, envVars
<1>2. CASE Tick
    BY <1>2 DEF Tick, envVars
<1>3. ASSUME NEW r \in Requests, Arrive(r)  PROVE EnvInv'
    BY <1>3 DEF Arrive, envVars
<1>4. ASSUME NEW r \in Requests, Lock(r)  PROVE EnvInv'
    BY <1>4 DEF Lock, envVars
<1>5. ASSUME NEW r \in Requests, CheckEnvironment(r)  PROVE EnvInv'
    BY <1>5 DEF CheckEnvironment, envVars, EnvExpired
<1>6. ASSUME NEW r \in Requests, BeginReadEnvironment(r)  PROVE EnvInv'
    <2>1. \A q \in Requests : pc[q] \notin {"spawn", "collect"}
        BY <1>6 DEF BeginReadEnvironment, LockInv, InCall
    <2> QED  BY <1>6, <2>1 DEF BeginReadEnvironment
<1>7. ASSUME NEW r \in Requests, ReadEnvironment(r)  PROVE EnvInv'
    <2>1. \A q \in Requests : q # r => pc[q] # "env"
        BY <1>7 DEF ReadEnvironment, LockInv, InCall
    <2>2. envRead' > 0
        BY <1>7 DEF ReadEnvironment
    <2> QED  BY <1>7, <2>1, <2>2 DEF ReadEnvironment
<1>8. ASSUME NEW r \in Requests, PanicInEnvironment(r)  PROVE EnvInv'
    BY <1>8 DEF PanicInEnvironment, envVars
<1>9. ASSUME NEW r \in Requests, NEW c \in Collectors, Spawn(r, c)
      PROVE  EnvInv'
    BY <1>9 DEF Spawn, envVars
<1>10. ASSUME NEW r \in Requests, StartCloser(r)  PROVE EnvInv'
    BY <1>10 DEF StartCloser, envVars
<1>11. ASSUME NEW r \in Requests, Receive(r)  PROVE EnvInv'
    BY <1>11 DEF Receive, envVars
<1>12. ASSUME NEW r \in Requests, Return(r)  PROVE EnvInv'
    BY <1>12 DEF Return, envVars
<1>13. ASSUME NEW r \in Requests, Reply(r)  PROVE EnvInv'
    BY <1>13 DEF Reply, envVars
<1>14. ASSUME NEW c \in Collectors, Fetch(c) \/ Send(c) \/ Done(c)
       PROVE  EnvInv'
    BY <1>14 DEF Fetch, Send, Done, envVars
<1>15. CASE Close
    BY <1>15 DEF Close, envVars
<1> QED  BY <1>1, <1>2, <1>3, <1>4, <1>5, <1>6, <1>7, <1>8, <1>9, <1>10,
            <1>11, <1>12, <1>13, <1>14, <1>15, NextCases

-------------------------------------------------------------------------------
\* Workers and closer: the closer exists only while the holder drains, closes
\* only after every worker returned, and nothing survives the call.
LEMMA HolderUnique ==
    ASSUME TypeOK, LockInv, NEW r \in Requests, InCall(r)
    PROVE  fetchMu = r /\ fetchMu # NoRequest
           /\ \A q \in Requests : q # r => ~ InCall(q)
BY RequestsAssumption DEF TypeOK, LockInv

\* While nobody holds fetchMu no worker takes a step.
LEMMA WorkerHasHolder ==
    ASSUME TypeOK, LockInv, CallInv, NEW c \in Active
    PROVE  \E r \in Requests : pc[r] \in {"spawn", "collect"} /\ fetchMu = r
<1>1. c \in Collectors /\ worker[c] # "idle"
    BY DEF Active
<1>2. fetchMu # NoRequest
    BY DEF CallInv
<1>3. PICK r \in Requests : fetchMu = r /\ InCall(r)
    BY <1>2 DEF TypeOK, LockInv
<1>4. pc[r] \notin {"check", "env"}
    BY <1>1 DEF CallInv
<1> QED  BY <1>3, <1>4 DEF InCall

\* Every step keeps the worker and closer states of the scrape under way.
LEMMA CallNext ==
    ASSUME TypeOK, LockInv, CallInv, [Next]_vars
    PROVE  CallInv'
<1> USE RequestsAssumption DEF TypeOK
<1>1. CASE UNCHANGED vars
    BY <1>1 DEF vars, callVars, CallInv, Active
<1>2. CASE Tick
    BY <1>2 DEF Tick, callVars, CallInv, Active
<1>3. ASSUME NEW r \in Requests, Arrive(r)  PROVE CallInv'
    BY <1>3 DEF Arrive, callVars, CallInv, Active
<1>4. ASSUME NEW r \in Requests, Lock(r)  PROVE CallInv'
    <2>1. Active' = {} /\ wg' = 0
        BY <1>4 DEF Lock, Active
    <2>2. wg' = Cardinality(Active')
        BY <2>1, FS_EmptySet
    <2>3. \A q \in Requests : pc'[q] \notin {"env", "spawn", "collect"}
        BY <1>4 DEF Lock, LockInv, InCall
    <2>4. ch' = <<>> /\ closer' = "none" /\ \A c \in Collectors : worker'[c] = "idle"
        BY <1>4 DEF Lock
    <2>5. ~ closed'
        BY <1>4 DEF Lock
    <2> QED  BY <2>1, <2>2, <2>3, <2>4, <2>5 DEF CallInv
<1>5. ASSUME NEW r \in Requests, CheckEnvironment(r)  PROVE CallInv'
    BY <1>5 DEF CheckEnvironment, callVars, CallInv, Active
<1>6. ASSUME NEW r \in Requests, BeginReadEnvironment(r)  PROVE CallInv'
    BY <1>6 DEF BeginReadEnvironment, callVars, CallInv, Active
<1>7. ASSUME NEW r \in Requests, ReadEnvironment(r)  PROVE CallInv'
    BY <1>7 DEF ReadEnvironment, callVars, CallInv, Active
<1>8. ASSUME NEW r \in Requests, PanicInEnvironment(r)  PROVE CallInv'
    BY <1>8 DEF PanicInEnvironment, callVars, CallInv, Active
<1>9. ASSUME NEW r \in Requests, NEW c \in Collectors, Spawn(r, c)
      PROVE  CallInv'
    <2>1. InCall(r) /\ c \notin Active /\ Active' = Active \cup {c}
        BY <1>9 DEF Spawn, InCall, Active
    <2>2. wg' = Cardinality(Active')
        BY <1>9, <2>1, ActiveGrows DEF Spawn, CallInv
    <2>3. ~ closed /\ closer = "none" /\ fetchMu = r
        BY <1>9, <2>1, HolderUnique DEF Spawn, CallInv
    <2>4. \A q \in Requests : pc[q] \notin {"check", "env", "collect"}
        BY <1>9, <2>1, HolderUnique DEF Spawn, InCall
    <2> QED  BY <1>9, <2>2, <2>3, <2>4 DEF Spawn, CallInv
<1>10. ASSUME NEW r \in Requests, StartCloser(r)  PROVE CallInv'
    <2>1. fetchMu = r /\ \A q \in Requests : q # r => ~ InCall(q)
        BY <1>10, HolderUnique DEF StartCloser, InCall
    <2>2. Active' = Active
        BY <1>10 DEF StartCloser, Active
    <2> QED  BY <1>10, <2>1, <2>2 DEF StartCloser, CallInv, InCall
<1>11. ASSUME NEW c \in Collectors, Fetch(c)  PROVE CallInv'
    <2>1. c \in Active /\ Active' = Active
        BY <1>11 DEF Fetch, Active
    <2> QED  BY <1>11, <2>1 DEF Fetch, CallInv
<1>12. ASSUME NEW c \in Collectors, Send(c)  PROVE CallInv'
    <2>1. c \in Active /\ Active' = Active
        BY <1>12 DEF Send, Active
    <2>2. \A q \in Requests : pc[q] \notin {"check", "env"}
        BY <1>12 DEF Send, CallInv
    <2> QED  BY <1>12, <2>1, <2>2 DEF Send, CallInv
<1>13. ASSUME NEW c \in Collectors, Done(c)  PROVE CallInv'
    <2>1. c \in Active /\ Active' = Active \ {c}
        BY <1>13 DEF Done, Active
    <2>2. wg' = Cardinality(Active')
        BY <1>13, <2>1, ActiveShrinks DEF Done, CallInv
    <2> QED  BY <1>13, <2>1, <2>2 DEF Done, CallInv
<1>14. CASE Close
    <2>1. Active = {} /\ Active' = Active
        BY <1>14, ActiveFinite, FS_EmptySet DEF Close, CallInv, Active
    <2>2. PICK r \in Requests : pc[r] = "collect"
        BY <1>14 DEF Close, CallInv
    <2>3. \A c \in Collectors : worker[c] = "exited"
        BY <2>1, <2>2 DEF CallInv, Active
    <2>4. \A q \in Requests : pc[q] \notin {"check", "env", "spawn"}
        BY <2>2, HolderUnique DEF InCall
    <2> QED  BY <1>14, <2>1, <2>3, <2>4 DEF Close, CallInv
<1>15. ASSUME NEW r \in Requests, Receive(r)  PROVE CallInv'
    <2>1. \A q \in Requests : pc[q] \notin {"check", "env"}
        BY <1>15, HolderUnique DEF Receive, InCall
    <2> QED  BY <1>15, <2>1 DEF Receive, CallInv, Active
<1>16. ASSUME NEW r \in Requests, Return(r)  PROVE CallInv'
    BY <1>16 DEF Return, callVars, CallInv, Active
<1>17. ASSUME NEW r \in Requests, Reply(r)  PROVE CallInv'
    BY <1>17 DEF Reply, callVars, CallInv, Active
<1> QED  BY <1>1, <1>2, <1>3, <1>4, <1>5, <1>6, <1>7, <1>8, <1>9, <1>10,
            <1>11, <1>12, <1>13, <1>14, <1>15, <1>16, <1>17, NextCases

-------------------------------------------------------------------------------
(***************************************************************************)
(* The answers: sending moves a collector's answer into the channel,       *)
(* receiving moves it into the response, and nothing duplicates or drops   *)
(* one.  Steps that touch neither are settled by Frame.                    *)
(***************************************************************************)
LEMMA DeliveryFrame ==
    ASSUME DeliveryInv, UNCHANGED <<body, failed, ch>>,
           \A c \in Collectors : worker[c] \in {"sent", "exited"}
                                <=> worker'[c] \in {"sent", "exited"},
           \A r \in Requests : pc'[r] = pc[r] \/ (InCall(r) /\ InCall(r)')
                              \/ (pc[r] = "idle" /\ pc'[r] = "lock"),
           \A r \in Requests : pc'[r] \in {"check", "env"} => pc[r] \in {"check", "env"}
    PROVE  DeliveryInv'
BY DEF DeliveryInv, InCall, In, AnyError, Distinct

\* A scrape begins with an empty channel and an empty body.
LEMMA DeliveryLock ==
    ASSUME TypeOK, LockInv, DeliveryInv, NEW r \in Requests, Lock(r)
    PROVE  DeliveryInv'
<1> USE RequestsAssumption DEF TypeOK
<1>1. \A q \in Requests : q # r => pc'[q] = pc[q] /\ ~ InCall(q)'
    BY DEF Lock, LockInv, InCall
<1>2. body' = body /\ failed' = failed /\ ch' = <<>> /\ pc'[r] = "check"
      /\ pc[r] = "lock" /\ \A c \in Collectors : worker'[c] = "idle"
    BY DEF Lock
<1>3. Distinct(ch')
    BY <1>2, EmptyFacts
<1>4. body'[r] = <<>>
    BY <1>2 DEF DeliveryInv
<1>5. InCall(r)' => \A c \in Collectors :
            /\ In(c, ch') \/ In(c, body'[r]) <=> worker'[c] \in {"sent", "exited"}
            /\ ~ (In(c, ch') /\ In(c, body'[r]))
    BY <1>2, <1>4, EmptyFacts
<1> QED  BY <1>1, <1>2, <1>3, <1>4, <1>5 DEF DeliveryInv

\* A sent result is on its way once, and is the result of its collector.
LEMMA DeliverySend ==
    ASSUME TypeOK, LockInv, CallInv, DeliveryInv, NEW c \in Collectors, Send(c)
    PROVE  DeliveryInv'
<1> USE DEF TypeOK
<1> DEFINE m == [from |-> c, res |-> result[c]]
<1>1. m \in Messages /\ m.from = c
    BY MessageType
<1>2. PICK h \in Requests : pc[h] \in {"spawn", "collect"} /\ fetchMu = h
    BY WorkerHasHolder DEF Send, Active
<1>3. ~ In(c, ch) /\ ~ In(c, body[h])
    BY <1>2 DEF DeliveryInv, Send, InCall
<1>4. ch' = Append(ch, m) /\ UNCHANGED <<body, failed, pc>>
      /\ worker' = [worker EXCEPT ![c] = "sent"]
    BY DEF Send
<1> HIDE DEF m
<1>5. Distinct(ch')
    BY <1>1, <1>3, <1>4, DistinctAppend DEF DeliveryInv
<1>6. \A d \in Collectors : In(d, ch') <=> In(d, ch) \/ d = c
    BY <1>1, <1>4, InAppend
<1>7. \A d \in Collectors :
        /\ In(d, ch') \/ In(d, body[h]) <=> worker'[d] \in {"sent", "exited"}
        /\ ~ (In(d, ch') /\ In(d, body[h]))
    BY <1>2, <1>3, <1>4, <1>6 DEF DeliveryInv, InCall
<1>8. \A q \in Requests : InCall(q) => q = h
    BY <1>2, HolderUnique DEF InCall
<1> QED  BY <1>4, <1>5, <1>7, <1>8 DEF DeliveryInv, InCall

\* A received result moves from the channel to the body, once.
LEMMA DeliveryReceive ==
    ASSUME TypeOK, LockInv, DeliveryInv, NEW r \in Requests, Receive(r)
    PROVE  DeliveryInv'
<1> USE DEF TypeOK
<1>1. /\ pc[r] = "collect" /\ ch # <<>> /\ InCall(r)
      /\ body' = [body EXCEPT ![r] = Append(body[r], Head(ch))]
      /\ failed' = [failed EXCEPT ![r] = failed[r] \/ ~ Head(ch).res.ok]
      /\ ch' = Tail(ch) /\ UNCHANGED <<pc, worker>>
    BY DEF Receive, InCall
<1>2. /\ Head(ch) \in Messages /\ Head(ch).from \in Collectors
      /\ In(Head(ch).from, ch)
    <2>1. Head(ch) \in Messages /\ Head(ch) = ch[1] /\ 1 \in DOMAIN ch
        BY <1>1, TailFacts
    <2> QED  BY <2>1 DEF Messages, In
<1>3. ~ In(Head(ch).from, body[r])
    BY <1>1, <1>2 DEF DeliveryInv
<1>4. Distinct(ch')
    BY <1>1, DistinctTail DEF DeliveryInv
<1>5. Distinct(body'[r])
    BY <1>1, <1>2, <1>3, DistinctAppend DEF DeliveryInv
<1>6. failed'[r] <=> AnyError(body'[r])
    <2>1. AnyError(Append(body[r], Head(ch))) <=> AnyError(body[r]) \/ ~ Head(ch).res.ok
        BY <1>2, AnyErrorAppend
    <2>2. failed[r] <=> AnyError(body[r])
        BY DEF DeliveryInv
    <2>3. body'[r] = Append(body[r], Head(ch))
        BY <1>1
    <2>4. failed'[r] = (failed[r] \/ ~ Head(ch).res.ok)
        BY <1>1, Zenon
    <2> QED  BY <2>1, <2>2, <2>3, <2>4, Zenon
<1>7. \A d \in Collectors : In(d, body'[r]) <=> In(d, body[r]) \/ Head(ch).from = d
    BY <1>1, <1>2, InAppend
<1>8. \A d \in Collectors : In(d, ch) <=> In(d, ch') \/ Head(ch).from = d
    BY <1>1, InTail DEF DeliveryInv
<1>9. \A d \in Collectors : ~ (In(d, ch') /\ Head(ch).from = d)
    BY <1>1, InTail DEF DeliveryInv
<1>10. \A d \in Collectors :
        /\ In(d, ch') \/ In(d, body'[r]) <=> worker'[d] \in {"sent", "exited"}
        /\ ~ (In(d, ch') /\ In(d, body'[r]))
    BY <1>1, <1>7, <1>8, <1>9 DEF DeliveryInv
<1>11. \A q \in Requests : q # r =>
        body'[q] = body[q] /\ (failed'[q] <=> failed[q]) /\ ~ InCall(q)'
    BY <1>1, HolderUnique DEF InCall
<1> QED  BY <1>1, <1>4, <1>5, <1>6, <1>10, <1>11 DEF DeliveryInv, InCall

\* Every step keeps each result in one place: worker, channel or body.
LEMMA DeliveryNext ==
    ASSUME TypeOK, LockInv, CallInv, DeliveryInv, [Next]_vars
    PROVE  DeliveryInv'
<1> USE DEF TypeOK
<1>1. CASE UNCHANGED vars
    BY <1>1, DeliveryFrame DEF vars, callVars
<1>2. CASE Tick
    BY <1>2, DeliveryFrame DEF Tick, callVars
<1>3. ASSUME NEW r \in Requests, Arrive(r)  PROVE DeliveryInv'
    BY <1>3, DeliveryFrame DEF Arrive, callVars
<1>4. ASSUME NEW r \in Requests, Lock(r)  PROVE DeliveryInv'
    BY <1>4, DeliveryLock
<1>5. ASSUME NEW r \in Requests, CheckEnvironment(r)  PROVE DeliveryInv'
    BY <1>5, DeliveryFrame DEF CheckEnvironment, callVars, InCall
<1>6. ASSUME NEW r \in Requests, BeginReadEnvironment(r)  PROVE DeliveryInv'
    BY <1>6, DeliveryFrame DEF BeginReadEnvironment, callVars
<1>7. ASSUME NEW r \in Requests, ReadEnvironment(r)  PROVE DeliveryInv'
    BY <1>7, DeliveryFrame DEF ReadEnvironment, callVars, InCall
<1>8. ASSUME NEW r \in Requests, PanicInEnvironment(r)  PROVE DeliveryInv'
    BY <1>8 DEF PanicInEnvironment, callVars, InCall, DeliveryInv
<1>9. ASSUME NEW r \in Requests, NEW c \in Collectors, Spawn(r, c)
      PROVE  DeliveryInv'
    BY <1>9, DeliveryFrame DEF Spawn
<1>10. ASSUME NEW r \in Requests, StartCloser(r)  PROVE DeliveryInv'
    BY <1>10, DeliveryFrame DEF StartCloser, InCall
<1>11. ASSUME NEW c \in Collectors, Fetch(c)  PROVE DeliveryInv'
    BY <1>11, DeliveryFrame DEF Fetch
<1>12. ASSUME NEW c \in Collectors, Send(c)  PROVE DeliveryInv'
    BY <1>12, DeliverySend
<1>13. ASSUME NEW c \in Collectors, Done(c)  PROVE DeliveryInv'
    BY <1>13, DeliveryFrame DEF Done
<1>14. CASE Close
    BY <1>14, DeliveryFrame DEF Close
<1>15. ASSUME NEW r \in Requests, Receive(r)  PROVE DeliveryInv'
    BY <1>15, DeliveryReceive
<1>16. ASSUME NEW r \in Requests, Return(r)  PROVE DeliveryInv'
    <2>1. \A c \in Collectors : In(c, body[r])
        BY <1>16, EmptyFacts DEF Return, CallInv, DeliveryInv, InCall
    <2>2. \A q \in Requests : q # r => pc'[q] = pc[q] /\ ~ InCall(q)'
        BY <1>16, HolderUnique DEF Return, InCall
    <2>3. pc'[r] = "reply" /\ UNCHANGED <<body, failed, ch, worker>>
        BY <1>16 DEF Return, callVars
    <2> QED  BY <2>1, <2>2, <2>3 DEF DeliveryInv, InCall
<1>17. ASSUME NEW r \in Requests, Reply(r)  PROVE DeliveryInv'
    <2>1. pc'[r] = "idle" /\ body'[r] = <<>> /\ ~ failed'[r] /\ ~ InCall(r)'
          /\ UNCHANGED <<ch, worker>>
        BY <1>17 DEF Reply, callVars, InCall
    <2>2. \A q \in Requests : q # r =>
            pc'[q] = pc[q] /\ body'[q] = body[q] /\ (failed'[q] <=> failed[q])
        BY <1>17 DEF Reply
    <2>3. Distinct(body'[r]) /\ ~ AnyError(body'[r])
        BY <2>1, EmptyFacts
    <2> QED  BY <2>1, <2>2, <2>3 DEF DeliveryInv, InCall
<1> QED  BY <1>1, <1>2, <1>3, <1>4, <1>5, <1>6, <1>7, <1>8, <1>9, <1>10,
            <1>11, <1>12, <1>13, <1>14, <1>15, <1>16, <1>17, NextCases

-------------------------------------------------------------------------------
\* IInv is an invariant of the specification.
LEMMA InitIInv == Init => IInv
<1> SUFFICES ASSUME Init  PROVE IInv
    OBVIOUS
<1>1. TypeOK
    <2>1. /\ pc \in [Requests ->
                {"idle", "lock", "check", "env", "spawn", "collect", "reply"}]
          /\ failed \in [Requests -> BOOLEAN]
          /\ body \in [Requests -> Seq(Messages)]
          /\ worker \in [Collectors -> {"idle", "fetch", "send", "sent", "exited"}]
          /\ result \in [Collectors -> Results]
        BY NoResultType DEF Init
    <2>2. envWhole \in BOOLEAN
        BY Zenon DEF Init
    <2>3. closed \in BOOLEAN
        BY Zenon DEF Init
    <2> QED  BY <2>1, <2>2, <2>3 DEF Init, TypeOK
<1>2. LockInv
    BY RequestsAssumption DEF Init, LockInv, InCall
<1>3. CallInv
    <2>1. Active = {}
        BY DEF Init, Active
    <2> QED  BY <2>1, FS_EmptySet DEF Init, CallInv
<1>4. EnvInv
    BY TimeAssumption DEF Init, EnvInv
<1>5. DeliveryInv
    BY EmptyFacts DEF Init, DeliveryInv, InCall
<1> QED  BY <1>1, <1>2, <1>3, <1>4, <1>5 DEF IInv

\* Every step preserves the invariant.
LEMMA NextIInv == IInv /\ [Next]_vars => IInv'
<1> SUFFICES ASSUME IInv, [Next]_vars  PROVE IInv'
    OBVIOUS
<1>1. TypeOK'
    BY TypeNext DEF IInv, CallInv, WgInv
<1> QED  BY <1>1, LockNext, CallNext, EnvNext, DeliveryNext DEF IInv

\* The invariant holds in every reachable state.
THEOREM Invariance == Spec => []IInv
BY InitIInv, NextIInv, PTL DEF Spec

-------------------------------------------------------------------------------
\* The variables of the model stay in their types; in particular the wait
\* group's counter never goes below zero (Go panics if it does).
THEOREM TypeCorrect == Spec => []TypeOK
BY Invariance, PTL DEF IInv

\* No worker ever sends on a closed metricsCh (Go panics if one does).
THEOREM ChannelSafe == Spec => []NoSendOnClosedChannel
<1>1. IInv => NoSendOnClosedChannel
    BY DEF IInv, CallInv, NoSendOnClosedChannel
<1> QED  BY <1>1, Invariance, PTL

\* When WriteMetrics has returned, none of the goroutines it started is left.
THEOREM NoLeak == Spec => []NoGoroutineLeft
<1>1. IInv => NoGoroutineLeft
    BY DEF IInv, CallInv, NoGoroutineLeft
<1> QED  BY <1>1, Invariance, PTL

\* Collectors run over an environment read to its end that nobody rewrites.
THEOREM EnvironmentStable == Spec => []CollectOnWholeEnvironment
<1>1. IInv => CollectOnWholeEnvironment
    <2> SUFFICES ASSUME IInv, Active # {}
                 PROVE  envWhole /\ \A q \in Requests : pc[q] # "env"
        BY DEF CollectOnWholeEnvironment
    <2>1. PICK r \in Requests : pc[r] \in {"spawn", "collect"} /\ fetchMu = r
        BY WorkerHasHolder DEF IInv
    <2> QED  BY <2>1, HolderUnique DEF IInv, EnvInv, InCall
<1> QED  BY <1>1, Invariance, PTL

\* The response holds no collector's answer twice.
THEOREM OneAnswerEach == Spec => []AnswersOnce
<1>1. IInv => AnswersOnce
    BY DEF IInv, DeliveryInv, AnswersOnce
<1> QED  BY <1>1, Invariance, PTL

\* Collectors are launched over an environment at most one validity old.
THEOREM EnvironmentFresh == Spec => EnvFreshAtLaunch
<1>1. IInv /\ [Next]_vars => [FreshLaunch]_vars
    <2> SUFFICES ASSUME IInv, [Next]_vars, NEW r \in Requests,
                        pc[r] # "spawn", pc'[r] = "spawn"
                 PROVE  envRead' > 0 /\ now <= envRead' + EnvValidity
        BY DEF FreshLaunch
    <2>1. IInv'
        BY NextIInv
    <2>2. envRead' > 0
        BY <2>1 DEF IInv, EnvInv
    <2>3. CheckEnvironment(r) \/ ReadEnvironment(r)
        <3> USE DEF IInv, TypeOK
        <3>1. ~ UNCHANGED vars
            BY DEF vars
        <3>2. ~ Tick /\ ~ Close
            BY DEF Tick, Close
        <3>3. \A c \in Collectors : ~ Fetch(c) /\ ~ Send(c) /\ ~ Done(c)
            BY DEF Fetch, Send, Done
        <3>4. \A q \in Requests :
                ~ Arrive(q) /\ ~ Lock(q) /\ ~ BeginReadEnvironment(q)
            BY DEF Arrive, Lock, BeginReadEnvironment
        <3>5. \A q \in Requests :
                /\ ~ PanicInEnvironment(q) /\ ~ StartCloser(q) /\ ~ Receive(q)
                /\ ~ Return(q) /\ ~ Reply(q) /\ \A c \in Collectors : ~ Spawn(q, c)
            BY DEF PanicInEnvironment, StartCloser, Receive, Return, Reply, Spawn
        <3>6. \A q \in Requests : CheckEnvironment(q) \/ ReadEnvironment(q) => q = r
            BY DEF CheckEnvironment, ReadEnvironment
        <3> QED  BY <3>1, <3>2, <3>3, <3>4, <3>5, <3>6, NextCases
    <2>4. CASE CheckEnvironment(r)
        BY <2>4, TimeAssumption
        DEF CheckEnvironment, EnvExpired, envVars, IInv, EnvInv, TypeOK
    <2>5. CASE ReadEnvironment(r)
        BY <2>2, <2>5, TimeAssumption DEF ReadEnvironment, IInv, TypeOK
    <2> QED  BY <2>2, <2>3, <2>4, <2>5
<1> QED  BY <1>1, Invariance, PTL DEF Spec, EnvFreshAtLaunch

-------------------------------------------------------------------------------
(***************************************************************************)
(* Scrape implements ScrapeService.  The step that matters is Return: the  *)
(* response then holds exactly one answer of every collector, so the       *)
(* mapped report is a complete one and its verdict is the right one.       *)
(***************************************************************************)
LEMMA CompleteOnReturn ==
    ASSUME IInv, NEW r \in Requests, Return(r)
    PROVE  [outcome |-> [c \in Collectors |-> OutcomeIn(c, body[r])],
            failed |-> failed[r]] \in Service!Complete
<1> DEFINE outcome == [c \in Collectors |-> OutcomeIn(c, body[r])]
<1>1. IInv'
    BY NextIInv DEF Next, Handler
<1>2. /\ body'[r] = body[r] /\ (failed'[r] <=> failed[r]) /\ pc'[r] = "reply"
      /\ body[r] \in Seq(Messages)
    BY DEF Return, IInv, TypeOK
<1>3. \A c \in Collectors : In(c, body[r])
    BY <1>1, <1>2 DEF IInv, DeliveryInv
<1>4. Distinct(body[r]) /\ (failed[r] <=> AnyError(body[r]))
    BY DEF IInv, DeliveryInv
<1>5. \A c \in Collectors : /\ IndexOf(c, body[r]) \in DOMAIN body[r]
                            /\ body[r][IndexOf(c, body[r])].from = c
                            /\ outcome[c] = body[r][IndexOf(c, body[r])].res
    <2>1. \A c \in Collectors : Once(c, body[r])
        BY <1>3, <1>4 DEF In, Distinct, Once
    <2> QED  BY <1>3, <2>1 DEF In, IndexOf, OutcomeIn
<1>6. \A i \in DOMAIN body[r] : /\ body[r][i].from \in Collectors
                                /\ body[r][i].res \in Results
    <2> SUFFICES ASSUME NEW i \in DOMAIN body[r]
                 PROVE  /\ body[r][i].from \in Collectors
                        /\ body[r][i].res \in Results
        OBVIOUS
    <2>1. body[r][i] \in Messages
        BY <1>2
    <2> QED  BY <2>1 DEF Messages
<1>7. \A i \in DOMAIN body[r] : IndexOf(body[r][i].from, body[r]) = i
    BY <1>4, <1>5, <1>6 DEF Distinct
<1>8. AnyError(body[r]) <=> \E c \in Collectors : ~ outcome[c].ok
    <2>1. ASSUME NEW i \in DOMAIN body[r], ~ body[r][i].res.ok
          PROVE  \E c \in Collectors : ~ outcome[c].ok
        <3>1. outcome[body[r][i].from] = body[r][i].res
            BY <1>5, <1>6, <1>7
        <3> QED  BY <1>6, <2>1, <3>1
    <2>2. ASSUME NEW c \in Collectors, ~ outcome[c].ok
          PROVE  AnyError(body[r])
        BY <1>5, <2>2 DEF AnyError
    <2> QED  BY <2>1, <2>2 DEF AnyError
<1>9. outcome \in [Collectors -> Results]
    <2>1. \A c \in Collectors : outcome[c] \in Results
        BY <1>5, <1>6
    <2> QED  BY <2>1
<1>10. failed[r] \in BOOLEAN
    BY DEF IInv, TypeOK
<1>11. failed[r] <=> \E c \in Collectors : ~ outcome[c].ok
    BY <1>4, <1>8
<1> HIDE DEF outcome
<1>12. [outcome |-> outcome, failed |-> failed[r]]
            \in [outcome : [Collectors -> Results], failed : BOOLEAN]
    BY <1>9, <1>10
<1>13. failed[r] = (\E c \in Collectors : ~ outcome[c].ok)
    BY <1>10, <1>11
<1>14. [outcome |-> outcome, failed |-> failed[r]] \in Service!Complete
    BY <1>12, <1>13 DEF Service!Complete
<1> QED  BY <1>14 DEF outcome

\* The report depends on the response of the requests that are being answered.
LEMMA ReportFrame ==
    ASSUME \A r \in Requests :
            /\ (pc'[r] = "reply") <=> (pc[r] = "reply")
            /\ (pc[r] = "reply") => body'[r] = body[r] /\ failed'[r] = failed[r]
    PROVE  ServiceReport' = ServiceReport
<1> DEFINE R(q, p, b, f) ==
            IF p = "reply"
            THEN [outcome |-> [c \in Collectors |-> OutcomeIn(c, b)],
                  failed |-> f]
            ELSE [aborted |-> TRUE]
<1>1. ServiceReport = [q \in Requests |-> R(q, pc[q], body[q], failed[q])]
    BY DEF ServiceReport
<1>2. ServiceReport' = [q \in Requests |-> R(q, pc'[q], body'[q], failed'[q])]
    BY DEF ServiceReport
<1>3. \A q \in Requests :
        R(q, pc'[q], body'[q], failed'[q]) = R(q, pc[q], body[q], failed[q])
    OBVIOUS
<1> HIDE DEF R
<1> QED  BY <1>1, <1>2, <1>3

\* A request that neither starts, ends nor is answered shows no step to the
\* service, whatever it does in between.
LEMMA ServiceStutter ==
    ASSUME \A r \in Requests :
            /\ (pc'[r] = "idle") <=> (pc[r] = "idle")
            /\ (pc'[r] = "reply") <=> (pc[r] = "reply")
            /\ (pc[r] = "reply") => body'[r] = body[r] /\ failed'[r] = failed[r]
    PROVE  UNCHANGED Service!svars
<1>1. ServicePhase' = ServicePhase
    BY DEF ServicePhase
<1>2. ServiceReport' = ServiceReport
    BY ReportFrame
<1> QED  BY <1>1, <1>2 DEF Service!svars

\* A step of one request changes the mapped variables at that request only.
LEMMA ServiceStep ==
    ASSUME NEW r \in Requests,
           \A q \in Requests : q # r =>
                pc'[q] = pc[q] /\ body'[q] = body[q] /\ failed'[q] = failed[q]
    PROVE  /\ ServicePhase' = [ServicePhase EXCEPT ![r] = ServicePhase'[r]]
           /\ ServiceReport' = [ServiceReport EXCEPT ![r] = ServiceReport'[r]]
<1>1. ServicePhase' = [ServicePhase EXCEPT ![r] = ServicePhase'[r]]
    BY DEF ServicePhase
<1> DEFINE R(q, p, b, f) ==
            IF p = "reply"
            THEN [outcome |-> [c \in Collectors |-> OutcomeIn(c, b)],
                  failed |-> f]
            ELSE [aborted |-> TRUE]
<1>2. ServiceReport = [q \in Requests |-> R(q, pc[q], body[q], failed[q])]
    BY DEF ServiceReport
<1>3. ServiceReport' = [q \in Requests |-> R(q, pc'[q], body'[q], failed'[q])]
    BY DEF ServiceReport
<1>4. \A q \in Requests : q # r =>
        R(q, pc'[q], body'[q], failed'[q]) = R(q, pc[q], body[q], failed[q])
    OBVIOUS
<1> HIDE DEF R
<1>5. ServiceReport' = [ServiceReport EXCEPT ![r] = ServiceReport'[r]]
    BY <1>2, <1>3, <1>4
<1> QED  BY <1>1, <1>5

\* Every step of Scrape is a step of ScrapeService, or changes nothing it sees.
LEMMA ServiceNext ==
    ASSUME IInv, [Next]_vars
    PROVE  [Service!SNext]_(Service!svars)
<1> USE DEF IInv, TypeOK
<1>1. CASE UNCHANGED vars \/ Tick
    BY <1>1, ServiceStutter DEF vars, Tick
<1>2. ASSUME NEW r \in Requests, Arrive(r)  PROVE Service!Ask(r)
    <2>1. ServicePhase[r] = "idle" /\ ServicePhase'[r] = "waiting"
        BY <1>2 DEF Arrive, ServicePhase
    <2>2. ServiceReport' = ServiceReport
        BY <1>2, ReportFrame DEF Arrive
    <2>3. ServicePhase' = [ServicePhase EXCEPT ![r] = "waiting"]
        BY <1>2, <2>1, ServiceStep DEF Arrive
    <2> QED  BY <2>1, <2>2, <2>3 DEF Service!Ask
<1>3. ASSUME NEW r \in Requests,
             \/ Lock(r) \/ CheckEnvironment(r) \/ BeginReadEnvironment(r)
             \/ ReadEnvironment(r) \/ StartCloser(r) \/ Receive(r)
             \/ \E c \in Collectors : Spawn(r, c)
      PROVE  UNCHANGED Service!svars
    <2>1. Lock(r) => UNCHANGED Service!svars
        BY ServiceStutter DEF Lock
    <2>2. CheckEnvironment(r) \/ StartCloser(r) => UNCHANGED Service!svars
        BY ServiceStutter DEF CheckEnvironment, StartCloser
    <2>3. BeginReadEnvironment(r) \/ ReadEnvironment(r) => UNCHANGED Service!svars
        BY ServiceStutter DEF BeginReadEnvironment, ReadEnvironment
    <2>4. Receive(r) => UNCHANGED Service!svars
        BY ServiceStutter DEF Receive
    <2>5. (\E c \in Collectors : Spawn(r, c)) => UNCHANGED Service!svars
        BY ServiceStutter DEF Spawn
    <2> QED  BY <1>3, <2>1, <2>2, <2>3, <2>4, <2>5
<1>4. ASSUME NEW r \in Requests, Return(r)  PROVE Service!Answer(r)
    <2>1. ServicePhase[r] = "waiting" /\ ServicePhase'[r] = "answered"
        BY <1>4 DEF Return, ServicePhase
    <2> DEFINE a == [outcome |-> [c \in Collectors |-> OutcomeIn(c, body[r])],
                     failed |-> failed[r]]
    <2>2. a \in Service!Complete
        BY <1>4, CompleteOnReturn
    <2>3. body' = body /\ failed' = failed /\ pc'[r] = "reply"
        BY <1>4 DEF Return
    <2>4. ServiceReport'[r] = a
        BY <2>3 DEF ServiceReport
    <2>5. \A q \in Requests : q # r => pc'[q] = pc[q]
        BY <1>4 DEF Return
    <2> HIDE DEF a
    <2>6. /\ ServicePhase' = [ServicePhase EXCEPT ![r] = "answered"]
          /\ ServiceReport' = [ServiceReport EXCEPT ![r] = a]
        BY <2>1, <2>3, <2>4, <2>5, ServiceStep
    <2> QED  BY <2>1, <2>2, <2>6 DEF Service!Answer
<1>5. ASSUME NEW r \in Requests, PanicInEnvironment(r)  PROVE Service!Abort(r)
    <2>1. ServicePhase[r] = "waiting" /\ ServicePhase'[r] = "idle"
        BY <1>5 DEF PanicInEnvironment, ServicePhase
    <2>2. ServiceReport' = ServiceReport
        BY <1>5, ReportFrame DEF PanicInEnvironment
    <2>3. ServicePhase' = [ServicePhase EXCEPT ![r] = "idle"]
        BY <1>5, <2>1, ServiceStep DEF PanicInEnvironment
    <2> QED  BY <2>1, <2>2, <2>3 DEF Service!Abort
<1>6. ASSUME NEW r \in Requests, Reply(r)  PROVE Service!Leave(r)
    <2>1. ServicePhase[r] = "answered" /\ ServicePhase'[r] = "idle"
        BY <1>6 DEF Reply, ServicePhase
    <2>2. ServiceReport'[r] = [aborted |-> TRUE]
        BY <1>6 DEF Reply, ServiceReport
    <2> QED  BY <1>6, <2>1, <2>2, ServiceStep
             DEF Reply, Service!Leave, Service!Aborted
<1>7. ASSUME NEW c \in Collectors, Fetch(c) \/ Send(c) \/ Done(c)
      PROVE  UNCHANGED Service!svars
    BY <1>7, ServiceStutter DEF Fetch, Send, Done
<1>8. CASE Close
    BY <1>8, ServiceStutter DEF Close
<1> HIDE DEF IInv, TypeOK
<1> QED  BY <1>1, <1>2, <1>3, <1>4, <1>5, <1>6, <1>7, <1>8, NextCases
         DEF Service!SNext

\* Every behaviour of the concurrent program is one of the service.
THEOREM Implementation == Spec => ImplementsService
<1>1. Init => Service!SInit
    BY DEF Init, Service!SInit, ServicePhase, ServiceReport, Service!Aborted
<1> QED  BY <1>1, ServiceNext, Invariance, PTL
         DEF Spec, ImplementsService, Service!SSpec
==============================================================================
