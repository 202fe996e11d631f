--------------------------- MODULE Annotator_proofs ---------------------------
(***************************************************************************)
(* Proofs about Annotator, for any number of request goroutines, any       *)
(* notifications and rules, any cache size and any number of annotations.  *)
(*                                                                         *)
(* Types, the tags and the ids of new annotations do not depend on the     *)
(* races.  The rest of the invariant is about the time before the first    *)
(* one, and its parts lean on each other:                                  *)
(*   AloneInv   one handler at a time is in the matcher, so that what it   *)
(*              read of the slice is still there when it writes;           *)
(*   KnownInv   entry k of a cache of n was added, and n - k others after  *)
(*              it;                                                        *)
(*   OnceInv    an id is in one place: one entry, or one handler's PATCH;  *)
(*   OpenInv    wherever it is, its region is open;                        *)
(*   EndInv     the ends a region got are its own, and at most one;        *)
(*   RecentInv  RecentStartsRemembered.                                    *)
(***************************************************************************)
EXTENDS Annotator, TLAPS

InMatcher(h) == pc[h] \in {"take", "write"}

\* Where a handler's id is the one it got from Grafana, and where it has none.
StageInv ==
    \A h \in Handlers :
        /\ pc[h] \in {"idle", "merge", "match"} => id[h] = 0
        /\ pc[h] \in {"add", "write"} => id[h] # 0

\* While a handler is alone in mergeTags, the slot holds its tag.
TagInv ==
    \A h \in Handlers :
        /\ pc[h] = "merge" => h \in torn \/ slot = TagOf[note[h]]
        /\ pc[h] \in {"match", "take", "send"} => tag[h] \in {TagOf[note[h]], Torn}

\* Each id that Grafana gave out is added once.
FreshInv ==
    /\ \A h \in Handlers : pc[h] \in {"add", "write"} =>
        /\ id[h] \in DOMAIN annotations /\ annotations[id[h]].note = note[h]
        /\ \A k \in DOMAIN added : added[k] # id[h]
        /\ \A g \in Handlers \ {h} : pc[g] \in {"add", "write"} => id[g] # id[h]
    /\ \A k \in DOMAIN added :
        /\ added[k] \in DOMAIN annotations
        /\ \A j \in DOMAIN added : added[j] = added[k] => j = k

\* n rewrites to the text of a start.
EndsRegion(n, start) == \E r \in DOMAIN StartsOf[n] : StartsOf[n][r] = start

AloneInv ==
    /\ \A g, h \in Handlers : InMatcher(g) /\ InMatcher(h) => g = h
    /\ \A h \in Handlers :
        /\ pc[h] = "write" => seen[h] = cache
        /\ pc[h] = "take" =>
            /\ idx[h] \in DOMAIN cache
            /\ EndsRegion(note[h], cache[idx[h]].note)

KnownInv ==
    \A k \in DOMAIN cache :
        \E p \in DOMAIN added :
            added[p] = cache[k].id /\ p + (Len(cache) - k) <= Len(added)

OnceInv ==
    /\ \A j, k \in DOMAIN cache : cache[j].id = cache[k].id => j = k
    /\ \A h \in Handlers : pc[h] = "send" /\ id[h] # 0 =>
        /\ \E p \in DOMAIN added : added[p] = id[h]
        /\ \A k \in DOMAIN cache : cache[k].id # id[h]
        /\ \A g \in Handlers \ {h} : pc[g] = "send" => id[g] # id[h]

\* a is the id of a region with this text, and without an end.
IsOpen(a, start) ==
    /\ a \in DOMAIN annotations
    /\ annotations[a].note = start /\ annotations[a].ends = <<>>

OpenInv ==
    /\ \A k \in DOMAIN cache : IsOpen(cache[k].id, cache[k].note)
    /\ \A h \in Handlers :
        /\ pc[h] \in {"add", "write"} => IsOpen(id[h], note[h])
        /\ pc[h] = "send" /\ id[h] # 0 =>
            \E start \in Notes : EndsRegion(note[h], start) /\ IsOpen(id[h], start)

EndInv ==
    \A a \in DOMAIN annotations :
        /\ Len(annotations[a].ends) <= 1
        /\ \A e \in DOMAIN annotations[a].ends :
               EndsRegion(annotations[a].ends[e], annotations[a].note)

RecentInv ==
    \A k \in DOMAIN added : k + CacheSize > Len(added) =>
        \/ added[k] \in taken
        \/ \E j \in DOMAIN cache : cache[j].id = added[k]

\* What holds until the first race.
OrderlyInv ==
    ~ raced => /\ AloneInv /\ KnownInv /\ OnceInv /\ OpenInv /\ EndInv /\ RecentInv

IInv == TypeOK /\ StageInv /\ TagInv /\ FreshInv /\ OrderlyInv

-------------------------------------------------------------------------------
\* Every step of the program: one handler's, one case per action.
LEMMA NextCases ==
    ASSUME [Next]_vars
    PROVE  \/ UNCHANGED vars
           \/ \E h \in Handlers :
                \/ \E n \in Notes : Arrive(h, n)
                \/ MergeTags(h)
                \/ Find(h) \/ FindNothing(h) \/ Take(h) \/ TakePanics(h)
                \/ PostAnswered(h) \/ PostFails(h) \/ Patch(h)
                \/ AddRead(h) \/ AddWrite(h)
BY DEF Next, Step

\* The cache has room for one.
LEMMA CacheRoom == CacheSize \in Nat /\ CacheSize >= 1 /\ MaxId \in Nat
BY AnnotatorAssumption

\* The texts that a start may have are notes.
LEMMA Rules ==
    /\ \A n \in Notes : StartsOf[n] \in Seq(Notes)
    /\ \A n \in Notes : \A start : EndsRegion(n, start) => start \in Notes
<1>1. \A n \in Notes : StartsOf[n] \in Seq(Notes)
    BY AnnotatorAssumption
<1>2. ASSUME NEW n \in Notes, NEW r \in DOMAIN StartsOf[n] PROVE StartsOf[n][r] \in Notes
    <2>1. StartsOf[n] \in Seq(Notes)
        BY <1>1
    <2> QED  BY <2>1
<1> QED  BY <1>1, <1>2 DEF EndsRegion

\* The variables' first value is a note.
LEMMA SomeNote == AnyNote \in Notes /\ TagOf[AnyNote] \in Tags
BY AnnotatorAssumption DEF AnyNote, Tags

\* What a notification is, and what Grafana keeps of it.
Region == [note : Notes, ends : Seq(Notes)]

\* Appending to a sequence.
LEMMA AppendFacts ==
    ASSUME NEW S, NEW s \in Seq(S), NEW e \in S
    PROVE  /\ Append(s, e) \in Seq(S) /\ Len(Append(s, e)) = Len(s) + 1 /\ Len(s) \in Nat
           /\ DOMAIN s = 1 .. Len(s) /\ DOMAIN Append(s, e) = 1 .. Len(s) + 1
           /\ \A k \in 1 .. Len(s) : Append(s, e)[k] = s[k]
           /\ Append(s, e)[Len(s) + 1] = e
OBVIOUS

\* Taking the entry at k out of a sequence.
LEMMA WithoutFacts ==
    ASSUME NEW S, NEW s \in Seq(S), NEW k \in DOMAIN s
    PROVE  /\ Without(s, k) \in Seq(S) /\ Len(Without(s, k)) = Len(s) - 1 /\ Len(s) \in Nat
           /\ DOMAIN s = 1 .. Len(s) /\ DOMAIN Without(s, k) = 1 .. Len(s) - 1
           /\ \A j \in 1 .. Len(s) - 1 :
                Without(s, k)[j] = IF j < k THEN s[j] ELSE s[j + 1]
<1>1. Len(s) \in Nat /\ DOMAIN s = 1 .. Len(s) /\ k \in 1 .. Len(s)
    OBVIOUS
<1> DEFINE a == SubSeq(s, 1, k - 1)
           b == SubSeq(s, k + 1, Len(s))
<1>2. /\ a \in Seq(S) /\ Len(a) = k - 1
      /\ \A j \in 1 .. k - 1 : a[j] = s[j]
    BY <1>1
<1>3. /\ b \in Seq(S) /\ Len(b) = Len(s) - k
      /\ \A j \in 1 .. Len(s) - k : b[j] = s[k + j]
    BY <1>1
<1>4. Without(s, k) = a \o b
    BY DEF Without
<1> HIDE DEF a, b
<1>5. a \in Seq(S) /\ b \in Seq(S) /\ Len(a) + Len(b) = Len(s) - 1
    BY <1>1, <1>2, <1>3
<1>6. /\ a \o b \in Seq(S) /\ Len(a \o b) = Len(a) + Len(b)
      /\ \A j \in 1 .. Len(a) + Len(b) :
            (a \o b)[j] = IF j <= Len(a) THEN a[j] ELSE b[j - Len(a)]
    BY <1>5
<1>7. ASSUME NEW j \in 1 .. Len(s) - 1
      PROVE  (a \o b)[j] = IF j < k THEN s[j] ELSE s[j + 1]
    <2>1. CASE j < k
        BY <1>1, <1>2, <1>5, <1>6, <2>1
    <2>2. CASE ~ (j < k)
        <3>1. /\ j - (k - 1) \in 1 .. Len(s) - k /\ k + (j - (k - 1)) = j + 1
              /\ ~ (j <= k - 1)
            BY <1>1, <2>2
        <3> QED  BY <1>2, <1>3, <1>5, <1>6, <3>1, <2>2
    <2> QED  BY <2>1, <2>2
<1>8. DOMAIN (a \o b) = 1 .. Len(s) - 1
    BY <1>5, <1>6
<1> HIDE DEF Without
<1> QED  BY <1>1, <1>4, <1>5, <1>6, <1>7, <1>8

\* t is what Add leaves of s and e: without the d oldest entries, d being 1 if s
\* is full.
Added(s, e, t, d) ==
    /\ d = 1 <=> Len(s) = CacheSize
    /\ Len(t) = Len(s) + 1 - d /\ Len(s) \in Nat /\ Len(t) \in Nat
    /\ DOMAIN s = 1 .. Len(s) /\ DOMAIN t = 1 .. Len(t) /\ Len(t) <= CacheSize
    /\ Len(t) >= 1 /\ t[Len(t)] = e
    /\ \A k \in 1 .. Len(t) - 1 : t[k] = s[k + d]

\* What Add leaves of the sequence it has appended to.
LEMMA EvictedFacts ==
    ASSUME NEW S, NEW s \in Seq(S), NEW e \in S, Len(s) <= CacheSize,
           NEW t, t = Evicted(Append(s, e))
    PROVE  t \in Seq(S) /\ \E d \in {0, 1} : Added(s, e, t, d)
<1> DEFINE u == Append(s, e)
<1>1. /\ u \in Seq(S) /\ Len(u) = Len(s) + 1 /\ Len(s) \in Nat
      /\ DOMAIN s = 1 .. Len(s)
      /\ \A k \in 1 .. Len(s) : u[k] = s[k]
      /\ u[Len(s) + 1] = e
    BY AppendFacts
<1> HIDE DEF u
<1>0. CacheSize \in Nat /\ CacheSize >= 1 /\ Len(s) <= CacheSize
    BY CacheRoom
<1>2. t = Evicted(u)
    BY DEF u
<1>3. CASE Len(s) = CacheSize
    <2>1. Len(u) > CacheSize
        BY <1>0, <1>1, <1>3
    <2>2. t = Tail(u)
        BY <1>2, <2>1 DEF Evicted
    <2>3. /\ Tail(u) \in Seq(S) /\ Len(Tail(u)) = Len(s)
          /\ DOMAIN Tail(u) = 1 .. Len(s)
          /\ \A k \in 1 .. Len(s) : Tail(u)[k] = u[k + 1]
        BY <1>1
    <2>4. Len(s) >= 1
        BY <1>0, <1>1, <1>3
    <2>5. Tail(u)[Len(s)] = e
        BY <1>1, <2>3, <2>4
    <2>6. \A k \in 1 .. Len(s) - 1 : Tail(u)[k] = s[k + 1]
        BY <1>1, <2>3
    <2>7. Len(t) = Len(s) + 1 - 1
        BY <1>1, <2>2, <2>3
    <2>8. Added(s, e, t, 1)
        BY <1>0, <1>1, <1>3, <2>2, <2>3, <2>4, <2>5, <2>6, <2>7 DEF Added
    <2> QED  BY <2>2, <2>3, <2>8
<1>4. CASE Len(s) # CacheSize
    <2>1. ~ (Len(u) > CacheSize) /\ Len(u) >= 1 /\ Len(u) <= CacheSize
        <3>1. Len(u) = Len(s) + 1 /\ Len(s) \in Nat
            BY <1>1
        <3> QED  BY <1>0, <1>4, <3>1
    <2>2. t = u
        BY <1>2, <2>1 DEF Evicted
    <2>3. DOMAIN u = 1 .. Len(u)
        BY <1>1
    <2>4. /\ u \in Seq(S) /\ Len(u) = Len(s) + 1 - 0 /\ u[Len(u)] = e
          /\ \A k \in 1 .. Len(u) - 1 : u[k] = s[k + 0]
        BY <1>1
    <2>5. Added(s, e, t, 0)
        BY <1>1, <1>4, <2>1, <2>2, <2>3, <2>4 DEF Added
    <2> QED  BY <2>2, <2>4, <2>5
<1> QED  BY <1>3, <1>4

-------------------------------------------------------------------------------
(* Types.                                                                  *)

Labels == {"idle", "merge", "match", "take", "send", "add", "write"}

HandlerTypes ==
    /\ pc \in [Handlers -> Labels]
    /\ note \in [Handlers -> Notes] /\ tag \in [Handlers -> Tags]
    /\ idx \in [Handlers -> 0 .. CacheSize] /\ id \in [Handlers -> 0 .. MaxId]
    /\ seen \in [Handlers -> Seq(Entry)]
    /\ \A h \in Handlers : Len(seen[h]) <= CacheSize

SharedTypes ==
    /\ slot \in Tags /\ torn \subseteq Handlers
    /\ cache \in Seq(Entry) /\ Len(cache) <= CacheSize
    /\ annotations \in Seq(Region) /\ Len(annotations) <= MaxId
    /\ added \in Seq(Ids) /\ taken \subseteq Ids /\ raced \in BOOLEAN

\* The types of the handlers' variables, and those of the shared ones.
LEMMA TypeParts ==
    /\ TypeOK <=> HandlerTypes /\ SharedTypes
    /\ TypeOK' <=> HandlerTypes' /\ SharedTypes'
<1>1. TypeOK <=> HandlerTypes /\ SharedTypes
    BY Zenon DEF TypeOK, HandlerTypes, SharedTypes, Labels, Region
<1>2. TypeOK' <=> HandlerTypes' /\ SharedTypes'
    BY Zenon DEF TypeOK, HandlerTypes, SharedTypes, Labels, Region
<1> QED  BY <1>1, <1>2

\* An entry of the cache.
LEMMA EntryFields ==
    ASSUME SharedTypes, NEW k \in DOMAIN cache
    PROVE  /\ cache[k] \in Entry /\ cache[k].id \in Ids /\ cache[k].note \in Notes
           /\ cache[k].id \in 1 .. MaxId
<1>1. cache[k] \in Entry
    BY DEF SharedTypes
<1> QED  BY <1>1 DEF Entry, Ids

\* What Grafana keeps of one annotation.
LEMMA RegionFields ==
    ASSUME SharedTypes, NEW a \in DOMAIN annotations
    PROVE  /\ annotations[a] \in Region
           /\ annotations[a].note \in Notes /\ annotations[a].ends \in Seq(Notes)
<1>1. annotations[a] \in Region
    BY DEF SharedTypes
<1> QED  BY <1>1 DEF Region

\* A handler that leaves takes its locals with it, and no one else's.
LEMMA LeaveTypes ==
    ASSUME HandlerTypes, NEW h \in Handlers, Leave(h)
    PROVE  HandlerTypes'
<1>1. <<>> \in Seq(Entry) /\ Len(<<>>) = 0
    OBVIOUS
<1>2. /\ pc' \in [Handlers -> Labels] /\ note' \in [Handlers -> Notes]
      /\ tag' \in [Handlers -> Tags]
    BY SomeNote DEF HandlerTypes, Leave, Goto, Labels
<1>3. idx' \in [Handlers -> 0 .. CacheSize] /\ id' \in [Handlers -> 0 .. MaxId]
    BY CacheRoom DEF HandlerTypes, Leave
<1>4. seen' \in [Handlers -> Seq(Entry)] /\ \A g \in Handlers : Len(seen'[g]) <= CacheSize
    BY <1>1, CacheRoom DEF HandlerTypes, Leave
<1> QED  BY <1>2, <1>3, <1>4 DEF HandlerTypes

\* Grafana has created the annotation that handler h sent.
LEMMA CreatedEffect ==
    ASSUME SharedTypes, HandlerTypes, NEW h \in Handlers, annotations' = Created(h)
    PROVE  /\ annotations' \in Seq(Region) /\ Len(annotations') = Len(annotations) + 1
           /\ Len(annotations) \in Nat
           /\ DOMAIN annotations = 1 .. Len(annotations)
           /\ DOMAIN annotations' = 1 .. Len(annotations) + 1
           /\ \A a \in DOMAIN annotations : annotations'[a] = annotations[a]
           /\ annotations'[Len(annotations) + 1].note = note[h]
           /\ annotations'[Len(annotations) + 1].ends = <<>>
<1> DEFINE e == [note |-> note[h], ends |-> <<>>]
<1>1. e \in Region /\ e.note = note[h] /\ e.ends = <<>>
    BY DEF Region, HandlerTypes
<1>2. annotations' = Append(annotations, e) /\ annotations \in Seq(Region)
    BY DEF Created, SharedTypes
<1> HIDE DEF e
<1> QED  BY <1>1, <1>2, AppendFacts

\* Grafana has ended the region that handler h sent.
LEMMA ClosedEffect ==
    ASSUME SharedTypes, HandlerTypes, NEW h \in Handlers, annotations' = Closed(h)
    PROVE  /\ annotations' \in Seq(Region) /\ Len(annotations') = Len(annotations)
           /\ DOMAIN annotations' = DOMAIN annotations
           /\ \A a \in DOMAIN annotations :
                /\ annotations'[a].note = annotations[a].note
                /\ a # id[h] => annotations'[a] = annotations[a]
                /\ a = id[h] => annotations'[a].ends = Append(annotations[a].ends, note[h])
<1>0. annotations \in Seq(Region) /\ note[h] \in Notes
    BY DEF SharedTypes, HandlerTypes
<1>1. DOMAIN annotations = 1 .. Len(annotations) /\ Len(annotations) \in Nat
    BY <1>0
<1>2. /\ DOMAIN annotations' = DOMAIN annotations
      /\ annotations' = [a \in DOMAIN annotations |->
            IF a = id[h] THEN [annotations[a] EXCEPT !.ends = Append(@, note[h])]
                         ELSE annotations[a]]
    BY Zenon DEF Closed
<1>3. ASSUME NEW a \in DOMAIN annotations
      PROVE  /\ annotations'[a] \in Region
             /\ annotations'[a].note = annotations[a].note
             /\ a # id[h] => annotations'[a] = annotations[a]
             /\ a = id[h] => annotations'[a].ends = Append(annotations[a].ends, note[h])
    <2>1. /\ annotations[a] \in Region /\ annotations[a].note \in Notes
          /\ annotations[a].ends \in Seq(Notes)
        BY RegionFields
    <2>2. Append(annotations[a].ends, note[h]) \in Seq(Notes)
        BY <1>0, <2>1, AppendFacts
    <2>3. CASE a = id[h]
        <3>1. annotations'[a] =
                 [annotations[a] EXCEPT !.ends = Append(annotations[a].ends, note[h])]
            BY <1>2, <2>3
        <3> QED  BY <2>1, <2>2, <2>3, <3>1 DEF Region
    <2>4. CASE a # id[h]
        BY <1>2, <2>1, <2>4
    <2> QED  BY <2>3, <2>4
<1>4. annotations' \in [1 .. Len(annotations) -> Region]
    BY <1>1, <1>2, <1>3
<1>5. annotations' \in Seq(Region) /\ Len(annotations') = Len(annotations)
    BY <1>1, <1>4
<1> QED  BY <1>2, <1>3, <1>5

\* Types, whatever races.
LEMMA TypeNext ==
    ASSUME TypeOK, StageInv, [Next]_vars
    PROVE  TypeOK'
<1>0. HandlerTypes /\ SharedTypes
    BY TypeParts
<1>1. CASE UNCHANGED vars
    BY <1>1 DEF vars, handler, tags, history, TypeOK
<1>2. ASSUME NEW h \in Handlers, NEW n \in Notes, Arrive(h, n)
      PROVE  HandlerTypes' /\ SharedTypes'
    <2>1. pc' \in [Handlers -> Labels] /\ note' \in [Handlers -> Notes]
        BY <1>0, <1>2 DEF Arrive, Goto, HandlerTypes, Labels
    <2>2. slot' \in Tags /\ torn' \subseteq Handlers
        BY <1>0, <1>2 DEF Arrive, SharedTypes, Tags
    <2> QED  BY <1>0, <1>2, <2>1, <2>2 DEF Arrive, HandlerTypes, SharedTypes, history
<1>3. ASSUME NEW h \in Handlers, MergeTags(h)
      PROVE  HandlerTypes' /\ SharedTypes'
    <2>1. Torn \in Tags /\ slot \in Tags
        BY <1>0 DEF Tags, SharedTypes
    <2>2. pc' \in [Handlers -> Labels] /\ tag' \in [Handlers -> Tags]
        BY <1>0, <1>3, <2>1 DEF MergeTags, Goto, HandlerTypes, Labels
    <2>3. torn' \subseteq Handlers
        BY <1>0, <1>3 DEF MergeTags, SharedTypes
    <2> QED  BY <1>0, <1>3, <2>2, <2>3 DEF MergeTags, HandlerTypes, SharedTypes, history
<1>4. ASSUME NEW h \in Handlers, Find(h)
      PROVE  HandlerTypes' /\ SharedTypes'
    <2>1. pc' \in [Handlers -> Labels]
        BY <1>0, <1>4 DEF Find, Goto, HandlerTypes, Labels
    <2>2. \A k \in DOMAIN cache : k \in 0 .. CacheSize
        BY <1>0, CacheRoom DEF SharedTypes
    <2>3. idx' \in [Handlers -> 0 .. CacheSize]
        BY <1>0, <1>4, <2>2 DEF Find, HandlerTypes
    <2>4. raced' \in BOOLEAN
        BY <1>0, <1>4, Zenon DEF Find, Enter, SharedTypes
    <2> QED  BY <1>0, <1>4, <2>1, <2>3, <2>4 DEF Find, HandlerTypes, SharedTypes, tags
<1>5. ASSUME NEW h \in Handlers, FindNothing(h)
      PROVE  HandlerTypes' /\ SharedTypes'
    <2>1. pc' \in [Handlers -> Labels]
        BY <1>0, <1>5 DEF FindNothing, Goto, HandlerTypes, Labels
    <2>2. raced' \in BOOLEAN
        BY <1>0, <1>5, Zenon DEF FindNothing, Enter, SharedTypes
    <2> QED  BY <1>0, <1>5, <2>1, <2>2 DEF FindNothing, HandlerTypes, SharedTypes, tags
<1>6. ASSUME NEW h \in Handlers, Take(h)
      PROVE  HandlerTypes' /\ SharedTypes'
    <2>1. idx[h] \in DOMAIN cache /\ cache[idx[h]].id \in Ids
        BY <1>0, <1>6, EntryFields DEF Take
    <2>2. pc' \in [Handlers -> Labels] /\ id' \in [Handlers -> 0 .. MaxId]
        BY <1>0, <1>6, <2>1, CacheRoom DEF Take, Goto, HandlerTypes, Labels, Ids
    <2>3. cache \in Seq(Entry) /\ cache' = Without(cache, idx[h])
        BY <1>0, <1>6 DEF Take, SharedTypes
    <2>4. cache' \in Seq(Entry) /\ Len(cache') = Len(cache) - 1 /\ Len(cache) \in Nat
        BY <2>1, <2>3, WithoutFacts
    <2>5. Len(cache') <= CacheSize
        <3>1. Len(cache) <= CacheSize
            BY <1>0 DEF SharedTypes
        <3> QED  BY <2>4, <3>1, CacheRoom
    <2>6. taken' \subseteq Ids
        BY <1>0, <1>6, <2>1 DEF Take, SharedTypes
    <2> QED  BY <1>0, <1>6, <2>2, <2>4, <2>5, <2>6 DEF Take, HandlerTypes, SharedTypes,
                tags
<1>7. ASSUME NEW h \in Handlers, TakePanics(h)
      PROVE  HandlerTypes' /\ SharedTypes'
    <2>1. Leave(h) /\ UNCHANGED <<tags, cache, annotations, history>>
        BY <1>7 DEF TakePanics
    <2> QED  BY <1>0, <2>1, LeaveTypes DEF SharedTypes, tags, history
<1>8. ASSUME NEW h \in Handlers, PostAnswered(h)
      PROVE  HandlerTypes' /\ SharedTypes'
    <2>1. annotations' = Created(h)
        BY <1>8 DEF PostAnswered
    <2>2. /\ annotations' \in Seq(Region) /\ Len(annotations') = Len(annotations) + 1
          /\ Len(annotations) \in Nat /\ Len(annotations) < MaxId
        BY <1>0, <1>8, <2>1, CreatedEffect DEF PostAnswered
    <2>3. Len(annotations') \in 0 .. MaxId /\ Len(annotations') <= MaxId
        BY <2>2, CacheRoom
    <2>4. pc' \in [Handlers -> Labels] /\ tag' \in [Handlers -> Tags]
        BY <1>0, <1>8, SomeNote DEF PostAnswered, Goto, HandlerTypes, Labels
    <2>5. id' \in [Handlers -> 0 .. MaxId]
        BY <1>0, <1>8, <2>3 DEF PostAnswered, HandlerTypes
    <2> QED  BY <1>0, <1>8, <2>2, <2>3, <2>4, <2>5
             DEF PostAnswered, HandlerTypes, SharedTypes, tags, history
<1>9. ASSUME NEW h \in Handlers, PostFails(h)
      PROVE  HandlerTypes' /\ SharedTypes'
    <2>1. annotations' \in Seq(Region) /\ Len(annotations') <= MaxId
        <3>1. CASE annotations' = annotations
            BY <1>0, <3>1 DEF SharedTypes
        <3>2. CASE Len(annotations) < MaxId /\ annotations' = Created(h)
            <4>1. /\ annotations' \in Seq(Region) /\ Len(annotations) \in Nat
                  /\ Len(annotations') = Len(annotations) + 1
                BY <1>0, <3>2, CreatedEffect
            <4> QED  BY <3>2, <4>1, CacheRoom
        <3> QED  BY <1>9, <3>1, <3>2 DEF PostFails
    <2>2. Leave(h) /\ UNCHANGED <<tags, cache, history>>
        BY <1>9 DEF PostFails
    <2> QED  BY <1>0, <2>1, <2>2, LeaveTypes DEF SharedTypes, tags, history
<1>10. ASSUME NEW h \in Handlers, Patch(h)
      PROVE  HandlerTypes' /\ SharedTypes'
    <2>1. annotations' \in Seq(Region) /\ Len(annotations') <= MaxId
        <3>1. CASE annotations' = annotations
            BY <1>0, <3>1 DEF SharedTypes
        <3>2. CASE annotations' = Closed(h)
            BY <1>0, <3>2, ClosedEffect DEF SharedTypes
        <3> QED  BY <1>10, <3>1, <3>2 DEF Patch
    <2>2. Leave(h) /\ UNCHANGED <<tags, cache, history>>
        BY <1>10 DEF Patch
    <2> QED  BY <1>0, <2>1, <2>2, LeaveTypes DEF SharedTypes, tags, history
<1>11. ASSUME NEW h \in Handlers, AddRead(h)
      PROVE  HandlerTypes' /\ SharedTypes'
    <2>1. pc' \in [Handlers -> Labels]
        BY <1>0, <1>11 DEF AddRead, Goto, HandlerTypes, Labels
    <2>2. /\ seen' \in [Handlers -> Seq(Entry)]
          /\ \A g \in Handlers : Len(seen'[g]) <= CacheSize
        BY <1>0, <1>11 DEF AddRead, HandlerTypes, SharedTypes
    <2>3. raced' \in BOOLEAN
        BY <1>0, <1>11, Zenon DEF AddRead, Enter, SharedTypes
    <2> QED  BY <1>0, <1>11, <2>1, <2>2, <2>3 DEF AddRead, HandlerTypes, SharedTypes, tags
<1>12. ASSUME NEW h \in Handlers, AddWrite(h)
      PROVE  HandlerTypes' /\ SharedTypes'
    <2>1. id[h] # 0 /\ id[h] \in 0 .. MaxId /\ note[h] \in Notes
        BY <1>0, <1>12 DEF AddWrite, StageInv, HandlerTypes
    <2>2. id[h] \in Ids
        BY <2>1, CacheRoom DEF Ids
    <2>3. [id |-> id[h], note |-> note[h]] \in Entry
        BY <2>1, <2>2 DEF Entry
    <2>4. seen[h] \in Seq(Entry) /\ Len(seen[h]) <= CacheSize
        BY <1>0 DEF HandlerTypes
    <2>5. cache' \in Seq(Entry) /\ Len(cache') <= CacheSize
        <3> DEFINE t == cache'
        <3>1. t = Evicted(Append(seen[h], [id |-> id[h], note |-> note[h]]))
            BY <1>12 DEF AddWrite
        <3> HIDE DEF t
        <3>2. t \in Seq(Entry) /\ Len(t) <= CacheSize
            BY <2>3, <2>4, <3>1, EvictedFacts DEF Added
        <3> QED  BY <3>2 DEF t
    <2>6. added' \in Seq(Ids)
        BY <1>0, <1>12, <2>2, AppendFacts DEF AddWrite, SharedTypes
    <2> QED  BY <1>0, <1>12, <2>5, <2>6, LeaveTypes DEF AddWrite, SharedTypes, tags
<1> QED  BY <1>1, <1>2, <1>3, <1>4, <1>5, <1>6, <1>7, <1>8, <1>9, <1>10, <1>11, <1>12,
            NextCases, TypeParts

-------------------------------------------------------------------------------
(* What each step changes.                                                 *)

\* The other handlers are where they were, with the locals they had.
Others(h) ==
    \A g \in Handlers \ {h} :
        /\ pc'[g] = pc[g] /\ note'[g] = note[g] /\ tag'[g] = tag[g]
        /\ idx'[g] = idx[g] /\ id'[g] = id[g] /\ seen'[g] = seen[g]

\* A handler that leaves is idle, with no id.
LEMMA LeaveEffect ==
    ASSUME HandlerTypes, NEW h \in Handlers, Leave(h)
    PROVE  Others(h) /\ pc'[h] = "idle" /\ id'[h] = 0
BY DEF HandlerTypes, Leave, Goto, Others

\* A request arrives: its note is in its handler, its tag in the slot.
LEMMA ArriveEffect ==
    ASSUME HandlerTypes, NEW h \in Handlers, NEW n \in Notes, Arrive(h, n)
    PROVE  /\ Others(h) /\ pc[h] = "idle" /\ pc'[h] = "merge" /\ note'[h] = n
           /\ id'[h] = id[h] /\ slot' = TagOf[n]
           /\ UNCHANGED <<cache, annotations, added, taken, raced>>
BY DEF HandlerTypes, Arrive, Goto, Others, history

\* A handler reads its tag back, or what the races have made of it.
LEMMA MergeEffect ==
    ASSUME HandlerTypes, NEW h \in Handlers, MergeTags(h)
    PROVE  /\ Others(h) /\ pc[h] = "merge" /\ pc'[h] = "match" /\ note'[h] = note[h]
           /\ id'[h] = id[h] /\ slot' = slot /\ torn' = torn \ {h}
           /\ tag'[h] = IF h \in torn THEN Torn ELSE slot
           /\ UNCHANGED <<cache, annotations, added, taken, raced>>
BY DEF HandlerTypes, MergeTags, Goto, Others, history

\* A handler finds an index of the slice, and has not used it yet.
LEMMA FindEffect ==
    ASSUME HandlerTypes, NEW h \in Handlers, Find(h)
    PROVE  /\ Others(h) /\ pc[h] = "match" /\ pc'[h] = "take" /\ note'[h] = note[h]
           /\ id'[h] = id[h] /\ tag'[h] = tag[h]
           /\ idx'[h] \in DOMAIN cache /\ FirstMatch(note[h], idx'[h])
           /\ Enter /\ UNCHANGED <<slot, torn, cache, annotations, added, taken>>
BY DEF HandlerTypes, Find, Goto, Others, tags

\* A handler finds nothing in the slice, and sends a new annotation.
LEMMA FindNothingEffect ==
    ASSUME HandlerTypes, NEW h \in Handlers, FindNothing(h)
    PROVE  /\ Others(h) /\ pc[h] = "match" /\ pc'[h] = "send" /\ note'[h] = note[h]
           /\ id'[h] = id[h] /\ tag'[h] = tag[h]
           /\ Enter /\ UNCHANGED <<slot, torn, cache, annotations, added, taken>>
BY DEF HandlerTypes, FindNothing, Goto, Others, tags

\* A handler takes the id at its index, and the entry out of the slice.
LEMMA TakeEffect ==
    ASSUME HandlerTypes, SharedTypes, NEW h \in Handlers, Take(h)
    PROVE  /\ Others(h) /\ pc[h] = "take" /\ pc'[h] = "send" /\ note'[h] = note[h]
           /\ tag'[h] = tag[h] /\ idx[h] \in DOMAIN cache /\ id'[h] = cache[idx[h]].id
           /\ taken' = taken \cup {cache[idx[h]].id}
           /\ Len(cache') = Len(cache) - 1 /\ Len(cache) \in Nat
           /\ DOMAIN cache = 1 .. Len(cache) /\ DOMAIN cache' = 1 .. Len(cache) - 1
           /\ \A j \in DOMAIN cache' :
                cache'[j] = IF j < idx[h] THEN cache[j] ELSE cache[j + 1]
           /\ UNCHANGED <<slot, torn, annotations, added, raced>>
<1>1. cache \in Seq(Entry) /\ idx[h] \in DOMAIN cache /\ cache' = Without(cache, idx[h])
    BY DEF SharedTypes, Take
<1>2. /\ Len(cache') = Len(cache) - 1 /\ Len(cache) \in Nat
      /\ DOMAIN cache = 1 .. Len(cache) /\ DOMAIN cache' = 1 .. Len(cache) - 1
      /\ \A j \in DOMAIN cache' :
            cache'[j] = IF j < idx[h] THEN cache[j] ELSE cache[j + 1]
    BY <1>1, WithoutFacts
<1>3. /\ Others(h) /\ pc[h] = "take" /\ pc'[h] = "send" /\ note'[h] = note[h]
      /\ tag'[h] = tag[h] /\ id'[h] = cache[idx[h]].id
      /\ taken' = taken \cup {cache[idx[h]].id}
      /\ UNCHANGED <<slot, torn, annotations, added, raced>>
    BY DEF HandlerTypes, Take, Goto, Others, tags
<1> QED  BY <1>1, <1>2, <1>3

\* The index is past the slice: the handler is gone.
LEMMA PanicEffect ==
    ASSUME HandlerTypes, NEW h \in Handlers, TakePanics(h)
    PROVE  /\ Others(h) /\ pc[h] = "take" /\ pc'[h] = "idle" /\ id'[h] = 0
           /\ idx[h] \notin DOMAIN cache
           /\ UNCHANGED <<slot, torn, cache, annotations, added, taken, raced>>
<1>1. Leave(h) /\ UNCHANGED <<tags, cache, annotations, history>>
    BY DEF TakePanics
<1> QED  BY <1>1, LeaveEffect DEF TakePanics, tags, history

\* The answer of the POST gives the handler the next id of Grafana.
LEMMA PostEffect ==
    ASSUME HandlerTypes, SharedTypes, NEW h \in Handlers, PostAnswered(h)
    PROVE  /\ Others(h) /\ pc[h] = "send" /\ pc'[h] = "add" /\ note'[h] = note[h]
           /\ id[h] = 0 /\ id'[h] = Len(annotations) + 1 /\ annotations' = Created(h)
           /\ UNCHANGED <<slot, torn, cache, added, taken, raced>>
<1>1. annotations' = Created(h)
    BY DEF PostAnswered
<1>2. Len(annotations') = Len(annotations) + 1
    BY <1>1, CreatedEffect
<1>3. /\ Others(h) /\ pc[h] = "send" /\ pc'[h] = "add" /\ note'[h] = note[h]
      /\ id[h] = 0 /\ id'[h] = Len(annotations')
      /\ UNCHANGED <<slot, torn, cache, added, taken, raced>>
    BY DEF HandlerTypes, PostAnswered, Goto, Others, tags, history
<1> QED  BY <1>1, <1>2, <1>3

\* The POST may have created an annotation; the handler does not know.
LEMMA PostFailsEffect ==
    ASSUME HandlerTypes, NEW h \in Handlers, PostFails(h)
    PROVE  /\ Others(h) /\ pc[h] = "send" /\ pc'[h] = "idle" /\ id'[h] = 0
           /\ id[h] = 0 /\ (annotations' = annotations \/ annotations' = Created(h))
           /\ UNCHANGED <<slot, torn, cache, added, taken, raced>>
<1>1. Leave(h) /\ UNCHANGED <<tags, cache, history>>
    BY DEF PostFails
<1> QED  BY <1>1, LeaveEffect DEF PostFails, tags, history

\* The PATCH may have ended the region of the id; the handler keeps nothing.
LEMMA PatchEffect ==
    ASSUME HandlerTypes, NEW h \in Handlers, Patch(h)
    PROVE  /\ Others(h) /\ pc[h] = "send" /\ pc'[h] = "idle" /\ id'[h] = 0
           /\ id[h] # 0 /\ (annotations' = annotations \/ annotations' = Closed(h))
           /\ UNCHANGED <<slot, torn, cache, added, taken, raced>>
<1>1. Leave(h) /\ UNCHANGED <<tags, cache, history>>
    BY DEF Patch
<1> QED  BY <1>1, LeaveEffect DEF Patch, tags, history

\* A handler reads the slice to add to it.
LEMMA ReadEffect ==
    ASSUME HandlerTypes, NEW h \in Handlers, AddRead(h)
    PROVE  /\ Others(h) /\ pc[h] = "add" /\ pc'[h] = "write" /\ note'[h] = note[h]
           /\ id'[h] = id[h] /\ seen'[h] = cache
           /\ Enter /\ UNCHANGED <<slot, torn, cache, annotations, added, taken>>
BY DEF HandlerTypes, AddRead, Goto, Others, tags

\* The entry written is the last; those before it are those that were read, but
\* for the oldest if they were as many as the cache may hold.
LEMMA WriteEffect ==
    ASSUME HandlerTypes, SharedTypes, StageInv, NEW h \in Handlers, AddWrite(h)
    PROVE  \E d \in {0, 1} :
              /\ Others(h) /\ pc[h] = "write" /\ pc'[h] = "idle" /\ id'[h] = 0
              /\ d = 1 <=> Len(seen[h]) = CacheSize
              /\ Len(cache') = Len(seen[h]) + 1 - d /\ Len(seen[h]) \in Nat
              /\ Len(cache') \in Nat /\ Len(cache') >= 1
              /\ DOMAIN seen[h] = 1 .. Len(seen[h]) /\ DOMAIN cache' = 1 .. Len(cache')
              /\ cache'[Len(cache')].id = id[h] /\ cache'[Len(cache')].note = note[h]
              /\ \A k \in 1 .. Len(cache') - 1 : cache'[k] = seen[h][k + d]
              /\ Len(added') = Len(added) + 1 /\ Len(added) \in Nat
              /\ DOMAIN added = 1 .. Len(added) /\ DOMAIN added' = 1 .. Len(added) + 1
              /\ added'[Len(added) + 1] = id[h]
              /\ \A k \in 1 .. Len(added) : added'[k] = added[k]
              /\ UNCHANGED <<slot, torn, annotations, taken, raced>>
<1> DEFINE e == [id |-> id[h], note |-> note[h]]
           old == seen[h]
<1>1. /\ Leave(h) /\ pc[h] = "write" /\ UNCHANGED <<tags, annotations, taken, raced>>
      /\ added' = Append(added, id[h])
    BY DEF AddWrite
<1>2. cache' = Evicted(Append(old, e))
    BY DEF AddWrite
<1>3. id[h] \in Ids /\ note[h] \in Notes
    BY <1>1, CacheRoom DEF StageInv, HandlerTypes, Ids
<1>4. e \in Entry /\ e.id = id[h] /\ e.note = note[h]
    BY <1>3 DEF Entry
<1>5. /\ old \in Seq(Entry) /\ Len(old) <= CacheSize
    BY DEF HandlerTypes
<1> HIDE DEF e, old
<1>6. PICK d \in {0, 1} : Added(old, e, cache', d)
    BY <1>2, <1>4, <1>5, EvictedFacts
<1>7. /\ Len(added') = Len(added) + 1 /\ Len(added) \in Nat
      /\ DOMAIN added = 1 .. Len(added) /\ DOMAIN added' = 1 .. Len(added) + 1
      /\ added'[Len(added) + 1] = id[h]
      /\ \A k \in 1 .. Len(added) : added'[k] = added[k]
    BY <1>1, <1>3, AppendFacts DEF SharedTypes
<1>8. Others(h) /\ pc'[h] = "idle" /\ id'[h] = 0
    BY <1>1, LeaveEffect
<1>9. UNCHANGED <<slot, torn, annotations, taken, raced>>
    BY <1>1 DEF tags
<1> WITNESS d \in {0, 1}
<1> QED  BY <1>1, <1>4, <1>6, <1>7, <1>8, <1>9 DEF old, Added

-------------------------------------------------------------------------------
(* What holds whatever races.                                              *)

\* A handler has an id of its own from the answer of a POST on, or that of the
\* entry it took.
LEMMA StageNext ==
    ASSUME TypeOK, StageInv, [Next]_vars
    PROVE  StageInv'
<1>0. HandlerTypes /\ SharedTypes
    BY TypeParts
<1>1. CASE UNCHANGED vars
    BY <1>1 DEF vars, handler, tags, history, StageInv
<1>2. ASSUME NEW h \in Handlers, NEW n \in Notes, Arrive(h, n)
      PROVE  StageInv'
    BY <1>0, <1>2, ArriveEffect DEF StageInv, Others
<1>3. ASSUME NEW h \in Handlers, MergeTags(h)
      PROVE  StageInv'
    BY <1>0, <1>3, MergeEffect DEF StageInv, Others
<1>4. ASSUME NEW h \in Handlers, Find(h)
      PROVE  StageInv'
    BY <1>0, <1>4, FindEffect DEF StageInv, Others
<1>5. ASSUME NEW h \in Handlers, FindNothing(h)
      PROVE  StageInv'
    BY <1>0, <1>5, FindNothingEffect DEF StageInv, Others
<1>6. ASSUME NEW h \in Handlers, Take(h)
      PROVE  StageInv'
    BY <1>0, <1>6, TakeEffect DEF StageInv, Others
<1>7. ASSUME NEW h \in Handlers, TakePanics(h)
      PROVE  StageInv'
    BY <1>0, <1>7, PanicEffect DEF StageInv, Others
<1>8. ASSUME NEW h \in Handlers, PostAnswered(h)
      PROVE  StageInv'
    <2>1. Len(annotations) \in Nat
        BY <1>0 DEF SharedTypes
    <2> QED  BY <1>0, <1>8, <2>1, PostEffect DEF StageInv, Others
<1>9. ASSUME NEW h \in Handlers, PostFails(h)
      PROVE  StageInv'
    BY <1>0, <1>9, PostFailsEffect DEF StageInv, Others
<1>10. ASSUME NEW h \in Handlers, Patch(h)
      PROVE  StageInv'
    BY <1>0, <1>10, PatchEffect DEF StageInv, Others
<1>11. ASSUME NEW h \in Handlers, AddRead(h)
      PROVE  StageInv'
    BY <1>0, <1>11, ReadEffect DEF StageInv, Others
<1>12. ASSUME NEW h \in Handlers, AddWrite(h)
      PROVE  StageInv'
    BY <1>0, <1>12, WriteEffect DEF StageInv, Others
<1> QED  BY <1>1, <1>2, <1>3, <1>4, <1>5, <1>6, <1>7, <1>8, <1>9, <1>10, <1>11, <1>12,
            NextCases

\* The slot keeps a handler's tag until another one writes, and then both are
\* torn.
LEMMA TagNext ==
    ASSUME TypeOK, StageInv, TagInv, [Next]_vars
    PROVE  TagInv'
<1>0. HandlerTypes /\ SharedTypes
    BY TypeParts
<1>1. CASE UNCHANGED vars
    BY <1>1 DEF vars, handler, tags, history, TagInv
<1>2. ASSUME NEW h \in Handlers, NEW n \in Notes, Arrive(h, n)
      PROVE  TagInv'
    <2>1. /\ \A g \in Handlers \ {h} : pc[g] = "merge" => g \in torn'
          /\ torn \subseteq torn'
        BY <1>2 DEF Arrive
    <2> QED  BY <1>0, <1>2, <2>1, ArriveEffect DEF TagInv, Others
<1>3. ASSUME NEW h \in Handlers, MergeTags(h)
      PROVE  TagInv'
    BY <1>0, <1>3, MergeEffect DEF TagInv, Others
<1>4. ASSUME NEW h \in Handlers, Find(h)
      PROVE  TagInv'
    BY <1>0, <1>4, FindEffect DEF TagInv, Others
<1>5. ASSUME NEW h \in Handlers, FindNothing(h)
      PROVE  TagInv'
    BY <1>0, <1>5, FindNothingEffect DEF TagInv, Others
<1>6. ASSUME NEW h \in Handlers, Take(h)
      PROVE  TagInv'
    BY <1>0, <1>6, TakeEffect DEF TagInv, Others
<1>7. ASSUME NEW h \in Handlers, TakePanics(h)
      PROVE  TagInv'
    BY <1>0, <1>7, PanicEffect DEF TagInv, Others
<1>8. ASSUME NEW h \in Handlers, PostAnswered(h)
      PROVE  TagInv'
    BY <1>0, <1>8, PostEffect DEF TagInv, Others
<1>9. ASSUME NEW h \in Handlers, PostFails(h)
      PROVE  TagInv'
    BY <1>0, <1>9, PostFailsEffect DEF TagInv, Others
<1>10. ASSUME NEW h \in Handlers, Patch(h)
      PROVE  TagInv'
    BY <1>0, <1>10, PatchEffect DEF TagInv, Others
<1>11. ASSUME NEW h \in Handlers, AddRead(h)
      PROVE  TagInv'
    BY <1>0, <1>11, ReadEffect DEF TagInv, Others
<1>12. ASSUME NEW h \in Handlers, AddWrite(h)
      PROVE  TagInv'
    BY <1>0, <1>12, WriteEffect DEF TagInv, Others
<1> QED  BY <1>1, <1>2, <1>3, <1>4, <1>5, <1>6, <1>7, <1>8, <1>9, <1>10, <1>11, <1>12,
            NextCases

\* Grafana's ids are new, and each is added by the handler that got it.
LEMMA FreshNext ==
    ASSUME TypeOK, StageInv, FreshInv, [Next]_vars
    PROVE  FreshInv'
<1>0. HandlerTypes /\ SharedTypes
    BY TypeParts
<1>1. CASE UNCHANGED vars
    BY <1>1 DEF vars, handler, tags, history, FreshInv
<1>2. ASSUME NEW h \in Handlers, NEW n \in Notes, Arrive(h, n)
      PROVE  FreshInv'
    BY <1>0, <1>2, ArriveEffect DEF FreshInv, Others
<1>3. ASSUME NEW h \in Handlers, MergeTags(h)
      PROVE  FreshInv'
    BY <1>0, <1>3, MergeEffect DEF FreshInv, Others
<1>4. ASSUME NEW h \in Handlers, Find(h)
      PROVE  FreshInv'
    BY <1>0, <1>4, FindEffect DEF FreshInv, Others
<1>5. ASSUME NEW h \in Handlers, FindNothing(h)
      PROVE  FreshInv'
    BY <1>0, <1>5, FindNothingEffect DEF FreshInv, Others
<1>6. ASSUME NEW h \in Handlers, Take(h)
      PROVE  FreshInv'
    BY <1>0, <1>6, TakeEffect DEF FreshInv, Others
<1>7. ASSUME NEW h \in Handlers, TakePanics(h)
      PROVE  FreshInv'
    BY <1>0, <1>7, PanicEffect DEF FreshInv, Others
<1>8. ASSUME NEW h \in Handlers, PostAnswered(h)
      PROVE  FreshInv'
    <2>1. annotations' = Created(h)
        BY <1>0, <1>8, PostEffect
    <2>2. /\ DOMAIN annotations = 1 .. Len(annotations) /\ Len(annotations) \in Nat
          /\ DOMAIN annotations' = 1 .. Len(annotations) + 1
          /\ \A a \in DOMAIN annotations : annotations'[a] = annotations[a]
          /\ annotations'[Len(annotations) + 1].note = note[h]
          /\ Len(annotations) + 1 \notin DOMAIN annotations
        BY <1>0, <2>1, CreatedEffect
    <2> QED  BY <1>0, <1>8, <2>2, PostEffect DEF FreshInv, Others
<1>9. ASSUME NEW h \in Handlers, PostFails(h)
      PROVE  FreshInv'
    <2>1. /\ DOMAIN annotations \subseteq DOMAIN annotations'
          /\ \A a \in DOMAIN annotations : annotations'[a] = annotations[a]
        <3>1. CASE annotations' = annotations
            BY <3>1
        <3>2. CASE annotations' = Created(h)
            BY <1>0, <3>2, CreatedEffect
        <3> QED  BY <1>0, <1>9, <3>1, <3>2, PostFailsEffect
    <2> QED  BY <1>0, <1>9, <2>1, PostFailsEffect DEF FreshInv, Others
<1>10. ASSUME NEW h \in Handlers, Patch(h)
      PROVE  FreshInv'
    <2>1. /\ DOMAIN annotations' = DOMAIN annotations
          /\ \A a \in DOMAIN annotations : annotations'[a].note = annotations[a].note
        <3>1. CASE annotations' = annotations
            BY <3>1
        <3>2. CASE annotations' = Closed(h)
            BY <1>0, <3>2, ClosedEffect
        <3> QED  BY <1>0, <1>10, <3>1, <3>2, PatchEffect
    <2> QED  BY <1>0, <1>10, <2>1, PatchEffect DEF FreshInv, Others
<1>11. ASSUME NEW h \in Handlers, AddRead(h)
      PROVE  FreshInv'
    BY <1>0, <1>11, ReadEffect DEF FreshInv, Others
<1>12. ASSUME NEW h \in Handlers, AddWrite(h)
      PROVE  FreshInv'
    <2>1. /\ Others(h) /\ pc[h] = "write" /\ pc'[h] = "idle" /\ annotations' = annotations
          /\ DOMAIN added = 1 .. Len(added) /\ DOMAIN added' = 1 .. Len(added) + 1
          /\ added'[Len(added) + 1] = id[h] /\ Len(added) \in Nat
          /\ \A k \in 1 .. Len(added) : added'[k] = added[k]
        BY <1>0, <1>12, WriteEffect
    <2>2. \A k \in DOMAIN added' : k \in DOMAIN added \/ k = Len(added) + 1
        BY <2>1
    <2>3. \A k \in DOMAIN added : added[k] # id[h]
        BY <2>1 DEF FreshInv
    <2>4. id[h] \in DOMAIN annotations
        BY <2>1 DEF FreshInv
    <2>5. \A k \in DOMAIN added' :
            /\ added'[k] \in DOMAIN annotations
            /\ \A j \in DOMAIN added' : added'[j] = added'[k] => j = k
        <3> SUFFICES ASSUME NEW k \in DOMAIN added'
                     PROVE  /\ added'[k] \in DOMAIN annotations
                            /\ \A j \in DOMAIN added' : added'[j] = added'[k] => j = k
            OBVIOUS
        <3>1. CASE k \in DOMAIN added
            BY <2>1, <2>2, <2>3, <3>1 DEF FreshInv
        <3>2. CASE k = Len(added) + 1
            BY <2>1, <2>2, <2>3, <2>4, <3>2
        <3> QED  BY <2>2, <3>1, <3>2
    <2>6. ASSUME NEW g \in Handlers, pc'[g] \in {"add", "write"}
          PROVE  /\ id'[g] \in DOMAIN annotations /\ annotations[id'[g]].note = note'[g]
                 /\ \A k \in DOMAIN added' : added'[k] # id'[g]
                 /\ \A f \in Handlers \ {g} : pc'[f] \in {"add", "write"} => id'[f] # id'[g]
        <3>1. g # h /\ pc[g] = pc'[g] /\ id'[g] = id[g] /\ note'[g] = note[g]
            BY <2>1, <2>6 DEF Others
        <3>2. id[g] # id[h]
            BY <2>1, <2>6, <3>1 DEF FreshInv
        <3>3. \A f \in Handlers : pc'[f] \in {"add", "write"} =>
                 f # h /\ pc[f] = pc'[f] /\ id'[f] = id[f]
            BY <2>1 DEF Others
        <3> QED  BY <2>1, <2>2, <2>6, <3>1, <3>2, <3>3 DEF FreshInv
    <2> QED  BY <2>1, <2>5, <2>6 DEF FreshInv
<1> QED  BY <1>1, <1>2, <1>3, <1>4, <1>5, <1>6, <1>7, <1>8, <1>9, <1>10, <1>11, <1>12,
            NextCases

-------------------------------------------------------------------------------
(* What holds until the first race.                                        *)

\* The slice that a handler read is still there when it writes: whoever comes
\* between is a race.
LEMMA EnteredAlone ==
    ASSUME Enter, ~ raced'
    PROVE  ~ raced /\ \A g \in Handlers : ~ InMatcher(g)
BY DEF Enter, InMatcher

\* One handler at a time is in the matcher, with the slice as it is.
LEMMA AloneNext ==
    ASSUME TypeOK, StageInv, AloneInv, ~ raced', [Next]_vars
    PROVE  AloneInv'
<1>0. HandlerTypes /\ SharedTypes
    BY TypeParts
<1>1. CASE UNCHANGED vars
    BY <1>1 DEF vars, handler, tags, history, AloneInv, InMatcher
<1>2. ASSUME NEW h \in Handlers, NEW n \in Notes, Arrive(h, n)
      PROVE  AloneInv'
    BY <1>0, <1>2, ArriveEffect DEF AloneInv, InMatcher, Others
<1>3. ASSUME NEW h \in Handlers, MergeTags(h)
      PROVE  AloneInv'
    BY <1>0, <1>3, MergeEffect DEF AloneInv, InMatcher, Others
<1>4. ASSUME NEW h \in Handlers, Find(h)
      PROVE  AloneInv'
    <2>1. \A g \in Handlers : ~ InMatcher(g)
        BY <1>0, <1>4, FindEffect, EnteredAlone
    <2>2. EndsRegion(note[h], cache[idx'[h]].note)
        BY <1>0, <1>4, FindEffect DEF FirstMatch, Holds, EndsRegion
    <2> QED  BY <1>0, <1>4, <2>1, <2>2, FindEffect DEF AloneInv, Others, InMatcher
<1>5. ASSUME NEW h \in Handlers, FindNothing(h)
      PROVE  AloneInv'
    <2>1. \A g \in Handlers : ~ InMatcher(g)
        BY <1>0, <1>5, FindNothingEffect, EnteredAlone
    <2> QED  BY <1>0, <1>5, <2>1, FindNothingEffect DEF AloneInv, Others, InMatcher
<1>6. ASSUME NEW h \in Handlers, Take(h)
      PROVE  AloneInv'
    <2>1. /\ Others(h) /\ InMatcher(h) /\ pc'[h] \notin {"take", "write"}
        BY <1>0, <1>6, TakeEffect DEF InMatcher
    <2>2. \A g \in Handlers : pc'[g] \notin {"take", "write"}
        BY <2>1 DEF AloneInv, Others, InMatcher
    <2> QED  BY <2>2 DEF AloneInv, InMatcher
<1>7. ASSUME NEW h \in Handlers, TakePanics(h)
      PROVE  AloneInv'
    BY <1>0, <1>7, PanicEffect DEF AloneInv, InMatcher, Others
<1>8. ASSUME NEW h \in Handlers, PostAnswered(h)
      PROVE  AloneInv'
    BY <1>0, <1>8, PostEffect DEF AloneInv, InMatcher, Others
<1>9. ASSUME NEW h \in Handlers, PostFails(h)
      PROVE  AloneInv'
    BY <1>0, <1>9, PostFailsEffect DEF AloneInv, InMatcher, Others
<1>10. ASSUME NEW h \in Handlers, Patch(h)
      PROVE  AloneInv'
    BY <1>0, <1>10, PatchEffect DEF AloneInv, InMatcher, Others
<1>11. ASSUME NEW h \in Handlers, AddRead(h)
      PROVE  AloneInv'
    <2>1. \A g \in Handlers : ~ InMatcher(g)
        BY <1>0, <1>11, ReadEffect, EnteredAlone
    <2> QED  BY <1>0, <1>11, <2>1, ReadEffect DEF AloneInv, Others, InMatcher
<1>12. ASSUME NEW h \in Handlers, AddWrite(h)
      PROVE  AloneInv'
    <2>1. /\ Others(h) /\ InMatcher(h) /\ pc'[h] \notin {"take", "write"}
        BY <1>0, <1>12, WriteEffect DEF InMatcher
    <2>2. \A g \in Handlers : pc'[g] \notin {"take", "write"}
        BY <2>1 DEF AloneInv, Others, InMatcher
    <2> QED  BY <2>2 DEF AloneInv, InMatcher
<1> QED  BY <1>1, <1>2, <1>3, <1>4, <1>5, <1>6, <1>7, <1>8, <1>9, <1>10, <1>11, <1>12,
            NextCases

\* What is in the cache was added, and at least as many later as stand behind it.
LEMMA KnownNext ==
    ASSUME TypeOK, StageInv, AloneInv, KnownInv, [Next]_vars
    PROVE  KnownInv'
<1>0. HandlerTypes /\ SharedTypes
    BY TypeParts
<1>1. CASE UNCHANGED vars
    BY <1>1 DEF vars, handler, tags, history, KnownInv
<1>2. ASSUME NEW h \in Handlers, NEW n \in Notes, Arrive(h, n)
      PROVE  KnownInv'
    BY <1>0, <1>2, ArriveEffect DEF KnownInv, Others
<1>3. ASSUME NEW h \in Handlers, MergeTags(h)
      PROVE  KnownInv'
    BY <1>0, <1>3, MergeEffect DEF KnownInv, Others
<1>4. ASSUME NEW h \in Handlers, Find(h)
      PROVE  KnownInv'
    BY <1>0, <1>4, FindEffect DEF KnownInv, Others
<1>5. ASSUME NEW h \in Handlers, FindNothing(h)
      PROVE  KnownInv'
    BY <1>0, <1>5, FindNothingEffect DEF KnownInv, Others
<1>6. ASSUME NEW h \in Handlers, Take(h)
      PROVE  KnownInv'
    <2>1. /\ added' = added /\ Len(cache') = Len(cache) - 1 /\ Len(cache) \in Nat
          /\ DOMAIN cache = 1 .. Len(cache) /\ DOMAIN cache' = 1 .. Len(cache) - 1
          /\ idx[h] \in DOMAIN cache
          /\ \A j \in DOMAIN cache' :
                cache'[j] = IF j < idx[h] THEN cache[j] ELSE cache[j + 1]
        BY <1>0, <1>6, TakeEffect
    <2>2. DOMAIN added = 1 .. Len(added) /\ Len(added) \in Nat
        BY <1>0 DEF SharedTypes
    <2>3. ASSUME NEW k \in DOMAIN cache'
          PROVE  \E p \in DOMAIN added :
                    added[p] = cache'[k].id /\ p + (Len(cache') - k) <= Len(added)
        <3>1. CASE k < idx[h]
            <4>1. k \in DOMAIN cache /\ k \in Nat
                BY <2>1
            <4>0. cache'[k] = cache[k]
                BY <2>1, <3>1
            <4>2. PICK p \in DOMAIN added :
                     added[p] = cache[k].id /\ p + (Len(cache) - k) <= Len(added)
                BY <4>1 DEF KnownInv
            <4>3. p + (Len(cache') - k) <= Len(added)
                BY <2>1, <2>2, <4>1, <4>2
            <4> QED  BY <4>0, <4>2, <4>3
        <3>2. CASE ~ (k < idx[h])
            <4>1. k + 1 \in DOMAIN cache /\ cache'[k] = cache[k + 1] /\ k \in Nat
                BY <2>1, <3>2
            <4>2. PICK p \in DOMAIN added :
                     added[p] = cache[k + 1].id /\ p + (Len(cache) - (k + 1)) <= Len(added)
                BY <4>1 DEF KnownInv
            <4>3. p + (Len(cache') - k) <= Len(added)
                BY <2>1, <2>2, <4>1, <4>2
            <4> QED  BY <4>1, <4>2, <4>3
        <3> QED  BY <3>1, <3>2
    <2> QED  BY <2>1, <2>3 DEF KnownInv
<1>7. ASSUME NEW h \in Handlers, TakePanics(h)
      PROVE  KnownInv'
    BY <1>0, <1>7, PanicEffect DEF KnownInv, Others
<1>8. ASSUME NEW h \in Handlers, PostAnswered(h)
      PROVE  KnownInv'
    BY <1>0, <1>8, PostEffect DEF KnownInv, Others
<1>9. ASSUME NEW h \in Handlers, PostFails(h)
      PROVE  KnownInv'
    BY <1>0, <1>9, PostFailsEffect DEF KnownInv, Others
<1>10. ASSUME NEW h \in Handlers, Patch(h)
      PROVE  KnownInv'
    BY <1>0, <1>10, PatchEffect DEF KnownInv, Others
<1>11. ASSUME NEW h \in Handlers, AddRead(h)
      PROVE  KnownInv'
    BY <1>0, <1>11, ReadEffect DEF KnownInv, Others
<1>12. ASSUME NEW h \in Handlers, AddWrite(h)
      PROVE  KnownInv'
    <2>1. PICK d \in {0, 1} :
          /\ pc[h] = "write"
          /\ Len(cache') = Len(seen[h]) + 1 - d /\ Len(seen[h]) \in Nat
          /\ DOMAIN seen[h] = 1 .. Len(seen[h]) /\ DOMAIN cache' = 1 .. Len(cache')
          /\ Len(cache') \in Nat /\ Len(cache') >= 1 /\ cache'[Len(cache')].id = id[h]
          /\ \A k \in 1 .. Len(cache') - 1 : cache'[k] = seen[h][k + d]
          /\ Len(added') = Len(added) + 1 /\ Len(added) \in Nat
          /\ DOMAIN added = 1 .. Len(added) /\ DOMAIN added' = 1 .. Len(added) + 1
          /\ added'[Len(added) + 1] = id[h]
          /\ \A k \in 1 .. Len(added) : added'[k] = added[k]
        BY <1>0, <1>12, WriteEffect
    <2>2. seen[h] = cache
        BY <2>1 DEF AloneInv
    <2>3. ASSUME NEW k \in DOMAIN cache'
          PROVE  \E p \in DOMAIN added' :
                    added'[p] = cache'[k].id /\ p + (Len(cache') - k) <= Len(added')
        <3>1. CASE k = Len(cache')
            <4>1. Len(added) + 1 \in DOMAIN added' /\ added'[Len(added) + 1] = cache'[k].id
                BY <2>1, <3>1
            <4>2. Len(added) + 1 + (Len(cache') - k) <= Len(added')
                BY <2>1, <3>1
            <4> QED  BY <4>1, <4>2
        <3>2. CASE k # Len(cache')
            <4>1. /\ k \in 1 .. Len(cache') - 1 /\ k + d \in DOMAIN cache /\ k \in Nat
                  /\ d \in Nat /\ Len(cache') = Len(cache) + 1 - d /\ Len(cache) \in Nat
                BY <2>1, <2>2, <3>2
            <4>2. cache'[k] = cache[k + d]
                BY <2>1, <2>2, <4>1
            <4>3. PICK p \in DOMAIN added :
                     added[p] = cache[k + d].id /\ p + (Len(cache) - (k + d)) <= Len(added)
                BY <4>1 DEF KnownInv
            <4>4. p \in DOMAIN added' /\ added'[p] = added[p] /\ p \in Nat
                BY <2>1, <4>3
            <4>5. p + (Len(cache') - k) <= Len(added')
                <5>1. Len(added') = Len(added) + 1 /\ Len(added) \in Nat
                    BY <2>1
                <5>2. p + (Len(cache) - (k + d)) <= Len(added)
                    BY <4>3
                <5>3. Len(cache') = Len(cache) + 1 - d
                    BY <4>1
                <5>4. p \in Nat /\ k \in Nat /\ d \in Nat /\ Len(cache) \in Nat
                    BY <4>1, <4>4
                <5> QED  BY <5>1, <5>2, <5>3, <5>4
            <4> QED  BY <4>2, <4>3, <4>4, <4>5
        <3> QED  BY <3>1, <3>2
    <2> QED  BY <2>3 DEF KnownInv
<1> QED  BY <1>1, <1>2, <1>3, <1>4, <1>5, <1>6, <1>7, <1>8, <1>9, <1>10, <1>11, <1>12,
            NextCases

\* An id is taken from the cache when it is sent, and put there by one Add only.
LEMMA OnceNext ==
    ASSUME TypeOK, StageInv, FreshInv, AloneInv, KnownInv, OnceInv, [Next]_vars
    PROVE  OnceInv'
<1>0. HandlerTypes /\ SharedTypes
    BY TypeParts
<1>1. CASE UNCHANGED vars
    BY <1>1 DEF vars, handler, tags, history, OnceInv
<1>2. ASSUME NEW h \in Handlers, NEW n \in Notes, Arrive(h, n)
      PROVE  OnceInv'
    BY <1>0, <1>2, ArriveEffect DEF OnceInv, Others
<1>3. ASSUME NEW h \in Handlers, MergeTags(h)
      PROVE  OnceInv'
    BY <1>0, <1>3, MergeEffect DEF OnceInv, Others
<1>4. ASSUME NEW h \in Handlers, Find(h)
      PROVE  OnceInv'
    BY <1>0, <1>4, FindEffect DEF OnceInv, Others
<1>5. ASSUME NEW h \in Handlers, FindNothing(h)
      PROVE  OnceInv'
    <2>1. Others(h) /\ id'[h] = 0 /\ UNCHANGED <<cache, added>>
        BY <1>0, <1>5, FindNothingEffect DEF StageInv
    <2> QED  BY <2>1 DEF OnceInv, Others
<1>6. ASSUME NEW h \in Handlers, Take(h)
      PROVE  OnceInv'
    <2>1. /\ Others(h) /\ pc[h] = "take" /\ id'[h] = cache[idx[h]].id /\ added' = added
          /\ idx[h] \in DOMAIN cache /\ Len(cache) \in Nat
          /\ DOMAIN cache = 1 .. Len(cache) /\ DOMAIN cache' = 1 .. Len(cache) - 1
          /\ \A j \in DOMAIN cache' :
                cache'[j] = IF j < idx[h] THEN cache[j] ELSE cache[j + 1]
        BY <1>0, <1>6, TakeEffect
    <2>2. \A j \in DOMAIN cache' :
            \E m \in DOMAIN cache : /\ m = IF j < idx[h] THEN j ELSE j + 1
                                   /\ m # idx[h] /\ cache'[j] = cache[m]
        <3> SUFFICES ASSUME NEW j \in DOMAIN cache'
                     PROVE  \E m \in DOMAIN cache :
                                /\ m = IF j < idx[h] THEN j ELSE j + 1
                                /\ m # idx[h] /\ cache'[j] = cache[m]
            OBVIOUS
        <3>1. CASE j < idx[h]
            <4>1. j \in DOMAIN cache /\ j # idx[h]
                BY <2>1, <3>1
            <4> QED  BY <2>1, <3>1, <4>1
        <3>2. CASE ~ (j < idx[h])
            <4>1. j + 1 \in DOMAIN cache /\ j + 1 # idx[h]
                BY <2>1, <3>2
            <4> QED  BY <2>1, <3>2, <4>1
        <3> QED  BY <3>1, <3>2
    <2>3. ASSUME NEW j \in DOMAIN cache', NEW k \in DOMAIN cache',
                 cache'[j].id = cache'[k].id
          PROVE  j = k
        <3>1. (IF j < idx[h] THEN j ELSE j + 1) = (IF k < idx[h] THEN k ELSE k + 1)
            BY <2>2, <2>3 DEF OnceInv
        <3>2. j \in Nat /\ k \in Nat /\ idx[h] \in Nat
            BY <2>1
        <3> QED  BY <3>1, <3>2
    <2>4. \A j \in DOMAIN cache' : \E m \in DOMAIN cache \ {idx[h]} : cache'[j] = cache[m]
        BY <2>2
    <2>5. \E p \in DOMAIN added : added[p] = cache[idx[h]].id
        BY <2>1 DEF KnownInv
    <2>6. cache[idx[h]].id # 0
        BY <1>0, <2>1, EntryFields DEF Ids
    <2>7. \A k \in DOMAIN cache' : cache'[k].id # id'[h]
        BY <2>1, <2>4 DEF OnceInv
    <2>8. ASSUME NEW g \in Handlers \ {h}, pc[g] = "send"
          PROVE  id[g] # cache[idx[h]].id
        BY <2>1, <2>6, <2>8 DEF OnceInv
    <2>9. ASSUME NEW g \in Handlers, pc'[g] = "send", id'[g] # 0
          PROVE  /\ \E p \in DOMAIN added' : added'[p] = id'[g]
                 /\ \A k \in DOMAIN cache' : cache'[k].id # id'[g]
                 /\ \A f \in Handlers \ {g} : pc'[f] = "send" => id'[f] # id'[g]
        <3>1. CASE g = h
            <4>1. \A f \in Handlers \ {h} : pc'[f] = "send" => id'[f] # id'[h]
                BY <2>1, <2>8 DEF Others
            <4> QED  BY <2>1, <2>5, <2>7, <3>1, <4>1
        <3>2. CASE g # h
            <4>1. pc[g] = "send" /\ id'[g] = id[g] /\ id[g] # 0
                BY <2>1, <2>9, <3>2 DEF Others
            <4>2. /\ \E p \in DOMAIN added' : added'[p] = id'[g]
                  /\ \A k \in DOMAIN cache' : cache'[k].id # id'[g]
                BY <2>1, <2>4, <4>1 DEF OnceInv
            <4>3. ASSUME NEW f \in Handlers \ {g}, pc'[f] = "send" PROVE id'[f] # id'[g]
                <5>1. CASE f = h
                    BY <2>1, <2>8, <3>2, <4>1, <5>1
                <5>2. CASE f # h
                    BY <2>1, <4>1, <4>3, <5>2 DEF Others, OnceInv
                <5> QED  BY <5>1, <5>2
            <4> QED  BY <4>2, <4>3
        <3> QED  BY <3>1, <3>2
    <2> QED  BY <2>3, <2>9 DEF OnceInv
<1>7. ASSUME NEW h \in Handlers, TakePanics(h)
      PROVE  OnceInv'
    BY <1>0, <1>7, PanicEffect DEF OnceInv, Others
<1>8. ASSUME NEW h \in Handlers, PostAnswered(h)
      PROVE  OnceInv'
    BY <1>0, <1>8, PostEffect DEF OnceInv, Others
<1>9. ASSUME NEW h \in Handlers, PostFails(h)
      PROVE  OnceInv'
    BY <1>0, <1>9, PostFailsEffect DEF OnceInv, Others
<1>10. ASSUME NEW h \in Handlers, Patch(h)
      PROVE  OnceInv'
    BY <1>0, <1>10, PatchEffect DEF OnceInv, Others
<1>11. ASSUME NEW h \in Handlers, AddRead(h)
      PROVE  OnceInv'
    BY <1>0, <1>11, ReadEffect DEF OnceInv, Others
<1>12. ASSUME NEW h \in Handlers, AddWrite(h)
      PROVE  OnceInv'
    <2>1. PICK d \in {0, 1} :
          /\ Others(h) /\ pc[h] = "write" /\ pc'[h] = "idle"
          /\ Len(cache') = Len(seen[h]) + 1 - d /\ Len(seen[h]) \in Nat
          /\ DOMAIN seen[h] = 1 .. Len(seen[h]) /\ DOMAIN cache' = 1 .. Len(cache')
          /\ Len(cache') \in Nat /\ Len(cache') >= 1 /\ cache'[Len(cache')].id = id[h]
          /\ \A k \in 1 .. Len(cache') - 1 : cache'[k] = seen[h][k + d]
          /\ DOMAIN added = 1 .. Len(added) /\ DOMAIN added' = 1 .. Len(added) + 1
          /\ Len(added) \in Nat
          /\ \A k \in 1 .. Len(added) : added'[k] = added[k]
        BY <1>0, <1>12, WriteEffect
    <2>2. seen[h] = cache
        BY <2>1 DEF AloneInv
    <2>3. \A k \in DOMAIN cache' : k # Len(cache') =>
             k + d \in DOMAIN cache /\ cache'[k] = cache[k + d] /\ k \in Nat
        BY <2>1, <2>2
    <2>4. \A k \in DOMAIN added : added[k] # id[h]
        BY <2>1 DEF FreshInv
    <2>5. \A k \in DOMAIN cache : cache[k].id # id[h]
        BY <2>4 DEF KnownInv
    <2>6. ASSUME NEW j \in DOMAIN cache', NEW k \in DOMAIN cache',
                 cache'[j].id = cache'[k].id
          PROVE  j = k
        <3>1. CASE j # Len(cache') /\ k # Len(cache')
            <4>1. j + d = k + d /\ j \in Nat /\ k \in Nat /\ d \in Nat
                BY <2>3, <2>6, <3>1 DEF OnceInv
            <4> QED  BY <4>1
        <3>2. CASE j = Len(cache') \/ k = Len(cache')
            BY <2>1, <2>3, <2>5, <2>6, <3>2
        <3> QED  BY <3>1, <3>2
    <2>7. ASSUME NEW g \in Handlers, pc'[g] = "send", id'[g] # 0
          PROVE  /\ \E p \in DOMAIN added' : added'[p] = id'[g]
                 /\ \A k \in DOMAIN cache' : cache'[k].id # id'[g]
                 /\ \A f \in Handlers \ {g} : pc'[f] = "send" => id'[f] # id'[g]
        <3>1. g # h /\ pc[g] = "send" /\ id'[g] = id[g] /\ id[g] # 0
            BY <2>1, <2>7 DEF Others
        <3>2. PICK p \in DOMAIN added : added[p] = id[g]
            BY <3>1 DEF OnceInv
        <3>3. p \in DOMAIN added' /\ added'[p] = id'[g]
            BY <2>1, <3>1, <3>2
        <3>4. id[g] # id[h]
            BY <2>4, <3>2
        <3>5. ASSUME NEW k \in DOMAIN cache' PROVE cache'[k].id # id'[g]
            <4>1. CASE k = Len(cache')
                BY <2>1, <3>1, <3>4, <4>1
            <4>2. CASE k # Len(cache')
                BY <2>3, <3>1, <4>2 DEF OnceInv
            <4> QED  BY <4>1, <4>2
        <3>6. ASSUME NEW f \in Handlers \ {g}, pc'[f] = "send" PROVE id'[f] # id'[g]
            <4>1. Others(h) /\ pc'[h] = "idle"
                BY <2>1
            <4>2. f # h /\ pc[f] = "send" /\ id'[f] = id[f]
                BY <3>6, <4>1 DEF Others
            <4> QED  BY <3>1, <4>2 DEF OnceInv
        <3> QED  BY <3>3, <3>5, <3>6
    <2> QED  BY <2>6, <2>7 DEF OnceInv
<1> QED  BY <1>1, <1>2, <1>3, <1>4, <1>5, <1>6, <1>7, <1>8, <1>9, <1>10, <1>11, <1>12,
            NextCases

\* A region ends only when the PATCH of the handler that took its id is sent, and
\* then its id is nowhere else.
LEMMA OpenNext ==
    ASSUME TypeOK, StageInv, FreshInv, AloneInv, OnceInv, OpenInv, [Next]_vars
    PROVE  OpenInv'
<1>0. HandlerTypes /\ SharedTypes
    BY TypeParts
<1>1. CASE UNCHANGED vars
    BY <1>1 DEF vars, handler, tags, history, OpenInv, IsOpen
<1>2. ASSUME NEW h \in Handlers, NEW n \in Notes, Arrive(h, n)
      PROVE  OpenInv'
    BY <1>0, <1>2, ArriveEffect DEF OpenInv, IsOpen, Others
<1>3. ASSUME NEW h \in Handlers, MergeTags(h)
      PROVE  OpenInv'
    BY <1>0, <1>3, MergeEffect DEF OpenInv, IsOpen, Others
<1>4. ASSUME NEW h \in Handlers, Find(h)
      PROVE  OpenInv'
    BY <1>0, <1>4, FindEffect DEF OpenInv, IsOpen, Others
<1>5. ASSUME NEW h \in Handlers, FindNothing(h)
      PROVE  OpenInv'
    <2>1. Others(h) /\ pc'[h] = "send" /\ id'[h] = 0 /\ UNCHANGED <<cache, annotations>>
        BY <1>0, <1>5, FindNothingEffect DEF StageInv
    <2> QED  BY <2>1 DEF OpenInv, IsOpen, Others
<1>6. ASSUME NEW h \in Handlers, Take(h)
      PROVE  OpenInv'
    <2>1. /\ Others(h) /\ pc[h] = "take" /\ pc'[h] = "send" /\ note'[h] = note[h]
          /\ id'[h] = cache[idx[h]].id /\ annotations' = annotations
          /\ idx[h] \in DOMAIN cache
        BY <1>0, <1>6, TakeEffect
    <2>2. \A j \in DOMAIN cache' : \E m \in DOMAIN cache : cache'[j] = cache[m]
        <3>1. /\ DOMAIN cache = 1 .. Len(cache) /\ DOMAIN cache' = 1 .. Len(cache) - 1
              /\ Len(cache) \in Nat
              /\ \A j \in DOMAIN cache' :
                    cache'[j] = IF j < idx[h] THEN cache[j] ELSE cache[j + 1]
            BY <1>0, <1>6, TakeEffect
        <3>2. \A j \in DOMAIN cache' : j \in DOMAIN cache /\ j + 1 \in DOMAIN cache
            BY <3>1
        <3> QED  BY <3>1, <3>2
    <2>3. /\ cache[idx[h]].note \in Notes
          /\ EndsRegion(note[h], cache[idx[h]].note)
          /\ IsOpen(cache[idx[h]].id, cache[idx[h]].note)
        BY <1>0, <2>1, EntryFields DEF AloneInv, OpenInv
    <2>4. \A a, start : IsOpen(a, start) => IsOpen(a, start)'
        BY <2>1 DEF IsOpen
    <2>5. \A k \in DOMAIN cache' : IsOpen(cache[k].id, cache[k].note)'
        BY <2>1, <2>2 DEF OpenInv, IsOpen
    <2>6. ASSUME NEW g \in Handlers
          PROVE  /\ pc'[g] \in {"add", "write"} => IsOpen(id[g], note[g])'
                 /\ pc'[g] = "send" /\ id'[g] # 0 =>
                      \E start \in Notes :
                         EndsRegion(note'[g], start) /\ IsOpen(id[g], start)'
        <3>1. CASE g = h
            BY <2>1, <2>3, <3>1 DEF IsOpen
        <3>2. CASE g # h
            BY <2>1, <3>2 DEF OpenInv, Others, IsOpen
        <3> QED  BY <3>1, <3>2
    <2> QED  BY <2>5, <2>6 DEF OpenInv
<1>7. ASSUME NEW h \in Handlers, TakePanics(h)
      PROVE  OpenInv'
    BY <1>0, <1>7, PanicEffect DEF OpenInv, IsOpen, Others
<1>8. ASSUME NEW h \in Handlers, PostAnswered(h)
      PROVE  OpenInv'
    <2>1. /\ Others(h) /\ pc'[h] = "add" /\ note'[h] = note[h] /\ cache' = cache
          /\ id'[h] = Len(annotations) + 1 /\ annotations' = Created(h)
        BY <1>0, <1>8, PostEffect
    <2>2. \A a \in DOMAIN annotations :
             a \in DOMAIN annotations' /\ annotations'[a] = annotations[a]
        BY <1>0, <2>1, CreatedEffect
    <2>3. /\ id'[h] \in DOMAIN annotations' /\ annotations'[id'[h]].note = note'[h]
          /\ annotations'[id'[h]].ends = <<>>
        BY <1>0, <2>1, CreatedEffect
    <2> QED  BY <2>1, <2>2, <2>3 DEF OpenInv, IsOpen, Others
<1>9. ASSUME NEW h \in Handlers, PostFails(h)
      PROVE  OpenInv'
    <2>1. \A a \in DOMAIN annotations :
             a \in DOMAIN annotations' /\ annotations'[a] = annotations[a]
        <3>1. CASE annotations' = annotations
            BY <3>1
        <3>2. CASE annotations' = Created(h)
            BY <1>0, <3>2, CreatedEffect
        <3> QED  BY <1>0, <1>9, <3>1, <3>2, PostFailsEffect
    <2>2. Others(h) /\ pc'[h] = "idle" /\ cache' = cache
        BY <1>0, <1>9, PostFailsEffect
    <2> QED  BY <2>1, <2>2 DEF OpenInv, IsOpen, Others
<1>10. ASSUME NEW h \in Handlers, Patch(h)
      PROVE  OpenInv'
    <2>1. /\ Others(h) /\ pc[h] = "send" /\ pc'[h] = "idle" /\ cache' = cache /\ id[h] # 0
        BY <1>0, <1>10, PatchEffect
    <2>2. /\ DOMAIN annotations' = DOMAIN annotations
          /\ \A a \in DOMAIN annotations : a # id[h] => annotations'[a] = annotations[a]
        <3>1. CASE annotations' = annotations
            BY <3>1
        <3>2. CASE annotations' = Closed(h)
            BY <1>0, <3>2, ClosedEffect
        <3> QED  BY <1>0, <1>10, <3>1, <3>2, PatchEffect
    <2>3. \A k \in DOMAIN cache : cache[k].id # id[h]
        BY <2>1 DEF OnceInv
    <2>4. \A g \in Handlers \ {h} : pc[g] = "send" => id[g] # id[h]
        BY <2>1 DEF OnceInv
    <2>5. \A g \in Handlers \ {h} : pc[g] \in {"add", "write"} => id[g] # id[h]
        BY <2>1 DEF OnceInv, FreshInv
    <2>6. \A k \in DOMAIN cache' : IsOpen(cache[k].id, cache[k].note)'
        BY <2>1, <2>2, <2>3 DEF OpenInv, IsOpen
    <2>7. ASSUME NEW g \in Handlers \ {h}
          PROVE  /\ pc'[g] \in {"add", "write"} => IsOpen(id[g], note[g])'
                 /\ pc'[g] = "send" /\ id'[g] # 0 =>
                      \E start \in Notes :
                         EndsRegion(note'[g], start) /\ IsOpen(id[g], start)'
        BY <2>1, <2>2, <2>4, <2>5 DEF OpenInv, Others, IsOpen
    <2> QED  BY <2>1, <2>6, <2>7 DEF OpenInv
<1>11. ASSUME NEW h \in Handlers, AddRead(h)
      PROVE  OpenInv'
    BY <1>0, <1>11, ReadEffect DEF OpenInv, IsOpen, Others
<1>12. ASSUME NEW h \in Handlers, AddWrite(h)
      PROVE  OpenInv'
    <2>1. PICK d \in {0, 1} :
          /\ Others(h) /\ pc[h] = "write" /\ pc'[h] = "idle" /\ annotations' = annotations
          /\ Len(cache') = Len(seen[h]) + 1 - d /\ Len(seen[h]) \in Nat
          /\ DOMAIN seen[h] = 1 .. Len(seen[h]) /\ DOMAIN cache' = 1 .. Len(cache')
          /\ Len(cache') \in Nat /\ Len(cache') >= 1
          /\ cache'[Len(cache')].id = id[h] /\ cache'[Len(cache')].note = note[h]
          /\ \A k \in 1 .. Len(cache') - 1 : cache'[k] = seen[h][k + d]
        BY <1>0, <1>12, WriteEffect
    <2>2. seen[h] = cache
        BY <2>1 DEF AloneInv
    <2>3. \A k \in DOMAIN cache' : k # Len(cache') =>
             k + d \in DOMAIN cache /\ cache'[k] = cache[k + d]
        BY <2>1, <2>2
    <2>4. ASSUME NEW k \in DOMAIN cache'
          PROVE  IsOpen(cache[k].id, cache[k].note)'
        <3>1. CASE k = Len(cache')
            BY <2>1, <3>1 DEF OpenInv, IsOpen
        <3>2. CASE k # Len(cache')
            BY <2>1, <2>3, <3>2 DEF OpenInv, IsOpen
        <3> QED  BY <3>1, <3>2
    <2>5. ASSUME NEW g \in Handlers
          PROVE  /\ pc'[g] \in {"add", "write"} => IsOpen(id[g], note[g])'
                 /\ pc'[g] = "send" /\ id'[g] # 0 =>
                      \E start \in Notes :
                         EndsRegion(note'[g], start) /\ IsOpen(id[g], start)'
        <3>1. Others(h) /\ pc'[h] = "idle" /\ annotations' = annotations
            BY <2>1
        <3> QED  BY <3>1 DEF OpenInv, Others, IsOpen
    <2> QED  BY <2>4, <2>5 DEF OpenInv
<1> QED  BY <1>1, <1>2, <1>3, <1>4, <1>5, <1>6, <1>7, <1>8, <1>9, <1>10, <1>11, <1>12,
            NextCases

\* An annotation just created has no end.
LEMMA CreatedEnds == Len(<<>>) = 0 /\ DOMAIN <<>> = {}
OBVIOUS

\* A region gets its end while it is open, and from a note that rewrites to its
\* text.
LEMMA EndNext ==
    ASSUME TypeOK, StageInv, OpenInv, EndInv, [Next]_vars
    PROVE  EndInv'
<1>0. HandlerTypes /\ SharedTypes
    BY TypeParts
<1>1. CASE UNCHANGED vars
    BY <1>1 DEF vars, handler, tags, history, EndInv
<1>2. ASSUME NEW h \in Handlers, NEW n \in Notes, Arrive(h, n)
      PROVE  EndInv'
    BY <1>0, <1>2, ArriveEffect DEF EndInv, Others
<1>3. ASSUME NEW h \in Handlers, MergeTags(h)
      PROVE  EndInv'
    BY <1>0, <1>3, MergeEffect DEF EndInv, Others
<1>4. ASSUME NEW h \in Handlers, Find(h)
      PROVE  EndInv'
    BY <1>0, <1>4, FindEffect DEF EndInv, Others
<1>5. ASSUME NEW h \in Handlers, FindNothing(h)
      PROVE  EndInv'
    BY <1>0, <1>5, FindNothingEffect DEF EndInv, Others
<1>6. ASSUME NEW h \in Handlers, Take(h)
      PROVE  EndInv'
    BY <1>0, <1>6, TakeEffect DEF EndInv, Others
<1>7. ASSUME NEW h \in Handlers, TakePanics(h)
      PROVE  EndInv'
    BY <1>0, <1>7, PanicEffect DEF EndInv, Others
<1>8. ASSUME NEW h \in Handlers, PostAnswered(h)
      PROVE  EndInv'
    <2>1. annotations' = Created(h)
        BY <1>0, <1>8, PostEffect
    <2>2. /\ DOMAIN annotations = 1 .. Len(annotations) /\ Len(annotations) \in Nat
          /\ DOMAIN annotations' = 1 .. Len(annotations) + 1
          /\ \A a \in DOMAIN annotations : annotations'[a] = annotations[a]
          /\ annotations'[Len(annotations) + 1].ends = <<>>
        BY <1>0, <2>1, CreatedEffect
    <2> QED  BY <2>2, CreatedEnds DEF EndInv
<1>9. ASSUME NEW h \in Handlers, PostFails(h)
      PROVE  EndInv'
    <2>1. CASE annotations' = annotations
        BY <2>1 DEF EndInv
    <2>2. CASE annotations' = Created(h)
        <3>1. /\ DOMAIN annotations = 1 .. Len(annotations) /\ Len(annotations) \in Nat
              /\ DOMAIN annotations' = 1 .. Len(annotations) + 1
              /\ \A a \in DOMAIN annotations : annotations'[a] = annotations[a]
              /\ annotations'[Len(annotations) + 1].ends = <<>>
            BY <1>0, <2>2, CreatedEffect
        <3> QED  BY <3>1, CreatedEnds DEF EndInv
    <2> QED  BY <1>0, <1>9, <2>1, <2>2, PostFailsEffect
<1>10. ASSUME NEW h \in Handlers, Patch(h)
      PROVE  EndInv'
    <2>1. CASE annotations' = annotations
        BY <2>1 DEF EndInv
    <2>2. CASE annotations' = Closed(h)
        <3>1. /\ DOMAIN annotations' = DOMAIN annotations
              /\ \A a \in DOMAIN annotations :
                    /\ annotations'[a].note = annotations[a].note
                    /\ a # id[h] => annotations'[a] = annotations[a]
                    /\ a = id[h] =>
                          annotations'[a].ends = Append(annotations[a].ends, note[h])
            BY <1>0, <2>2, ClosedEffect
        <3>2. /\ annotations[id[h]].ends = <<>>
              /\ EndsRegion(note[h], annotations[id[h]].note)
            BY <1>0, <1>10, PatchEffect DEF OpenInv, IsOpen
        <3>3. LET s == Append(<<>>, note[h])
              IN Len(s) = 1 /\ DOMAIN s = {1} /\ s[1] = note[h]
            OBVIOUS
        <3>4. ASSUME NEW a \in DOMAIN annotations
              PROVE  /\ Len(annotations'[a].ends) <= 1
                     /\ \A e \in DOMAIN annotations'[a].ends :
                            EndsRegion(annotations'[a].ends[e], annotations'[a].note)
            <4>1. CASE a = id[h]
                BY <3>1, <3>2, <3>3, <4>1
            <4>2. CASE a # id[h]
                BY <3>1, <4>2 DEF EndInv
            <4> QED  BY <4>1, <4>2
        <3> QED  BY <3>1, <3>4 DEF EndInv
    <2> QED  BY <1>0, <1>10, <2>1, <2>2, PatchEffect
<1>11. ASSUME NEW h \in Handlers, AddRead(h)
      PROVE  EndInv'
    BY <1>0, <1>11, ReadEffect DEF EndInv, Others
<1>12. ASSUME NEW h \in Handlers, AddWrite(h)
      PROVE  EndInv'
    BY <1>0, <1>12, WriteEffect DEF EndInv, Others
<1> QED  BY <1>1, <1>2, <1>3, <1>4, <1>5, <1>6, <1>7, <1>8, <1>9, <1>10, <1>11, <1>12,
            NextCases

\* An entry is dropped only when as many others as the cache holds were added
\* after it.
LEMMA RecentNext ==
    ASSUME TypeOK, StageInv, FreshInv, AloneInv, KnownInv, RecentInv, [Next]_vars
    PROVE  RecentInv'
<1>0. HandlerTypes /\ SharedTypes
    BY TypeParts
<1>1. CASE UNCHANGED vars
    BY <1>1 DEF vars, handler, tags, history, RecentInv
<1>2. ASSUME NEW h \in Handlers, NEW n \in Notes, Arrive(h, n)
      PROVE  RecentInv'
    BY <1>0, <1>2, ArriveEffect DEF RecentInv, Others
<1>3. ASSUME NEW h \in Handlers, MergeTags(h)
      PROVE  RecentInv'
    BY <1>0, <1>3, MergeEffect DEF RecentInv, Others
<1>4. ASSUME NEW h \in Handlers, Find(h)
      PROVE  RecentInv'
    BY <1>0, <1>4, FindEffect DEF RecentInv, Others
<1>5. ASSUME NEW h \in Handlers, FindNothing(h)
      PROVE  RecentInv'
    BY <1>0, <1>5, FindNothingEffect DEF RecentInv, Others
<1>6. ASSUME NEW h \in Handlers, Take(h)
      PROVE  RecentInv'
    <2>1. /\ added' = added /\ taken' = taken \cup {cache[idx[h]].id}
          /\ idx[h] \in DOMAIN cache /\ Len(cache) \in Nat
          /\ DOMAIN cache = 1 .. Len(cache) /\ DOMAIN cache' = 1 .. Len(cache) - 1
          /\ \A j \in DOMAIN cache' :
                cache'[j] = IF j < idx[h] THEN cache[j] ELSE cache[j + 1]
        BY <1>0, <1>6, TakeEffect
    <2>2. ASSUME NEW j \in DOMAIN cache, j # idx[h]
          PROVE  \E m \in DOMAIN cache' : cache'[m] = cache[j]
        <3>1. CASE j < idx[h]
            <4>1. j \in DOMAIN cache'
                BY <2>1, <3>1
            <4> QED  BY <2>1, <3>1, <4>1
        <3>2. CASE j > idx[h]
            <4>1. j - 1 \in DOMAIN cache' /\ ~ (j - 1 < idx[h]) /\ (j - 1) + 1 = j
                BY <2>1, <3>2
            <4> QED  BY <2>1, <4>1
        <3> QED  BY <2>1, <2>2, <3>1, <3>2
    <2>3. ASSUME NEW j \in DOMAIN cache
          PROVE  \/ cache[j].id \in taken'
                 \/ \E m \in DOMAIN cache' : cache'[m].id = cache[j].id
        BY <2>1, <2>2
    <2> QED  BY <2>1, <2>3 DEF RecentInv
<1>7. ASSUME NEW h \in Handlers, TakePanics(h)
      PROVE  RecentInv'
    BY <1>0, <1>7, PanicEffect DEF RecentInv, Others
<1>8. ASSUME NEW h \in Handlers, PostAnswered(h)
      PROVE  RecentInv'
    BY <1>0, <1>8, PostEffect DEF RecentInv, Others
<1>9. ASSUME NEW h \in Handlers, PostFails(h)
      PROVE  RecentInv'
    BY <1>0, <1>9, PostFailsEffect DEF RecentInv, Others
<1>10. ASSUME NEW h \in Handlers, Patch(h)
      PROVE  RecentInv'
    BY <1>0, <1>10, PatchEffect DEF RecentInv, Others
<1>11. ASSUME NEW h \in Handlers, AddRead(h)
      PROVE  RecentInv'
    BY <1>0, <1>11, ReadEffect DEF RecentInv, Others
<1>12. ASSUME NEW h \in Handlers, AddWrite(h)
      PROVE  RecentInv'
    <2>1. PICK d \in {0, 1} :
          /\ pc[h] = "write" /\ taken' = taken /\ (d = 1 <=> Len(seen[h]) = CacheSize)
          /\ Len(cache') = Len(seen[h]) + 1 - d /\ Len(seen[h]) \in Nat
          /\ DOMAIN seen[h] = 1 .. Len(seen[h]) /\ DOMAIN cache' = 1 .. Len(cache')
          /\ Len(cache') \in Nat /\ Len(cache') >= 1 /\ cache'[Len(cache')].id = id[h]
          /\ \A k \in 1 .. Len(cache') - 1 : cache'[k] = seen[h][k + d]
          /\ Len(added') = Len(added) + 1 /\ Len(added) \in Nat
          /\ DOMAIN added = 1 .. Len(added) /\ DOMAIN added' = 1 .. Len(added) + 1
          /\ added'[Len(added) + 1] = id[h]
          /\ \A k \in 1 .. Len(added) : added'[k] = added[k]
        BY <1>0, <1>12, WriteEffect
    <2>2. seen[h] = cache
        BY <2>1 DEF AloneInv
    <2>3. ASSUME NEW k \in DOMAIN added', k + CacheSize > Len(added')
          PROVE  \/ added'[k] \in taken'
                 \/ \E j \in DOMAIN cache' : cache'[j].id = added'[k]
        <3>1. CASE k = Len(added) + 1
            <4>1. Len(cache') \in DOMAIN cache' /\ added'[k] = id[h]
                BY <2>1, <3>1
            <4> QED  BY <2>1, <4>1
        <3>2. CASE k # Len(added) + 1
            <4>1. k \in DOMAIN added /\ added'[k] = added[k] /\ k \in Nat
                BY <2>1, <3>2
            <4>2. k + CacheSize > Len(added) + 1 /\ k + CacheSize > Len(added)
                <5>1. Len(added') = Len(added) + 1 /\ Len(added) \in Nat
                    BY <2>1
                <5> QED  BY <2>3, <4>1, <5>1, CacheRoom
            <4>3. CASE added[k] \in taken
                BY <2>1, <4>1, <4>3
            <4>4. ASSUME NEW j \in DOMAIN cache, cache[j].id = added[k]
                  PROVE  \E m \in DOMAIN cache' : cache'[m].id = added'[k]
                <5>1. CASE j > d
                    <6>1. /\ j - d \in 1 .. Len(cache') - 1 /\ j - d \in DOMAIN cache'
                          /\ (j - d) + d = j
                        BY <2>1, <2>2, <5>1
                    <6>2. cache'[j - d] = cache[j]
                        BY <2>1, <2>2, <6>1
                    <6> QED  BY <4>1, <4>4, <6>1, <6>2
                <5>2. CASE ~ (j > d)
                    <6>1. j = 1 /\ d = 1 /\ Len(cache) = CacheSize
                        BY <2>1, <2>2, <5>2
                    <6>2. PICK p \in DOMAIN added :
                             added[p] = cache[j].id /\ p + (Len(cache) - j) <= Len(added)
                        BY DEF KnownInv
                    <6>3. p = k
                        BY <4>1, <4>4, <6>2 DEF FreshInv
                    <6>4. k + (CacheSize - 1) <= Len(added)
                        BY <6>1, <6>2, <6>3
                    <6>5. Len(added) \in Nat
                        BY <2>1
                    <6> QED  BY <4>1, <4>2, <6>4, <6>5, CacheRoom
                <5> QED  BY <5>1, <5>2
            <4> QED  BY <4>1, <4>2, <4>3, <4>4 DEF RecentInv
        <3> QED  BY <3>1, <3>2
    <2> QED  BY <2>3 DEF RecentInv
<1> QED  BY <1>1, <1>2, <1>3, <1>4, <1>5, <1>6, <1>7, <1>8, <1>9, <1>10, <1>11, <1>12,
            NextCases

\* A race is never forgotten.
LEMMA RacedStays ==
    ASSUME [Next]_vars, ~ raced'
    PROVE  ~ raced
<1>1. CASE UNCHANGED vars
    BY <1>1 DEF vars, history
<1>2. ASSUME NEW h \in Handlers, NEW n \in Notes, Arrive(h, n) PROVE ~ raced
    BY <1>2 DEF Arrive, history
<1>3. ASSUME NEW h \in Handlers,
             \/ MergeTags(h) \/ TakePanics(h) \/ PostAnswered(h) \/ PostFails(h) \/ Patch(h)
      PROVE  ~ raced
    BY <1>3 DEF MergeTags, TakePanics, PostAnswered, PostFails, Patch, history
<1>4. ASSUME NEW h \in Handlers, Find(h) \/ FindNothing(h) \/ AddRead(h) PROVE ~ raced
    BY <1>4, EnteredAlone DEF Find, FindNothing, AddRead
<1>5. ASSUME NEW h \in Handlers, Take(h) \/ AddWrite(h) PROVE ~ raced
    BY <1>5 DEF Take, AddWrite
<1> QED  BY <1>1, <1>2, <1>3, <1>4, <1>5, NextCases

-------------------------------------------------------------------------------
\* The invariant holds when the program starts.
LEMMA Initially == Init => IInv
<1> SUFFICES ASSUME Init PROVE IInv
    OBVIOUS
<1>1. /\ cache = <<>> /\ annotations = <<>> /\ added = <<>>
      /\ \A h \in Handlers : pc[h] = "idle" /\ id[h] = 0
    BY DEF Init
<1>2. /\ <<>> \in Seq(Entry) /\ <<>> \in Seq(Region) /\ <<>> \in Seq(Ids)
      /\ Len(<<>>) = 0 /\ DOMAIN <<>> = {}
    OBVIOUS
<1>3. HandlerTypes
    <2>1. /\ pc \in [Handlers -> Labels] /\ note \in [Handlers -> Notes]
          /\ tag \in [Handlers -> Tags]
        BY SomeNote DEF Init, Labels
    <2>2. idx \in [Handlers -> 0 .. CacheSize] /\ id \in [Handlers -> 0 .. MaxId]
        BY CacheRoom DEF Init
    <2>3. seen \in [Handlers -> Seq(Entry)] /\ \A h \in Handlers : Len(seen[h]) <= CacheSize
        BY <1>2, CacheRoom DEF Init
    <2> QED  BY <2>1, <2>2, <2>3 DEF HandlerTypes
<1>4. SharedTypes
    <2>1. slot \in Tags /\ torn \subseteq Handlers /\ taken \subseteq Ids
        BY SomeNote DEF Init
    <2>2. raced \in BOOLEAN
        BY Zenon DEF Init
    <2> QED  BY <1>1, <1>2, <2>1, <2>2, CacheRoom DEF SharedTypes
<1>5. StageInv /\ TagInv /\ FreshInv
    BY <1>1, <1>2 DEF StageInv, TagInv, FreshInv
<1>6. OrderlyInv
    BY <1>1, <1>2
    DEF OrderlyInv, AloneInv, InMatcher, KnownInv, OnceInv, OpenInv, EndInv, RecentInv
<1> QED  BY <1>3, <1>4, <1>5, <1>6, TypeParts DEF IInv

\* Every step preserves the invariant.
LEMMA Inductive == IInv /\ [Next]_vars => IInv'
<1> SUFFICES ASSUME IInv, [Next]_vars PROVE IInv'
    OBVIOUS
<1>1. TypeOK /\ StageInv /\ TagInv /\ FreshInv /\ OrderlyInv
    BY DEF IInv
<1>2. TypeOK' /\ StageInv' /\ TagInv' /\ FreshInv'
    BY <1>1, TypeNext, StageNext, TagNext, FreshNext
<1>3. ASSUME ~ raced'
      PROVE  AloneInv' /\ KnownInv' /\ OnceInv' /\ OpenInv' /\ EndInv' /\ RecentInv'
    <2>1. AloneInv /\ KnownInv /\ OnceInv /\ OpenInv /\ EndInv /\ RecentInv
        BY <1>1, <1>3, RacedStays DEF OrderlyInv
    <2> QED  BY <1>1, <1>3, <2>1,
                AloneNext, KnownNext, OnceNext, OpenNext, EndNext, RecentNext
<1>4. OrderlyInv'
    BY <1>3 DEF OrderlyInv
<1> QED  BY <1>2, <1>4 DEF IInv

\* The invariant holds in every reachable state.
LEMMA Invariant == Spec => []IInv
BY Initially, Inductive, PTL DEF Spec

\* Every variable has its type, the races included: an index past the slice
\* panics, and an id is one that Grafana may have given.
THEOREM TypeCorrect == Spec => []TypeOK
<1>1. IInv => TypeOK
    BY DEF IInv
<1> QED  BY <1>1, Invariant, PTL

\* A notification is sent with its own tag, unless two handlers were in mergeTags
\* at once.
THEOREM TagsAreOwn == Spec => []TagsOwn
<1>1. IInv => TagsOwn
    BY DEF IInv, TagInv, TagsOwn, Sent
<1> QED  BY <1>1, Invariant, PTL

\* Until two handlers are in the matcher at once, each start that an end can be
\* matched to is a region of Grafana's, with its text, and open.
THEOREM CachedAreOpen == Spec => []CachedStartsOpen
<1>1. IInv => CachedStartsOpen
    BY DEF IInv, OrderlyInv, OpenInv, IsOpen, CachedStartsOpen
<1> QED  BY <1>1, Invariant, PTL

\* Until then, a region is ended by an end that a rule rewrites to its start,
\* whatever was cached, dropped, lost or refused between the two.
THEOREM EndsArePaired == Spec => []RegionsPaired
<1>1. IInv => RegionsPaired
    BY DEF IInv, OrderlyInv, EndInv, EndsRegion, RegionsPaired, EndsMatchTheirStart
<1> QED  BY <1>1, Invariant, PTL

\* Until then, no region is ended twice.
THEOREM EndedOnce == Spec => []OneEndPerRegion
<1>1. IInv => OneEndPerRegion
    BY DEF IInv, OrderlyInv, EndInv, OneEndPerRegion
<1> QED  BY <1>1, Invariant, PTL

\* Until then, one of the CacheSize latest starts is missing from the cache only
\* if an end has taken it.
THEOREM RecentRemembered == Spec => []RecentStartsRemembered
<1>1. IInv => RecentStartsRemembered
    BY DEF IInv, OrderlyInv, RecentInv, RecentStartsRemembered
<1> QED  BY <1>1, Invariant, PTL
===============================================================================
