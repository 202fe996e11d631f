------------------------------- MODULE Annotator -------------------------------
(***************************************************************************)
(* The notification handler: handleNotificationHTTPRequest (main.go),      *)
(* regionMatchingAnnotator.Post (lib/notifications/annotator.go) and the   *)
(* region matcher (regionmatcher.go), called by net/http from one          *)
(* goroutine per request with no lock anywhere.                            *)
(*                                                                         *)
(* A notification is a note; what the code does with its characters is in  *)
(* two constants: StartsOf[n], the start texts that the rules which change *)
(* n rewrite it to, in rule order, and TagOf[n], the tag of its leading    *)
(* brackets.  Ids of Grafana annotations are the indexes of annotations;   *)
(* 0 stands for the id -1 ("no match").                                    *)
(*                                                                         *)
(* Each access to the matcher's slice is two steps, a read and a write     *)
(* made from what was read.  Concurrent accesses are data races in Go: the *)
(* model has only the coarsest of their outcomes, `raced` records that one *)
(* happened, and nothing is claimed of the cache from then on.             *)
(***************************************************************************)
EXTENDS Naturals, Sequences, FiniteSets

CONSTANTS Handlers,   \* request goroutines
          Notes,      \* notification texts
          StartsOf,   \* Notes -> Seq(Notes)
          TagOf,      \* Notes -> tags
          CacheSize,  \* 20 in main.go
          MaxId       \* BOUND: annotations Grafana creates

ASSUME AnnotatorAssumption ==
    /\ IsFiniteSet(Handlers) /\ Notes # {}
    /\ StartsOf \in [Notes -> Seq(Notes)]
    /\ DOMAIN TagOf = Notes
    /\ CacheSize \in Nat \ {0} /\ MaxId \in Nat

VARIABLES
    pc,           \* per handler: "idle", "merge", "match", "take", "send", "add"
                  \* or "write"
    note,         \* per handler: the annotation argument of Post
    tag,          \* per handler: the tag in ga.Tags, until it is sent
    slot,         \* the element past the end of a.tags
    torn,         \* history: the handlers in mergeTags at the same time as another
    idx,          \* per handler: idx of Match, 0 for -1
    id,           \* per handler: the id to PATCH, 0 for none, or the id created
    seen,         \* per handler: c.cache as Add read it
    cache,        \* regionMatcher.cache: a sequence of [id, note]
    annotations,  \* external: Grafana's [note, ends] by id, note the
                  \* text of its creation, ends the PATCHes
    added,        \* history: the ids given to Add, in order
    taken,        \* history: the ids whose entry Match deleted
    raced         \* history: two handlers were inside the matcher at once

handler == <<pc, note, tag, idx, id, seen>>
tags == <<slot, torn>>
history == <<added, taken, raced>>
vars == <<handler, tags, cache, annotations, history>>

AnyNote == CHOOSE n \in Notes : TRUE

Init ==
    /\ pc = [h \in Handlers |-> "idle"]
    /\ note = [h \in Handlers |-> AnyNote]
    /\ tag = [h \in Handlers |-> TagOf[AnyNote]]
    /\ slot = TagOf[AnyNote] /\ torn = {}
    /\ idx = [h \in Handlers |-> 0]
    /\ id = [h \in Handlers |-> 0]
    /\ seen = [h \in Handlers |-> <<>>]
    /\ cache = <<>>
    /\ annotations = <<>>
    /\ added = <<>> /\ taken = {} /\ raced = FALSE

Goto(h, label) == pc' = [pc EXCEPT ![h] = label]

\* Post returns; the handler's locals are gone.
Leave(h) ==
    /\ Goto(h, "idle")
    /\ note' = [note EXCEPT ![h] = AnyNote]
    /\ tag' = [tag EXCEPT ![h] = TagOf[AnyNote]]
    /\ idx' = [idx EXCEPT ![h] = 0]
    /\ id' = [id EXCEPT ![h] = 0]
    /\ seen' = [seen EXCEPT ![h] = <<>>]

\* An access to the matcher begins: is another one under way?
Enter == raced' = (raced \/ \E h \in Handlers : pc[h] \in {"take", "write"})

-------------------------------------------------------------------------------
\* A tag read or written while another handler wrote it: any value.
Torn == "torn"

\* GET /notification?text=n: Post extracts the tag, and mergeTags' append(t1,
\* t2...) writes it past the end of the configured tags, into their array when
\* that has room (as with two of them; with one the array is full).
Arrive(h, n) ==
    /\ pc[h] = "idle"
    /\ note' = [note EXCEPT ![h] = n]
    /\ slot' = TagOf[n]
    /\ LET others == {g \in Handlers : pc[g] = "merge"}
       IN torn' = IF others = {} THEN torn ELSE torn \cup others \cup {h}
    /\ Goto(h, "merge")
    /\ UNCHANGED <<tag, idx, id, seen, cache, annotations, history>>

\* Slip: mergeTags returns the result of append itself, not a copy of it.
SentAliased(h) == slot

\* The tag that json.Marshal finds in the annotation to send.
Sent(h) == tag[h]

\* mergeTags reads the tags back while it copies them without duplicates.
MergeTags(h) ==
    /\ pc[h] = "merge"
    /\ tag' = [tag EXCEPT ![h] = IF h \in torn THEN Torn ELSE slot]
    /\ torn' = torn \ {h}
    /\ Goto(h, "match")
    /\ UNCHANGED <<note, idx, id, seen, slot, cache, annotations, history>>

-------------------------------------------------------------------------------
\* The slip of searching past the entry found.
FirstMatchOffByOne(n, k) ==
    k - 1 \in DOMAIN cache /\ \E r \in DOMAIN StartsOf[n] : cache[k - 1].note = StartsOf[n][r]

Holds(k, n) == cache[k].note = n

\* cache[k] is what Match returns: the first rule whose rewriting is in the
\* cache decides, and of several entries with that text the oldest.
FirstMatch(n, k) ==
    \E r \in DOMAIN StartsOf[n] :
        /\ Holds(k, StartsOf[n][r])
        /\ \A j \in 1 .. k - 1 : ~ Holds(j, StartsOf[n][r])
        /\ \A q \in 1 .. r - 1, j \in DOMAIN cache : ~ Holds(j, StartsOf[n][q])

\* Match finds an index; its deferred function then uses it.
Find(h) ==
    /\ pc[h] = "match"
    /\ Enter
    /\ \E k \in DOMAIN cache :
           /\ FirstMatch(note[h], k)
           /\ idx' = [idx EXCEPT ![h] = k]
    /\ Goto(h, "take")
    /\ UNCHANGED <<note, tag, id, seen, tags, cache, annotations, added, taken>>

FindNothing(h) ==
    /\ pc[h] = "match"
    /\ Enter
    /\ ~ \E k \in DOMAIN cache : FirstMatch(note[h], k)
    /\ Goto(h, "send")
    /\ UNCHANGED <<note, tag, idx, id, seen, tags, cache, annotations, added, taken>>

Without(s, k) == SubSeq(s, 1, k - 1) \o SubSeq(s, k + 1, Len(s))

\* Slip: the entry is left where it is.
TakeKeepingEntry(h) ==
    /\ pc[h] = "take"
    /\ idx[h] \in DOMAIN cache
    /\ id' = [id EXCEPT ![h] = cache[idx[h]].id]
    /\ taken' = taken \cup {cache[idx[h]].id}
    /\ Goto(h, "send")
    /\ UNCHANGED <<note, tag, idx, seen, tags, cache, annotations, added, raced>>

\* The deferred function: the entry at idx gives the id, and is deleted.
Take(h) ==
    /\ pc[h] = "take"
    /\ idx[h] \in DOMAIN cache
    /\ id' = [id EXCEPT ![h] = cache[idx[h]].id]
    /\ cache' = Without(cache, idx[h])
    /\ taken' = taken \cup {cache[idx[h]].id}
    /\ Goto(h, "send")
    /\ UNCHANGED <<note, tag, idx, seen, tags, annotations, added, raced>>

\* Another handler has shortened the slice: the index panics, net/http
\* recovers and closes the connection.
TakePanics(h) ==
    /\ pc[h] = "take"
    /\ idx[h] \notin DOMAIN cache
    /\ Leave(h)
    /\ UNCHANGED <<tags, cache, annotations, history>>

-------------------------------------------------------------------------------
(* client.Do; Grafana is external.                                         *)

Created(h) == Append(annotations, [note |-> note[h], ends |-> <<>>])

\* PATCH replaces the text and sets timeEnd.
Closed(h) == [annotations EXCEPT ![id[h]].ends = Append(@, note[h])]

\* No match: POST, answered with the new id...
PostAnswered(h) ==
    /\ pc[h] = "send" /\ id[h] = 0 /\ Len(annotations) < MaxId
    /\ annotations' = Created(h)
    /\ id' = [id EXCEPT ![h] = Len(annotations')]
    /\ tag' = [tag EXCEPT ![h] = TagOf[AnyNote]]
    /\ Goto(h, "add")
    /\ UNCHANGED <<note, idx, seen, tags, cache, history>>

\* ... or refused, or its answer lost on the way back (the client's timeout, a
\* body that cannot be read or decoded): then the id is unknown.
PostFails(h) ==
    /\ pc[h] = "send" /\ id[h] = 0
    /\ \/ annotations' = annotations
       \/ Len(annotations) < MaxId /\ annotations' = Created(h)
    /\ Leave(h)
    /\ UNCHANGED <<tags, cache, history>>

\* Slip: the entry goes back to the cache when the PATCH fails.
PatchPuttingBack(h) ==
    /\ pc[h] = "send" /\ id[h] # 0
    /\ annotations' \in {annotations, Closed(h)}
    /\ Leave(h)
    /\ cache' \in {cache, Append(cache, [id |-> id[h], note |-> annotations[id[h]].note])}
    /\ UNCHANGED <<tags, history>>

\* A match: PATCH.  Whether it succeeds or not, nothing is kept.
Patch(h) ==
    /\ pc[h] = "send" /\ id[h] # 0
    /\ annotations' \in {annotations, Closed(h)}
    /\ Leave(h)
    /\ UNCHANGED <<tags, cache, history>>

-------------------------------------------------------------------------------
(* cache.Add(response.ID, annotation), after an answered POST only.        *)

AddRead(h) ==
    /\ pc[h] = "add"
    /\ Enter
    /\ seen' = [seen EXCEPT ![h] = cache]
    /\ Goto(h, "write")
    /\ UNCHANGED <<note, tag, idx, id, tags, cache, annotations, added, taken>>

\* Slips: one entry too many is allowed; the newest entry is the one dropped.
EvictedLate(s) == IF Len(s) > CacheSize + 1 THEN Tail(s) ELSE s
EvictedNewest(s) == IF Len(s) > CacheSize THEN SubSeq(s, 1, CacheSize) ELSE s

Evicted(s) == IF Len(s) > CacheSize THEN Tail(s) ELSE s

AddWrite(h) ==
    /\ pc[h] = "write"
    /\ cache' = Evicted(Append(seen[h], [id |-> id[h], note |-> note[h]]))
    /\ added' = Append(added, id[h])
    /\ Leave(h)
    /\ UNCHANGED <<tags, annotations, taken, raced>>

Step(h) ==
    \/ MergeTags(h)
    \/ Find(h) \/ FindNothing(h) \/ Take(h) \/ TakePanics(h)
    \/ PostAnswered(h) \/ PostFails(h) \/ Patch(h)
    \/ AddRead(h) \/ AddWrite(h)

Next == \E h \in Handlers : Step(h) \/ \E n \in Notes : Arrive(h, n)

Spec == Init /\ [][Next]_vars

-------------------------------------------------------------------------------
Ids == 1 .. MaxId
Entry == [id : Ids, note : Notes]
Tags == {TagOf[n] : n \in Notes} \cup {Torn}

TypeOK ==
    /\ pc \in [Handlers -> {"idle", "merge", "match", "take", "send", "add",
                            "write"}]
    /\ note \in [Handlers -> Notes] /\ tag \in [Handlers -> Tags]
    /\ slot \in Tags /\ torn \subseteq Handlers
    /\ idx \in [Handlers -> 0 .. CacheSize] /\ id \in [Handlers -> 0 .. MaxId]
    /\ cache \in Seq(Entry) /\ Len(cache) <= CacheSize
    /\ seen \in [Handlers -> Seq(Entry)]
    /\ \A h \in Handlers : Len(seen[h]) <= CacheSize
    /\ annotations \in Seq([note : Notes, ends : Seq(Notes)])
    /\ Len(annotations) <= MaxId
    /\ added \in Seq(Ids) /\ taken \subseteq Ids /\ raced \in BOOLEAN

\* A start that an end can still be matched to is an annotation of Grafana's
\* with that very text, and still open: an answer lost on the way back may
\* leave an annotation unknown to the cache, never the cache ahead of Grafana.
CachedStartsOpen ==
    ~ raced => \A k \in DOMAIN cache :
                   /\ cache[k].id \in DOMAIN annotations
                   /\ annotations[cache[k].id].note = cache[k].note
                   /\ annotations[cache[k].id].ends = <<>>

\* regionmatcher.go: "so that an end event can be matched back to its
\* corresponding start event".  Whatever is in flight between the match and the
\* PATCH, a region is closed by an end that a rule rewrites to its start.
EndsMatchTheirStart ==
    \A a \in DOMAIN annotations : \A e \in DOMAIN annotations[a].ends :
        \E r \in DOMAIN StartsOf[annotations[a].ends[e]] :
            StartsOf[annotations[a].ends[e]][r] = annotations[a].note

RegionsPaired == ~ raced => EndsMatchTheirStart

\* Two ends never close the same region: the first takes the entry away before
\* it sends anything.
OneEndPerRegion == ~ raced => \A a \in DOMAIN annotations : Len(annotations[a].ends) <= 1

\* The matcher remembers the CacheSize latest starts: one of these is missing
\* only if an end has taken it.
RecentStartsRemembered ==
    ~ raced => \A k \in DOMAIN added :
                   k + CacheSize > Len(added) =>
                       \/ added[k] \in taken
                       \/ \E j \in DOMAIN cache : cache[j].id = added[k]

\* A notification is sent with its own tag, although all handlers append theirs
\* to the same array: whatever comes before, between and after, only two of them
\* inside mergeTags at once can spoil it.
TagsOwn == \A h \in Handlers : pc[h] = "send" => Sent(h) \in {TagOf[note[h]], Torn}
===============================================================================
