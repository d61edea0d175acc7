------------ MODULE MemoryRecords ------------
(***************************************************************************)
(* The memory store and its clients (miragen/memory/ephemeral.py and       *)
(* lifecycle.py): events are evidence, records are rooted in events and    *)
(* revised or corrected by compare-and-set, the claims of a single-valued  *)
(* slot hold segments of valid time, and a recall searches, lets a model   *)
(* select (or takes its cached selection) and reads every pick again       *)
(* before it is put in front of a prompt.  A request is one atomic step of *)
(* the store; a client makes several, and the store changes in between.    *)
(***************************************************************************)
EXTENDS Integers, FiniteSets, Sequences

CONSTANTS
  Keys,         \* idempotency keys of the producer
  Contents,     \* what an event says
  Queries,      \* goal, prompt and working-state revision of a recall
  MaxRecords,   \* bound: records
  MaxRevisions, \* bound: revisions of a record
  MaxTime,      \* bound: instants of valid time
  MaxRequests,  \* bound: requests that change the store
  MaxSelected   \* recall.max_selected

ASSUME MemoryAssumption ==
  {MaxRecords, MaxTime, MaxRequests, MaxSelected} \subseteq Nat /\ MaxRevisions \in Nat \ {0}

VARIABLES
  events,    \* the events: their key, content, state and generation
  records,   \* the records, in order
  segments,  \* who holds the slot, when: a set, since no two of them are alike
  version,   \* the slot's version
  cache,     \* the last selection: query and picks
  lane,      \* the recall in progress
  client,    \* a remember or correct in progress
  requests   \* requests so far
memoryVars == <<events, records, segments, version, cache, lane, client, requests>>

Open == 0   \* no end of a valid time
Times == 1..MaxTime
Intervals == {i \in Times \X (Times \cup {Open}) : i[2] = Open \/ i[1] < i[2]}
Ever == <<1, Open>>
Admissions == {"accepted", "candidate", "quarantined", "archived"}
RecordKinds == {"observation", "claim"}
RecordIds == 1..MaxRecords
EventIds == DOMAIN events
Known == DOMAIN records
Current(r) == records[r].revisions[Len(records[r].revisions)]
RevisionIds == {id \in Known \X (1..MaxRevisions) : id[2] <= Len(records[id[1]].revisions)}
CurrentId(r) == <<r, Len(records[r].revisions)>>
Idle == [at |-> "idle"]

MemoryTypeOK ==
  /\ \A e \in EventIds : events[e].status \in {"live", "retracted", "erased"} /\ events[e].generation \in 1..(MaxRequests + 1)
  /\ \A r \in Known : /\ r \in RecordIds /\ records[r].admission \in Admissions /\ records[r].kind \in RecordKinds
                      /\ records[r].roots \in [DOMAIN records[r].roots -> 1..(MaxRequests + 1)]
                      /\ DOMAIN records[r].roots \subseteq EventIds
                      /\ Len(records[r].revisions) \in 1..MaxRevisions
  /\ \A s \in segments : s.revisions \subseteq RevisionIds
  /\ version \in 0..MaxRequests /\ requests \in 0..MaxRequests
  /\ cache.picks \subseteq Known /\ Cardinality(cache.picks) <= MaxSelected

MemoryInit ==
  /\ events = <<>> /\ records = <<>> /\ segments = {} /\ version = 0
  /\ cache = [query |-> "", picks |-> {}]
  /\ lane = Idle /\ client = Idle
  /\ requests = 0

------------------------
(* Events *)

KeyHolder(key) == {e \in EventIds : events[e].key = key}
\* append_event: the event of a key, a conflict when its content differs, or a new event.
Appended(key, content) ==
  IF KeyHolder(key) # {} THEN events
  ELSE Append(events, [key |-> key, content |-> content, status |-> "live", generation |-> 1])
Refused(key, content) == \E e \in KeyHolder(key) : events[e].content # content
EventOf(key, content) ==
  IF KeyHolder(key) = {} THEN Len(events) + 1 ELSE CHOOSE e \in KeyHolder(key) : TRUE

Request == requests < MaxRequests /\ requests' = requests + 1

AppendEvent(key, content) ==
  /\ Request
  /\ events' = Appended(key, content)
  /\ UNCHANGED <<records, segments, version, cache, lane, client>>

RetractEvent(e) ==
  /\ Request
  /\ events' = [events EXCEPT ![e].status = IF @ = "live" THEN "retracted" ELSE @, ![e].generation = @ + 1]
  /\ UNCHANGED <<records, segments, version, cache, lane, client>>

\* The operator erases an event; the current revision of every record rooted in it goes with it.
Erased(record) ==
  [record EXCEPT !.admission = "archived", !.revisions[Len(record.revisions)].erased = TRUE]
EraseEvent(e) ==
  /\ Request
  /\ events' = [events EXCEPT ![e].status = "erased", ![e].generation = @ + 1]
  /\ records' = [r \in Known |-> IF e \in DOMAIN records[r].roots THEN Erased(records[r]) ELSE records[r]]
  /\ UNCHANGED <<segments, version, cache, lane, client>>

------------------------
(* Valid time *)

EndsBy(upper, t) == upper # Open /\ upper <= t
Overlaps(s, lower, upper) == ~EndsBy(s.upper, lower) /\ ~(upper # Open /\ s.lower >= upper)
Covers(s, t) == s.lower <= t /\ ~EndsBy(s.upper, t)
Holding(segs, t) == {[kind |-> s.kind, revisions |-> s.revisions] : s \in {x \in segs : Covers(x, t)}}
Segment(lower, upper, kind, revs) == [lower |-> lower, upper |-> upper, kind |-> kind, revisions |-> revs]

\* An accepted claim takes its interval, closes the open segment it continues, or is in conflict.
Overlapping(lower, upper) == {s \in segments : Overlaps(s, lower, upper)}
Continues(lower, upper) ==
  upper = Open /\ \E s \in segments : /\ Overlapping(lower, upper) = {s}
                                      /\ s.kind = "resolved" /\ s.upper = Open /\ s.lower <= lower
Closed(lower, upper) ==
  {[s EXCEPT !.upper = lower] : s \in {x \in Overlapping(lower, upper) : x.lower < lower}}
Contenders(lower, upper) == UNION {s.revisions : s \in Overlapping(lower, upper)}
Resolved(id, lower, upper) ==
  IF Overlapping(lower, upper) = {} \/ Continues(lower, upper)
    THEN (segments \ Overlapping(lower, upper)) \cup Closed(lower, upper)
           \cup {Segment(lower, upper, "resolved", {id})}
    ELSE segments \cup {Segment(lower, upper, "conflict", {id} \cup Contenders(lower, upper))}

------------------------
(* Records *)

Verifiable(roots) == \A e \in roots : events[e].status = "live"
Generations(roots) == [e \in roots |-> events[e].generation]
Linked(old, roots) ==
  [e \in DOMAIN old \cup roots |-> IF e \in roots THEN events[e].generation ELSE old[e]]
Revision == [lifecycle |-> "active", erased |-> FALSE]
Admitted(roots, quarantine) ==
  IF quarantine THEN "quarantined" ELSE IF roots = {} THEN "candidate" ELSE "accepted"

\* The store's part of a proposal: a claim may be withheld for want of an authority among its roots.
Proposed(kind, roots, quarantine, interval, withheld) ==
  LET id == <<Len(records) + 1, 1>>
      heads == kind = "claim" /\ Admitted(roots, quarantine) = "accepted" /\ ~withheld
  IN  /\ Len(records) < MaxRecords /\ Verifiable(roots)
      /\ records' = Append(records,
           [kind |-> kind, admission |-> Admitted(roots, quarantine), roots |-> Generations(roots),
            revisions |-> <<Revision>>])
      /\ segments' = IF heads THEN Resolved(id, interval[1], interval[2]) ELSE segments
      /\ version' = IF heads THEN version + 1 ELSE version
Propose(kind, roots, quarantine, interval, withheld) ==
  /\ Request /\ Proposed(kind, roots, quarantine, interval, withheld)
  /\ UNCHANGED <<events, cache, lane, client>>

Superseded(revs) == Append([revs EXCEPT ![Len(revs)].lifecycle = "superseded"], Revision)
Superseding(r, admission, roots) ==
  [records EXCEPT ![r].admission = admission, ![r].roots = Linked(@, roots),
     ![r].revisions = Superseded(@)]
Grows(r) == r \in Known /\ Len(records[r].revisions) < MaxRevisions

\* A proposal that names a record, at the revision its producer has read.
Revise(r, expected, roots, quarantine) ==
  /\ Request /\ Grows(r) /\ Verifiable(roots) /\ expected = Len(records[r].revisions)
  /\ records' = Superseding(r, Admitted(roots, quarantine), roots)
  /\ UNCHANGED <<events, segments, version, cache, lane, client>>

InPlace(revs, old, new) == {IF id = old THEN new ELSE id : id \in revs}
Substituted(segs, old, new) == {[s EXCEPT !.revisions = InPlace(@, old, new)] : s \in segs}
\* A correction takes the place of the revision it corrects, in its interval.
Corrects(r, expected, e) ==
  /\ Grows(r) /\ events[e].status = "live" /\ expected = Len(records[r].revisions)
  /\ records' = Superseding(r, "accepted", {e})
  /\ segments' = IF records[r].kind = "claim" THEN Substituted(segments, CurrentId(r), <<r, expected + 1>>)
                 ELSE segments
  /\ version' = IF records[r].kind = "claim" THEN version + 1 ELSE version

Retracted(revs) == [s \in DOMAIN revs |-> [revs[s] EXCEPT !.lifecycle = "retracted"]]
RetractRecord(r) ==
  /\ Request
  /\ records' = [records EXCEPT ![r].admission = "archived",
                   ![r].revisions = Retracted(@)]
  /\ UNCHANGED <<events, segments, version, cache, lane, client>>

\* An explicit resolution replaces the slot's segments; a revision of an accepted record may hold.
Resolve(id, interval) ==
  /\ Request
  /\ records[id[1]].kind = "claim" /\ records[id[1]].admission = "accepted"
  /\ segments' = {Segment(interval[1], interval[2], "resolved", {id})}
  /\ version' = version + 1
  /\ UNCHANGED <<events, records, cache, lane, client>>

------------------------
(* Clients: remember, and correct *)

\* remember: the statement becomes an event, the record is rooted in it.
Remember(key, content) ==
  /\ Request /\ client.at = "idle" /\ ~Refused(key, content)
  /\ events' = Appended(key, content)
  /\ client' = [at |-> "propose", event |-> EventOf(key, content)]
  /\ UNCHANGED <<records, segments, version, cache, lane>>
RememberProposes ==
  /\ client.at = "propose" /\ client' = Idle
  /\ IF Len(records) < MaxRecords /\ Verifiable({client.event})
     THEN Proposed("observation", {client.event}, FALSE, Ever, FALSE)
     ELSE UNCHANGED <<records, segments, version>>
  /\ UNCHANGED <<events, cache, lane, requests>>

\* correct: the record is read, the correction becomes an event, and a conflict is tried once more.
CorrectReads(r) ==
  /\ client.at = "idle" /\ requests < MaxRequests
  /\ client' = [at |-> "evidence", record |-> r, seq |-> Len(records[r].revisions)]
  /\ UNCHANGED <<events, records, segments, version, cache, lane, requests>>
CorrectAppends(key, content) ==
  /\ Request /\ client.at = "evidence"
  /\ IF Refused(key, content) THEN client' = Idle /\ UNCHANGED events
     ELSE /\ events' = Appended(key, content)
          /\ client' = [at |-> "correct", record |-> client.record, seq |-> client.seq,
                        event |-> EventOf(key, content), again |-> TRUE]
  /\ UNCHANGED <<records, segments, version, cache, lane>>
CorrectApplies ==
  /\ client.at = "correct"
  /\ LET r == client.record
         stale == client.seq # Len(records[r].revisions)
     IN  \/ /\ ~stale /\ Corrects(r, client.seq, client.event) /\ client' = Idle
         \/ /\ stale /\ client.again /\ events[client.event].status = "live"
            /\ client' = [client EXCEPT !.seq = Len(records[r].revisions), !.again = FALSE]
            /\ UNCHANGED <<records, segments, version>>
         \/ /\ events[client.event].status # "live" \/ (stale /\ ~client.again) \/ ~Grows(r)
            /\ client' = Idle /\ UNCHANGED <<records, segments, version>>
  /\ UNCHANGED <<events, cache, lane, requests>>

------------------------
(* Recall *)

RootsValid(r) == \A e \in DOMAIN records[r].roots :
                    events[e].status = "live" /\ events[e].generation = records[r].roots[e]
\* What the search returns as candidates.
Found == {r \in Known : records[r].admission = "accepted" /\ Current(r).lifecycle = "active"
                        /\ ~Current(r).erased /\ RootsValid(r)}

\* _optional_lane, recall_candidates: a cached selection of the same query, or the search.
StartRecall(query) ==
  /\ lane.at = "idle"
  /\ \/ /\ cache.query = query /\ cache.picks # {}
        /\ lane' = [at |-> "render", todo |-> cache.picks, shown |-> {}] /\ UNCHANGED cache
     \/ /\ cache.query # query /\ Found # {}
        /\ lane' = [at |-> "select", query |-> query, cards |-> Found] /\ UNCHANGED cache
     \/ /\ cache.query # query /\ Found = {}
        /\ cache' = [query |-> query, picks |-> {}] /\ UNCHANGED lane
  /\ UNCHANGED <<events, records, segments, version, client, requests>>
\* The selector answers, or fails, or its time is up: then nothing is injected.
M_ClampedNot(picks, cards) == picks \subseteq cards
Clamped(picks, cards) == picks \subseteq cards /\ Cardinality(picks) <= MaxSelected
Select(picks) ==
  /\ lane.at = "select" /\ Clamped(picks, lane.cards)
  /\ cache' = [query |-> lane.query, picks |-> picks]
  /\ lane' = IF picks = {} THEN Idle ELSE [at |-> "render", todo |-> picks, shown |-> {}]
  /\ UNCHANGED <<events, records, segments, version, client, requests>>
RecallFails ==
  /\ lane.at \in {"select", "render"} /\ lane' = Idle
  /\ UNCHANGED <<events, records, segments, version, cache, client, requests>>
\* _render_selected: each pick is read again, and only what is still admitted is shown.
M_ShowsSelected(r) == records[r].admission = "accepted"
Shows(r) == records[r].admission = "accepted" /\ RootsValid(r)
Render(r) ==
  /\ lane.at = "render" /\ r \in lane.todo
  /\ lane' = [lane EXCEPT !.todo = @ \ {r}, !.shown = IF Shows(r) THEN @ \cup {r} ELSE @]
  /\ UNCHANGED <<events, records, segments, version, cache, client, requests>>
Deliver ==
  /\ lane.at = "render" /\ lane.todo = {} /\ lane' = Idle
  /\ UNCHANGED <<events, records, segments, version, cache, client, requests>>

\* Valid times and authorities tell claims apart only.
Asserted(kind) == IF kind = "claim" THEN Intervals ELSE {Ever}
Authorities(kind) == IF kind = "claim" THEN BOOLEAN ELSE {FALSE}
MemoryNext ==
  \/ \E k \in Keys, c \in Contents : AppendEvent(k, c) \/ Remember(k, c) \/ CorrectAppends(k, c)
  \/ \E e \in EventIds : RetractEvent(e) \/ EraseEvent(e)
  \/ \E kind \in RecordKinds, roots \in SUBSET EventIds, q \in BOOLEAN :
        \E i \in Asserted(kind), w \in Authorities(kind) : Propose(kind, roots, q, i, w)
  \/ \E r \in Known, seq \in 1..MaxRevisions, roots \in SUBSET EventIds, q \in BOOLEAN :
        Revise(r, seq, roots, q)
  \/ \E r \in Known : RetractRecord(r) \/ CorrectReads(r) \/ Render(r)
  \/ \E id \in RevisionIds, i \in Intervals : Resolve(id, i)
  \/ RememberProposes \/ CorrectApplies
  \/ \E query \in Queries : StartRecall(query)
  \/ \E picks \in SUBSET Known : Select(picks)
  \/ RecallFails \/ Deliver

------------------------
(* Properties *)

\* Once an event is retracted or erased, or a record retracted and neither corrected nor revised
\* since, no recall reads the memory into a prompt: not from a selection that was cached or made
\* before, and whatever becomes of other records.  It is about the read when a recall is rendered:
\* one that a hook claims only later is not read again (RecallDelivery).
Withdrawn(r) == \/ \E e \in DOMAIN records[r].roots : events[e].status # "live"
                \/ Current(r).lifecycle = "retracted" \/ Current(r).erased
Shown(rc) == IF rc.at = "render" THEN rc.shown ELSE {}
WithdrawnIsNotRecalled == [][\A r \in Shown(lane') \ Shown(lane) : ~Withdrawn(r)]_memoryVars

\* A claim changes who holds the slot only where it is about: at every other time the same
\* revisions hold it, and at its own times it is the one holder after at most one before, or in
\* open conflict with all of them.  A correction takes exactly its predecessor's places.
Fresh(id) == id \notin RevisionIds
ReplacementIsLocal ==
  [][\A t \in Times :
       LET before == Holding(segments, t)
           after == Holding(segments', t)
           all == UNION {h.revisions : h \in before}
       IN  \/ after = before
           \/ \E id \in RevisionIds' : after = {[kind |-> "resolved", revisions |-> {id}]} /\ Fresh(id)
                                       /\ Cardinality(before) <= 1
           \/ \E h \in after : h.kind = "conflict" /\ all \subseteq h.revisions /\ before \subseteq after
                               /\ \E id \in h.revisions : Fresh(id)
           \/ \E old \in RevisionIds : after = {[h EXCEPT !.revisions = InPlace(@, old, <<old[1], old[2] + 1>>)] : h \in before}
           \/ \E id \in RevisionIds, i \in Intervals : Resolve(id, i)]_memoryVars
========================
