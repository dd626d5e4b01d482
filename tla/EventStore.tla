----------------------------- MODULE EventStore -----------------------------
(***************************************************************************)
(* The desktop's event store (desktop/src/stores/event-store.ts): a ring of *)
(* event ids, an index from id to event, running statistics and the         *)
(* selected event.                                                          *)
(*                                                                         *)
(* An action of the store computes on copies and publishes them with one    *)
(* set().  The loops of such a call are the steps of this module: the w...  *)
(* variables are the call's copies, and only the Publish steps, Clear and   *)
(* the selection actions change what the rest of the program sees.  No      *)
(* other action runs while a call is under way (one JavaScript thread).     *)
(*                                                                         *)
(* An event is <<id, kind>>; its kind stands for the direction, risk level  *)
(* and server that the statistics count.  ring.ids is the array             *)
(* materializeRingIds computes from the ring: the operator RingIds.         *)
(***************************************************************************)
EXTENDS Integers, Sequences, FiniteSets, Functions

CONSTANTS
  Ids,          \* event ids
  NoId,         \* null: an empty slot, or nothing selected
  Kinds,        \* what statistics tell apart
  Capacity,     \* EVENT_RING_BUFFER_CAPACITY (10000 in the code)
  MaxBatch,     \* bound: events handed over in one call
  MaxReceived   \* bound on the statistic totalReceived

ASSUME StoreAssumption ==
  /\ NoId \notin Ids
  /\ Capacity \in Nat \ {0}
  /\ MaxBatch \in Nat
  /\ MaxReceived \in Nat

VARIABLES
  ring,       \* [order, start, size]
  byId,       \* eventsById, a function from the ids it knows to kinds
  counts,     \* directionCounts, riskCounts and serverCounts
  selected,   \* selectedEventId
  received,   \* totalReceived, which eventsVersion always equals
  dropped,    \* droppedEvents
  pc,         \* the loop a call is in, "idle" between calls
  todo,       \* events of the call still to be looked at
  given,      \* the events it was called with, <<>> between calls
  wRing, wById, wCounts,  \* the call's copies
  toAppend,   \* ids still to be written to the ring
  evicted,    \* ids overwritten in the ring and still in the index
  losses      \* evictedIds.length, or what slice() cut off

pubVars  == <<ring, byId, counts, selected, received, dropped>>
workVars == <<wRing, wById, wCounts, toAppend, evicted, losses>>
vars == <<pubVars, pc, todo, given, workVars>>

Event   == Ids \X Kinds
Slots   == 0 .. Capacity - 1
Rings   == [order : [Slots -> Ids \cup {NoId}], start : Slots, size : 0 .. Capacity]
Indexes == UNION {[S -> Kinds] : S \in SUBSET Ids}
Batches == UNION {[1 .. n -> Event] : n \in 1 .. MaxBatch}

EmptyRing   == [order |-> [s \in Slots |-> NoId], start |-> 0, size |-> 0]
EmptyIndex  == [i \in {} |-> NoId]
EmptyCounts == [k \in Kinds |-> 0]

(* The slot of the i-th oldest id, i counted from 0.                        *)
SlotOf(r, i) == (r.start + i) % Capacity

(* materializeRingIds; where the code throws, the id is NoId.               *)
RingIds(r) == [i \in 1 .. r.size |-> r.order[SlotOf(r, i - 1)]]

Occupied(r) == {r.order[SlotOf(r, i)] : i \in 0 .. r.size - 1}

(* Map.prototype.set and delete.                                            *)
SetEvent(index, id, kind) ==
  [i \in DOMAIN index \cup {id} |-> IF i = id THEN kind ELSE index[i]]
DeleteEvent(index, id) == [i \in DOMAIN index \ {id} |-> index[i]]

(* incrementEventStats and decrementEventStats.                             *)
Increment(c, kind) == [c EXCEPT ![kind] = @ + 1]
Decrement(c, kind) == [c EXCEPT ![kind] = IF @ > 0 THEN @ - 1 ELSE 0]

Histogram(index) == [k \in Kinds |-> Cardinality({i \in DOMAIN index : index[i] = k})]

TypeOK ==
  /\ ring \in Rings /\ wRing \in Rings
  /\ byId \in Indexes /\ wById \in Indexes
  /\ counts \in [Kinds -> Nat] /\ wCounts \in [Kinds -> Nat]
  /\ selected \in Ids \cup {NoId}
  /\ received \in Nat /\ dropped \in Nat /\ losses \in Nat
  /\ pc \in {"idle", "merge", "append", "evict", "dedupe", "restock"}
  /\ given \in Seq(Event) /\ todo \in Seq(Event)
  /\ toAppend \in Seq(Ids) /\ evicted \in Seq(Ids)

Init ==
  /\ ring = EmptyRing /\ wRing = EmptyRing
  /\ byId = EmptyIndex /\ wById = EmptyIndex
  /\ counts = EmptyCounts /\ wCounts = EmptyCounts
  /\ selected = NoId
  /\ received = 0 /\ dropped = 0 /\ losses = 0 /\ given = <<>>
  /\ pc = "idle"
  /\ todo = <<>> /\ toAppend = <<>> /\ evicted = <<>>

-----------------------------------------------------------------------------
(* ingestEvent(s): ingestIncomingEvents.                                    *)

BeginIngest(batch) ==
  /\ pc = "idle"
  /\ received + Len(batch) <= MaxReceived
  /\ pc' = "merge"
  /\ todo' = batch
  /\ given' = batch
  /\ wRing' = ring /\ wById' = byId /\ wCounts' = counts
  /\ toAppend' = <<>> /\ evicted' = <<>> /\ losses' = 0
  /\ UNCHANGED pubVars

(* Mutant: whether an id is known is asked of the published index, so an id *)
(* that a batch repeats is queued twice.                                    *)
MergeByPublishedIndex ==
  /\ pc = "merge"
  /\ todo # <<>>
  /\ LET id   == Head(todo)[1]
         kind == Head(todo)[2]
     IN  /\ wById' = SetEvent(wById, id, kind)
         /\ IF id \in DOMAIN byId
            THEN /\ wCounts' = Increment(Decrement(wCounts, wById[id]), kind)
                 /\ UNCHANGED toAppend
            ELSE /\ wCounts' = Increment(wCounts, kind)
                 /\ toAppend' = Append(toAppend, id)
  /\ todo' = Tail(todo)
  /\ UNCHANGED <<pubVars, pc, given, wRing, evicted, losses>>

(* Mutant: an updated event is counted again, its old kind not taken back.  *)
MergeWithoutDecrement ==
  /\ pc = "merge"
  /\ todo # <<>>
  /\ LET id == Head(todo)[1]
     IN  /\ wById' = SetEvent(wById, id, Head(todo)[2])
         /\ wCounts' = Increment(wCounts, Head(todo)[2])
         /\ toAppend' = IF id \in DOMAIN wById THEN toAppend ELSE Append(toAppend, id)
  /\ todo' = Tail(todo)
  /\ UNCHANGED <<pubVars, pc, given, wRing, evicted, losses>>

(* An id the index knows already is updated in place, a new one is queued.  *)
MergeEvent ==
  /\ pc = "merge"
  /\ todo # <<>>
  /\ LET id   == Head(todo)[1]
         kind == Head(todo)[2]
     IN  /\ wById' = SetEvent(wById, id, kind)
         /\ \/ /\ id \in DOMAIN wById
               /\ wCounts' = Increment(Decrement(wCounts, wById[id]), kind)
               /\ UNCHANGED toAppend
            \/ /\ id \notin DOMAIN wById
               /\ wCounts' = Increment(wCounts, kind)
               /\ toAppend' = Append(toAppend, id)
  /\ todo' = Tail(todo)
  /\ UNCHANGED <<pubVars, pc, given, wRing, evicted, losses>>

MergeDone ==
  /\ pc = "merge"
  /\ todo = <<>>
  /\ pc' = "append"
  /\ UNCHANGED <<pubVars, todo, given, workVars>>

(* appendIdsToRing with room left, for ingestion and for replaceAll.        *)
AppendToFree ==
  /\ pc \in {"append", "restock"}
  /\ toAppend # <<>>
  /\ wRing.size < Capacity
  /\ wRing' = [wRing EXCEPT !.order[SlotOf(wRing, wRing.size)] = Head(toAppend),
                            !.size = @ + 1]
  /\ toAppend' = Tail(toAppend)
  /\ UNCHANGED <<pubVars, pc, todo, given, wById, wCounts, evicted, losses>>

(* The ring is full: the oldest id makes room.                              *)
AppendOverOldest ==
  /\ pc \in {"append", "restock"}
  /\ toAppend # <<>>
  /\ wRing.size = Capacity
  /\ evicted' = IF wRing.order[wRing.start] = NoId THEN evicted
                ELSE Append(evicted, wRing.order[wRing.start])
  /\ losses' = losses + (Len(evicted') - Len(evicted))
  /\ wRing' = [wRing EXCEPT !.order[wRing.start] = Head(toAppend),
                            !.start = (@ + 1) % Capacity]
  /\ toAppend' = Tail(toAppend)
  /\ UNCHANGED <<pubVars, pc, todo, given, wById, wCounts>>

AppendDone ==
  /\ pc = "append"
  /\ toAppend = <<>>
  /\ pc' = "evict"
  /\ UNCHANGED <<pubVars, todo, given, workVars>>

(* An evicted id leaves the index and the statistics.                       *)
EvictId ==
  /\ pc = "evict"
  /\ evicted # <<>>
  /\ IF Head(evicted) \in DOMAIN wById
     THEN /\ wCounts' = Decrement(wCounts, wById[Head(evicted)])
          /\ wById' = DeleteEvent(wById, Head(evicted))
     ELSE UNCHANGED <<wCounts, wById>>
  /\ evicted' = Tail(evicted)
  /\ UNCHANGED <<pubVars, pc, todo, given, wRing, toAppend, losses>>

(* Mutant: eviction does not look at the selection.                         *)
PublishKeepingSelection ==
  /\ pc = "evict"
  /\ evicted = <<>>
  /\ ring' = wRing /\ byId' = wById /\ counts' = wCounts
  /\ received' = received + Len(given)
  /\ dropped' = dropped + losses
  /\ pc' = "idle"
  /\ given' = <<>>
  /\ UNCHANGED <<selected, todo, workVars>>

(* set(): the copies become the state, a selected event that left the       *)
(* index is deselected.                                                     *)
PublishIngest ==
  /\ pc = "evict"
  /\ evicted = <<>>
  /\ ring' = wRing /\ byId' = wById /\ counts' = wCounts
  /\ selected' = IF selected \in DOMAIN wById THEN selected ELSE NoId
  /\ received' = received + Len(given)
  /\ dropped' = dropped + losses
  /\ pc' = "idle"
  /\ given' = <<>>
  /\ UNCHANGED <<todo, workVars>>

-----------------------------------------------------------------------------
(* replaceAll: buildStateFromEvents.                                        *)

BeginReplace(batch) ==
  /\ pc = "idle"
  /\ pc' = "dedupe"
  /\ todo' = batch
  /\ given' = batch
  /\ wRing' = EmptyRing /\ wById' = EmptyIndex /\ wCounts' = EmptyCounts
  /\ toAppend' = <<>> /\ evicted' = <<>> /\ losses' = 0
  /\ UNCHANGED pubVars

(* dedupedEvents.set: the first occurrence gives the place, the last one    *)
(* the event.                                                               *)
DedupeEvent ==
  /\ pc = "dedupe"
  /\ todo # <<>>
  /\ LET id == Head(todo)[1]
     IN  /\ toAppend' = IF id \in DOMAIN wById THEN toAppend ELSE Append(toAppend, id)
         /\ wById' = SetEvent(wById, id, Head(todo)[2])
  /\ todo' = Tail(todo)
  /\ UNCHANGED <<pubVars, pc, given, wRing, wCounts, evicted, losses>>

(* Mutant: slice(0, Capacity), which keeps the oldest.                      *)
TrimNewest ==
  /\ pc = "dedupe"
  /\ todo = <<>>
  /\ losses' = IF Len(toAppend) > Capacity THEN Len(toAppend) - Capacity ELSE 0
  /\ toAppend' = SubSeq(toAppend, 1, Len(toAppend) - losses')
  /\ wById' = [i \in Range(toAppend') |-> wById[i]]
  /\ wCounts' = Histogram(wById')
  /\ pc' = "restock"
  /\ UNCHANGED <<pubVars, todo, given, wRing, evicted>>

(* orderedEvents.slice(-Capacity): only the last ones are indexed, counted  *)
(* and handed to appendIdsToRing.                                           *)
TrimEvents ==
  /\ pc = "dedupe"
  /\ todo = <<>>
  /\ losses' = IF Len(toAppend) > Capacity THEN Len(toAppend) - Capacity ELSE 0
  /\ toAppend' = SubSeq(toAppend, losses' + 1, Len(toAppend))
  /\ wById' = [i \in Range(toAppend') |-> wById[i]]
  /\ wCounts' = Histogram(wById')
  /\ pc' = "restock"
  /\ UNCHANGED <<pubVars, todo, given, wRing, evicted>>

PublishReplace ==
  /\ pc = "restock"
  /\ toAppend = <<>>
  /\ ring' = wRing /\ byId' = wById /\ counts' = wCounts
  /\ selected' = NoId
  /\ received' = Len(given)
  /\ dropped' = losses
  /\ pc' = "idle"
  /\ given' = <<>>
  /\ UNCHANGED <<todo, workVars>>

-----------------------------------------------------------------------------

Clear ==
  /\ pc = "idle"
  /\ ring' = EmptyRing /\ byId' = EmptyIndex /\ counts' = EmptyCounts
  /\ selected' = NoId
  /\ received' = 0 /\ dropped' = 0
  /\ UNCHANGED <<pc, todo, given, workVars>>

SelectEvent(id) ==
  /\ pc = "idle"
  /\ selected' = IF id \in DOMAIN byId THEN id ELSE NoId
  /\ UNCHANGED <<ring, byId, counts, received, dropped, pc, todo, given, workVars>>

ClearSelection ==
  /\ pc = "idle"
  /\ selected' = NoId
  /\ UNCHANGED <<ring, byId, counts, received, dropped, pc, todo, given, workVars>>

Ingesting == MergeEvent \/ MergeDone \/ AppendDone \/ EvictId \/ PublishIngest
Replacing == DedupeEvent \/ TrimEvents \/ PublishReplace
Appending == AppendToFree \/ AppendOverOldest

Next ==
  \/ \E b \in Batches : BeginIngest(b) \/ BeginReplace(b)
  \/ BeginReplace(<<>>)
  \/ Ingesting \/ Replacing \/ Appending
  \/ Clear
  \/ \E id \in Ids : SelectEvent(id)
  \/ ClearSelection

Spec == Init /\ [][Next]_vars

-----------------------------------------------------------------------------
(* Properties of the published state.                                       *)

(* Every occupied slot holds an id (materializeRingIds never throws), and   *)
(* no id is there twice.                                                    *)
WellFormed(r) ==
  /\ \A i, j \in 0 .. r.size - 1 :
       r.order[SlotOf(r, i)] = r.order[SlotOf(r, j)] => i = j
  /\ NoId \notin Occupied(r)

(* The ring is well formed and its ids are exactly the ids of the index: no *)
(* timeline row without its event, no event that can never be evicted.      *)
RingMatchesIndex == WellFormed(ring) /\ Occupied(ring) = DOMAIN byId

(* The running statistics equal a recount of the buffered events: the       *)
(* Math.max clamp never hides a decrement too many.                         *)
CountsMatch == counts = Histogram(byId)

(* A selected event is a buffered event: the inspector never looks up an id *)
(* that eviction or replacement took away.                                  *)
SelectionBuffered == selected # NoId => selected \in DOMAIN byId

(* What a call keeps from step to step: an id of the index is in the ring,  *)
(* still to be appended, or evicted and still to be deleted, never two of   *)
(* these; the statistics count the index.                                   *)
CallInv ==
  /\ IsFiniteSet(DOMAIN wById)
  /\ IsInjective(toAppend) /\ IsInjective(evicted)
  /\ pc \in {"merge", "append", "evict", "restock"} =>
       /\ WellFormed(wRing)
       /\ Occupied(wRing) \cap Range(toAppend) = {}
       /\ Occupied(wRing) \cap Range(evicted) = {}
       /\ Range(toAppend) \cap Range(evicted) = {}
       /\ DOMAIN wById = Occupied(wRing) \cup Range(toAppend) \cup Range(evicted)
       /\ wCounts = Histogram(wById)
  /\ pc \in {"merge", "dedupe", "restock"} => evicted = <<>>
  /\ pc = "evict" => toAppend = <<>>
  /\ pc = "dedupe" => wRing = EmptyRing /\ DOMAIN wById = Range(toAppend)
  /\ pc = "restock" => wRing.size + Len(toAppend) <= Capacity

IndInv ==
  /\ TypeOK
  /\ RingMatchesIndex
  /\ CountsMatch
  /\ SelectionBuffered
  /\ IsFiniteSet(DOMAIN byId)
  /\ CallInv

(* The store implements RecentEvents: however a batch repeats ids, updates  *)
(* events it then evicts or wraps around the ring, what a call publishes is *)
(* the newest Capacity of the events before it and those it was given, in   *)
(* order of arrival and each with its latest contents.                      *)
CallUnderWay ==
  CASE pc = "idle" -> <<"none", <<>>>>
    [] pc \in {"dedupe", "restock"} -> <<"replace", given>>
    [] OTHER -> <<"ingest", given>>

Recent == INSTANCE RecentEvents WITH
  recent <- RingIds(ring), content <- byId, chosen <- selected, call <- CallUnderWay

ImplementsRecent == Recent!Spec
=============================================================================
