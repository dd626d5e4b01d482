-------------------------- MODULE EventStoreProofs --------------------------
(* Theorems about EventStore, for any ids, kinds, capacity and bounds.      *)
EXTENDS EventStore, SequenceLemmas, FiniteSetTheorems

-----------------------------------------------------------------------------
(* Slots of the ring.                                                       *)

Wrap(x) == IF x < Capacity THEN x ELSE x - Capacity

(* An offset below the capacity wraps around at most once.                  *)
LEMMA SlotCases ==
  ASSUME NEW r \in Rings, NEW i \in 0 .. Capacity
  PROVE  SlotOf(r, i) = Wrap(r.start + i)
<1>1. Capacity \in Nat \ {0} /\ r.start \in 0 .. Capacity - 1
  BY StoreAssumption DEF Rings, Slots
<1> DEFINE a == r.start + i
<1>2. a \in Nat /\ a < 2 * Capacity BY <1>1
<1>3. a % Capacity = Wrap(a)
  <2>1. CASE a < Capacity BY <1>1, <1>2, <2>1, Z3 DEF Wrap
  <2>2. CASE a >= Capacity
    <3>1. a - Capacity \in 0 .. Capacity - 1 BY <1>1, <1>2, <2>2
    <3>2. QED BY <1>1, <1>2, <2>2, <3>1, Z3 DEF Wrap
  <2>3. QED BY <1>1, <1>2, <2>1, <2>2
<1>4. SlotOf(r, i) = a % Capacity BY DEF SlotOf
<1>5. QED BY <1>3, <1>4

(* The slot i places after the next one is i + 1 places after this one.     *)
LEMMA NextWrap ==
  ASSUME NEW s \in 0 .. Capacity - 1, NEW i \in 0 .. Capacity - 2
  PROVE  Wrap(Wrap(s + 1) + i) = Wrap(s + (i + 1))
<1>1. Capacity \in Nat \ {0} BY StoreAssumption
<1>2. CASE s + 1 < Capacity
  <2>1. Wrap(s + 1) = s + 1 BY <1>2 DEF Wrap
  <2>2. (s + 1) + i = s + (i + 1) BY <1>1
  <2>3. QED BY <2>1, <2>2
<1>3. CASE s + 1 >= Capacity
  <2>1. s + 1 = Capacity /\ Wrap(s + 1) = 0 BY <1>1, <1>3 DEF Wrap
  <2>2. Wrap(0 + i) = i /\ Wrap(s + (i + 1)) = i BY <1>1, <2>1 DEF Wrap
  <2>3. QED BY <2>1, <2>2
<1>4. QED BY <1>1, <1>2, <1>3

(* Different offsets below the capacity are different slots.                *)
LEMMA SlotsDiffer ==
  ASSUME NEW r \in Rings
  PROVE  /\ \A i \in 0 .. Capacity - 1 : SlotOf(r, i) \in Slots
         /\ \A i, j \in 0 .. Capacity - 1 : SlotOf(r, i) = SlotOf(r, j) => i = j
<1>1. Capacity \in Nat \ {0} /\ r.start \in 0 .. Capacity - 1
  BY StoreAssumption DEF Rings, Slots
<1>2. \A i \in 0 .. Capacity - 1 : SlotOf(r, i) = Wrap(r.start + i)
  <2>1. SUFFICES ASSUME NEW i \in 0 .. Capacity - 1
                 PROVE  SlotOf(r, i) = Wrap(r.start + i)
    OBVIOUS
  <2>2. i \in 0 .. Capacity BY <1>1
  <2>3. QED BY <2>2, SlotCases
<1>3. \A i \in 0 .. Capacity - 1 : Wrap(r.start + i) \in Slots
  BY <1>1 DEF Wrap, Slots
<1>4. \A i, j \in 0 .. Capacity - 1 : Wrap(r.start + i) = Wrap(r.start + j) => i = j
  BY <1>1 DEF Wrap
<1>5. QED BY <1>2, <1>3, <1>4

(* The ring cleared or created is well formed and holds nothing.            *)
LEMMA EmptyRingFacts ==
  /\ EmptyRing \in Rings
  /\ WellFormed(EmptyRing)
  /\ Occupied(EmptyRing) = {}
<1>1. Capacity \in Nat \ {0} BY StoreAssumption
<1>2. EmptyRing \in Rings BY <1>1 DEF EmptyRing, Rings, Slots
<1>3. 0 .. EmptyRing.size - 1 = {} BY DEF EmptyRing
<1>4. QED BY <1>2, <1>3 DEF WellFormed, Occupied

(* What materializeRingIds returns: the ids of the occupied slots.          *)
LEMMA RingSequence ==
  ASSUME NEW r \in Rings, WellFormed(r)
  PROVE  /\ RingIds(r) \in Seq(Ids) /\ Len(RingIds(r)) = r.size
         /\ r.size \in 0 .. Capacity /\ Range(RingIds(r)) = Occupied(r)
<1>1. /\ Capacity \in Nat \ {0} /\ r.size \in 0 .. Capacity
      /\ r.order \in [Slots -> Ids \cup {NoId}]
  BY StoreAssumption DEF Rings
<1>2. /\ \A i \in 1 .. r.size : i - 1 \in 0 .. r.size - 1
      /\ \A i \in 0 .. r.size - 1 : i \in 0 .. Capacity - 1 /\ i + 1 \in 1 .. r.size
      /\ \A i \in 0 .. r.size - 1 : (i + 1) - 1 = i
  BY <1>1
<1>3. \A i \in 0 .. r.size - 1 : r.order[SlotOf(r, i)] \in Ids
  <2>1. \A i \in 0 .. r.size - 1 : SlotOf(r, i) \in Slots BY <1>2, SlotsDiffer
  <2>2. QED BY <1>1, <2>1 DEF WellFormed, Occupied
<1>4. RingIds(r) \in [1 .. r.size -> Ids] BY <1>2, <1>3 DEF RingIds
<1>5. RingIds(r) \in Seq(Ids) /\ Len(RingIds(r)) = r.size /\ DOMAIN RingIds(r) = 1 .. r.size
  BY <1>1, <1>4, LenProperties
<1>6. \A i \in 0 .. r.size - 1 : r.order[SlotOf(r, i)] = RingIds(r)[i + 1]
  BY <1>2 DEF RingIds
<1>7. \A i \in 1 .. r.size : RingIds(r)[i] = r.order[SlotOf(r, i - 1)] BY DEF RingIds
<1>8. Range(RingIds(r)) = Occupied(r)
  BY <1>2, <1>5, <1>6, <1>7 DEF Range, Occupied
<1>9. QED BY <1>1, <1>5, <1>8

LEMMA EmptyRingIds == RingIds(EmptyRing) = <<>>
<1>1. EmptyRing.size = 0 BY DEF EmptyRing
<1>2. RingIds(EmptyRing) \in Seq(Ids) /\ Len(RingIds(EmptyRing)) = 0
  BY <1>1, EmptyRingFacts, RingSequence
<1>3. QED BY <1>2, EmptySeq

(* Writing a new id to the next free slot adds it.                          *)
LEMMA AddToFree ==
  ASSUME NEW r \in Rings, NEW id \in Ids, WellFormed(r), r.size < Capacity,
         id \notin Occupied(r),
         NEW q, q = [r EXCEPT !.order[SlotOf(r, r.size)] = id, !.size = @ + 1]
  PROVE  /\ q \in Rings /\ q.size = r.size + 1
         /\ WellFormed(q)
         /\ Occupied(q) = Occupied(r) \cup {id}
         /\ RingIds(q) = Append(RingIds(r), id)
<1>1. /\ Capacity \in Nat \ {0} /\ r.size \in 0 .. Capacity - 1
      /\ r.start \in Slots /\ r.order \in [Slots -> Ids \cup {NoId}]
  BY StoreAssumption DEF Rings
<1>2. SlotOf(r, r.size) \in Slots BY <1>1, SlotsDiffer
<1>3. /\ q.size = r.size + 1 /\ q.start = r.start
      /\ q.order = [r.order EXCEPT ![SlotOf(r, r.size)] = id]
      /\ q \in Rings
  <2>1. r = [order |-> r.order, start |-> r.start, size |-> r.size]
    BY DEF Rings
  <2>2. q = [order |-> [r.order EXCEPT ![SlotOf(r, r.size)] = id],
             start |-> r.start, size |-> r.size + 1]
    BY <2>1
  <2>3. r.size + 1 \in 0 .. Capacity BY <1>1
  <2>4. [r.order EXCEPT ![SlotOf(r, r.size)] = id] \in [Slots -> Ids \cup {NoId}]
    BY <1>1, <1>2
  <2>5. QED BY <1>1, <2>2, <2>3, <2>4 DEF Rings
<1>4. \A i \in 0 .. r.size : SlotOf(q, i) = SlotOf(r, i) BY <1>3 DEF SlotOf
<1>5. \A i \in 0 .. r.size - 1 : SlotOf(r, i) # SlotOf(r, r.size) /\ SlotOf(r, i) \in Slots
  BY <1>1, SlotsDiffer
<1>6. \A i \in 0 .. r.size - 1 : q.order[SlotOf(q, i)] = r.order[SlotOf(r, i)]
  BY <1>1, <1>3, <1>4, <1>5
<1>7. q.order[SlotOf(q, r.size)] = id
  BY <1>1, <1>2, <1>3, <1>4
<1>8. 0 .. q.size - 1 = (0 .. r.size - 1) \cup {r.size} BY <1>1, <1>3
<1>9. Occupied(q) = Occupied(r) \cup {id}
  BY <1>6, <1>7, <1>8 DEF Occupied
<1>10. NoId \notin Occupied(q) BY <1>9, StoreAssumption DEF WellFormed
<1>11. ASSUME NEW i \in 0 .. q.size - 1, NEW j \in 0 .. q.size - 1,
              q.order[SlotOf(q, i)] = q.order[SlotOf(q, j)]
       PROVE  i = j
  <2>1. \A n \in 0 .. r.size - 1 : q.order[SlotOf(q, n)] # id
    BY <1>6 DEF Occupied
  <2>2. CASE i \in 0 .. r.size - 1 /\ j \in 0 .. r.size - 1
    BY <2>2, <1>6, <1>11 DEF WellFormed
  <2>3. CASE i = r.size \/ j = r.size
    BY <2>1, <2>3, <1>7, <1>8, <1>11
  <2>4. QED BY <2>2, <2>3, <1>8
<1>12. RingIds(q) = Append(RingIds(r), id)
  <2>1. RingIds(r) \in Seq(Ids) /\ Len(RingIds(r)) = r.size BY RingSequence
  <2>2. /\ Append(RingIds(r), id) \in Seq(Ids)
        /\ Len(Append(RingIds(r), id)) = r.size + 1
        /\ \A i \in 1 .. r.size : Append(RingIds(r), id)[i] = RingIds(r)[i]
        /\ Append(RingIds(r), id)[r.size + 1] = id
    BY <2>1, AppendProperties
  <2>3. \A i \in 1 .. r.size : i - 1 \in 0 .. r.size - 1 /\ i \in 1 .. r.size + 1 BY <1>1
  <2>4. \A i \in 1 .. r.size : RingIds(q)[i] = RingIds(r)[i]
    BY <1>3, <1>6, <2>3 DEF RingIds
  <2>5. RingIds(q)[r.size + 1] = id
    <3>1. r.size + 1 \in 1 .. r.size + 1 /\ (r.size + 1) - 1 = r.size BY <1>1
    <3>2. QED BY <1>3, <1>7, <3>1 DEF RingIds
  <2>6. \A i \in 1 .. r.size + 1 : RingIds(q)[i] = Append(RingIds(r), id)[i]
    <3>1. \A i \in 1 .. r.size + 1 : i \in 1 .. r.size \/ i = r.size + 1 BY <1>1
    <3>2. QED BY <2>2, <2>4, <2>5, <3>1
  <2>7. RingIds(q) \in Seq(Ids) /\ Len(RingIds(q)) = r.size + 1
    BY <1>3, <1>10, <1>11, RingSequence DEF WellFormed
  <2>8. QED BY <2>2, <2>6, <2>7, SeqEqual
<1>13. QED BY <1>3, <1>9, <1>10, <1>11, <1>12 DEF WellFormed

(* Overwriting the oldest id of a full ring replaces it.                    *)
LEMMA AddOverOldest ==
  ASSUME NEW r \in Rings, NEW id \in Ids, WellFormed(r), r.size = Capacity,
         id \notin Occupied(r),
         NEW q, q = [r EXCEPT !.order[r.start] = id, !.start = (@ + 1) % Capacity]
  PROVE  /\ q \in Rings /\ q.size = r.size
         /\ WellFormed(q)
         /\ r.order[r.start] \in Occupied(r) /\ r.order[r.start] \in Ids
         /\ Occupied(q) = (Occupied(r) \ {r.order[r.start]}) \cup {id}
         /\ RingIds(q) = Append(Tail(RingIds(r)), id)
<1>1. /\ Capacity \in Nat \ {0}
      /\ r.start \in 0 .. Capacity - 1 /\ Slots = 0 .. Capacity - 1
      /\ r.order \in [Slots -> Ids \cup {NoId}]
  BY StoreAssumption DEF Rings, Slots
<1>2. SlotOf(r, 0) = r.start
  <2>1. SlotOf(r, 0) = Wrap(r.start + 0) BY <1>1, SlotCases
  <2>2. QED BY <2>1, <1>1 DEF Wrap
<1>3. (r.start + 1) % Capacity = SlotOf(r, 1) BY DEF SlotOf
<1>4. (r.start + 1) % Capacity = Wrap(r.start + 1)
  BY <1>1, <1>3, SlotCases
<1>5. (r.start + 1) % Capacity \in Slots BY <1>1, <1>4 DEF Wrap
<1>6. /\ q.size = Capacity /\ q.start = (r.start + 1) % Capacity
      /\ q.order = [r.order EXCEPT ![r.start] = id]
      /\ q \in Rings
  BY <1>1, <1>5 DEF Rings
<1>7. \A i \in 0 .. Capacity - 2 : SlotOf(q, i) = SlotOf(r, i + 1)
  <2>1. SUFFICES ASSUME NEW i \in 0 .. Capacity - 2
                 PROVE  SlotOf(q, i) = SlotOf(r, i + 1)
    OBVIOUS
  <2>2. i \in 0 .. Capacity /\ i + 1 \in 0 .. Capacity BY <1>1
  <2>3. SlotOf(r, i + 1) = Wrap(r.start + (i + 1)) BY <2>2, SlotCases
  <2>4. SlotOf(q, i) = Wrap(q.start + i) BY <2>2, <1>6, SlotCases
  <2>5. q.start = Wrap(r.start + 1) BY <1>4, <1>6
  <2>6. QED BY <2>3, <2>4, <2>5, <1>1, NextWrap
<1>8. SlotOf(q, Capacity - 1) = r.start
  <2>1. Capacity - 1 \in 0 .. Capacity BY <1>1
  <2>2. SlotOf(q, Capacity - 1) = Wrap(q.start + (Capacity - 1))
    BY <2>1, <1>6, SlotCases
  <2>3. q.start = Wrap(r.start + 1) BY <1>4, <1>6
  <2>4. Wrap(Wrap(r.start + 1) + (Capacity - 1)) = r.start BY <1>1 DEF Wrap
  <2>5. QED BY <2>2, <2>3, <2>4
<1>9. \A i \in 1 .. Capacity - 1 : SlotOf(r, i) # r.start /\ SlotOf(r, i) \in Slots
  BY <1>1, <1>2, SlotsDiffer
<1>10. \A i \in 0 .. Capacity - 2 : q.order[SlotOf(q, i)] = r.order[SlotOf(r, i + 1)]
  BY <1>1, <1>6, <1>7, <1>9
<1>11. q.order[SlotOf(q, Capacity - 1)] = id
  BY <1>1, <1>6, <1>8
<1>12. /\ r.order[r.start] \in Occupied(r)
       /\ r.order[r.start] \in Ids
  <2>1. 0 \in 0 .. r.size - 1 BY <1>1
  <2>2. r.order[r.start] \in Occupied(r) BY <2>1, <1>2 DEF Occupied
  <2>3. QED BY <2>2, <1>1 DEF WellFormed
<1>13. \A i \in 1 .. Capacity - 1 : r.order[SlotOf(r, i)] # r.order[r.start]
  <2>1. \A i \in 1 .. Capacity - 1 : i \in 0 .. r.size - 1 /\ 0 \in 0 .. r.size - 1 /\ i # 0
    BY <1>1
  <2>2. QED BY <2>1, <1>2 DEF WellFormed
<1>14. Occupied(q) = (Occupied(r) \ {r.order[r.start]}) \cup {id}
  <2>1. ASSUME NEW x \in Occupied(q)
        PROVE  x \in (Occupied(r) \ {r.order[r.start]}) \cup {id}
    <3>1. PICK i \in 0 .. Capacity - 1 : x = q.order[SlotOf(q, i)]
      BY <1>6 DEF Occupied
    <3>2. CASE i = Capacity - 1 BY <3>1, <3>2, <1>11
    <3>3. CASE i \in 0 .. Capacity - 2
      <4>1. i + 1 \in 1 .. Capacity - 1 /\ i + 1 \in 0 .. r.size - 1
        BY <3>3, <1>1
      <4>2. QED BY <3>1, <3>3, <4>1, <1>10, <1>13 DEF Occupied
    <3>4. QED BY <3>2, <3>3, <1>1
  <2>2. ASSUME NEW x \in Occupied(r), x # r.order[r.start]
        PROVE  x \in Occupied(q)
    <3>1. PICK i \in 0 .. r.size - 1 : x = r.order[SlotOf(r, i)]
      BY DEF Occupied
    <3>2. i # 0 BY <3>1, <2>2, <1>2
    <3>3. i - 1 \in 0 .. Capacity - 2 /\ i - 1 \in 0 .. q.size - 1 /\ (i - 1) + 1 = i
      BY <3>1, <3>2, <1>1, <1>6
    <3>4. QED BY <3>1, <3>3, <1>10 DEF Occupied
  <2>3. id \in Occupied(q)
    <3>1. Capacity - 1 \in 0 .. q.size - 1 BY <1>1, <1>6
    <3>2. QED BY <3>1, <1>11 DEF Occupied
  <2>4. QED BY <2>1, <2>2, <2>3
<1>15. NoId \notin Occupied(q) BY <1>14, StoreAssumption DEF WellFormed
<1>16. ASSUME NEW i \in 0 .. q.size - 1, NEW j \in 0 .. q.size - 1,
              q.order[SlotOf(q, i)] = q.order[SlotOf(q, j)]
       PROVE  i = j
  <2>1. \A n \in 0 .. Capacity - 2 : q.order[SlotOf(q, n)] # id
    <3>1. \A n \in 0 .. Capacity - 2 : n + 1 \in 0 .. r.size - 1 BY <1>1
    <3>2. QED BY <3>1, <1>10 DEF Occupied
  <2>2. CASE i \in 0 .. Capacity - 2 /\ j \in 0 .. Capacity - 2
    <3>1. /\ i + 1 \in 0 .. r.size - 1 /\ j + 1 \in 0 .. r.size - 1
          /\ r.order[SlotOf(r, i + 1)] = r.order[SlotOf(r, j + 1)]
      BY <2>2, <1>1, <1>10, <1>16
    <3>2. i + 1 = j + 1 BY <3>1 DEF WellFormed
    <3>3. QED BY <2>2, <3>2
  <2>3. CASE i = Capacity - 1 \/ j = Capacity - 1
    BY <2>1, <2>3, <1>1, <1>6, <1>11, <1>16
  <2>4. QED BY <2>2, <2>3, <1>1, <1>6
<1>17. RingIds(q) = Append(Tail(RingIds(r)), id)
  <2>1. RingIds(r) \in Seq(Ids) /\ Len(RingIds(r)) = Capacity BY <1>1, RingSequence
  <2>2. RingIds(q) \in Seq(Ids) /\ Len(RingIds(q)) = Capacity
    BY <1>6, <1>15, <1>16, RingSequence DEF WellFormed
  <2>3. RingIds(r) # <<>> BY <1>1, <2>1, EmptySeq
  <2>4. /\ Tail(RingIds(r)) \in Seq(Ids)
        /\ Len(Tail(RingIds(r))) = Capacity - 1
        /\ \A i \in 1 .. Capacity - 1 : Tail(RingIds(r))[i] = RingIds(r)[i + 1]
    BY <2>1, <2>3, HeadTailProperties
  <2>5. /\ Append(Tail(RingIds(r)), id) \in Seq(Ids)
        /\ Len(Append(Tail(RingIds(r)), id)) = (Capacity - 1) + 1
        /\ \A i \in 1 .. Capacity - 1 : Append(Tail(RingIds(r)), id)[i] = Tail(RingIds(r))[i]
        /\ Append(Tail(RingIds(r)), id)[(Capacity - 1) + 1] = id
    BY <2>4, AppendProperties
  <2>6. ASSUME NEW i \in 1 .. Capacity - 1 PROVE RingIds(q)[i] = RingIds(r)[i + 1]
    <3>1. /\ i \in 1 .. Capacity /\ i + 1 \in 1 .. Capacity /\ i - 1 \in 0 .. Capacity - 2
          /\ (i - 1) + 1 = i /\ (i + 1) - 1 = i
      BY <1>1
    <3>2. RingIds(q)[i] = q.order[SlotOf(q, i - 1)] BY <1>6, <3>1 DEF RingIds
    <3>3. RingIds(r)[i + 1] = r.order[SlotOf(r, i)] BY <3>1 DEF RingIds
    <3>4. QED BY <1>10, <3>1, <3>2, <3>3
  <2>7. RingIds(q)[Capacity] = id
    <3>1. Capacity \in 1 .. Capacity BY <1>1
    <3>2. QED BY <1>6, <1>11, <3>1 DEF RingIds
  <2>8. /\ (Capacity - 1) + 1 = Capacity
        /\ \A i \in 1 .. Capacity : i \in 1 .. Capacity - 1 \/ i = Capacity
    BY <1>1
  <2>9. \A i \in 1 .. Capacity : RingIds(q)[i] = Append(Tail(RingIds(r)), id)[i]
    BY <2>4, <2>5, <2>6, <2>7, <2>8
  <2>10. QED BY <2>2, <2>5, <2>8, <2>9, SeqEqual
<1>18. QED BY <1>6, <1>12, <1>14, <1>15, <1>16, <1>17 DEF WellFormed

-----------------------------------------------------------------------------
(* The index and its statistics.                                            *)

LEMMA IndexFacts ==
  \A f : f \in Indexes <=> /\ f \in [DOMAIN f -> Kinds]
                           /\ DOMAIN f \subseteq Ids
  BY DEF Indexes

LEMMA EmptyIndexFacts ==
  /\ EmptyIndex \in Indexes
  /\ DOMAIN EmptyIndex = {}
  /\ EmptyCounts \in [Kinds -> Nat]
  /\ Histogram(EmptyIndex) = EmptyCounts
<1>1. EmptyIndex \in Indexes /\ DOMAIN EmptyIndex = {}
  <2>1. DOMAIN EmptyIndex = {} BY DEF EmptyIndex
  <2>2. EmptyIndex \in [{} -> Kinds] BY DEF EmptyIndex
  <2>3. QED BY <2>1, <2>2, IndexFacts
<1>2. EmptyCounts \in [Kinds -> Nat] BY DEF EmptyCounts
<1>3. \A k \in Kinds : {i \in DOMAIN EmptyIndex : EmptyIndex[i] = k} = {} BY <1>1
<1>4. \A k \in Kinds : Cardinality({i \in DOMAIN EmptyIndex : EmptyIndex[i] = k}) = 0
  BY <1>3, FS_EmptySet
<1>5. Histogram(EmptyIndex) = EmptyCounts BY <1>4 DEF Histogram, EmptyCounts
<1>6. QED BY <1>1, <1>2, <1>5

LEMMA SetEventFacts ==
  ASSUME NEW f \in Indexes, NEW id \in Ids, NEW kind \in Kinds
  PROVE  /\ SetEvent(f, id, kind) \in Indexes
         /\ DOMAIN SetEvent(f, id, kind) = DOMAIN f \cup {id}
         /\ SetEvent(f, id, kind)[id] = kind
         /\ \A i \in DOMAIN f \ {id} : SetEvent(f, id, kind)[i] = f[i]
<1> DEFINE g == SetEvent(f, id, kind)
<1>1. f \in [DOMAIN f -> Kinds] /\ DOMAIN f \subseteq Ids BY IndexFacts
<1>2. DOMAIN g = DOMAIN f \cup {id} BY DEF SetEvent
<1>3. g \in [DOMAIN f \cup {id} -> Kinds] BY <1>1 DEF SetEvent
<1>4. g \in Indexes BY <1>1, <1>2, <1>3, IndexFacts
<1>5. QED BY <1>2, <1>4 DEF SetEvent

LEMMA DeleteEventFacts ==
  ASSUME NEW f \in Indexes, NEW id
  PROVE  /\ DeleteEvent(f, id) \in Indexes
         /\ DOMAIN DeleteEvent(f, id) = DOMAIN f \ {id}
         /\ \A i \in DOMAIN f \ {id} : DeleteEvent(f, id)[i] = f[i]
<1> DEFINE g == DeleteEvent(f, id)
<1>1. f \in [DOMAIN f -> Kinds] /\ DOMAIN f \subseteq Ids BY IndexFacts
<1>2. DOMAIN g = DOMAIN f \ {id} BY DEF DeleteEvent
<1>3. g \in [DOMAIN f \ {id} -> Kinds] BY <1>1 DEF DeleteEvent
<1>4. g \in Indexes BY <1>1, <1>2, <1>3, IndexFacts
<1>5. QED BY <1>2, <1>4 DEF DeleteEvent

(* The ids of an index that have a kind.                                    *)
OfKind(f, k) == {i \in DOMAIN f : f[i] = k}

LEMMA HistogramFacts ==
  ASSUME NEW f \in Indexes, IsFiniteSet(DOMAIN f)
  PROVE  /\ Histogram(f) = [k \in Kinds |-> Cardinality(OfKind(f, k))]
         /\ Histogram(f) \in [Kinds -> Nat]
         /\ \A k \in Kinds : IsFiniteSet(OfKind(f, k))
<1>1. \A k \in Kinds : OfKind(f, k) \subseteq DOMAIN f BY DEF OfKind
<1>2. \A k \in Kinds : IsFiniteSet(OfKind(f, k)) BY <1>1, FS_Subset
<1>3. \A k \in Kinds : Cardinality(OfKind(f, k)) \in Nat
  BY <1>2, FS_CardinalityType
<1>4. Histogram(f) = [k \in Kinds |-> Cardinality(OfKind(f, k))]
  BY DEF Histogram, OfKind
<1>5. QED BY <1>2, <1>3, <1>4

(* Counting a new event is incrementing its kind.                           *)
LEMMA CountNew ==
  ASSUME NEW f \in Indexes, IsFiniteSet(DOMAIN f),
         NEW id \in Ids, id \notin DOMAIN f, NEW kind \in Kinds
  PROVE  Histogram(SetEvent(f, id, kind)) = Increment(Histogram(f), kind)
<1> DEFINE g == SetEvent(f, id, kind)
<1>1. /\ g \in Indexes /\ DOMAIN g = DOMAIN f \cup {id} /\ g[id] = kind
      /\ \A i \in DOMAIN f \ {id} : g[i] = f[i]
  <2>1. g \in Indexes BY SetEventFacts
  <2>2. DOMAIN g = DOMAIN f \cup {id} BY DEF SetEvent
  <2>3. g[id] = kind BY DEF SetEvent
  <2>4. \A i \in DOMAIN f \ {id} : g[i] = f[i] BY DEF SetEvent
  <2> HIDE DEF g
  <2>5. QED BY <2>1, <2>2, <2>3, <2>4
<1> HIDE DEF g
<1>2. IsFiniteSet(DOMAIN g)
  <2>1. IsFiniteSet(DOMAIN f \cup {id}) BY FS_AddElement
  <2>2. QED BY <2>1, <1>1
<1>3. ASSUME NEW k \in Kinds
      PROVE  Cardinality(OfKind(g, k))
               = IF k = kind THEN Cardinality(OfKind(f, k)) + 1
                 ELSE Cardinality(OfKind(f, k))
  <2>1. CASE k = kind
    <3>1. OfKind(g, k) = OfKind(f, k) \cup {id} BY <1>1, <2>1 DEF OfKind
    <3>2. id \notin OfKind(f, k) BY DEF OfKind
    <3>3. IsFiniteSet(OfKind(f, k)) BY HistogramFacts
    <3>4. QED BY <2>1, <3>1, <3>2, <3>3, FS_AddElement
  <2>2. CASE k # kind
    <3>1. OfKind(g, k) = OfKind(f, k) BY <1>1, <2>2 DEF OfKind
    <3>2. QED BY <2>2, <3>1
  <2>3. QED BY <2>1, <2>2
<1>4. /\ Histogram(g) = [k \in Kinds |-> Cardinality(OfKind(g, k))]
      /\ Histogram(f) = [k \in Kinds |-> Cardinality(OfKind(f, k))]
  BY <1>1, <1>2, HistogramFacts
<1>5. Histogram(g) = Increment(Histogram(f), kind)
  BY <1>3, <1>4 DEF Increment
<1>6. QED BY <1>5 DEF g

(* Deleting an event decrements its kind, which the clamp never stops.      *)
LEMMA CountDeleted ==
  ASSUME NEW f \in Indexes, IsFiniteSet(DOMAIN f), NEW id \in DOMAIN f
  PROVE  Histogram(DeleteEvent(f, id)) = Decrement(Histogram(f), f[id])
<1> DEFINE g == DeleteEvent(f, id)
<1>1. /\ g \in Indexes /\ DOMAIN g = DOMAIN f \ {id}
      /\ \A i \in DOMAIN f \ {id} : g[i] = f[i]
  BY DeleteEventFacts
<1>2. IsFiniteSet(DOMAIN g) BY <1>1, FS_RemoveElement
<1> HIDE DEF g
<1>3. ASSUME NEW k \in Kinds
      PROVE  Cardinality(OfKind(g, k))
               = IF k = f[id] THEN IF Cardinality(OfKind(f, k)) > 0
                                   THEN Cardinality(OfKind(f, k)) - 1 ELSE 0
                 ELSE Cardinality(OfKind(f, k))
  <2>1. CASE k = f[id]
    <3>1. OfKind(g, k) = OfKind(f, k) \ {id} BY <1>1, <2>1 DEF OfKind
    <3>2. id \in OfKind(f, k) BY <2>1 DEF OfKind
    <3>3. IsFiniteSet(OfKind(f, k)) BY HistogramFacts
    <3>4. Cardinality(OfKind(g, k)) = Cardinality(OfKind(f, k)) - 1
      BY <3>1, <3>2, <3>3, FS_RemoveElement
    <3>5. Cardinality(OfKind(f, k)) \in Nat /\ Cardinality(OfKind(f, k)) # 0
      BY <3>2, <3>3, FS_CardinalityType, FS_EmptySet
    <3>6. QED BY <2>1, <3>4, <3>5
  <2>2. CASE k # f[id]
    <3>1. OfKind(g, k) = OfKind(f, k) BY <1>1, <2>2 DEF OfKind
    <3>2. QED BY <2>2, <3>1
  <2>3. QED BY <2>1, <2>2
<1>4. /\ Histogram(g) = [k \in Kinds |-> Cardinality(OfKind(g, k))]
      /\ Histogram(f) = [k \in Kinds |-> Cardinality(OfKind(f, k))]
  BY <1>1, <1>2, HistogramFacts
<1>5. Histogram(g) = Decrement(Histogram(f), f[id])
  BY <1>3, <1>4 DEF Decrement
<1>6. QED BY <1>5 DEF g

(* An update in place is a deletion and an insertion.                       *)
LEMMA CountUpdated ==
  ASSUME NEW f \in Indexes, IsFiniteSet(DOMAIN f),
         NEW id \in DOMAIN f, NEW kind \in Kinds
  PROVE  Histogram(SetEvent(f, id, kind))
           = Increment(Decrement(Histogram(f), f[id]), kind)
<1> DEFINE h == DeleteEvent(f, id)
<1>1. id \in Ids BY IndexFacts
<1>2. h \in Indexes /\ DOMAIN h = DOMAIN f \ {id}
  BY DeleteEventFacts
<1>3. IsFiniteSet(DOMAIN h) BY <1>2, FS_RemoveElement
<1>4. SetEvent(f, id, kind) = SetEvent(h, id, kind)
  BY DEF SetEvent, DeleteEvent
<1>5. Histogram(h) = Decrement(Histogram(f), f[id]) BY CountDeleted
<1> HIDE DEF h
<1>6. Histogram(SetEvent(h, id, kind)) = Increment(Histogram(h), kind)
  BY <1>1, <1>2, <1>3, CountNew
<1>7. QED BY <1>4, <1>5, <1>6

-----------------------------------------------------------------------------
(* The inductive invariant, in two halves: what the program sees, and the   *)
(* copies of the call under way.                                            *)

Published ==
  /\ ring \in Rings /\ byId \in Indexes /\ counts \in [Kinds -> Nat]
  /\ selected \in Ids \cup {NoId}
  /\ received \in Nat /\ dropped \in Nat
  /\ RingMatchesIndex
  /\ CountsMatch
  /\ SelectionBuffered
  /\ IsFiniteSet(DOMAIN byId)

Working ==
  /\ wRing \in Rings /\ wById \in Indexes /\ wCounts \in [Kinds -> Nat]
  /\ losses \in Nat /\ given \in Seq(Event)
  /\ pc \in {"idle", "merge", "append", "evict", "dedupe", "restock"}
  /\ todo \in Seq(Event) /\ toAppend \in Seq(Ids) /\ evicted \in Seq(Ids)
  /\ CallInv

LEMMA Halves == IndInv <=> Published /\ Working
  BY DEF IndInv, Published, Working, TypeOK

LEMMA HalvesNext == IndInv' <=> Published' /\ Working'
  BY DEF IndInv, Published, Working, TypeOK

LEMMA PublishedKept ==
  ASSUME Published, UNCHANGED pubVars
  PROVE  Published'
  BY DEF Published, pubVars, RingMatchesIndex, CountsMatch, SelectionBuffered,
         WellFormed, Occupied, SlotOf, Histogram

LEMMA WorkingKept ==
  ASSUME Working, UNCHANGED <<pc, todo, given, workVars>>
  PROVE  Working'
  BY DEF Working, workVars, CallInv, WellFormed, Occupied, SlotOf, Histogram

LEMMA EmptySeqFacts ==
  /\ \A S : <<>> \in Seq(S)
  /\ IsInjective(<<>>)
  /\ Range(<<>>) = {}
<1>1. \A S : <<>> \in Seq(S) BY EmptySeq
<1>2. IsInjective(<<>>) BY DEF IsInjective
<1>3. QED BY <1>1, <1>2, RangeEmpty

LEMMA BatchFacts ==
  ASSUME NEW b \in Batches
  PROVE  b \in Seq(Event) /\ Len(b) \in Nat
<1>1. PICK n \in 1 .. MaxBatch : b \in [1 .. n -> Event] BY DEF Batches
<1>2. n \in Nat BY StoreAssumption
<1>3. QED BY <1>1, <1>2, LenProperties

LEMMA InitInv == Init => IndInv
<1> SUFFICES ASSUME Init PROVE IndInv OBVIOUS
<1>1. IsFiniteSet(DOMAIN EmptyIndex) BY EmptyIndexFacts, FS_EmptySet
<1>2. Published
  BY <1>1, EmptyRingFacts, EmptyIndexFacts
  DEF Init, Published, RingMatchesIndex, CountsMatch, SelectionBuffered
<1>3. Working
  BY <1>1, EmptyRingFacts, EmptyIndexFacts, EmptySeqFacts
  DEF Init, Working, CallInv
<1>4. QED BY <1>2, <1>3, Halves

LEMMA StepBeginIngest ==
  ASSUME IndInv, NEW b \in Batches, BeginIngest(b)
  PROVE  IndInv'
<1>1. Published /\ Working BY Halves
<1>2. Published' BY <1>1, PublishedKept DEF BeginIngest
<1>3. /\ wRing' = ring /\ wById' = byId /\ wCounts' = counts
      /\ pc' = "merge" /\ todo' = b /\ given' = b
      /\ toAppend' = <<>> /\ evicted' = <<>> /\ losses' = 0
  BY DEF BeginIngest
<1>4. /\ WellFormed(wRing') /\ Occupied(wRing') = DOMAIN wById'
      /\ wCounts' = Histogram(wById') /\ IsFiniteSet(DOMAIN wById')
      /\ wRing' \in Rings /\ wById' \in Indexes /\ wCounts' \in [Kinds -> Nat]
  BY <1>1, <1>3 DEF Published, RingMatchesIndex, CountsMatch
<1>5. Working'
  BY <1>3, <1>4, BatchFacts, EmptySeqFacts DEF Working, CallInv
<1>6. QED BY <1>2, <1>5, HalvesNext

LEMMA StepMergeEvent ==
  ASSUME IndInv, MergeEvent
  PROVE  IndInv'
<1>1. Published /\ Working BY Halves
<1>2. Published' BY <1>1, PublishedKept DEF MergeEvent
<1> DEFINE id == Head(todo)[1]
           kind == Head(todo)[2]
<1>3. /\ id \in Ids /\ kind \in Kinds
      /\ Tail(todo) \in Seq(Event)
  <2>1. Head(todo) \in Event /\ Tail(todo) \in Seq(Event)
    BY <1>1, HeadTailProperties DEF MergeEvent, Working
  <2>2. QED BY <2>1 DEF Event
<1>4. /\ wById' = SetEvent(wById, id, kind)
      /\ todo' = Tail(todo)
      /\ UNCHANGED <<pc, given, wRing, evicted, losses>>
      /\ pc = "merge"
  BY DEF MergeEvent
<1>5. /\ wById \in Indexes /\ IsFiniteSet(DOMAIN wById)
      /\ wCounts = Histogram(wById) /\ wCounts \in [Kinds -> Nat]
      /\ toAppend \in Seq(Ids) /\ IsInjective(toAppend)
      /\ DOMAIN wById = Occupied(wRing) \cup Range(toAppend) \cup Range(evicted)
      /\ evicted = <<>>
  BY <1>1, <1>4 DEF Working, CallInv
<1>6. /\ wById' \in Indexes
      /\ DOMAIN wById' = DOMAIN wById \cup {id}
      /\ IsFiniteSet(DOMAIN wById')
  <2>1. /\ wById' \in Indexes
        /\ DOMAIN wById' = DOMAIN wById \cup {id}
    <3>1. /\ id \in Ids /\ kind \in Kinds /\ wById \in Indexes
          /\ wById' = SetEvent(wById, id, kind)
      BY <1>3, <1>4, <1>5
    <3> HIDE DEF id, kind
    <3>2. QED BY <3>1, SetEventFacts
  <2>2. IsFiniteSet(DOMAIN wById \cup {id}) BY <1>5, FS_AddElement
  <2>3. QED BY <2>1, <2>2
<1>7. Histogram(wById') \in [Kinds -> Nat] BY <1>6, HistogramFacts
<1>8. wCounts' = Histogram(wById')
  <2>1. CASE id \in DOMAIN wById
    <3>1. wCounts' = Increment(Decrement(wCounts, wById[id]), kind)
      BY <2>1 DEF MergeEvent
    <3>2. QED BY <3>1, <2>1, <1>3, <1>4, <1>5, CountUpdated
  <2>2. CASE id \notin DOMAIN wById
    <3>1. wCounts' = Increment(wCounts, kind) BY <2>2 DEF MergeEvent
    <3>2. QED BY <3>1, <2>2, <1>3, <1>4, <1>5, CountNew
  <2>3. QED BY <2>1, <2>2
<1>9. /\ toAppend' \in Seq(Ids) /\ IsInjective(toAppend')
      /\ Range(toAppend') \subseteq Range(toAppend) \cup {id}
      /\ DOMAIN wById' = Occupied(wRing) \cup Range(toAppend') \cup Range(evicted)
      /\ Occupied(wRing) \cap Range(toAppend') = {}
  <2>1. CASE id \in DOMAIN wById
    <3>1. toAppend' = toAppend BY <2>1 DEF MergeEvent
    <3>2. Occupied(wRing) \cap Range(toAppend) = {}
      BY <1>1, <1>4 DEF Working, CallInv
    <3>3. QED BY <3>1, <3>2, <2>1, <1>5, <1>6
  <2>2. CASE id \notin DOMAIN wById
    <3>1. toAppend' = Append(toAppend, id) BY <2>2 DEF MergeEvent
    <3>2. Occupied(wRing) \cap Range(toAppend) = {}
      BY <1>1, <1>4 DEF Working, CallInv
    <3>3. Range(toAppend') = Range(toAppend) \cup {id}
      BY <3>1, <1>3, <1>5, RangeAppend
    <3>4. toAppend' \in Seq(Ids) /\ IsInjective(toAppend')
      BY <3>1, <2>2, <1>3, <1>5, InjectiveAppend, AppendProperties
    <3>5. QED BY <3>2, <3>3, <3>4, <2>2, <1>5, <1>6
  <2>3. QED BY <2>1, <2>2
<1>10. Working'
  <2>1. /\ wRing' \in Rings /\ losses' \in Nat /\ given' \in Seq(Event)
        /\ evicted' = <<>> /\ evicted' \in Seq(Ids) /\ IsInjective(evicted')
        /\ Range(evicted') = {} /\ WellFormed(wRing')
    BY <1>1, <1>4, <1>5, EmptySeqFacts DEF Working, CallInv
  <2>2. QED BY <2>1, <1>3, <1>4, <1>6, <1>7, <1>8, <1>9 DEF Working, CallInv
<1>11. QED BY <1>2, <1>10, HalvesNext

LEMMA StepMergeDone ==
  ASSUME IndInv, MergeDone
  PROVE  IndInv'
<1>1. Published /\ Working BY Halves
<1>2. Published' BY <1>1, PublishedKept DEF MergeDone
<1>3. UNCHANGED <<todo, given, wRing, wById, wCounts, toAppend, evicted, losses>>
  BY DEF MergeDone, workVars
<1>4. /\ WellFormed(wRing)' <=> WellFormed(wRing)
      /\ Occupied(wRing)' = Occupied(wRing)
      /\ Histogram(wById)' = Histogram(wById)
  BY <1>3 DEF WellFormed, Occupied, SlotOf, Histogram
<1>5. Working'
  BY <1>1, <1>3, <1>4 DEF MergeDone, Working, CallInv
<1>6. QED BY <1>2, <1>5, HalvesNext

LEMMA StepAppendDone ==
  ASSUME IndInv, AppendDone
  PROVE  IndInv'
<1>1. Published /\ Working BY Halves
<1>2. Published' BY <1>1, PublishedKept DEF AppendDone
<1>3. UNCHANGED <<todo, given, wRing, wById, wCounts, toAppend, evicted, losses>>
  BY DEF AppendDone, workVars
<1>4. /\ WellFormed(wRing)' <=> WellFormed(wRing)
      /\ Occupied(wRing)' = Occupied(wRing)
      /\ Histogram(wById)' = Histogram(wById)
  BY <1>3 DEF WellFormed, Occupied, SlotOf, Histogram
<1>5. Working'
  BY <1>1, <1>3, <1>4 DEF AppendDone, Working, CallInv
<1>6. QED BY <1>2, <1>5, HalvesNext

LEMMA StepAppendToFree ==
  ASSUME IndInv, AppendToFree
  PROVE  IndInv'
<1>1. Published /\ Working BY Halves
<1>2. Published' BY <1>1, PublishedKept DEF AppendToFree
<1> DEFINE id == Head(toAppend)
<1>3. /\ toAppend \in Seq(Ids) /\ toAppend # <<>> /\ IsInjective(toAppend)
      /\ wRing \in Rings /\ WellFormed(wRing) /\ wRing.size < Capacity
      /\ Occupied(wRing) \cap Range(toAppend) = {}
      /\ toAppend' = Tail(toAppend)
      /\ UNCHANGED <<pc, todo, given, wById, wCounts, evicted, losses>>
      /\ pc \in {"append", "restock"}
  BY <1>1 DEF AppendToFree, Working, CallInv
<1>4. /\ id \in Ids /\ Tail(toAppend) \in Seq(Ids)
      /\ Len(Tail(toAppend)) = Len(toAppend) - 1
      /\ Len(toAppend) \in Nat /\ Len(Tail(toAppend)) \in Nat
  BY <1>3, HeadTailProperties, LenProperties
<1>5. /\ IsInjective(Tail(toAppend)) /\ id \notin Range(Tail(toAppend))
      /\ Range(toAppend) = {id} \cup Range(Tail(toAppend))
  BY <1>3, InjectiveTail, RangeHeadTail
<1>6. /\ wRing' \in Rings /\ wRing'.size = wRing.size + 1
      /\ WellFormed(wRing')
      /\ Occupied(wRing') = Occupied(wRing) \cup {id}
  <2>1. wRing' = [wRing EXCEPT !.order[SlotOf(wRing, wRing.size)] = id,
                               !.size = @ + 1]
    BY DEF AppendToFree
  <2>2. id \notin Occupied(wRing) BY <1>3, <1>5
  <2>3. QED BY <2>1, <2>2, <1>3, <1>4, AddToFree
<1>7. pc = "restock" => wRing'.size + Len(toAppend') <= Capacity
  <2>1. wRing.size \in Nat /\ Capacity \in Nat BY <1>3, StoreAssumption DEF Rings
  <2>2. pc = "restock" => wRing.size + Len(toAppend) <= Capacity
    BY <1>1 DEF Working, CallInv
  <2>3. (wRing.size + 1) + (Len(toAppend) - 1) = wRing.size + Len(toAppend)
    BY <2>1, <1>4
  <2>4. QED BY <2>2, <2>3, <1>3, <1>4, <1>6
<1>8. /\ wById \in Indexes /\ wCounts \in [Kinds -> Nat] /\ losses \in Nat
      /\ given \in Seq(Event) /\ todo \in Seq(Event) /\ evicted \in Seq(Ids)
      /\ IsFiniteSet(DOMAIN wById) /\ IsInjective(evicted)
      /\ Occupied(wRing) \cap Range(evicted) = {}
      /\ Range(toAppend) \cap Range(evicted) = {}
      /\ DOMAIN wById = Occupied(wRing) \cup Range(toAppend) \cup Range(evicted)
      /\ wCounts = Histogram(wById)
      /\ pc = "restock" => evicted = <<>>
  BY <1>1, <1>3 DEF Working, CallInv
<1>9. Working'
  BY <1>3, <1>4, <1>5, <1>6, <1>7, <1>8 DEF Working, CallInv, Histogram
<1>10. QED BY <1>2, <1>9, HalvesNext

LEMMA StepAppendOverOldest ==
  ASSUME IndInv, AppendOverOldest
  PROVE  IndInv'
<1>1. Published /\ Working BY Halves
<1>2. Published' BY <1>1, PublishedKept DEF AppendOverOldest
<1> DEFINE id == Head(toAppend)
           oldest == wRing.order[wRing.start]
<1>3. /\ toAppend \in Seq(Ids) /\ toAppend # <<>> /\ IsInjective(toAppend)
      /\ wRing \in Rings /\ WellFormed(wRing) /\ wRing.size = Capacity
      /\ Occupied(wRing) \cap Range(toAppend) = {}
      /\ toAppend' = Tail(toAppend)
      /\ UNCHANGED <<pc, todo, given, wById, wCounts>>
      /\ pc \in {"append", "restock"}
      /\ evicted \in Seq(Ids) /\ IsInjective(evicted)
  BY <1>1 DEF AppendOverOldest, Working, CallInv
<1>4. /\ id \in Ids /\ Tail(toAppend) \in Seq(Ids)
      /\ Len(toAppend) \in Nat \ {0} /\ Len(evicted) \in Nat
  BY <1>3, HeadTailProperties, LenProperties, EmptySeq
<1>5. /\ IsInjective(Tail(toAppend)) /\ id \notin Range(Tail(toAppend))
      /\ Range(toAppend) = {id} \cup Range(Tail(toAppend))
  BY <1>3, InjectiveTail, RangeHeadTail
<1>6. /\ wRing' \in Rings /\ WellFormed(wRing')
      /\ oldest \in Occupied(wRing) /\ oldest \in Ids
      /\ Occupied(wRing') = (Occupied(wRing) \ {oldest}) \cup {id}
  <2>1. wRing' = [wRing EXCEPT !.order[wRing.start] = id,
                               !.start = (@ + 1) % Capacity]
    BY DEF AppendOverOldest
  <2>2. id \notin Occupied(wRing) BY <1>3, <1>5
  <2>3. QED BY <2>1, <2>2, <1>3, <1>4, AddOverOldest
(* replaceAll never gets here: it has room for everything it appends.       *)
<1>7. pc = "append"
  <2>1. pc = "restock" => wRing.size + Len(toAppend) <= Capacity
    BY <1>1 DEF Working, CallInv
  <2>2. Capacity \in Nat BY StoreAssumption
  <2>3. ~(Capacity + Len(toAppend) <= Capacity) BY <1>4, <2>2
  <2>4. QED BY <2>1, <2>3, <1>3
<1>8. /\ Occupied(wRing) \cap Range(evicted) = {}
      /\ Range(toAppend) \cap Range(evicted) = {}
      /\ DOMAIN wById = Occupied(wRing) \cup Range(toAppend) \cup Range(evicted)
      /\ wCounts = Histogram(wById)
      /\ wById \in Indexes /\ wCounts \in [Kinds -> Nat] /\ losses \in Nat
      /\ given \in Seq(Event) /\ todo \in Seq(Event)
      /\ IsFiniteSet(DOMAIN wById)
  BY <1>1, <1>7 DEF Working, CallInv
<1>9. /\ evicted' = Append(evicted, oldest) /\ evicted' \in Seq(Ids)
      /\ IsInjective(evicted') /\ Range(evicted') = Range(evicted) \cup {oldest}
      /\ losses' \in Nat
  <2>1. oldest # NoId BY <1>6, StoreAssumption
  <2>2. evicted' = Append(evicted, oldest)
    BY <2>1 DEF AppendOverOldest
  <2>3. oldest \notin Range(evicted) BY <1>6, <1>8
  <2>4. /\ IsInjective(evicted') /\ Range(evicted') = Range(evicted) \cup {oldest}
    BY <2>2, <2>3, <1>3, <1>6, InjectiveAppend, RangeAppend
  <2>5. evicted' \in Seq(Ids) /\ Len(evicted') = Len(evicted) + 1
    BY <2>2, <1>3, <1>6, AppendProperties
  <2>6. losses' = losses + (Len(evicted') - Len(evicted)) BY DEF AppendOverOldest
  <2>7. losses' \in Nat BY <2>5, <2>6, <1>4, <1>8
  <2>8. QED BY <2>2, <2>4, <2>5, <2>7
<1>10. /\ Occupied(wRing') \cap Range(toAppend') = {}
       /\ Occupied(wRing') \cap Range(evicted') = {}
       /\ Range(toAppend') \cap Range(evicted') = {}
       /\ DOMAIN wById = Occupied(wRing') \cup Range(toAppend') \cup Range(evicted')
  BY <1>3, <1>5, <1>6, <1>8, <1>9
<1>11. Working'
  BY <1>3, <1>4, <1>5, <1>6, <1>7, <1>8, <1>9, <1>10
  DEF Working, CallInv, Histogram
<1>12. QED BY <1>2, <1>11, HalvesNext

LEMMA StepEvictId ==
  ASSUME IndInv, EvictId
  PROVE  IndInv'
<1>1. Published /\ Working BY Halves
<1>2. Published' BY <1>1, PublishedKept DEF EvictId
<1> DEFINE id == Head(evicted)
<1>3. /\ evicted \in Seq(Ids) /\ evicted # <<>> /\ IsInjective(evicted)
      /\ evicted' = Tail(evicted)
      /\ UNCHANGED <<pc, todo, given, wRing, toAppend, losses>>
      /\ pc = "evict"
      /\ wById \in Indexes /\ IsFiniteSet(DOMAIN wById)
      /\ wCounts = Histogram(wById)
      /\ WellFormed(wRing) /\ wRing \in Rings
      /\ Occupied(wRing) \cap Range(evicted) = {}
      /\ DOMAIN wById = Occupied(wRing) \cup Range(toAppend) \cup Range(evicted)
      /\ toAppend = <<>> /\ losses \in Nat /\ given \in Seq(Event)
      /\ todo \in Seq(Event)
  BY <1>1 DEF EvictId, Working, CallInv
<1>4. /\ Range(evicted) = {id} \cup Range(Tail(evicted))
      /\ IsInjective(Tail(evicted)) /\ id \notin Range(Tail(evicted))
      /\ Tail(evicted) \in Seq(Ids)
  BY <1>3, InjectiveTail, RangeHeadTail, HeadTailProperties
<1>5. id \in DOMAIN wById BY <1>3, <1>4
<1>6. /\ wById' = DeleteEvent(wById, id)
      /\ wCounts' = Decrement(wCounts, wById[id])
  BY <1>5 DEF EvictId
<1>7. wCounts' = Histogram(wById') BY <1>3, <1>5, <1>6, CountDeleted
<1>8. wById' \in Indexes /\ DOMAIN wById' = DOMAIN wById \ {id}
  BY <1>3, <1>6, DeleteEventFacts
<1>9. IsFiniteSet(DOMAIN wById') BY <1>3, <1>8, FS_RemoveElement
<1>10. Histogram(wById') \in [Kinds -> Nat] BY <1>8, <1>9, HistogramFacts
<1>11. /\ toAppend' = <<>> /\ toAppend' \in Seq(Ids) /\ IsInjective(toAppend')
       /\ Range(toAppend') = {} /\ Range(toAppend) = {}
  BY <1>3, EmptySeqFacts
<1>12. DOMAIN wById' = Occupied(wRing) \cup Range(toAppend') \cup Range(evicted')
  BY <1>3, <1>4, <1>8, <1>11
<1>13. Occupied(wRing) \cap Range(evicted') = {} BY <1>3, <1>4
<1>14. Working'
  BY <1>3, <1>4, <1>7, <1>8, <1>9, <1>10, <1>11, <1>12, <1>13
  DEF Working, CallInv
<1>15. QED BY <1>2, <1>14, HalvesNext

LEMMA StepPublishIngest ==
  ASSUME IndInv, PublishIngest
  PROVE  IndInv'
<1>1. Published /\ Working BY Halves
<1>2. /\ pc = "evict" /\ evicted = <<>> /\ pc' = "idle"
      /\ ring' = wRing /\ byId' = wById /\ counts' = wCounts
      /\ selected' = IF selected \in DOMAIN wById THEN selected ELSE NoId
      /\ received' = received + Len(given) /\ dropped' = dropped + losses
      /\ given' = <<>> /\ UNCHANGED <<todo, workVars>>
  BY DEF PublishIngest
<1>3. /\ Range(toAppend) = {} /\ Range(evicted) = {}
  BY <1>1, <1>2, EmptySeqFacts DEF Working, CallInv
<1>4. /\ WellFormed(ring') /\ Occupied(ring') = DOMAIN byId'
      /\ counts' = Histogram(byId') /\ IsFiniteSet(DOMAIN byId')
      /\ ring' \in Rings /\ byId' \in Indexes /\ counts' \in [Kinds -> Nat]
  BY <1>1, <1>2, <1>3 DEF Working, CallInv
<1>5. received' \in Nat /\ dropped' \in Nat
  BY <1>1, <1>2 DEF Published, Working
<1>6. selected' \in Ids \cup {NoId} /\ (selected' # NoId => selected' \in DOMAIN byId')
  BY <1>1, <1>2 DEF Published
<1>7. Published'
  BY <1>4, <1>5, <1>6 DEF Published, RingMatchesIndex, CountsMatch, SelectionBuffered
<1>8. Working'
  BY <1>1, <1>2, EmptySeqFacts DEF Working, CallInv, workVars
<1>9. QED BY <1>7, <1>8, HalvesNext

LEMMA StepBeginReplace ==
  ASSUME IndInv, NEW b \in Seq(Event), BeginReplace(b)
  PROVE  IndInv'
<1>1. Published /\ Working BY Halves
<1>2. Published' BY <1>1, PublishedKept DEF BeginReplace
<1>3. /\ wRing' = EmptyRing /\ wById' = EmptyIndex /\ wCounts' = EmptyCounts
      /\ pc' = "dedupe" /\ todo' = b /\ given' = b
      /\ toAppend' = <<>> /\ evicted' = <<>> /\ losses' = 0
  BY DEF BeginReplace
<1>4. IsFiniteSet(DOMAIN EmptyIndex) BY EmptyIndexFacts, FS_EmptySet
<1>5. Len(b) \in Nat BY LenProperties
<1>6. Working'
  BY <1>3, <1>4, <1>5, EmptyRingFacts, EmptyIndexFacts, EmptySeqFacts
  DEF Working, CallInv
<1>7. QED BY <1>2, <1>6, HalvesNext

LEMMA StepDedupeEvent ==
  ASSUME IndInv, DedupeEvent
  PROVE  IndInv'
<1>1. Published /\ Working BY Halves
<1>2. Published' BY <1>1, PublishedKept DEF DedupeEvent
<1> DEFINE id == Head(todo)[1]
           kind == Head(todo)[2]
<1>3. /\ id \in Ids /\ kind \in Kinds
      /\ Tail(todo) \in Seq(Event)
  <2>1. Head(todo) \in Event /\ Tail(todo) \in Seq(Event)
    BY <1>1, HeadTailProperties DEF DedupeEvent, Working
  <2>2. QED BY <2>1 DEF Event
<1>4. /\ wById' = SetEvent(wById, id, kind)
      /\ toAppend' = IF id \in DOMAIN wById THEN toAppend ELSE Append(toAppend, id)
      /\ todo' = Tail(todo)
      /\ UNCHANGED <<pc, given, wRing, wCounts, evicted, losses>>
      /\ pc = "dedupe"
  BY DEF DedupeEvent
<1>5. /\ wById \in Indexes /\ IsFiniteSet(DOMAIN wById)
      /\ toAppend \in Seq(Ids) /\ IsInjective(toAppend)
      /\ DOMAIN wById = Range(toAppend)
  BY <1>1, <1>4 DEF Working, CallInv
<1>6. wById' \in Indexes /\ DOMAIN wById' = DOMAIN wById \cup {id}
  <2>1. /\ id \in Ids /\ kind \in Kinds /\ wById \in Indexes
        /\ wById' = SetEvent(wById, id, kind)
    BY <1>3, <1>4, <1>5
  <2> HIDE DEF id, kind
  <2>2. QED BY <2>1, SetEventFacts
<1>7. IsFiniteSet(DOMAIN wById')
  <2>1. IsFiniteSet(DOMAIN wById \cup {id}) BY <1>5, FS_AddElement
  <2>2. QED BY <2>1, <1>6
<1>8. /\ toAppend' \in Seq(Ids) /\ IsInjective(toAppend')
      /\ DOMAIN wById' = Range(toAppend')
  <2>1. CASE id \in DOMAIN wById BY <2>1, <1>4, <1>5, <1>6
  <2>2. CASE id \notin DOMAIN wById
    <3>1. toAppend' = Append(toAppend, id) BY <2>2, <1>4
    <3>2. QED BY <3>1, <2>2, <1>3, <1>5, <1>6, InjectiveAppend, RangeAppend,
                 AppendProperties
  <2>3. QED BY <2>1, <2>2
<1>9. Working'
  <2>1. /\ wRing' \in Rings /\ losses' \in Nat /\ given' \in Seq(Event)
        /\ wCounts' \in [Kinds -> Nat] /\ wRing' = EmptyRing
        /\ evicted' = <<>> /\ evicted' \in Seq(Ids) /\ IsInjective(evicted')
        /\ pc' = "dedupe"
    BY <1>1, <1>4 DEF Working, CallInv
  <2>2. QED BY <2>1, <1>3, <1>4, <1>6, <1>7, <1>8 DEF Working, CallInv
<1>10. QED BY <1>2, <1>9, HalvesNext

LEMMA StepTrimEvents ==
  ASSUME IndInv, TrimEvents
  PROVE  IndInv'
<1>1. Published /\ Working BY Halves
<1>2. Published' BY <1>1, PublishedKept DEF TrimEvents
<1>3. /\ losses' = IF Len(toAppend) > Capacity THEN Len(toAppend) - Capacity ELSE 0
      /\ toAppend' = SubSeq(toAppend, losses' + 1, Len(toAppend))
      /\ wById' = [i \in Range(toAppend') |-> wById[i]]
      /\ wCounts' = Histogram(wById')
      /\ pc = "dedupe" /\ pc' = "restock"
      /\ UNCHANGED <<todo, given, wRing, evicted>>
  BY DEF TrimEvents
<1>4. /\ wById \in Indexes /\ IsFiniteSet(DOMAIN wById)
      /\ toAppend \in Seq(Ids) /\ IsInjective(toAppend)
      /\ DOMAIN wById = Range(toAppend)
      /\ wRing = EmptyRing /\ evicted = <<>>
      /\ todo \in Seq(Event) /\ given \in Seq(Event)
  BY <1>1, <1>3 DEF Working, CallInv
<1>5. Len(toAppend) \in Nat /\ Capacity \in Nat
  BY <1>4, LenProperties, StoreAssumption
<1>6. /\ losses' \in Nat /\ losses' <= Len(toAppend)
      /\ losses' + 1 \in 1 .. Len(toAppend) + 1
      /\ Len(toAppend) - losses' <= Capacity
      /\ Len(toAppend) - losses' = Len(toAppend) - (losses' + 1) + 1
  BY <1>3, <1>5
<1>7. /\ toAppend' \in Seq(Ids) /\ IsInjective(toAppend')
      /\ Range(toAppend') \subseteq Range(toAppend)
      /\ Len(toAppend') = Len(toAppend) - losses'
  BY <1>3, <1>4, <1>6, InjectiveSuffix
<1>8. wById' \in Indexes /\ DOMAIN wById' = Range(toAppend')
  <2>1. wById \in [DOMAIN wById -> Kinds] /\ DOMAIN wById \subseteq Ids
    BY <1>4, IndexFacts
  <2>2. DOMAIN wById' = Range(toAppend') BY <1>3
  <2>3. wById' \in [Range(toAppend') -> Kinds] BY <2>1, <1>3, <1>4, <1>7
  <2>4. QED BY <2>1, <2>2, <2>3, <1>4, <1>7, IndexFacts
<1>9. IsFiniteSet(DOMAIN wById') BY <1>4, <1>7, <1>8, FS_Subset
<1>10. wCounts' \in [Kinds -> Nat] BY <1>3, <1>8, <1>9, HistogramFacts
<1>11. /\ wRing' \in Rings /\ WellFormed(wRing') /\ Occupied(wRing') = {}
       /\ wRing'.size = 0 /\ Range(evicted') = {} /\ evicted' = <<>>
       /\ evicted' \in Seq(Ids) /\ IsInjective(evicted')
  BY <1>3, <1>4, EmptyRingFacts, EmptySeqFacts DEF EmptyRing
<1>12. wRing'.size + Len(toAppend') <= Capacity BY <1>5, <1>6, <1>7, <1>11
<1>13. Working'
  BY <1>3, <1>4, <1>6, <1>7, <1>8, <1>9, <1>10, <1>11, <1>12 DEF Working, CallInv
<1>14. QED BY <1>2, <1>13, HalvesNext

LEMMA StepPublishReplace ==
  ASSUME IndInv, PublishReplace
  PROVE  IndInv'
<1>1. Published /\ Working BY Halves
<1>2. /\ pc = "restock" /\ toAppend = <<>> /\ pc' = "idle"
      /\ ring' = wRing /\ byId' = wById /\ counts' = wCounts
      /\ selected' = NoId
      /\ received' = Len(given) /\ dropped' = losses
      /\ given' = <<>> /\ UNCHANGED <<todo, workVars>>
  BY DEF PublishReplace
<1>3. /\ Range(toAppend) = {} /\ Range(evicted) = {}
  BY <1>1, <1>2, EmptySeqFacts DEF Working, CallInv
<1>4. /\ WellFormed(ring') /\ Occupied(ring') = DOMAIN byId'
      /\ counts' = Histogram(byId') /\ IsFiniteSet(DOMAIN byId')
      /\ ring' \in Rings /\ byId' \in Indexes /\ counts' \in [Kinds -> Nat]
      /\ received' \in Nat /\ dropped' \in Nat
  BY <1>1, <1>2, <1>3 DEF Working, CallInv
<1>5. Published'
  BY <1>2, <1>4 DEF Published, RingMatchesIndex, CountsMatch, SelectionBuffered
<1>6. Working'
  BY <1>1, <1>2, EmptySeqFacts DEF Working, CallInv, workVars
<1>7. QED BY <1>5, <1>6, HalvesNext

LEMMA StepClear ==
  ASSUME IndInv, Clear
  PROVE  IndInv'
<1>1. Published /\ Working BY Halves
<1>2. Working' BY <1>1, WorkingKept DEF Clear
<1>3. /\ ring' = EmptyRing /\ byId' = EmptyIndex /\ counts' = EmptyCounts
      /\ selected' = NoId /\ received' = 0 /\ dropped' = 0
  BY DEF Clear
<1>4. IsFiniteSet(DOMAIN EmptyIndex) BY EmptyIndexFacts, FS_EmptySet
<1>5. Published'
  BY <1>3, <1>4, EmptyRingFacts, EmptyIndexFacts
  DEF Published, RingMatchesIndex, CountsMatch, SelectionBuffered
<1>6. QED BY <1>2, <1>5, HalvesNext

LEMMA StepSelection ==
  ASSUME IndInv, ClearSelection \/ \E id \in Ids : SelectEvent(id)
  PROVE  IndInv'
<1>1. Published /\ Working BY Halves
<1>2. Working' BY <1>1, WorkingKept DEF ClearSelection, SelectEvent
<1>3. /\ UNCHANGED <<ring, byId, counts, received, dropped>>
      /\ selected' \in Ids \cup {NoId}
      /\ selected' # NoId => selected' \in DOMAIN byId
  BY DEF ClearSelection, SelectEvent
<1>4. Published'
  BY <1>1, <1>3 DEF Published, RingMatchesIndex, CountsMatch, SelectionBuffered,
  WellFormed, Occupied, SlotOf, Histogram
<1>5. QED BY <1>2, <1>4, HalvesNext

-----------------------------------------------------------------------------
(* Theorems.                                                                *)

LEMMA StutterInv ==
  ASSUME IndInv, UNCHANGED vars
  PROVE  IndInv'
<1>1. Published /\ Working BY Halves
<1>2. Published' BY <1>1, PublishedKept DEF vars
<1>3. Working' BY <1>1, WorkingKept DEF vars
<1>4. QED BY <1>2, <1>3, HalvesNext

LEMMA NextInv ==
  ASSUME IndInv, Next
  PROVE  IndInv'
<1>1. ASSUME NEW b \in Batches, BeginIngest(b) \/ BeginReplace(b) PROVE IndInv'
  BY <1>1, StepBeginIngest, StepBeginReplace, BatchFacts
<1>2. CASE BeginReplace(<<>>) BY <1>2, StepBeginReplace, EmptySeqFacts
<1>3. CASE Ingesting
  BY <1>3, StepMergeEvent, StepMergeDone, StepAppendDone, StepEvictId, StepPublishIngest
  DEF Ingesting
<1>4. CASE Replacing
  BY <1>4, StepDedupeEvent, StepTrimEvents, StepPublishReplace DEF Replacing
<1>5. CASE Appending
  BY <1>5, StepAppendToFree, StepAppendOverOldest DEF Appending
<1>6. CASE Clear BY <1>6, StepClear
<1>7. CASE (\E id \in Ids : SelectEvent(id)) \/ ClearSelection
  BY <1>7, StepSelection
<1>8. QED BY <1>1, <1>2, <1>3, <1>4, <1>5, <1>6, <1>7 DEF Next

LEMMA StoreInvariance == Spec => []IndInv
<1>1. Init => IndInv BY InitInv
<1>2. IndInv /\ [Next]_vars => IndInv' BY NextInv, StutterInv
<1>3. QED BY <1>1, <1>2, PTL DEF Spec

-----------------------------------------------------------------------------
(* Step by step towards RecentEvents: what a call has made of the events it  *)
(* has looked at so far.                                                    *)

IdsOf(b) == [i \in DOMAIN b |-> b[i][1]]

(* Among the first k events: the places that bring an id of their own, and   *)
(* what is said last of an id.                                              *)
FirstAt(b, k, known) ==
  {i \in 1 .. k : /\ b[i][1] \notin known
                  /\ \A j \in 1 .. i - 1 : b[j][1] # b[i][1]}

IdsBefore(b, k) == {b[i][1] : i \in 1 .. k}

Said(b, k, id) == {i \in 1 .. k : b[i][1] = id}

Newest(S) == CHOOSE i \in S : \A j \in S : j <= i

LastSaid(b, k, id, otherwise) ==
  IF Said(b, k, id) = {} THEN otherwise ELSE b[Newest(Said(b, k, id))][2]

(* What the call starts from: replaceAll from nothing.                      *)
Base == IF pc \in {"dedupe", "restock"} THEN <<>> ELSE RingIds(ring)

OldKind(base, index, id) == IF id \in Range(base) THEN index[id] ELSE NoId

Read == Len(given) - Len(todo)

(* What it has to arrive at.                                                *)
Target ==
  LastOf(Base \o Pick(IdsOf(given), FirstAt(given, Len(given), Range(Base))), Capacity)

Reading ==
  /\ Read \in Nat
  /\ Follows(Read, todo, given)
  /\ RingIds(wRing) = Base
  /\ toAppend = Pick(IdsOf(given), FirstAt(given, Read, Range(Base)))
  /\ DOMAIN wById = Range(Base) \cup IdsBefore(given, Read)
  /\ \A id \in DOMAIN wById : wById[id] = LastSaid(given, Read, id, OldKind(Base, byId, id))

Writing ==
  /\ LastOf(RingIds(wRing) \o toAppend, Capacity) = Target
  /\ \A id \in DOMAIN wById : wById[id] = LastSaid(given, Len(given), id, OldKind(Base, byId, id))

Progress ==
  /\ pc \in {"merge", "dedupe"} => Reading
  /\ pc \in {"append", "evict", "restock"} => Writing

LEMMA IdsOfType ==
  ASSUME NEW b \in Seq(Event)
  PROVE  /\ IdsOf(b) \in Seq(Ids) /\ Len(IdsOf(b)) = Len(b) /\ Len(b) \in Nat
         /\ DOMAIN b = 1 .. Len(b)
         /\ \A i \in 1 .. Len(b) : IdsOf(b)[i] = b[i][1] /\ b[i] \in Event
<1>1. DOMAIN b = 1 .. Len(b) /\ Len(b) \in Nat BY LenProperties
<1>2. \A i \in 1 .. Len(b) : b[i] \in Event BY <1>1, ElementOfSeq
<1>3. IdsOf(b) \in [1 .. Len(b) -> Ids] BY <1>1, <1>2 DEF IdsOf, Event
<1>4. IdsOf(b) \in Seq(Ids) /\ Len(IdsOf(b)) = Len(b) BY <1>1, <1>3, LenProperties
<1>5. QED BY <1>1, <1>2, <1>4 DEF IdsOf

(* Before the first event is looked at.                                     *)
LEMMA ReadNone ==
  ASSUME NEW b \in Seq(Event), NEW known
  PROVE  /\ Pick(IdsOf(b), FirstAt(b, 0, known)) = <<>>
         /\ IdsBefore(b, 0) = {}
         /\ \A id, o : LastSaid(b, 0, id, o) = o
<1>1. 1 .. 0 = {} OBVIOUS
<1>2. FirstAt(b, 0, known) = {} /\ IdsBefore(b, 0) = {} BY <1>1 DEF FirstAt, IdsBefore
<1>3. \A id, o : LastSaid(b, 0, id, o) = o BY <1>1 DEF LastSaid, Said
<1>4. Pick(IdsOf(b), {}) = <<>>
  <2>1. IdsOf(b) \in Seq(Ids) /\ {} \in SUBSET (1 .. Len(IdsOf(b))) BY IdsOfType
  <2>2. Pick(IdsOf(b), {}) \in Seq(Ids) /\ Len(Pick(IdsOf(b), {})) = Cardinality({})
    BY <2>1, PickType
  <2>3. QED BY <2>2, FS_EmptySet, EmptySeq
<1>5. QED BY <1>2, <1>3, <1>4

(* One event more: its id is appended unless it is known or was there before. *)
LEMMA ReadNext ==
  ASSUME NEW b \in Seq(Event), NEW k \in Nat, k < Len(b), NEW known,
         NEW id, id = b[k + 1][1]
  PROVE  /\ id \in known \cup IdsBefore(b, k) =>
              Pick(IdsOf(b), FirstAt(b, k + 1, known)) = Pick(IdsOf(b), FirstAt(b, k, known))
         /\ id \notin known \cup IdsBefore(b, k) =>
              Pick(IdsOf(b), FirstAt(b, k + 1, known))
                = Append(Pick(IdsOf(b), FirstAt(b, k, known)), id)
<1>1. Len(b) \in Nat /\ k + 1 \in 1 .. Len(b) BY LenProperties
<1>2. \A i \in 1 .. k + 1 : i \in 1 .. k \/ i = k + 1 OBVIOUS
<1>3. \A i \in 1 .. k : i \in 1 .. k + 1 /\ i < k + 1 OBVIOUS
<1>4. k + 1 \in 1 .. k + 1 OBVIOUS
<1>5. ASSUME id \in known \cup IdsBefore(b, k)
      PROVE  Pick(IdsOf(b), FirstAt(b, k + 1, known)) = Pick(IdsOf(b), FirstAt(b, k, known))
  <2>1. ~ (id \notin known /\ \A j \in 1 .. (k + 1) - 1 : b[j][1] # id)
    <3>1. (k + 1) - 1 = k OBVIOUS
    <3>2. QED BY <1>5, <3>1 DEF IdsBefore
  <2>2. FirstAt(b, k + 1, known) = FirstAt(b, k, known)
    BY <1>2, <1>3, <2>1 DEF FirstAt
  <2>3. QED BY <2>2
<1>6. ASSUME id \notin known \cup IdsBefore(b, k)
      PROVE  Pick(IdsOf(b), FirstAt(b, k + 1, known))
               = Append(Pick(IdsOf(b), FirstAt(b, k, known)), id)
  <2>1. id \notin known /\ \A j \in 1 .. (k + 1) - 1 : b[j][1] # id
    <3>1. (k + 1) - 1 = k OBVIOUS
    <3>2. QED BY <1>6, <3>1 DEF IdsBefore
  <2>2. FirstAt(b, k + 1, known) = FirstAt(b, k, known) \cup {k + 1}
    BY <1>2, <1>3, <1>4, <2>1 DEF FirstAt
  <2>3. /\ FirstAt(b, k, known) \in SUBSET (1 .. Len(b))
        /\ \A i \in FirstAt(b, k, known) : i < k + 1
    BY <1>1, <1>3 DEF FirstAt
  <2>4. /\ IdsOf(b) \in Seq(Ids) /\ Len(IdsOf(b)) = Len(b)
        /\ IdsOf(b)[k + 1] = id
    BY <1>1, IdsOfType
  <2>5. Pick(IdsOf(b), FirstAt(b, k, known) \cup {k + 1})
          = Append(Pick(IdsOf(b), FirstAt(b, k, known)), IdsOf(b)[k + 1])
    BY <1>1, <2>3, <2>4, PickExtend
  <2>6. QED BY <2>2, <2>4, <2>5
<1>7. QED BY <1>5, <1>6

(* What it says of its id is what is said last.                              *)
LEMMA SaidNext ==
  ASSUME NEW b \in Seq(Event), NEW k \in Nat, k < Len(b), NEW e, NEW o
  PROVE  LastSaid(b, k + 1, e, o) =
           IF e = b[k + 1][1] THEN b[k + 1][2] ELSE LastSaid(b, k, e, o)
<1>1. \A i \in 1 .. k + 1 : i \in 1 .. k \/ i = k + 1 OBVIOUS
<1>2. \A i \in 1 .. k : i \in 1 .. k + 1 OBVIOUS
<1>3. CASE e = b[k + 1][1]
  <2>1. k + 1 \in Said(b, k + 1, e) BY <1>3 DEF Said
  <2>2. \A j \in Said(b, k + 1, e) : j \in 1 .. k + 1 /\ j <= k + 1 BY DEF Said
  <2>3. \A i \in Said(b, k + 1, e) : k + 1 <= i => i = k + 1 BY <2>2
  <2>4. Newest(Said(b, k + 1, e)) = k + 1 BY <2>1, <2>2, <2>3 DEF Newest
  <2>5. Said(b, k + 1, e) # {} BY <2>1
  <2>6. QED BY <1>3, <2>4, <2>5 DEF LastSaid
<1>4. CASE e # b[k + 1][1]
  <2>1. Said(b, k + 1, e) = Said(b, k, e) BY <1>1, <1>2, <1>4 DEF Said
  <2>2. QED BY <1>4, <2>1 DEF LastSaid
<1>5. QED BY <1>3, <1>4

(* What the call starts from is what is indexed, or nothing.                 *)
LEMMA BaseFacts ==
  ASSUME Published
  PROVE  /\ Base \in Seq(Ids)
         /\ pc \notin {"dedupe", "restock"} => Base = RingIds(ring) /\ Range(Base) = DOMAIN byId
         /\ pc \in {"dedupe", "restock"} => Base = <<>> /\ Range(Base) = {}
<1>1. RingIds(ring) \in Seq(Ids) /\ Range(RingIds(ring)) = DOMAIN byId
  BY RingSequence DEF Published, RingMatchesIndex
<1>2. <<>> \in Seq(Ids) /\ Range(<<>>) = {} BY EmptySeqFacts
<1>3. QED BY <1>1, <1>2 DEF Base

LEMMA BeginReading ==
  ASSUME IndInv, NEW b \in Seq(Event), BeginIngest(b) \/ BeginReplace(b)
  PROVE  Reading'
<1>1. Published BY Halves
<1>2. /\ todo' = b /\ given' = b /\ toAppend' = <<>>
      /\ \/ pc' = "merge" /\ wRing' = ring /\ wById' = byId
         \/ pc' = "dedupe" /\ wRing' = EmptyRing /\ wById' = EmptyIndex
      /\ ring' = ring /\ byId' = byId
  BY DEF BeginIngest, BeginReplace, pubVars
<1>3. /\ RingIds(wRing') = Base' /\ DOMAIN wById' = Range(Base')
      /\ \A id \in DOMAIN wById' : wById'[id] = byId'[id]
  <2>1. CASE pc' = "merge" /\ wRing' = ring /\ wById' = byId
    <3>1. Range(RingIds(ring)) = DOMAIN byId
      BY <1>1, RingSequence DEF Published, RingMatchesIndex
    <3>2. Base' = RingIds(ring) BY <1>2, <2>1 DEF Base
    <3>3. QED BY <1>2, <2>1, <3>1, <3>2
  <2>2. CASE pc' = "dedupe" /\ wRing' = EmptyRing /\ wById' = EmptyIndex
    <3>1. Base' = <<>> BY <2>2 DEF Base
    <3>2. QED BY <2>2, <3>1, EmptyRingIds, EmptyIndexFacts, EmptySeqFacts
  <2>3. QED BY <1>2, <2>1, <2>2
<1>4. Len(b) \in Nat /\ Read' = 0 BY <1>2, LenProperties DEF Read
<1>5. Follows(0, b, b)
  <2>1. \A i \in 1 .. Len(b) : 0 + i = i OBVIOUS
  <2>2. 0 + Len(b) <= Len(b) BY <1>4
  <2>3. QED BY <2>1, <2>2 DEF Follows
<1>6. /\ toAppend' = Pick(IdsOf(b), FirstAt(b, 0, Range(Base')))
      /\ IdsBefore(b, 0) = {}
      /\ \A id, o : LastSaid(b, 0, id, o) = o
  BY <1>2, ReadNone
<1>7. \A id \in DOMAIN wById' : wById'[id] = OldKind(Base', byId', id) BY <1>3 DEF OldKind
<1>8. QED BY <1>2, <1>3, <1>4, <1>5, <1>6, <1>7 DEF Reading

(* The loops of ingestIncomingEvents and buildStateFromEvents, once around.  *)
LEMMA KeepReading ==
  ASSUME IndInv, Reading, MergeEvent \/ DedupeEvent
  PROVE  Reading'
<1> DEFINE k == Read
           id == Head(todo)[1]
           kind == Head(todo)[2]
<1>1. Published /\ Working BY Halves
<1>2. /\ pc \in {"merge", "dedupe"} /\ pc' = pc /\ todo # <<>> /\ todo' = Tail(todo)
      /\ given' = given /\ ring' = ring /\ byId' = byId /\ wRing' = wRing
      /\ wById' = SetEvent(wById, id, kind)
      /\ toAppend' = IF id \in DOMAIN wById THEN toAppend ELSE Append(toAppend, id)
  BY DEF MergeEvent, DedupeEvent, pubVars
<1>3. /\ given \in Seq(Event) /\ todo \in Seq(Event) /\ Tail(todo) \in Seq(Event)
      /\ Len(Tail(todo)) = Len(todo) - 1 /\ Len(todo) \in Nat \ {0} /\ Len(given) \in Nat
      /\ wById \in Indexes
  BY <1>1, <1>2, HeadTailProperties, LenProperties, EmptySeq DEF Working
<1>4. /\ Follows(k, todo, given) /\ RingIds(wRing) = Base
      /\ toAppend = Pick(IdsOf(given), FirstAt(given, k, Range(Base)))
      /\ DOMAIN wById = Range(Base) \cup IdsBefore(given, k)
      /\ \A e \in DOMAIN wById : wById[e] = LastSaid(given, k, e, OldKind(Base, byId, e))
  BY DEF Reading
<1>5. k + Len(todo) <= Len(given) BY <1>4 DEF Follows
<1>6. k \in Nat /\ k < Len(given) /\ Read' = k + 1
  <2>1. k = Len(given) - Len(todo) BY DEF Read
  <2>2. Read' = Len(given) - Len(Tail(todo)) BY <1>2 DEF Read
  <2>3. k \in Nat BY DEF Reading
  <2> HIDE DEF k
  <2>4. QED BY <1>3, <2>1, <2>2, <2>3
<1>7. Base' = Base BY <1>2 DEF Base
<1> HIDE DEF k
<1>8. Head(todo) = given[k + 1] /\ Follows(k + 1, Tail(todo), given)
  BY <1>2, <1>3, <1>4, <1>6, FollowsTail
<1>9. id = given[k + 1][1] /\ kind = given[k + 1][2] BY <1>8
<1> HIDE DEF id, kind
<1>10. /\ id \in Range(Base) \cup IdsBefore(given, k) =>
            Pick(IdsOf(given), FirstAt(given, k + 1, Range(Base)))
              = Pick(IdsOf(given), FirstAt(given, k, Range(Base)))
       /\ id \notin Range(Base) \cup IdsBefore(given, k) =>
            Pick(IdsOf(given), FirstAt(given, k + 1, Range(Base)))
              = Append(Pick(IdsOf(given), FirstAt(given, k, Range(Base))), id)
       /\ IdsBefore(given, k + 1) = IdsBefore(given, k) \cup {id}
       /\ \A e, o : LastSaid(given, k + 1, e, o) =
                      IF e = id THEN kind ELSE LastSaid(given, k, e, o)
  <2> DEFINE known == Range(Base)
  <2> HIDE DEF known
  <2>1. /\ given \in Seq(Event) /\ k \in Nat /\ k < Len(given)
        /\ id = given[k + 1][1] /\ kind = given[k + 1][2]
    BY <1>3, <1>6, <1>9
  <2>2. id \in known \cup IdsBefore(given, k) =>
          Pick(IdsOf(given), FirstAt(given, k + 1, known))
            = Pick(IdsOf(given), FirstAt(given, k, known))
    BY <2>1, ReadNext
  <2>3. id \notin known \cup IdsBefore(given, k) =>
          Pick(IdsOf(given), FirstAt(given, k + 1, known))
            = Append(Pick(IdsOf(given), FirstAt(given, k, known)), id)
    BY <2>1, ReadNext
  <2>4. IdsBefore(given, k + 1) = IdsBefore(given, k) \cup {id}
    <3>1. \A i \in 1 .. k + 1 : i \in 1 .. k \/ i = k + 1 BY <2>1
    <3>2. k + 1 \in 1 .. k + 1 /\ \A i \in 1 .. k : i \in 1 .. k + 1 BY <2>1
    <3>3. QED BY <2>1, <3>1, <3>2 DEF IdsBefore
  <2>5. ASSUME NEW e, NEW o
        PROVE  LastSaid(given, k + 1, e, o) = IF e = id THEN kind ELSE LastSaid(given, k, e, o)
    BY <2>1, SaidNext
  <2>6. QED BY <2>2, <2>3, <2>4, <2>5 DEF known
<1>11. toAppend' = Pick(IdsOf(given), FirstAt(given, k + 1, Range(Base)))
  BY <1>2, <1>4, <1>10
<1>12. /\ DOMAIN wById' = DOMAIN wById \cup {id}
       /\ \A e \in DOMAIN wById' :
            wById'[e] = IF e = id THEN kind ELSE wById[e]
  BY <1>2, <1>8 DEF SetEvent
<1>13. DOMAIN wById' = Range(Base) \cup IdsBefore(given, k + 1)
  BY <1>4, <1>10, <1>12
<1>14. \A e \in DOMAIN wById' : wById'[e] = LastSaid(given, k + 1, e, OldKind(Base, byId, e))
  BY <1>4, <1>10, <1>12
<1>15. /\ Read' = k + 1 /\ k + 1 \in Nat /\ todo' = Tail(todo) /\ given' = given
       /\ RingIds(wRing') = Base' /\ Base' = Base /\ byId' = byId
  BY <1>2, <1>4, <1>6, <1>7
<1>16. QED BY <1>8, <1>11, <1>13, <1>14, <1>15 DEF Reading
(* The first loop is over: everything the batch brings is collected.         *)
LEMMA ReadAll ==
  ASSUME IndInv, Reading, todo = <<>>
  PROVE  /\ toAppend = Pick(IdsOf(given), FirstAt(given, Len(given), Range(Base)))
         /\ \A id \in DOMAIN wById : wById[id] = LastSaid(given, Len(given), id, OldKind(Base, byId, id))
<1>1. Len(given) \in Nat BY Halves, LenProperties DEF Working
<1>2. Read = Len(given) BY <1>1, EmptySeq DEF Read
<1>3. QED BY <1>2 DEF Reading

LEMMA BeginWriting ==
  ASSUME IndInv, Reading, MergeDone
  PROVE  Writing'
<1>1. /\ UNCHANGED <<given, wRing, wById, toAppend, ring, byId>> /\ todo = <<>>
      /\ pc = "merge" /\ pc' = "append"
  BY DEF MergeDone, workVars, pubVars
<1>2. Base' = Base BY <1>1 DEF Base
<1>3. RingIds(wRing) = Base BY DEF Reading
<1>4. LastOf(RingIds(wRing) \o toAppend, Capacity) = Target
  BY <1>1, <1>3, ReadAll DEF Target
<1>5. Target' = Target BY <1>1, <1>2 DEF Target
<1>6. QED BY <1>1, <1>2, <1>4, <1>5, ReadAll DEF Writing

(* slice(-Capacity): nothing is lost that the ring would have kept.          *)
LEMMA TrimWriting ==
  ASSUME IndInv, Reading, TrimEvents
  PROVE  Writing'
<1>1. Published /\ Working BY Halves
<1>2. /\ todo = <<>> /\ pc = "dedupe" /\ pc' = "restock"
      /\ UNCHANGED <<given, wRing, ring, byId>>
      /\ toAppend \in Seq(Ids) /\ DOMAIN wById = Range(toAppend)
      /\ wById' = [i \in Range(toAppend') |-> wById[i]]
  BY <1>1 DEF TrimEvents, pubVars, Working, CallInv
<1>3. Base = <<>> /\ Base' = Base BY <1>2 DEF Base
<1>4. Len(toAppend) \in Nat /\ Capacity \in Nat BY <1>2, LenProperties, StoreAssumption
<1>5. toAppend' = LastOf(toAppend, Capacity)
  <2>1. losses' + 1 = IF Len(toAppend) > Capacity THEN Len(toAppend) - Capacity + 1 ELSE 1
    BY <1>4 DEF TrimEvents
  <2>2. toAppend' = SubSeq(toAppend, losses' + 1, Len(toAppend)) BY DEF TrimEvents
  <2>3. QED BY <2>1, <2>2 DEF LastOf
<1>6. /\ toAppend' \in Seq(Ids) /\ Range(toAppend') \subseteq Range(toAppend)
      /\ Len(toAppend') = IF Len(toAppend) > Capacity THEN Capacity ELSE Len(toAppend)
  BY <1>2, <1>4, <1>5, LastOfType
<1>7. Len(toAppend') <= Capacity BY <1>4, <1>6
<1>8. LastOf(toAppend', Capacity) = toAppend' BY <1>4, <1>6, <1>7, LastOfFew
<1>9. \A s \in Seq(Ids) : <<>> \o s = s BY ConcatEmptySeq
<1>10. RingIds(wRing') = <<>> BY <1>2, <1>3 DEF Reading
<1>11. LastOf(RingIds(wRing') \o toAppend', Capacity) = toAppend'
  BY <1>6, <1>8, <1>9, <1>10
<1>12. Target' = toAppend'
  <2>1. Target = LastOf(Base \o toAppend, Capacity) BY <1>2, ReadAll DEF Target
  <2>2. Target' = Target BY <1>2, <1>3 DEF Target
  <2>3. QED BY <1>2, <1>3, <1>5, <1>9, <2>1, <2>2
<1>13. \A id \in DOMAIN wById' : id \in DOMAIN wById /\ wById'[id] = wById[id]
  BY <1>2, <1>6
<1>14. \A id \in DOMAIN wById' :
         wById'[id] = LastSaid(given, Len(given), id, OldKind(Base, byId, id))
  BY <1>2, <1>13, ReadAll
<1>15. QED BY <1>2, <1>3, <1>11, <1>12, <1>14 DEF Writing

(* A step that leaves the newest ids and the events as they are.             *)
LEMMA KeepWriting ==
  ASSUME Writing, UNCHANGED <<ring, byId, given>>,
         \/ UNCHANGED pc
         \/ pc = "append" /\ pc' = "evict",
         LastOf(RingIds(wRing') \o toAppend', Capacity)
           = LastOf(RingIds(wRing) \o toAppend, Capacity),
         \A id \in DOMAIN wById' : id \in DOMAIN wById /\ wById'[id] = wById[id]
  PROVE  Writing'
<1>1. Base' = Base /\ given' = given /\ byId' = byId BY DEF Base
<1>2. Target' = Target BY <1>1 DEF Target
<1>3. QED BY <1>1, <1>2 DEF Writing

(* appendIdsToRing: the next id comes from the list into the ring, and what  *)
(* it pushes out of a full ring is none of the newest.                      *)
LEMMA AppendWriting ==
  ASSUME IndInv, Writing, AppendToFree \/ AppendOverOldest
  PROVE  Writing'
<1> DEFINE s == RingIds(wRing)
           id == Head(toAppend)
           rest == Tail(toAppend)
<1>1. Published /\ Working BY Halves
<1>2. /\ toAppend \in Seq(Ids) /\ toAppend # <<>> /\ toAppend' = rest
      /\ wRing \in Rings /\ WellFormed(wRing)
      /\ Occupied(wRing) \cap Range(toAppend) = {}
      /\ UNCHANGED <<ring, byId, given, pc, wById>>
  BY <1>1 DEF AppendToFree, AppendOverOldest, Working, CallInv, pubVars
<1>3. /\ id \in Ids /\ rest \in Seq(Ids) /\ toAppend = <<id>> \o rest
      /\ id \notin Occupied(wRing)
  <2>1. id \in Ids /\ rest \in Seq(Ids) /\ toAppend = <<id>> \o rest
    BY <1>2, HeadTailProperties, ConsHeadTail
  <2>2. id \in Range(toAppend) BY <1>2, RangeHeadTail
  <2>3. QED BY <1>2, <2>1, <2>2
<1>4. s \in Seq(Ids) /\ Len(s) = wRing.size BY <1>2, RingSequence
<1>5. <<id>> \in Seq(Ids) /\ Append(s, id) = s \o <<id>>
  BY <1>3, <1>4, AppendIsConcat
<1> HIDE DEF s, id, rest
<1>6. s \o toAppend = Append(s, id) \o rest BY <1>3, <1>4, <1>5, ConcatAssociative
<1>7. CASE AppendToFree
  <2>1. wRing' = [wRing EXCEPT !.order[SlotOf(wRing, wRing.size)] = id, !.size = @ + 1]
        /\ wRing.size < Capacity
    BY <1>7 DEF AppendToFree, id
  <2>2. RingIds(wRing') = Append(s, id) BY <1>2, <1>3, <2>1, AddToFree DEF s
  <2>3. QED BY <1>2, <1>6, <2>2, KeepWriting DEF s
<1>8. CASE AppendOverOldest
  <2>1. wRing' = [wRing EXCEPT !.order[wRing.start] = id, !.start = (@ + 1) % Capacity]
        /\ wRing.size = Capacity
    BY <1>8 DEF AppendOverOldest, id
  <2>2. RingIds(wRing') = Append(Tail(s), id) BY <1>2, <1>3, <2>1, AddOverOldest DEF s
  <2>3. Len(s) = Capacity /\ Capacity \in Nat \ {0} /\ s # <<>>
    BY <1>4, <2>1, StoreAssumption, EmptySeq
  <2>4. Tail(s) \in Seq(Ids) BY <1>4, <2>3, HeadTailProperties
  <2>5. Append(Tail(s), id) \o rest = Tail(s) \o toAppend
    <3>1. Append(Tail(s), id) = Tail(s) \o <<id>> BY <1>3, <2>4, AppendIsConcat
    <3>2. (Tail(s) \o <<id>>) \o rest = Tail(s) \o (<<id>> \o rest)
      BY <1>3, <1>5, <2>4, ConcatAssociative
    <3>3. QED BY <1>3, <3>1, <3>2
  <2>6. Tail(s) \o toAppend = Tail(s \o toAppend) BY <1>2, <1>4, <2>3, TailConcat
  <2>7. s \o toAppend \in Seq(Ids) /\ Len(s \o toAppend) > Capacity
    <3>1. s \o toAppend \in Seq(Ids) /\ Len(s \o toAppend) = Len(s) + Len(toAppend)
      BY <1>2, <1>4, ConcatProperties
    <3>2. Len(toAppend) \in Nat \ {0} BY <1>2, LenProperties, EmptySeq
    <3>3. QED BY <2>3, <3>1, <3>2
  <2>8. LastOf(Tail(s \o toAppend), Capacity) = LastOf(s \o toAppend, Capacity)
    BY <2>3, <2>7, LastOfTail
  <2>9. LastOf(RingIds(wRing') \o toAppend', Capacity) = LastOf(RingIds(wRing) \o toAppend, Capacity)
    BY <1>2, <2>2, <2>5, <2>6, <2>8 DEF s
  <2>10. QED BY <1>2, <2>9, KeepWriting
<1>9. QED BY <1>7, <1>8

LEMMA EvictWriting ==
  ASSUME IndInv, Writing, AppendDone \/ EvictId
  PROVE  Writing'
<1>1. /\ UNCHANGED <<ring, byId, given, wRing, toAppend>>
      /\ \/ UNCHANGED pc
         \/ pc = "append" /\ pc' = "evict"
      /\ \A id \in DOMAIN wById' : id \in DOMAIN wById /\ wById'[id] = wById[id]
  BY DEF AppendDone, EvictId, DeleteEvent, pubVars, workVars
<1>2. QED BY <1>1, KeepWriting

LEMMA ProgressStep ==
  ASSUME IndInv, Progress, [Next]_vars
  PROVE  Progress'
<1>1. ASSUME NEW b \in Seq(Event), BeginIngest(b) \/ BeginReplace(b) PROVE Progress'
  BY <1>1, BeginReading DEF BeginIngest, BeginReplace, Progress
<1>2. ASSUME NEW b \in Batches, BeginIngest(b) \/ BeginReplace(b) PROVE Progress'
  BY <1>1, <1>2, BatchFacts
<1>3. CASE BeginReplace(<<>>) BY <1>1, <1>3, EmptySeqFacts
<1>4. CASE MergeEvent \/ DedupeEvent
  BY <1>4, KeepReading DEF MergeEvent, DedupeEvent, Progress
<1>5. CASE MergeDone BY <1>5, BeginWriting DEF MergeDone, Progress
<1>6. CASE TrimEvents BY <1>6, TrimWriting DEF TrimEvents, Progress
<1>7. CASE Appending BY <1>7, AppendWriting DEF Appending, AppendToFree, AppendOverOldest, Progress
<1>8. CASE AppendDone \/ EvictId BY <1>8, EvictWriting DEF AppendDone, EvictId, Progress
<1>9. CASE \/ PublishIngest \/ PublishReplace \/ Clear \/ ClearSelection
           \/ \E id \in Ids : SelectEvent(id)
  BY <1>9 DEF PublishIngest, PublishReplace, Clear, ClearSelection, SelectEvent, Progress
<1>10. CASE UNCHANGED vars
  <2>1. UNCHANGED <<ring, byId, pc, todo, given, wRing, wById, toAppend>>
    BY <1>10 DEF vars, pubVars, workVars
  <2>2. Base' = Base /\ Read' = Read BY <2>1 DEF Base, Read
  <2>3. Target' = Target BY <2>1, <2>2 DEF Target
  <2>4. (Reading => Reading') /\ (Writing => Writing') BY <2>1, <2>2, <2>3 DEF Reading, Writing
  <2>5. QED BY <2>1, <2>4 DEF Progress
<1>11. QED
  BY <1>2, <1>3, <1>4, <1>5, <1>6, <1>7, <1>8, <1>9, <1>10 DEF Next, Ingesting, Replacing

LEMMA ProgressAlways == Spec => []Progress
<1>1. Init => Progress BY DEF Init, Progress
<1>2. IndInv /\ Progress /\ [Next]_vars => Progress' BY ProgressStep
<1>3. QED BY <1>1, <1>2, StoreInvariance, PTL DEF Spec

-----------------------------------------------------------------------------
(* The store implements RecentEvents: the words of RecentEvents are the      *)
(* words used here, and each step is one of its steps or is not seen.       *)
LEMMA SameWords ==
  /\ \A s, P : Recent!Pick(s, P) = Pick(s, P)
  /\ \A s, n : Recent!LastOf(s, n) = LastOf(s, n)
  /\ \A f : Recent!Range(f) = Range(f)
<1>1. \A s, P : Recent!Pick(s, P) = Pick(s, P)
  BY DEF Recent!Pick, Recent!PlaceOf, Recent!Cardinality, Pick, PlaceOf, Cardinality
<1>2. \A s, n : Recent!LastOf(s, n) = LastOf(s, n) BY DEF Recent!LastOf, LastOf
<1>3. \A f : Recent!Range(f) = Range(f) BY DEF Recent!Range, Range
<1>4. QED BY <1>1, <1>2, <1>3

LEMMA SameBatches ==
  /\ Batches \subseteq Recent!Batches
  /\ <<>> \in Recent!Batches
<1>1. MaxBatch \in Nat BY StoreAssumption
<1>2. Batches \subseteq Recent!Batches BY <1>1 DEF Batches, Event, Recent!Batches
<1>3. <<>> \in [1 .. 0 -> Ids \X Kinds]
  <2>1. <<>> \in Seq(Ids \X Kinds) /\ Len(<<>>) = 0 BY EmptySeq
  <2>2. QED BY <2>1, LenProperties
<1>4. <<>> \in Recent!Batches BY <1>1, <1>3 DEF Recent!Batches
<1>5. QED BY <1>2, <1>4

LEMMA SameNewIds ==
  ASSUME NEW b \in Seq(Event), NEW known
  PROVE  Recent!NewIds(b, known) = Pick(IdsOf(b), FirstAt(b, Len(b), known))
<1>1. DOMAIN b = 1 .. Len(b) BY IdsOfType
<1>2. {i \in DOMAIN b : /\ b[i][1] \notin known
                        /\ \A j \in 1 .. i - 1 : b[j][1] # b[i][1]}
        = FirstAt(b, Len(b), known)
  BY <1>1 DEF FirstAt
<1>3. [i \in DOMAIN b |-> b[i][1]] = IdsOf(b) BY DEF IdsOf
<1>4. QED BY <1>2, <1>3, SameWords DEF Recent!NewIds

LEMMA SameLatest ==
  ASSUME NEW b \in Seq(Event), NEW id, NEW o
  PROVE  Recent!Latest(b, id, o) = LastSaid(b, Len(b), id, o)
<1>1. DOMAIN b = 1 .. Len(b) BY IdsOfType
<1>2. {i \in DOMAIN b : b[i][1] = id} = Said(b, Len(b), id) BY <1>1 DEF Said
<1>3. \A S : (CHOOSE i \in S : \A j \in S : j <= i) = Newest(S) BY DEF Newest
<1> DEFINE At == {i \in DOMAIN b : b[i][1] = id}
<1>4. Recent!Latest(b, id, o)
        = IF At = {} THEN o ELSE b[CHOOSE i \in At : \A j \in At : j <= i][2]
  BY DEF Recent!Latest
<1>5. At = Said(b, Len(b), id) BY <1>2
<1>6. (CHOOSE i \in At : \A j \in At : j <= i) = Newest(At) BY <1>3
<1>7. Recent!Latest(b, id, o) = IF At = {} THEN o ELSE b[Newest(At)][2] BY <1>4, <1>6
<1> HIDE DEF At
<1>8. QED BY <1>5, <1>7 DEF LastSaid

(* A finished call has what it had to arrive at.                             *)
LEMMA Arrived ==
  ASSUME IndInv, Writing, PublishIngest \/ PublishReplace,
         NEW before, before = Base, NEW old, before # <<>> => old = byId
  PROVE  /\ Recent!Take(given, before, old)
         /\ Range(RingIds(ring)') = DOMAIN wById
<1>1. Published /\ Working BY Halves
<1>2. /\ ring' = wRing /\ byId' = wById /\ toAppend = <<>> /\ evicted = <<>>
      /\ pc \in {"evict", "restock"}
      /\ wRing \in Rings /\ WellFormed(wRing) /\ given \in Seq(Event) /\ wById \in Indexes
      /\ DOMAIN wById = Occupied(wRing) \cup Range(toAppend) \cup Range(evicted)
  BY <1>1 DEF PublishIngest, PublishReplace, Working, CallInv
<1>3. /\ RingIds(wRing) \in Seq(Ids) /\ Len(RingIds(wRing)) = wRing.size
      /\ Range(RingIds(wRing)) = Occupied(wRing)
  BY <1>2, RingSequence
<1>4. wRing.size <= Capacity /\ Capacity \in Nat BY <1>2, StoreAssumption DEF Rings
<1>5. RingIds(wRing) = Target
  <2>1. RingIds(wRing) \o <<>> = RingIds(wRing) BY <1>3, ConcatEmptySeq
  <2>2. LastOf(RingIds(wRing), Capacity) = RingIds(wRing) BY <1>3, <1>4, LastOfFew
  <2>3. QED BY <1>2, <2>1, <2>2 DEF Writing
<1>6. DOMAIN wById = Range(RingIds(wRing)) BY <1>2, <1>3, EmptySeqFacts
<1>7. RingIds(ring)' = RingIds(wRing) BY <1>2 DEF RingIds, SlotOf
<1>8. RingIds(ring)' = Recent!LastOf(before \o Recent!NewIds(given, Recent!Range(before)), Capacity)
  BY <1>2, <1>5, <1>7, SameWords, SameNewIds DEF Target
<1>9. ASSUME NEW id \in DOMAIN wById
      PROVE  wById[id] = Recent!Latest(given, id, IF id \in Recent!Range(before) THEN old[id] ELSE NoId)
  <2>1. OldKind(Base, byId, id) = IF id \in Range(before) THEN old[id] ELSE NoId
    BY EmptySeqFacts DEF OldKind
  <2>2. QED BY <1>2, <2>1, SameWords, SameLatest DEF Writing
<1>10. wById = [id \in DOMAIN wById |-> wById[id]] BY <1>2 DEF Indexes
<1>11. wById = [id \in DOMAIN wById |->
                  Recent!Latest(given, id, IF id \in Recent!Range(before) THEN old[id] ELSE NoId)]
  BY <1>9, <1>10
<1>12. Recent!Range(RingIds(ring)') = DOMAIN wById BY <1>6, <1>7, SameWords
<1>13. Recent!Take(given, before, old) BY <1>2, <1>8, <1>11, <1>12 DEF Recent!Take
<1>14. QED BY <1>6, <1>7, <1>13

(* What RecentEvents sees of a call.                                         *)
LEMMA CallFacts ==
  /\ pc = "idle" => CallUnderWay = <<"none", <<>>>>
  /\ pc \in {"dedupe", "restock"} => CallUnderWay = <<"replace", given>>
  /\ pc \in {"merge", "append", "evict"} => CallUnderWay = <<"ingest", given>>
  BY DEF CallUnderWay

LEMMA CallFactsNext ==
  /\ pc' = "idle" => CallUnderWay' = <<"none", <<>>>>
  /\ pc' \in {"dedupe", "restock"} => CallUnderWay' = <<"replace", given'>>
  /\ pc' \in {"merge", "append", "evict"} => CallUnderWay' = <<"ingest", given'>>
  BY DEF CallUnderWay

LEMMA PublishesRecent ==
  ASSUME IndInv, Writing, PublishIngest \/ PublishReplace
  PROVE  Recent!Next
<1>1. CASE PublishIngest
  <2>1. /\ pc = "evict" /\ pc' = "idle" /\ given' = <<>>
        /\ selected' = IF selected \in DOMAIN wById THEN selected ELSE NoId
    BY <1>1 DEF PublishIngest
  <2>2. Base = RingIds(ring) BY <2>1 DEF Base
  <2>3. /\ Recent!Take(given, RingIds(ring), byId)
        /\ Range(RingIds(ring)') = DOMAIN wById
    BY <1>1, <2>2, Arrived
  <2>4. selected' = IF selected \in Recent!Range(RingIds(ring)') THEN selected ELSE NoId
    BY <2>1, <2>3, SameWords
  <2>5. CallUnderWay[1] = "ingest" /\ CallUnderWay[2] = given /\ CallUnderWay' = Recent!NoCall
    BY <2>1, CallFacts, CallFactsNext DEF Recent!NoCall
  <2>6. Recent!Take(CallUnderWay[2], RingIds(ring), byId) BY <2>3, <2>5
  <2>7. Recent!Ingest BY <2>4, <2>5, <2>6 DEF Recent!Ingest
  <2>8. QED BY <2>7 DEF Recent!Next
<1>2. CASE PublishReplace
  <2>1. pc = "restock" /\ pc' = "idle" /\ given' = <<>> /\ selected' = NoId
    BY <1>2 DEF PublishReplace
  <2>2. Base = <<>> BY <2>1 DEF Base
  <2>3. Recent!Take(given, <<>>, <<>>) BY <1>2, <2>2, Arrived
  <2>4. CallUnderWay[1] = "replace" /\ CallUnderWay[2] = given /\ CallUnderWay' = Recent!NoCall
    BY <2>1, CallFacts, CallFactsNext DEF Recent!NoCall
  <2>5. Recent!Take(CallUnderWay[2], <<>>, <<>>) BY <2>3, <2>4
  <2>6. Recent!Replace BY <2>1, <2>4, <2>5 DEF Recent!Replace
  <2>7. QED BY <2>6 DEF Recent!Next
<1>3. QED BY <1>1, <1>2

(* Clearing is a replacement by nothing.                                     *)
LEMMA ClearsRecent ==
  ASSUME IndInv, Clear
  PROVE  Recent!Next
<1>1. /\ pc = "idle" /\ ring' = EmptyRing /\ byId' = EmptyIndex /\ selected' = NoId
      /\ UNCHANGED <<pc, given>>
  BY DEF Clear
<1>2. RingIds(ring)' = <<>>
  <2>1. RingIds(ring)' = RingIds(EmptyRing) BY <1>1 DEF RingIds, SlotOf
  <2>2. QED BY <2>1, EmptyRingIds
<1>3. <<>> \in Seq(Event) /\ Len(<<>>) = 0 /\ Capacity \in Nat BY EmptySeq, StoreAssumption
<1>4. Recent!NewIds(<<>>, Recent!Range(<<>>)) = <<>>
  BY <1>3, SameNewIds, ReadNone
<1>5. Recent!LastOf(<<>> \o Recent!NewIds(<<>>, Recent!Range(<<>>)), Capacity) = <<>>
  <2>1. <<>> \in Seq(Ids) BY EmptySeq
  <2>2. <<>> \o <<>> = <<>> BY <2>1, ConcatEmptySeq
  <2>3. LastOf(<<>>, Capacity) = <<>>
    <3>1. ASSUME NEW s \in Seq(Ids), Len(s) = 0 PROVE LastOf(s, Capacity) = s
      <4>1. Len(s) <= Capacity BY <1>3, <3>1
      <4>2. QED BY <1>3, <4>1, LastOfFew
    <3>2. QED BY <1>3, <2>1, <3>1
  <2>4. QED BY <1>4, <2>2, <2>3, SameWords
<1>6. Recent!Range(RingIds(ring)') = {} BY <1>2, SameWords, EmptySeqFacts
<1>7. byId' = [id \in Recent!Range(RingIds(ring)') |->
         Recent!Latest(<<>>, id, IF id \in Recent!Range(<<>>) THEN <<>>[id] ELSE NoId)]
  BY <1>1, <1>6 DEF EmptyIndex
<1>8. Recent!Take(<<>>, <<>>, <<>>) BY <1>2, <1>5, <1>7 DEF Recent!Take
<1>9. CallUnderWay = Recent!NoCall /\ CallUnderWay' = CallUnderWay
  BY <1>1, CallFacts, CallFactsNext DEF Recent!NoCall
<1>10. Recent!Clear BY <1>1, <1>8, <1>9 DEF Recent!Clear
<1>11. QED BY <1>10 DEF Recent!Next

LEMMA SelectsRecent ==
  ASSUME IndInv, (\E id \in Ids : SelectEvent(id)) \/ ClearSelection
  PROVE  Recent!Next
<1>1. Published BY Halves
<1>2. Range(RingIds(ring)) = DOMAIN byId
  BY <1>1, RingSequence DEF Published, RingMatchesIndex
<1>3. NoId \notin DOMAIN byId BY <1>1, IndexFacts, StoreAssumption DEF Published
<1>4. PICK id \in Ids \cup {NoId} : selected' = IF id \in DOMAIN byId THEN id ELSE NoId
  BY <1>3 DEF SelectEvent, ClearSelection
<1>5. pc = "idle" /\ UNCHANGED <<ring, byId, pc, given>> BY DEF SelectEvent, ClearSelection
<1>6. RingIds(ring)' = RingIds(ring) BY <1>5 DEF RingIds, SlotOf
<1>7. CallUnderWay = Recent!NoCall /\ CallUnderWay' = CallUnderWay
  BY <1>5, CallFacts, CallFactsNext DEF Recent!NoCall
<1>8. selected' = IF id \in Recent!Range(RingIds(ring)) THEN id ELSE NoId
  BY <1>2, <1>4, SameWords
<1>9. Recent!Select(id) BY <1>5, <1>6, <1>7, <1>8 DEF Recent!Select
<1>10. QED BY <1>9 DEF Recent!Next

LEMMA CallsRecent ==
  ASSUME NEW b \in Batches \cup {<<>>}, BeginIngest(b) \/ BeginReplace(b)
  PROVE  Recent!Next
<1>1. /\ pc = "idle" /\ given' = b /\ UNCHANGED <<ring, byId, selected>>
      /\ pc' \in {"merge", "dedupe"}
  BY DEF BeginIngest, BeginReplace, pubVars
<1>2. RingIds(ring)' = RingIds(ring) BY <1>1 DEF RingIds, SlotOf
<1>3. b \in Recent!Batches BY SameBatches
<1>4. CallUnderWay = Recent!NoCall BY <1>1, CallFacts DEF Recent!NoCall
<1>5. CallUnderWay' = <<"ingest", b>> \/ CallUnderWay' = <<"replace", b>>
  BY <1>1, CallFactsNext
<1>6. CallUnderWay' \in {"ingest", "replace"} \X Recent!Batches BY <1>3, <1>5
<1>7. Recent!Call BY <1>1, <1>2, <1>4, <1>6 DEF Recent!Call
<1>8. QED BY <1>7 DEF Recent!Next

(* Nothing of the loops is seen.                                             *)
LEMMA LoopsUnseen ==
  ASSUME \/ MergeEvent \/ DedupeEvent \/ MergeDone \/ AppendDone \/ EvictId
         \/ TrimEvents \/ Appending \/ UNCHANGED vars
  PROVE  UNCHANGED Recent!vars
<1>1. /\ UNCHANGED <<ring, byId, selected, given>>
      /\ \/ UNCHANGED pc
         \/ pc \in {"dedupe", "restock"} /\ pc' \in {"dedupe", "restock"}
         \/ pc \in {"merge", "append", "evict"} /\ pc' \in {"merge", "append", "evict"}
  BY DEF MergeEvent, DedupeEvent, MergeDone, AppendDone, EvictId, TrimEvents, Appending,
         AppendToFree, AppendOverOldest, vars, pubVars, workVars
<1>2. RingIds(ring)' = RingIds(ring) BY <1>1 DEF RingIds, SlotOf
<1>3. UNCHANGED CallUnderWay
  <2>1. CASE UNCHANGED pc BY <1>1, <2>1 DEF CallUnderWay
  <2>2. CASE ~ UNCHANGED pc BY <1>1, <2>2, CallFacts, CallFactsNext
  <2>3. QED BY <2>1, <2>2
<1>4. QED BY <1>1, <1>2, <1>3 DEF Recent!vars

LEMMA StepImplements ==
  ASSUME IndInv, Progress, [Next]_vars
  PROVE  [Recent!Next]_(Recent!vars)
<1>1. ASSUME NEW b \in Batches, BeginIngest(b) \/ BeginReplace(b) PROVE Recent!Next
  BY <1>1, CallsRecent
<1>2. CASE BeginReplace(<<>>) BY <1>2, CallsRecent
<1>3. CASE PublishIngest \/ PublishReplace
  <2>1. Writing BY <1>3 DEF PublishIngest, PublishReplace, Progress
  <2>2. QED BY <1>3, <2>1, PublishesRecent
<1>4. CASE Clear BY <1>4, ClearsRecent
<1>5. CASE (\E id \in Ids : SelectEvent(id)) \/ ClearSelection BY <1>5, SelectsRecent
<1>6. CASE \/ MergeEvent \/ DedupeEvent \/ MergeDone \/ AppendDone \/ EvictId
           \/ TrimEvents \/ Appending \/ UNCHANGED vars
  BY <1>6, LoopsUnseen
<1>7. QED
  BY <1>1, <1>2, <1>3, <1>4, <1>5, <1>6 DEF Next, Ingesting, Replacing

LEMMA InitImplements == Init => Recent!Init
<1> SUFFICES ASSUME Init PROVE Recent!Init OBVIOUS
<1>1. ring = EmptyRing /\ byId = EmptyIndex /\ selected = NoId /\ pc = "idle" BY DEF Init
<1>2. CallUnderWay = Recent!NoCall BY <1>1, CallFacts DEF Recent!NoCall
<1>3. QED BY <1>1, <1>2, EmptyRingIds DEF Recent!Init, EmptyIndex

(* However a call repeats ids, updates events it then evicts, or wraps around *)
(* the ring: what it publishes is the newest Capacity of the events before it *)
(* and those it was given, in order of arrival and with their latest contents. *)
THEOREM StoreImplementsRecent == Spec => ImplementsRecent
<1>1. Init => Recent!Init BY InitImplements
<1>2. IndInv /\ Progress /\ [Next]_vars => [Recent!Next]_(Recent!vars) BY StepImplements
<1>3. QED BY <1>1, <1>2, StoreInvariance, ProgressAlways, PTL
      DEF Spec, ImplementsRecent, Recent!Spec

-----------------------------------------------------------------------------
(* Ring, index, statistics and the copies of a call keep their types.       *)
THEOREM StoreTypeCorrect == Spec => []TypeOK
<1>1. IndInv => TypeOK BY DEF IndInv
<1>2. QED BY <1>1, StoreInvariance, PTL

(* For every capacity, the ring and the index hold the same ids, each once: *)
(* materializeRingIds never throws and no evicted event stays reachable.    *)
THEOREM RingAndIndexAgree == Spec => []RingMatchesIndex
<1>1. IndInv => RingMatchesIndex BY DEF IndInv
<1>2. QED BY <1>1, StoreInvariance, PTL

(* The incrementally kept statistics are a recount of the buffered events.  *)
THEOREM StatisticsExact == Spec => []CountsMatch
<1>1. IndInv => CountsMatch BY DEF IndInv
<1>2. QED BY <1>1, StoreInvariance, PTL

(* No eviction, replacement or clear leaves a selection behind.             *)
THEOREM SelectionSound == Spec => []SelectionBuffered
<1>1. IndInv => SelectionBuffered BY DEF IndInv
<1>2. QED BY <1>1, StoreInvariance, PTL
=============================================================================
