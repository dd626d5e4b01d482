--------------------------- MODULE SequenceLemmas ---------------------------
(* What a queue operation does to the set of elements of a sequence (the     *)
(* library states the same for concatenation, RangeConcatenation), what a    *)
(* stretch of a sequence is, and what slice and filter return.               *)
EXTENDS Subsequences, SequenceTheorems, FiniteSetTheorems, WellFoundedInduction, TLAPS

(* An empty sequence has no element.                                        *)
LEMMA RangeEmpty == Range(<<>>) = {}
BY DEF Range

(* A send or an append adds one element.                                    *)
LEMMA RangeAppend ==
  ASSUME NEW S, NEW s \in Seq(S), NEW e \in S
  PROVE  Range(Append(s, e)) = Range(s) \cup {e}
<1>1. /\ Append(s, e) \in Seq(S)
      /\ Len(Append(s, e)) = Len(s) + 1
      /\ \A i \in 1 .. Len(s) : Append(s, e)[i] = s[i]
      /\ Append(s, e)[Len(s) + 1] = e
  BY AppendProperties
<1>2. /\ DOMAIN s = 1 .. Len(s) /\ Len(s) \in Nat
      /\ DOMAIN Append(s, e) = 1 .. (Len(s) + 1)
  BY <1>1, LenProperties
<1>3. ASSUME NEW x \in Range(s) \cup {e} PROVE x \in Range(Append(s, e))
  BY <1>1, <1>2 DEF Range
<1>4. ASSUME NEW x \in Range(Append(s, e)) PROVE x \in Range(s) \cup {e}
  BY <1>1, <1>2 DEF Range
<1>5. QED BY <1>3, <1>4

(* A receive takes the head and leaves the rest.                            *)
LEMMA RangeHeadTail ==
  ASSUME NEW S, NEW s \in Seq(S), s # <<>>
  PROVE  Range(s) = {Head(s)} \cup Range(Tail(s))
<1>1. /\ Tail(s) \in Seq(S)
      /\ Len(Tail(s)) = Len(s) - 1
      /\ \A i \in 1 .. Len(Tail(s)) : Tail(s)[i] = s[i + 1]
  BY HeadTailProperties
<1>2. /\ DOMAIN s = 1 .. Len(s) /\ Len(s) \in Nat \ {0}
      /\ DOMAIN Tail(s) = 1 .. (Len(s) - 1)
      /\ Head(s) = s[1]
  BY <1>1, LenProperties, EmptySeq
<1>3. ASSUME NEW x \in Range(s) PROVE x \in {Head(s)} \cup Range(Tail(s))
  <2>1. PICK i \in 1 .. Len(s) : x = s[i]
    BY <1>2 DEF Range
  <2>2. CASE i = 1 BY <2>1, <2>2, <1>2
  <2>3. CASE i # 1
    <3>1. i - 1 \in 1 .. (Len(s) - 1) /\ Tail(s)[i - 1] = x
      BY <2>1, <2>3, <1>1, <1>2
    <3>2. QED BY <3>1, <1>2 DEF Range
  <2>4. QED BY <2>2, <2>3
<1>4. ASSUME NEW x \in {Head(s)} \cup Range(Tail(s)) PROVE x \in Range(s)
  <2>1. CASE x = Head(s) BY <2>1, <1>2 DEF Range
  <2>2. CASE x \in Range(Tail(s))
    <3>1. PICK i \in 1 .. (Len(s) - 1) : x = Tail(s)[i]
      BY <2>2, <1>2 DEF Range
    <3>2. i + 1 \in 1 .. Len(s) /\ x = s[i + 1]
      BY <3>1, <1>1, <1>2
    <3>3. QED BY <3>2, <1>2 DEF Range
  <2>3. QED BY <1>4, <2>1, <2>2
<1>5. QED BY <1>3, <1>4

(* Appending a new element keeps a sequence free of repetitions.            *)
LEMMA InjectiveAppend ==
  ASSUME NEW S, NEW s \in Seq(S), NEW e \in S, IsInjective(s), e \notin Range(s)
  PROVE  IsInjective(Append(s, e))
<1>1. /\ Append(s, e) \in Seq(S)
      /\ Len(Append(s, e)) = Len(s) + 1
      /\ \A i \in 1 .. Len(s) : Append(s, e)[i] = s[i]
      /\ Append(s, e)[Len(s) + 1] = e
  BY AppendProperties
<1>2. /\ DOMAIN s = 1 .. Len(s) /\ Len(s) \in Nat
      /\ DOMAIN Append(s, e) = 1 .. (Len(s) + 1)
  BY <1>1, LenProperties
<1>3. \A i \in 1 .. Len(s) : s[i] # e BY <1>2 DEF Range
<1>4. QED BY <1>1, <1>2, <1>3 DEF IsInjective

(* The head of a sequence without repetitions is not in its tail.           *)
LEMMA InjectiveTail ==
  ASSUME NEW S, NEW s \in Seq(S), s # <<>>, IsInjective(s)
  PROVE  IsInjective(Tail(s)) /\ Head(s) \notin Range(Tail(s))
<1>1. /\ Tail(s) \in Seq(S)
      /\ Len(Tail(s)) = Len(s) - 1
      /\ \A i \in 1 .. Len(Tail(s)) : Tail(s)[i] = s[i + 1]
  BY HeadTailProperties
<1>2. /\ DOMAIN s = 1 .. Len(s) /\ Len(s) \in Nat \ {0}
      /\ DOMAIN Tail(s) = 1 .. (Len(s) - 1)
      /\ Head(s) = s[1]
  BY <1>1, LenProperties, EmptySeq
<1>3. IsInjective(Tail(s)) BY <1>1, <1>2 DEF IsInjective
<1>4. ASSUME NEW i \in 1 .. (Len(s) - 1), Head(s) = Tail(s)[i] PROVE FALSE
  <2>1. i + 1 \in 1 .. Len(s) /\ s[1] = s[i + 1] /\ i + 1 # 1
    BY <1>1, <1>2, <1>4
  <2>2. QED BY <2>1, <1>2 DEF IsInjective
<1>5. QED BY <1>2, <1>3, <1>4 DEF Range

(* Cutting events off the front repeats none.                               *)
LEMMA InjectiveSuffix ==
  ASSUME NEW S, NEW s \in Seq(S), IsInjective(s), NEW m \in 1 .. Len(s) + 1
  PROVE  /\ SubSeq(s, m, Len(s)) \in Seq(S)
         /\ IsInjective(SubSeq(s, m, Len(s)))
         /\ Range(SubSeq(s, m, Len(s))) \subseteq Range(s)
         /\ Len(SubSeq(s, m, Len(s))) = Len(s) - m + 1
<1> DEFINE t == SubSeq(s, m, Len(s))
<1>1. Len(s) \in Nat /\ DOMAIN s = 1 .. Len(s) BY LenProperties
<1>2. /\ t \in Seq(S) /\ Len(t) = Len(s) - m + 1
      /\ \A i \in 1 .. Len(t) : t[i] = s[m + i - 1]
  BY <1>1, SubSeqProperties
<1>3. DOMAIN t = 1 .. Len(t) BY <1>2, LenProperties
<1> HIDE DEF t
<1>4. \A i \in 1 .. Len(t) : m + i - 1 \in 1 .. Len(s) BY <1>1, <1>2
<1>5. \A i, j \in 1 .. Len(t) : m + i - 1 = m + j - 1 => i = j BY <1>1, <1>2
<1>6. IsInjective(t)
  <2>1. SUFFICES ASSUME NEW i \in 1 .. Len(t), NEW j \in 1 .. Len(t), t[i] = t[j]
                 PROVE  i = j
    BY <1>3 DEF IsInjective
  <2>2. s[m + i - 1] = s[m + j - 1] BY <1>2, <2>1
  <2>3. m + i - 1 = m + j - 1 BY <1>1, <1>4, <2>2 DEF IsInjective
  <2>4. QED BY <1>5, <2>3
<1>7. Range(t) \subseteq Range(s) BY <1>1, <1>2, <1>3, <1>4 DEF Range
<1>8. QED BY <1>2, <1>6, <1>7 DEF t

-----------------------------------------------------------------------------
(* Stretches of a sequence, element by element: s is what follows the first *)
(* j elements of t, as far as s goes.                                       *)
Follows(j, s, t) ==
  /\ j + Len(s) <= Len(t)
  /\ \A i \in 1 .. Len(s) : s[i] = t[j + i]

(* They stay where they are when the sequence grows.                         *)
LEMMA FollowsGrow ==
  ASSUME NEW S, NEW s \in Seq(S), NEW t \in Seq(S), NEW e \in S, NEW j \in Nat,
         Follows(j, s, t)
  PROVE  Follows(j, s, Append(t, e))
<1>1. Len(s) \in Nat /\ Len(t) \in Nat BY LenProperties
<1>2. /\ Len(Append(t, e)) = Len(t) + 1
      /\ \A i \in 1 .. Len(t) : Append(t, e)[i] = t[i]
  BY AppendProperties
<1>3. \A i \in 1 .. Len(s) : j + i \in 1 .. Len(t) BY <1>1 DEF Follows
<1>4. QED BY <1>1, <1>2, <1>3 DEF Follows

(* A stretch goes on with the element that comes next.                       *)
LEMMA FollowsNext ==
  ASSUME NEW S, NEW s \in Seq(S), NEW t \in Seq(S), NEW j \in Nat,
         Follows(j, s, t), j + Len(s) < Len(t)
  PROVE  Follows(j, Append(s, t[j + Len(s) + 1]), t)
<1>1. Len(s) \in Nat /\ Len(t) \in Nat BY LenProperties
<1>2. t[j + Len(s) + 1] \in S BY <1>1, ElementOfSeq
<1> DEFINE u == Append(s, t[j + Len(s) + 1])
<1>3. /\ Len(u) = Len(s) + 1
      /\ \A i \in 1 .. Len(s) : u[i] = s[i]
      /\ u[Len(s) + 1] = t[j + Len(s) + 1]
  BY <1>2, AppendProperties
<1> HIDE DEF u
<1>4. ASSUME NEW i \in 1 .. Len(u) PROVE u[i] = t[j + i]
  <2>1. CASE i \in 1 .. Len(s) BY <2>1, <1>3 DEF Follows
  <2>2. CASE i = Len(s) + 1 BY <2>2, <1>1, <1>3
  <2>3. i \in 1 .. Len(s) \/ i = Len(s) + 1 BY <1>1, <1>3
  <2>4. QED BY <2>1, <2>2, <2>3
<1>5. QED BY <1>1, <1>3, <1>4 DEF Follows, u

(* What is at the end stays there when both grow by the same element.        *)
LEMMA FollowsBoth ==
  ASSUME NEW S, NEW s \in Seq(S), NEW t \in Seq(S), NEW e \in S, NEW j \in Nat,
         Follows(j, s, t), j + Len(s) = Len(t)
  PROVE  Follows(j, Append(s, e), Append(t, e))
<1>1. Len(s) \in Nat /\ Len(t) \in Nat BY LenProperties
<1>2. /\ Append(t, e) \in Seq(S) /\ Len(Append(t, e)) = Len(t) + 1
      /\ Append(t, e)[Len(t) + 1] = e
  BY AppendProperties
<1>3. Follows(j, s, Append(t, e)) BY FollowsGrow
<1>4. j + Len(s) < Len(Append(t, e)) BY <1>1, <1>2
<1>5. Append(t, e)[j + Len(s) + 1] = e BY <1>2
<1>6. QED BY <1>2, <1>3, <1>4, <1>5, FollowsNext

(* A stretch without its first element begins one further on.                *)
LEMMA FollowsTail ==
  ASSUME NEW S, NEW s \in Seq(S), NEW t \in Seq(S), NEW j \in Nat,
         Follows(j, s, t), s # <<>>
  PROVE  Head(s) = t[j + 1] /\ Follows(j + 1, Tail(s), t)
<1>1. /\ Tail(s) \in Seq(S) /\ Len(Tail(s)) = Len(s) - 1
      /\ \A i \in 1 .. Len(Tail(s)) : Tail(s)[i] = s[i + 1]
  BY HeadTailProperties
<1>2. Len(s) \in Nat \ {0} /\ Len(t) \in Nat /\ Head(s) = s[1]
  BY LenProperties, EmptySeq
<1>3. Head(s) = t[j + 1] BY <1>2 DEF Follows
<1>4. ASSUME NEW i \in 1 .. Len(Tail(s)) PROVE Tail(s)[i] = t[(j + 1) + i]
  <2>1. i + 1 \in 1 .. Len(s) /\ j + (i + 1) = (j + 1) + i BY <1>1, <1>2
  <2>2. s[i + 1] = t[j + (i + 1)] BY <2>1 DEF Follows
  <2>3. QED BY <2>1, <2>2, <1>1
<1>5. (j + 1) + Len(Tail(s)) <= Len(t) BY <1>1, <1>2 DEF Follows
<1>6. QED BY <1>3, <1>4, <1>5 DEF Follows

(* A stretch of a sequence without repetitions has none.                     *)
LEMMA FollowsInjective ==
  ASSUME NEW S, NEW s \in Seq(S), NEW t \in Seq(S), NEW j \in Nat,
         Follows(j, s, t), IsInjective(t)
  PROVE  IsInjective(s)
<1>1. /\ DOMAIN s = 1 .. Len(s) /\ Len(s) \in Nat
      /\ DOMAIN t = 1 .. Len(t) /\ Len(t) \in Nat
  BY LenProperties
<1>2. \A i \in 1 .. Len(s) : j + i \in 1 .. Len(t) /\ s[i] = t[j + i]
  BY <1>1 DEF Follows
<1>3. SUFFICES ASSUME NEW a \in 1 .. Len(s), NEW b \in 1 .. Len(s), s[a] = s[b]
               PROVE  a = b
  BY <1>1 DEF IsInjective
<1>4. t[j + a] = t[j + b] BY <1>2, <1>3
<1>5. j + a = j + b BY <1>1, <1>2, <1>4 DEF IsInjective
<1>6. QED BY <1>1, <1>5

-----------------------------------------------------------------------------
(* A set of numbers has a least one.                                        *)
LEMMA LeastNumber ==
  ASSUME NEW T \in SUBSET Nat, T # {}
  PROVE  \E x \in T : \A y \in T : x <= y
<1>1. PICK x \in T : \A y \in T : <<y, x>> \notin OpToRel(<, Nat)
  BY NatLessThanWellFounded, WFMin
<1>2. \A y \in T : ~ (y < x) BY <1>1 DEF OpToRel
<1>3. QED BY <1>2

-----------------------------------------------------------------------------
(* Places, counted.                                                         *)

Upto(P, i) == {j \in P : j <= i}

(* Places are finitely many.                                                *)
LEMMA UptoFinite ==
  ASSUME NEW m \in Nat, NEW P \in SUBSET (1 .. m), NEW i \in Nat
  PROVE  /\ IsFiniteSet(P) /\ Cardinality(P) \in Nat
         /\ IsFiniteSet(Upto(P, i)) /\ Cardinality(Upto(P, i)) \in Nat
<1>1. IsFiniteSet(1 .. m) BY FS_Interval
<1>2. IsFiniteSet(P) BY <1>1, FS_Subset
<1>3. Upto(P, i) \in SUBSET P BY DEF Upto
<1>4. IsFiniteSet(Upto(P, i)) BY <1>2, <1>3, FS_Subset
<1>5. QED BY <1>2, <1>4, FS_CardinalityType

(* The count of a place grows by one from the one before it.                 *)
LEMMA UptoNext ==
  ASSUME NEW m \in Nat, NEW P \in SUBSET (1 .. m), NEW i \in Nat
  PROVE  Cardinality(Upto(P, i + 1)) =
           IF i + 1 \in P THEN Cardinality(Upto(P, i)) + 1 ELSE Cardinality(Upto(P, i))
<1>0. \A j \in P : j <= i + 1 <=> j <= i \/ j = i + 1
  <2>1. \A j \in P : j \in Nat OBVIOUS
  <2>2. QED BY <2>1
<1>1. IsFiniteSet(Upto(P, i)) BY UptoFinite
<1>2. CASE i + 1 \in P
  <2>1. Upto(P, i + 1) = Upto(P, i) \cup {i + 1} BY <1>0, <1>2 DEF Upto
  <2>2. i + 1 \notin Upto(P, i) BY DEF Upto
  <2>3. Cardinality(Upto(P, i) \cup {i + 1}) = Cardinality(Upto(P, i)) + 1
    BY <1>1, <2>2, FS_AddElement
  <2>4. QED BY <1>2, <2>1, <2>3
<1>3. CASE i + 1 \notin P
  <2>1. Upto(P, i + 1) = Upto(P, i) BY <1>0, <1>3 DEF Upto
  <2>2. QED BY <1>3, <2>1
<1>4. QED BY <1>2, <1>3

(* For each number up to their number there is a place.                      *)
LEMMA PlaceExists ==
  ASSUME NEW m \in Nat, NEW P \in SUBSET (1 .. m), NEW n \in 1 .. Cardinality(P)
  PROVE  \E i \in P : Cardinality(Upto(P, i)) = n
<1>1. Cardinality(P) \in Nat /\ n \in Nat \ {0}
  <2>1. Cardinality(P) \in Nat BY 0 \in Nat, UptoFinite
  <2>2. QED BY <2>1
<1> DEFINE T == {i \in Nat : Cardinality(Upto(P, i)) >= n}
<1>2. m \in T
  <2>1. Upto(P, m) = P
    <3>1. \A j \in P : j <= m OBVIOUS
    <3>2. QED BY <3>1 DEF Upto
  <2>2. QED BY <1>1, <2>1
<1>3. PICK i \in T : \A k \in T : i <= k BY <1>2, LeastNumber
<1>4. i \in Nat /\ Cardinality(Upto(P, i)) \in Nat /\ Cardinality(Upto(P, i)) >= n
  BY UptoFinite
<1>5. i # 0
  <2>1. Upto(P, 0) = {}
    <3>1. \A j \in P : ~ (j <= 0) OBVIOUS
    <3>2. QED BY <3>1 DEF Upto
  <2>2. QED BY <1>1, <1>4, <2>1, FS_EmptySet
<1>6. PICK h \in Nat : h + 1 = i
  <2>1. i - 1 \in Nat /\ (i - 1) + 1 = i BY <1>4, <1>5
  <2>2. QED BY <2>1
<1>7. h \notin T
  <2>1. ~ (i <= h) BY <1>6
  <2>2. QED BY <1>3, <2>1
<1>8. Cardinality(Upto(P, h)) \in Nat /\ Cardinality(Upto(P, h)) < n
  <2>1. Cardinality(Upto(P, h)) \in Nat BY UptoFinite
  <2>2. ~ (Cardinality(Upto(P, h)) >= n) BY <1>7
  <2>3. QED BY <1>1, <2>1, <2>2
<1>9. Cardinality(Upto(P, h + 1)) = IF h + 1 \in P THEN Cardinality(Upto(P, h)) + 1
                                    ELSE Cardinality(Upto(P, h))
  BY UptoNext
<1>10. QED BY <1>1, <1>4, <1>6, <1>8, <1>9

(* And only one.                                                            *)
LEMMA PlaceUnique ==
  ASSUME NEW m \in Nat, NEW P \in SUBSET (1 .. m), NEW i \in P, NEW k \in P,
         Cardinality(Upto(P, i)) = Cardinality(Upto(P, k))
  PROVE  i = k
<1>1. ASSUME NEW a \in P, NEW b \in P, a < b
      PROVE  Cardinality(Upto(P, a)) # Cardinality(Upto(P, b))
  <2>1. a \in Nat /\ b \in Nat OBVIOUS
  <2>2. IsFiniteSet(Upto(P, b)) BY <2>1, UptoFinite
  <2>3. Upto(P, a) \in SUBSET Upto(P, b)
    <3>1. \A j \in P : j \in Nat OBVIOUS
    <3>2. \A j \in P : j <= a => j <= b BY <1>1, <2>1, <3>1
    <3>3. QED BY <3>2 DEF Upto
  <2>4. b \in Upto(P, b) /\ b \notin Upto(P, a) BY <1>1, <2>1 DEF Upto
  <2>5. QED BY <2>2, <2>3, <2>4, FS_Subset
<1>2. i \in Nat /\ k \in Nat OBVIOUS
<1>3. QED BY <1>1, <1>2

LEMMA PlaceOfCounts ==
  ASSUME NEW m \in Nat, NEW P \in SUBSET (1 .. m), NEW n \in 1 .. Cardinality(P)
  PROVE  PlaceOf(P, n) \in P /\ Cardinality(Upto(P, PlaceOf(P, n))) = n
<1>1. \E i \in P : Cardinality({j \in P : j <= i}) = n BY PlaceExists DEF Upto
<1>2. QED BY <1>1 DEF PlaceOf, Upto

(* A place is the one its count says.                                       *)
LEMMA PlaceOfCount ==
  ASSUME NEW m \in Nat, NEW P \in SUBSET (1 .. m), NEW i \in P
  PROVE  /\ Cardinality(Upto(P, i)) \in 1 .. Cardinality(P)
         /\ PlaceOf(P, Cardinality(Upto(P, i))) = i
<1>1. i \in Nat OBVIOUS
<1>2. /\ IsFiniteSet(P) /\ Cardinality(P) \in Nat
      /\ IsFiniteSet(Upto(P, i)) /\ Cardinality(Upto(P, i)) \in Nat
  BY <1>1, UptoFinite
<1>3. Cardinality(Upto(P, i)) <= Cardinality(P)
  <2>1. Upto(P, i) \in SUBSET P BY DEF Upto
  <2>2. QED BY <1>2, <2>1, FS_Subset
<1>4. Cardinality(Upto(P, i)) # 0
  <2>1. i \in Upto(P, i) BY <1>1 DEF Upto
  <2>2. QED BY <1>2, <2>1, FS_EmptySet
<1>5. Cardinality(Upto(P, i)) \in 1 .. Cardinality(P) BY <1>2, <1>3, <1>4
<1> DEFINE c == Cardinality(Upto(P, i))
<1>6. PlaceOf(P, c) \in P /\ Cardinality(Upto(P, PlaceOf(P, c))) = c
  BY <1>5, PlaceOfCounts
<1>7. PlaceOf(P, c) = i BY <1>6, PlaceUnique
<1>8. QED BY <1>5, <1>7
-----------------------------------------------------------------------------
(* What filter returns.                                                     *)

LEMMA PickType ==
  ASSUME NEW S, NEW s \in Seq(S), NEW P \in SUBSET (1 .. Len(s))
  PROVE  /\ Pick(s, P) \in Seq(S)
         /\ Len(Pick(s, P)) = Cardinality(P) /\ Cardinality(P) \in Nat
         /\ \A n \in 1 .. Cardinality(P) : Pick(s, P)[n] = s[PlaceOf(P, n)] /\ PlaceOf(P, n) \in P
         /\ Range(Pick(s, P)) = {s[i] : i \in P}
<1>1. Len(s) \in Nat BY LenProperties
<1>2. Cardinality(P) \in Nat BY <1>1, 0 \in Nat, UptoFinite
<1>3. \A n \in 1 .. Cardinality(P) : PlaceOf(P, n) \in P BY <1>1, PlaceOfCounts
<1>4. \A n \in 1 .. Cardinality(P) : s[PlaceOf(P, n)] \in S
  <2>1. \A i \in P : s[i] \in S BY ElementOfSeq
  <2>2. QED BY <1>3, <2>1
<1>5. /\ Pick(s, P) \in [1 .. Cardinality(P) -> S]
      /\ \A n \in 1 .. Cardinality(P) : Pick(s, P)[n] = s[PlaceOf(P, n)]
      /\ DOMAIN Pick(s, P) = 1 .. Cardinality(P)
  BY <1>4 DEF Pick
<1>6. Pick(s, P) \in Seq(S) BY <1>2, <1>5, SeqDef
<1>7. Len(Pick(s, P)) = Cardinality(P) BY <1>2, <1>5, <1>6, LenProperties
<1>8. ASSUME NEW i \in P PROVE \E n \in 1 .. Cardinality(P) : PlaceOf(P, n) = i
  BY <1>1, PlaceOfCount
<1>9. Range(Pick(s, P)) = {s[i] : i \in P}
  <2>1. Range(Pick(s, P)) \subseteq {s[i] : i \in P} BY <1>3, <1>5 DEF Range
  <2>2. ASSUME NEW i \in P PROVE s[i] \in Range(Pick(s, P))
    <3>1. PICK n \in 1 .. Cardinality(P) : PlaceOf(P, n) = i BY <1>8
    <3>2. QED BY <1>5, <3>1 DEF Range
  <2>3. QED BY <2>1, <2>2
<1>10. QED BY <1>2, <1>3, <1>5, <1>6, <1>7, <1>9

(* It repeats nothing if the chosen elements differ.                         *)
LEMMA PickInjective ==
  ASSUME NEW S, NEW s \in Seq(S), NEW P \in SUBSET (1 .. Len(s)),
         \A i, j \in P : s[i] = s[j] => i = j
  PROVE  IsInjective(Pick(s, P))
<1>1. Len(s) \in Nat BY LenProperties
<1>2. /\ DOMAIN Pick(s, P) = 1 .. Cardinality(P)
      /\ \A n \in 1 .. Cardinality(P) : Pick(s, P)[n] = s[PlaceOf(P, n)] /\ PlaceOf(P, n) \in P
  BY PickType, LenProperties
<1>3. SUFFICES ASSUME NEW a \in 1 .. Cardinality(P), NEW b \in 1 .. Cardinality(P),
                      Pick(s, P)[a] = Pick(s, P)[b]
               PROVE  a = b
  BY <1>2 DEF IsInjective
<1>4. PlaceOf(P, a) = PlaceOf(P, b) BY <1>2, <1>3
<1>5. QED BY <1>1, <1>4, PlaceOfCounts

(* It depends on the chosen elements only.                                  *)
LEMMA PickSame ==
  ASSUME NEW S, NEW s \in Seq(S), NEW t \in Seq(S), NEW P \in SUBSET (1 .. Len(s)),
         P \subseteq 1 .. Len(t), \A i \in P : t[i] = s[i]
  PROVE  Pick(t, P) = Pick(s, P)
<1>1. /\ Pick(s, P) \in Seq(S) /\ Len(Pick(s, P)) = Cardinality(P)
      /\ \A n \in 1 .. Cardinality(P) : Pick(s, P)[n] = s[PlaceOf(P, n)] /\ PlaceOf(P, n) \in P
  BY PickType
<1>2. /\ Pick(t, P) \in Seq(S) /\ Len(Pick(t, P)) = Cardinality(P)
      /\ \A n \in 1 .. Cardinality(P) : Pick(t, P)[n] = t[PlaceOf(P, n)] /\ PlaceOf(P, n) \in P
  BY PickType
<1>3. \A n \in 1 .. Cardinality(P) : Pick(t, P)[n] = Pick(s, P)[n] BY <1>1, <1>2
<1>4. QED BY <1>1, <1>2, <1>3, SeqEqual

(* One more place, behind all the others, adds its element at the end.       *)
LEMMA PickExtend ==
  ASSUME NEW S, NEW s \in Seq(S), NEW P \in SUBSET (1 .. Len(s)),
         NEW k \in 1 .. Len(s), \A i \in P : i < k
  PROVE  Pick(s, P \cup {k}) = Append(Pick(s, P), s[k])
<1> DEFINE Q == P \cup {k}
<1>1. Len(s) \in Nat /\ k \in Nat /\ s[k] \in S BY LenProperties, ElementOfSeq
<1>2. Q \in SUBSET (1 .. Len(s)) /\ k \in Q OBVIOUS
<1>3. k \notin P BY <1>1
<1>4. IsFiniteSet(P) /\ Cardinality(P) \in Nat BY <1>1, 0 \in Nat, UptoFinite
<1>5. Cardinality(Q) = Cardinality(P) + 1 BY <1>3, <1>4, FS_AddElement
<1>6. /\ Pick(s, P) \in Seq(S) /\ Len(Pick(s, P)) = Cardinality(P)
      /\ \A n \in 1 .. Cardinality(P) : Pick(s, P)[n] = s[PlaceOf(P, n)] /\ PlaceOf(P, n) \in P
  BY PickType
<1>7. /\ Pick(s, Q) \in Seq(S) /\ Len(Pick(s, Q)) = Cardinality(Q)
      /\ \A n \in 1 .. Cardinality(Q) : Pick(s, Q)[n] = s[PlaceOf(Q, n)] /\ PlaceOf(Q, n) \in Q
  BY <1>2, PickType
<1>8. ASSUME NEW i \in P PROVE Upto(Q, i) = Upto(P, i)
  <2>1. i < k /\ i \in Nat OBVIOUS
  <2>2. ~ (k <= i) BY <1>1, <2>1
  <2>3. QED BY <2>2 DEF Upto
<1>9. Upto(Q, k) = Q
  <2>1. \A j \in Q : j <= k
    <3>1. \A j \in P : j \in Nat OBVIOUS
    <3>2. QED BY <1>1, <3>1
  <2>2. QED BY <2>1 DEF Upto
<1> HIDE DEF Q
<1>10. ASSUME NEW n \in 1 .. Cardinality(P) PROVE PlaceOf(Q, n) = PlaceOf(P, n)
  <2>1. PlaceOf(P, n) \in P /\ Cardinality(Upto(P, PlaceOf(P, n))) = n
    BY <1>1, PlaceOfCounts
  <2>2. PlaceOf(P, n) \in Q /\ Cardinality(Upto(Q, PlaceOf(P, n))) = n
    BY <1>8, <2>1 DEF Q
  <2>3. QED BY <1>1, <1>2, <2>2, PlaceOfCount
<1>11. PlaceOf(Q, Cardinality(Q)) = k BY <1>1, <1>2, <1>9, PlaceOfCount
<1> DEFINE u == Append(Pick(s, P), s[k])
<1>12. /\ u \in Seq(S) /\ Len(u) = Cardinality(P) + 1
       /\ \A n \in 1 .. Cardinality(P) : u[n] = Pick(s, P)[n]
       /\ u[Cardinality(P) + 1] = s[k]
  BY <1>1, <1>6, AppendProperties
<1> HIDE DEF u
<1>13. ASSUME NEW n \in 1 .. Cardinality(Q) PROVE Pick(s, Q)[n] = u[n]
  <2>1. CASE n \in 1 .. Cardinality(P) BY <1>6, <1>7, <1>10, <1>12, <2>1
  <2>2. CASE n = Cardinality(Q) BY <1>5, <1>7, <1>11, <1>12, <2>2
  <2>3. n \in 1 .. Cardinality(P) \/ n = Cardinality(Q) BY <1>4, <1>5
  <2>4. QED BY <2>1, <2>2, <2>3
<1>14. Pick(s, Q) = u BY <1>5, <1>7, <1>12, <1>13, SeqEqual
<1>15. QED BY <1>14 DEF Q, u


(* What slice(-n) returns: all of a short sequence, the end of a long one.   *)
LEMMA LastOfType ==
  ASSUME NEW S, NEW s \in Seq(S), NEW n \in Nat
  PROVE  /\ LastOf(s, n) \in Seq(S) /\ Range(LastOf(s, n)) \subseteq Range(s)
         /\ Len(LastOf(s, n)) = IF Len(s) > n THEN n ELSE Len(s)
         /\ \A i \in 1 .. Len(LastOf(s, n)) :
              LastOf(s, n)[i] = s[Len(s) - Len(LastOf(s, n)) + i]
<1> DEFINE m == IF Len(s) > n THEN Len(s) - n + 1 ELSE 1
           t == SubSeq(s, m, Len(s))
<1>1. Len(s) \in Nat /\ DOMAIN s = 1 .. Len(s) BY LenProperties
<1>2. m \in 1 .. Len(s) + 1 /\ Len(s) - m + 1 = IF Len(s) > n THEN n ELSE Len(s) BY <1>1
<1> HIDE DEF m
<1>3. /\ t \in Seq(S) /\ Len(t) = Len(s) - m + 1
      /\ \A i \in 1 .. Len(t) : t[i] = s[m + i - 1]
  BY <1>1, <1>2, SubSeqProperties
<1>4. DOMAIN t = 1 .. Len(t) BY <1>3, LenProperties
<1> HIDE DEF t
<1>5. \A i \in 1 .. Len(t) : m + i - 1 \in 1 .. Len(s) /\ m + i - 1 = Len(s) - Len(t) + i
  BY <1>1, <1>2, <1>3
<1>6. Range(t) \subseteq Range(s) BY <1>1, <1>3, <1>4, <1>5 DEF Range
<1>7. LastOf(s, n) = t BY DEF LastOf, t, m
<1>8. QED BY <1>2, <1>3, <1>5, <1>6, <1>7

LEMMA LastOfFew ==
  ASSUME NEW S, NEW s \in Seq(S), NEW n \in Nat, Len(s) <= n
  PROVE  LastOf(s, n) = s
<1>1. Len(s) \in Nat BY LenProperties
<1>2. /\ LastOf(s, n) \in Seq(S) /\ Len(LastOf(s, n)) = Len(s)
      /\ \A i \in 1 .. Len(LastOf(s, n)) :
           LastOf(s, n)[i] = s[Len(s) - Len(LastOf(s, n)) + i]
  BY <1>1, LastOfType
<1>3. \A i \in 1 .. Len(s) : Len(s) - Len(s) + i = i BY <1>1
<1>4. \A i \in 1 .. Len(s) : LastOf(s, n)[i] = s[i] BY <1>2, <1>3
<1>5. QED BY <1>2, <1>4, SeqEqual

(* It repeats nothing that the sequence does not repeat.                     *)
LEMMA LastOfInjective ==
  ASSUME NEW S, NEW s \in Seq(S), NEW n \in Nat, IsInjective(s)
  PROVE  IsInjective(LastOf(s, n))
<1> DEFINE m == IF Len(s) > n THEN Len(s) - n + 1 ELSE 1
<1>1. Len(s) \in Nat BY LenProperties
<1>2. m \in 1 .. Len(s) + 1 BY <1>1
<1> HIDE DEF m
<1>3. IsInjective(SubSeq(s, m, Len(s))) BY <1>2, InjectiveSuffix
<1>4. QED BY <1>3 DEF LastOf, m

(* Of a sequence that is too long the first element does not matter.         *)
LEMMA LastOfTail ==
  ASSUME NEW S, NEW s \in Seq(S), NEW n \in Nat, Len(s) > n
  PROVE  LastOf(Tail(s), n) = LastOf(s, n)
<1>1. Len(s) \in Nat \ {0} /\ s # <<>> BY LenProperties, EmptySeq
<1>2. /\ Tail(s) \in Seq(S) /\ Len(Tail(s)) = Len(s) - 1
      /\ \A i \in 1 .. Len(Tail(s)) : Tail(s)[i] = s[i + 1]
  BY <1>1, HeadTailProperties
<1>3. /\ LastOf(s, n) \in Seq(S) /\ Len(LastOf(s, n)) = n
      /\ \A i \in 1 .. n : LastOf(s, n)[i] = s[Len(s) - n + i]
  BY LastOfType
<1>4. /\ LastOf(Tail(s), n) \in Seq(S)
      /\ Len(LastOf(Tail(s), n)) = IF Len(Tail(s)) > n THEN n ELSE Len(Tail(s))
      /\ \A i \in 1 .. Len(LastOf(Tail(s), n)) :
           LastOf(Tail(s), n)[i] = Tail(s)[Len(Tail(s)) - Len(LastOf(Tail(s), n)) + i]
  BY <1>2, LastOfType
<1>5. Len(LastOf(Tail(s), n)) = n
  <2>1. Len(Tail(s)) > n \/ Len(Tail(s)) = n
    <3> DEFINE a == Len(s)
    <3> DEFINE b == Len(Tail(s))
    <3>1. a \in Nat /\ a > n /\ b = a - 1 BY <1>1, <1>2
    <3> HIDE DEF a, b
    <3>2. b > n \/ b = n BY <3>1
    <3>3. QED BY <3>2 DEF b
  <2>2. QED BY <1>4, <2>1
<1>6. ASSUME NEW i \in 1 .. n PROVE LastOf(Tail(s), n)[i] = LastOf(s, n)[i]
  <2>1. /\ Len(s) - 1 - n + i \in 1 .. Len(s) - 1
        /\ (Len(s) - 1 - n + i) + 1 = Len(s) - n + i
    BY <1>1
  <2>2. LastOf(Tail(s), n)[i] = Tail(s)[Len(s) - 1 - n + i] BY <1>2, <1>4, <1>5
  <2>3. Tail(s)[Len(s) - 1 - n + i] = s[Len(s) - n + i] BY <1>2, <2>1
  <2>4. QED BY <1>3, <2>2, <2>3
<1>7. QED BY <1>3, <1>4, <1>5, <1>6, SeqEqual

(* A sequence is its head and the rest.                                      *)
LEMMA ConsHeadTail ==
  ASSUME NEW S, NEW s \in Seq(S), s # <<>>
  PROVE  s = <<Head(s)>> \o Tail(s)
<1>1. /\ Head(s) \in S /\ Tail(s) \in Seq(S) /\ Len(Tail(s)) = Len(s) - 1
      /\ Len(s) \in Nat \ {0}
      /\ \A i \in 1 .. Len(Tail(s)) : Tail(s)[i] = s[i + 1]
  BY HeadTailProperties, LenProperties, EmptySeq
<1>2. <<Head(s)>> \in Seq(S) /\ Len(<<Head(s)>>) = 1 /\ <<Head(s)>>[1] = Head(s) BY <1>1
<1> DEFINE u == <<Head(s)>>
           t == Tail(s)
<1> HIDE DEF u, t
<1>3. u \in Seq(S) /\ Len(u) = 1 /\ u[1] = s[1] /\ t \in Seq(S) /\ Len(t) = Len(s) - 1
      /\ \A i \in 1 .. Len(t) : t[i] = s[i + 1]
  BY <1>1, <1>2 DEF u, t
<1>4. /\ u \o t \in Seq(S) /\ Len(u \o t) = Len(u) + Len(t)
      /\ \A i \in 1 .. Len(u) + Len(t) :
           (u \o t)[i] = IF i <= Len(u) THEN u[i] ELSE t[i - Len(u)]
  BY <1>3, ConcatProperties
<1>5. ASSUME NEW i \in 1 .. Len(s) PROVE (u \o t)[i] = s[i]
  <2>1. CASE i = 1 BY <1>1, <1>3, <1>4, <2>1
  <2>2. CASE i # 1
    <3>1. i - 1 \in 1 .. Len(t) /\ (i - 1) + 1 = i /\ ~ i <= 1 /\ i \in 1 .. 1 + Len(t)
      BY <1>1, <1>3, <2>2
    <3>2. QED BY <1>3, <1>4, <3>1
  <2>3. QED BY <2>1, <2>2
<1>6. Len(u \o t) = Len(s) BY <1>1, <1>3, <1>4
<1>7. u \o t = s BY <1>4, <1>5, <1>6, SeqEqual
<1>8. QED BY <1>7 DEF u, t

(* The rest behind a single element.                                        *)
LEMMA TailOfOne ==
  ASSUME NEW S, NEW h \in Seq(S), Len(h) = 1, NEW u \in Seq(S)
  PROVE  Tail(h \o u) = u
<1> DEFINE v == h \o u
<1>1. /\ v \in Seq(S) /\ Len(v) = 1 + Len(u) /\ Len(u) \in Nat
      /\ \A i \in 1 .. 1 + Len(u) : v[i] = IF i <= 1 THEN h[i] ELSE u[i - 1]
  <2>1. Len(u) \in Nat BY LenProperties
  <2>2. /\ v \in Seq(S) /\ Len(v) = Len(h) + Len(u)
        /\ \A i \in 1 .. Len(h) + Len(u) :
             v[i] = IF i <= Len(h) THEN h[i] ELSE u[i - Len(h)]
    BY ConcatProperties
  <2> HIDE DEF v
  <2>3. QED BY <2>1, <2>2
<1> HIDE DEF v
<1>2. v # <<>> BY <1>1, EmptySeq
<1>3. /\ Tail(v) \in Seq(S) /\ Len(Tail(v)) = Len(v) - 1
      /\ \A i \in 1 .. Len(Tail(v)) : Tail(v)[i] = v[i + 1]
  BY <1>1, <1>2, HeadTailProperties
<1>4. Len(Tail(v)) = Len(u) BY <1>1, <1>3
<1>5. ASSUME NEW i \in 1 .. Len(u) PROVE Tail(v)[i] = u[i]
  <2>1. i + 1 \in 1 .. 1 + Len(u) /\ ~ i + 1 <= 1 /\ (i + 1) - 1 = i BY <1>1
  <2>2. QED BY <1>1, <1>3, <1>4, <2>1
<1>6. Tail(v) = u BY <1>3, <1>4, <1>5, SeqEqual
<1>7. QED BY <1>6 DEF v

LEMMA TailConcat ==
  ASSUME NEW S, NEW s \in Seq(S), NEW t \in Seq(S), s # <<>>
  PROVE  Tail(s) \o t = Tail(s \o t)
<1>1. PICK h \in Seq(S) : Len(h) = 1 /\ s = h \o Tail(s)
  <2>1. Head(s) \in S BY HeadTailProperties
  <2>2. <<Head(s)>> \in Seq(S) /\ Len(<<Head(s)>>) = 1 BY <2>1
  <2>3. QED BY <2>2, ConsHeadTail
<1>2. PICK r \in Seq(S) : r = Tail(s) BY HeadTailProperties
<1>3. (h \o r) \o t = h \o (r \o t) BY ConcatAssociative
<1>4. r \o t \in Seq(S) BY ConcatProperties
<1>5. Tail(h \o (r \o t)) = r \o t BY <1>1, <1>4, TailOfOne
<1>6. s = h \o r BY <1>1, <1>2
<1>7. Tail(s \o t) = r \o t BY <1>3, <1>5, <1>6
<1>8. QED BY <1>2, <1>7

(* Two sequences that have nothing in common and repeat nothing.            *)
LEMMA InjectiveConcat ==
  ASSUME NEW S, NEW s \in Seq(S), NEW t \in Seq(S),
         IsInjective(s), IsInjective(t), Range(s) \cap Range(t) = {}
  PROVE  IsInjective(s \o t)
<1> DEFINE u == s \o t
<1> DEFINE m == Len(s)
<1> DEFINE n == Len(t)
<1>1. m \in Nat /\ n \in Nat /\ DOMAIN s = 1 .. m /\ DOMAIN t = 1 .. n
  BY LenProperties
<1>2. /\ u \in Seq(S) /\ Len(u) = m + n
      /\ \A i \in 1 .. m + n : u[i] = IF i <= m THEN s[i] ELSE t[i - m]
  BY ConcatProperties
<1>3. DOMAIN u = 1 .. m + n BY <1>2, LenProperties
<1> HIDE DEF u, m, n
<1>4. SUFFICES ASSUME NEW a \in 1 .. m + n, NEW b \in 1 .. m + n, u[a] = u[b]
               PROVE  a = b
  BY <1>3 DEF IsInjective, u
<1>5. CASE a <= m /\ b <= m
  <2>1. a \in 1 .. m /\ b \in 1 .. m /\ s[a] = s[b] BY <1>1, <1>2, <1>4, <1>5
  <2>2. QED BY <1>1, <2>1 DEF IsInjective
<1>6. CASE ~ (a <= m) /\ ~ (b <= m)
  <2>1. a - m \in 1 .. n /\ b - m \in 1 .. n /\ t[a - m] = t[b - m]
    BY <1>1, <1>2, <1>4, <1>6
  <2>2. a - m = b - m BY <1>1, <2>1 DEF IsInjective
  <2>3. QED BY <1>1, <2>2
<1>7. ASSUME NEW i \in 1 .. m + n, NEW j \in 1 .. m + n, i <= m, ~ (j <= m)
      PROVE  u[i] # u[j]
  <2>1. i \in 1 .. m /\ j - m \in 1 .. n /\ u[i] = s[i] /\ u[j] = t[j - m]
    BY <1>1, <1>2, <1>7
  <2>2. u[i] \in Range(s) /\ u[j] \in Range(t) BY <1>1, <2>1 DEF Range
  <2>3. QED BY <2>2
<1>8. QED BY <1>4, <1>5, <1>6, <1>7

(* What a bounded list without repetitions becomes when the elements of t    *)
(* that it does not have yet join it: such a list again.                     *)
LEMMA JoinNew ==
  ASSUME NEW S, NEW s \in Seq(S), NEW t \in Seq(S), NEW n \in Nat,
         IsInjective(s), IsInjective(t)
  PROVE  LET u == LastOf(s \o Pick(t, {i \in 1 .. Len(t) : t[i] \notin Range(s)}), n)
         IN  /\ u \in Seq(S) /\ Len(u) <= n /\ IsInjective(u)
             /\ Range(u) \subseteq Range(s) \cup Range(t)
<1> DEFINE P == {i \in 1 .. Len(t) : t[i] \notin Range(s)}
<1> DEFINE new == Pick(t, P)
<1> DEFINE all == s \o new
<1>1. /\ P \in SUBSET (1 .. Len(t)) /\ \A i \in P : t[i] \notin Range(s)
      /\ DOMAIN t = 1 .. Len(t)
  BY LenProperties
<1> HIDE DEF P
<1>2. new \in Seq(S) /\ Range(new) = {t[i] : i \in P} BY <1>1, PickType
<1>3. IsInjective(new)
  <2>1. \A i, j \in P : t[i] = t[j] => i = j BY <1>1 DEF IsInjective
  <2>2. QED BY <1>1, <2>1, PickInjective
<1>4. Range(new) \subseteq Range(t) /\ Range(s) \cap Range(new) = {}
  BY <1>1, <1>2 DEF Range
<1> HIDE DEF new
<1>5. all \in Seq(S) /\ Range(all) = Range(s) \cup Range(new) /\ IsInjective(all)
  BY <1>2, <1>3, <1>4, ConcatProperties, RangeConcatenation, InjectiveConcat
<1> HIDE DEF all
<1>6. /\ LastOf(all, n) \in Seq(S) /\ Range(LastOf(all, n)) \subseteq Range(all)
      /\ Len(LastOf(all, n)) = IF Len(all) > n THEN n ELSE Len(all)
      /\ IsInjective(LastOf(all, n))
  BY <1>5, LastOfType, LastOfInjective
<1>7. Len(LastOf(all, n)) <= n
  <2>1. Len(all) \in Nat BY <1>5, LenProperties
  <2>2. QED BY <1>6, <2>1
<1>8. QED BY <1>4, <1>5, <1>6, <1>7 DEF all, new, P
=============================================================================
