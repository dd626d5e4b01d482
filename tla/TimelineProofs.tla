--------------------------- MODULE TimelineProofs ---------------------------
(* Theorems about Timeline, for any filter dimensions and values, contents   *)
(* of events, capacity, sizes of the viewport and bounds.                   *)
EXTENDS Timeline, SequenceLemmas

(* The bounds, as numbers.                                                  *)
LEMMA Bounds ==
  /\ NoEvent \notin Nat
  /\ Capacity \in Nat \ {0} /\ ViewRows \in Nat \ {0}
  /\ Overscan \in Nat /\ FollowRows \in Nat
  /\ BatchSize \in Nat /\ MaxEvents \in Nat
<1>1. /\ NoEvent \notin Nat
      /\ Capacity \in Nat \ {0} /\ ViewRows \in Nat \ {0}
      /\ Overscan \in Nat /\ FollowRows \in 0 .. Overscan
      /\ BatchSize \in Nat /\ MaxEvents \in Nat
  BY TimelineAssumption, Zenon
<1>2. QED BY <1>1

-----------------------------------------------------------------------------
(* Memoised selectors.                                                      *)

(* What the selectors remember is what they would compute, and there are     *)
(* contents for the buffered ids only.                                      *)
Fresh ==
  /\ shown = Filtered(ids, content, filters)
  /\ chips = FilterOptions(ids, content)
  /\ content = [e \in ToSet(ids) |-> content[e]]

(* The conditions under which a selector goes on with its old result.       *)
LEMMA SelectFresh ==
  ASSUME Fresh, NEW newIds \in BOOLEAN, NEW newFilters \in BOOLEAN,
         Select(newIds, newFilters),
         ~newIds /\ version' = version => ids' = ids /\ content' = content,
         ~newFilters => filters' = filters
  PROVE  /\ shown' = Filtered(ids', content', filters')
         /\ chips' = FilterOptions(ids', content')
<1>1. chips' = FilterOptions(ids', content')
  <2>1. CASE newIds \/ version' # version BY <2>1 DEF Select
  <2>2. CASE ~newIds /\ version' = version BY <2>2 DEF Select, Fresh
  <2>3. QED BY <2>1, <2>2
<1>2. shown' = Filtered(ids', content', filters')
  <2>1. CASE newIds \/ newFilters \/ version' # version BY <2>1 DEF Select
  <2>2. CASE ~newIds /\ ~newFilters /\ version' = version BY <2>2 DEF Select, Fresh
  <2>3. QED BY <2>1, <2>2
<1>3. QED BY <1>1, <1>2

(* A batch changes the version.                                             *)
LEMMA IngestFresh ==
  ASSUME Fresh, version \in Nat, NEW k \in 1 .. BatchSize, NEW kind \in Kinds,
         Ingest(k, kind)
  PROVE  Fresh' /\ version' \in Nat
<1>1. version' = version + k /\ filters' = filters BY DEF Ingest
<1>2. PICK fresh \in BOOLEAN : Select(fresh, FALSE) BY DEF Ingest
<1>3. version' # version /\ version' \in Nat BY <1>1, Bounds
<1>4. /\ shown' = Filtered(ids', content', filters')
      /\ chips' = FilterOptions(ids', content')
  BY <1>1, <1>2, <1>3, SelectFresh
<1>5. content' = [e \in ToSet(ids') |-> content'[e]] BY DEF Ingest
<1>6. QED BY <1>3, <1>4, <1>5 DEF Fresh

(* What a load brings fits into the ring and names no event twice.           *)
LEMMA RowsTyped ==
  ASSUME NEW n \in 0 .. MaxEvents
  PROVE  Rows(n) \in Seq(Events) /\ Len(Rows(n)) <= Capacity /\ IsInjective(Rows(n))
<1> DEFINE m == IF n > Capacity THEN Capacity ELSE n
<1>1. /\ n \in Nat /\ MaxEvents \in Nat /\ Capacity \in Nat
      /\ m \in Nat /\ m <= n /\ m <= Capacity
  BY Bounds
<1>2. Rows(n) = [i \in 1 .. m |-> n + 1 - i] BY DEF Rows
<1> HIDE DEF m
<1>3. Rows(n) \in [1 .. m -> Events]
  <2>1. \A i \in 1 .. m : n + 1 - i \in Events BY <1>1 DEF Events
  <2>2. QED BY <1>2, <2>1
<1>4. Rows(n) \in Seq(Events) /\ Len(Rows(n)) = m
  BY <1>1, <1>3, SeqDef, LenProperties
<1>5. IsInjective(Rows(n))
  <2>1. \A i, j \in 1 .. m : n + 1 - i = n + 1 - j => i = j BY <1>1
  <2>2. QED BY <1>2, <2>1 DEF IsInjective
<1>6. QED BY <1>1, <1>4, <1>5

(* A load that leaves ids and version alone brings nothing and finds nothing.*)
LEMMA ReplaceFresh ==
  ASSUME Fresh, NEW n \in 0 .. MaxEvents, ReplaceEvents(n)
  PROVE  Fresh' /\ version' \in Nat
<1>1. /\ version' = Len(ids') /\ filters' = filters /\ content' \in [ToSet(ids') -> Kinds]
      /\ ids' = Rows(n)
      /\ Select(n > 0 \/ ids # <<>>, FALSE)
  BY DEF ReplaceEvents
<1>2. n \in Nat /\ Capacity \in Nat \ {0} BY Bounds
<1>3. ASSUME ~(n > 0 \/ ids # <<>>)
      PROVE  ids' = ids /\ content' = content
  <2>1. n = 0 /\ ids = <<>> BY <1>2, <1>3
  <2>2. ids' = <<>>
    <3>1. Rows(n) = [i \in 1 .. 0 |-> n + 1 - i] BY <1>2, <2>1 DEF Rows
    <3>2. QED BY <1>1, <3>1
  <2>3. ToSet(<<>>) = {} BY DEF ToSet
  <2>4. content' = [e \in {} |-> content'[e]] BY <1>1, <2>2, <2>3
  <2>5. content = [e \in {} |-> content[e]] BY <2>1, <2>3 DEF Fresh
  <2>6. content' = content BY <2>4, <2>5
  <2>7. QED BY <2>1, <2>2, <2>6
<1>4. (n > 0 \/ ids # <<>>) \in BOOLEAN OBVIOUS
<1>5. /\ shown' = Filtered(ids', content', filters')
      /\ chips' = FilterOptions(ids', content')
  BY <1>1, <1>3, <1>4, SelectFresh
<1>6. version' \in Nat BY <1>1, RowsTyped, LenProperties
<1>7. QED BY <1>1, <1>5, <1>6 DEF Fresh

(* Nothing that is memoised, nor what it is computed from.                   *)
LEMMA OtherSteps ==
  ASSUME \/ JumpToLive \/ UNCHANGED vars
         \/ \E t \in 0 .. Capacity : ScrollTo(t)
         \/ \E i \in 1 .. Capacity : ClickRow(i)
         \/ \E e \in Events : FollowLink(e)
         \/ \E key \in Keys : KeyDown(key)
  PROVE  UNCHANGED <<storeVars, filters, shown, chips>>
BY DEF JumpToLive, ScrollTo, ClickRow, FollowLink, KeyDown, SelectEvent, vars

(* The sidebar, the search field and the reset button set the filters.      *)
FilterSteps ==
  \/ \E d \in Dims, v \in Values : ToggleChip(d, v)
  \/ \E search \in Searches : ChangeSearch(search)
  \/ TogglePausedOnly \/ ResetFilters

(* All of them make a new filters object.                                   *)
LEMMA FiltersAreSet ==
  ASSUME FilterSteps
  PROVE  \E f : SetFilters(f)
BY DEF FilterSteps, ToggleChip, ChangeSearch, TogglePausedOnly, ResetFilters

(* No step leaves a stale result behind.                                    *)
LEMMA FreshStep ==
  ASSUME Fresh, version \in Nat, [Next]_vars
  PROVE  Fresh' /\ version' \in Nat
<1>1. ASSUME NEW k \in 1 .. BatchSize, NEW kind \in Kinds, Ingest(k, kind)
      PROVE  Fresh' /\ version' \in Nat
  BY <1>1, IngestFresh
<1>2. ASSUME NEW n \in 0 .. MaxEvents, ReplaceEvents(n)
      PROVE  Fresh' /\ version' \in Nat
  BY <1>2, ReplaceFresh
<1>3. CASE FilterSteps
  <2>1. PICK f : SetFilters(f) BY <1>3, FiltersAreSet
  <2>2. UNCHANGED <<ids, content, version>> /\ Select(FALSE, TRUE)
    BY <2>1 DEF SetFilters, storeVars
  <2>3. /\ shown' = Filtered(ids', content', filters')
        /\ chips' = FilterOptions(ids', content')
    BY <2>2, SelectFresh
  <2>4. QED BY <2>2, <2>3 DEF Fresh
<1>4. CASE SwitchLayout
  <2>1. UNCHANGED <<ids, content, version, filters>> BY <1>4 DEF SwitchLayout, storeVars
  <2>2. /\ shown' = Filtered(ids, content, filters)
        /\ chips' = FilterOptions(ids, content)
    BY <1>4 DEF SwitchLayout
  <2>3. QED BY <2>1, <2>2 DEF Fresh
<1>5. ASSUME UNCHANGED <<storeVars, filters, shown, chips>>
      PROVE  Fresh' /\ version' \in Nat
  BY <1>5 DEF Fresh, storeVars
<1>6. QED BY <1>1, <1>2, <1>3, <1>4, <1>5, OtherSteps DEF Next, FilterSteps

-----------------------------------------------------------------------------
(* The viewport.                                                            *)

(* A viewport with rows is within them; it follows exactly if it is at the   *)
(* end, and otherwise is further away than the threshold.                   *)
Placed ==
  /\ top \in Nat
  /\ shown # <<>> =>
       LET end == MaxTop(Len(shown))
       IN  /\ top <= end
           /\ following => top = end
           /\ ~following => end - top > FollowRows

(* What the effects of a render leave behind.                               *)
LEMMA SettlePlaces ==
  ASSUME NEW t \in Nat, shown' \in Seq(Events), Settle(t, Len(shown'))
  PROVE  Placed'
<1> DEFINE n == Len(shown')
           at == IF t < MaxTop(n) THEN t ELSE MaxTop(n)
<1>1. /\ n \in Nat /\ ViewRows \in Nat /\ FollowRows \in Nat
      /\ shown' # <<>> => n # 0
  BY Bounds, EmptySeq
<1>2. MaxTop(n) \in Nat BY <1>1 DEF MaxTop
<1>3. /\ following' <=> (n = 0 \/ MaxTop(n) - at <= FollowRows)
      /\ top' = IF n = 0 THEN t ELSE IF MaxTop(n) - at <= FollowRows THEN MaxTop(n) ELSE at
  BY DEF Settle
<1> HIDE DEF n
<1>4. at \in Nat /\ at <= MaxTop(n) BY <1>2
<1>5. top' \in Nat BY <1>2, <1>3, <1>4
<1>6. ASSUME n # 0
      PROVE  /\ top' <= MaxTop(n)
             /\ following' => top' = MaxTop(n)
             /\ ~following' => MaxTop(n) - top' > FollowRows
  BY <1>1, <1>2, <1>3, <1>4, <1>6
<1>7. QED BY <1>1, <1>5, <1>6 DEF Placed, n, MaxTop

(* The same for a render, wherever its scroll element starts.               *)
LEMMA RenderPlaces ==
  ASSUME Placed, shown' \in Seq(Events), Render
  PROVE  Placed'
<1>1. PICK t \in {0, top} : Settle(t, Len(shown')) BY DEF Render
<1>2. t \in Nat BY DEF Placed
<1>3. QED BY <1>1, <1>2, SettlePlaces

(* The place of an event in the list.                                       *)
LEMMA IndexIsPlace ==
  ASSUME NEW e, shown \in Seq(Events)
  PROVE  /\ IndexOf(e) \in 0 .. Len(shown)
         /\ e \in ToSet(shown) => IndexOf(e) # 0
<1>1. CASE e \in ToSet(shown)
  <2>1. \E i \in DOMAIN shown : shown[i] = e BY <1>1 DEF ToSet
  <2>2. IndexOf(e) \in DOMAIN shown BY <1>1, <2>1 DEF IndexOf
  <2>3. DOMAIN shown = 1 .. Len(shown) /\ Len(shown) \in Nat OBVIOUS
  <2>4. QED BY <2>2, <2>3
<1>2. CASE e \notin ToSet(shown) BY <1>2 DEF IndexOf
<1>3. QED BY <1>1, <1>2

(* A scroll to a row leaves it rendered, or the viewport at the end.        *)
LEMMA ScrollPlaces ==
  ASSUME Placed, shown \in Seq(Events), shown' = shown,
         NEW i \in 0 .. Len(shown), ScrollIntoView(i)
  PROVE  Placed' /\ (i # 0 => following' \/ Rendered(i, top'))
<1> DEFINE n == Len(shown)
<1>1. /\ n \in Nat /\ ViewRows \in Nat \ {0} /\ FollowRows \in Nat /\ Overscan \in Nat
      /\ shown # <<>> <=> n # 0
  BY Bounds, EmptySeq
<1>2. CASE i = 0 \/ Rendered(i, top)
  <2>1. UNCHANGED <<top, following>> BY <1>2 DEF ScrollIntoView, viewVars
  <2>2. QED BY <1>2, <2>1 DEF Placed
<1>3. CASE i # 0 /\ ~Rendered(i, top)
  <2>1. PICK t \in {IF i <= top THEN i - 1 ELSE i - ViewRows}
                    \cup (IF following THEN {top} ELSE {}) : Settle(t, n)
    BY <1>3 DEF ScrollIntoView
  <2>2. /\ i \in 1 .. n /\ n # 0 /\ top \in Nat /\ top <= MaxTop(n)
        /\ following => top = MaxTop(n)
    BY <1>1, <1>3 DEF Placed
  <2>3. MaxTop(n) \in Nat /\ (n > ViewRows => MaxTop(n) = n - ViewRows)
    BY <1>1 DEF MaxTop
  <2>4. /\ following' <=> (n = 0 \/ MaxTop(n) - (IF t < MaxTop(n) THEN t ELSE MaxTop(n))
                                      <= FollowRows)
        /\ ~following' => top' = IF t < MaxTop(n) THEN t ELSE MaxTop(n)
    BY <2>1, <2>2 DEF Settle
  <2> HIDE DEF n
  <2>5. i > top => i > top + ViewRows + Overscan
    BY <1>1, <1>3, <2>2 DEF Rendered
  <2>6. t \in Nat BY <1>1, <2>1, <2>2, <2>5
  <2>7. following' \/ Rendered(i, top')
    <3>1. CASE t = top /\ following BY <1>1, <2>2, <2>3, <2>4, <3>1
    <3>2. CASE i <= top /\ t = i - 1
      <4>1. following' \/ top' = i - 1 BY <1>1, <2>2, <2>3, <2>4, <3>2
      <4>2. Rendered(i, i - 1) BY <1>1, <2>2 DEF Rendered
      <4>3. QED BY <4>1, <4>2
    <3>3. CASE i > top /\ t = i - ViewRows
      <4>1. i - ViewRows <= MaxTop(n) BY <1>1, <2>2, <2>3, <2>5, <3>3
      <4>2. following' \/ top' = i - ViewRows BY <1>1, <2>2, <2>3, <2>4, <3>3, <4>1
      <4>3. Rendered(i, i - ViewRows) BY <1>1, <2>2 DEF Rendered
      <4>4. QED BY <4>2, <4>3
    <3>4. QED BY <1>1, <2>1, <2>2, <3>1, <3>2, <3>3
  <2>8. Placed' BY <2>1, <2>6, SettlePlaces DEF n
  <2>9. QED BY <2>7, <2>8
<1>4. QED BY <1>2, <1>3

(* The same for a selection, which scrolls if it moves.                     *)
LEMMA SelectPlaces ==
  ASSUME Placed, shown \in Seq(Events), NEW e, SelectEvent(e)
  PROVE  /\ Placed' /\ selected' = e /\ shown' = shown
         /\ e # selected /\ e \in ToSet(shown) =>
              following' \/ Rendered(IndexOf(e), top')
<1>1. selected' = e /\ shown' = shown BY DEF SelectEvent
<1>2. CASE e = selected
  <2>1. UNCHANGED <<top, following>> BY <1>2 DEF SelectEvent, viewVars
  <2>2. QED BY <1>1, <1>2, <2>1 DEF Placed
<1>3. CASE e # selected
  <2>1. ScrollIntoView(IndexOf(e)) BY <1>3 DEF SelectEvent
  <2>2. QED BY <1>1, <2>1, IndexIsPlace, ScrollPlaces
<1>4. QED BY <1>2, <1>3

(* No step displaces the viewport.                                          *)
LEMMA PlacedStep ==
  ASSUME Placed, shown \in Seq(Events), shown' \in Seq(Events), [Next]_vars
  PROVE  Placed'
<1> USE Bounds
<1>1. CASE \/ \E k \in 1 .. BatchSize, kind \in Kinds : Ingest(k, kind)
           \/ \E n \in 0 .. MaxEvents : ReplaceEvents(n)
  <2>1. Render BY <1>1 DEF Ingest, ReplaceEvents
  <2>2. QED BY <2>1, RenderPlaces
<1>2. CASE FilterSteps
  <2>1. Render BY <1>2, FiltersAreSet DEF SetFilters
  <2>2. QED BY <2>1, RenderPlaces
<1>3. ASSUME NEW t \in Nat, ScrollTo(t) PROVE Placed'
  <2>1. Settle(t, Len(shown')) BY <1>3 DEF ScrollTo
  <2>2. QED BY <2>1, SettlePlaces
<1>4. CASE JumpToLive
  <2>1. MaxTop(Len(shown)) \in Nat BY DEF MaxTop
  <2>2. QED BY <1>3, <1>4, <2>1 DEF JumpToLive
<1>5. CASE SwitchLayout
  <2>1. Settle(0, Len(shown')) BY <1>5 DEF SwitchLayout
  <2>2. QED BY <2>1, SettlePlaces
<1>6. ASSUME NEW e, SelectEvent(e) PROVE Placed' BY <1>6, SelectPlaces
<1>7. ASSUME NEW key \in Keys, KeyDown(key) PROVE Placed'
  <2>1. \/ ScrollIntoView(IndexOf(selected)) /\ shown' = shown
        \/ SelectEvent(shown[NextIndex(key, IndexOf(selected))])
    BY <1>7 DEF KeyDown
  <2>2. QED BY <1>6, <2>1, IndexIsPlace, ScrollPlaces
<1>8. CASE UNCHANGED vars BY <1>8 DEF vars, viewVars, Placed
<1>9. 0 .. Capacity \subseteq Nat OBVIOUS
<1>10. QED
  BY <1>1, <1>2, <1>3, <1>4, <1>5, <1>6, <1>7, <1>8, <1>9
  DEF Next, FilterSteps, ClickRow, FollowLink

(* Nothing is shown at first.                                               *)
LEMMA PlacedInit ==
  ASSUME Init
  PROVE  Placed
<1>1. top = 0 /\ filters = NoFilter /\ ids = <<>> BY DEF Init
<1>2. ~HasActiveFilters(NoFilter) BY DEF HasActiveFilters, NoFilter, Trimmed
<1>3. shown = <<>> BY <1>1, <1>2 DEF Init, Filtered
<1>4. QED BY <1>1, <1>3 DEF Placed

(* What arrives while rows are shown.                                       *)
LEMMA ArrivalStep ==
  ASSUME Placed, shown \in Seq(Events), shown' \in Seq(Events), [Next]_vars,
         last' # last, shown # <<>>, Len(shown') >= Len(shown)
  PROVE  IF following
         THEN Len(shown') - Len(shown) <= FollowRows =>
                following' /\ top' = MaxTop(Len(shown'))
         ELSE ~following' /\ top' = top
<1> DEFINE m == Len(shown)
           n == Len(shown')
<1>1. PICK k \in 1 .. BatchSize, kind \in Kinds : Ingest(k, kind)
  BY DEF Next, ReplaceEvents, ToggleChip, ChangeSearch, TogglePausedOnly, ResetFilters,
         SetFilters, JumpToLive, SwitchLayout, ScrollTo, ClickRow, FollowLink, KeyDown,
         SelectEvent, vars, storeVars
<1>2. Settle(top, n) BY <1>1 DEF Ingest, Render
<1>3. m \in Nat \ {0} /\ n \in Nat \ {0} /\ n >= m BY EmptySeq
<1>4. /\ top \in Nat /\ top <= MaxTop(m)
      /\ following => top = MaxTop(m)
      /\ ~following => MaxTop(m) - top > FollowRows
  BY DEF Placed
<1>5. /\ following' <=> (n = 0 \/ MaxTop(n) - (IF top < MaxTop(n) THEN top ELSE MaxTop(n))
                                    <= FollowRows)
      /\ top' = IF n = 0 THEN top
                ELSE IF MaxTop(n) - (IF top < MaxTop(n) THEN top ELSE MaxTop(n)) <= FollowRows
                     THEN MaxTop(n) ELSE IF top < MaxTop(n) THEN top ELSE MaxTop(n)
  BY <1>2 DEF Settle
<1> HIDE DEF m, n
<1>6. /\ MaxTop(m) \in Nat /\ MaxTop(n) \in Nat /\ MaxTop(m) <= MaxTop(n)
      /\ MaxTop(n) - MaxTop(m) <= n - m
  BY <1>3, Bounds DEF MaxTop
<1>7. following => (n - m <= FollowRows => following' /\ top' = MaxTop(n))
  BY <1>3, <1>4, <1>5, <1>6, Bounds
<1>8. ~following => ~following' /\ top' = top
  BY <1>3, <1>4, <1>5, <1>6, Bounds
<1>9. QED BY <1>7, <1>8 DEF m, n

(* A selection that moves.                                                  *)
LEMMA SelectionStep ==
  ASSUME Placed, shown \in Seq(Events), [Next]_vars,
         selected' # selected, selected' \in ToSet(shown)
  PROVE  following' \/ Rendered(IndexOf(selected'), top')
<1>1. selected' # NoEvent
  <2>1. \A i \in DOMAIN shown : shown[i] \in Events OBVIOUS
  <2>2. selected' \in Events BY <2>1 DEF ToSet
  <2>3. QED BY <2>2, Bounds DEF Events
<1>2. \E e : SelectEvent(e)
  BY <1>1 DEF Next, Ingest, ReplaceEvents, ToggleChip, ChangeSearch, TogglePausedOnly,
              ResetFilters, SetFilters, JumpToLive, SwitchLayout, ScrollTo, ClickRow,
              FollowLink, KeyDown, vars
<1>3. PICK e : SelectEvent(e) BY <1>2
<1>4. selected' = e BY <1>3 DEF SelectEvent
<1>5. QED BY <1>3, <1>4, SelectPlaces

-----------------------------------------------------------------------------
(* Types.                                                                   *)

(* What the selectors and the viewport compute from.                        *)
Typed ==
  /\ last \in 0 .. MaxEvents
  /\ ids \in Seq(Events) /\ Len(ids) <= Capacity /\ IsInjective(ids)
  /\ content \in [ToSet(ids) -> Kinds]
  /\ version \in Nat
  /\ filters \in Filters
  /\ selected \in ToSet(ids) \cup {NoEvent}
  /\ following \in BOOLEAN

LEMMA ElementsOf ==
  ASSUME NEW s
  PROVE  ToSet(s) = Range(s)
BY DEF ToSet, Range

(* The list is a sequence of events and the chips have numbers on them.      *)
LEMMA SelectedType ==
  ASSUME ids \in Seq(Events), Fresh
  PROVE  /\ shown \in Seq(Events) /\ chips \in [Dims -> [Values -> Nat]]
         /\ IsInjective(ids) => IsInjective(shown)
<1>1. DOMAIN ids = 1 .. Len(ids) /\ Len(ids) \in Nat BY LenProperties
<1>2. shown \in Seq(Events) /\ (IsInjective(ids) => IsInjective(shown))
  <2> DEFINE P == {i \in DOMAIN ids : EventMatchesFilters(content[ids[i]], filters)}
  <2>1. P \in SUBSET (1 .. Len(ids)) BY <1>1
  <2>2. shown = Pick(ids, P) \/ shown = ids BY DEF Fresh, Filtered
  <2> HIDE DEF P
  <2>3. Pick(ids, P) \in Seq(Events) BY <2>1, PickType
  <2>4. ASSUME IsInjective(ids) PROVE IsInjective(Pick(ids, P))
    <3>1. \A i, j \in P : ids[i] = ids[j] => i = j BY <1>1, <2>1, <2>4 DEF IsInjective
    <3>2. QED BY <2>1, <3>1, PickInjective
  <2>5. QED BY <2>2, <2>3, <2>4
<1>3. ASSUME NEW d \in Dims, NEW v \in Values
      PROVE  Cardinality({i \in DOMAIN ids : content[ids[i]].of[d] = v}) \in Nat
  <2>1. IsFiniteSet(1 .. Len(ids)) BY <1>1, FS_Interval
  <2>2. {i \in DOMAIN ids : content[ids[i]].of[d] = v} \in SUBSET (1 .. Len(ids)) BY <1>1
  <2>3. QED BY <2>1, <2>2, FS_Subset, FS_CardinalityType
<1>4. QED BY <1>2, <1>3 DEF Fresh, FilterOptions

(* What a batch leaves in the store.                                        *)
LEMMA IngestTyped ==
  ASSUME Typed, NEW k \in 1 .. BatchSize, NEW kind \in Kinds, Ingest(k, kind)
  PROVE  Typed'
<1> DEFINE batch == [i \in 1 .. k |-> last + i]
           P == {i \in 1 .. k : batch[i] \notin ToSet(ids)}
           all == ids \o Pick(batch, P)
<1>1. /\ last + k <= MaxEvents /\ last' = last + k
      /\ ids' = LastOf(all, Capacity)
      /\ content' = [e \in ToSet(ids') |-> IF e \in ToSet(batch) THEN kind ELSE content[e]]
      /\ version' = version + k
      /\ selected' = IF selected \in ToSet(ids') THEN selected ELSE NoEvent
      /\ filters' = filters
      /\ Render
  BY DEF Ingest
<1>2. k \in Nat \ {0} /\ last \in Nat /\ MaxEvents \in Nat /\ Capacity \in Nat \ {0}
  BY Bounds DEF Typed
<1>3. last' \in 0 .. MaxEvents /\ version' \in Nat BY <1>1, <1>2 DEF Typed
<1>4. batch \in Seq(Events) /\ Len(batch) = k
  <2>1. \A i \in 1 .. k : last + i \in Events BY <1>1, <1>2 DEF Events
  <2>2. batch \in [1 .. k -> Events] BY <2>1
  <2>3. batch \in Seq(Events) BY <1>2, <2>2, SeqDef
  <2>4. DOMAIN batch = 1 .. k BY <2>2
  <2> HIDE DEF batch
  <2>5. QED BY <1>2, <2>3, <2>4, LenProperties
<1>5. IsInjective(batch) /\ DOMAIN batch = 1 .. k
  <2>1. \A i, j \in 1 .. k : last + i = last + j => i = j BY <1>2
  <2>2. QED BY <2>1 DEF IsInjective
<1>6. P = {i \in 1 .. Len(batch) : batch[i] \notin Range(ids)} BY <1>4, ElementsOf
<1> HIDE DEF batch, P, all
<1>7. /\ ids' \in Seq(Events) /\ Len(ids') <= Capacity /\ IsInjective(ids')
      /\ Range(ids') \subseteq Range(ids) \cup Range(batch)
  <2>1. ids \in Seq(Events) /\ IsInjective(ids) /\ Capacity \in Nat BY <1>2 DEF Typed
  <2>2. LET u == LastOf(ids \o Pick(batch, {i \in 1 .. Len(batch) : batch[i] \notin Range(ids)}),
                        Capacity)
        IN  /\ u \in Seq(Events) /\ Len(u) <= Capacity /\ IsInjective(u)
            /\ Range(u) \subseteq Range(ids) \cup Range(batch)
    BY <1>4, <1>5, <2>1, JoinNew
  <2>3. QED BY <1>1, <1>6, <2>2 DEF all
<1>8. content' \in [ToSet(ids') -> Kinds]
  <2>1. \A e \in ToSet(ids') : e \in ToSet(batch) \/ e \in ToSet(ids)
    BY <1>7, ElementsOf
  <2>2. QED BY <1>1, <2>1 DEF Typed
<1>9. following' \in BOOLEAN BY <1>1 DEF Render, Settle
<1>10. QED BY <1>1, <1>3, <1>7, <1>8, <1>9 DEF Typed

(* What a load leaves there.                                                *)
LEMMA ReplaceTyped ==
  ASSUME Typed, NEW n \in 0 .. MaxEvents, ReplaceEvents(n)
  PROVE  Typed'
<1>1. /\ ids' = Rows(n) /\ content' \in [ToSet(ids') -> Kinds]
      /\ version' = Len(ids') /\ selected' = NoEvent /\ UNCHANGED <<last, filters>> /\ Render
  BY DEF ReplaceEvents
<1>2. n \in Nat BY Bounds
<1>3. ids' \in Seq(Events) /\ Len(ids') <= Capacity /\ IsInjective(ids')
  BY <1>1, RowsTyped
<1>4. following' \in BOOLEAN BY <1>1 DEF Render, Settle
<1>5. version' \in Nat BY <1>1, <1>3, LenProperties
<1>6. QED BY <1>1, <1>3, <1>4, <1>5 DEF Typed

(* The sidebar makes filters, and nothing but filters.                      *)
LEMMA FilterStepTyped ==
  ASSUME Typed, FilterSteps
  PROVE  Typed'
<1>1. PICK f : SetFilters(f) BY FiltersAreSet
<1>2. filters' \in Filters
  <2>1. filters \in Filters BY DEF Typed
  <2>2. ASSUME NEW d \in Dims, NEW v \in Values, ToggleChip(d, v) PROVE filters' \in Filters
    <3>1. filters' = [filters EXCEPT !.picked[d] = Toggled(@, v)]
      BY <2>2 DEF ToggleChip, SetFilters
    <3>2. Toggled(filters.picked[d], v) \in SUBSET Values BY <2>1 DEF Filters, Toggled
    <3>3. QED BY <2>1, <3>1, <3>2 DEF Filters
  <2>3. ASSUME NEW search \in Searches, ChangeSearch(search) PROVE filters' \in Filters
    BY <2>1, <2>3 DEF ChangeSearch, SetFilters, Filters
  <2>4. CASE TogglePausedOnly
    BY <2>1, <2>4 DEF TogglePausedOnly, SetFilters, Filters
  <2>5. CASE ResetFilters
    BY <2>5 DEF ResetFilters, SetFilters, NoFilter, Filters, Searches
  <2>6. QED BY <2>2, <2>3, <2>4, <2>5 DEF FilterSteps
<1>3. UNCHANGED <<storeVars, selected>> /\ Render BY <1>1 DEF SetFilters
<1>4. following' \in BOOLEAN BY <1>3 DEF Render, Settle
<1>5. QED BY <1>2, <1>3, <1>4 DEF Typed, storeVars

(* Selecting keeps to what is buffered.                                     *)
LEMMA SelectTyped ==
  ASSUME Typed, NEW e \in ToSet(ids), SelectEvent(e)
  PROVE  Typed'
<1>1. selected' = e /\ UNCHANGED <<storeVars, filters>> BY DEF SelectEvent
<1>2. following' \in BOOLEAN
  BY DEF SelectEvent, ScrollIntoView, Settle, viewVars, Typed
<1>3. QED BY <1>1, <1>2 DEF Typed, storeVars

(* What is shown is buffered.                                               *)
LEMMA ShownBuffered ==
  ASSUME ids \in Seq(Events), Fresh, NEW i \in DOMAIN shown
  PROVE  shown[i] \in ToSet(ids)
<1>1. DOMAIN ids = 1 .. Len(ids) BY LenProperties
<1>2. Range(shown) \subseteq Range(ids)
  <2> DEFINE P == {j \in DOMAIN ids : EventMatchesFilters(content[ids[j]], filters)}
  <2>1. P \in SUBSET (1 .. Len(ids)) /\ P \subseteq DOMAIN ids BY <1>1
  <2> HIDE DEF P
  <2>2. Range(Pick(ids, P)) = {ids[j] : j \in P} BY <2>1, PickType
  <2>3. Range(Pick(ids, P)) \subseteq Range(ids) BY <2>1, <2>2 DEF Range
  <2>4. QED BY <2>3 DEF Fresh, Filtered, P
<1>3. shown[i] \in Range(shown) BY DEF Range
<1>4. QED BY <1>2, <1>3, ElementsOf

LEMMA TypedStep ==
  ASSUME Typed, Fresh, Placed, [Next]_vars
  PROVE  Typed'
<1>1. shown \in Seq(Events) BY SelectedType DEF Typed
<1>2. ASSUME NEW k \in 1 .. BatchSize, NEW kind \in Kinds, Ingest(k, kind) PROVE Typed'
  BY <1>2, IngestTyped
<1>3. ASSUME NEW n \in 0 .. MaxEvents, ReplaceEvents(n) PROVE Typed'
  BY <1>3, ReplaceTyped
<1>4. CASE FilterSteps BY <1>4, FilterStepTyped
<1>5. ASSUME NEW t, ScrollTo(t) PROVE Typed'
  BY <1>5 DEF ScrollTo, Settle, Typed, storeVars
<1>6. CASE SwitchLayout BY <1>6 DEF SwitchLayout, Settle, Typed, storeVars
<1>7. ASSUME NEW i \in 1 .. Capacity, ClickRow(i) PROVE Typed'
  <2>1. i \in DOMAIN shown /\ SelectEvent(shown[i]) BY <1>7 DEF ClickRow
  <2>2. shown[i] \in ToSet(ids) BY <2>1, ShownBuffered DEF Typed
  <2>3. QED BY <2>1, <2>2, SelectTyped
<1>8. ASSUME NEW e \in Events, FollowLink(e) PROVE Typed'
  BY <1>8, SelectTyped DEF FollowLink
<1>9. ASSUME NEW key \in Keys, KeyDown(key) PROVE Typed'
  <2> DEFINE i == IndexOf(selected)
  <2>1. CASE /\ key = "Enter" /\ i > 0
             /\ ScrollIntoView(i)
             /\ UNCHANGED <<storeVars, filters, selected, shown, chips>>
    <3>1. following' \in BOOLEAN BY <2>1 DEF ScrollIntoView, Settle, viewVars, Typed
    <3>2. QED BY <2>1, <3>1 DEF Typed, storeVars
  <2>2. CASE /\ key # "Enter" \/ i = 0
             /\ SelectEvent(shown[NextIndex(key, i)])
    <3>1. i \in 0 .. Len(shown) BY <1>1, IndexIsPlace
    <3>2. Len(shown) \in Nat \ {0} /\ DOMAIN shown = 1 .. Len(shown)
      BY <1>1, <1>9, EmptySeq, LenProperties DEF KeyDown
    <3> HIDE DEF i
    <3>3. NextIndex(key, i) \in DOMAIN shown
      <4>1. CASE i = 0 BY <3>2, <4>1 DEF NextIndex, Keys
      <4>2. CASE i # 0 BY <2>2, <3>1, <3>2, <4>2 DEF NextIndex, Keys
      <4>3. QED BY <4>1, <4>2
    <3>4. shown[NextIndex(key, i)] \in ToSet(ids) BY <3>3, ShownBuffered DEF Typed
    <3>5. QED BY <2>2, <3>4, SelectTyped
  <2>3. QED BY <1>9, <2>1, <2>2 DEF KeyDown
<1>10. CASE UNCHANGED vars BY <1>10 DEF vars, viewVars, storeVars, Typed
<1>11. QED
  BY <1>2, <1>3, <1>4, <1>5, <1>6, <1>7, <1>8, <1>9, <1>10
  DEF Next, FilterSteps, JumpToLive

(* Nothing is buffered at first.                                            *)
LEMMA TimelineInit ==
  ASSUME Init
  PROVE  Typed /\ Fresh /\ Placed
<1>1. ids = <<>> /\ ToSet(<<>>) = {} /\ <<>> \in Seq(Events) /\ Len(<<>>) = 0
  BY EmptySeq DEF Init, ToSet
<1>2. content = [e \in {} |-> content[e]] BY DEF Init
<1>3. Fresh BY <1>1, <1>2 DEF Init, Fresh
<1>4. NoFilter \in Filters BY DEF NoFilter, Filters, Searches
<1>5. IsInjective(ids) BY <1>1 DEF IsInjective
<1>6. Typed BY <1>1, <1>2, <1>4, <1>5, Bounds DEF Init, Typed
<1>7. QED BY <1>3, <1>6, PlacedInit

(* Types, memoised results and viewport hold each other up: a list of the    *)
(* buffered events makes room for the viewport, the viewport's rows are what *)
(* can be selected, and a selection is of what is buffered.                  *)
TimelineInv == Typed /\ Fresh /\ Placed

LEMMA ListType == Typed /\ Fresh => shown \in Seq(Events)
BY SelectedType DEF Typed

LEMMA TimelineInvariant == Spec => []TimelineInv
<1>1. Init => TimelineInv BY TimelineInit DEF TimelineInv
<1>2. ASSUME TimelineInv, [Next]_vars PROVE TimelineInv'
  <2>1. Typed' BY <1>2, TypedStep DEF TimelineInv
  <2>2. Fresh' BY <1>2, FreshStep DEF TimelineInv, Typed
  <2>3. shown \in Seq(Events) BY <1>2, ListType DEF TimelineInv
  <2>4. (shown \in Seq(Events))'
    BY <2>1, <2>2, ListType, PTL
  <2>5. Placed' BY <1>2, <2>3, <2>4, PlacedStep DEF TimelineInv
  <2>6. QED BY <2>1, <2>2, <2>5 DEF TimelineInv
<1>3. QED BY <1>1, <1>2, PTL DEF Spec

-----------------------------------------------------------------------------
(* The theorems.                                                            *)

(* The list is a sequence of events, the chips have numbers on them, what is *)
(* selected is buffered, and the viewport is within the list.               *)
THEOREM TimelineTypeCorrect == Spec => []TypeOK
<1>1. ASSUME TimelineInv PROVE TypeOK
  <2>1. /\ shown \in Seq(Events) /\ chips \in [Dims -> [Values -> Nat]]
        /\ IsInjective(shown)
    BY <1>1, SelectedType DEF TimelineInv, Typed
  <2>2. QED BY <1>1, <2>1 DEF TimelineInv, Typed, Placed, TypeOK
<1>2. QED BY <1>1, TimelineInvariant, PTL

(* The memoised list and the memoised chips are never stale: the identities  *)
(* and the version that event-selectors.ts compares change whenever ids,     *)
(* contents or filters do.                                                  *)
THEOREM MemoFreshAlways == Spec => []MemoFresh
<1>1. TimelineInv => MemoFresh
  <2>1. ~HasActiveFilters(filters) =>
          \A e \in ToSet(ids) : EventMatchesFilters(content[e], filters)
    BY DEF HasActiveFilters, EventMatchesFilters
  <2>2. QED BY <2>1 DEF TimelineInv, Fresh, MemoFresh
<1>2. QED BY <1>1, TimelineInvariant, PTL

(* What the stream brings moves no reader and loses no live end              *)
(* (TimelineViewport.tsx, both effects).                                    *)
THEOREM ArrivalsKeepPlace == Spec => ArrivalKeepsPlace
<1>1. TimelineInv /\ TimelineInv' /\ [Next]_vars
      => [ (last' # last /\ shown # <<>> /\ Len(shown') >= Len(shown)) =>
             IF following
             THEN Len(shown') - Len(shown) <= FollowRows =>
                    following' /\ top' = MaxTop(Len(shown'))
             ELSE ~following' /\ top' = top ]_vars
  <2>1. SUFFICES ASSUME TimelineInv, TimelineInv', [Next]_vars,
                        last' # last, shown # <<>>, Len(shown') >= Len(shown)
                 PROVE  IF following
                        THEN Len(shown') - Len(shown) <= FollowRows =>
                               following' /\ top' = MaxTop(Len(shown'))
                        ELSE ~following' /\ top' = top
    OBVIOUS
  <2>2. shown \in Seq(Events) BY <2>1, ListType DEF TimelineInv
  <2>3. Typed' /\ Fresh' BY <2>1 DEF TimelineInv
  <2>4. (shown \in Seq(Events))' BY <2>3, ListType, PTL
  <2>5. QED BY <2>1, <2>2, <2>4, ArrivalStep DEF TimelineInv
<1>2. QED BY <1>1, TimelineInvariant, PTL DEF Spec, ArrivalKeepsPlace

(* A selection that moves is rendered afterwards, whatever moved it          *)
(* (useTimelineSelectionNavigation.ts, isIndexVisible).                     *)
THEOREM SelectionsAreRendered == Spec => SelectionIsRendered
<1>1. TimelineInv /\ [Next]_vars
      => [ (selected' # selected /\ selected' \in ToSet(shown)) =>
             following' \/ Rendered(IndexOf(selected'), top') ]_vars
  <2>1. SUFFICES ASSUME TimelineInv, [Next]_vars,
                        selected' # selected, selected' \in ToSet(shown)
                 PROVE  following' \/ Rendered(IndexOf(selected'), top')
    OBVIOUS
  <2>2. shown \in Seq(Events) BY <2>1, ListType DEF TimelineInv
  <2>3. QED BY <2>1, <2>2, SelectionStep DEF TimelineInv
<1>2. QED BY <1>1, TimelineInvariant, PTL DEF Spec, SelectionIsRendered
=============================================================================
