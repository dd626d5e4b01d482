------------------------------ MODULE Timeline ------------------------------
(***************************************************************************)
(* What the desktop shows of the event store: the filtered list and the     *)
(* filter chips, both computed by memoising selectors (event-selectors.ts), *)
(* the sidebar that changes the filters, selection by click, key and link,  *)
(* and the virtualised viewport that follows the live end.                  *)
(*                                                                         *)
(* A store change, the render it causes and the effects of that render are  *)
(* one JavaScript turn and one action.  Every render of the viewport re-runs *)
(* both of its effects (see LiveFeed on useEffectEvent).  Scroll positions  *)
(* are counted in rows: top is the number of rows above the viewport.       *)
(***************************************************************************)
EXTENDS Integers, Sequences, SequencesExt, FiniteSets, Subsequences

CONSTANTS
  Dims,        \* what chips filter by: session, server, risk, direction, category
  Values,      \* the values of a dimension, and the words of a search
  Kinds,       \* contents of an event
  NoEvent,     \* nothing selected
  Capacity,    \* of the ring
  ViewRows,    \* rows the viewport has room for
  Overscan,    \* OVERSCAN_ROWS
  FollowRows,  \* rows of followLiveThresholdPx
  BatchSize,   \* bound: events in a batch
  MaxEvents    \* bound: events of the stream

ASSUME TimelineAssumption ==
  /\ Kinds \subseteq [of : [Dims -> Values], paused : BOOLEAN]
  /\ {"", " "} \cap Values = {}
  /\ NoEvent \notin Nat
  /\ Capacity \in Nat \ {0} /\ ViewRows \in Nat \ {0}
  /\ Overscan \in Nat /\ FollowRows \in 0 .. Overscan
  /\ BatchSize \in Nat /\ MaxEvents \in Nat

VARIABLES
  last,       \* the last event of the stream so far
  ids,        \* ring.ids
  content,    \* eventsById: of each buffered event
  version,    \* eventsVersion
  filters,
  selected,   \* selectedEventId
  shown,      \* result of the timeline's selector
  chips,      \* results of the filter option selectors: counts per value
  top,        \* scroll offset of the viewport
  following   \* followLiveRef.current

storeVars == <<last, ids, content, version>>
viewVars  == <<top, following>>
vars == <<storeVars, filters, selected, shown, chips, viewVars>>

Events   == 1 .. MaxEvents
Searches == {"", " "} \cup Values   \* " " stands for nothing but blanks
Filters  == [picked : [Dims -> SUBSET Values], search : Searches, pausedOnly : BOOLEAN]
NoFilter == [picked |-> [d \in Dims |-> {}], search |-> "", pausedOnly |-> FALSE]
Keys     == {"ArrowDown", "ArrowUp", "End", "Enter", "Home"}

MaxTop(n) == IF n > ViewRows THEN n - ViewRows ELSE 0

TypeOK ==
  /\ last \in 0 .. MaxEvents
  /\ ids \in Seq(Events) /\ Len(ids) <= Capacity /\ IsInjective(ids)
  /\ content \in [ToSet(ids) -> Kinds]
  /\ version \in Nat
  /\ filters \in Filters
  /\ selected \in ToSet(ids) \cup {NoEvent}
  /\ shown \in Seq(Events) /\ IsInjective(shown)
  /\ chips \in [Dims -> [Values -> Nat]]
  /\ top \in Nat /\ (shown # <<>> => top <= MaxTop(Len(shown)))
  /\ following \in BOOLEAN

-----------------------------------------------------------------------------
(* Selectors.                                                               *)

Trimmed(search) == IF search = " " THEN "" ELSE search

HasActiveFilters(f) ==
  \/ Trimmed(f.search) # ""
  \/ \E d \in Dims : f.picked[d] # {}
  \/ f.pausedOnly

EventMatchesFilters(kind, f) ==
  /\ f.pausedOnly => kind.paused
  /\ \A d \in Dims : f.picked[d] # {} => kind.of[d] \in f.picked[d]
  /\ Trimmed(f.search) # "" => \E d \in Dims : kind.of[d] = f.search

Filtered(s, kindOf, f) ==
  IF HasActiveFilters(f)
  THEN Pick(s, {i \in DOMAIN s : EventMatchesFilters(kindOf[s[i]], f)})
  ELSE s

FilterOptions(s, kindOf) ==
  [d \in Dims |-> [v \in Values |-> Cardinality({i \in DOMAIN s : kindOf[s[i]].of[d] = v})]]

(* The selectors run at every store change, so what each of them remembers  *)
(* is the state before it: ids and filters by identity, which newIds and    *)
(* newFilters say have changed, and the version by value.                   *)
Select(newIds, newFilters) ==
  /\ shown' = IF newIds \/ newFilters \/ version' # version
              THEN Filtered(ids', content', filters') ELSE shown
  /\ chips' = IF newIds \/ version' # version
              THEN FilterOptions(ids', content') ELSE chips

-----------------------------------------------------------------------------
(* The viewport.                                                            *)

(* Mutant: the scroll to the end does not ask followLiveRef.                *)
SettleAtEnd(t, n) ==
  LET at == IF t < MaxTop(n) THEN t ELSE MaxTop(n)
  IN  /\ following' = (n = 0 \/ MaxTop(n) - at <= FollowRows)
      /\ top' = IF n = 0 THEN t ELSE MaxTop(n)

(* The effects of a render with n rows that finds the offset at t: the       *)
(* browser bounds it, updateFollowState looks how far the end is, and a     *)
(* viewport that follows is scrolled there.  Without rows there is no        *)
(* scroll element.                                                          *)
Settle(t, n) ==
  LET at   == IF t < MaxTop(n) THEN t ELSE MaxTop(n)
      near == MaxTop(n) - at <= FollowRows
  IN  /\ following' = (n = 0 \/ near)
      /\ top' = IF n = 0 THEN t ELSE IF near THEN MaxTop(n) ELSE at

(* A new scroll element starts at the top, or where the virtualizer last    *)
(* knew the old one to be.                                                  *)
Render == \E t \in (IF shown = <<>> THEN {0, top} ELSE {top}) : Settle(t, Len(shown'))

Rendered(i, t) == t + 1 - Overscan <= i /\ i <= t + ViewRows + Overscan

-----------------------------------------------------------------------------
(* The store.                                                               *)

(* Mutant: a batch that brings no new id leaves the version alone.          *)
IngestCountingNew(k, kind) ==
  /\ last + k <= MaxEvents
  /\ last' = last + k
  /\ LET batch == [i \in 1 .. k |-> last + i]
         new   == Pick(batch, {i \in 1 .. k : batch[i] \notin ToSet(ids)})
     IN  /\ ids' = LastOf(ids \o new, Capacity)
         /\ content' = [e \in ToSet(ids') |-> IF e \in ToSet(batch) THEN kind ELSE content[e]]
         /\ version' = version + Len(new)
         /\ selected' = IF selected \in ToSet(ids') THEN selected ELSE NoEvent
         /\ UNCHANGED filters
         /\ Select(new # <<>>, FALSE)
  /\ Render

(* Mutant: an evicted event stays selected.                                 *)
IngestKeepingSelection(k, kind) ==
  /\ last + k <= MaxEvents
  /\ last' = last + k
  /\ LET batch == [i \in 1 .. k |-> last + i]
         new   == Pick(batch, {i \in 1 .. k : batch[i] \notin ToSet(ids)})
     IN  /\ ids' = LastOf(ids \o new, Capacity)
         /\ content' = [e \in ToSet(ids') |-> IF e \in ToSet(batch) THEN kind ELSE content[e]]
         /\ version' = version + k
         /\ UNCHANGED <<filters, selected>>
         /\ Select(new # <<>>, FALSE)
  /\ Render

(* ingestEvents with the next k events of the stream, some of which the      *)
(* session's rows may have brought already: those keep their place, and     *)
(* ring.ids is the same array if there is no new one.                       *)
Ingest(k, kind) ==
  /\ last + k <= MaxEvents
  /\ last' = last + k
  /\ LET batch == [i \in 1 .. k |-> last + i]
         new   == Pick(batch, {i \in 1 .. k : batch[i] \notin ToSet(ids)})
     IN  /\ ids' = LastOf(ids \o new, Capacity)
         /\ content' = [e \in ToSet(ids') |-> IF e \in ToSet(batch) THEN kind ELSE content[e]]
         /\ version' = version + k
         /\ selected' = IF selected \in ToSet(ids') THEN selected ELSE NoEvent
         /\ UNCHANGED filters
         /\ Select(new # <<>>, FALSE)
  /\ Render

(* What ListEvents returns of n stored events: the newest Capacity of them,  *)
(* the newest first.                                                        *)
Rows(n) == [i \in 1 .. (IF n > Capacity THEN Capacity ELSE n) |-> n + 1 - i]

(* App: replaceAll with the rows, and clearSelection, in one turn.  Without  *)
(* rows ring.ids is the shared empty array.                                 *)
ReplaceEvents(n) ==
  /\ n <= MaxEvents /\ n <= last + 1
  /\ ids' = Rows(n)
  /\ content' \in [ToSet(ids') -> Kinds]
  /\ version' = Len(ids')
  /\ selected' = NoEvent
  /\ UNCHANGED <<last, filters>>
  /\ Select(n > 0 \/ ids # <<>>, FALSE)
  /\ Render

-----------------------------------------------------------------------------
(* The sidebar, and the search field of the top bar.                        *)

(* patchFilters and resetFilters make a new filters object each time.       *)
SetFilters(f) ==
  /\ filters' = f
  /\ UNCHANGED <<storeVars, selected>>
  /\ Select(FALSE, TRUE)
  /\ Render

Toggled(values, v) == IF v \in values THEN values \ {v} ELSE values \cup {v}

(* A chip is there for the values that occur.                               *)
HasChip(d, v) == chips[d][v] > 0

ToggleChip(d, v) ==
  /\ HasChip(d, v)
  /\ SetFilters([filters EXCEPT !.picked[d] = Toggled(@, v)])

ChangeSearch(search) == SetFilters([filters EXCEPT !.search = search])
TogglePausedOnly == SetFilters([filters EXCEPT !.pausedOnly = ~@])
ResetFilters == HasActiveFilters(filters) /\ SetFilters(NoFilter)

-----------------------------------------------------------------------------
(* Scrolling.                                                               *)

ScrollTo(t) ==
  /\ shown # <<>>
  /\ t <= MaxTop(Len(shown))
  /\ Settle(t, Len(shown))
  /\ UNCHANGED <<storeVars, filters, selected, shown, chips>>

JumpToLive == ScrollTo(MaxTop(Len(shown)))

(* The other layout has panels of its own: new selectors, a new viewport     *)
(* that begins at the top and takes itself to be following until its first  *)
(* effect has looked.                                                       *)
SwitchLayout ==
  /\ shown' = Filtered(ids, content, filters)
  /\ chips' = FilterOptions(ids, content)
  /\ Settle(0, Len(shown'))
  /\ UNCHANGED <<storeVars, filters, selected>>

-----------------------------------------------------------------------------
(* Selection.                                                               *)

(* 0 for an event that is not shown.                                        *)
IndexOf(e) ==
  IF e \in ToSet(shown) THEN CHOOSE i \in DOMAIN shown : shown[i] = e ELSE 0

(* Mutant: one row too many below counts as rendered.                       *)
ScrollIntoViewLazily(i) ==
  IF i = 0 \/ Rendered(i, top) \/ Rendered(i, top + 1)
  THEN UNCHANGED viewVars
  ELSE Settle(IF i <= top THEN i - 1 ELSE i - ViewRows, Len(shown))

(* scrollToIndex(i, auto), smoothly: the first scroll event of an animation  *)
(* that leaves the live end may come so early that the viewport still       *)
(* follows and goes back.                                                   *)
ScrollIntoView(i) ==
  IF i = 0 \/ Rendered(i, top)
  THEN UNCHANGED viewVars
  ELSE \E t \in {IF i <= top THEN i - 1 ELSE i - ViewRows}
                  \cup (IF following THEN {top} ELSE {}) : Settle(t, Len(shown))

(* selectEvent, and the subscription that scrolls when the selection changes.*)
SelectEvent(e) ==
  /\ selected' = e
  /\ IF e = selected THEN UNCHANGED viewVars ELSE ScrollIntoView(IndexOf(e))
  /\ UNCHANGED <<storeVars, filters, shown, chips>>

ClickRow(i) ==
  /\ i \in DOMAIN shown /\ Rendered(i, top)
  /\ SelectEvent(shown[i])

(* The inspector's link to the paired event, which may be filtered out.     *)
FollowLink(e) == e \in ToSet(ids) /\ SelectEvent(e)

(* resolveNextSelectionIndex, for a list that is not empty.                 *)
NextIndex(key, i) ==
  CASE key = "Home"               -> 1
    [] key = "End"                -> Len(shown)
    [] key \notin {"Home", "End"} /\ i = 0 -> Len(shown)
    [] key = "ArrowUp" /\ i > 0   -> IF i > 1 THEN i - 1 ELSE 1
    [] key = "ArrowDown" /\ i > 0 -> IF i < Len(shown) THEN i + 1 ELSE Len(shown)
    [] key = "Enter" /\ i > 0     -> i

KeyDown(key) ==
  /\ shown # <<>>
  /\ LET i == IndexOf(selected)
     IN  \/ /\ key = "Enter" /\ i > 0
            /\ ScrollIntoView(i)
            /\ UNCHANGED <<storeVars, filters, selected, shown, chips>>
         \/ /\ key # "Enter" \/ i = 0
            /\ SelectEvent(shown[NextIndex(key, i)])

-----------------------------------------------------------------------------

Init ==
  /\ last = 0 /\ ids = <<>> /\ version = 0
  /\ content = [e \in {} |-> NoEvent]
  /\ filters = NoFilter
  /\ selected = NoEvent
  /\ shown = Filtered(ids, content, filters)
  /\ chips = FilterOptions(ids, content)
  /\ top = 0 /\ following = TRUE

Next ==
  \/ \E k \in 1 .. BatchSize, kind \in Kinds : Ingest(k, kind)
  \/ \E n \in 0 .. MaxEvents : ReplaceEvents(n)
  \/ \E d \in Dims, v \in Values : ToggleChip(d, v)
  \/ \E search \in Searches : ChangeSearch(search)
  \/ TogglePausedOnly \/ ResetFilters \/ JumpToLive \/ SwitchLayout
  \/ \E t \in 0 .. Capacity : ScrollTo(t)
  \/ \E i \in 1 .. Capacity : ClickRow(i)
  \/ \E e \in Events : FollowLink(e)
  \/ \E key \in Keys : KeyDown(key)

Spec == Init /\ [][Next]_vars

-----------------------------------------------------------------------------
(* Properties.                                                              *)

(* The memoised results are never stale, whether a batch brings ids,         *)
(* contents or both and whether the ring, a filter or the layout changes;   *)
(* and taking all ids when no filter is active is what filtering would do.  *)
MemoFresh ==
  /\ shown = Filtered(ids, content, filters)
  /\ chips = FilterOptions(ids, content)
  /\ HasActiveFilters(filters) \/ \A e \in ToSet(ids) : EventMatchesFilters(content[e], filters)

(* What the stream brings moves nobody who reads further up, and a viewport  *)
(* that follows keeps following as long as a batch is within the threshold. *)
ArrivalKeepsPlace ==
  [][ (last' # last /\ shown # <<>> /\ Len(shown') >= Len(shown)) =>
        IF following
        THEN Len(shown') - Len(shown) <= FollowRows => following' /\ top' = MaxTop(Len(shown'))
        ELSE ~following' /\ top' = top ]_vars

(* A selection that moves to a row of the list leaves that row rendered, by  *)
(* whatever way it moved, or the viewport at the live end.                  *)
SelectionIsRendered ==
  [][ (selected' # selected /\ selected' \in ToSet(shown)) =>
        following' \/ Rendered(IndexOf(selected'), top') ]_vars
=============================================================================
