------------------------------ MODULE Inspector ------------------------------
(***************************************************************************)
(* The inspector: two panels that show the selected event and the event it   *)
(* is paired with, each fetched on demand and kept in React Query's cache,   *)
(* and the editors they are shown in (EventInspectorDetails.tsx,             *)
(* CodeMirrorJsonView.tsx, event-details-api.ts).                            *)
(*                                                                         *)
(* A query is fetched at most twice, since the client retries once; its      *)
(* function takes the abort signal, so the query is cancelled and reverted   *)
(* when the last panel leaves it.  A change of the store, the render and the *)
(* effects it causes are one action; the effects of the first panel come     *)
(* before those of the second.                                              *)
(***************************************************************************)
EXTENDS EventCodec, FiniteSets

CONSTANTS
  EventIds,
  Traffic,  \* the frames that are sent, by event
  Partner,  \* the other side of a pair, "" for none
  NoEvent

ASSUME InspectorAssumption ==
  /\ \A e \in EventIds : Traffic[e] \subseteq Frames
  /\ Partner \in [EventIds -> EventIds \cup {Empty}]
  /\ \A e \in EventIds : Partner[e] # Empty => Partner[e] # e /\ Partner[Partner[e]] = e
  /\ Empty \notin EventIds /\ NoEvent \notin EventIds
  /\ Absent \notin EventIds /\ Null \notin EventIds \cup Details(EventIds)

VARIABLES
  frame,       \* the frame of each event
  rowLink,     \* paired_id of its row
  rows,        \* events with a row
  eventsById,  \* the store
  selected,    \* selectedEventId
  query,       \* status of the query for each event's detail
  data,        \* and its data, Null without
  tab,         \* activeTab of each panel
  editors      \* of each panel: <<section, document>>

traffic == <<frame, rowLink>>
inspectorVars == <<traffic, rows, eventsById, selected, query, data, tab, editors>>

Panels == {1, 2}
Fetching == {"fetching", "waiting", "refetching"}

(* Enrich pairs a result with its request; a request is broadcast before     *)
(* its response comes.                                                      *)
Link(e) ==
  IF /\ Partner[e] # Empty
     /\ Accepted(frame[e]) /\ Accepted(frame[Partner[e]])
     /\ {MessageType(frame[e]), MessageType(frame[Partner[e]])} = {"request", "response"}
  THEN Partner[e] ELSE Empty
SentLink(e) == IF MessageType(frame[e]) = "response" THEN Link(e) ELSE Empty

Live(e)   == Event(frame[e], SentLink(e))
Stored(e) == Row(Event(frame[e], rowLink[e]))

InspectorTypeOK ==
  /\ rows \subseteq EventIds
  /\ DOMAIN eventsById \subseteq EventIds
  /\ \A e \in DOMAIN eventsById :
       /\ eventsById[e] \in Details(EventIds)
       /\ eventsById[e].type = MessageType(frame[e])
       /\ eventsById[e].pairedId \in {Empty, Link(e)}
  /\ selected \in DOMAIN eventsById \cup {NoEvent}
  /\ query \in [EventIds -> Fetching \cup {"idle", "data", "error"}]
  /\ data \in [EventIds -> Details(EventIds) \cup {Null}]
  /\ \A e \in EventIds : data[e] # Null <=> query[e] = "data"
  /\ tab \in [Panels -> {"parsed", "raw"}]

-----------------------------------------------------------------------------
(* What the panels observe and show.                                        *)

(* LinkedDetailPanel: the selected event; PairedDetailPanel: the event that  *)
(* the selected one, as the store has it, is paired with.                   *)
Targets(byId, sel) ==
  IF sel \notin DOMAIN byId THEN <<NoEvent, NoEvent>>
  ELSE <<sel, IF byId[sel].pairedId \in EventIds THEN byId[sel].pairedId ELSE NoEvent>>

Target == Targets(eventsById, selected)

(* Neither skeleton nor error nor nothing.                                  *)
ShowsDetail(target, q) == target # NoEvent /\ q[target] = "data"

(* DetailPayloadView; the raw document stands for the bytes of the frame.   *)
Documents(target, q, d, t) ==
  IF ~ShowsDetail(target, q) THEN {}
  ELSE IF t = "raw" THEN {<<"raw", frame[target]>>}
  ELSE Sections(d[target])

CanJump ==
  /\ ShowsDetail(Target[1], query)
  /\ data[selected].pairedId \in EventIds
  /\ eventsById[selected].pairedId \in DOMAIN eventsById

(* Mutant: an editor keeps the document it was created with.                *)
ReconcileMounting(held, docs) ==
  {h \in held : \E d \in docs : d[1] = h[1]} \cup {d \in docs : \A h \in held : h[1] # d[1]}

(* Editors are created, destroyed or, where the section stays, given its     *)
(* new document.                                                            *)
Reconcile(held, docs) == docs

(* A panel that goes on showing a detail, if another one, keeps its tab.    *)
Render(targets, q, d, chosen) ==
  LET tabs == [p \in Panels |-> IF ShowsDetail(Target[p], query) /\ ShowsDetail(targets[p], q)
                                THEN chosen[p] ELSE "parsed"]
  IN  /\ query' = q
      /\ data' = d
      /\ tab' = tabs
      /\ editors' = [p \in Panels |-> Reconcile(editors[p], Documents(targets[p], q, d, tabs[p]))]

(* The first panel leaves e while the second does not look at it, or the     *)
(* second one while the first does not, which has moved already.            *)
Abandoned(e, targets) ==
  \/ Target[1] = e /\ targets[1] # e /\ Target[2] # e
  \/ Target[2] = e /\ targets[2] # e /\ targets[1] # e

(* Queries when the panels move: one that is abandoned is cancelled, one     *)
(* that a panel comes to and that has no data is fetched, unless it already  *)
(* is.                                                                      *)
Moved(targets) ==
  [e \in EventIds |->
     LET left  == IF Abandoned(e, targets) /\ query[e] \in Fetching THEN "idle" ELSE query[e]
         comes == \E p \in Panels : targets[p] = e /\ Target[p] # e
     IN  IF comes /\ left \in {"idle", "error"} THEN "fetching" ELSE left]

(* A change of the store, and what follows it.                              *)
ChangeStore(byId, sel) ==
  /\ eventsById' = byId
  /\ selected' = sel
  /\ Render(Targets(byId, sel), Moved(Targets(byId, sel)), data, tab)
  /\ UNCHANGED traffic

-----------------------------------------------------------------------------
(* The store, as far as the inspector sees it.                              *)

(* A live frame, which may evict others from the ring and their selection.   *)
Ingest(e, evicted) ==
  /\ Accepted(frame[e]) /\ Readable(EventJson(Live(e)))
  /\ ChangeStore([d \in (DOMAIN eventsById \cup {e}) \ evicted |->
                    IF d = e THEN Normalize(EventJson(Live(e))) ELSE eventsById[d]],
                 IF selected \in evicted THEN NoEvent ELSE selected)
  /\ UNCHANGED rows

(* App: the rows of the session, all of them or, if one of them cannot be    *)
(* read, none; and no selection.                                            *)
ReplaceEvents ==
  /\ \A e \in rows : Readable(EventJson(Stored(e)))
  /\ ChangeStore([e \in rows |-> Normalize(EventJson(Stored(e)))], NoEvent)
  /\ UNCHANGED rows

(* Mutant: no look at the index.                                            *)
SelectAnything(e) == ChangeStore(eventsById, e) /\ UNCHANGED rows

SelectEvent(e) ==
  /\ ChangeStore(eventsById, IF e \in DOMAIN eventsById THEN e ELSE NoEvent)
  /\ UNCHANGED rows

JumpToPaired == CanJump /\ SelectEvent(eventsById[selected].pairedId)

ChangeTab(p, t) ==
  /\ ShowsDetail(Target[p], query) /\ tab[p] # t
  /\ Render(Target, query, data, [tab EXCEPT ![p] = t])
  /\ UNCHANGED <<traffic, rows, eventsById, selected>>

-----------------------------------------------------------------------------
(* The daemon's side, and React Query's.                                    *)

(* The writer commits the batch the event is in.                            *)
Commit(e) ==
  /\ e \notin rows /\ Accepted(frame[e])
  /\ rows' = rows \cup {e}
  /\ UNCHANGED <<traffic, eventsById, selected, query, data, tab, editors>>

Becomes(e, status, detail) ==
  /\ Render(Target, [query EXCEPT ![e] = status], [data EXCEPT ![e] = detail], tab)
  /\ UNCHANGED <<traffic, rows, eventsById, selected>>

(* fetchEventDetail returns.                                                *)
Resolve(e) ==
  /\ query[e] \in {"fetching", "refetching"}
  /\ e \in rows /\ Readable(DetailJson(Stored(e)))
  /\ Becomes(e, "data", Normalize(DetailJson(Stored(e))))

(* Mutant: retry: true.                                                     *)
RejectRetrying(e) == query[e] \in {"fetching", "refetching"} /\ Becomes(e, "waiting", Null)

(* fetchEventDetail throws: no connection, no row, a row it cannot read.     *)
Reject(e) ==
  \/ query[e] = "fetching" /\ Becomes(e, "waiting", Null)
  \/ query[e] = "refetching" /\ Becomes(e, "error", Null)

RetryTimer(e) == query[e] = "waiting" /\ Becomes(e, "refetching", Null)

(* gcTime after the last observer has gone.                                 *)
Collect(e) ==
  /\ e \notin {Target[1], Target[2]}
  /\ query[e] \in {"data", "error"}
  /\ Becomes(e, "idle", Null)

-----------------------------------------------------------------------------

InspectorInit ==
  /\ frame \in {f \in [EventIds -> UNION {Traffic[e] : e \in EventIds}] :
                  \A e \in EventIds : f[e] \in Traffic[e]}
  /\ rowLink \in {l \in [EventIds -> EventIds \cup {Empty}] :
                    \A e \in EventIds : l[e] \in {SentLink(e), Link(e)}}
  /\ rows = {} /\ eventsById = [e \in {} |-> Null] /\ selected = NoEvent
  /\ query = [e \in EventIds |-> "idle"] /\ data = [e \in EventIds |-> Null]
  /\ tab = [p \in Panels |-> "parsed"]
  /\ editors = [p \in Panels |-> {}]

InspectorNext ==
  \/ \E e \in EventIds :
       \E evicted \in {{}} \cup {{d} : d \in DOMAIN eventsById \ {e}} : Ingest(e, evicted)
  \/ ReplaceEvents
  \/ \E e \in EventIds : SelectEvent(e)
  \/ JumpToPaired
  \/ \E p \in Panels, t \in {"parsed", "raw"} : ChangeTab(p, t)
  \/ \E e \in EventIds : Commit(e) \/ Resolve(e) \/ Reject(e) \/ RetryTimer(e) \/ Collect(e)

InspectorSpec == InspectorInit /\ [][InspectorNext]_inspectorVars

(* A request to the daemon on this machine is answered or fails, and the     *)
(* retry timer fires, as it does while the window is visible.               *)
InspectorFairSpec ==
  /\ InspectorSpec
  /\ \A e \in EventIds : WF_inspectorVars(Resolve(e) \/ Reject(e) \/ RetryTimer(e))

-----------------------------------------------------------------------------
(* Properties.                                                              *)

(* What is known of an event once its row is all there is.                   *)
Kept(event) ==
  [event EXCEPT !.toolArgs = Null,
                !.error = IF @ = Null THEN Null ELSE [@ EXCEPT !.data = Null]]

(* The editors show the selected event, and the second panel its partner, as *)
(* the live stream had them, and never what the panel showed before: row,    *)
(* detail, cache and editors lose nothing but the arguments of a tool and    *)
(* the data of an error.                                                    *)
EditorsShowSelection ==
  \A p \in Panels : ShowsDetail(Target[p], query) =>
    editors[p] = IF tab[p] = "raw" THEN {<<"raw", frame[Target[p]]>>}
                 ELSE Sections(Kept(Normalize(EventJson(Live(Target[p])))))

(* No panel loads for ever: an event that a panel comes to is there in the    *)
(* end, or has failed, unless the panel moves on; that its other observer    *)
(* leaves, or that the two swap places, makes no difference.                *)
DetailSettles ==
  \A p \in Panels, e \in EventIds :
    Target[p] = e ~> (query[e] \in {"data", "error"} \/ Target[p] # e)
=============================================================================
