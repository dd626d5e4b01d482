------------------------------ MODULE LiveFeed ------------------------------
(***************************************************************************)
(* How events get onto the desktop's timeline: useLiveEvents buffers what    *)
(* the shared websocket client (LiveEventsClient, composed here with its     *)
(* one user) delivers and hands it to the store in batches, and App loads   *)
(* the stored events of the latest session over REST whenever its session   *)
(* list changes.  One JavaScript thread: an action is one turn.             *)
(*                                                                         *)
(* An event is its number in the order the daemon logs them.  A render of   *)
(* App re-runs the hook's effect, because useEffectEvent returns a new       *)
(* function each time (react 19.2), and the effect depends on five of them. *)
(***************************************************************************)
EXTENDS Integers, Sequences, SequencesExt, FiniteSets, Subsequences

CONSTANTS
  Hook,          \* App's use of useLiveEvents
  Urls, DefaultUrl, NoUrl,
  Loads,         \* bound: requests for a session's events
  BatchSize,     \* maxBatchSize
  Capacity,      \* EVENT_RING_BUFFER_CAPACITY, and the limit of the request
  MaxEvents, MaxSockets  \* bounds

ASSUME FeedAssumption ==
  /\ DefaultUrl \in Urls /\ NoUrl \notin Urls
  /\ BatchSize \in Nat \ {0} /\ Capacity \in Nat \ {0}
  /\ MaxEvents \in Nat /\ MaxSockets \in Nat

VARIABLES
  held, url, socket, made, net, reconnectTimer, releaseTimer, retainCount,
  closeIntent, reconnectAttempt, status,  \* of the client
  logged,      \* events the daemon has sent to its live clients
  received,    \* events the client's listener was called with, in order
  buffer,      \* bufferRef.current
  flushTimer,  \* flushTimerRef.current is set
  ingested,    \* events given to ingestEvents, in order
  timeline,    \* the store's ids, oldest first
  stage,       \* per request: none, asked, answered, done
  answer,      \* per request: how many events were stored when it was answered
  shown        \* the store's connection.status

Client == INSTANCE LiveEventsClient WITH Users <- {Hook}

clientVars == <<held, url, socket, made, net, reconnectTimer, releaseTimer,
                retainCount, closeIntent, reconnectAttempt, status>>
bufferVars == <<logged, received, buffer, flushTimer, ingested>>
loadVars   == <<stage, answer>>
vars == <<clientVars, bufferVars, timeline, loadVars, shown>>

Events == 1 .. MaxEvents

TypeOK ==
  /\ Client!TypeOK
  /\ logged \in 0 .. MaxEvents
  /\ received \in Seq(Events) /\ buffer \in Seq(Events) /\ ingested \in Seq(Events)
  /\ Len(buffer) < BatchSize
  /\ flushTimer = (buffer # <<>>)
  /\ timeline \in Seq(Events) /\ Len(timeline) <= Capacity /\ IsInjective(timeline)
  /\ stage \in [Loads -> {"none", "asked", "answered", "done"}]
  /\ answer \in [Loads -> 0 .. MaxEvents]
  /\ shown \in Client!Statuses

Init ==
  /\ Client!Init
  /\ logged = 0
  /\ received = <<>> /\ buffer = <<>> /\ ingested = <<>>
  /\ flushTimer = FALSE
  /\ timeline = <<>>
  /\ stage = [k \in Loads |-> "none"]
  /\ answer = [k \in Loads |-> 0]
  /\ shown = "idle"

Subscribed == held[Hook] # NoUrl

-----------------------------------------------------------------------------
(* The store, in short; module EventStore has it in full.                   *)

Ingest(events) ==
  LET new == Pick(events, {i \in DOMAIN events : events[i] \notin ToSet(timeline)})
  IN  timeline' = LastOf(timeline \o new, Capacity)

(* flushBuffer, and what every caller of it has done to the timer.          *)
Flush(events) ==
  /\ buffer' = <<>>
  /\ flushTimer' = FALSE
  /\ ingested' = ingested \o events
  /\ Ingest(events)

(* The store's connection actions, each of which sets the status.           *)
Show(st) == shown' = st

-----------------------------------------------------------------------------
(* The hook's effect.                                                       *)

Mount(l) ==
  /\ Client!Retain(Hook, l)
  /\ Show(status')
  /\ UNCHANGED <<bufferVars, timeline, loadVars>>

(* Mutant: the cleanup clears the timer and leaves the buffer for later.    *)
RerunEffectUnflushed(l) ==
  /\ Client!Reretain(Hook, l)
  /\ flushTimer' = FALSE
  /\ Show(status')
  /\ UNCHANGED <<logged, received, buffer, ingested, timeline>>

(* Cleanup and setup in one turn.                                           *)
RerunEffect(l) ==
  /\ Client!Reretain(Hook, l)
  /\ Flush(buffer)
  /\ Show(status')
  /\ UNCHANGED <<logged, received>>

(* App renders with a new url, or with an empty list of sessions.           *)
Rerender(l) == RerunEffect(l) /\ UNCHANGED loadVars

(* The hook's cleanup; an effect that then runs with enabled = FALSE finds   *)
(* the buffer empty and resets the connection that is shown.                *)
Leave(disabled) ==
  /\ Client!Release(Hook)
  /\ Flush(buffer)
  /\ Show(IF disabled THEN "idle" ELSE shown)
  /\ UNCHANGED <<logged, received, loadVars>>

(* Mutant: the buffer that was handed over is not replaced by a new one.     *)
FlushTimerKeepsBuffer ==
  /\ flushTimer
  /\ flushTimer' = FALSE
  /\ ingested' = ingested \o buffer
  /\ Ingest(buffer)
  /\ UNCHANGED <<clientVars, logged, received, buffer, loadVars, shown>>

FlushTimerFires ==
  /\ flushTimer
  /\ Flush(buffer)
  /\ UNCHANGED <<clientVars, logged, received, loadVars, shown>>

(* The client's timers and its websocket; subscribed, the hook shows where   *)
(* the client has got to.                                                   *)
ClientStep ==
  /\ \/ Client!ReleaseTimerFires \/ Client!ReconnectTimerFires
     \/ \E s \in Client!Sockets : Client!SocketEvent(s)
  /\ Show(IF Subscribed THEN status' ELSE shown)
  /\ UNCHANGED <<bufferVars, timeline, loadVars>>

-----------------------------------------------------------------------------
(* Events.                                                                  *)

(* Mutant: the threshold is looked at before the event is taken in.         *)
EventArrivesLate ==
  /\ logged < MaxEvents
  /\ Subscribed /\ socket # 0 /\ net[socket] = "open"
  /\ logged' = logged + 1
  /\ received' = Append(received, logged')
  /\ \/ Len(buffer) >= BatchSize /\ Flush(buffer)
     \/ /\ Len(buffer) < BatchSize
        /\ buffer' = Append(buffer, logged')
        /\ flushTimer' = TRUE
        /\ UNCHANGED <<ingested, timeline>>
  /\ UNCHANGED <<clientVars, loadVars, shown>>

(* handleEvent: a full buffer is flushed at once, otherwise by the timer.   *)
EventArrives ==
  /\ logged < MaxEvents
  /\ Subscribed /\ socket # 0 /\ net[socket] = "open"
  /\ logged' = logged + 1
  /\ received' = Append(received, logged')
  /\ LET events == Append(buffer, logged')
     IN  \/ Len(events) >= BatchSize /\ Flush(events)
         \/ /\ Len(events) < BatchSize
            /\ buffer' = events
            /\ flushTimer' = TRUE
            /\ UNCHANGED <<ingested, timeline>>
  /\ UNCHANGED <<clientVars, loadVars, shown>>

(* The daemon cut this client off or dropped the payload, or there is no     *)
(* connection, or nobody listens to it.                                     *)
EventMissed ==
  /\ logged < MaxEvents
  /\ logged' = logged + 1
  /\ UNCHANGED <<clientVars, received, buffer, flushTimer, ingested, timeline,
                 loadVars, shown>>

-----------------------------------------------------------------------------
(* Loading a session.                                                       *)

(* sessionsQuery.data changes: App renders and asks for the latest session's *)
(* events.                                                                  *)
SessionsArrive(k) ==
  /\ stage[k] = "none"
  /\ RerunEffect(held[Hook])
  /\ stage' = [stage EXCEPT ![k] = "asked"]
  /\ UNCHANGED answer

(* The daemon may have stored one event that it has not sent yet.           *)
ServerAnswers(k) ==
  /\ stage[k] = "asked"
  /\ stage' = [stage EXCEPT ![k] = "answered"]
  /\ \E n \in 0 .. logged + 1 : n <= MaxEvents /\ answer' = [answer EXCEPT ![k] = n]
  /\ UNCHANGED <<clientVars, bufferVars, timeline, shown>>

(* ListEvents: ORDER BY timestamp DESC LIMIT, so the newest Capacity of the  *)
(* n stored events, the newest first.                                       *)
Rows(n) == [i \in 1 .. (IF n > Capacity THEN Capacity ELSE n) |-> n + 1 - i]

(* replaceAll puts the rows into the ring as they come.                     *)
AnswerArrives(k) ==
  /\ stage[k] = "answered"
  /\ stage' = [stage EXCEPT ![k] = "done"]
  /\ timeline' = Rows(answer[k])
  /\ UNCHANGED <<clientVars, bufferVars, answer, shown>>

(* A failed request or a row that does not parse rejects a promise nobody   *)
(* looks at.                                                                *)
LoadFails(k) ==
  /\ stage[k] \in {"asked", "answered"}
  /\ stage' = [stage EXCEPT ![k] = "done"]
  /\ UNCHANGED <<clientVars, bufferVars, timeline, answer, shown>>

-----------------------------------------------------------------------------

Next ==
  \/ \E l \in Urls : Mount(l) \/ Rerender(l)
  \/ \E disabled \in BOOLEAN : Leave(disabled)
  \/ FlushTimerFires \/ ClientStep \/ EventArrives \/ EventMissed
  \/ \E k \in Loads : SessionsArrive(k) \/ ServerAnswers(k) \/ AnswerArrives(k) \/ LoadFails(k)

Spec == Init /\ [][Next]_vars

(* The client's fairness, and timers of the hook fire.                      *)
FairSpec == Spec /\ Client!Fairness /\ WF_vars(FlushTimerFires)

-----------------------------------------------------------------------------
(* Properties.                                                              *)

(* .codex/agents/react-ui.md: "Exactly ONE websocket connection allowed",    *)
(* through renders, url changes, unmounts and late close events.            *)
OneConnection == Client!OneConnection

(* The client tries to be connected exactly as long as the hook wants it.   *)
TriesIffRetained == Client!TriesIffRetained

(* While the hook is there a lost connection is replaced.                   *)
RetainedReconnects == Client!RetainedReconnects

(* Each event the listener was called with is handed to the store once, in   *)
(* the order of arrival, or is still buffered: timer, threshold, cleanup    *)
(* and re-run neither lose, repeat nor reorder one.                         *)
HandedOverOnce == received = ingested \o buffer

(* What is buffered reaches the store, whatever renders and unmounts do to   *)
(* the timer that was going to take it there.                               *)
BufferedIsIngested == buffer # <<>> ~> buffer = <<>>

=============================================================================
