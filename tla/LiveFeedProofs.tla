--------------------------- MODULE LiveFeedProofs ---------------------------
(* Theorems about LiveFeed and the websocket client in it, for any urls,     *)
(* batch size, capacity and bounds.                                         *)
EXTENDS LiveFeed, SequenceLemmas, FiniteSetTheorems

-----------------------------------------------------------------------------
(* The client, with its one user.                                           *)

Closed(n) == {s \in Client!Sockets : n[s] = "closed"}

(* Types, and who retains the client.                                       *)
Typed ==
  /\ held \in [{Hook} -> Urls \cup {NoUrl}]
  /\ url \in Urls
  /\ made \in 0 .. MaxSockets
  /\ reconnectTimer \in BOOLEAN /\ releaseTimer \in BOOLEAN
  /\ retainCount = IF held[Hook] = NoUrl THEN 0 ELSE 1
  /\ closeIntent \in {"none", "reset", "release"}
  /\ status \in Client!Statuses
  /\ reconnectAttempt \in Nat

(* Where the sockets are: only the current one is live, it is live as long   *)
(* as it is current, and a socket that has not been made is nowhere.         *)
Placed ==
  /\ socket \in 0 .. made
  /\ net \in [Client!Sockets -> {"none", "connecting", "open", "failing",
                                 "closing", "closed"}]
  /\ \A s \in Client!Sockets : s > made => net[s] = "none"
  /\ \A s \in Client!Sockets :
       net[s] \in {"connecting", "open", "failing"} <=> s = socket

Sound == Typed /\ Placed /\ Client!TriesIffRetained

(* The client counts a reconnect for a socket that has closed.               *)
Counted == reconnectAttempt <= Cardinality(Closed(net))

ClientInv == Sound /\ Counted

(* No socket is live in n, and none is there that has not been made.         *)
Quiet(n) ==
  /\ n \in [Client!Sockets -> {"none", "connecting", "open", "failing",
                               "closing", "closed"}]
  /\ \A s \in Client!Sockets : n[s] \notin {"connecting", "open", "failing"}
  /\ \A s \in Client!Sockets : s > made => n[s] = "none"

(* Telling the current socket to close leaves no live one.                   *)
LEMMA ClosingQuiet ==
  ASSUME Sound
  PROVE  Quiet(Client!Closing) /\ Closed(Client!Closing) = Closed(net)
<1>1. CASE socket = 0
  <2>1. Client!Closing = net BY <1>1 DEF Client!Closing
  <2>2. QED BY <1>1, <2>1 DEF Sound, Typed, Placed, Quiet, Client!Sockets
<1>2. CASE socket # 0
  <2>1. /\ Client!Closing = [net EXCEPT ![socket] = "closing"]
        /\ socket \in Client!Sockets
    BY <1>2, FeedAssumption DEF Sound, Typed, Placed, Client!Closing, Client!Sockets
  <2>2. net[socket] # "closed" BY <2>1 DEF Sound, Placed
  <2>3. Quiet(Client!Closing)
    BY <2>1, FeedAssumption DEF Sound, Typed, Placed, Quiet, Client!Sockets
  <2>4. \A s \in Client!Sockets :
          Client!Closing[s] = "closed" <=> net[s] = "closed"
    BY <2>1, <2>2 DEF Sound, Placed
  <2>5. QED BY <2>3, <2>4 DEF Closed
<1>3. QED BY <1>1, <1>2

(* Without a current socket none is live.                                    *)
LEMMA NoSocketQuiet ==
  ASSUME Sound, socket = 0
  PROVE  Quiet(net)
BY DEF Sound, Typed, Placed, Quiet, Client!Sockets

(* connect() makes the one live socket, and a retained client has what it    *)
(* needs.                                                                   *)
LEMMA ConnectSound ==
  ASSUME Sound, NEW n, Quiet(n), Client!Connect(n),
         held' \in [{Hook} -> Urls \cup {NoUrl}], url' \in Urls,
         releaseTimer' \in BOOLEAN, reconnectAttempt' = reconnectAttempt,
         retainCount' = IF held'[Hook] = NoUrl THEN 0 ELSE 1,
         retainCount' > 0
  PROVE  Sound' /\ Closed(net') = Closed(n)
<1>1. /\ made \in Nat /\ made < MaxSockets /\ made' = made + 1 /\ socket' = made'
      /\ net' = [n EXCEPT ![made'] = "connecting"]
      /\ reconnectTimer' = FALSE /\ closeIntent' = "none" /\ status' = "connecting"
      /\ MaxSockets \in Nat
  BY FeedAssumption DEF Sound, Typed, Client!Connect
<1>2. /\ made' \in Client!Sockets /\ n[made'] = "none" /\ socket' # 0
      /\ made' \in 0 .. MaxSockets
  BY <1>1 DEF Quiet, Client!Sockets
<1>3. /\ net' \in [Client!Sockets -> {"none", "connecting", "open", "failing",
                                      "closing", "closed"}]
      /\ net'[made'] = "connecting"
      /\ \A s \in Client!Sockets : s # made' => net'[s] = n[s]
  BY <1>1, <1>2 DEF Quiet
<1>4. \A s \in Client!Sockets : s > made' => net'[s] = "none"
  <2>1. \A s \in Client!Sockets : s > made' => s > made /\ s # made'
    BY <1>1 DEF Client!Sockets
  <2>2. QED BY <1>3, <2>1 DEF Quiet
<1>5. \A s \in Client!Sockets :
        net'[s] \in {"connecting", "open", "failing"} <=> s = socket'
  BY <1>1, <1>2, <1>3 DEF Quiet
<1>6. Client!TriesIffRetained'
  BY <1>2, <1>5, <1>1 DEF Client!TriesIffRetained, Client!Live
<1>7. Closed(net') = Closed(n) BY <1>2, <1>3 DEF Closed
<1>8. Typed' BY <1>1, <1>2 DEF Sound, Typed, Client!Statuses
<1>9. Placed' BY <1>1, <1>2, <1>3, <1>4, <1>5 DEF Placed, Client!Sockets
<1>10. QED BY <1>6, <1>7, <1>8, <1>9 DEF Sound

(* Each call and callback of the client keeps its sockets and its users      *)
(* straight.                                                                *)
LEMMA RetainSound ==
  ASSUME ClientInv, NEW l \in Urls, Client!RetainUrl(l),
         held' \in [{Hook} -> Urls \cup {NoUrl}], held'[Hook] # NoUrl,
         retainCount' = 1
  PROVE  ClientInv'
<1>1. /\ Sound /\ Counted /\ url' \in Urls /\ releaseTimer' = FALSE
      /\ reconnectAttempt' = reconnectAttempt
      /\ retainCount' = IF held'[Hook] = NoUrl THEN 0 ELSE 1
      /\ retainCount' > 0
  BY DEF ClientInv, Client!RetainUrl
<1>2. CASE l # url /\ Client!Connect(Client!Closing)
  <2>1. Sound' /\ Closed(net') = Closed(Client!Closing)
    BY <1>1, <1>2, ClosingQuiet, ConnectSound
  <2>2. QED BY <1>1, <2>1, ClosingQuiet DEF ClientInv, Counted
<1>3. CASE socket = 0 /\ Client!Connect(net)
  <2>1. Sound' /\ Closed(net') = Closed(net)
    BY <1>1, <1>3, NoSocketQuiet, ConnectSound
  <2>2. QED BY <1>1, <2>1 DEF ClientInv, Counted
<1>4. CASE /\ socket # 0 \/ reconnectTimer
           /\ UNCHANGED <<made, socket, net, reconnectTimer, closeIntent, status>>
  <2>1. Typed' BY <1>1, <1>4 DEF Sound, Typed
  <2>2. Placed' BY <1>4 DEF ClientInv, Sound, Placed
  <2>3. Client!TriesIffRetained'
    BY <1>1, <1>4, FeedAssumption
    DEF Sound, Placed, Typed, Client!TriesIffRetained, Client!Live, Client!Sockets
  <2>4. Counted' BY <1>1, <1>4 DEF Counted
  <2>5. QED BY <2>1, <2>2, <2>3, <2>4 DEF ClientInv, Sound
<1>5. QED BY <1>2, <1>3, <1>4 DEF Client!RetainUrl

(* The hook retains, releases and retains in one turn, or releases.          *)
LEMMA HookSound ==
  ASSUME ClientInv, NEW l \in Urls,
         Client!Retain(Hook, l) \/ Client!Reretain(Hook, l) \/ Client!Release(Hook)
  PROVE  ClientInv'
<1>1. CASE Client!Retain(Hook, l) \/ Client!Reretain(Hook, l)
  <2>1. /\ held' \in [{Hook} -> Urls \cup {NoUrl}] /\ held'[Hook] # NoUrl
        /\ retainCount' = 1 /\ Client!RetainUrl(l)
    BY <1>1, FeedAssumption
    DEF ClientInv, Sound, Typed, Client!Retain, Client!Reretain
  <2>2. QED BY <2>1, RetainSound
<1>2. CASE Client!Release(Hook)
  <2>1. Typed'
    BY <1>2 DEF ClientInv, Sound, Typed, Client!Release
  <2>2. Placed' /\ Counted'
    BY <1>2 DEF ClientInv, Sound, Placed, Counted, Client!Release
  <2>3. Client!TriesIffRetained'
    <3>1. retainCount' = 0 BY <1>2 DEF ClientInv, Sound, Typed, Client!Release
    <3>2. releaseTimer' BY <1>2, <3>1, Zenon DEF Client!Release
    <3>3. QED BY <3>1, <3>2 DEF Client!TriesIffRetained
  <2>4. QED BY <2>1, <2>2, <2>3 DEF ClientInv, Sound
<1>3. QED BY <1>1, <1>2

(* The timers.                                                              *)
LEMMA TimerSound ==
  ASSUME ClientInv, Client!ReleaseTimerFires \/ Client!ReconnectTimerFires
  PROVE  ClientInv'
<1>1. CASE Client!ReleaseTimerFires
  <2>1. Quiet(Client!Closing) /\ Closed(Client!Closing) = Closed(net)
    BY ClosingQuiet DEF ClientInv
  <2>2. Typed'
    BY <1>1 DEF ClientInv, Sound, Typed, Client!ReleaseTimerFires, Client!Statuses
  <2>3. Placed'
    BY <1>1, <2>1, FeedAssumption
    DEF ClientInv, Sound, Typed, Placed, Quiet, Client!ReleaseTimerFires, Client!Sockets
  <2>4. Client!TriesIffRetained'
    BY <1>1 DEF Client!ReleaseTimerFires, Client!TriesIffRetained
  <2>5. Counted'
    <3>1. Closed(net) \subseteq Client!Sockets BY DEF Closed
    <3>2. IsFiniteSet(Client!Sockets)
      BY FS_Interval, FeedAssumption DEF Client!Sockets
    <3>3. Cardinality(Closed(net)) \in Nat
      BY <3>1, <3>2, FS_Subset, FS_CardinalityType
    <3>4. QED BY <1>1, <2>1, <3>3 DEF Counted, Client!ReleaseTimerFires
  <2>6. QED BY <2>2, <2>3, <2>4, <2>5 DEF ClientInv, Sound
<1>2. CASE Client!ReconnectTimerFires
  <2>1. CASE retainCount > 0 /\ socket = 0 /\ Client!Connect(net)
    <3>1. Sound' /\ Closed(net') = Closed(net)
      BY <1>2, <2>1, NoSocketQuiet, ConnectSound
      DEF ClientInv, Sound, Typed, Client!ReconnectTimerFires
    <3>2. QED BY <1>2, <3>1 DEF ClientInv, Counted, Client!ReconnectTimerFires
  <2>2. CASE /\ retainCount = 0 \/ socket # 0
             /\ reconnectTimer' = FALSE
             /\ UNCHANGED <<made, socket, net, closeIntent, status>>
    <3>1. Typed' BY <1>2, <2>2 DEF ClientInv, Sound, Typed, Client!ReconnectTimerFires
    <3>2. Placed' /\ Counted'
      BY <1>2, <2>2 DEF ClientInv, Sound, Placed, Counted, Client!ReconnectTimerFires
    <3>3. Client!TriesIffRetained'
      BY <1>2, <2>2, FeedAssumption
      DEF ClientInv, Sound, Typed, Placed, Client!ReconnectTimerFires,
          Client!TriesIffRetained, Client!Live, Client!Sockets
    <3>4. QED BY <3>1, <3>2, <3>3 DEF ClientInv, Sound
  <2>3. QED BY <1>2, <2>1, <2>2 DEF Client!ReconnectTimerFires
<1>3. QED BY <1>1, <1>2

(* A close event adds one to the closed sockets.                             *)
LEMMA OneMoreClosed ==
  ASSUME ClientInv, NEW s \in Client!Sockets, net[s] # "closed",
         net' = [net EXCEPT ![s] = "closed"]
  PROVE  /\ Cardinality(Closed(net)) \in Nat
         /\ Cardinality(Closed(net')) = Cardinality(Closed(net)) + 1
<1>1. Closed(net') = Closed(net) \cup {s} /\ s \notin Closed(net)
  BY DEF Closed, ClientInv, Sound, Placed
<1>2. IsFiniteSet(Client!Sockets)
  BY FS_Interval, FeedAssumption DEF Client!Sockets
<1>3. IsFiniteSet(Closed(net)) BY <1>2, FS_Subset DEF Closed
<1>4. Cardinality(Closed(net)) \in Nat BY <1>3, FS_CardinalityType
<1>5. Cardinality(Closed(net) \cup {s}) = Cardinality(Closed(net)) + 1
  BY <1>1, <1>3, FS_AddElement
<1>6. QED BY <1>1, <1>4, <1>5

(* The events of a websocket, the current one or an earlier one.             *)
LEMMA SocketSound ==
  ASSUME ClientInv, NEW s \in Client!Sockets, Client!SocketEvent(s)
  PROVE  ClientInv'
<1>1. CASE Client!SocketOpens(s)
  <2>1. Typed'
    BY <1>1 DEF ClientInv, Sound, Typed, Client!SocketOpens, Client!Statuses,
                Client!timerVars
  <2>2. Placed' BY <1>1 DEF ClientInv, Sound, Placed, Client!SocketOpens
  <2>3. Client!TriesIffRetained'
    BY <1>1, <2>2 DEF ClientInv, Sound, Placed, Client!SocketOpens,
                Client!TriesIffRetained, Client!Live, Client!timerVars
  <2>4. Closed(net') = Closed(net)
    BY <1>1 DEF ClientInv, Sound, Placed, Closed, Client!SocketOpens
  <2>5. Counted'
    <3>1. Closed(net) \subseteq Client!Sockets BY DEF Closed
    <3>2. IsFiniteSet(Client!Sockets)
      BY FS_Interval, FeedAssumption DEF Client!Sockets
    <3>3. Cardinality(Closed(net)) \in Nat
      BY <3>1, <3>2, FS_Subset, FS_CardinalityType
    <3>4. QED BY <1>1, <2>4, <3>3 DEF ClientInv, Counted, Client!SocketOpens
  <2>6. QED BY <2>1, <2>2, <2>3, <2>5 DEF ClientInv, Sound
<1>2. CASE Client!MalformedMessage(s)
  <2>1. Typed'
    BY <1>2 DEF ClientInv, Sound, Typed, Client!MalformedMessage, Client!Statuses,
                Client!timerVars
  <2>2. Placed' /\ Counted' /\ Client!TriesIffRetained'
    BY <1>2 DEF ClientInv, Sound, Placed, Counted, Client!MalformedMessage,
                Client!TriesIffRetained, Client!Live, Client!timerVars
  <2>3. QED BY <2>1, <2>2 DEF ClientInv, Sound
<1>3. CASE Client!SocketErrors(s)
  <2>1. Typed'
    BY <1>3 DEF ClientInv, Sound, Typed, Client!SocketErrors, Client!Statuses,
                Client!timerVars
  <2>2. Placed' BY <1>3 DEF ClientInv, Sound, Placed, Client!SocketErrors
  <2>3. Client!TriesIffRetained'
    BY <1>3, <2>2 DEF ClientInv, Sound, Placed, Client!SocketErrors,
                Client!TriesIffRetained, Client!Live, Client!timerVars
  <2>4. Closed(net') = Closed(net)
    BY <1>3 DEF ClientInv, Sound, Placed, Closed, Client!SocketErrors
  <2>5. Counted' BY <1>3, <2>4 DEF ClientInv, Counted, Client!SocketErrors
  <2>6. QED BY <2>1, <2>2, <2>3, <2>5 DEF ClientInv, Sound
<1>4. CASE Client!SocketCloses(s)
  <2>1. /\ net[s] \notin {"none", "closed"}
        /\ net' = [net EXCEPT ![s] = "closed"]
        /\ socket' = IF s = socket THEN 0 ELSE socket
        /\ closeIntent' = "none" /\ UNCHANGED <<held, url, made, releaseTimer, retainCount>>
        /\ Client!ScheduleReconnect(IF closeIntent = "release" THEN status ELSE "disconnected")
    BY <1>4 DEF Client!SocketCloses, Client!CloseEventDue
  <2>2. /\ reconnectTimer' \in BOOLEAN /\ status' \in Client!Statuses
        /\ reconnectAttempt' \in Nat /\ reconnectAttempt' <= reconnectAttempt + 1
        /\ reconnectTimer' <=> (reconnectTimer \/ retainCount > 0)
    <3>1. /\ (IF closeIntent = "release" THEN status ELSE "disconnected") \in Client!Statuses
          /\ reconnectTimer \in BOOLEAN /\ reconnectAttempt \in Nat
      BY DEF ClientInv, Sound, Typed, Client!Statuses
    <3>2. CASE retainCount > 0 /\ ~reconnectTimer
      BY <2>1, <3>1, <3>2 DEF Client!ScheduleReconnect, Client!Statuses
    <3>3. CASE ~(retainCount > 0 /\ ~reconnectTimer)
      BY <2>1, <3>1, <3>3 DEF Client!ScheduleReconnect
    <3>4. QED BY <3>2, <3>3
  <2>3. Typed' BY <2>1, <2>2 DEF ClientInv, Sound, Typed
  <2>4. Placed'
    <3>1. /\ net' \in [Client!Sockets -> {"none", "connecting", "open", "failing",
                                          "closing", "closed"}]
          /\ net'[s] = "closed" /\ \A r \in Client!Sockets : r # s => net'[r] = net[r]
          /\ s <= made /\ s # 0
      BY <2>1, FeedAssumption DEF ClientInv, Sound, Typed, Placed, Client!Sockets,
                                  Client!CloseEventDue, Client!SocketCloses
    <3>2. \A r \in Client!Sockets : r > made' => net'[r] = "none"
      BY <2>1, <3>1, FeedAssumption
      DEF ClientInv, Sound, Typed, Placed, Client!Sockets
    <3>3. \A r \in Client!Sockets :
            net'[r] \in {"connecting", "open", "failing"} <=> r = socket'
      BY <2>1, <3>1 DEF ClientInv, Sound, Placed, Client!Sockets
    <3>4. socket' \in 0 .. made' BY <2>1 DEF ClientInv, Sound, Typed, Placed
    <3>5. QED BY <3>1, <3>2, <3>3, <3>4 DEF Placed
  <2>5. Client!TriesIffRetained'
    BY <2>1, <2>2 DEF ClientInv, Sound, Typed, Client!TriesIffRetained
  <2>6. Counted'
    <3>1. /\ Cardinality(Closed(net)) \in Nat
          /\ Cardinality(Closed(net')) = Cardinality(Closed(net)) + 1
      BY <2>1, OneMoreClosed
    <3>2. reconnectAttempt <= Cardinality(Closed(net)) /\ reconnectAttempt \in Nat
      BY DEF ClientInv, Counted, Sound, Typed
    <3>3. reconnectAttempt' <= Cardinality(Closed(net')) BY <2>2, <3>1, <3>2
    <3>4. QED BY <3>3 DEF Counted
  <2>7. QED BY <2>3, <2>4, <2>5, <2>6 DEF ClientInv, Sound
<1>5. QED BY <1>1, <1>2, <1>3, <1>4 DEF Client!SocketEvent

(* Whatever the hook, App or the daemon do, the client stays sound.          *)
LEMMA ClientStepSound ==
  ASSUME ClientInv, [Next]_vars
  PROVE  ClientInv'
<1>1. CASE UNCHANGED clientVars
  <2>1. Typed' BY <1>1 DEF clientVars, ClientInv, Sound, Typed
  <2>2. Placed' /\ Counted' BY <1>1 DEF clientVars, ClientInv, Sound, Placed, Counted
  <2>3. Client!TriesIffRetained'
    BY <1>1 DEF clientVars, ClientInv, Sound, Client!TriesIffRetained, Client!Live
  <2>4. QED BY <2>1, <2>2, <2>3 DEF ClientInv, Sound
<1>2. ASSUME NEW l \in Urls, Mount(l) \/ Rerender(l) PROVE ClientInv'
  BY <1>2, HookSound DEF Mount, Rerender, RerunEffect
<1>3. ASSUME NEW disabled \in BOOLEAN, Leave(disabled) PROVE ClientInv'
  BY <1>3, HookSound, FeedAssumption DEF Leave
<1>4. CASE ClientStep BY <1>4, TimerSound, SocketSound DEF ClientStep
<1>5. ASSUME NEW k \in Loads, SessionsArrive(k) PROVE ClientInv'
  <2>1. held[Hook] \in Urls \/ held[Hook] = NoUrl BY DEF ClientInv, Sound, Typed
  <2>2. Client!Reretain(Hook, held[Hook]) BY <1>5 DEF SessionsArrive, RerunEffect
  <2>3. held[Hook] \in Urls BY <2>1, <2>2 DEF Client!Reretain
  <2>4. QED BY <2>2, <2>3, HookSound
<1>6. ASSUME FlushTimerFires \/ EventArrives \/ EventMissed \/ UNCHANGED vars
             \/ \E k \in Loads : ServerAnswers(k) \/ AnswerArrives(k) \/ LoadFails(k)
      PROVE  UNCHANGED clientVars
  BY <1>6 DEF FlushTimerFires, EventArrives, EventMissed, ServerAnswers,
              AnswerArrives, LoadFails, vars
<1>7. QED BY <1>1, <1>2, <1>3, <1>4, <1>5, <1>6 DEF Next

(* Before anything happens.                                                  *)
LEMMA ClientInit ==
  ASSUME Init
  PROVE  ClientInv
<1>1. Client!Init BY DEF Init
<1>2. Typed
  <2>1. held = [u \in {Hook} |-> NoUrl] BY <1>1 DEF Client!Init
  <2>2. held \in [{Hook} -> Urls \cup {NoUrl}] /\ held[Hook] = NoUrl BY <2>1
  <2>3. retainCount = 0 /\ reconnectTimer = FALSE /\ releaseTimer = FALSE
    BY <1>1 DEF Client!Init
  <2>4. /\ url \in Urls /\ made \in 0 .. MaxSockets /\ reconnectAttempt \in Nat
        /\ closeIntent \in {"none", "reset", "release"}
        /\ status \in Client!Statuses
    BY <1>1, FeedAssumption DEF Client!Init, Client!Statuses
  <2>5. QED BY <2>2, <2>3, <2>4 DEF Typed
<1>3. Placed BY <1>1, FeedAssumption DEF Client!Init, Placed, Client!Sockets
<1>4. Client!TriesIffRetained BY <1>1 DEF Client!Init, Client!TriesIffRetained
<1>5. Counted
  <2>1. Closed(net) = {} BY <1>1 DEF Client!Init, Closed
  <2>2. Cardinality(Closed(net)) = 0 BY <2>1, FS_EmptySet
  <2>3. QED BY <1>1, <2>2 DEF Client!Init, Counted
<1>6. QED BY <1>2, <1>3, <1>4, <1>5 DEF ClientInv, Sound

(* The client's inductive invariant.                                         *)
LEMMA ClientAlwaysSound == Spec => []ClientInv
BY ClientInit, ClientStepSound, PTL DEF Spec

-----------------------------------------------------------------------------
(* The buffer.                                                              *)

BufferInv ==
  /\ logged \in 0 .. MaxEvents
  /\ received \in Seq(Events) /\ buffer \in Seq(Events) /\ ingested \in Seq(Events)
  /\ flushTimer \in BOOLEAN
  /\ flushTimer <=> buffer # <<>>
  /\ HandedOverOnce

(* A flush hands over what is buffered, and nothing is left to time.         *)
LEMMA FlushKeeps ==
  ASSUME BufferInv, Flush(buffer), UNCHANGED <<logged, received>>
  PROVE  BufferInv'
<1>1. /\ buffer' = <<>> /\ flushTimer' = FALSE /\ ingested' = ingested \o buffer
      /\ logged' = logged /\ received' = received
      /\ received = ingested \o buffer
      /\ ingested \in Seq(Events) /\ buffer \in Seq(Events)
  BY DEF Flush, BufferInv, HandedOverOnce
<1>2. ingested \o buffer \in Seq(Events) BY <1>1, ConcatProperties
<1>3. received' = ingested' \o buffer' BY <1>1, <1>2, ConcatEmptySeq
<1>4. <<>> \in Seq(Events) OBVIOUS
<1>5. QED BY <1>1, <1>2, <1>3, <1>4 DEF BufferInv, HandedOverOnce, Events

(* An event joins what is buffered, at the end.                              *)
LEMMA JoinBuffer ==
  ASSUME BufferInv, NEW e \in Events
  PROVE  /\ Append(buffer, e) \in Seq(Events) /\ Append(buffer, e) # <<>>
         /\ ingested \o Append(buffer, e) \in Seq(Events)
         /\ Append(received, e) = ingested \o Append(buffer, e)
<1>1. /\ buffer \in Seq(Events) /\ ingested \in Seq(Events)
      /\ received = ingested \o buffer
  BY DEF BufferInv, HandedOverOnce
<1>2. /\ Append(buffer, e) \in Seq(Events) /\ Append(buffer, e) # <<>>
      /\ Append(buffer, e) = buffer \o <<e>> /\ <<e>> \in Seq(Events)
  BY <1>1, AppendProperties, AppendIsConcat
<1>3. ingested \o buffer \in Seq(Events) BY <1>1, ConcatProperties
<1>4. Append(ingested \o buffer, e) = (ingested \o buffer) \o <<e>>
  BY <1>3, AppendIsConcat
<1>5. (ingested \o buffer) \o <<e>> = ingested \o (buffer \o <<e>>)
  BY <1>1, <1>2, ConcatAssociative
<1>6. QED BY <1>1, <1>2, <1>4, <1>5, ConcatProperties

(* No step loses, repeats or reorders an event on its way to the store.      *)
LEMMA BufferStep ==
  ASSUME BufferInv, [Next]_vars
  PROVE  BufferInv'
<1>1. CASE EventArrives
  <2>1. logged + 1 \in Events
    BY <1>1, FeedAssumption DEF EventArrives, BufferInv, Events
  <2>2. /\ logged' = logged + 1 /\ logged' \in 0 .. MaxEvents
        /\ received' = Append(received, logged + 1)
    BY <1>1, <2>1 DEF EventArrives, Events
  <2>3. /\ Append(buffer, logged + 1) \in Seq(Events)
        /\ Append(buffer, logged + 1) # <<>>
        /\ ingested \o Append(buffer, logged + 1) \in Seq(Events)
        /\ Append(received, logged + 1) = ingested \o Append(buffer, logged + 1)
    BY <2>1, JoinBuffer
  <2>4. CASE Flush(Append(buffer, logged + 1))
    <3>1. /\ buffer' = <<>> /\ flushTimer' = FALSE
          /\ ingested' = ingested \o Append(buffer, logged + 1)
      BY <2>4 DEF Flush
    <3>2. received' = ingested' \o buffer'
      <4>1. \A s \in Seq(Events) : s \o <<>> = s BY ConcatEmptySeq
      <4>2. QED BY <2>2, <2>3, <3>1, <4>1
    <3>3. received' \in Seq(Events) /\ <<>> \in Seq(Events)
      <4>1. received' = ingested' /\ ingested' \in Seq(Events) BY <2>2, <2>3, <3>1
      <4>2. <<>> \in Seq(Events) OBVIOUS
      <4>3. QED BY <4>1, <4>2
    <3>4. QED
      BY <2>2, <2>3, <3>1, <3>2, <3>3 DEF BufferInv, HandedOverOnce, Events
  <2>5. CASE /\ buffer' = Append(buffer, logged + 1) /\ flushTimer' = TRUE
             /\ UNCHANGED <<ingested, timeline>>
    <3>1. received' = ingested' \o buffer' BY <2>2, <2>3, <2>5
    <3>2. received' \in Seq(Events) /\ ingested' \in Seq(Events)
      BY <2>2, <2>3, <2>5 DEF BufferInv
    <3>3. QED
      BY <2>2, <2>3, <2>5, <3>1, <3>2 DEF BufferInv, HandedOverOnce, Events
  <2>6. QED BY <1>1, <2>2, <2>4, <2>5 DEF EventArrives
<1>2. CASE EventMissed
  BY <1>2, FeedAssumption DEF EventMissed, BufferInv, HandedOverOnce, Events
<1>3. ASSUME \/ \E l \in Urls : Rerender(l)
             \/ \E disabled \in BOOLEAN : Leave(disabled)
             \/ FlushTimerFires \/ \E k \in Loads : SessionsArrive(k)
      PROVE  Flush(buffer) /\ UNCHANGED <<logged, received>>
  BY <1>3 DEF Rerender, RerunEffect, Leave, FlushTimerFires, SessionsArrive
<1>4. ASSUME \/ \E l \in Urls : Mount(l)
             \/ ClientStep \/ UNCHANGED vars
             \/ \E k \in Loads : ServerAnswers(k) \/ AnswerArrives(k) \/ LoadFails(k)
      PROVE  UNCHANGED bufferVars
  BY <1>4 DEF Mount, ClientStep, ServerAnswers, AnswerArrives, LoadFails, vars
<1>5. UNCHANGED bufferVars => BufferInv'
  BY DEF bufferVars, BufferInv, HandedOverOnce, Events
<1>6. QED BY <1>1, <1>2, <1>3, <1>4, <1>5, FlushKeeps DEF Next

(* Before anything happens.                                                  *)
LEMMA BufferInit ==
  ASSUME Init
  PROVE  BufferInv
<1>1. <<>> \in Seq(Events) OBVIOUS
<1>2. <<>> \o <<>> = <<>> BY <1>1, ConcatEmptySeq
<1>3. /\ logged = 0 /\ received = <<>> /\ buffer = <<>> /\ ingested = <<>>
      /\ flushTimer = FALSE
  BY DEF Init
<1>4. logged \in 0 .. MaxEvents BY <1>3, FeedAssumption
<1>5. QED BY <1>1, <1>2, <1>3, <1>4 DEF BufferInv, HandedOverOnce

-----------------------------------------------------------------------------
(* The store and the requests.                                              *)

(* What the listener was called with, each event once and none before the    *)
(* daemon logged it.                                                        *)
ReceivedOnce ==
  /\ IsInjective(received)
  /\ \A e \in Range(received) : e <= logged

ViewTyped ==
  /\ Len(buffer) < BatchSize
  /\ timeline \in Seq(Events) /\ Len(timeline) <= Capacity /\ IsInjective(timeline)
  /\ stage \in [Loads -> {"none", "asked", "answered", "done"}]
  /\ answer \in [Loads -> 0 .. MaxEvents]
  /\ shown \in Client!Statuses

FeedInv == BufferInv /\ ReceivedOnce /\ ViewTyped

(* A new event is one the listener has not been called with.                 *)
LEMMA ReceivedNew ==
  ASSUME BufferInv, ReceivedOnce, logged < MaxEvents
  PROVE  /\ logged + 1 \in Events
         /\ IsInjective(Append(received, logged + 1))
         /\ \A e \in Range(Append(received, logged + 1)) : e <= logged + 1
<1>1. logged \in Nat /\ logged + 1 \in Events /\ received \in Seq(Events)
  BY FeedAssumption DEF BufferInv, Events
<1>2. \A e \in Range(received) : e <= logged /\ e \in Nat
  <2>1. Range(received) \subseteq Events BY <1>1, RangeOfSeq
  <2>2. QED BY <2>1 DEF ReceivedOnce, Events
<1>3. logged + 1 \notin Range(received) BY <1>1, <1>2
<1>4. Range(Append(received, logged + 1)) = Range(received) \cup {logged + 1}
  BY <1>1, RangeAppend
<1>5. IsInjective(Append(received, logged + 1))
  BY <1>1, <1>3, InjectiveAppend DEF ReceivedOnce
<1>6. \A e \in Range(received) \cup {logged + 1} : e <= logged + 1
  <2>1. ASSUME NEW e \in Range(received) \cup {logged + 1} PROVE e <= logged + 1
    <3>1. CASE e = logged + 1 BY <1>1, <3>1
    <3>2. CASE e \in Range(received) BY <1>1, <1>2, <3>2
    <3>3. QED BY <3>1, <3>2
  <2>2. QED BY <2>1
<1>7. QED BY <1>1, <1>4, <1>5, <1>6

(* What is left of a sequence without repetitions has none.                  *)
LEMMA InjectiveRest ==
  ASSUME NEW S, NEW s \in Seq(S), NEW t \in Seq(S), IsInjective(s \o t)
  PROVE  IsInjective(t)
<1>1. Len(s) \in Nat /\ Len(t) \in Nat /\ s \o t \in Seq(S) BY LenProperties, ConcatProperties
<1>2. Follows(Len(s), t, s \o t)
  <2> DEFINE m == Len(s)
  <2> DEFINE n == Len(t)
  <2>1. /\ Len(s \o t) = m + n
        /\ \A i \in 1 .. m + n : (s \o t)[i] = IF i <= m THEN s[i] ELSE t[i - m]
    BY ConcatProperties
  <2>2. m \in Nat /\ n \in Nat BY <1>1
  <2> HIDE DEF m, n
  <2>3. ASSUME NEW i \in 1 .. n PROVE t[i] = (s \o t)[m + i]
    <3>1. m + i \in 1 .. m + n /\ ~ (m + i <= m) /\ (m + i) - m = i BY <2>2
    <3>2. QED BY <2>1, <3>1
  <2>4. m + n <= m + n BY <2>2
  <2>5. QED BY <2>1, <2>3, <2>4 DEF Follows, m, n
<1>3. QED BY <1>1, <1>2, FollowsInjective

(* A batch without repetitions leaves the timeline without.                  *)
LEMMA IngestTyped ==
  ASSUME ViewTyped, NEW events \in Seq(Events), IsInjective(events), Ingest(events)
  PROVE  timeline' \in Seq(Events) /\ Len(timeline') <= Capacity /\ IsInjective(timeline')
<1>1. DOMAIN events = 1 .. Len(events) /\ Capacity \in Nat
  BY LenProperties, FeedAssumption
<1>2. ToSet(timeline) = Range(timeline) BY DEF ToSet, Range
<1>3. timeline' = LastOf(timeline \o
                    Pick(events, {i \in 1 .. Len(events) : events[i] \notin Range(timeline)}), Capacity)
  BY <1>1, <1>2, Zenon DEF Ingest
<1>4. timeline \in Seq(Events) /\ IsInjective(timeline) BY DEF ViewTyped
<1>5. QED BY <1>1, <1>3, <1>4, JoinNew

(* What a request brings fits into the ring and names no event twice.        *)
LEMMA RowsTyped ==
  ASSUME NEW n \in 0 .. MaxEvents
  PROVE  Rows(n) \in Seq(Events) /\ Len(Rows(n)) <= Capacity /\ IsInjective(Rows(n))
<1> DEFINE m == IF n > Capacity THEN Capacity ELSE n
<1>1. /\ n \in Nat /\ MaxEvents \in Nat /\ Capacity \in Nat
      /\ m \in Nat /\ m <= n /\ m <= Capacity
  BY FeedAssumption
<1>2. Rows(n) = [i \in 1 .. m |-> n + 1 - i] BY DEF Rows
<1> HIDE DEF m
<1>3. Rows(n) \in [1 .. m -> Events]
  <2>1. \A i \in 1 .. m : n + 1 - i \in Events BY <1>1 DEF Events
  <2>2. QED BY <1>2, <2>1
<1>4. Rows(n) \in Seq(Events) /\ Len(Rows(n)) = m
  BY <1>1, <1>3, SeqDef, LenProperties
<1>5. IsInjective(Rows(n))
  <2>1. \A i, j \in 1 .. m : n + 1 - i = n + 1 - j => i = j BY <1>1
  <2>2. QED BY <1>2, <2>1 DEF IsInjective
<1>6. QED BY <1>1, <1>4, <1>5

(* A flush of what is buffered.                                             *)
LEMMA FlushTyped ==
  ASSUME FeedInv, Flush(buffer), UNCHANGED <<logged, received>>
  PROVE  /\ ReceivedOnce' /\ Len(buffer') < BatchSize
         /\ timeline' \in Seq(Events) /\ Len(timeline') <= Capacity /\ IsInjective(timeline')
<1>1. /\ buffer \in Seq(Events) /\ ingested \in Seq(Events)
      /\ received = ingested \o buffer /\ IsInjective(received)
  BY DEF FeedInv, BufferInv, HandedOverOnce, ReceivedOnce
<1>2. IsInjective(buffer) BY <1>1, InjectiveRest
<1>3. timeline' \in Seq(Events) /\ Len(timeline') <= Capacity /\ IsInjective(timeline')
  BY <1>1, <1>2, IngestTyped DEF FeedInv, Flush
<1>4. buffer' = <<>> /\ BatchSize \in Nat \ {0} /\ Len(<<>>) = 0
  BY FeedAssumption, EmptySeq DEF Flush
<1>5. Len(buffer') < BatchSize BY <1>4
<1>6. ReceivedOnce' BY DEF FeedInv, ReceivedOnce
<1>7. QED BY <1>3, <1>5, <1>6

(* An event of the stream, the batch it may complete included.              *)
LEMMA ArrivalTyped ==
  ASSUME FeedInv, EventArrives
  PROVE  ReceivedOnce' /\ ViewTyped'
<1> DEFINE events == Append(buffer, logged + 1)
<1>1. /\ logged < MaxEvents /\ logged' = logged + 1 /\ received' = Append(received, logged + 1)
      /\ UNCHANGED <<stage, answer, shown>>
      /\ \/ Len(events) >= BatchSize /\ Flush(events)
         \/ Len(events) < BatchSize /\ buffer' = events /\ timeline' = timeline
  BY DEF EventArrives, loadVars
<1>2. /\ logged + 1 \in Events /\ IsInjective(received')
      /\ \A e \in Range(received') : e <= logged'
  BY <1>1, ReceivedNew DEF FeedInv
<1>3. ReceivedOnce' BY <1>2 DEF ReceivedOnce
<1>4. /\ events \in Seq(Events) /\ ingested \in Seq(Events) /\ received' = ingested \o events
  BY <1>1, <1>2, JoinBuffer DEF FeedInv, BufferInv
<1>5. IsInjective(events) BY <1>2, <1>4, InjectiveRest
<1> HIDE DEF events
<1>6. timeline' \in Seq(Events) /\ Len(timeline') <= Capacity /\ IsInjective(timeline')
  <2>1. CASE Flush(events) BY <1>4, <1>5, <2>1, IngestTyped DEF FeedInv, Flush
  <2>2. CASE timeline' = timeline BY <2>2 DEF FeedInv, ViewTyped
  <2>3. QED BY <1>1, <2>1, <2>2
<1>7. Len(buffer') < BatchSize
  <2>1. CASE Flush(events)
    <3>1. buffer' = <<>> /\ BatchSize \in Nat \ {0} /\ Len(<<>>) = 0
      BY <2>1, FeedAssumption, EmptySeq DEF Flush
    <3>2. QED BY <3>1
  <2>2. CASE Len(events) < BatchSize /\ buffer' = events BY <2>2
  <2>3. QED BY <1>1, <2>1, <2>2
<1>8. QED BY <1>1, <1>3, <1>6, <1>7 DEF FeedInv, ViewTyped

(* The store shows one of the client's statuses, the state machine of a      *)
(* request goes forward, and no step puts an event on the timeline twice.    *)
LEMMA FeedStep ==
  ASSUME FeedInv, status' \in Client!Statuses, [Next]_vars
  PROVE  FeedInv'
<1>1. BufferInv' BY BufferStep DEF FeedInv
<1>2. "idle" \in Client!Statuses BY DEF Client!Statuses
<1>3. CASE EventArrives BY <1>1, <1>3, ArrivalTyped DEF FeedInv
<1>4. CASE EventMissed
  <2>1. /\ logged' = logged + 1 /\ received' = received
        /\ UNCHANGED <<buffer, timeline, stage, answer, shown>>
    BY <1>4 DEF EventMissed, loadVars
  <2>2. ViewTyped' BY <2>1 DEF FeedInv, ViewTyped
  <2>3. logged \in Nat /\ Range(received) \subseteq Nat
    <3>1. Range(received) \subseteq Events BY RangeOfSeq DEF FeedInv, BufferInv
    <3>2. QED BY <3>1, FeedAssumption DEF FeedInv, BufferInv, Events
  <2>4. \A e \in Range(received) : e <= logged + 1
    BY <2>3 DEF FeedInv, ReceivedOnce
  <2>5. QED BY <1>1, <2>1, <2>2, <2>4 DEF FeedInv, ReceivedOnce
<1>5. ASSUME \/ \E l \in Urls : Rerender(l)
             \/ \E disabled \in BOOLEAN : Leave(disabled)
             \/ FlushTimerFires \/ \E k \in Loads : SessionsArrive(k)
      PROVE  FeedInv'
  <2>1. /\ Flush(buffer) /\ UNCHANGED <<logged, received>> /\ answer' = answer
        /\ shown' \in {status', "idle", shown}
        /\ \/ stage' = stage
           \/ \E k \in Loads : stage' = [stage EXCEPT ![k] = "asked"]
    BY <1>5 DEF Rerender, RerunEffect, Leave, FlushTimerFires, SessionsArrive, Show, loadVars
  <2>2. /\ ReceivedOnce' /\ Len(buffer') < BatchSize
        /\ timeline' \in Seq(Events) /\ Len(timeline') <= Capacity /\ IsInjective(timeline')
    BY <2>1, FlushTyped
  <2>3. shown' \in Client!Statuses /\ answer' \in [Loads -> 0 .. MaxEvents]
    BY <1>2, <2>1 DEF FeedInv, ViewTyped
  <2>4. stage' \in [Loads -> {"none", "asked", "answered", "done"}]
    BY <2>1 DEF FeedInv, ViewTyped
  <2>5. QED BY <1>1, <2>2, <2>3, <2>4 DEF FeedInv, ViewTyped
<1>6. ASSUME (\E l \in Urls : Mount(l)) \/ ClientStep PROVE FeedInv'
  <2>1. UNCHANGED <<logged, received, buffer, timeline, stage, answer>>
        /\ shown' \in {status', shown}
    BY <1>6 DEF Mount, ClientStep, Show, bufferVars, loadVars
  <2>2. QED BY <1>1, <2>1 DEF FeedInv, ViewTyped, ReceivedOnce
<1>7. ASSUME NEW k \in Loads, ServerAnswers(k) \/ LoadFails(k) PROVE FeedInv'
  <2>1. /\ UNCHANGED <<logged, received, buffer, timeline, shown>>
        /\ stage' \in [Loads -> {"none", "asked", "answered", "done"}]
    BY <1>7 DEF ServerAnswers, LoadFails, bufferVars, FeedInv, ViewTyped
  <2>2. answer' \in [Loads -> 0 .. MaxEvents]
    <3>1. CASE answer' = answer BY <3>1 DEF FeedInv, ViewTyped
    <3>2. CASE \E n \in 0 .. logged + 1 :
                 n <= MaxEvents /\ answer' = [answer EXCEPT ![k] = n]
      <4>1. PICK n \in 0 .. logged + 1 :
              n <= MaxEvents /\ answer' = [answer EXCEPT ![k] = n]
        BY <3>2
      <4>2. n \in 0 .. MaxEvents BY <4>1, FeedAssumption
      <4>3. QED BY <4>1, <4>2 DEF FeedInv, ViewTyped
    <3>3. QED BY <1>7, <3>1, <3>2 DEF ServerAnswers, LoadFails
  <2>3. QED BY <1>1, <2>1, <2>2 DEF FeedInv, ViewTyped, ReceivedOnce
<1>8. ASSUME NEW k \in Loads, AnswerArrives(k) PROVE FeedInv'
  <2>1. /\ UNCHANGED <<logged, received, buffer, answer, shown>>
        /\ timeline' = Rows(answer[k])
        /\ stage' \in [Loads -> {"none", "asked", "answered", "done"}]
    BY <1>8 DEF AnswerArrives, bufferVars, FeedInv, ViewTyped
  <2>2. answer[k] \in 0 .. MaxEvents BY DEF FeedInv, ViewTyped
  <2>3. timeline' \in Seq(Events) /\ Len(timeline') <= Capacity /\ IsInjective(timeline')
    BY <2>1, <2>2, RowsTyped
  <2>4. QED BY <1>1, <2>1, <2>3 DEF FeedInv, ViewTyped, ReceivedOnce
<1>9. CASE UNCHANGED vars
  BY <1>1, <1>9 DEF vars, bufferVars, loadVars, FeedInv, ViewTyped, ReceivedOnce
<1>10. QED BY <1>3, <1>4, <1>5, <1>6, <1>7, <1>8, <1>9 DEF Next

(* Before anything happens.                                                  *)
LEMMA FeedInit ==
  ASSUME Init
  PROVE  FeedInv
<1>1. <<>> \in Seq(Events) /\ Len(<<>>) = 0 BY EmptySeq
<1>2. Range(<<>>) = {} BY RangeEmpty
<1>3. IsInjective(<<>>) BY DEF IsInjective
<1>4. ReceivedOnce BY <1>2, <1>3 DEF Init, ReceivedOnce
<1>5. /\ Len(buffer) < BatchSize
      /\ timeline \in Seq(Events) /\ Len(timeline) <= Capacity /\ IsInjective(timeline)
  <2>1. buffer = <<>> /\ timeline = <<>> BY DEF Init
  <2>2. BatchSize \in Nat \ {0} /\ Capacity \in Nat BY FeedAssumption
  <2>3. QED BY <1>1, <1>3, <2>1, <2>2
<1>6. /\ stage \in [Loads -> {"none", "asked", "answered", "done"}]
      /\ answer \in [Loads -> 0 .. MaxEvents]
      /\ shown \in Client!Statuses
  BY FeedAssumption DEF Init, Client!Statuses
<1>7. QED BY <1>4, <1>5, <1>6, BufferInit DEF FeedInv, ViewTyped

(* The inductive invariant of the feed.                                      *)
LEMMA FeedAlways == Spec => []FeedInv
<1>1. FeedInv /\ ClientInv' /\ [Next]_vars => FeedInv'
  <2>1. ClientInv' => status' \in Client!Statuses
    BY DEF ClientInv, Sound, Typed, Client!Statuses
  <2>2. QED BY <2>1, FeedStep
<1>2. QED BY <1>1, FeedInit, ClientAlwaysSound, PTL DEF Spec

-----------------------------------------------------------------------------
(* Theorems of the specification.                                           *)

(* Through any number of renders, url changes, unmounts, failures and late   *)
(* close events at most one websocket is open or on its way to be.           *)
THEOREM OneConnectionAlways == Spec => []OneConnection
<1>1. ClientInv => OneConnection
  BY DEF ClientInv, Sound, Placed, OneConnection, Client!OneConnection, Client!Live
<1>2. QED BY <1>1, ClientAlwaysSound, PTL

(* The client has a websocket or a timer that will make one exactly as long  *)
(* as the hook retains it, but for the release timer's time.                 *)
THEOREM TriesIffRetainedAlways == Spec => []TriesIffRetained
<1>1. ClientInv => TriesIffRetained
  BY DEF ClientInv, Sound, TriesIffRetained
<1>2. QED BY <1>1, ClientAlwaysSound, PTL

(* The client's own type invariant: its count of users is the number of      *)
(* users, and it never counts more reconnects than sockets have closed.      *)
THEOREM ClientTypeCorrect == Spec => []Client!TypeOK
<1>1. ASSUME ClientInv PROVE Client!TypeOK
  <2>1. retainCount = Cardinality({u \in {Hook} : held[u] # NoUrl})
    <3>1. CASE held[Hook] = NoUrl
      <4>1. {u \in {Hook} : held[u] # NoUrl} = {} BY <3>1
      <4>2. QED BY <1>1, <3>1, <4>1, FS_EmptySet DEF ClientInv, Sound, Typed
    <3>2. CASE held[Hook] # NoUrl
      <4>1. {u \in {Hook} : held[u] # NoUrl} = {Hook} BY <3>2
      <4>2. Cardinality({Hook}) = 1 BY FS_Singleton
      <4>3. QED BY <1>1, <3>2, <4>1, <4>2 DEF ClientInv, Sound, Typed
    <3>3. QED BY <3>1, <3>2
  <2>2. reconnectAttempt \in 0 .. MaxSockets
    <3>1. /\ IsFiniteSet(Client!Sockets)
          /\ Cardinality(Client!Sockets) = IF 1 > MaxSockets THEN 0 ELSE MaxSockets - 1 + 1
      BY FS_Interval, FeedAssumption DEF Client!Sockets
    <3>2. Cardinality(Client!Sockets) = MaxSockets BY <3>1, FeedAssumption
    <3>3. Closed(net) \in SUBSET Client!Sockets BY DEF Closed
    <3>4. /\ Cardinality(Closed(net)) <= MaxSockets
          /\ Cardinality(Closed(net)) \in Nat
      BY <3>1, <3>2, <3>3, FS_Subset, FS_CardinalityType
    <3>5. QED
      BY <1>1, <3>4, FeedAssumption DEF ClientInv, Sound, Typed, Counted
  <2>3. socket \in 0 .. MaxSockets /\ socket <= made
    BY <1>1, FeedAssumption DEF ClientInv, Sound, Typed, Placed
  <2>4. /\ held \in [{Hook} -> Urls \cup {NoUrl}] /\ url \in Urls
        /\ made \in 0 .. MaxSockets
        /\ reconnectTimer \in BOOLEAN /\ releaseTimer \in BOOLEAN
        /\ closeIntent \in {"none", "reset", "release"}
        /\ status \in Client!Statuses
    BY <1>1 DEF ClientInv, Sound, Typed
  <2>5. net \in [Client!Sockets -> {"none", "connecting", "open", "failing",
                                    "closing", "closed"}]
    BY <1>1 DEF ClientInv, Sound, Placed
  <2>6. Client!Cardinality({u \in {Hook} : held[u] # NoUrl})
          = Cardinality({u \in {Hook} : held[u] # NoUrl})
    BY DEF Cardinality, Client!Cardinality
  <2>7. QED BY <2>1, <2>2, <2>3, <2>4, <2>5, <2>6, Zenon DEF Client!TypeOK
<1>2. QED BY <1>1, ClientAlwaysSound, PTL

(* Each event the listener was called with is handed to the store once and   *)
(* in order, or is still buffered, whatever flushes the buffer.              *)
THEOREM HandedOverOnceAlways == Spec => []HandedOverOnce
<1>1. Spec => []BufferInv BY BufferInit, BufferStep, PTL DEF Spec
<1>2. BufferInv => HandedOverOnce BY DEF BufferInv
<1>3. QED BY <1>1, <1>2, PTL
(* The feed's type invariant: the buffer never reaches the batch size, a     *)
(* timer is set exactly while something is buffered, and the timeline is no  *)
(* longer than the ring and shows no event twice.                           *)
THEOREM FeedTypeCorrect == Spec => []TypeOK
<1>1. ASSUME FeedInv, Client!TypeOK PROVE TypeOK
  <2>1. flushTimer = (buffer # <<>>) BY <1>1, Zenon DEF FeedInv, BufferInv
  <2>2. QED BY <1>1, <2>1, Zenon DEF FeedInv, BufferInv, ViewTyped, TypeOK
<1>2. QED BY <1>1, FeedAlways, ClientTypeCorrect, PTL
=============================================================================
