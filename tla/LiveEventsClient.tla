-------------------------- MODULE LiveEventsClient --------------------------
(***************************************************************************)
(* The desktop's shared websocket client (desktop/src/lib/                  *)
(* live-events-client.ts) and the effects of useLiveEvents that retain and  *)
(* release it.  One JavaScript thread: an action is one call, one timer     *)
(* callback or one websocket event, with everything it calls.               *)
(*                                                                         *)
(* A websocket is the number of its creation; `net` is where the browser    *)
(* has it.  A socket that fails fires error and then close, one that is     *)
(* closed by either side fires close; a close event comes some time after   *)
(* close() was called.  The field connected of the client's state is        *)
(* status = "connected" in every assignment and is not kept apart.          *)
(***************************************************************************)
EXTENDS Naturals, FiniteSets

CONSTANTS
  Users,        \* mounted uses of useLiveEvents
  Urls,         \* endpoints they may ask for
  DefaultUrl,   \* the client's url before anybody asks
  NoUrl,        \* a user that does not retain the client
  MaxSockets    \* bound: websockets created

VARIABLES
  held,            \* per user: the url it retains the client for
  url,             \* this.url
  socket,          \* this.socket, 0 for null
  made,            \* websockets created so far
  net,             \* per websocket: where the browser has it
  reconnectTimer,  \* reconnectTimerId is set
  releaseTimer,    \* releaseTimerId is set
  retainCount,
  closeIntent,
  reconnectAttempt,
  status           \* state.status

timerVars == <<reconnectTimer, releaseTimer>>
vars == <<held, url, socket, made, net, timerVars, retainCount, closeIntent,
          reconnectAttempt, status>>

Sockets  == 1 .. MaxSockets
Statuses == {"idle", "connecting", "connected", "disconnected", "error"}

TypeOK ==
  /\ held \in [Users -> Urls \cup {NoUrl}]
  /\ url \in Urls
  /\ socket \in 0 .. MaxSockets /\ made \in 0 .. MaxSockets /\ socket <= made
  /\ net \in [Sockets -> {"none", "connecting", "open", "failing", "closing", "closed"}]
  /\ reconnectTimer \in BOOLEAN /\ releaseTimer \in BOOLEAN
  /\ retainCount = Cardinality({u \in Users : held[u] # NoUrl})
  /\ closeIntent \in {"none", "reset", "release"}
  /\ reconnectAttempt \in 0 .. MaxSockets
  /\ status \in Statuses

Init ==
  /\ held = [u \in Users |-> NoUrl]
  /\ url = DefaultUrl
  /\ socket = 0 /\ made = 0
  /\ net = [s \in Sockets |-> "none"]
  /\ reconnectTimer = FALSE /\ releaseTimer = FALSE
  /\ retainCount = 0
  /\ closeIntent = "none"
  /\ reconnectAttempt = 0
  /\ status = "idle"

-----------------------------------------------------------------------------
(* Calls.                                                                   *)

(* connect(), past its guard: a new websocket becomes the current one; n is *)
(* what the call has done to the other ones.                                *)
Connect(n) ==
  /\ made < MaxSockets
  /\ made' = made + 1
  /\ socket' = made'
  /\ net' = [n EXCEPT ![made'] = "connecting"]
  /\ reconnectTimer' = FALSE
  /\ closeIntent' = "none"
  /\ status' = "connecting"

(* this.socket.close(): the close event follows later.                      *)
Closing == IF socket = 0 THEN net ELSE [net EXCEPT ![socket] = "closing"]

(* What retain({url: l}) does once it has counted the user.  When the url    *)
(* changes, resetConnection clears the reconnect timer and closes the       *)
(* current socket, and a connect() follows in the same call, which also     *)
(* overwrites the close intent "reset".                                     *)
RetainUrl(l) ==
  /\ releaseTimer' = FALSE
  /\ url' = l
  /\ \/ /\ l # url
        /\ Connect(Closing)
     \/ /\ l = url
        /\ socket = 0
        /\ ~reconnectTimer
        /\ Connect(net)
     \/ /\ l = url
        /\ socket # 0 \/ reconnectTimer
        /\ UNCHANGED <<made, socket, net, reconnectTimer, closeIntent, status>>
  /\ UNCHANGED reconnectAttempt

Retain(u, l) ==
  /\ held[u] = NoUrl
  /\ held' = [held EXCEPT ![u] = l]
  /\ retainCount' = retainCount + 1
  /\ RetainUrl(l)

(* release() and retain({url: l}) in one turn: the release timer that the   *)
(* first sets, if nobody else retains, the second clears.                   *)
Reretain(u, l) ==
  /\ held[u] # NoUrl
  /\ held' = [held EXCEPT ![u] = l]
  /\ RetainUrl(l)
  /\ UNCHANGED retainCount

(* The closure retain() returned, called once.                             *)
Release(u) ==
  /\ held[u] # NoUrl
  /\ held' = [held EXCEPT ![u] = NoUrl]
  /\ retainCount' = IF retainCount > 0 THEN retainCount - 1 ELSE 0
  /\ releaseTimer' = (releaseTimer \/ retainCount' = 0)
  /\ UNCHANGED <<url, socket, made, net, reconnectTimer, closeIntent,
                 reconnectAttempt, status>>

-----------------------------------------------------------------------------
(* Timers.                                                                  *)

(* The release timer finds nobody retaining: shutdown().                    *)
ReleaseTimerFires ==
  /\ releaseTimer
  /\ retainCount = 0
  /\ releaseTimer' = FALSE
  /\ reconnectTimer' = FALSE
  /\ reconnectAttempt' = 0
  /\ net' = Closing
  /\ closeIntent' = IF socket # 0 THEN "release" ELSE closeIntent
  /\ socket' = 0
  /\ status' = "idle"
  /\ UNCHANGED <<held, url, made, retainCount>>

(* Mutant: connect() does not look whether there is a socket already.       *)
ReconnectAnyway ==
  /\ reconnectTimer
  /\ Connect(net)
  /\ UNCHANGED <<held, url, releaseTimer, retainCount, reconnectAttempt>>

(* connect() does nothing when nobody retains or a socket is there.         *)
ReconnectTimerFires ==
  /\ reconnectTimer
  /\ \/ /\ retainCount > 0
        /\ socket = 0
        /\ Connect(net)
     \/ /\ retainCount = 0 \/ socket # 0
        /\ reconnectTimer' = FALSE
        /\ UNCHANGED <<made, socket, net, closeIntent, status>>
  /\ UNCHANGED <<held, url, releaseTimer, retainCount, reconnectAttempt>>

-----------------------------------------------------------------------------
(* Websocket events; open, message and error of a socket that is no longer  *)
(* the current one change nothing in the client.                            *)

SocketOpens(s) ==
  /\ net[s] = "connecting"
  /\ net' = [net EXCEPT ![s] = "open"]
  /\ IF s = socket THEN reconnectAttempt' = 0 /\ status' = "connected"
                   ELSE UNCHANGED <<reconnectAttempt, status>>
  /\ UNCHANGED <<held, url, socket, made, timerVars, retainCount, closeIntent>>

(* A message that does not parse; one that does only reaches the listeners. *)
MalformedMessage(s) ==
  /\ net[s] = "open"
  /\ s = socket
  /\ status' = "error"
  /\ UNCHANGED <<held, url, socket, made, net, timerVars, retainCount, closeIntent,
                 reconnectAttempt>>

SocketErrors(s) ==
  /\ net[s] \in {"connecting", "open"}
  /\ net' = [net EXCEPT ![s] = "failing"]
  /\ status' = IF s = socket THEN "error" ELSE status
  /\ UNCHANGED <<held, url, socket, made, timerVars, retainCount, closeIntent,
                 reconnectAttempt>>

CloseEventDue(s) == net[s] \in {"connecting", "open", "failing", "closing"}

(* scheduleReconnect, for the status the handler has arrived at.            *)
ScheduleReconnect(st) ==
  IF retainCount > 0 /\ ~reconnectTimer
  THEN /\ reconnectAttempt' = reconnectAttempt + 1
       /\ status' = "connecting"
       /\ reconnectTimer' = TRUE
  ELSE /\ status' = st
       /\ UNCHANGED <<reconnectAttempt, reconnectTimer>>

(* Mutant: the closed socket stays the current one.                         *)
SocketClosesKeptCurrent(s) ==
  /\ CloseEventDue(s)
  /\ net' = [net EXCEPT ![s] = "closed"]
  /\ closeIntent' = "none"
  /\ ScheduleReconnect(IF closeIntent = "release" THEN status ELSE "disconnected")
  /\ UNCHANGED <<held, url, socket, made, releaseTimer, retainCount>>

(* Mutant: a connection attempt that failed is the last one.                *)
SocketClosesGivingUp(s) ==
  /\ CloseEventDue(s)
  /\ net' = [net EXCEPT ![s] = "closed"]
  /\ socket' = IF s = socket THEN 0 ELSE socket
  /\ closeIntent' = "none"
  /\ IF net[s] = "failing"
     THEN /\ status' = IF closeIntent = "release" THEN status ELSE "disconnected"
          /\ UNCHANGED <<reconnectAttempt, reconnectTimer>>
     ELSE ScheduleReconnect(IF closeIntent = "release" THEN status ELSE "disconnected")
  /\ UNCHANGED <<held, url, made, releaseTimer, retainCount>>

(* The close handler runs for a socket that is no longer the current one    *)
(* too: it consumes the close intent, sets the status and schedules.        *)
SocketCloses(s) ==
  /\ CloseEventDue(s)
  /\ net' = [net EXCEPT ![s] = "closed"]
  /\ socket' = IF s = socket THEN 0 ELSE socket
  /\ closeIntent' = "none"
  /\ ScheduleReconnect(IF closeIntent = "release" THEN status ELSE "disconnected")
  /\ UNCHANGED <<held, url, made, releaseTimer, retainCount>>

-----------------------------------------------------------------------------

SocketEvent(s) ==
  SocketOpens(s) \/ MalformedMessage(s) \/ SocketErrors(s) \/ SocketCloses(s)

Next ==
  \/ \E u \in Users : Release(u) \/ \E l \in Urls : Retain(u, l)
  \/ ReleaseTimerFires \/ ReconnectTimerFires
  \/ \E s \in Sockets : SocketEvent(s)

Spec == Init /\ [][Next]_vars

(* Timers fire, a connection attempt has an outcome, and a close that was   *)
(* begun ends.  Nothing obliges a user to come or go or a peer to close.    *)
Fairness ==
  /\ WF_vars(ReleaseTimerFires)
  /\ WF_vars(ReconnectTimerFires)
  /\ \A s \in Sockets :
       /\ WF_vars(net[s] = "connecting" /\ (SocketOpens(s) \/ SocketErrors(s)))
       /\ WF_vars(net[s] \in {"failing", "closing"} /\ SocketCloses(s))

FairSpec == Spec /\ Fairness

-----------------------------------------------------------------------------
(* Properties.                                                              *)

Live(s) == net[s] \in {"connecting", "open", "failing"}

(* .codex/agents/react-ui.md: "Exactly ONE websocket connection allowed":   *)
(* every websocket but the current one has been closed or told to close,    *)
(* also after a url change, a release and a late close event.               *)
OneConnection == \A s \in Sockets : Live(s) => s = socket

(* Busy exactly for its users: a retained client has a websocket that may   *)
(* still come to something or a timer that will make one, an unretained one *)
(* whose release timer is done with has neither.                            *)
TriesIffRetained ==
  IF retainCount > 0
  THEN (socket # 0 /\ Live(socket)) \/ reconnectTimer
  ELSE releaseTimer \/ (socket = 0 /\ ~reconnectTimer)

(* A retained client without a socket gets one, as long as the bound on     *)
(* websockets allows.                                                       *)
RetainedReconnects ==
  (retainCount > 0 /\ socket = 0) ~>
    (socket # 0 \/ retainCount = 0 \/ made = MaxSockets)
=============================================================================
