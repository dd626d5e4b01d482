-------------------------------- MODULE Hub --------------------------------
(***************************************************************************)
(* The live stream: stream/hub.go and the websocket side of                 *)
(* stream/server.go.  One Run goroutine owns the set of clients; every      *)
(* websocket connection has a goroutine that runs handleWebSocket and then  *)
(* readPump (here: handler) and one that runs writePump (here: writer).     *)
(*                                                                         *)
(* A payload is its number in the order of the calls to Broadcast.  The     *)
(* peer, its network and the deadlines appear as reads and writes that may  *)
(* fail at any time, and must fail once the connection is closed here.      *)
(***************************************************************************)
EXTENDS Naturals, Sequences

CONSTANTS
  Clients,       \* websocket connections
  NoClient,      \* nobody is being cut off
  MaxPayloads,   \* bound: calls to Broadcast
  BroadcastCap,  \* capacity of hub.broadcast (256 in the code)
  SendCap        \* capacity of client.send (256 in the code)

ASSUME HubAssumption ==
  /\ NoClient \notin Clients
  /\ MaxPayloads \in Nat
  /\ BroadcastCap \in Nat \ {0}
  /\ SendCap \in Nat \ {0}

VARIABLES
  calls,       \* calls to Broadcast so far
  broadcast,   \* hub.broadcast
  hubPc,       \* where Run stands
  todo,        \* clients the range over h.clients has not visited yet
  victim,      \* the client whose connection Run is about to close
  clients,     \* h.clients
  handler,     \* per client: where handleWebSocket and readPump stand
  writer,      \* per client: where writePump stands
  hand,        \* per client: the payload writePump received last
  send,        \* per client: the buffer of client.send
  sendClosed,  \* per client: close(client.send) was called
  panicked,    \* a closed channel was sent on or closed again
  connOpen,    \* per client: the connection has not been closed here
  wire,        \* ghost, per client: payloads written to the connection
  taken,       \* ghost: payloads Run has received
  joined       \* ghost, per client: Len(taken) when it was registered

hubVars    == <<calls, broadcast, hubPc, todo, victim, taken>>
clientVars == <<handler, writer, hand, connOpen, wire, joined>>
chanVars   == <<clients, send, sendClosed, panicked>>
vars == <<hubVars, clientVars, chanVars>>

Payloads == 1 .. MaxPayloads

TypeOK ==
  /\ calls \in 0 .. MaxPayloads
  /\ broadcast \in Seq(Payloads) /\ Len(broadcast) <= BroadcastCap
  /\ hubPc \in {"select", "deliver", "cut"}
  /\ todo \subseteq Clients
  /\ victim \in Clients \cup {NoClient}
  /\ clients \subseteq Clients
  /\ handler \in [Clients -> {"none", "registering", "reading", "unregistering",
                              "closing", "done"}]
  /\ writer \in [Clients -> {"none", "select", "writing", "done"}]
  /\ hand \in [Clients -> 0 .. MaxPayloads]
  /\ send \in [Clients -> Seq(Payloads)]
  /\ \A c \in Clients : Len(send[c]) <= SendCap
  /\ sendClosed \in [Clients -> BOOLEAN] /\ panicked \in BOOLEAN
  /\ connOpen \in [Clients -> BOOLEAN]
  /\ wire \in [Clients -> Seq(Payloads)]
  /\ taken \in Seq(Payloads)
  /\ joined \in [Clients -> Nat]

Init ==
  /\ calls = 0 /\ broadcast = <<>> /\ taken = <<>>
  /\ hubPc = "select" /\ todo = {} /\ victim = NoClient
  /\ clients = {}
  /\ handler = [c \in Clients |-> "none"]
  /\ writer = [c \in Clients |-> "none"]
  /\ hand = [c \in Clients |-> 0]
  /\ send = [c \in Clients |-> <<>>]
  /\ sendClosed = [c \in Clients |-> FALSE] /\ panicked = FALSE
  /\ connOpen = [c \in Clients |-> FALSE]
  /\ wire = [c \in Clients |-> <<>>]
  /\ joined = [c \in Clients |-> 0]

-----------------------------------------------------------------------------
(* Broadcast, called by the daemon's proxy connections: never blocks.       *)

BroadcastPayload ==
  /\ calls < MaxPayloads
  /\ calls' = calls + 1
  /\ broadcast' = IF Len(broadcast) < BroadcastCap
                  THEN Append(broadcast, calls') ELSE broadcast
  /\ UNCHANGED <<hubPc, todo, victim, taken, clientVars, chanVars>>

-----------------------------------------------------------------------------
(* Run.                                                                     *)

(* client.hub.register <- client meets case client := <-h.register; then    *)
(* handleWebSocket starts writePump and becomes readPump.                   *)
Register(c) ==
  /\ hubPc = "select"
  /\ handler[c] = "registering"
  /\ clients' = clients \cup {c}
  /\ handler' = [handler EXCEPT ![c] = "reading"]
  /\ writer' = [writer EXCEPT ![c] = "select"]
  /\ joined' = [joined EXCEPT ![c] = Len(taken)]
  /\ UNCHANGED <<hubVars, hand, connOpen, wire, send, sendClosed, panicked>>

CloseSend(c) ==
  /\ panicked' = (panicked \/ sendClosed[c])
  /\ sendClosed' = [sendClosed EXCEPT ![c] = TRUE]

(* Mutant: closes without asking whether the client is still in the map.    *)
UnregisterUnasked(c) ==
  /\ hubPc = "select"
  /\ handler[c] = "unregistering"
  /\ handler' = [handler EXCEPT ![c] = "closing"]
  /\ clients' = clients \ {c}
  /\ CloseSend(c)
  /\ UNCHANGED <<hubVars, writer, hand, connOpen, wire, joined, send>>

(* case client := <-h.unregister, for a client Run may have cut off already.*)
Unregister(c) ==
  /\ hubPc = "select"
  /\ handler[c] = "unregistering"
  /\ handler' = [handler EXCEPT ![c] = "closing"]
  /\ clients' = clients \ {c}
  /\ IF c \in clients THEN CloseSend(c) ELSE UNCHANGED <<sendClosed, panicked>>
  /\ UNCHANGED <<hubVars, writer, hand, connOpen, wire, joined, send>>

TakePayload ==
  /\ hubPc = "select"
  /\ broadcast # <<>>
  /\ taken' = Append(taken, Head(broadcast))
  /\ broadcast' = Tail(broadcast)
  /\ todo' = clients
  /\ hubPc' = "deliver"
  /\ UNCHANGED <<calls, victim, clientVars, chanVars>>

(* The range over the map visits its clients in any order.                  *)
Deliver(c) ==
  /\ hubPc = "deliver"
  /\ c \in todo
  /\ Len(send[c]) < SendCap
  /\ send' = [send EXCEPT ![c] = Append(@, taken[Len(taken)])]
  /\ panicked' = (panicked \/ sendClosed[c])
  /\ todo' = todo \ {c}
  /\ UNCHANGED <<calls, broadcast, hubPc, victim, taken, clientVars, clients,
                 sendClosed>>

(* Mutant: the full buffer is skipped and the client kept.                  *)
SkipSlow(c) ==
  /\ hubPc = "deliver"
  /\ c \in todo
  /\ Len(send[c]) = SendCap
  /\ todo' = todo \ {c}
  /\ UNCHANGED <<calls, broadcast, hubPc, victim, taken, clientVars, chanVars>>

(* Mutant: the slow client is only taken out of the map.                    *)
ForgetSlow(c) ==
  /\ hubPc = "deliver"
  /\ c \in todo
  /\ Len(send[c]) = SendCap
  /\ clients' = clients \ {c}
  /\ todo' = todo \ {c}
  /\ UNCHANGED <<calls, broadcast, hubPc, victim, taken, clientVars, send,
                 sendClosed, panicked>>

(* default: delete(h.clients, client); close(client.send).                  *)
CutSlow(c) ==
  /\ hubPc = "deliver"
  /\ c \in todo
  /\ Len(send[c]) = SendCap
  /\ clients' = clients \ {c}
  /\ CloseSend(c)
  /\ todo' = todo \ {c}
  /\ victim' = c
  /\ hubPc' = "cut"
  /\ UNCHANGED <<calls, broadcast, taken, clientVars, send>>

(* client.conn.Close(), on the client just cut off.                         *)
CutConnection ==
  /\ hubPc = "cut"
  /\ connOpen' = [connOpen EXCEPT ![victim] = FALSE]
  /\ victim' = NoClient
  /\ hubPc' = "deliver"
  /\ UNCHANGED <<calls, broadcast, todo, taken, handler, writer, hand, wire,
                 joined, chanVars>>

DeliverDone ==
  /\ hubPc = "deliver"
  /\ todo = {}
  /\ hubPc' = "select"
  /\ UNCHANGED <<calls, broadcast, todo, victim, taken, clientVars, chanVars>>

-----------------------------------------------------------------------------
(* handleWebSocket and readPump.                                            *)

Upgrade(c) ==
  /\ handler[c] = "none"
  /\ handler' = [handler EXCEPT ![c] = "registering"]
  /\ connOpen' = [connOpen EXCEPT ![c] = TRUE]
  /\ UNCHANGED <<hubVars, writer, hand, wire, joined, chanVars>>

(* Mutant: the deferred function only closes the connection.                *)
ReadFailsUnregistered(c) ==
  /\ handler[c] = "reading"
  /\ handler' = [handler EXCEPT ![c] = "closing"]
  /\ UNCHANGED <<hubVars, writer, hand, connOpen, wire, joined, chanVars>>

(* ReadMessage fails: the peer left, was silent for pongWait, or the        *)
(* connection was closed here.                                              *)
ReadFails(c) ==
  /\ handler[c] = "reading"
  /\ handler' = [handler EXCEPT ![c] = "unregistering"]
  /\ UNCHANGED <<hubVars, writer, hand, connOpen, wire, joined, chanVars>>

CloseConnection(c) ==
  /\ handler[c] = "closing"
  /\ handler' = [handler EXCEPT ![c] = "done"]
  /\ connOpen' = [connOpen EXCEPT ![c] = FALSE]
  /\ UNCHANGED <<hubVars, writer, hand, wire, joined, chanVars>>

-----------------------------------------------------------------------------
(* writePump.                                                               *)

TakeMessage(c) ==
  /\ writer[c] = "select"
  /\ send[c] # <<>>
  /\ hand' = [hand EXCEPT ![c] = Head(send[c])]
  /\ send' = [send EXCEPT ![c] = Tail(@)]
  /\ writer' = [writer EXCEPT ![c] = "writing"]
  /\ UNCHANGED <<hubVars, handler, connOpen, wire, joined, clients, sendClosed,
                 panicked>>

WriteMessage(c) ==
  /\ writer[c] = "writing"
  /\ connOpen[c]
  /\ wire' = [wire EXCEPT ![c] = Append(@, hand[c])]
  /\ writer' = [writer EXCEPT ![c] = "select"]
  /\ UNCHANGED <<hubVars, handler, hand, connOpen, joined, chanVars>>

(* A write or ping fails or times out, or the channel is closed and empty   *)
(* and the close message goes out: writePump returns and closes.            *)
WriterReturns(c) ==
  /\ writer[c] \in {"select", "writing"}
  /\ writer' = [writer EXCEPT ![c] = "done"]
  /\ connOpen' = [connOpen EXCEPT ![c] = FALSE]
  /\ UNCHANGED <<hubVars, handler, hand, wire, joined, chanVars>>

-----------------------------------------------------------------------------

HubNext ==
  \/ TakePayload \/ CutConnection \/ DeliverDone
  \/ \E c \in Clients : Deliver(c) \/ CutSlow(c)

ClientNext(c) ==
  \/ Upgrade(c) \/ Register(c) \/ Unregister(c)
  \/ ReadFails(c) \/ CloseConnection(c)
  \/ TakeMessage(c) \/ WriteMessage(c) \/ WriterReturns(c)

Next == BroadcastPayload \/ HubNext \/ \E c \in Clients : ClientNext(c)

Spec == Init /\ [][Next]_vars

(* What the writer must do: receive when it can; finish a write within      *)
(* writeWait, one way or the other; return when the channel is closed and   *)
(* empty, and at the latest with the next ping on a closed connection.      *)
WriterMustReturn(c) ==
  /\ \/ sendClosed[c] /\ send[c] = <<>>
     \/ ~connOpen[c]
  /\ WriterReturns(c)

(* Goroutines that can run do run.  Go's select picks among its ready cases *)
(* at random, so a client that keeps offering itself to Run on an           *)
(* unbuffered channel is taken even while payloads keep coming: strong      *)
(* fairness for the rendezvous.                                             *)
Fairness ==
  /\ WF_vars(HubNext)
  /\ \A c \in Clients :
       /\ SF_vars(Register(c)) /\ SF_vars(Unregister(c))
       /\ WF_vars(CloseConnection(c))
       /\ WF_vars(~connOpen[c] /\ ReadFails(c))
       /\ WF_vars(TakeMessage(c))
       /\ WF_vars(writer[c] = "writing" /\ (WriteMessage(c) \/ WriterReturns(c)))
       /\ WF_vars(WriterMustReturn(c))

FairSpec == Spec /\ Fairness

-----------------------------------------------------------------------------
(* Properties.                                                              *)

(* Run never sends on or closes a closed channel, which would take the      *)
(* daemon down, however a slow client's eviction and its reader's           *)
(* unregistration are interleaved.                                          *)
NeverPanics == ~panicked

(* What a live writer has written, holds and has waiting.                   *)
Stream(c) == wire[c] \o (IF writer[c] = "writing" THEN <<hand[c]>> ELSE <<>>) \o send[c]

(* s is what Run took, from c's registration on.                            *)
FollowsTaken(c, s) ==
  /\ joined[c] + Len(s) <= Len(taken)
  /\ s = SubSeq(taken, joined[c] + 1, joined[c] + Len(s))

(* A client sees a gapless stretch of the stream: it is served everything   *)
(* Run took since it registered, in order, or it is cut off; a slow client  *)
(* never just misses a payload.                                             *)
Gapless ==
  /\ \A i, j \in DOMAIN taken : i < j => taken[i] < taken[j]
  /\ \A c \in Clients :
       /\ FollowsTaken(c, wire[c])
       /\ writer[c] # "done" => FollowsTaken(c, Stream(c))
       /\ c \in clients /\ writer[c] # "done" =>
            Len(Stream(c)) + (IF c \in todo THEN 1 ELSE 0) = Len(taken) - joined[c]

(* A connection closed by any of its three closers leaves nothing behind:   *)
(* both goroutines end and the hub forgets the client.                      *)
Ended(c) == handler[c] = "done" /\ writer[c] = "done" /\ c \notin clients
ClosedConnectionsEnd ==
  \A c \in Clients : (handler[c] # "none" /\ ~connOpen[c]) ~> Ended(c)

(* A client that stays connected is brought up to date.                     *)
FeedCatchesUp ==
  \A c \in Clients :
    c \in clients ~> (~connOpen[c] \/ sendClosed[c]
                      \/ (broadcast = <<>> /\ Len(wire[c]) = Len(taken) - joined[c]))

-----------------------------------------------------------------------------
(* What the proofs need beyond the properties: who is registered still reads *)
(* its connection and has an open channel, nothing has happened to who is    *)
(* not registered yet, and Run only ranges over clients once it holds a      *)
(* payload.                                                                 *)
Registered ==
  /\ todo \subseteq clients
  /\ hubPc = "select" => todo = {}
  /\ hubPc # "select" => taken # <<>>
  /\ \A c \in clients : ~sendClosed[c] /\ handler[c] \in {"reading", "unregistering"}
  /\ \A c \in Clients : handler[c] \in {"none", "registering"} =>
       ~sendClosed[c] /\ writer[c] = "none" /\ wire[c] = <<>> /\ send[c] = <<>>
  /\ \A c \in Clients : writer[c] = "writing" => hand[c] \in Payloads

Increasing(s) == \A i, j \in DOMAIN s : i < j => s[i] < s[j]

(* Payloads leave the hub's queue in the order they were numbered.           *)
Ordered ==
  /\ Increasing(taken) /\ Increasing(broadcast)
  /\ \A i \in DOMAIN taken, j \in DOMAIN broadcast : taken[i] < broadcast[j]
  /\ \A i \in DOMAIN taken : taken[i] <= calls
  /\ \A i \in DOMAIN broadcast : broadcast[i] <= calls

IndInv == TypeOK /\ NeverPanics /\ Gapless /\ Registered /\ Ordered
=============================================================================
