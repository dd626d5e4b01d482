------------------------------ MODULE Pairing ------------------------------
(***************************************************************************)
(* Correlation of requests and responses: Enrich (pipeline/enricher.go),    *)
(* called by one handleProxyConnection goroutine per connection, and the    *)
(* writer that reads PairedID when it stores an event.                      *)
(*                                                                         *)
(* Events are objects shared by pointer: a request may be queued, or stored *)
(* already, when its response arrives and sets its PairedID.  An event is   *)
(* the number of its creation.  Traffic is JSON-RPC as a proxy sees it: on  *)
(* one connection the agent and the MCP server each send requests with ids  *)
(* of their own choice, never reusing one that is still unanswered, and     *)
(* each request has at most one answer, a result or an error.  A report can *)
(* be lost on its way (ReportAsync gives up after 1ms).                     *)
(***************************************************************************)
EXTENDS Naturals, Sequences, FiniteSets, Functions

CONSTANTS
  Conns,        \* proxy connections
  Names,        \* values of ServerName
  SharedNames,  \* connections may have the same ServerName
  Callers,      \* who sends requests: "agent", or "agent" and "server"
  MsgIds,       \* JSON-RPC ids in use
  ChanCap,      \* capacity of writeCh
  BatchSize,    \* flush threshold of the writer's batch
  MaxEvents,    \* bound: reports that become events
  MaxLost       \* bound: reports that never arrive

ASSUME PairingAssumption ==
  /\ SharedNames \in BOOLEAN
  /\ ChanCap \in Nat \ {0}
  /\ BatchSize \in Nat \ {0}
  /\ MaxEvents \in Nat
  /\ MaxLost \in Nat

VARIABLES
  serverName,  \* per connection
  open,        \* unanswered requests: <<connection, caller, id>>
  lost,        \* reports that did not arrive
  made,        \* events created so far
  kind,        \* per event: MessageType, "none" before it exists
  pairedID,    \* per event: PairedID, 0 for ""
  inFlight,    \* Enricher.inFlight, a function from the keys it has to requests
  pc,          \* per connection: where handleProxyConnection stands
  current,     \* per connection: the event in its hands
  partner,     \* per connection: the request LoadAndDelete returned
  waiting,     \* events in writeCh or in the writer's batch
  stored,      \* per event: the paired_id of its row
  crashed,     \* the daemon died of a torn read
  call         \* ghost, per event: the call it starts or NoCall before

netVars  == <<serverName, open, lost>>
heapVars == <<made, kind, pairedID, inFlight, call>>
procVars == <<pc, current, partner>>
vars == <<netVars, heapVars, procVars, waiting, stored, crashed>>

Events == 1 .. MaxEvents
Calls  == Conns \X Callers \X MsgIds
Keys   == Names \X MsgIds
NotStored == MaxEvents + 1
NoCall == <<>>

PartialFunctions(S, T) == UNION {[D -> T] : D \in SUBSET S}

TypeOK ==
  /\ serverName \in [Conns -> Names]
  /\ open \subseteq Calls
  /\ lost \in 0 .. MaxLost /\ made \in 0 .. MaxEvents
  /\ kind \in [Events -> {"none", "request", "response", "error"}]
  /\ pairedID \in [Events -> 0 .. MaxEvents]
  /\ inFlight \in PartialFunctions(Keys, Events)
  /\ pc \in [Conns -> {"scan", "pair", "enqueue"}]
  /\ current \in [Conns -> 0 .. MaxEvents] /\ partner \in [Conns -> 0 .. MaxEvents]
  /\ waiting \in Seq(Events) /\ Len(waiting) <= ChanCap + BatchSize
  /\ stored \in [Events -> 0 .. NotStored]
  /\ crashed \in BOOLEAN
  /\ call \in [Events -> Calls \cup {NoCall}]

Init ==
  /\ serverName \in [Conns -> Names]
  /\ SharedNames \/ IsInjective(serverName)
  /\ open = {}
  /\ lost = 0 /\ made = 0
  /\ kind = [e \in Events |-> "none"]
  /\ pairedID = [e \in Events |-> 0]
  /\ inFlight = [x \in {} |-> 0]
  /\ pc = [c \in Conns |-> "scan"]
  /\ current = [c \in Conns |-> 0] /\ partner = [c \in Conns |-> 0]
  /\ waiting = <<>>
  /\ stored = [e \in Events |-> NotStored]
  /\ crashed = FALSE
  /\ call = [e \in Events |-> NoCall]

-----------------------------------------------------------------------------

With(f, x, v)  == [y \in DOMAIN f \cup {x} |-> IF y = x THEN v ELSE f[y]]
Without(f, x)  == [y \in DOMAIN f \ {x} |-> f[y]]

(* Mutant: the key forgets the server's name.                               *)
KeyByIdOnly(c, id) == <<id, id>>

Key(c, id) == <<serverName[c], id>>

(* A new event e of type k for call x in the hands of connection c: Parse.  *)
NewEvent(c, x, e, k) ==
  /\ x[1] = c
  /\ ~crashed
  /\ pc[c] = "scan"
  /\ made < MaxEvents
  /\ e = made + 1
  /\ made' = e
  /\ kind' = [kind EXCEPT ![e] = k]
  /\ current' = [current EXCEPT ![c] = e]
  /\ call' = [call EXCEPT ![e] = x]

(* Enrich of a request: inFlight.Store, over whatever the key held.         *)
EnrichRequest(c, x, e) ==
  /\ x \notin open
  /\ NewEvent(c, x, e, "request")
  /\ open' = open \cup {x}
  /\ inFlight' = With(inFlight, Key(c, x[3]), e)
  /\ pc' = [pc EXCEPT ![c] = "enqueue"]
  /\ UNCHANGED <<serverName, lost, pairedID, partner, waiting, stored, crashed>>

(* Mutant: Load for LoadAndDelete.                                          *)
EnrichResponseLoad(c, x, e) ==
  LET key == Key(c, x[3]) IN
  /\ x \in open
  /\ NewEvent(c, x, e, "response")
  /\ open' = open \ {x}
  /\ IF key \in DOMAIN inFlight
     THEN /\ partner' = [partner EXCEPT ![c] = inFlight[key]]
          /\ pairedID' = [pairedID EXCEPT ![e] = inFlight[key]]
          /\ pc' = [pc EXCEPT ![c] = "pair"]
     ELSE /\ pc' = [pc EXCEPT ![c] = "enqueue"]
          /\ UNCHANGED <<partner, pairedID>>
  /\ UNCHANGED <<serverName, lost, inFlight, waiting, stored, crashed>>

(* Enrich of a response: LoadAndDelete, then event.PairedID; the write to   *)
(* reqEvent.PairedID is under way until PairRequest.                        *)
EnrichResponse(c, x, e) ==
  LET key == Key(c, x[3]) IN
  /\ x \in open
  /\ NewEvent(c, x, e, "response")
  /\ open' = open \ {x}
  /\ inFlight' = Without(inFlight, key)
  /\ IF key \in DOMAIN inFlight
     THEN /\ partner' = [partner EXCEPT ![c] = inFlight[key]]
          /\ pairedID' = [pairedID EXCEPT ![e] = inFlight[key]]
          /\ pc' = [pc EXCEPT ![c] = "pair"]
     ELSE /\ pc' = [pc EXCEPT ![c] = "enqueue"]
          /\ UNCHANGED <<partner, pairedID>>
  /\ UNCHANGED <<serverName, lost, waiting, stored, crashed>>

(* Enrich of an error response, which is no MessageTypeResponse: the        *)
(* request stays in flight.                                                 *)
EnrichError(c, x, e) ==
  /\ x \in open
  /\ NewEvent(c, x, e, "error")
  /\ open' = open \ {x}
  /\ pc' = [pc EXCEPT ![c] = "enqueue"]
  /\ UNCHANGED <<serverName, lost, pairedID, inFlight, partner, waiting, stored, crashed>>

(* Mutant: the request is never told of its response.                       *)
PairResponseOnly(c) ==
  /\ ~crashed
  /\ pc[c] = "pair"
  /\ pc' = [pc EXCEPT ![c] = "enqueue"]
  /\ UNCHANGED <<netVars, heapVars, current, partner, waiting, stored, crashed>>

(* reqEvent.PairedID = event.ID has been written.                           *)
PairRequest(c) ==
  /\ ~crashed
  /\ pc[c] = "pair"
  /\ pairedID' = [pairedID EXCEPT ![partner[c]] = current[c]]
  /\ pc' = [pc EXCEPT ![c] = "enqueue"]
  /\ UNCHANGED <<netVars, made, kind, inFlight, call, current, partner, waiting,
                 stored, crashed>>

(* select { case writeCh <- event: default: }.  How many of the waiting     *)
(* events the writer has taken out of the channel into its batch is open.   *)
(* The broadcast that follows is module Hub's.                              *)
Enqueue(c) ==
  /\ ~crashed
  /\ pc[c] = "enqueue"
  /\ \/ /\ Len(waiting) < ChanCap + BatchSize
        /\ waiting' = Append(waiting, current[c])
     \/ /\ Len(waiting) >= ChanCap
        /\ UNCHANGED waiting
  /\ pc' = [pc EXCEPT ![c] = "scan"]
  /\ UNCHANGED <<netVars, heapVars, current, partner, stored, crashed>>

(* A request or an answer that no event is made of: its report got lost.    *)
LoseReport(x) ==
  /\ lost < MaxLost
  /\ lost' = lost + 1
  /\ open' = IF x \in open THEN open \ {x} ELSE open \cup {x}
  /\ UNCHANGED <<serverName, heapVars, procVars, waiting, stored, crashed>>

(* The writer reads the fields of an event and stores its row.  A read of   *)
(* PairedID that races with Enrich's write of it sees the empty string, the *)
(* new one, or a length and a pointer that do not belong together, on which *)
(* the process dies.                                                        *)
Racing(e) == {c \in Conns : pc[c] = "pair" /\ partner[c] = e}

StoreEvent ==
  /\ ~crashed
  /\ waiting # <<>>
  /\ LET e == Head(waiting) IN
     \/ /\ \E v \in {pairedID[e]} \cup {current[c] : c \in Racing(e)} :
             stored' = [stored EXCEPT ![e] = v]
        /\ UNCHANGED crashed
     \/ /\ Racing(e) # {}
        /\ crashed' = TRUE
        /\ UNCHANGED stored
  /\ waiting' = Tail(waiting)
  /\ UNCHANGED <<netVars, heapVars, procVars>>

-----------------------------------------------------------------------------

Enrich(c, x, e) == EnrichRequest(c, x, e) \/ EnrichResponse(c, x, e) \/ EnrichError(c, x, e)

Next ==
  \/ \E c \in Conns :
       \/ PairRequest(c) \/ Enqueue(c)
       \/ \E x \in Calls, e \in Events : Enrich(c, x, e)
  \/ \E x \in Calls : LoseReport(x)
  \/ StoreEvent

Spec == Init /\ [][Next]_vars

-----------------------------------------------------------------------------
(* Properties.                                                              *)

Paired(e) == pairedID[e] # 0
Settled(e) == \A c \in Conns : pc[c] = "pair" => e \notin {current[c], partner[c]}

(* In memory pairing is a matching, whatever names and ids collide and      *)
(* whatever reports are lost: a request has at most one response and points *)
(* back to it, because LoadAndDelete gives a request away only once.        *)
PairingIsMatching ==
  \A e \in Events : Paired(e) /\ Settled(e) =>
    /\ pairedID[pairedID[e]] = e
    /\ {kind[e], kind[pairedID[e]]} = {"request", "response"}

(* A PairedID, once set, is never set to another event: what was stored or  *)
(* broadcast of it stays true.                                              *)
PairedOnce == [][\A e \in Events : Paired(e) => pairedID'[e] = pairedID[e]]_vars

(* A row holds nothing or the pairing itself; a response's row always holds *)
(* it, since a response is queued only after it was paired.                 *)
RowsAgree ==
  \A e \in Events : stored[e] # NotStored =>
    /\ stored[e] # 0 => stored[e] = pairedID[e] \/ ~Settled(e)
    /\ kind[e] = "response" => stored[e] = pairedID[e]

(* The latest request of the call that response e answers.                  *)
IsRequestOf(r, e) ==
  LET asked == {f \in 1 .. e - 1 : kind[f] = "request" /\ call[f] = call[e]}
  IN  r \in asked /\ \A f \in asked : f <= r

(* types/event.go: PairedID is the "matching request/response UUID": a      *)
(* response is paired with the request it answers.                          *)
PairedWithItsRequest ==
  \A e \in Events : kind[e] = "response" /\ Paired(e) => IsRequestOf(pairedID[e], e)

(* Only a lost report, a server name that two connections share or a call   *)
(* in the other direction can pair a response with a foreign request: ids   *)
(* that are reused, answered by errors or the same on other servers cannot. *)
Ambiguous ==
  \E e, f \in 1 .. made :
    /\ call[e][3] = call[f][3]
    /\ serverName[call[e][1]] = serverName[call[f][1]]
    /\ call[e] # call[f]
PairedUnlessAmbiguous == lost = 0 /\ ~Ambiguous => PairedWithItsRequest
=============================================================================
