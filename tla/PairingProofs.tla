--------------------------- MODULE PairingProofs ---------------------------
(* Theorems about Pairing, for any connections, names, ids, capacity and     *)
(* bounds, and about Inspector, which shows the pairs, for any events,       *)
(* partners and traffic.                                                    *)
EXTENDS Pairing, Inspector, SequenceLemmas

(* Events that do not exist yet, and those in the hands of a connection.     *)
Fresh ==
  \A e \in Events : e \notin 1 .. made => kind[e] = "none" /\ pairedID[e] = 0

InHands ==
  /\ \A c \in Conns : pc[c] # "scan" => current[c] \in 1 .. made
  /\ \A c, d \in Conns :
       c # d /\ pc[c] # "scan" /\ pc[d] # "scan" => current[c] # current[d]

(* A request in flight has no response yet and nobody is about to tell it    *)
(* of one, and it is in flight under one key.                               *)
InFlight ==
  /\ \A k \in DOMAIN inFlight :
       /\ inFlight[k] \in 1 .. made
       /\ kind[inFlight[k]] = "request" /\ pairedID[inFlight[k]] = 0
       /\ \A e \in Events : pairedID[e] # inFlight[k]
  /\ \A k, l \in DOMAIN inFlight : inFlight[k] = inFlight[l] => k = l

(* A connection about to tell a request of its response is the only one.     *)
Telling ==
  /\ \A c \in Conns : pc[c] = "pair" =>
       /\ partner[c] \in 1 .. made
       /\ kind[partner[c]] = "request" /\ kind[current[c]] = "response"
       /\ pairedID[partner[c]] = 0 /\ pairedID[current[c]] = partner[c]
       /\ \A k \in DOMAIN inFlight : inFlight[k] # partner[c]
  /\ \A c, d \in Conns :
       pc[c] = "pair" /\ pc[d] = "pair" /\ partner[c] = partner[d] => c = d

(* A request points to a response that points back; a response points to a   *)
(* request that points back or is about to.                                 *)
Matched ==
  \A e \in Events : pairedID[e] # 0 =>
    /\ pairedID[e] \in 1 .. made
    /\ kind[e] = "request" =>
         kind[pairedID[e]] = "response" /\ pairedID[pairedID[e]] = e
    /\ kind[e] # "request" =>
         /\ kind[e] = "response" /\ kind[pairedID[e]] = "request"
         /\ \/ pairedID[pairedID[e]] = e
            \/ \E c \in Conns :
                 pc[c] = "pair" /\ current[c] = e /\ partner[c] = pairedID[e]

MatchInv == TypeOK /\ Fresh /\ InHands /\ InFlight /\ Telling /\ Matched

(* What waits for the writer exists, and a response waits only once it is    *)
(* paired; a row holds the pairing or the one that is being written.         *)
Queued ==
  \A i \in DOMAIN waiting :
    /\ waiting[i] \in 1 .. made
    /\ \A c \in Conns : pc[c] = "pair" => current[c] # waiting[i]

Rows ==
  \A e \in Events : stored[e] # NotStored =>
    /\ e \in 1 .. made
    /\ stored[e] # 0 =>
         \/ stored[e] = pairedID[e]
         \/ \E c \in Conns :
              pc[c] = "pair" /\ partner[c] = e /\ current[c] = stored[e]
    /\ kind[e] = "response" => stored[e] = pairedID[e]

(* As long as no report is lost and no two calls share a key, the call an     *)
(* open request belongs to finds exactly that request in flight.             *)
LatestInFlight ==
  \A x \in open :
    LET key == Key(x[1], x[3]) IN
      /\ key \in DOMAIN inFlight
      /\ call[inFlight[key]] = x
      /\ \A e \in Events : kind[e] = "request" /\ call[e] = x => e <= inFlight[key]

OwnRequest == lost = 0 /\ ~Ambiguous => LatestInFlight /\ PairedWithItsRequest

-----------------------------------------------------------------------------
(* The map of requests in flight.                                           *)

(* Storing under a key.                                                      *)
LEMMA Store ==
  ASSUME NEW S, NEW T, NEW f \in PartialFunctions(S, T), NEW x \in S, NEW v \in T
  PROVE  /\ With(f, x, v) \in PartialFunctions(S, T)
         /\ DOMAIN With(f, x, v) = DOMAIN f \cup {x}
         /\ With(f, x, v)[x] = v
         /\ \A y \in DOMAIN f : y # x => With(f, x, v)[y] = f[y]
<1>1. PICK D \in SUBSET S : f \in [D -> T] BY DEF PartialFunctions
<1>2. With(f, x, v) \in [D \cup {x} -> T] BY <1>1 DEF With
<1>3. D \cup {x} \in SUBSET S BY <1>1
<1>4. With(f, x, v) \in PartialFunctions(S, T)
  BY <1>2, <1>3 DEF PartialFunctions
<1>5. QED BY <1>1, <1>4 DEF With

(* Deleting a key.                                                           *)
LEMMA Delete ==
  ASSUME NEW S, NEW T, NEW f \in PartialFunctions(S, T), NEW x
  PROVE  /\ Without(f, x) \in PartialFunctions(S, T)
         /\ DOMAIN Without(f, x) = DOMAIN f \ {x}
         /\ \A y \in DOMAIN f : y # x => Without(f, x)[y] = f[y]
<1>1. PICK D \in SUBSET S : f \in [D -> T] BY DEF PartialFunctions
<1>2. Without(f, x) \in [D \ {x} -> T] BY <1>1 DEF Without
<1>3. D \ {x} \in SUBSET S BY <1>1
<1>4. Without(f, x) \in PartialFunctions(S, T)
  BY <1>2, <1>3 DEF PartialFunctions
<1>5. QED BY <1>1, <1>4 DEF Without

(* So the map of requests keeps its type.                                   *)
LEMMA MapType ==
  \A f \in PartialFunctions(Keys, Events) :
    /\ \A k \in Keys, e \in Events : With(f, k, e) \in PartialFunctions(Keys, Events)
    /\ \A k : Without(f, k) \in PartialFunctions(Keys, Events)
BY Store, Delete

(* What the map holds are events, under keys of servers and ids.             *)
LEMMA InFlightType ==
  ASSUME TypeOK
  PROVE  /\ \A k \in DOMAIN inFlight : inFlight[k] \in Events
         /\ \A c \in Conns, id \in MsgIds : Key(c, id) \in Keys
<1>1. PICK D \in SUBSET Keys : inFlight \in [D -> Events]
  BY DEF TypeOK, PartialFunctions
<1>2. \A k \in DOMAIN inFlight : inFlight[k] \in Events BY <1>1
<1>3. \A c \in Conns, id \in MsgIds : Key(c, id) \in Keys
  BY DEF TypeOK, Key, Keys
<1>4. QED BY <1>2, <1>3

-----------------------------------------------------------------------------
(* A new event.                                                             *)

(* What becomes of the events, the hands and the calls.                     *)
LEMMA NewEventFacts ==
  ASSUME TypeOK, NEW c \in Conns, NEW x \in Calls, NEW e \in Events,
         NEW k \in {"request", "response", "error"}, NewEvent(c, x, e, k)
  PROVE  /\ made \in Nat /\ MaxEvents \in Nat /\ e = made + 1 /\ made' = e
         /\ e \in 1 .. made' /\ 1 .. made' = (1 .. made) \cup {e}
         /\ e \notin 1 .. made /\ made' \in 0 .. MaxEvents
         /\ kind' = [kind EXCEPT ![e] = k] /\ kind'[e] = k
         /\ \A f \in Events : f # e => kind'[f] = kind[f]
         /\ kind' \in [Events -> {"none", "request", "response", "error"}]
         /\ current' = [current EXCEPT ![c] = e] /\ current'[c] = e
         /\ \A d \in Conns : d # c => current'[d] = current[d]
         /\ current' \in [Conns -> 0 .. MaxEvents]
         /\ call' = [call EXCEPT ![e] = x] /\ call'[e] = x
         /\ \A f \in Events : f # e => call'[f] = call[f]
         /\ call' \in [Events -> Calls \cup {NoCall}]
         /\ pc[c] = "scan" /\ x[1] = c /\ x[3] \in MsgIds
<1>1. /\ made \in Nat /\ MaxEvents \in Nat /\ e = made + 1 /\ made' = e
      /\ e \in 0 .. MaxEvents
  BY PairingAssumption DEF TypeOK, NewEvent, Events
<1>2. e \in 1 .. made' /\ 1 .. made' = (1 .. made) \cup {e} /\ e \notin 1 .. made
  BY <1>1
<1>3. /\ kind' = [kind EXCEPT ![e] = k] /\ kind'[e] = k
      /\ \A f \in Events : f # e => kind'[f] = kind[f]
      /\ kind' \in [Events -> {"none", "request", "response", "error"}]
  BY DEF TypeOK, NewEvent
<1>4. /\ current' = [current EXCEPT ![c] = e] /\ current'[c] = e
      /\ \A d \in Conns : d # c => current'[d] = current[d]
      /\ current' \in [Conns -> 0 .. MaxEvents]
  BY <1>1 DEF TypeOK, NewEvent
<1>5. /\ call' = [call EXCEPT ![e] = x] /\ call'[e] = x
      /\ \A f \in Events : f # e => call'[f] = call[f]
      /\ call' \in [Events -> Calls \cup {NoCall}]
  BY DEF TypeOK, NewEvent
<1>6. pc[c] = "scan" /\ x[1] = c /\ x[3] \in MsgIds BY DEF NewEvent, Calls
<1>7. QED BY <1>1, <1>2, <1>3, <1>4, <1>5, <1>6

-----------------------------------------------------------------------------
(* Types.                                                                   *)

(* No step breaks the types.                                                 *)
LEMMA TypeStep ==
  ASSUME TypeOK, InHands, [Next]_vars
  PROVE  TypeOK'
<1> USE PairingAssumption
<1>1. ASSUME NEW c \in Conns, NEW x \in Calls, NEW e \in Events,
             EnrichRequest(c, x, e)
      PROVE  TypeOK'
  <2>1. NewEvent(c, x, e, "request") BY <1>1 DEF EnrichRequest
  <2>2. /\ kind' \in [Events -> {"none", "request", "response", "error"}]
        /\ current' \in [Conns -> 0 .. MaxEvents]
        /\ call' \in [Events -> Calls \cup {NoCall}]
        /\ made' \in 0 .. MaxEvents /\ x[3] \in MsgIds
    BY <2>1, NewEventFacts
  <2>3. inFlight' \in PartialFunctions(Keys, Events)
    <3>1. Key(c, x[3]) \in Keys BY <2>2, InFlightType
    <3>2. inFlight \in PartialFunctions(Keys, Events) BY DEF TypeOK
    <3>3. inFlight' = With(inFlight, Key(c, x[3]), e) BY <1>1 DEF EnrichRequest
    <3>4. With(inFlight, Key(c, x[3]), e) \in PartialFunctions(Keys, Events)
      BY <3>1, <3>2, MapType
    <3>5. QED BY <3>3, <3>4
  <2>4. pc' \in [Conns -> {"scan", "pair", "enqueue"}]
    BY <1>1 DEF EnrichRequest, TypeOK
  <2>5. open' \subseteq Calls BY <1>1 DEF EnrichRequest, TypeOK
  <2>6. QED
    BY <1>1, <2>2, <2>3, <2>4, <2>5 DEF EnrichRequest, TypeOK, Events
<1>2. ASSUME NEW c \in Conns, NEW x \in Calls, NEW e \in Events,
             EnrichResponse(c, x, e)
      PROVE  TypeOK'
  <2>1. NewEvent(c, x, e, "response") BY <1>2 DEF EnrichResponse
  <2>2. /\ kind' \in [Events -> {"none", "request", "response", "error"}]
        /\ current' \in [Conns -> 0 .. MaxEvents]
        /\ call' \in [Events -> Calls \cup {NoCall}]
        /\ made' \in 0 .. MaxEvents
    BY <2>1, NewEventFacts
  <2>3. inFlight' \in PartialFunctions(Keys, Events)
    <3>1. inFlight \in PartialFunctions(Keys, Events) BY DEF TypeOK
    <3>2. Without(inFlight, Key(c, x[3])) \in PartialFunctions(Keys, Events)
      BY <3>1, MapType
    <3>3. inFlight' = Without(inFlight, Key(c, x[3])) BY <1>2 DEF EnrichResponse
    <3>4. QED BY <3>2, <3>3
  <2>4. /\ partner' \in [Conns -> 0 .. MaxEvents]
        /\ pairedID' \in [Events -> 0 .. MaxEvents]
        /\ pc' \in [Conns -> {"scan", "pair", "enqueue"}]
    <3>1. CASE Key(c, x[3]) \in DOMAIN inFlight
      <4>1. inFlight[Key(c, x[3])] \in 0 .. MaxEvents
        BY <3>1, InFlightType DEF Events
      <4>2. QED BY <1>2, <3>1, <4>1 DEF EnrichResponse, TypeOK
    <3>2. CASE Key(c, x[3]) \notin DOMAIN inFlight
      BY <1>2, <3>2 DEF EnrichResponse, TypeOK
    <3>3. QED BY <3>1, <3>2
  <2>5. open' \subseteq Calls BY <1>2 DEF EnrichResponse, TypeOK
  <2>6. QED
    BY <1>2, <2>2, <2>3, <2>4, <2>5 DEF EnrichResponse, TypeOK, Events
<1>3. ASSUME NEW c \in Conns, NEW x \in Calls, NEW e \in Events,
             EnrichError(c, x, e)
      PROVE  TypeOK'
  <2>1. NewEvent(c, x, e, "error") BY <1>3 DEF EnrichError
  <2>2. /\ kind' \in [Events -> {"none", "request", "response", "error"}]
        /\ current' \in [Conns -> 0 .. MaxEvents]
        /\ call' \in [Events -> Calls \cup {NoCall}]
        /\ made' \in 0 .. MaxEvents
    BY <2>1, NewEventFacts
  <2>3. pc' \in [Conns -> {"scan", "pair", "enqueue"}] /\ open' \subseteq Calls
    BY <1>3 DEF EnrichError, TypeOK
  <2>4. QED BY <1>3, <2>2, <2>3 DEF EnrichError, TypeOK, Events
<1>4. ASSUME NEW c \in Conns, PairRequest(c) PROVE TypeOK'
  <2>1. current[c] \in 0 .. MaxEvents BY DEF TypeOK
  <2>2. pairedID' \in [Events -> 0 .. MaxEvents]
    BY <1>4, <2>1 DEF PairRequest, TypeOK
  <2>3. pc' \in [Conns -> {"scan", "pair", "enqueue"}]
    BY <1>4 DEF PairRequest, TypeOK
  <2>4. QED BY <1>4, <2>2, <2>3 DEF PairRequest, TypeOK, netVars, Events
<1>5. ASSUME NEW c \in Conns, Enqueue(c) PROVE TypeOK'
  <2>1. pc' \in [Conns -> {"scan", "pair", "enqueue"}]
    BY <1>5 DEF Enqueue, TypeOK
  <2>2. waiting' \in Seq(Events) /\ Len(waiting') <= ChanCap + BatchSize
    <3>1. current[c] \in Events
      BY <1>5 DEF Enqueue, InHands, TypeOK, Events
    <3>2. waiting \in Seq(Events) /\ Len(waiting) <= ChanCap + BatchSize
      BY DEF TypeOK
    <3>3. /\ Append(waiting, current[c]) \in Seq(Events)
          /\ Len(Append(waiting, current[c])) = Len(waiting) + 1
          /\ Len(waiting) \in Nat
      BY <3>1, <3>2, AppendProperties, LenProperties
    <3>4. CASE /\ Len(waiting) < ChanCap + BatchSize
               /\ waiting' = Append(waiting, current[c])
      BY <3>3, <3>4
    <3>5. CASE waiting' = waiting BY <3>2, <3>5
    <3>6. QED BY <1>5, <3>4, <3>5 DEF Enqueue
  <2>3. QED BY <1>5, <2>1, <2>2 DEF Enqueue, TypeOK, netVars, heapVars, Events
<1>6. ASSUME NEW x \in Calls, LoseReport(x) PROVE TypeOK'
  <2>1. open' \subseteq Calls /\ lost' \in 0 .. MaxLost
    BY <1>6 DEF LoseReport, TypeOK
  <2>2. UNCHANGED <<serverName, heapVars, procVars, waiting, stored, crashed>>
    BY <1>6 DEF LoseReport
  <2>3. QED BY <2>1, <2>2 DEF TypeOK, heapVars, procVars, Events
<1>7. CASE StoreEvent
  <2>1. waiting \in Seq(Events) /\ waiting # <<>> BY <1>7 DEF StoreEvent, TypeOK
  <2>2. /\ Head(waiting) \in Events /\ Tail(waiting) \in Seq(Events)
        /\ Len(Tail(waiting)) = Len(waiting) - 1 /\ Len(waiting) \in Nat
    BY <2>1, HeadTailProperties, LenProperties
  <2>3. waiting' \in Seq(Events) /\ Len(waiting') <= ChanCap + BatchSize
    BY <1>7, <2>2 DEF StoreEvent, TypeOK
  <2>4. stored' \in [Events -> 0 .. NotStored]
    <3>1. CASE \E v \in {pairedID[Head(waiting)]}
                         \cup {current[c] : c \in Racing(Head(waiting))} :
                 stored' = [stored EXCEPT ![Head(waiting)] = v]
      <4>1. PICK v \in {pairedID[Head(waiting)]}
                        \cup {current[c] : c \in Racing(Head(waiting))} :
              stored' = [stored EXCEPT ![Head(waiting)] = v]
        BY <3>1
      <4>2. v \in 0 .. MaxEvents BY <2>2 DEF TypeOK, Racing
      <4>3. v \in 0 .. NotStored BY <4>2 DEF NotStored
      <4>4. QED BY <4>1, <4>3 DEF TypeOK
    <3>2. CASE stored' = stored BY <3>2 DEF TypeOK
    <3>3. QED BY <1>7, <3>1, <3>2 DEF StoreEvent
  <2>5. crashed' \in BOOLEAN BY <1>7 DEF StoreEvent, TypeOK
  <2>6. QED
    BY <1>7, <2>3, <2>4, <2>5
    DEF StoreEvent, TypeOK, netVars, heapVars, procVars, Events
<1>8. CASE UNCHANGED vars
  BY <1>8 DEF vars, netVars, heapVars, procVars, TypeOK, Events
<1>9. QED
  BY <1>1, <1>2, <1>3, <1>4, <1>5, <1>6, <1>7, <1>8 DEF Next, Enrich

-----------------------------------------------------------------------------
(* Pairing is a matching.                                                   *)

(* The events that exist are events, and none of them is 0.                  *)
LEMMA MadeAreEvents ==
  ASSUME TypeOK
  PROVE  /\ 1 .. made \subseteq Events /\ 0 \notin 1 .. made /\ made \in Nat
         /\ 0 \notin Events /\ pairedID \in [Events -> 0 .. MaxEvents]
<1>1. MaxEvents \in Nat BY PairingAssumption
<1>2. made \in 0 .. MaxEvents BY DEF TypeOK
<1>3. /\ 1 .. made \subseteq Events /\ 0 \notin 1 .. made
      /\ made \in Nat /\ 0 \notin Events
  BY <1>1, <1>2 DEF Events
<1>4. QED BY <1>3 DEF TypeOK

(* Steps that leave the events alone and at most finish with one.            *)
LEMMA MatchFrame ==
  ASSUME MatchInv, UNCHANGED <<made, kind, pairedID, inFlight, current, partner>>,
         \A c \in Conns : pc'[c] = pc[c] \/ (pc[c] = "enqueue" /\ pc'[c] = "scan")
  PROVE  Fresh' /\ InHands' /\ InFlight' /\ Telling' /\ Matched'
<1>1. Fresh' BY DEF MatchInv, Fresh, Events
<1>2. InHands' BY DEF MatchInv, InHands
<1>3. InFlight' BY DEF MatchInv, InFlight, Events
<1>4. \A c \in Conns : pc'[c] = "pair" <=> pc[c] = "pair" OBVIOUS
<1>5. Telling' BY <1>4 DEF MatchInv, Telling
<1>6. Matched' BY <1>4 DEF MatchInv, Matched, Events
<1>7. QED BY <1>1, <1>2, <1>3, <1>5, <1>6

(* A connection that takes a new event into its hands holds no other one's.  *)
LEMMA NewInHands ==
  ASSUME MatchInv, NEW c \in Conns, NEW x \in Calls, NEW e \in Events,
         NEW k \in {"request", "response", "error"}, NewEvent(c, x, e, k),
         NEW p \in {"pair", "enqueue"}, pc' = [pc EXCEPT ![c] = p]
  PROVE  InHands'
<1>1. /\ made' = e /\ 1 .. made' = (1 .. made) \cup {e} /\ e \notin 1 .. made
      /\ current'[c] = e /\ \A d \in Conns : d # c => current'[d] = current[d]
  BY NewEventFacts DEF MatchInv
<1>2. \A d \in Conns : d # c => pc'[d] = pc[d] BY DEF MatchInv, TypeOK
<1>3. \A d \in Conns : d # c /\ pc'[d] # "scan" => current'[d] \in 1 .. made
  BY <1>1, <1>2 DEF MatchInv, InHands
<1>4. \A d \in Conns : pc'[d] # "scan" => current'[d] \in 1 .. made'
  BY <1>1, <1>3
<1>5. ASSUME NEW a \in Conns, NEW b \in Conns, a # b, pc'[a] # "scan", pc'[b] # "scan"
      PROVE  current'[a] # current'[b]
  <2>1. CASE a = c BY <1>1, <1>3, <1>5, <2>1
  <2>2. CASE b = c BY <1>1, <1>3, <1>5, <2>2
  <2>3. CASE a # c /\ b # c BY <1>1, <1>2, <1>5, <2>3 DEF MatchInv, InHands
  <2>4. QED BY <2>1, <2>2, <2>3
<1>6. QED BY <1>4, <1>5 DEF InHands

(* An event that is neither paired nor pairs anything changes no pairing.    *)
LEMMA NewUnpaired ==
  ASSUME MatchInv, NEW c \in Conns, NEW x \in Calls, NEW e \in Events,
         NEW k \in {"request", "response", "error"}, NewEvent(c, x, e, k),
         pc' = [pc EXCEPT ![c] = "enqueue"], UNCHANGED <<pairedID, partner>>
  PROVE  /\ Fresh' /\ InHands' /\ Matched'
         /\ inFlight' = inFlight => InFlight' /\ Telling'
<1>1. /\ e \in Events /\ made' = e
      /\ 1 .. made' = (1 .. made) \cup {e} /\ e \notin 1 .. made
      /\ kind'[e] = k /\ \A f \in Events : f # e => kind'[f] = kind[f]
      /\ \A d \in Conns : d # c => current'[d] = current[d]
      /\ pc[c] = "scan"
  BY NewEventFacts DEF MatchInv
<1>2. /\ \A d \in Conns : d # c => pc'[d] = pc[d]
      /\ pc'[c] = "enqueue"
      /\ \A d \in Conns : pc'[d] = "pair" <=> pc[d] = "pair"
      /\ \A d \in Conns : pc'[d] = "pair" => d # c
  BY <1>1 DEF MatchInv, TypeOK
<1>3. 1 .. made \subseteq Events BY MadeAreEvents DEF MatchInv
<1>4. pairedID[e] = 0 BY <1>1 DEF MatchInv, Fresh
<1>5. Fresh' BY <1>1 DEF MatchInv, Fresh, Events
<1>6. InHands' BY NewInHands
<1>7. Matched'
  <2>1. SUFFICES ASSUME NEW f \in Events, pairedID[f] # 0
                 PROVE  /\ pairedID[f] \in 1 .. made'
                        /\ kind'[f] = "request" =>
                             /\ kind'[pairedID[f]] = "response"
                             /\ pairedID[pairedID[f]] = f
                        /\ kind'[f] # "request" =>
                             /\ kind'[f] = "response" /\ kind'[pairedID[f]] = "request"
                             /\ \/ pairedID[pairedID[f]] = f
                                \/ \E d \in Conns : /\ pc'[d] = "pair"
                                                    /\ current'[d] = f
                                                    /\ partner[d] = pairedID[f]
    BY DEF Matched, Events
  <2>2. f # e /\ kind'[f] = kind[f] BY <1>1, <1>4, <2>1
  <2>3. /\ pairedID[f] \in 1 .. made /\ pairedID[f] \in Events /\ pairedID[f] # e
        /\ kind'[pairedID[f]] = kind[pairedID[f]]
    BY <1>1, <1>3, <2>1 DEF MatchInv, Matched
  <2>4. CASE kind[f] = "request"
    BY <1>1, <2>1, <2>2, <2>3, <2>4 DEF MatchInv, Matched
  <2>5. CASE kind[f] # "request" /\ pairedID[pairedID[f]] = f
    BY <1>1, <2>1, <2>2, <2>3, <2>5 DEF MatchInv, Matched
  <2>6. CASE kind[f] # "request" /\ pairedID[pairedID[f]] # f
    <3>1. PICK d \in Conns :
            pc[d] = "pair" /\ current[d] = f /\ partner[d] = pairedID[f]
      BY <2>1, <2>6 DEF MatchInv, Matched
    <3>2. pc'[d] = "pair" /\ current'[d] = f BY <1>1, <1>2, <3>1
    <3>3. kind[f] = "response" /\ kind[pairedID[f]] = "request"
      BY <2>1, <2>6 DEF MatchInv, Matched
    <3>4. QED BY <1>1, <2>2, <2>3, <2>6, <3>1, <3>2, <3>3
  <2>7. QED BY <2>4, <2>5, <2>6
<1>8. ASSUME inFlight' = inFlight PROVE InFlight' /\ Telling'
  <2>1. InFlight'
    BY <1>1, <1>3, <1>8 DEF MatchInv, InFlight, Events
  <2>2. ASSUME NEW d \in Conns, pc'[d] = "pair"
        PROVE  /\ partner[d] \in 1 .. made'
               /\ kind'[partner[d]] = "request" /\ kind'[current'[d]] = "response"
               /\ pairedID[partner[d]] = 0 /\ pairedID[current'[d]] = partner[d]
               /\ \A l \in DOMAIN inFlight : inFlight[l] # partner[d]
    <3>1. pc[d] = "pair" /\ d # c /\ current'[d] = current[d]
      BY <1>1, <1>2, <2>2
    <3>2. current[d] \in 1 .. made BY <3>1 DEF MatchInv, InHands
    <3>3. QED BY <1>1, <1>3, <3>1, <3>2 DEF MatchInv, Telling
  <2>3. Telling' BY <1>2, <1>8, <2>2 DEF MatchInv, Telling
  <2>4. QED BY <2>1, <2>3
<1>9. QED BY <1>5, <1>6, <1>7, <1>8

(* A request goes in flight.                                                 *)
LEMMA RequestMatch ==
  ASSUME MatchInv, NEW c \in Conns, NEW x \in Calls, NEW e \in Events,
         EnrichRequest(c, x, e)
  PROVE  Fresh' /\ InHands' /\ InFlight' /\ Telling' /\ Matched'
<1> DEFINE key == Key(c, x[3])
<1>1. /\ NewEvent(c, x, e, "request") /\ UNCHANGED <<pairedID, partner>>
      /\ pc' = [pc EXCEPT ![c] = "enqueue"] /\ inFlight' = With(inFlight, key, e)
  BY DEF EnrichRequest
<1>2. Fresh' /\ InHands' /\ Matched' BY <1>1, NewUnpaired
<1>3. /\ made' = e /\ 1 .. made' = (1 .. made) \cup {e} /\ e \notin 1 .. made
      /\ kind'[e] = "request" /\ \A f \in Events : f # e => kind'[f] = kind[f]
      /\ \A d \in Conns : d # c => current'[d] = current[d]
      /\ pc[c] = "scan" /\ x[3] \in MsgIds /\ e \in 1 .. made'
  BY <1>1, NewEventFacts DEF MatchInv
<1>4. /\ DOMAIN inFlight' = DOMAIN inFlight \cup {key}
      /\ inFlight'[key] = e
      /\ \A l \in DOMAIN inFlight : l # key => inFlight'[l] = inFlight[l]
  <2>1. key \in Keys BY <1>3, InFlightType DEF MatchInv
  <2>2. inFlight \in PartialFunctions(Keys, Events) BY DEF MatchInv, TypeOK
  <2> HIDE DEF key
  <2>3. QED BY <1>1, <2>1, <2>2, Store
<1> HIDE DEF key
<1>5. /\ 1 .. made \subseteq Events /\ 0 \notin 1 .. made /\ 0 \notin Events
      /\ pairedID' = pairedID
  BY <1>1, MadeAreEvents DEF MatchInv
<1>6. \A f \in Events : pairedID[f] # e
  BY <1>3, <1>5 DEF MatchInv, Matched
<1>7. pairedID[e] = 0 BY <1>3 DEF MatchInv, Fresh
<1>8. ASSUME NEW l \in DOMAIN inFlight'
      PROVE  /\ inFlight'[l] \in 1 .. made'
             /\ kind'[inFlight'[l]] = "request" /\ pairedID[inFlight'[l]] = 0
             /\ \A f \in Events : pairedID[f] # inFlight'[l]
             /\ l # key => inFlight'[l] = inFlight[l] /\ inFlight'[l] \in 1 .. made
  <2>1. CASE l = key BY <1>3, <1>4, <1>6, <1>7, <2>1
  <2>2. CASE l # key
    <3>1. l \in DOMAIN inFlight /\ inFlight'[l] = inFlight[l] BY <1>4, <2>2
    <3>2. /\ inFlight[l] \in 1 .. made
          /\ kind[inFlight[l]] = "request" /\ pairedID[inFlight[l]] = 0
          /\ \A f \in Events : pairedID[f] # inFlight[l]
      BY <3>1 DEF MatchInv, InFlight
    <3>3. inFlight[l] # e /\ inFlight[l] \in Events BY <1>3, <1>5, <3>2
    <3>4. QED BY <1>3, <3>1, <3>2, <3>3
  <2>3. QED BY <2>1, <2>2
<1>9. \A k, l \in DOMAIN inFlight' : inFlight'[k] = inFlight'[l] => k = l
  BY <1>3, <1>4, <1>8 DEF MatchInv, InFlight
<1>10. InFlight' BY <1>5, <1>8, <1>9 DEF InFlight, Events
<1>11. ASSUME NEW d \in Conns, pc'[d] = "pair"
       PROVE  /\ partner'[d] \in 1 .. made'
              /\ kind'[partner'[d]] = "request" /\ kind'[current'[d]] = "response"
              /\ pairedID'[partner'[d]] = 0 /\ pairedID'[current'[d]] = partner'[d]
              /\ \A l \in DOMAIN inFlight' : inFlight'[l] # partner'[d]
              /\ pc[d] = "pair" /\ partner'[d] = partner[d]
  <2>1. pc[d] = "pair" /\ d # c BY <1>1, <1>11 DEF MatchInv, TypeOK
  <2>2. current'[d] = current[d] /\ current[d] \in 1 .. made /\ partner' = partner
    BY <1>1, <1>3, <2>1 DEF MatchInv, InHands
  <2>3. /\ partner[d] \in 1 .. made
        /\ kind[partner[d]] = "request" /\ kind[current[d]] = "response"
        /\ pairedID[partner[d]] = 0 /\ pairedID[current[d]] = partner[d]
        /\ \A l \in DOMAIN inFlight : inFlight[l] # partner[d]
    BY <2>1 DEF MatchInv, Telling
  <2>4. partner[d] # e /\ current[d] # e /\ partner[d] \in Events /\ current[d] \in Events
    BY <1>3, <1>5, <2>2, <2>3
  <2>5. \A l \in DOMAIN inFlight' : inFlight'[l] # partner[d]
    BY <1>4, <2>3, <2>4
  <2>6. QED BY <1>3, <1>5, <2>1, <2>2, <2>3, <2>4, <2>5
<1>12. Telling' BY <1>11 DEF MatchInv, Telling
<1>13. QED BY <1>2, <1>10, <1>12

(* A response is told to its request: the pairing is complete.               *)
LEMMA PairMatch ==
  ASSUME MatchInv, NEW c \in Conns, PairRequest(c)
  PROVE  Fresh' /\ InHands' /\ InFlight' /\ Telling' /\ Matched'
<1> DEFINE r == partner[c]
           e == current[c]
<1>1. /\ pc[c] = "pair" /\ pairedID' = [pairedID EXCEPT ![r] = e]
      /\ pc' = [pc EXCEPT ![c] = "enqueue"]
      /\ UNCHANGED <<made, kind, inFlight, current, partner>>
  BY DEF PairRequest
<1>2. /\ 1 .. made \subseteq Events /\ 0 \notin 1 .. made /\ 0 \notin Events
      /\ pairedID \in [Events -> 0 .. MaxEvents]
  BY MadeAreEvents DEF MatchInv
<1>3. /\ r \in 1 .. made /\ r \in Events /\ e \in 1 .. made /\ e \in Events
      /\ kind[r] = "request" /\ kind[e] = "response" /\ r # e
      /\ pairedID[r] = 0 /\ pairedID[e] = r
      /\ \A l \in DOMAIN inFlight : inFlight[l] # r
  BY <1>1, <1>2 DEF MatchInv, Telling, InHands
<1> HIDE DEF r, e
<1>4. /\ pairedID'[r] = e /\ \A f \in Events : f # r => pairedID'[f] = pairedID[f]
      /\ pc'[c] = "enqueue" /\ \A d \in Conns : d # c => pc'[d] = pc[d]
  BY <1>1, <1>2, <1>3 DEF MatchInv, TypeOK
<1>5. Fresh' BY <1>1, <1>3, <1>4 DEF MatchInv, Fresh, Events
<1>6. InHands' BY <1>1, <1>4 DEF MatchInv, InHands
<1>7. InFlight'
  <2>1. \A l \in DOMAIN inFlight :
          /\ inFlight[l] \in 1 .. made /\ inFlight[l] # r /\ inFlight[l] \in Events
          /\ kind[inFlight[l]] = "request" /\ pairedID[inFlight[l]] = 0
          /\ \A f \in Events : pairedID[f] # inFlight[l]
    BY <1>2, <1>3 DEF MatchInv, InFlight
  <2>2. \A l \in DOMAIN inFlight : inFlight[l] # e BY <1>3, <2>1
  <2>3. \A l \in DOMAIN inFlight :
          /\ pairedID'[inFlight[l]] = 0
          /\ \A f \in Events : pairedID'[f] # inFlight[l]
    BY <1>4, <2>1, <2>2
  <2>4. QED BY <1>1, <2>1, <2>3 DEF MatchInv, InFlight, Events
<1>8. ASSUME NEW d \in Conns, pc'[d] = "pair"
      PROVE  /\ pc[d] = "pair" /\ d # c /\ partner[d] # r
             /\ pairedID'[partner[d]] = 0 /\ pairedID'[current[d]] = partner[d]
  <2>1. pc[d] = "pair" /\ d # c BY <1>4, <1>8
  <2>2. partner[d] # r BY <1>1, <2>1 DEF MatchInv, Telling, r
  <2>3. /\ partner[d] \in 1 .. made /\ current[d] \in 1 .. made
        /\ kind[current[d]] = "response" /\ pairedID[partner[d]] = 0
        /\ pairedID[current[d]] = partner[d]
    BY <2>1 DEF MatchInv, Telling, InHands
  <2>4. current[d] # r BY <1>3, <2>3
  <2>5. QED BY <1>2, <1>4, <2>1, <2>2, <2>3, <2>4
<1>9. Telling'
  BY <1>1, <1>8 DEF MatchInv, Telling
<1>10. Matched'
  <2>1. SUFFICES ASSUME NEW f \in Events, pairedID'[f] # 0
                 PROVE  /\ pairedID'[f] \in 1 .. made
                        /\ kind[f] = "request" =>
                             /\ kind[pairedID'[f]] = "response"
                             /\ pairedID'[pairedID'[f]] = f
                        /\ kind[f] # "request" =>
                             /\ kind[f] = "response" /\ kind[pairedID'[f]] = "request"
                             /\ \/ pairedID'[pairedID'[f]] = f
                                \/ \E d \in Conns : /\ pc'[d] = "pair"
                                                    /\ current[d] = f
                                                    /\ partner[d] = pairedID'[f]
    BY <1>1 DEF Matched, Events
  <2>2. CASE f = r BY <1>3, <1>4, <2>2
  <2>3. CASE f = e BY <1>3, <1>4, <2>3
  <2>4. CASE f # r /\ f # e
    <3>1. pairedID'[f] = pairedID[f] /\ pairedID[f] # 0 BY <1>4, <2>1, <2>4
    <3>2. pairedID[f] \in 1 .. made /\ pairedID[f] \in Events
      BY <1>2, <3>1 DEF MatchInv, Matched
    <3>3. CASE kind[f] = "request"
      <4>1. kind[pairedID[f]] = "response" /\ pairedID[pairedID[f]] = f
        BY <3>1, <3>3 DEF MatchInv, Matched
      <4>2. pairedID[f] # r BY <1>3, <4>1
      <4>3. QED BY <1>4, <3>1, <3>2, <3>3, <4>1, <4>2
    <3>4. CASE kind[f] # "request" /\ pairedID[pairedID[f]] = f
      <4>1. kind[f] = "response" /\ kind[pairedID[f]] = "request"
        BY <3>1, <3>4 DEF MatchInv, Matched
      <4>2. pairedID[f] # r BY <1>2, <1>3, <3>4
      <4>3. QED BY <1>4, <3>1, <3>2, <3>4, <4>1, <4>2
    <3>5. CASE kind[f] # "request" /\ pairedID[pairedID[f]] # f
      <4>1. /\ kind[f] = "response" /\ kind[pairedID[f]] = "request"
            /\ \E d \in Conns :
                 pc[d] = "pair" /\ current[d] = f /\ partner[d] = pairedID[f]
        BY <3>1, <3>5 DEF MatchInv, Matched
      <4>2. PICK d \in Conns :
              pc[d] = "pair" /\ current[d] = f /\ partner[d] = pairedID[f]
        BY <4>1
      <4>3. d # c BY <2>4, <4>2 DEF e
      <4>4. pc'[d] = "pair" BY <1>4, <4>2, <4>3
      <4>5. QED BY <3>1, <3>2, <3>5, <4>1, <4>2, <4>4
    <3>6. QED BY <3>3, <3>4, <3>5
  <2>5. QED BY <2>2, <2>3, <2>4
<1>11. QED BY <1>5, <1>6, <1>7, <1>9, <1>10

(* Deleting a key takes nothing else out of flight.                          *)
LEMMA DeleteInFlight ==
  ASSUME NEW key, inFlight' = Without(inFlight, key)
  PROVE  /\ DOMAIN inFlight' = DOMAIN inFlight \ {key}
         /\ \A l \in DOMAIN inFlight' : inFlight'[l] = inFlight[l]
BY DEF Without

(* A response without a request, and an error.                               *)
LEMMA UnansweredMatch ==
  ASSUME MatchInv, NEW c \in Conns, NEW x \in Calls, NEW e \in Events,
         NEW k \in {"response", "error"}, NewEvent(c, x, e, k),
         pc' = [pc EXCEPT ![c] = "enqueue"], UNCHANGED <<pairedID, partner>>,
         inFlight' = inFlight
  PROVE  Fresh' /\ InHands' /\ InFlight' /\ Telling' /\ Matched'
<1>1. k \in {"request", "response", "error"} OBVIOUS
<1>2. /\ DOMAIN inFlight' = DOMAIN inFlight
      /\ \A l \in DOMAIN inFlight' : inFlight'[l] = inFlight[l]
  OBVIOUS
<1>3. QED BY <1>1, <1>2, NewUnpaired

(* A response takes its request out of flight and points to it.              *)
LEMMA ResponseMatch ==
  ASSUME MatchInv, NEW c \in Conns, NEW x \in Calls, NEW e \in Events,
         EnrichResponse(c, x, e), Key(c, x[3]) \in DOMAIN inFlight
  PROVE  Fresh' /\ InHands' /\ InFlight' /\ Telling' /\ Matched'
<1> DEFINE key == Key(c, x[3])
           r == inFlight[key]
<1>1. /\ NewEvent(c, x, e, "response") /\ key \in DOMAIN inFlight
      /\ inFlight' = Without(inFlight, key)
      /\ partner' = [partner EXCEPT ![c] = r]
      /\ pairedID' = [pairedID EXCEPT ![e] = r]
      /\ pc' = [pc EXCEPT ![c] = "pair"]
  BY DEF EnrichResponse
<1>2. InHands' BY <1>1, NewInHands
<1>3. /\ made' = e /\ 1 .. made' = (1 .. made) \cup {e} /\ e \notin 1 .. made
      /\ kind'[e] = "response" /\ \A f \in Events : f # e => kind'[f] = kind[f]
      /\ current'[c] = e /\ \A d \in Conns : d # c => current'[d] = current[d]
      /\ pc[c] = "scan" /\ e \in 1 .. made'
  BY <1>1, NewEventFacts DEF MatchInv
<1>4. /\ DOMAIN inFlight' = DOMAIN inFlight \ {key}
      /\ \A l \in DOMAIN inFlight' : inFlight'[l] = inFlight[l]
  BY <1>1, DeleteInFlight
<1>5. /\ 1 .. made \subseteq Events /\ 0 \notin 1 .. made /\ 0 \notin Events
  BY MadeAreEvents DEF MatchInv
<1>6. /\ r \in 1 .. made /\ r \in Events /\ kind[r] = "request" /\ pairedID[r] = 0
      /\ \A f \in Events : pairedID[f] # r
      /\ \A l \in DOMAIN inFlight' : inFlight'[l] # r
  BY <1>1, <1>4, <1>5 DEF MatchInv, InFlight
<1> HIDE DEF key, r
<1>7. /\ pairedID'[e] = r /\ \A f \in Events : f # e => pairedID'[f] = pairedID[f]
      /\ partner'[c] = r /\ \A d \in Conns : d # c => partner'[d] = partner[d]
      /\ pc'[c] = "pair" /\ \A d \in Conns : d # c => pc'[d] = pc[d]
  BY <1>1 DEF MatchInv, TypeOK
<1>8. r # e /\ pairedID[e] = 0 BY <1>3, <1>6 DEF MatchInv, Fresh
<1>9. \A f \in Events : pairedID[f] # e
  BY <1>3, <1>5 DEF MatchInv, Matched
<1>10. Fresh' BY <1>3, <1>7 DEF MatchInv, Fresh, Events
<1>11. InFlight'
  <2>1. ASSUME NEW l \in DOMAIN inFlight'
        PROVE  /\ l \in DOMAIN inFlight /\ inFlight'[l] = inFlight[l]
               /\ inFlight[l] \in 1 .. made /\ inFlight[l] # e /\ inFlight[l] # r
               /\ inFlight[l] \in Events
               /\ kind[inFlight[l]] = "request" /\ pairedID[inFlight[l]] = 0
               /\ \A f \in Events : pairedID[f] # inFlight[l]
    BY <1>3, <1>4, <1>5, <1>6, <2>1 DEF MatchInv, InFlight
  <2>2. ASSUME NEW l \in DOMAIN inFlight'
        PROVE  /\ inFlight'[l] \in 1 .. made'
               /\ kind'[inFlight'[l]] = "request" /\ pairedID'[inFlight'[l]] = 0
               /\ \A f \in Events : pairedID'[f] # inFlight'[l]
    BY <1>3, <1>7, <2>1
  <2>3. \A l, m \in DOMAIN inFlight' : inFlight'[l] = inFlight'[m] => l = m
    BY <2>1 DEF MatchInv, InFlight
  <2>4. QED BY <2>2, <2>3 DEF InFlight, Events
<1>12. ASSUME NEW d \in Conns, pc'[d] = "pair", d # c
       PROVE  /\ pc[d] = "pair" /\ partner'[d] = partner[d] /\ current'[d] = current[d]
              /\ partner[d] \in 1 .. made /\ partner[d] # r /\ partner[d] # e
              /\ current[d] # e /\ partner[d] \in Events /\ current[d] \in Events
              /\ kind[partner[d]] = "request" /\ kind[current[d]] = "response"
              /\ pairedID[partner[d]] = 0 /\ pairedID[current[d]] = partner[d]
              /\ \A l \in DOMAIN inFlight : inFlight[l] # partner[d]
  <2>1. pc[d] = "pair" BY <1>7, <1>12
  <2>2. /\ partner[d] \in 1 .. made
        /\ kind[partner[d]] = "request" /\ kind[current[d]] = "response"
        /\ pairedID[partner[d]] = 0 /\ pairedID[current[d]] = partner[d]
        /\ \A l \in DOMAIN inFlight : inFlight[l] # partner[d]
    BY <2>1 DEF MatchInv, Telling
  <2>3. current[d] \in 1 .. made BY <2>1 DEF MatchInv, InHands
  <2>4. partner[d] # r BY <1>1, <2>2 DEF r
  <2>5. QED BY <1>3, <1>5, <1>7, <1>12, <2>1, <2>2, <2>3, <2>4
<1>13. ASSUME NEW d \in Conns, pc'[d] = "pair"
       PROVE  /\ partner'[d] \in 1 .. made'
              /\ kind'[partner'[d]] = "request" /\ kind'[current'[d]] = "response"
              /\ pairedID'[partner'[d]] = 0 /\ pairedID'[current'[d]] = partner'[d]
              /\ \A l \in DOMAIN inFlight' : inFlight'[l] # partner'[d]
  <2>1. CASE d = c BY <1>3, <1>6, <1>7, <1>8, <2>1
  <2>2. CASE d # c
    <3>1. /\ partner'[d] = partner[d] /\ current'[d] = current[d]
          /\ partner[d] \in 1 .. made /\ partner[d] # r /\ partner[d] # e
          /\ current[d] # e /\ partner[d] \in Events /\ current[d] \in Events
          /\ kind[partner[d]] = "request" /\ kind[current[d]] = "response"
          /\ pairedID[partner[d]] = 0 /\ pairedID[current[d]] = partner[d]
          /\ \A l \in DOMAIN inFlight : inFlight[l] # partner[d]
      BY <1>12, <1>13, <2>2
    <3>2. \A l \in DOMAIN inFlight' : inFlight'[l] # partner'[d]
      BY <1>4, <3>1
    <3>3. /\ partner'[d] \in 1 .. made'
          /\ kind'[partner'[d]] = "request" /\ kind'[current'[d]] = "response"
      BY <1>3, <3>1
    <3>4. pairedID'[partner'[d]] = 0 /\ pairedID'[current'[d]] = partner'[d]
      BY <1>7, <3>1
    <3>5. QED BY <3>2, <3>3, <3>4
  <2>3. QED BY <2>1, <2>2
<1>14. ASSUME NEW a \in Conns, NEW b \in Conns, pc'[a] = "pair", pc'[b] = "pair",
              partner'[a] = partner'[b]
       PROVE  a = b
  <2>1. CASE a = c BY <1>7, <1>12, <1>14, <2>1
  <2>2. CASE b = c BY <1>7, <1>12, <1>14, <2>2
  <2>3. CASE a # c /\ b # c
    <3>1. pc[a] = "pair" /\ pc[b] = "pair" /\ partner[a] = partner[b]
      BY <1>12, <1>14, <2>3
    <3>2. QED BY <3>1 DEF MatchInv, Telling
  <2>4. QED BY <2>1, <2>2, <2>3
<1>15. Telling' BY <1>13, <1>14 DEF Telling
<1>16. Matched'
  <2>1. SUFFICES ASSUME NEW f \in Events, pairedID'[f] # 0
                 PROVE  /\ pairedID'[f] \in 1 .. made'
                        /\ kind'[f] = "request" =>
                             /\ kind'[pairedID'[f]] = "response"
                             /\ pairedID'[pairedID'[f]] = f
                        /\ kind'[f] # "request" =>
                             /\ kind'[f] = "response" /\ kind'[pairedID'[f]] = "request"
                             /\ \/ pairedID'[pairedID'[f]] = f
                                \/ \E d \in Conns : /\ pc'[d] = "pair"
                                                    /\ current'[d] = f
                                                    /\ partner'[d] = pairedID'[f]
    BY DEF Matched, Events
  <2>2. CASE f = e BY <1>3, <1>6, <1>7, <1>8, <2>2
  <2>3. CASE f # e
    <3>1. /\ pairedID'[f] = pairedID[f] /\ pairedID[f] # 0 /\ pairedID[f] # e
          /\ kind'[f] = kind[f]
      BY <1>3, <1>7, <1>9, <2>1, <2>3
    <3>2. /\ pairedID[f] \in 1 .. made /\ pairedID[f] \in Events
          /\ kind'[pairedID[f]] = kind[pairedID[f]]
          /\ pairedID'[pairedID[f]] = pairedID[pairedID[f]]
      BY <1>3, <1>5, <1>7, <3>1 DEF MatchInv, Matched
    <3>3. CASE kind[f] = "request"
      <4>1. kind[pairedID[f]] = "response" /\ pairedID[pairedID[f]] = f
        BY <3>1, <3>3 DEF MatchInv, Matched
      <4>2. QED BY <1>3, <3>1, <3>2, <3>3, <4>1
    <3>4. CASE kind[f] # "request" /\ pairedID[pairedID[f]] = f
      <4>1. kind[f] = "response" /\ kind[pairedID[f]] = "request"
        BY <3>1, <3>4 DEF MatchInv, Matched
      <4>2. QED BY <1>3, <3>1, <3>2, <3>4, <4>1
    <3>5. CASE kind[f] # "request" /\ pairedID[pairedID[f]] # f
      <4>1. /\ kind[f] = "response" /\ kind[pairedID[f]] = "request"
            /\ \E d \in Conns :
                 pc[d] = "pair" /\ current[d] = f /\ partner[d] = pairedID[f]
        BY <3>1, <3>5 DEF MatchInv, Matched
      <4>2. PICK d \in Conns :
              pc[d] = "pair" /\ current[d] = f /\ partner[d] = pairedID[f]
        BY <4>1
      <4>3. d # c BY <1>3, <4>2
      <4>4. pc'[d] = "pair" /\ current'[d] = f /\ partner'[d] = pairedID[f]
        BY <1>3, <1>7, <4>2, <4>3
      <4>5. QED BY <1>3, <3>1, <3>2, <3>5, <4>1, <4>4
    <3>6. QED BY <3>3, <3>4, <3>5
  <2>4. QED BY <2>2, <2>3
<1>17. QED BY <1>2, <1>10, <1>11, <1>15, <1>16

(* No step breaks the matching.                                              *)
LEMMA MatchStep ==
  ASSUME MatchInv, [Next]_vars
  PROVE  MatchInv'
<1>1. TypeOK' BY TypeStep DEF MatchInv
<1>2. SUFFICES Fresh' /\ InHands' /\ InFlight' /\ Telling' /\ Matched'
  BY <1>1 DEF MatchInv
<1>3. ASSUME NEW c \in Conns, NEW x \in Calls, NEW e \in Events, Enrich(c, x, e)
      PROVE  Fresh' /\ InHands' /\ InFlight' /\ Telling' /\ Matched'
  <2>1. CASE EnrichRequest(c, x, e) BY <2>1, RequestMatch
  <2>2. CASE EnrichResponse(c, x, e) /\ Key(c, x[3]) \in DOMAIN inFlight
    BY <2>2, ResponseMatch
  <2>3. CASE EnrichResponse(c, x, e) /\ Key(c, x[3]) \notin DOMAIN inFlight
    <3>1. /\ NewEvent(c, x, e, "response") /\ UNCHANGED <<pairedID, partner>>
          /\ pc' = [pc EXCEPT ![c] = "enqueue"]
          /\ inFlight' = Without(inFlight, Key(c, x[3]))
      BY <2>3 DEF EnrichResponse
    <3>2. inFlight' = inFlight
      <4>1. PICK D \in SUBSET Keys : inFlight \in [D -> Events]
        BY DEF MatchInv, TypeOK, PartialFunctions
      <4>2. DOMAIN inFlight \ {Key(c, x[3])} = DOMAIN inFlight BY <2>3
      <4>3. QED BY <3>1, <4>1, <4>2 DEF Without
    <3>3. QED BY <3>1, <3>2, UnansweredMatch
  <2>4. CASE EnrichError(c, x, e)
    <3>1. /\ NewEvent(c, x, e, "error") /\ UNCHANGED <<pairedID, partner, inFlight>>
          /\ pc' = [pc EXCEPT ![c] = "enqueue"]
      BY <2>4 DEF EnrichError
    <3>2. QED BY <3>1, UnansweredMatch
  <2>5. QED BY <1>3, <2>1, <2>2, <2>3, <2>4 DEF Enrich
<1>4. ASSUME NEW c \in Conns, PairRequest(c)
      PROVE  Fresh' /\ InHands' /\ InFlight' /\ Telling' /\ Matched'
  BY <1>4, PairMatch
<1>5. ASSUME NEW c \in Conns, Enqueue(c)
      PROVE  Fresh' /\ InHands' /\ InFlight' /\ Telling' /\ Matched'
  <2>1. \A d \in Conns : pc'[d] = pc[d] \/ (pc[d] = "enqueue" /\ pc'[d] = "scan")
    BY <1>5 DEF Enqueue, MatchInv, TypeOK
  <2>2. UNCHANGED <<made, kind, pairedID, inFlight, current, partner>>
    BY <1>5 DEF Enqueue, heapVars
  <2>3. QED BY <2>1, <2>2, MatchFrame
<1>6. ASSUME (\E x \in Calls : LoseReport(x)) \/ StoreEvent \/ UNCHANGED vars
      PROVE  Fresh' /\ InHands' /\ InFlight' /\ Telling' /\ Matched'
  <2>1. UNCHANGED <<made, kind, pairedID, inFlight, current, partner, pc>>
    BY <1>6 DEF LoseReport, StoreEvent, vars, heapVars, procVars
  <2>2. QED BY <2>1, MatchFrame
<1>7. QED BY <1>3, <1>4, <1>5, <1>6 DEF Next

(* Before anything happens.                                                  *)
LEMMA MatchInit ==
  ASSUME Init
  PROVE  MatchInv
<1> USE PairingAssumption
<1>1. TypeOK
  <2>1. inFlight \in PartialFunctions(Keys, Events)
    <3>1. inFlight \in [{} -> Events] BY DEF Init
    <3>2. {} \in SUBSET Keys OBVIOUS
    <3>3. QED BY <3>1, <3>2 DEF PartialFunctions
  <2>2. waiting \in Seq(Events) /\ Len(waiting) <= ChanCap + BatchSize
    BY DEF Init
  <2>3. stored \in [Events -> 0 .. NotStored] BY DEF Init, NotStored
  <2>4. /\ kind \in [Events -> {"none", "request", "response", "error"}]
        /\ pairedID \in [Events -> 0 .. MaxEvents]
        /\ call \in [Events -> Calls \cup {NoCall}]
    BY DEF Init
  <2>5. /\ pc \in [Conns -> {"scan", "pair", "enqueue"}]
        /\ current \in [Conns -> 0 .. MaxEvents] /\ partner \in [Conns -> 0 .. MaxEvents]
    BY DEF Init
  <2>6. serverName \in [Conns -> Names] /\ open \subseteq Calls BY DEF Init
  <2>7. lost \in 0 .. MaxLost /\ made \in 0 .. MaxEvents BY DEF Init
  <2>8. crashed \in BOOLEAN BY DEF Init
  <2>9. QED BY <2>1, <2>2, <2>3, <2>4, <2>5, <2>6, <2>7, <2>8 DEF TypeOK
<1>2. Fresh /\ Matched BY DEF Init, Fresh, Matched
<1>3. InHands /\ Telling BY DEF Init, InHands, Telling
<1>4. InFlight
  <2>1. DOMAIN inFlight = {} BY DEF Init
  <2>2. QED BY <2>1 DEF InFlight
<1>5. QED BY <1>1, <1>2, <1>3, <1>4 DEF MatchInv

-----------------------------------------------------------------------------
(* What is queued and what is stored.                                       *)

(* Whom a connection tells of a response, after a step of Enrich.           *)
LEMMA EnrichFrame ==
  ASSUME MatchInv, NEW c \in Conns, NEW x \in Calls, NEW e \in Events, Enrich(c, x, e)
  PROVE  /\ e \notin 1 .. made /\ 1 .. made' = (1 .. made) \cup {e}
         /\ \A f \in Events : f # e => kind'[f] = kind[f]
         /\ \A f \in Events : f # e => pairedID'[f] = pairedID[f]
         /\ pc[c] = "scan" /\ current'[c] = e
         /\ \A d \in Conns : d # c =>
              pc'[d] = pc[d] /\ partner'[d] = partner[d] /\ current'[d] = current[d]
         /\ waiting' = waiting /\ stored' = stored /\ made' = e
<1>1. \E k \in {"request", "response", "error"} : NewEvent(c, x, e, k)
  BY DEF Enrich, EnrichRequest, EnrichResponse, EnrichError
<1>2. /\ made' = e /\ e \notin 1 .. made /\ 1 .. made' = (1 .. made) \cup {e}
      /\ \A f \in Events : f # e => kind'[f] = kind[f]
      /\ pc[c] = "scan" /\ current'[c] = e
      /\ \A d \in Conns : d # c => current'[d] = current[d]
  BY <1>1, NewEventFacts DEF MatchInv
<1>3. waiting' = waiting /\ stored' = stored
  BY DEF Enrich, EnrichRequest, EnrichResponse, EnrichError
<1>4. \A d \in Conns : d # c => pc'[d] = pc[d]
  BY DEF Enrich, EnrichRequest, EnrichResponse, EnrichError, MatchInv, TypeOK
<1>5. \A d \in Conns : d # c => partner'[d] = partner[d]
  BY DEF Enrich, EnrichRequest, EnrichResponse, EnrichError, MatchInv, TypeOK
<1>6. \A f \in Events : f # e => pairedID'[f] = pairedID[f]
  BY DEF Enrich, EnrichRequest, EnrichResponse, EnrichError, MatchInv, TypeOK
<1>7. QED BY <1>2, <1>3, <1>4, <1>5, <1>6

(* What waits exists and is paired, after every step.                       *)
LEMMA QueuedStep ==
  ASSUME MatchInv, Queued, [Next]_vars
  PROVE  Queued'
<1>1. waiting \in Seq(Events) BY DEF MatchInv, TypeOK
<1>2. ASSUME NEW c \in Conns, NEW x \in Calls, NEW e \in Events, Enrich(c, x, e)
      PROVE  Queued'
  <2>1. ASSUME NEW i \in DOMAIN waiting
        PROVE  waiting[i] \in 1 .. made' /\ waiting[i] # e
    BY <1>2, EnrichFrame DEF Queued
  <2>2. ASSUME NEW i \in DOMAIN waiting, NEW d \in Conns, pc'[d] = "pair"
        PROVE  current'[d] # waiting[i]
    <3>1. CASE d = c BY <1>2, <2>1, <3>1, EnrichFrame
    <3>2. CASE d # c BY <1>2, <2>2, <3>2, EnrichFrame DEF Queued
    <3>3. QED BY <3>1, <3>2
  <2>3. waiting' = waiting BY <1>2, EnrichFrame
  <2>4. QED BY <2>1, <2>2, <2>3 DEF Queued
<1>3. ASSUME NEW c \in Conns, PairRequest(c)
      PROVE  Queued'
  <2>1. \A d \in Conns : pc'[d] = "pair" => pc[d] = "pair"
    BY <1>3 DEF PairRequest, MatchInv, TypeOK
  <2>2. UNCHANGED <<made, current, waiting>> BY <1>3 DEF PairRequest
  <2>3. QED BY <2>1, <2>2 DEF Queued
<1>4. ASSUME NEW c \in Conns, Enqueue(c)
      PROVE  Queued'
  <2>1. /\ pc[c] = "enqueue" /\ \A d \in Conns : pc'[d] = "pair" => pc[d] = "pair"
        /\ UNCHANGED <<made, current>>
    BY <1>4 DEF Enqueue, heapVars, MatchInv, TypeOK
  <2>2. CASE waiting' = waiting BY <2>1, <2>2 DEF Queued
  <2>3. CASE waiting' = Append(waiting, current[c])
    <3>1. current[c] \in 1 .. made BY <2>1 DEF MatchInv, InHands
    <3>2. \A d \in Conns : pc[d] = "pair" => current[d] # current[c]
      BY <2>1 DEF MatchInv, InHands
    <3>3. ASSUME NEW i \in DOMAIN waiting'
          PROVE  \/ waiting'[i] = current[c]
                 \/ i \in DOMAIN waiting /\ waiting'[i] = waiting[i]
      BY <1>1, <2>3
    <3>4. QED BY <2>1, <3>1, <3>2, <3>3 DEF Queued
  <2>4. QED BY <1>4, <2>2, <2>3 DEF Enqueue
<1>5. ASSUME (\E x \in Calls : LoseReport(x)) \/ UNCHANGED vars
      PROVE  Queued'
  <2>1. UNCHANGED <<made, current, pc, waiting>>
    BY <1>5 DEF LoseReport, vars, heapVars, procVars
  <2>2. QED BY <2>1 DEF Queued
<1>6. CASE StoreEvent
  <2>1. waiting # <<>> /\ waiting' = Tail(waiting) /\ UNCHANGED <<made, current, pc>>
    BY <1>6 DEF StoreEvent, heapVars, procVars
  <2>2. \A i \in DOMAIN waiting' :
          i + 1 \in DOMAIN waiting /\ waiting'[i] = waiting[i + 1]
    BY <1>1, <2>1
  <2>3. QED BY <2>1, <2>2 DEF Queued
<1>7. QED BY <1>2, <1>3, <1>4, <1>5, <1>6 DEF Next

(* What a row holds, after every step.                                      *)
LEMMA RowsStep ==
  ASSUME MatchInv, Queued, Rows, [Next]_vars
  PROVE  Rows'
<1> DEFINE Told(e) == \E c \in Conns :
                        pc[c] = "pair" /\ partner[c] = e /\ current[c] = stored[e]
           RowAgrees(e) ==
             /\ e \in 1 .. made
             /\ stored[e] # 0 => stored[e] = pairedID[e] \/ Told(e)
             /\ kind[e] = "response" => stored[e] = pairedID[e]
<1>1. NotStored' = NotStored /\ Events' = Events BY DEF NotStored, Events
<1>2. ASSUME NEW c \in Conns, NEW x \in Calls, NEW e \in Events, Enrich(c, x, e)
      PROVE  Rows'
  <2>1. SUFFICES ASSUME NEW f \in Events, stored[f] # NotStored
                 PROVE  RowAgrees(f)'
    BY <1>1, <1>2, EnrichFrame DEF Rows
  <2>2. /\ f \in 1 .. made /\ f # e /\ f \in 1 .. made'
        /\ kind'[f] = kind[f] /\ pairedID'[f] = pairedID[f] /\ stored'[f] = stored[f]
    BY <1>2, <2>1, EnrichFrame DEF Rows
  <2>3. Told(f) => Told(f)'
    <3>1. ASSUME NEW d \in Conns, pc[d] = "pair", partner[d] = f, current[d] = stored[f]
          PROVE  pc'[d] = "pair" /\ partner'[d] = f /\ current'[d] = stored'[f]
      BY <1>2, <2>2, <3>1, EnrichFrame
    <3>2. QED BY <3>1
  <2>4. RowAgrees(f) BY <2>1 DEF Rows
  <2> HIDE DEF Told
  <2>5. QED BY <2>2, <2>3, <2>4
<1>3. ASSUME NEW c \in Conns, PairRequest(c)
      PROVE  Rows'
  <2>1. /\ pc[c] = "pair" /\ UNCHANGED <<made, kind, current, partner, stored>>
        /\ \A f \in Events : f # partner[c] => pairedID'[f] = pairedID[f]
        /\ partner[c] \in Events => pairedID'[partner[c]] = current[c]
        /\ \A d \in Conns : d # c => pc'[d] = pc[d]
    BY <1>3 DEF PairRequest, MatchInv, TypeOK
  <2>2. SUFFICES ASSUME NEW f \in Events, stored[f] # NotStored
                 PROVE  RowAgrees(f)'
    BY <1>1, <2>1 DEF Rows
  <2>3. RowAgrees(f) BY <2>2 DEF Rows
  <2>4. CASE f = partner[c]
    <3>1. kind[f] = "request" /\ pairedID[f] = 0 BY <2>1, <2>4 DEF MatchInv, Telling
    <3>2. stored[f] # 0 => stored[f] = current[c]
      <4>1. ASSUME stored[f] # 0, NEW d \in Conns, pc[d] = "pair", partner[d] = f,
                   current[d] = stored[f]
            PROVE  d = c
        BY <2>1, <2>4, <4>1 DEF MatchInv, Telling
      <4>2. QED BY <2>3, <3>1, <4>1
    <3>3. pairedID'[f] = current[c] BY <2>1, <2>4
    <3>4. QED BY <2>1, <2>3, <3>1, <3>2, <3>3
  <2>5. CASE f # partner[c]
    <3>1. Told(f) => Told(f)'
      <4>1. ASSUME NEW d \in Conns, pc[d] = "pair", partner[d] = f, current[d] = stored[f]
            PROVE  pc'[d] = "pair" /\ partner'[d] = f /\ current'[d] = stored'[f]
        BY <2>1, <2>5, <4>1
      <4>2. QED BY <4>1
    <3>2. pairedID'[f] = pairedID[f] BY <2>1, <2>5
    <3> HIDE DEF Told
    <3>3. QED BY <2>1, <2>3, <3>1, <3>2
  <2>6. QED BY <2>4, <2>5
<1>4. ASSUME (\E c \in Conns : Enqueue(c)) \/ (\E x \in Calls : LoseReport(x))
               \/ UNCHANGED vars
      PROVE  Rows'
  <2>1. UNCHANGED <<made, kind, pairedID, current, partner, stored>>
    BY <1>4 DEF Enqueue, LoseReport, vars, heapVars, procVars
  <2>2. \A d \in Conns : pc[d] = "pair" => pc'[d] = "pair"
    BY <1>4 DEF Enqueue, LoseReport, vars, procVars, MatchInv, TypeOK
  <2>3. QED BY <1>1, <2>1, <2>2 DEF Rows
<1>5. CASE StoreEvent
  <2> DEFINE e == Head(waiting)
  <2>1. /\ waiting # <<>> /\ UNCHANGED <<made, kind, pairedID, current, partner, pc>>
        /\ \/ \E v \in {pairedID[e]} \cup {current[c] : c \in Racing(e)} :
                stored' = [stored EXCEPT ![e] = v]
           \/ stored' = stored
    BY <1>5 DEF StoreEvent, heapVars, procVars
  <2>2. e \in 1 .. made /\ e \in Events
    <3>1. waiting \in Seq(Events) BY DEF MatchInv, TypeOK
    <3>2. 1 \in DOMAIN waiting /\ e = waiting[1] BY <2>1, <3>1
    <3>3. waiting[1] \in 1 .. made BY <3>2 DEF Queued
    <3>4. QED BY <3>2, <3>3, MadeAreEvents DEF MatchInv
  <2>3. CASE stored' = stored BY <1>1, <2>1, <2>3 DEF Rows
  <2>4. ASSUME NEW v \in {pairedID[e]} \cup {current[c] : c \in Racing(e)},
               stored' = [stored EXCEPT ![e] = v]
        PROVE  Rows'
    <3>1. stored'[e] = v /\ \A f \in Events : f # e => stored'[f] = stored[f]
      BY <2>2, <2>4 DEF MatchInv, TypeOK
    <3>2. \/ v = pairedID[e]
          \/ \E c \in Conns : pc[c] = "pair" /\ partner[c] = e /\ current[c] = v
      BY <2>4 DEF Racing
    <3>3. kind[e] = "response" => v = pairedID[e]
      BY <3>2 DEF MatchInv, Telling
    <3> HIDE DEF e
    <3>4. SUFFICES ASSUME NEW f \in Events, stored'[f] # NotStored
                   PROVE  RowAgrees(f)'
      BY <1>1 DEF Rows
    <3>5. CASE f = e BY <2>1, <2>2, <3>1, <3>2, <3>3, <3>5
    <3>6. CASE f # e BY <2>1, <3>1, <3>4, <3>6 DEF Rows
    <3>7. QED BY <3>5, <3>6
  <2>5. QED BY <2>1, <2>3, <2>4
<1>6. QED BY <1>2, <1>3, <1>4, <1>5 DEF Next

-----------------------------------------------------------------------------
(* Which request a response is paired with.                                 *)

(* Calls that can be confused stay so, and a lost report stays lost.        *)
LEMMA StaysAmbiguous ==
  ASSUME MatchInv, [Next]_vars
  PROVE  /\ serverName' = serverName /\ (lost' = 0 => lost = 0)
         /\ Ambiguous => Ambiguous'
<1>1. serverName' = serverName
  BY DEF Next, Enrich, EnrichRequest, EnrichResponse, EnrichError, PairRequest, Enqueue,
         LoseReport, StoreEvent, vars, netVars
<1>2. lost' = 0 => lost = 0
  <2>1. lost \in Nat BY PairingAssumption DEF MatchInv, TypeOK
  <2>2. lost' = lost \/ lost' = lost + 1
    BY DEF Next, Enrich, EnrichRequest, EnrichResponse, EnrichError, PairRequest, Enqueue,
           LoseReport, StoreEvent, vars, netVars
  <2>3. QED BY <2>1, <2>2
<1>3. 1 .. made \subseteq 1 .. made' /\ \A e \in 1 .. made : call'[e] = call[e]
  <2>1. ASSUME NEW c \in Conns, NEW x \in Calls, NEW e \in Events, Enrich(c, x, e)
        PROVE  1 .. made \subseteq 1 .. made' /\ \A f \in 1 .. made : call'[f] = call[f]
    <3>1. PICK k \in {"request", "response", "error"} : NewEvent(c, x, e, k)
      BY <2>1 DEF Enrich, EnrichRequest, EnrichResponse, EnrichError
    <3>2. /\ e \notin 1 .. made /\ 1 .. made' = (1 .. made) \cup {e}
          /\ \A f \in Events : f # e => call'[f] = call[f]
      BY <3>1, NewEventFacts DEF MatchInv
    <3>3. 1 .. made \subseteq Events BY MadeAreEvents DEF MatchInv
    <3>4. QED BY <3>2, <3>3
  <2>2. ASSUME \/ \E c \in Conns : PairRequest(c) \/ Enqueue(c)
               \/ (\E x \in Calls : LoseReport(x)) \/ StoreEvent \/ UNCHANGED vars
        PROVE  made' = made /\ call' = call
    BY <2>2 DEF PairRequest, Enqueue, LoseReport, StoreEvent, vars, heapVars
  <2>3. QED BY <2>1, <2>2 DEF Next
<1>4. Ambiguous => Ambiguous' BY <1>1, <1>3 DEF Ambiguous
<1>5. QED BY <1>1, <1>2, <1>4

(* A new event changes nothing about the responses before it.               *)
LEMMA OlderResponses ==
  ASSUME MatchInv, PairedWithItsRequest,
         NEW c \in Conns, NEW x \in Calls, NEW e \in Events, Enrich(c, x, e),
         NEW f \in Events, f # e, kind'[f] = "response", pairedID'[f] # 0
  PROVE  IsRequestOf(pairedID[f], f)'
<1>1. PICK k \in {"request", "response", "error"} : NewEvent(c, x, e, k)
  BY DEF Enrich, EnrichRequest, EnrichResponse, EnrichError
<1>2. /\ e = made + 1 /\ made \in Nat
      /\ \A g \in Events : g # e => call'[g] = call[g] /\ kind'[g] = kind[g]
  BY <1>1, NewEventFacts DEF MatchInv
<1>3. pairedID'[f] = pairedID[f] BY EnrichFrame
<1>4. IsRequestOf(pairedID[f], f) BY <1>2, <1>3 DEF PairedWithItsRequest, Paired
<1>5. f \in 1 .. made BY <1>2 DEF MatchInv, Fresh
<1>6. \A g \in 1 .. f - 1 : g \in Events /\ g # e
  BY <1>2, <1>5, MadeAreEvents DEF MatchInv, Events
<1>7. call'[f] = call[f] BY <1>2
<1>8. {g \in 1 .. f - 1 : kind'[g] = "request" /\ call'[g] = call'[f]}
        = {g \in 1 .. f - 1 : kind[g] = "request" /\ call[g] = call[f]}
  BY <1>2, <1>6, <1>7
<1>9. QED BY <1>3, <1>4, <1>8 DEF IsRequestOf

(* The request of a call is the one that Enrich finds.                      *)
LEMMA RequestOwn ==
  ASSUME MatchInv, LatestInFlight, ~Ambiguous',
         NEW c \in Conns, NEW x \in Calls, NEW e \in Events, EnrichRequest(c, x, e)
  PROVE  LatestInFlight'
<1>1. /\ e = made + 1 /\ made \in Nat /\ e \notin 1 .. made
      /\ 1 .. made' = (1 .. made) \cup {e} /\ call'[e] = x /\ kind'[e] = "request"
      /\ \A g \in Events : g # e => call'[g] = call[g] /\ kind'[g] = kind[g]
      /\ x[1] = c
  BY NewEventFacts DEF MatchInv, EnrichRequest
<1>2. /\ DOMAIN inFlight' = DOMAIN inFlight \cup {Key(c, x[3])}
      /\ inFlight'[Key(c, x[3])] = e
      /\ \A k \in DOMAIN inFlight : k # Key(c, x[3]) => inFlight'[k] = inFlight[k]
  BY DEF EnrichRequest, With
<1>3. serverName' = serverName /\ open' = open \cup {x} BY DEF EnrichRequest
<1>4. SUFFICES ASSUME NEW y \in open'
               PROVE  LET key == Key(y[1], y[3]) IN
                        /\ key \in DOMAIN inFlight'
                        /\ call'[inFlight'[key]] = y
                        /\ \A g \in Events : kind'[g] = "request" /\ call'[g] = y
                                               => g <= inFlight'[key]
  BY <1>3 DEF LatestInFlight, Key, Events
<1>5. CASE y = x
  <2>1. \A g \in Events : kind'[g] = "request" => g <= e
    <3>1. \A g \in Events : g \notin 1 .. made /\ g # e => kind'[g] = "none"
      BY <1>1 DEF MatchInv, Fresh
    <3>2. QED BY <1>1, <3>1 DEF Events
  <2>2. QED BY <1>1, <1>2, <1>5, <2>1
<1>6. CASE y # x
  <2> DEFINE key == Key(y[1], y[3])
  <2>1. /\ key \in DOMAIN inFlight /\ call[inFlight[key]] = y
        /\ \A g \in Events : kind[g] = "request" /\ call[g] = y => g <= inFlight[key]
    BY <1>3, <1>6 DEF LatestInFlight
  <2>2. inFlight[key] \in 1 .. made /\ inFlight[key] \in Events
    BY <2>1, MadeAreEvents DEF MatchInv, InFlight
  <2>3. key # Key(c, x[3])
    <3>1. SUFFICES ASSUME key = Key(c, x[3]) PROVE FALSE OBVIOUS
    <3>2. y[3] = x[3] /\ serverName[y[1]] = serverName[x[1]]
      BY <1>1, <3>1 DEF Key
    <3>3. call'[inFlight[key]] = y BY <1>1, <2>1, <2>2
    <3>4. inFlight[key] \in 1 .. made' /\ e \in 1 .. made' BY <1>1, <2>2
    <3> HIDE DEF key
    <3>5. Ambiguous' BY <1>1, <1>3, <1>6, <3>2, <3>3, <3>4 DEF Ambiguous
    <3>6. QED BY <3>5
  <2>4. key \in DOMAIN inFlight' /\ inFlight'[key] = inFlight[key]
    BY <1>2, <2>1, <2>3
  <2>5. call'[inFlight[key]] = y BY <1>1, <2>1, <2>2
  <2>6. \A g \in Events : kind'[g] = "request" /\ call'[g] = y => g <= inFlight[key]
    BY <1>1, <1>6, <2>1
  <2>7. QED BY <2>4, <2>5, <2>6
<1>7. QED BY <1>5, <1>6

(* A response takes the request of its own call and leaves the others.      *)
LEMMA ResponseOwn ==
  ASSUME MatchInv, LatestInFlight, PairedWithItsRequest,
         NEW c \in Conns, NEW x \in Calls, NEW e \in Events,
         EnrichResponse(c, x, e) \/ EnrichError(c, x, e)
  PROVE  /\ LatestInFlight'
         /\ kind'[e] = "response" /\ pairedID'[e] # 0 => IsRequestOf(pairedID[e], e)'
<1> DEFINE k0 == Key(c, x[3])
<1>1. PICK k \in {"response", "error"} :
        NewEvent(c, x, e, k) /\ (k = "response" => EnrichResponse(c, x, e))
                             /\ (k = "error" => EnrichError(c, x, e))
  BY DEF EnrichResponse, EnrichError
<1>2. k \in {"request", "response", "error"} BY <1>1
<1>3. /\ e = made + 1 /\ made \in Nat /\ e \notin 1 .. made
      /\ call'[e] = x /\ kind'[e] = k
      /\ \A g \in Events : g # e => call'[g] = call[g] /\ kind'[g] = kind[g]
      /\ x[1] = c
  BY <1>1, <1>2, NewEventFacts DEF MatchInv
<1>4. /\ serverName' = serverName /\ x \in open /\ open' = open \ {x}
      /\ \A l \in DOMAIN inFlight :
           l # k0 => l \in DOMAIN inFlight' /\ inFlight'[l] = inFlight[l]
  BY DEF EnrichResponse, EnrichError, Without
<1>5. /\ k0 \in DOMAIN inFlight /\ call[inFlight[k0]] = x
      /\ \A g \in Events : kind[g] = "request" /\ call[g] = x => g <= inFlight[k0]
  BY <1>3, <1>4 DEF LatestInFlight
<1>6. /\ \A l \in DOMAIN inFlight : inFlight[l] \in 1 .. made /\ inFlight[l] \in Events
      /\ kind[inFlight[k0]] = "request"
  BY <1>5, MadeAreEvents DEF MatchInv, InFlight
<1>7. LatestInFlight'
  <2>1. SUFFICES ASSUME NEW y \in open'
                 PROVE  LET key == Key(y[1], y[3]) IN
                          /\ key \in DOMAIN inFlight'
                          /\ call'[inFlight'[key]] = y
                          /\ \A g \in Events : kind'[g] = "request" /\ call'[g] = y
                                                 => g <= inFlight'[key]
    BY <1>4 DEF LatestInFlight, Key, Events
  <2> DEFINE key == Key(y[1], y[3])
  <2>2. /\ key \in DOMAIN inFlight /\ call[inFlight[key]] = y
        /\ \A g \in Events : kind[g] = "request" /\ call[g] = y => g <= inFlight[key]
    BY <1>4, <2>1 DEF LatestInFlight
  <2>3. y # x BY <1>4, <2>1
  <2> HIDE DEF key, k0
  <2>4. key # k0 BY <1>5, <2>2, <2>3
  <2>5. key \in DOMAIN inFlight' /\ inFlight'[key] = inFlight[key] BY <1>4, <2>2, <2>4
  <2>6. call'[inFlight[key]] = y BY <1>3, <1>6, <2>2
  <2>7. \A g \in Events : kind'[g] = "request" /\ call'[g] = y => g <= inFlight[key]
    BY <1>1, <1>3, <2>2
  <2>8. QED BY <2>5, <2>6, <2>7 DEF key
<1>8. ASSUME kind'[e] = "response", pairedID'[e] # 0
      PROVE  IsRequestOf(pairedID[e], e)'
  <2>1. EnrichResponse(c, x, e) BY <1>1, <1>3, <1>8
  <2>2. pairedID'[e] = inFlight[k0]
    BY <1>5, <2>1 DEF EnrichResponse, MatchInv, TypeOK
  <2> DEFINE r == inFlight[k0]
  <2> HIDE DEF k0
  <2>3. /\ r \in 1 .. e - 1 /\ r \in Events /\ kind[r] = "request" /\ call[r] = x
    BY <1>3, <1>5, <1>6
  <2>4. kind'[r] = "request" /\ call'[r] = x BY <1>3, <1>6, <2>3
  <2>5. \A g \in 1 .. e - 1 : kind'[g] = "request" /\ call'[g] = x => g <= r
    <3>1. 1 .. e - 1 \subseteq Events /\ e \notin 1 .. e - 1
      BY <1>3, MadeAreEvents DEF MatchInv
    <3>2. QED BY <1>3, <1>5, <3>1
  <2>6. QED BY <1>3, <2>2, <2>3, <2>4, <2>5 DEF IsRequestOf
<1>9. QED BY <1>7, <1>8

(* No step pairs a response with a foreign request.                         *)
LEMMA OwnRequestStep ==
  ASSUME MatchInv, OwnRequest, [Next]_vars
  PROVE  OwnRequest'
<1>1. SUFFICES ASSUME lost' = 0, ~Ambiguous'
               PROVE  LatestInFlight' /\ PairedWithItsRequest'
  BY DEF OwnRequest
<1>2. LatestInFlight /\ PairedWithItsRequest
  BY <1>1, StaysAmbiguous DEF OwnRequest
<1>3. ASSUME NEW c \in Conns, NEW x \in Calls, NEW e \in Events, Enrich(c, x, e)
      PROVE  LatestInFlight' /\ PairedWithItsRequest'
  <2>1. \A f \in Events : f # e /\ kind'[f] = "response" /\ pairedID'[f] # 0
                            => IsRequestOf(pairedID[f], f)'
    BY <1>2, <1>3, OlderResponses
  <2>2. CASE EnrichRequest(c, x, e)
    <3>1. LatestInFlight' BY <1>1, <1>2, <2>2, RequestOwn
    <3>2. kind'[e] = "request" BY <2>2, NewEventFacts DEF EnrichRequest, MatchInv
    <3>3. PairedWithItsRequest'
      BY <2>1, <3>2 DEF PairedWithItsRequest, Paired, Events
    <3>4. QED BY <3>1, <3>3
  <2>3. CASE EnrichResponse(c, x, e) \/ EnrichError(c, x, e)
    <3>1. /\ LatestInFlight'
          /\ kind'[e] = "response" /\ pairedID'[e] # 0 => IsRequestOf(pairedID[e], e)'
      BY <1>2, <2>3, ResponseOwn
    <3>2. PairedWithItsRequest'
      BY <2>1, <3>1 DEF PairedWithItsRequest, Paired, Events
    <3>3. QED BY <3>1, <3>2
  <2>4. QED BY <1>3, <2>2, <2>3 DEF Enrich
<1>4. ASSUME NEW c \in Conns, PairRequest(c)
      PROVE  LatestInFlight' /\ PairedWithItsRequest'
  <2>1. UNCHANGED <<made, kind, call, inFlight, open, serverName>>
    BY <1>4 DEF PairRequest, netVars
  <2>2. \A f \in Events : kind[f] = "response" => pairedID'[f] = pairedID[f]
    <3>1. kind[partner[c]] = "request" BY <1>4 DEF PairRequest, MatchInv, Telling
    <3>2. QED BY <1>4, <3>1 DEF PairRequest, MatchInv, TypeOK
  <2>3. LatestInFlight' BY <1>2, <2>1 DEF LatestInFlight, Key, Events
  <2>4. PairedWithItsRequest'
    BY <1>2, <2>1, <2>2 DEF PairedWithItsRequest, Paired, IsRequestOf, Events
  <2>5. QED BY <2>3, <2>4
<1>5. ASSUME (\E c \in Conns : Enqueue(c)) \/ StoreEvent \/ UNCHANGED vars
      PROVE  LatestInFlight' /\ PairedWithItsRequest'
  <2>1. UNCHANGED <<kind, call, pairedID, inFlight, open, serverName>>
    BY <1>5 DEF Enqueue, StoreEvent, vars, heapVars, netVars
  <2>2. LatestInFlight' BY <1>2, <2>1 DEF LatestInFlight, Key, Events
  <2>3. PairedWithItsRequest'
    BY <1>2, <2>1 DEF PairedWithItsRequest, Paired, IsRequestOf, Events
  <2>4. QED BY <2>2, <2>3
<1>6. ASSUME NEW x \in Calls, LoseReport(x)
      PROVE  FALSE
  <2>1. lost \in Nat BY PairingAssumption DEF MatchInv, TypeOK
  <2>2. QED BY <1>1, <1>6, <2>1 DEF LoseReport
<1>7. QED BY <1>3, <1>4, <1>5, <1>6 DEF Next

-----------------------------------------------------------------------------
(* The theorems.                                                            *)

(* The matching and its strengthening hold always.                          *)
THEOREM MatchingAlways == Spec => []MatchInv
<1>1. Init => MatchInv BY MatchInit
<1>2. MatchInv /\ [Next]_vars => MatchInv' BY MatchStep
<1>3. QED BY <1>1, <1>2, PTL DEF Spec

(* Every variable of the pairing keeps its type: what Enrich stores under a  *)
(* key is an event, and the writer never holds more than channel and batch.  *)
THEOREM PairingTypeCorrect == Spec => []TypeOK
<1>1. MatchInv => TypeOK BY DEF MatchInv
<1>2. QED BY <1>1, MatchingAlways, PTL

(* A request has at most one response and points back to it, whatever names  *)
(* and ids collide and whatever is lost (enricher.go, LoadAndDelete).        *)
THEOREM PairingMatching == Spec => []PairingIsMatching
<1>1. MatchInv => PairingIsMatching
  <2>1. SUFFICES ASSUME MatchInv, NEW e \in Events, pairedID[e] # 0, Settled(e)
                 PROVE  /\ pairedID[pairedID[e]] = e
                        /\ {kind[e], kind[pairedID[e]]} = {"request", "response"}
    BY DEF PairingIsMatching, Paired
  <2>2. CASE kind[e] = "request" BY <2>1, <2>2 DEF MatchInv, Matched
  <2>3. CASE kind[e] # "request" BY <2>1, <2>3 DEF MatchInv, Matched, Settled
  <2>4. QED BY <2>2, <2>3
<1>2. QED BY <1>1, MatchingAlways, PTL

(* No step of the daemon sets a PairedID that is set (enricher.go writes     *)
(* reqEvent.PairedID only of the request it took out of flight).            *)
THEOREM PairedOnceAlways == Spec => PairedOnce
<1>1. ASSUME MatchInv, [Next]_vars
      PROVE  \A e \in Events : Paired(e) => pairedID'[e] = pairedID[e]
  <2>1. SUFFICES ASSUME NEW f \in Events, pairedID[f] # 0
                 PROVE  pairedID'[f] = pairedID[f]
    BY DEF Paired
  <2>2. ASSUME NEW c \in Conns, NEW x \in Calls, NEW e \in Events, Enrich(c, x, e)
        PROVE  pairedID'[f] = pairedID[f]
    <3>1. f # e BY <1>1, <2>1, <2>2, EnrichFrame DEF MatchInv, Fresh
    <3>2. QED BY <1>1, <2>2, <3>1, EnrichFrame
  <2>3. ASSUME NEW c \in Conns, PairRequest(c)
        PROVE  pairedID'[f] = pairedID[f]
    <3>1. f # partner[c] BY <1>1, <2>1, <2>3 DEF PairRequest, MatchInv, Telling
    <3>2. QED BY <1>1, <2>3, <3>1 DEF PairRequest, MatchInv, TypeOK
  <2>4. ASSUME \/ \E c \in Conns : Enqueue(c)
               \/ (\E x \in Calls : LoseReport(x)) \/ StoreEvent \/ UNCHANGED vars
        PROVE  pairedID'[f] = pairedID[f]
    BY <2>4 DEF Enqueue, LoseReport, StoreEvent, vars, heapVars
  <2>5. QED BY <1>1, <2>2, <2>3, <2>4 DEF Next
<1>2. QED BY <1>1, MatchingAlways, PTL DEF Spec, PairedOnce

(* A row of the database holds no pairing or the pairing itself, a           *)
(* response's row always holds it (writer goroutine, Enrich before the send).*)
THEOREM RowsAgreeAlways == Spec => []RowsAgree
<1>1. Init => MatchInv /\ Queued /\ Rows
  <2>1. Init => MatchInv BY MatchInit
  <2>2. Init => Queued BY DEF Init, Queued
  <2>3. Init => Rows BY DEF Init, Rows
  <2>4. QED BY <2>1, <2>2, <2>3
<1>2. MatchInv /\ Queued /\ Rows /\ [Next]_vars => (MatchInv /\ Queued /\ Rows)'
  BY MatchStep, QueuedStep, RowsStep
<1>3. MatchInv /\ Rows => RowsAgree BY DEF Rows, RowsAgree, Settled
<1>4. QED BY <1>1, <1>2, <1>3, PTL DEF Spec

(* If no report is lost and no two calls share a server name and an id, a    *)
(* response is paired with the latest request of its own call: Enrich's map  *)
(* holds exactly that request, after errors and reused ids too.             *)
THEOREM PairedUnlessAmbiguousAlways == Spec => []PairedUnlessAmbiguous
<1>1. Init => OwnRequest
  <2>1. Init => LatestInFlight BY DEF Init, LatestInFlight
  <2>2. Init => PairedWithItsRequest BY DEF Init, PairedWithItsRequest
  <2>3. QED BY <2>1, <2>2 DEF OwnRequest
<1>2. MatchInv /\ OwnRequest /\ [Next]_vars => OwnRequest' BY OwnRequestStep
<1>3. OwnRequest => PairedUnlessAmbiguous BY DEF OwnRequest, PairedUnlessAmbiguous
<1>4. QED BY <1>1, <1>2, <1>3, MatchingAlways, PTL DEF Spec

-----------------------------------------------------------------------------
(* The codec: the shapes an event takes on its way, and what becomes of its  *)
(* fields.                                                                  *)

Errors(S) == [code : Int, data : S]
Some == Values \cup {Absent}
MessageTypes == {"request", "response", "notification", "error", Empty}

Parsed ==
  [type : MessageTypes, method : {Empty, "tools/call", "other"}, pairedId : EventIds \cup {Empty},
   messageId : {Absent, "id"}, params : Some, result : Some,
   error : {Absent} \cup Errors(Some), toolName : {Empty, "tool"}, toolArgs : {Absent, "strings"}]

Sent ==
  [type : MessageTypes, method : {Empty, "tools/call", "other"},
   pairedId : EventIds \cup {Empty, Absent}, messageId : {Absent, Null, "id"},
   params : Some, result : Some, error : {Absent, Null} \cup Errors(Values),
   toolName : {Absent, "tool"}, toolArgs : {Absent, "strings"}]

(* Of any type, even one that parseBackendMCPEvent would not read.           *)
Received ==
  [type : MessageTypes, method : {Empty, "tools/call", "other"},
   pairedId : EventIds \cup {Empty, Null}, messageId : {Null, "id"},
   params : Values, result : Values, error : {Null} \cup Errors(Values),
   toolName : {Null, "tool"}, toolArgs : Values]

LEMMA Nothings ==
  /\ Absent # Null /\ Null \in Values /\ "strings" \in Values
  /\ \A S \in SUBSET Some : Absent \notin Errors(S) /\ Null \notin Errors(S)
  /\ \A x \in Some : OrNull(x) \in Values
  /\ OrNull(Absent) = Null /\ OrNull(Null) = Null
<1>1. Absent \notin Errors(Some) /\ Null \notin Errors(Some)
  BY CodecAssumption DEF Errors, Some
<1>2. \A S \in SUBSET Some : Errors(S) \subseteq Errors(Some) BY DEF Errors
<1>3. QED BY <1>1, <1>2, CodecAssumption DEF Values, OrNull, Some

(* Parse.                                                                    *)
LEMMA ParsedEvent ==
  ASSUME NEW f \in Frames, NEW link \in EventIds \cup {Empty}
  PROVE  Event(f, link) \in Parsed
<1>1. /\ f.method \in {Empty, "tools/call", "other"} /\ f.id \in {Absent, Null, "id"}
      /\ f.params \in Some /\ f.result \in Some
      /\ f.error \in {Absent, Null} \cup Errors(Some)
  BY DEF Frames, Errors, Some
<1>2. MessageType(f) \in MessageTypes BY DEF MessageType, MessageTypes
<1>3. MessageId(f) \in {Absent, "id"} BY <1>1 DEF MessageId
<1>4. (IF f.error = Null THEN [code |-> 0, data |-> Absent] ELSE f.error)
        \in {Absent} \cup Errors(Some)
  <2>1. ASSUME NEW c \in Int PROVE [code |-> c, data |-> Absent] \in Errors(Some)
    BY DEF Errors, Some
  <2> DEFINE z == [code |-> 0, data |-> Absent]
  <2>2. 0 \in Int OBVIOUS
  <2>3. z \in Errors(Some) BY <2>1, <2>2, Zenon
  <2> HIDE DEF z
  <2>4. (IF f.error = Null THEN z ELSE f.error) \in {Absent} \cup Errors(Some)
    BY <1>1, <2>3
  <2>5. QED BY <2>4 DEF z
<1>5. QED BY <1>1, <1>2, <1>3, <1>4 DEF Event, Parsed

(* The row of an event, and its fields.                                      *)
LEMMA RowOf ==
  ASSUME NEW e \in Parsed
  PROVE  /\ Row(e) \in Parsed
         /\ Row(e).type = e.type /\ Row(e).pairedId = e.pairedId
         /\ Row(e).params = e.params /\ Row(e).result = e.result
         /\ Row(e).error = IF e.error = Absent THEN Absent ELSE [e.error EXCEPT !.data = Absent]
         /\ Row(e).toolArgs = Absent
<1>1. e.error # Absent => [e.error EXCEPT !.data = Absent] \in Errors(Some)
  <2>1. e.error \in {Absent} \cup Errors(Some) BY DEF Parsed
  <2>2. QED BY <2>1 DEF Errors, Some
<1>2. Row(e) \in Parsed BY <1>1 DEF Row, Parsed
<1>3. QED BY <1>2 DEF Row, Parsed

LEMMA ErrorJsonOf ==
  ASSUME NEW x \in {Absent} \cup Errors(Some)
  PROVE  /\ ErrorJson(x) \in {Absent} \cup Errors(Values)
         /\ x = Absent => ErrorJson(x) = Absent
         /\ x # Absent => /\ ErrorJson(x) \in Errors(Values)
                          /\ ErrorJson(x).code = x.code
                          /\ ErrorJson(x).data = OrNull(x.data)
<1>1. CASE x = Absent BY <1>1 DEF ErrorJson
<1>2. CASE x # Absent
  <2>1. x \in Errors(Some) /\ x.data \in Some BY <1>2 DEF Errors
  <2>2. OrNull(x.data) \in Values BY <2>1, Nothings
  <2>3. ErrorJson(x) = [x EXCEPT !.data = OrNull(x.data)] BY <1>2 DEF ErrorJson
  <2>4. QED BY <1>2, <2>1, <2>2, <2>3 DEF Errors
<1>3. QED BY <1>1, <1>2

LEMMA EventJsonOf ==
  ASSUME NEW e \in Parsed
  PROVE  /\ EventJson(e) \in Sent
         /\ EventJson(e).type = e.type /\ EventJson(e).pairedId = e.pairedId
         /\ EventJson(e).params = OrNull(e.params) /\ EventJson(e).result = OrNull(e.result)
         /\ EventJson(e).error = OrNull(ErrorJson(e.error))
         /\ EventJson(e).toolArgs = e.toolArgs
<1>1. /\ e.params \in Some /\ e.result \in Some /\ e.error \in {Absent} \cup Errors(Some)
      /\ e.messageId \in {Absent, "id"} /\ e.toolName \in {Empty, "tool"}
  BY DEF Parsed
<1>2. OrNull(e.params) \in Some /\ OrNull(e.result) \in Some BY <1>1, Nothings DEF Some
<1>3. OrNull(ErrorJson(e.error)) \in {Absent, Null} \cup Errors(Values)
  BY <1>1, ErrorJsonOf DEF OrNull
<1>4. OrNull(e.messageId) \in {Absent, Null, "id"} BY <1>1 DEF OrNull
<1>5. (IF e.toolName = Empty THEN Absent ELSE e.toolName) \in {Absent, "tool"} BY <1>1
<1>6. EventJson(e) \in Sent BY <1>2, <1>3, <1>4, <1>5 DEF EventJson, Sent, Parsed
<1>7. QED BY <1>6 DEF EventJson, Parsed

LEMMA DetailJsonOf ==
  ASSUME NEW e \in Parsed
  PROVE  /\ DetailJson(e) \in Sent
         /\ DetailJson(e).type = e.type
         /\ DetailJson(e).params = e.params /\ DetailJson(e).result = e.result
         /\ DetailJson(e).error = ErrorJson(e.error)
         /\ DetailJson(e).toolArgs = e.toolArgs
<1>1. /\ e.error \in {Absent} \cup Errors(Some)
      /\ e.pairedId \in EventIds \cup {Empty} /\ e.toolName \in {Empty, "tool"}
  BY DEF Parsed
<1>2. ErrorJson(e.error) \in {Absent, Null} \cup Errors(Values) BY <1>1, ErrorJsonOf
<1>3. (IF e.pairedId = Empty THEN Absent ELSE e.pairedId) \in EventIds \cup {Empty, Absent} BY <1>1
<1>4. (IF e.toolName = Empty THEN Absent ELSE e.toolName) \in {Absent, "tool"} BY <1>1
<1>5. DetailJson(e) \in Sent BY <1>2, <1>3, <1>4 DEF DetailJson, Sent, Parsed
<1>6. QED BY <1>5 DEF DetailJson, Parsed

(* parseBackendMCPEvent, of what it can read.                                *)
LEMMA NormalizeOf ==
  ASSUME NEW j \in Sent
  PROVE  /\ Normalize(j) \in Received
         /\ Readable(j) => Normalize(j) \in Details(EventIds)
         /\ Normalize(j).type = j.type /\ Normalize(j).pairedId = OrNull(j.pairedId)
         /\ Normalize(j).params = OrNull(j.params) /\ Normalize(j).result = OrNull(j.result)
         /\ Normalize(j).error = OrNull(j.error)
         /\ Normalize(j).toolArgs = OrNull(j.toolArgs)
<1>1. /\ j.params \in Some /\ j.result \in Some /\ j.error \in {Absent, Null} \cup Errors(Values)
      /\ j.messageId \in {Absent, Null, "id"} /\ j.toolName \in {Absent, "tool"}
      /\ j.pairedId \in EventIds \cup {Empty, Absent} /\ j.toolArgs \in {Absent, "strings"}
  BY DEF Sent
<1>2. OrNull(j.params) \in Values /\ OrNull(j.result) \in Values BY <1>1, Nothings
<1>3. OrNull(j.error) \in {Null} \cup Errors(Values) BY <1>1 DEF OrNull
<1>4. /\ OrNull(j.messageId) \in {Null, "id"} /\ OrNull(j.toolName) \in {Null, "tool"}
      /\ OrNull(j.pairedId) \in EventIds \cup {Empty, Null}
  BY <1>1 DEF OrNull
<1>5. OrNull(j.toolArgs) \in Values BY <1>1, Nothings DEF Some
<1>6. Normalize(j) \in Received BY <1>2, <1>3, <1>4, <1>5 DEF Normalize, Sent, Received
<1>7. Normalize(j).type = j.type BY DEF Normalize, Sent
<1>8. \A d \in Received :
        d.type \in {"request", "response", "notification", "error"} => d \in Details(EventIds)
  BY DEF Received, Details, Errors
<1>9. Readable(j) => Normalize(j) \in Details(EventIds) BY <1>6, <1>7, <1>8 DEF Readable
<1>10. QED BY <1>6, <1>9 DEF Normalize, Sent

(* What the desktop can read of JSON that the daemon may send.               *)
LEMMA SentReadable ==
  ASSUME NEW j \in Sent
  PROVE  Readable(j) <=> j.type # Empty
<1>1. j.pairedId # Null /\ j.toolName # Null
  BY InspectorAssumption, CodecAssumption DEF Sent
<1>2. j.type \in {"request", "response", "notification", "error"} <=> j.type # Empty
  BY DEF Sent, MessageTypes, Empty
<1>3. QED BY <1>1, <1>2 DEF Readable

(* parseBackendMCPEvent reads everything that Parse accepts and the daemon    *)
(* sends, over the websocket, in a list or as a detail, except messages with *)
(* neither method nor result nor error, which have no type: no other message *)
(* makes a session fail to load or is missing from the live stream for it.   *)
THEOREM ReadableIffTyped ==
  ASSUME NEW f \in Frames, NEW link \in EventIds \cup {Empty}
  PROVE  /\ Readable(EventJson(Event(f, link))) <=> MessageType(f) # Empty
         /\ Readable(EventJson(Row(Event(f, link)))) <=> MessageType(f) # Empty
         /\ Readable(DetailJson(Row(Event(f, link)))) <=> MessageType(f) # Empty
<1> DEFINE e == Event(f, link)
           r == Row(e)
<1>1. e \in Parsed /\ e.type = MessageType(f) BY ParsedEvent DEF Event
<1> HIDE DEF e
<1>2. r \in Parsed /\ r.type = e.type BY <1>1, RowOf
<1> HIDE DEF r
<1>3. /\ EventJson(e) \in Sent /\ EventJson(e).type = e.type
      /\ EventJson(r) \in Sent /\ EventJson(r).type = r.type
      /\ DetailJson(r) \in Sent /\ DetailJson(r).type = r.type
  BY <1>1, <1>2, EventJsonOf, DetailJsonOf
<1>4. /\ Readable(EventJson(e)) <=> MessageType(f) # Empty
      /\ Readable(EventJson(r)) <=> MessageType(f) # Empty
      /\ Readable(DetailJson(r)) <=> MessageType(f) # Empty
  BY <1>1, <1>2, <1>3, SentReadable
<1>5. QED BY <1>4 DEF e, r

(* Live stream and detail agree on what the inspector shows.                 *)
LEMMA SectionsShow ==
  ASSUME NEW x, NEW y,
         x.params = y.params, x.result = y.result, x.error = y.error, x.toolArgs = y.toolArgs
  PROVE  Sections(x) = Sections(y)
<1>1. Headers(x) = Headers(y) BY DEF Headers
<1>2. QED BY <1>1 DEF Sections

LEMMA KeptOf ==
  ASSUME NEW d \in Received
  PROVE  /\ Kept(d).params = d.params /\ Kept(d).result = d.result
         /\ Kept(d).toolArgs = Null
         /\ Kept(d).error = IF d.error = Null THEN Null ELSE [d.error EXCEPT !.data = Null]
  BY DEF Kept, Received, Errors

LEMMA SameErrors ==
  ASSUME NEW x \in {Absent} \cup Errors(Some),
         NEW row, row = IF x = Absent THEN Absent ELSE [x EXCEPT !.data = Absent],
         NEW live, live = OrNull(OrNull(ErrorJson(x)))
  PROVE  OrNull(ErrorJson(row)) = IF live = Null THEN Null ELSE [live EXCEPT !.data = Null]
<1>1. CASE x = Absent BY <1>1, ErrorJsonOf, Nothings
<1>2. CASE x # Absent
  <2>1. /\ x \in Errors(Some)
        /\ ErrorJson(x) \in Errors(Values) /\ ErrorJson(x).code = x.code
    BY <1>2, ErrorJsonOf
  <2>2. \A y \in Errors(Values) : OrNull(y) = y /\ y # Null
    BY Nothings DEF OrNull, Some
  <2>3. live = ErrorJson(x) /\ live # Null BY <2>1, <2>2
  <2>4. [live EXCEPT !.data = Null] = [code |-> x.code, data |-> Null]
    BY <2>1, <2>3 DEF Errors
  <2>5. row \in Errors(Some) /\ row.code = x.code /\ row.data = Absent
    BY <1>2, <2>1 DEF Errors, Some
  <2>6. row # Absent BY <2>5, Nothings
  <2>7. /\ ErrorJson(row) \in Errors(Values) /\ ErrorJson(row).code = x.code
        /\ ErrorJson(row).data = Null
    BY <2>5, <2>6, ErrorJsonOf, Nothings
  <2>8. ErrorJson(row) = [code |-> x.code, data |-> Null] BY <2>7 DEF Errors
  <2>9. QED BY <2>2, <2>3, <2>4, <2>7, <2>8
<1>3. QED BY <1>1, <1>2

(* From the same frame: a detail out of its row, whatever link it has by     *)
(* then, shows what the event that was sent live shows, tool arguments and   *)
(* the data of an error left aside.                                         *)
THEOREM DetailShowsLive ==
  ASSUME NEW f \in Frames, NEW link \in EventIds \cup {Empty}, NEW sent \in EventIds \cup {Empty}
  PROVE  Sections(Normalize(DetailJson(Row(Event(f, link)))))
           = Sections(Kept(Normalize(EventJson(Event(f, sent)))))
<1> DEFINE e == Event(f, link)
           r == Row(e)
           j == DetailJson(r)
           v == Event(f, sent)
           w == EventJson(v)
           d == Normalize(w)
<1>1. e \in Parsed /\ v \in Parsed BY ParsedEvent
<1>2. /\ e.params = v.params /\ e.result = v.result /\ e.error = v.error
  BY DEF Event
<1> HIDE DEF e, v
<1>3. r \in Parsed /\ r.params = e.params /\ r.result = e.result /\ r.toolArgs = Absent
  BY <1>1, RowOf
<1>4. r.error = IF e.error = Absent THEN Absent ELSE [e.error EXCEPT !.data = Absent]
  BY <1>1, RowOf
<1> HIDE DEF r
<1>5. /\ j \in Sent /\ j.params = r.params /\ j.result = r.result
      /\ j.error = ErrorJson(r.error) /\ j.toolArgs = r.toolArgs
  BY <1>3, DetailJsonOf
<1> HIDE DEF j
<1>6. /\ Normalize(j).params = OrNull(j.params) /\ Normalize(j).result = OrNull(j.result)
      /\ Normalize(j).error = OrNull(j.error) /\ Normalize(j).toolArgs = OrNull(j.toolArgs)
  BY <1>5, NormalizeOf
<1>7. /\ w \in Sent /\ w.params = OrNull(v.params) /\ w.result = OrNull(v.result)
      /\ w.error = OrNull(ErrorJson(v.error))
  BY <1>1, EventJsonOf
<1> HIDE DEF w
<1>8. /\ d \in Received /\ d.params = OrNull(w.params) /\ d.result = OrNull(w.result)
      /\ d.error = OrNull(w.error)
  BY <1>7, NormalizeOf
<1> HIDE DEF d
<1>9. Kept(d).params = d.params /\ Kept(d).result = d.result /\ Kept(d).toolArgs = Null
  BY <1>8, KeptOf
<1>10. \A x : OrNull(OrNull(x)) = OrNull(x) BY DEF OrNull
<1>11. Normalize(j).error = Kept(d).error
  <2>1. e.error \in {Absent} \cup Errors(Some) BY <1>1 DEF Parsed
  <2>2. d.error = OrNull(OrNull(ErrorJson(e.error))) BY <1>2, <1>7, <1>8
  <2>3. OrNull(ErrorJson(r.error)) = IF d.error = Null THEN Null ELSE [d.error EXCEPT !.data = Null]
    BY <1>4, <2>1, <2>2, SameErrors
  <2>4. Kept(d).error = IF d.error = Null THEN Null ELSE [d.error EXCEPT !.data = Null]
    BY <1>8, KeptOf
  <2>5. QED BY <1>5, <1>6, <2>3, <2>4
<1>12. Normalize(j).params = Kept(d).params
  <2>1. Normalize(j).params = OrNull(e.params) BY <1>3, <1>5, <1>6
  <2>2. Kept(d).params = OrNull(OrNull(e.params)) BY <1>2, <1>7, <1>8, <1>9
  <2>3. QED BY <1>10, <2>1, <2>2
<1>13. Normalize(j).result = Kept(d).result
  <2>1. Normalize(j).result = OrNull(e.result) BY <1>3, <1>5, <1>6
  <2>2. Kept(d).result = OrNull(OrNull(e.result)) BY <1>2, <1>7, <1>8, <1>9
  <2>3. QED BY <1>10, <2>1, <2>2
<1>14. Normalize(j).toolArgs = Kept(d).toolArgs BY <1>3, <1>5, <1>6, <1>9, Nothings
<1>15. Sections(Normalize(j)) = Sections(Kept(d))
  BY <1>11, <1>12, <1>13, <1>14, SectionsShow
<1>16. QED BY <1>15 DEF d, w, v, j, r, e
-----------------------------------------------------------------------------
(* The inductive invariant of the inspector: the traffic is what was sent,   *)
(* the store holds events of it, a query has data exactly when it says so    *)
(* and then what the row gives, and the editors are as they were last        *)
(* rendered, of what is selected, fetched and chosen now.                   *)

TrafficOK ==
  /\ frame \in [EventIds -> Frames]
  /\ \A e \in EventIds : rowLink[e] \in {SentLink(e), Link(e)}

StoreOK(byId, sel) ==
  /\ DOMAIN byId \subseteq EventIds
  /\ \A e \in DOMAIN byId :
       /\ byId[e] \in Details(EventIds)
       /\ byId[e].type = MessageType(frame[e])
       /\ byId[e].pairedId \in {Empty, Link(e)}
  /\ sel \in DOMAIN byId \cup {NoEvent}

Statuses == Fetching \cup {"idle", "data", "error"}

QueriesOK(q, d) ==
  /\ q \in [EventIds -> Statuses]
  /\ d \in [EventIds -> Details(EventIds) \cup {Null}]
  /\ \A e \in EventIds : d[e] # Null <=> q[e] = "data"
  /\ \A e \in EventIds : q[e] = "data" => d[e] = Normalize(DetailJson(Stored(e)))

TabsOK(t) == t \in [Panels -> {"parsed", "raw"}]

AsRendered == editors = [p \in Panels |-> Documents(Target[p], query, data, tab[p])]

InspectorInv ==
  /\ TrafficOK
  /\ rows \subseteq EventIds
  /\ StoreOK(eventsById, selected)
  /\ QueriesOK(query, data)
  /\ TabsOK(tab)
  /\ AsRendered

LEMMA LinkType ==
  ASSUME TrafficOK, NEW e \in EventIds
  PROVE  /\ Link(e) \in EventIds \cup {Empty}
         /\ SentLink(e) \in {Empty, Link(e)} /\ rowLink[e] \in {Empty, Link(e)}
<1>1. Link(e) \in EventIds \cup {Empty} BY InspectorAssumption DEF Link
<1>2. SentLink(e) \in {Empty, Link(e)} BY DEF SentLink
<1>3. QED BY <1>1, <1>2 DEF TrafficOK

(* What a frame, sent or loaded, puts into the store.                        *)
LEMMA StoredEvent ==
  ASSUME TrafficOK, NEW e \in EventIds, NEW v \in Parsed, Readable(EventJson(v)),
         v.type = MessageType(frame[e]), v.pairedId \in {Empty, Link(e)}
  PROVE  /\ Normalize(EventJson(v)) \in Details(EventIds)
         /\ Normalize(EventJson(v)).type = MessageType(frame[e])
         /\ Normalize(EventJson(v)).pairedId \in {Empty, Link(e)}
<1>1. /\ EventJson(v) \in Sent /\ EventJson(v).type = v.type
      /\ EventJson(v).pairedId = v.pairedId
  BY EventJsonOf
<1>2. /\ Normalize(EventJson(v)) \in Details(EventIds)
      /\ Normalize(EventJson(v)).type = v.type
      /\ Normalize(EventJson(v)).pairedId = OrNull(v.pairedId)
  BY <1>1, NormalizeOf
<1>3. v.pairedId # Absent
  <2>1. v.pairedId \in EventIds \cup {Empty} BY DEF Parsed
  <2>2. QED BY <2>1, InspectorAssumption, CodecAssumption
<1>4. OrNull(v.pairedId) = v.pairedId BY <1>3 DEF OrNull
<1>5. QED BY <1>2, <1>4

LEMMA LiveEvent ==
  ASSUME TrafficOK, NEW e \in EventIds
  PROVE  /\ Live(e) \in Parsed /\ Live(e).type = MessageType(frame[e])
         /\ Live(e).pairedId \in {Empty, Link(e)}
<1>1. frame[e] \in Frames /\ SentLink(e) \in EventIds \cup {Empty}
  BY LinkType DEF TrafficOK
<1>2. Live(e) \in Parsed BY <1>1, ParsedEvent DEF Live
<1>3. Live(e).type = MessageType(frame[e]) /\ Live(e).pairedId = SentLink(e)
  BY DEF Live, Event
<1>4. QED BY <1>2, <1>3, LinkType

LEMMA RowEvent ==
  ASSUME TrafficOK, NEW e \in EventIds
  PROVE  /\ Stored(e) \in Parsed /\ Stored(e).type = MessageType(frame[e])
         /\ Stored(e).pairedId \in {Empty, Link(e)}
<1> DEFINE v == Event(frame[e], rowLink[e])
<1>1. frame[e] \in Frames /\ rowLink[e] \in EventIds \cup {Empty}
  BY LinkType DEF TrafficOK
<1>2. v \in Parsed BY <1>1, ParsedEvent
<1>3. v.type = MessageType(frame[e]) /\ v.pairedId = rowLink[e] BY DEF Event
<1>4. Stored(e) = Row(v) BY DEF Stored
<1> HIDE DEF v
<1>5. QED BY <1>2, <1>3, <1>4, RowOf, LinkType

(* Nothing changes what was sent.                                            *)
LEMMA TrafficKept ==
  ASSUME UNCHANGED traffic
  PROVE  /\ TrafficOK => TrafficOK'
         /\ \A byId, sel : StoreOK(byId, sel) => StoreOK(byId, sel)'
         /\ \A q, d : QueriesOK(q, d) => QueriesOK(q, d)'
<1>1. frame' = frame /\ rowLink' = rowLink BY DEF traffic
<1>2. TrafficOK => TrafficOK' BY <1>1 DEF TrafficOK, SentLink, Link
<1>3. \A byId, sel : StoreOK(byId, sel) => StoreOK(byId, sel)'
  BY <1>1 DEF StoreOK, Link
<1>4. \A q, d : QueriesOK(q, d) => QueriesOK(q, d)' BY <1>1 DEF QueriesOK, Stored
<1>5. QED BY <1>2, <1>3, <1>4

(* A render leaves the tabs what they can be, and the editors as they should *)
(* be.                                                                      *)
LEMMA Renders ==
  ASSUME NEW targets, NEW q, NEW d, NEW chosen, TabsOK(chosen),
         Render(targets, q, d, chosen), Target' = targets, UNCHANGED traffic
  PROVE  query' = q /\ data' = d /\ TabsOK(tab') /\ AsRendered'
<1> DEFINE tabs == [p \in Panels |->
                      IF ShowsDetail(Target[p], query) /\ ShowsDetail(targets[p], q)
                      THEN chosen[p] ELSE "parsed"]
<1>1. /\ query' = q /\ data' = d /\ tab' = tabs
      /\ editors' = [p \in Panels |-> Documents(targets[p], q, d, tabs[p])]
  BY DEF Render, Reconcile
<1>2. TabsOK(tabs) BY DEF TabsOK
<1> HIDE DEF tabs
<1>3. frame' = frame BY DEF traffic
<1>4. AsRendered' BY <1>1, <1>3 DEF AsRendered, Documents
<1>5. QED BY <1>1, <1>2, <1>4

LEMMA MovedQueries ==
  ASSUME NEW targets, QueriesOK(query, data)
  PROVE  QueriesOK(Moved(targets), data)
<1>1. Moved(targets) \in [EventIds -> Statuses]
  BY DEF Moved, Statuses, Fetching, QueriesOK
<1>2. \A e \in EventIds : Moved(targets)[e] = "data" <=> query[e] = "data"
  BY DEF Moved, Statuses, Fetching, QueriesOK
<1>3. QED BY <1>1, <1>2 DEF QueriesOK

LEMMA StoreChanges ==
  ASSUME InspectorInv, NEW byId, NEW sel, StoreOK(byId, sel), ChangeStore(byId, sel),
         UNCHANGED rows
  PROVE  InspectorInv'
<1>1. /\ eventsById' = byId /\ selected' = sel /\ UNCHANGED traffic
      /\ Render(Targets(byId, sel), Moved(Targets(byId, sel)), data, tab)
  BY DEF ChangeStore
<1>2. Target' = Targets(byId, sel) BY <1>1 DEF Target
<1>3. /\ query' = Moved(Targets(byId, sel)) /\ data' = data /\ TabsOK(tab') /\ AsRendered'
  BY <1>1, <1>2, Renders DEF InspectorInv
<1>4. QueriesOK(Moved(Targets(byId, sel)), data) BY MovedQueries DEF InspectorInv
<1>5. TrafficOK' BY <1>1, TrafficKept DEF InspectorInv
<1>6. frame' = frame /\ rowLink' = rowLink BY <1>1 DEF traffic
<1>7. StoreOK(eventsById, selected)' BY <1>1, <1>6 DEF StoreOK, Link
<1>8. QueriesOK(query, data)' BY <1>3, <1>4, <1>6 DEF QueriesOK, Stored
<1>9. QED BY <1>3, <1>5, <1>7, <1>8 DEF InspectorInv, TabsOK

LEMMA QueryChanges ==
  ASSUME InspectorInv, NEW e \in EventIds, NEW status \in Statuses,
         NEW detail \in Details(EventIds) \cup {Null},
         detail # Null <=> status = "data",
         status = "data" => detail = Normalize(DetailJson(Stored(e))),
         Becomes(e, status, detail)
  PROVE  InspectorInv'
<1> DEFINE q == [query EXCEPT ![e] = status]
           d == [data EXCEPT ![e] = detail]
<1>1. Render(Target, q, d, tab) /\ UNCHANGED <<traffic, rows, eventsById, selected>>
  BY DEF Becomes
<1>2. QueriesOK(q, d) BY DEF InspectorInv, QueriesOK
<1> HIDE DEF q, d
<1>3. Target' = Target BY <1>1 DEF Target
<1>4. query' = q /\ data' = d /\ TabsOK(tab') /\ AsRendered'
  BY <1>1, <1>3, Renders DEF InspectorInv
<1>5. TrafficOK' BY <1>1, TrafficKept DEF InspectorInv
<1>6. frame' = frame /\ rowLink' = rowLink BY <1>1 DEF traffic
<1>7. StoreOK(eventsById, selected)' BY <1>1, <1>6 DEF InspectorInv, StoreOK, Link
<1>8. QueriesOK(query, data)' BY <1>2, <1>4, <1>6 DEF QueriesOK, Stored
<1>9. QED BY <1>1, <1>4, <1>5, <1>7, <1>8 DEF InspectorInv, TabsOK

LEMMA InspectorInitInv == InspectorInit => InspectorInv
<1> SUFFICES ASSUME InspectorInit PROVE InspectorInv OBVIOUS
<1>1. TrafficOK BY InspectorAssumption DEF InspectorInit, TrafficOK
<1>2. StoreOK(eventsById, selected) BY DEF InspectorInit, StoreOK
<1>3. QueriesOK(query, data) BY DEF InspectorInit, QueriesOK, Statuses
<1>4. TabsOK(tab) BY DEF InspectorInit, TabsOK
<1>5. \A p \in Panels : ~ShowsDetail(Target[p], query)
  <2>1. Target = <<NoEvent, NoEvent>> BY DEF InspectorInit, Target, Targets
  <2>2. QED BY <2>1 DEF ShowsDetail, Panels
<1>6. AsRendered BY <1>5 DEF InspectorInit, AsRendered, Documents
<1>7. QED BY <1>1, <1>2, <1>3, <1>4, <1>6 DEF InspectorInv, InspectorInit

LEMMA StepIngest ==
  ASSUME InspectorInv, NEW e \in EventIds, NEW evicted, Ingest(e, evicted)
  PROVE  InspectorInv'
<1> DEFINE v == Normalize(EventJson(Live(e)))
           byId == [d \in (DOMAIN eventsById \cup {e}) \ evicted |->
                      IF d = e THEN v ELSE eventsById[d]]
           sel == IF selected \in evicted THEN NoEvent ELSE selected
<1>1. Readable(EventJson(Live(e))) /\ ChangeStore(byId, sel) /\ UNCHANGED rows
  BY DEF Ingest
<1>2. TrafficOK /\ StoreOK(eventsById, selected) BY DEF InspectorInv
<1>3. /\ v \in Details(EventIds) /\ v.type = MessageType(frame[e])
      /\ v.pairedId \in {Empty, Link(e)}
  BY <1>1, <1>2, LiveEvent, StoredEvent
<1> HIDE DEF v
<1>4. DOMAIN byId \subseteq EventIds BY <1>2 DEF StoreOK
<1>5. \A d \in DOMAIN byId :
        /\ byId[d] \in Details(EventIds) /\ byId[d].type = MessageType(frame[d])
        /\ byId[d].pairedId \in {Empty, Link(d)}
  <2> SUFFICES ASSUME NEW d \in DOMAIN byId
               PROVE  /\ byId[d] \in Details(EventIds) /\ byId[d].type = MessageType(frame[d])
                      /\ byId[d].pairedId \in {Empty, Link(d)}
    OBVIOUS
  <2>1. CASE d = e
    <3>1. byId[d] = v BY <2>1
    <3> HIDE DEF byId
    <3>2. QED BY <1>3, <2>1, <3>1
  <2>2. CASE d # e
    <3>1. byId[d] = eventsById[d] /\ d \in DOMAIN eventsById BY <2>2
    <3> HIDE DEF byId
    <3>2. QED BY <1>2, <3>1 DEF StoreOK
  <2>3. QED BY <2>1, <2>2
<1>6. sel \in DOMAIN byId \cup {NoEvent} BY <1>2 DEF StoreOK
<1> HIDE DEF byId, sel
<1>7. StoreOK(byId, sel) BY <1>4, <1>5, <1>6 DEF StoreOK
<1>8. QED BY <1>1, <1>7, StoreChanges

LEMMA StepReplaceEvents ==
  ASSUME InspectorInv, ReplaceEvents
  PROVE  InspectorInv'
<1> DEFINE byId == [e \in rows |-> Normalize(EventJson(Stored(e)))]
<1>1. /\ \A e \in rows : Readable(EventJson(Stored(e)))
      /\ ChangeStore(byId, NoEvent) /\ UNCHANGED rows
  BY DEF ReplaceEvents
<1>2. TrafficOK /\ rows \subseteq EventIds BY DEF InspectorInv
<1>3. ASSUME NEW e \in rows
      PROVE  /\ byId[e] \in Details(EventIds) /\ byId[e].type = MessageType(frame[e])
             /\ byId[e].pairedId \in {Empty, Link(e)}
  <2>1. e \in EventIds /\ byId[e] = Normalize(EventJson(Stored(e))) BY <1>2
  <2> HIDE DEF byId
  <2>2. QED BY <1>1, <1>2, <2>1, RowEvent, StoredEvent
<1>4. DOMAIN byId = rows OBVIOUS
<1> HIDE DEF byId
<1>5. StoreOK(byId, NoEvent) BY <1>2, <1>3, <1>4 DEF StoreOK
<1>6. QED BY <1>1, <1>5, StoreChanges

LEMMA StepSelectEvent ==
  ASSUME InspectorInv, NEW e, SelectEvent(e)
  PROVE  InspectorInv'
<1> DEFINE sel == IF e \in DOMAIN eventsById THEN e ELSE NoEvent
<1>1. ChangeStore(eventsById, sel) /\ UNCHANGED rows BY DEF SelectEvent
<1>2. StoreOK(eventsById, sel) BY DEF InspectorInv, StoreOK
<1> HIDE DEF sel
<1>3. QED BY <1>1, <1>2, StoreChanges

LEMMA StepChangeTab ==
  ASSUME InspectorInv, NEW p \in Panels, NEW t \in {"parsed", "raw"}, ChangeTab(p, t)
  PROVE  InspectorInv'
<1> DEFINE chosen == [tab EXCEPT ![p] = t]
<1>1. Render(Target, query, data, chosen) /\ UNCHANGED <<traffic, rows, eventsById, selected>>
  BY DEF ChangeTab
<1>2. TabsOK(chosen) BY DEF InspectorInv, TabsOK
<1> HIDE DEF chosen
<1>3. Target' = Target BY <1>1 DEF Target
<1>4. query' = query /\ data' = data /\ TabsOK(tab') /\ AsRendered'
  BY <1>1, <1>2, <1>3, Renders
<1>5. TrafficOK' BY <1>1, TrafficKept DEF InspectorInv
<1>6. frame' = frame /\ rowLink' = rowLink BY <1>1 DEF traffic
<1>7. StoreOK(eventsById, selected)' BY <1>1, <1>6 DEF InspectorInv, StoreOK, Link
<1>8. QueriesOK(query, data)' BY <1>4, <1>6 DEF InspectorInv, QueriesOK, Stored
<1>9. QED BY <1>1, <1>4, <1>5, <1>7, <1>8 DEF InspectorInv, TabsOK

(* A step that leaves all but the rows as it is.                             *)
LEMMA RowsChange ==
  ASSUME InspectorInv, rows' \subseteq EventIds,
         UNCHANGED <<traffic, eventsById, selected, query, data, tab, editors>>
  PROVE  InspectorInv'
<1>1. frame' = frame /\ rowLink' = rowLink BY DEF traffic
<1>2. TrafficOK' BY TrafficKept DEF InspectorInv
<1>3. StoreOK(eventsById, selected)' BY <1>1 DEF InspectorInv, StoreOK, Link
<1>4. QueriesOK(query, data)' BY <1>1 DEF InspectorInv, QueriesOK, Stored
<1>5. Target' = Target BY DEF Target
<1>6. AsRendered' BY <1>1, <1>5 DEF InspectorInv, AsRendered, Documents
<1>7. QED BY <1>2, <1>3, <1>4, <1>6 DEF InspectorInv, TabsOK

LEMMA StepQuery ==
  ASSUME InspectorInv, NEW e \in EventIds,
         Resolve(e) \/ Reject(e) \/ RetryTimer(e) \/ Collect(e)
  PROVE  InspectorInv'
<1>1. CASE Resolve(e)
  <2> DEFINE d == Normalize(DetailJson(Stored(e)))
  <2>1. Readable(DetailJson(Stored(e))) /\ Becomes(e, "data", d) BY <1>1 DEF Resolve
  <2>2. Stored(e) \in Parsed BY RowEvent DEF InspectorInv
  <2>3. d \in Details(EventIds) BY <2>1, <2>2, DetailJsonOf, NormalizeOf
  <2>4. d # Null BY <2>3, InspectorAssumption
  <2>5. d = Normalize(DetailJson(Stored(e))) OBVIOUS
  <2> HIDE DEF d
  <2>6. "data" \in Statuses BY DEF Statuses
  <2>7. QED BY <2>1, <2>3, <2>4, <2>5, <2>6, QueryChanges
<1>2. CASE Reject(e) \/ RetryTimer(e) \/ Collect(e)
  <2>1. PICK status \in Statuses \ {"data"} : Becomes(e, status, Null)
    BY <1>2 DEF Reject, RetryTimer, Collect, Statuses, Fetching
  <2>2. QED BY <2>1, QueryChanges
<1>3. QED BY <1>1, <1>2

LEMMA InspectorNextInv ==
  ASSUME InspectorInv, [InspectorNext]_inspectorVars
  PROVE  InspectorInv'
<1>1. CASE \E e \in EventIds :
             \E evicted \in {{}} \cup {{d} : d \in DOMAIN eventsById \ {e}} : Ingest(e, evicted)
  BY <1>1, StepIngest
<1>2. CASE ReplaceEvents BY <1>2, StepReplaceEvents
<1>3. CASE (\E e \in EventIds : SelectEvent(e)) \/ JumpToPaired
  BY <1>3, StepSelectEvent DEF JumpToPaired
<1>4. CASE \E p \in Panels, t \in {"parsed", "raw"} : ChangeTab(p, t)
  BY <1>4, StepChangeTab
<1>5. CASE \E e \in EventIds : Commit(e) BY <1>5, RowsChange DEF Commit, InspectorInv
<1>6. CASE \E e \in EventIds : Resolve(e) \/ Reject(e) \/ RetryTimer(e) \/ Collect(e)
  BY <1>6, StepQuery
<1>7. CASE UNCHANGED inspectorVars BY <1>7, RowsChange DEF inspectorVars, InspectorInv
<1>8. QED BY <1>1, <1>2, <1>3, <1>4, <1>5, <1>6, <1>7 DEF InspectorNext

LEMMA InspectorInvariance == InspectorSpec => []InspectorInv
<1>1. InspectorInit => InspectorInv BY InspectorInitInv
<1>2. InspectorInv /\ [InspectorNext]_inspectorVars => InspectorInv' BY InspectorNextInv
<1>3. QED BY <1>1, <1>2, PTL DEF InspectorSpec

(* The store holds events as they were sent or stored, a query has a detail  *)
(* exactly when it says so, and nothing is selected that is not in the store. *)
THEOREM InspectorTypeCorrect == InspectorSpec => []InspectorTypeOK
<1>1. InspectorInv => InspectorTypeOK
  BY DEF InspectorInv, InspectorTypeOK, StoreOK, QueriesOK, TabsOK, Statuses
<1>2. QED BY <1>1, InspectorInvariance, PTL

(* What the panels show of a detail is what the live stream would show of    *)
(* the event: whatever row and cache it came through, whatever was selected, *)
(* cancelled, retried or collected in between.                              *)
LEMMA ShownIsSent ==
  ASSUME InspectorInv
  PROVE  EditorsShowSelection
<1> SUFFICES ASSUME NEW p \in Panels, ShowsDetail(Target[p], query)
             PROVE  editors[p] = IF tab[p] = "raw" THEN {<<"raw", frame[Target[p]]>>}
                                 ELSE Sections(Kept(Normalize(EventJson(Live(Target[p])))))
  BY DEF EditorsShowSelection
<1>1. PICK e : e = Target[p] OBVIOUS
<1>2. e # NoEvent /\ query[e] = "data" BY <1>1 DEF ShowsDetail
<1>3. e \in EventIds
  <2>1. selected \in DOMAIN eventsById => selected \in EventIds
    BY DEF InspectorInv, StoreOK
  <2>2. QED BY <1>1, <1>2, <2>1 DEF Target, Targets, Panels
<1>4. editors[p] = Documents(e, query, data, tab[p]) BY <1>1 DEF InspectorInv, AsRendered
<1>5. CASE tab[p] = "raw" BY <1>1, <1>4, <1>5 DEF Documents
<1>6. CASE tab[p] # "raw"
  <2>1. editors[p] = Sections(data[e]) BY <1>1, <1>4, <1>6 DEF Documents
  <2>2. data[e] = Normalize(DetailJson(Row(Event(frame[e], rowLink[e]))))
    BY <1>2, <1>3 DEF InspectorInv, QueriesOK, Stored
  <2>3. /\ frame[e] \in Frames /\ rowLink[e] \in EventIds \cup {Empty}
        /\ SentLink(e) \in EventIds \cup {Empty}
    BY <1>3, LinkType DEF InspectorInv, TrafficOK
  <2>4. Sections(data[e]) = Sections(Kept(Normalize(EventJson(Event(frame[e], SentLink(e))))))
    BY <2>2, <2>3, DetailShowsLive
  <2>5. QED BY <1>1, <1>6, <2>1, <2>4 DEF Live
<1>7. QED BY <1>5, <1>6

THEOREM EditorsShowSelectionAlways == InspectorSpec => []EditorsShowSelection
<1>1. InspectorInv => EditorsShowSelection BY ShownIsSent
<1>2. QED BY <1>1, InspectorInvariance, PTL
=============================================================================
