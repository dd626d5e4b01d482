--------------------------- MODULE TransportProofs ---------------------------
(* Theorems about the two parts that carry events: Proxy, for any number of  *)
(* lines and any size of the pipes, and Hub, for any set of clients, number  *)
(* of payloads and capacity of the channels.                                *)
EXTENDS Hub, Proxy, SequenceLemmas

-----------------------------------------------------------------------------
(* Hub: stretches of what Run took.                                         *)

(* The stretch that FollowsTaken cuts out, element by element.               *)
LEMMA Stretch ==
  ASSUME NEW S, NEW s \in Seq(S), NEW t \in Seq(S), NEW j \in Nat
  PROVE  (j + Len(s) <= Len(t) /\ s = SubSeq(t, j + 1, j + Len(s)))
           <=> Follows(j, s, t)
<1>1. Len(s) \in Nat /\ Len(t) \in Nat BY LenProperties
<1>2. SUFFICES ASSUME j + Len(s) <= Len(t)
               PROVE  s = SubSeq(t, j + 1, j + Len(s))
                        <=> \A i \in 1 .. Len(s) : s[i] = t[j + i]
  BY DEF Follows
<1> DEFINE u == SubSeq(t, j + 1, j + Len(s))
<1>3. /\ u \in Seq(S) /\ Len(u) = Len(s)
      /\ \A i \in 1 .. Len(s) : u[i] = t[j + i]
  <2>1. j + 1 \in Int /\ j + Len(s) \in Int BY <1>1
  <2>2. \A i \in (j + 1) .. (j + Len(s)) : i \in 1 .. Len(t) BY <1>1, <1>2
  <2>3. \A i \in (j + 1) .. (j + Len(s)) : t[i] \in S BY <2>2, ElementOfSeq
  <2>4. /\ u \in Seq(S)
        /\ Len(u) = IF j + 1 <= j + Len(s) THEN j + Len(s) - (j + 1) + 1 ELSE 0
        /\ \A i \in 1 .. (j + Len(s) - (j + 1) + 1) : u[i] = t[j + 1 + i - 1]
    BY <2>1, <2>3, SubSeqProperties
  <2> HIDE DEF u
  <2>5. Len(u) = Len(s) BY <2>4, <1>1
  <2>6. ASSUME NEW i \in 1 .. Len(s) PROVE u[i] = t[j + i]
    <3>1. i \in 1 .. (j + Len(s) - (j + 1) + 1) /\ j + 1 + i - 1 = j + i BY <1>1
    <3>2. QED BY <3>1, <2>4
  <2>7. QED BY <2>4, <2>5, <2>6
<1> HIDE DEF u
<1>4. (\A i \in 1 .. Len(s) : s[i] = t[j + i]) => s = u
  <2>1. SUFFICES ASSUME \A i \in 1 .. Len(s) : s[i] = t[j + i] PROVE s = u
    OBVIOUS
  <2>2. \A i \in 1 .. Len(s) : s[i] = u[i] BY <2>1, <1>3
  <2>3. QED BY <2>2, <1>3, SeqEqual
<1>5. s = u => \A i \in 1 .. Len(s) : s[i] = t[j + i] BY <1>3
<1>6. QED BY <1>4, <1>5 DEF u

(* What a stretch begins with is a stretch.                                  *)
LEMMA FollowsPrefix ==
  ASSUME NEW S, NEW s \in Seq(S), NEW u \in Seq(S), NEW t \in Seq(S),
         NEW j \in Nat, Follows(j, s \o u, t)
  PROVE  Follows(j, s, t)
<1>1. Len(s) \in Nat /\ Len(u) \in Nat /\ Len(t) \in Nat BY LenProperties
<1>2. /\ Len(s \o u) = Len(s) + Len(u)
      /\ \A i \in 1 .. Len(s) + Len(u) :
           (s \o u)[i] = IF i <= Len(s) THEN s[i] ELSE u[i - Len(s)]
  BY ConcatProperties
<1>3. ASSUME NEW i \in 1 .. Len(s) PROVE s[i] = t[j + i]
  <2>1. i \in 1 .. Len(s \o u) /\ i \in 1 .. Len(s) + Len(u) /\ i <= Len(s)
    BY <1>1, <1>2
  <2>2. (s \o u)[i] = s[i] BY <2>1, <1>2
  <2>3. (s \o u)[i] = t[j + i] BY <2>1 DEF Follows
  <2>4. QED BY <2>2, <2>3
<1>4. j + Len(s) <= Len(t) BY <1>1, <1>2 DEF Follows
<1>5. QED BY <1>3, <1>4 DEF Follows

(* A stretch that ends just before the last payload goes on with it.         *)
LEMMA FollowsExtend ==
  ASSUME NEW S, NEW s \in Seq(S), NEW t \in Seq(S), NEW j \in Nat,
         Follows(j, s, t), j + Len(s) + 1 = Len(t)
  PROVE  Follows(j, Append(s, t[Len(t)]), t)
<1>1. Len(s) \in Nat /\ Len(t) \in Nat BY LenProperties
<1>2. j + Len(s) < Len(t) BY <1>1
<1>3. QED BY <1>2, FollowsNext

(* A queue of increasing payloads keeps that when the next number joins it.  *)
LEMMA IncreasingAppend ==
  ASSUME NEW s \in Seq(Nat), NEW e \in Nat, Increasing(s),
         \A i \in DOMAIN s : s[i] < e
  PROVE  Increasing(Append(s, e))
<1>1. /\ Append(s, e) \in Seq(Nat) /\ Len(Append(s, e)) = Len(s) + 1
      /\ \A i \in 1 .. Len(s) : Append(s, e)[i] = s[i]
      /\ Append(s, e)[Len(s) + 1] = e
  BY AppendProperties
<1>2. /\ DOMAIN s = 1 .. Len(s) /\ Len(s) \in Nat
      /\ DOMAIN Append(s, e) = 1 .. (Len(s) + 1)
  BY <1>1, LenProperties
<1>3. QED BY <1>1, <1>2 DEF Increasing

(* The head of a queue of increasing payloads precedes its tail.             *)
LEMMA IncreasingTail ==
  ASSUME NEW s \in Seq(Nat), s # <<>>, Increasing(s)
  PROVE  /\ Increasing(Tail(s))
         /\ \A i \in DOMAIN Tail(s) : Head(s) < Tail(s)[i]
<1>1. /\ Tail(s) \in Seq(Nat) /\ Len(Tail(s)) = Len(s) - 1
      /\ \A i \in 1 .. Len(Tail(s)) : Tail(s)[i] = s[i + 1]
  BY HeadTailProperties
<1>2. /\ DOMAIN s = 1 .. Len(s) /\ Len(s) \in Nat \ {0}
      /\ DOMAIN Tail(s) = 1 .. (Len(s) - 1)
      /\ Head(s) = s[1]
  BY <1>1, LenProperties, EmptySeq
<1>3. \A i \in 1 .. (Len(s) - 1) : i + 1 \in DOMAIN s /\ Tail(s)[i] = s[i + 1]
  BY <1>1, <1>2
<1>4. ASSUME NEW i \in DOMAIN Tail(s), NEW k \in DOMAIN Tail(s), i < k
      PROVE  Tail(s)[i] < Tail(s)[k]
  <2>1. i + 1 < k + 1 BY <1>2, <1>4
  <2>2. s[i + 1] < s[k + 1] BY <2>1, <1>2, <1>3 DEF Increasing
  <2>3. QED BY <2>2, <1>2, <1>3
<1>5. ASSUME NEW i \in DOMAIN Tail(s) PROVE Head(s) < Tail(s)[i]
  <2>1. 1 < i + 1 /\ 1 \in DOMAIN s BY <1>2
  <2>2. s[1] < s[i + 1] BY <2>1, <1>2, <1>3 DEF Increasing
  <2>3. QED BY <2>2, <1>2, <1>3
<1>6. QED BY <1>4, <1>5 DEF Increasing

-----------------------------------------------------------------------------
(* Types, panics and who is registered.                                     *)

Control == TypeOK /\ NeverPanics /\ Registered

(* A receive from a queue of payloads.                                       *)
LEMMA Receive ==
  ASSUME NEW s \in Seq(Payloads), s # <<>>
  PROVE  /\ Head(s) \in Payloads
         /\ Tail(s) \in Seq(Payloads) /\ Len(Tail(s)) = Len(s) - 1
         /\ Len(s) \in Nat \ {0}
BY HeadTailProperties, EmptySeq

(* A send to a queue of payloads.                                            *)
LEMMA SendOne ==
  ASSUME NEW s \in Seq(Payloads), NEW e \in Payloads
  PROVE  /\ Append(s, e) \in Seq(Payloads)
         /\ Len(Append(s, e)) = Len(s) + 1 /\ Len(s) \in Nat
         /\ Append(s, e) # <<>>
BY AppendProperties, LenProperties

(* The payload Run is delivering.                                            *)
LEMMA InHand ==
  ASSUME TypeOK, taken # <<>>
  PROVE  Len(taken) \in Nat \ {0} /\ taken[Len(taken)] \in Payloads
<1>1. taken \in Seq(Payloads) BY DEF TypeOK
<1>2. Len(taken) \in Nat \ {0} BY <1>1, EmptySeq
<1>3. QED BY <1>1, <1>2, ElementOfSeq

(* No goroutine's step breaks the types, panics, or loses track of who is    *)
(* registered.                                                              *)
LEMMA ControlStep ==
  ASSUME Control, [Next]_vars
  PROVE  Control'
<1> USE HubAssumption DEF Control
<1>1. ASSUME BroadcastPayload PROVE Control'
  <2>1. TypeOK'
    <3>1. calls' \in Payloads BY <1>1 DEF BroadcastPayload, TypeOK, Payloads
    <3>2. broadcast' \in Seq(Payloads) /\ Len(broadcast') <= BroadcastCap
      BY <1>1, <3>1, SendOne DEF BroadcastPayload, TypeOK
    <3>3. QED
      BY <1>1, <3>1, <3>2 DEF BroadcastPayload, TypeOK, Payloads, clientVars, chanVars
  <2>2. NeverPanics'
    BY <1>1 DEF BroadcastPayload, NeverPanics, Registered, clientVars, chanVars
  <2>3. Registered'
    BY <1>1 DEF BroadcastPayload, Registered, TypeOK, clientVars, chanVars
  <2>4. QED BY <2>1, <2>2, <2>3
<1>2. ASSUME NEW c \in Clients, Register(c) PROVE Control'
  <2>0. /\ handler' = [handler EXCEPT ![c] = "reading"]
        /\ writer' = [writer EXCEPT ![c] = "select"]
        /\ clients' = clients \cup {c}
        /\ UNCHANGED <<hubVars, hand, connOpen, wire, send, sendClosed, panicked>>
    BY <1>2 DEF Register
  <2>1. TypeOK'
    <3>1. joined' \in [Clients -> Nat]
      <4>1. Len(taken) \in Nat BY LenProperties DEF TypeOK
      <4>2. QED BY <1>2, <4>1 DEF Register, TypeOK
    <3>2. /\ handler' \in [Clients -> {"none", "registering", "reading",
                                      "unregistering", "closing", "done"}]
          /\ writer' \in [Clients -> {"none", "select", "writing", "done"}]
      BY <2>0 DEF TypeOK
    <3>3. QED BY <2>0, <3>1, <3>2 DEF TypeOK, Payloads, hubVars
  <2>2. NeverPanics' BY <1>2 DEF Register, NeverPanics, Registered, hubVars
  <2>3. Registered'
    <3>1. handler[c] = "registering" /\ ~sendClosed[c] /\ todo = {} /\ hubPc = "select"
      BY <1>2 DEF Register, Registered
    <3>2. \A d \in clients' : ~sendClosed'[d] /\ handler'[d] \in {"reading", "unregistering"}
      BY <2>0, <3>1 DEF Registered, TypeOK
    <3>3. \A d \in Clients : handler'[d] \in {"none", "registering"} =>
            ~sendClosed'[d] /\ writer'[d] = "none" /\ wire'[d] = <<>> /\ send'[d] = <<>>
      BY <2>0 DEF Registered, TypeOK
    <3>4. \A d \in Clients : writer'[d] = "writing" => hand'[d] \in Payloads'
      BY <2>0 DEF Registered, TypeOK, Payloads
    <3>5. QED BY <2>0, <3>1, <3>2, <3>3, <3>4 DEF Registered, hubVars
  <2>4. QED BY <2>1, <2>2, <2>3
<1>3. ASSUME NEW c \in Clients, Unregister(c) PROVE Control'
  <2>1. TypeOK'
    <3>1. sendClosed' \in [Clients -> BOOLEAN] /\ panicked' \in BOOLEAN
      BY <1>3 DEF Unregister, CloseSend, TypeOK
    <3>2. QED BY <1>3, <3>1 DEF Unregister, TypeOK, Payloads, hubVars
  <2>2. NeverPanics'
    BY <1>3 DEF Unregister, NeverPanics, Registered, CloseSend, hubVars
  <2>3. Registered'
    BY <1>3 DEF Unregister, Registered, TypeOK, CloseSend, hubVars
  <2>4. QED BY <2>1, <2>2, <2>3
<1>4. ASSUME TakePayload PROVE Control'
  <2> DEFINE p == Head(broadcast)
  <2>0. /\ p \in Payloads
        /\ Tail(broadcast) \in Seq(Payloads)
        /\ Len(Tail(broadcast)) = Len(broadcast) - 1
        /\ Len(broadcast) \in Nat \ {0}
    BY <1>4, Receive DEF TakePayload, TypeOK
  <2>a. taken' \in Seq(Payloads) /\ taken' # <<>>
    BY <1>4, <2>0, SendOne DEF TakePayload, TypeOK
  <2> HIDE DEF p
  <2>1. TypeOK'
    <3>1. broadcast' \in Seq(Payloads) /\ Len(broadcast') <= BroadcastCap
      BY <1>4, <2>0 DEF TakePayload, TypeOK
    <3>2. todo' \subseteq Clients BY <1>4 DEF TakePayload, TypeOK
    <3>3. QED
      BY <1>4, <2>a, <3>1, <3>2 DEF TakePayload, TypeOK, Payloads, clientVars, chanVars
  <2>2. NeverPanics'
    BY <1>4 DEF TakePayload, NeverPanics, Registered, clientVars, chanVars
  <2>3. Registered'
    BY <1>4, <2>a DEF TakePayload, Registered, Payloads, clientVars, chanVars
  <2>4. QED BY <2>1, <2>2, <2>3
<1>5. ASSUME NEW c \in Clients, Deliver(c) PROVE Control'
  <2>0. taken # <<>> BY <1>5 DEF Deliver, Registered
  <2>a. taken[Len(taken)] \in Payloads BY <2>0, InHand
  <2>b. /\ Append(send[c], taken[Len(taken)]) \in Seq(Payloads)
        /\ Len(Append(send[c], taken[Len(taken)])) <= SendCap
    <3>1. send[c] \in Seq(Payloads) BY DEF TypeOK
    <3>2. QED BY <1>5, <2>a, <3>1, SendOne DEF Deliver
  <2>1. TypeOK'
    <3>1. send' \in [Clients -> Seq(Payloads)]
      BY <1>5, <2>b DEF Deliver, TypeOK
    <3>2. \A d \in Clients : Len(send'[d]) <= SendCap
      BY <1>5, <2>b DEF Deliver, TypeOK
    <3>3. panicked' \in BOOLEAN BY <1>5 DEF Deliver, TypeOK
    <3>4. QED
      BY <1>5, <3>1, <3>2, <3>3 DEF Deliver, TypeOK, Payloads, clientVars
  <2>2. NeverPanics' BY <1>5 DEF Deliver, NeverPanics, Registered, clientVars
  <2>3. Registered' BY <1>5 DEF Deliver, Registered, TypeOK, clientVars
  <2>4. QED BY <2>1, <2>2, <2>3
<1>6. ASSUME NEW c \in Clients, CutSlow(c) PROVE Control'
  <2>1. TypeOK'
    <3>1. sendClosed' \in [Clients -> BOOLEAN] /\ panicked' \in BOOLEAN
      BY <1>6 DEF CutSlow, CloseSend, TypeOK
    <3>2. QED BY <1>6, <3>1 DEF CutSlow, TypeOK, Payloads, clientVars
  <2>2. NeverPanics'
    BY <1>6 DEF CutSlow, NeverPanics, Registered, CloseSend, clientVars
  <2>3. Registered'
    BY <1>6 DEF CutSlow, Registered, TypeOK, CloseSend, clientVars
  <2>4. QED BY <2>1, <2>2, <2>3
<1>7. ASSUME CutConnection PROVE Control'
  <2>1. TypeOK' BY <1>7 DEF CutConnection, TypeOK, chanVars
  <2>2. NeverPanics'
    BY <1>7 DEF CutConnection, NeverPanics, Registered, chanVars
  <2>3. Registered' BY <1>7 DEF CutConnection, Registered, TypeOK, chanVars
  <2>4. QED BY <2>1, <2>2, <2>3
<1>8. ASSUME DeliverDone PROVE Control'
  <2>1. TypeOK' BY <1>8 DEF DeliverDone, TypeOK, clientVars, chanVars
  <2>2. NeverPanics'
    BY <1>8 DEF DeliverDone, NeverPanics, Registered, clientVars, chanVars
  <2>3. Registered'
    BY <1>8 DEF DeliverDone, Registered, TypeOK, clientVars, chanVars
  <2>4. QED BY <2>1, <2>2, <2>3
<1>9. ASSUME NEW c \in Clients, Upgrade(c) PROVE Control'
  <2>1. TypeOK' BY <1>9 DEF Upgrade, TypeOK, hubVars, chanVars
  <2>2. NeverPanics'
    BY <1>9 DEF Upgrade, NeverPanics, Registered, hubVars, chanVars
  <2>3. Registered' BY <1>9 DEF Upgrade, Registered, TypeOK, hubVars, chanVars
  <2>4. QED BY <2>1, <2>2, <2>3
<1>10. ASSUME NEW c \in Clients, ReadFails(c) PROVE Control'
  <2>1. TypeOK' BY <1>10 DEF ReadFails, TypeOK, hubVars, chanVars
  <2>2. NeverPanics'
    BY <1>10 DEF ReadFails, NeverPanics, Registered, hubVars, chanVars
  <2>3. Registered'
    BY <1>10 DEF ReadFails, Registered, TypeOK, hubVars, chanVars
  <2>4. QED BY <2>1, <2>2, <2>3
<1>11. ASSUME NEW c \in Clients, CloseConnection(c) PROVE Control'
  <2>1. TypeOK' BY <1>11 DEF CloseConnection, TypeOK, hubVars, chanVars
  <2>2. NeverPanics'
    BY <1>11 DEF CloseConnection, NeverPanics, Registered, hubVars, chanVars
  <2>3. Registered'
    BY <1>11 DEF CloseConnection, Registered, TypeOK, hubVars, chanVars
  <2>4. QED BY <2>1, <2>2, <2>3
<1>12. ASSUME NEW c \in Clients, TakeMessage(c) PROVE Control'
  <2>0. /\ Head(send[c]) \in Payloads
        /\ Tail(send[c]) \in Seq(Payloads)
        /\ Len(Tail(send[c])) <= SendCap
    <3>1. send[c] \in Seq(Payloads) /\ Len(send[c]) <= SendCap BY DEF TypeOK
    <3>2. QED BY <1>12, <3>1, Receive DEF TakeMessage
  <2>1. TypeOK'
    <3>1. hand' \in [Clients -> 0 .. MaxPayloads]
      BY <1>12, <2>0 DEF TakeMessage, TypeOK, Payloads
    <3>2. send' \in [Clients -> Seq(Payloads)]
      BY <1>12, <2>0 DEF TakeMessage, TypeOK
    <3>3. \A d \in Clients : Len(send'[d]) <= SendCap
      BY <1>12, <2>0 DEF TakeMessage, TypeOK
    <3>4. QED
      BY <1>12, <3>1, <3>2, <3>3 DEF TakeMessage, TypeOK, Payloads, hubVars
  <2>2. NeverPanics'
    BY <1>12 DEF TakeMessage, NeverPanics, Registered, hubVars
  <2>3. Registered' BY <1>12 DEF TakeMessage, Registered, TypeOK, hubVars
  <2>4. QED BY <2>1, <2>2, <2>3
<1>13. ASSUME NEW c \in Clients, WriteMessage(c) PROVE Control'
  <2>1. TypeOK'
    <3>1. hand[c] \in Payloads /\ wire[c] \in Seq(Payloads)
      BY <1>13 DEF WriteMessage, Registered, TypeOK
    <3>2. wire' \in [Clients -> Seq(Payloads)]
      BY <1>13, <3>1, SendOne DEF WriteMessage, TypeOK
    <3>3. QED
      BY <1>13, <3>2 DEF WriteMessage, TypeOK, Payloads, hubVars, chanVars
  <2>2. NeverPanics'
    BY <1>13 DEF WriteMessage, NeverPanics, Registered, hubVars, chanVars
  <2>3. Registered'
    BY <1>13 DEF WriteMessage, Registered, TypeOK, hubVars, chanVars
  <2>4. QED BY <2>1, <2>2, <2>3
<1>14. ASSUME NEW c \in Clients, WriterReturns(c) PROVE Control'
  <2>1. TypeOK' BY <1>14 DEF WriterReturns, TypeOK, hubVars, chanVars
  <2>2. NeverPanics'
    BY <1>14 DEF WriterReturns, NeverPanics, Registered, hubVars, chanVars
  <2>3. Registered'
    BY <1>14 DEF WriterReturns, Registered, TypeOK, hubVars, chanVars
  <2>4. QED BY <2>1, <2>2, <2>3
<1>15. CASE UNCHANGED vars
  BY <1>15 DEF vars, hubVars, clientVars, chanVars, TypeOK, NeverPanics,
               Registered, Payloads
<1>16. QED
  BY <1>1, <1>2, <1>3, <1>4, <1>5, <1>6, <1>7, <1>8, <1>9, <1>10, <1>11,
     <1>12, <1>13, <1>14, <1>15
  DEF Next, HubNext, ClientNext

-----------------------------------------------------------------------------
(* The stream leaves the hub in the order of the calls to Broadcast.         *)

(* The sequences of payloads are sequences of numbers.                       *)
LEMMA PayloadNumbers ==
  ASSUME TypeOK
  PROVE  /\ taken \in Seq(Nat) /\ broadcast \in Seq(Nat) /\ calls \in Nat
         /\ DOMAIN taken = 1 .. Len(taken) /\ Len(taken) \in Nat
         /\ DOMAIN broadcast = 1 .. Len(broadcast) /\ Len(broadcast) \in Nat
<1>1. Payloads \subseteq Nat BY DEF Payloads
<1>2. /\ taken \in Seq(Payloads) /\ broadcast \in Seq(Payloads) /\ calls \in Nat
  BY HubAssumption DEF TypeOK
<1>3. taken \in Seq(Nat) /\ broadcast \in Seq(Nat) BY <1>1, <1>2, SeqMonotonic
<1>4. QED BY <1>2, <1>3, LenProperties

(* No step breaks the order of what is queued and what Run has taken.        *)
LEMMA OrderStep ==
  ASSUME TypeOK, Ordered, [Next]_vars
  PROVE  Ordered'
<1>0. /\ taken \in Seq(Nat) /\ broadcast \in Seq(Nat) /\ calls \in Nat
      /\ DOMAIN taken = 1 .. Len(taken) /\ Len(taken) \in Nat
      /\ DOMAIN broadcast = 1 .. Len(broadcast) /\ Len(broadcast) \in Nat
  BY PayloadNumbers
<1>1. CASE BroadcastPayload
  <2>1. taken' = taken /\ calls' = calls + 1 BY <1>1 DEF BroadcastPayload
  <2>2. CASE broadcast' = broadcast
    <3>1. \A i \in DOMAIN taken : taken[i] \in Nat /\ taken[i] <= calls + 1
      BY <1>0, ElementOfSeq DEF Ordered
    <3>2. \A i \in DOMAIN broadcast : broadcast[i] \in Nat /\ broadcast[i] <= calls + 1
      BY <1>0, ElementOfSeq DEF Ordered
    <3>3. QED BY <2>1, <2>2, <3>1, <3>2 DEF Ordered, Increasing
  <2>3. CASE broadcast' = Append(broadcast, calls + 1)
    <3>1. /\ broadcast' \in Seq(Nat)
          /\ Len(broadcast') = Len(broadcast) + 1
          /\ \A i \in 1 .. Len(broadcast) : broadcast'[i] = broadcast[i]
          /\ broadcast'[Len(broadcast) + 1] = calls + 1
          /\ DOMAIN broadcast' = 1 .. (Len(broadcast) + 1)
      BY <1>0, <2>3, AppendProperties, LenProperties
    <3>2. /\ \A i \in 1 .. Len(broadcast) : broadcast[i] \in Nat
          /\ \A i \in 1 .. Len(taken) : taken[i] \in Nat
      BY <1>0, ElementOfSeq
    <3>3. Increasing(broadcast')
      <4>1. \A i \in DOMAIN broadcast : broadcast[i] < calls + 1
        BY <1>0, <3>2 DEF Ordered
      <4>2. Increasing(broadcast) BY DEF Ordered
      <4>3. calls + 1 \in Nat BY <1>0
      <4>4. Increasing(Append(broadcast, calls + 1))
        BY <1>0, <4>1, <4>2, <4>3, IncreasingAppend
      <4>5. QED BY <2>3, <4>4
    <3>4. ASSUME NEW i \in DOMAIN broadcast'
          PROVE  /\ broadcast'[i] <= calls + 1
                 /\ \A k \in DOMAIN taken : taken[k] < broadcast'[i]
      <4>1. CASE i \in DOMAIN broadcast
        <5>1. broadcast'[i] = broadcast[i] /\ broadcast[i] <= calls
          BY <1>0, <3>1, <4>1 DEF Ordered
        <5>2. \A k \in DOMAIN taken : taken[k] < broadcast[i]
          BY <4>1 DEF Ordered
        <5>3. QED BY <1>0, <3>2, <4>1, <5>1, <5>2
      <4>2. CASE i = Len(broadcast) + 1
        <5>1. \A k \in DOMAIN taken : taken[k] <= calls /\ taken[k] \in Nat
          BY <1>0, <3>2 DEF Ordered
        <5>2. QED BY <1>0, <3>1, <4>2, <5>1
      <4>3. QED BY <1>0, <3>1, <4>1, <4>2
    <3>5. \A i \in DOMAIN taken : taken[i] <= calls + 1
      BY <1>0, <3>2 DEF Ordered
    <3>6. QED BY <2>1, <3>3, <3>4, <3>5 DEF Ordered
  <2>4. QED BY <1>1, <2>1, <2>2, <2>3 DEF BroadcastPayload
<1>2. CASE TakePayload
  <2> DEFINE p == Head(broadcast)
  <2>1. /\ broadcast # <<>> /\ taken' = Append(taken, p)
        /\ broadcast' = Tail(broadcast) /\ calls' = calls
    BY <1>2 DEF TakePayload
  <2>2. /\ p \in Nat /\ p = broadcast[1] /\ 1 \in DOMAIN broadcast
        /\ Tail(broadcast) \in Seq(Nat)
        /\ DOMAIN Tail(broadcast) = 1 .. (Len(broadcast) - 1)
        /\ \A i \in 1 .. (Len(broadcast) - 1) : Tail(broadcast)[i] = broadcast[i + 1]
    <3>1. Len(broadcast) \in Nat \ {0} BY <1>0, <2>1, EmptySeq
    <3>2. /\ p \in Nat /\ Tail(broadcast) \in Seq(Nat)
          /\ Len(Tail(broadcast)) = Len(broadcast) - 1
          /\ \A i \in 1 .. Len(Tail(broadcast)) : Tail(broadcast)[i] = broadcast[i + 1]
      BY <1>0, <2>1, HeadTailProperties
    <3>3. DOMAIN Tail(broadcast) = 1 .. Len(Tail(broadcast)) BY <3>2, LenProperties
    <3>4. p = broadcast[1] BY <1>0, <2>1
    <3>5. QED BY <1>0, <3>1, <3>2, <3>3, <3>4
  <2> HIDE DEF p
  <2>3. /\ Increasing(Tail(broadcast))
        /\ \A i \in DOMAIN Tail(broadcast) : p < Tail(broadcast)[i]
    BY <1>0, <2>1, IncreasingTail DEF Ordered, p
  <2>4. \A i \in DOMAIN taken : taken[i] < p BY <2>2 DEF Ordered
  <2>5. /\ Len(taken') = Len(taken) + 1
        /\ \A i \in 1 .. Len(taken) : taken'[i] = taken[i]
        /\ taken'[Len(taken) + 1] = p
        /\ DOMAIN taken' = 1 .. (Len(taken) + 1)
    BY <1>0, <2>1, <2>2, AppendProperties, LenProperties
  <2>6. Increasing(taken') BY <1>0, <2>1, <2>2, <2>4, IncreasingAppend DEF Ordered
  <2>7. /\ \A i \in DOMAIN taken : taken[i] <= calls
        /\ \A i \in DOMAIN broadcast : broadcast[i] <= calls
        /\ \A i \in DOMAIN taken, j \in DOMAIN broadcast : taken[i] < broadcast[j]
    BY DEF Ordered
  <2>8. ASSUME NEW j \in DOMAIN Tail(broadcast)
        PROVE  /\ j + 1 \in DOMAIN broadcast
               /\ Tail(broadcast)[j] = broadcast[j + 1]
    BY <1>0, <2>2, <2>8
  <2>9. \A i \in DOMAIN taken' : i \in DOMAIN taken \/ i = Len(taken) + 1
    BY <1>0, <2>5
  <2>10. \A i \in DOMAIN taken', j \in DOMAIN broadcast' : taken'[i] < broadcast'[j]
    BY <1>0, <2>1, <2>3, <2>5, <2>7, <2>8, <2>9
  <2>11. \A i \in DOMAIN taken' : taken'[i] <= calls'
    BY <1>0, <2>1, <2>2, <2>5, <2>7, <2>9
  <2>12. \A i \in DOMAIN broadcast' : broadcast'[i] <= calls'
    BY <2>1, <2>7, <2>8
  <2>13. QED BY <2>1, <2>3, <2>6, <2>10, <2>11, <2>12 DEF Ordered
<1>3. CASE UNCHANGED <<calls, broadcast, taken>>
  BY <1>3 DEF Ordered, Increasing
<1>4. [Next]_vars => BroadcastPayload \/ TakePayload \/ UNCHANGED <<calls, broadcast, taken>>
  BY DEF Next, HubNext, ClientNext, Register, Unregister, Deliver, CutSlow,
         CutConnection, DeliverDone, Upgrade, ReadFails, CloseConnection,
         TakeMessage, WriteMessage, WriterReturns, vars, hubVars, chanVars
<1>5. QED BY <1>1, <1>2, <1>3, <1>4

-----------------------------------------------------------------------------
(* What one client was sent, holds and has waiting.                         *)

(* What Gapless says of one client.                                         *)
Served(c) ==
  /\ FollowsTaken(c, wire[c])
  /\ writer[c] # "done" => FollowsTaken(c, Stream(c))
  /\ c \in clients /\ writer[c] # "done" =>
       Len(Stream(c)) + (IF c \in todo THEN 1 ELSE 0) = Len(taken) - joined[c]

(* The parts of a client's stream.                                           *)
LEMMA StreamTypes ==
  ASSUME Control, NEW c \in Clients
  PROVE  /\ wire[c] \in Seq(Payloads) /\ send[c] \in Seq(Payloads)
         /\ taken \in Seq(Payloads) /\ joined[c] \in Nat
         /\ Len(wire[c]) \in Nat /\ Len(send[c]) \in Nat /\ Len(taken) \in Nat
         /\ Stream(c) \in Seq(Payloads) /\ Len(Stream(c)) \in Nat
         /\ writer[c] = "writing" => hand[c] \in Payloads
<1>1. /\ wire[c] \in Seq(Payloads) /\ send[c] \in Seq(Payloads)
      /\ taken \in Seq(Payloads) /\ joined[c] \in Nat
  BY DEF Control, TypeOK
<1>2. writer[c] = "writing" => hand[c] \in Payloads BY DEF Control, Registered
<1> DEFINE h == IF writer[c] = "writing" THEN <<hand[c]>> ELSE <<>>
<1>3. h \in Seq(Payloads) BY <1>2
<1>4. wire[c] \o h \in Seq(Payloads) BY <1>1, <1>3, ConcatProperties
<1>5. Stream(c) \in Seq(Payloads) BY <1>1, <1>4, ConcatProperties DEF Stream
<1>6. QED BY <1>1, <1>2, <1>5, LenProperties

(* FollowsTaken, element by element, for whatever Run has taken.             *)
LEMMA FollowsIff ==
  ASSUME TypeOK, NEW c \in Clients, NEW s \in Seq(Payloads)
  PROVE  FollowsTaken(c, s) <=> Follows(joined[c], s, taken)
BY Stretch DEF FollowsTaken, TypeOK

(* The same after a step.                                                    *)
LEMMA FollowsIffNext ==
  ASSUME TypeOK', NEW c \in Clients, NEW s \in Seq(Payloads)
  PROVE  (joined'[c] + Len(s) <= Len(taken')
            /\ s = SubSeq(taken', joined'[c] + 1, joined'[c] + Len(s)))
           <=> Follows(joined'[c], s, taken')
<1>1. taken' \in Seq(Payloads) /\ joined'[c] \in Nat BY DEF TypeOK, Payloads
<1>2. QED BY <1>1, Stretch

(* Concatenation of stretches of the stream may be regrouped.                *)
LEMMA Regroup ==
  \A s, t, u \in Seq(Payloads) : (s \o t) \o u = s \o (t \o u)
OBVIOUS

(* What the writer has written begins its stream.                            *)
LEMMA WireBegins ==
  ASSUME Control, NEW c \in Clients
  PROVE  \E u \in Seq(Payloads) : Stream(c) = wire[c] \o u
<1>1. /\ wire[c] \in Seq(Payloads) /\ send[c] \in Seq(Payloads)
      /\ writer[c] = "writing" => hand[c] \in Payloads
  BY StreamTypes
<1> DEFINE h == IF writer[c] = "writing" THEN <<hand[c]>> ELSE <<>>
<1>2. h \in Seq(Payloads) BY <1>1
<1> HIDE DEF h
<1>3. (wire[c] \o h) \o send[c] = wire[c] \o (h \o send[c])
  BY <1>1, <1>2, Regroup
<1>4. h \o send[c] \in Seq(Payloads) BY <1>1, <1>2, ConcatProperties
<1>5. Stream(c) = wire[c] \o (h \o send[c]) BY <1>3 DEF Stream, h
<1>6. QED BY <1>4, <1>5

(* Taking a message out of the channel leaves the stream.                    *)
LEMMA TakeKeepsStream ==
  ASSUME Control, NEW c \in Clients, TakeMessage(c)
  PROVE  Stream(c)' = Stream(c)
<1>1. /\ wire[c] \in Seq(Payloads) /\ send[c] \in Seq(Payloads) BY StreamTypes
<1>2. /\ writer[c] = "select" /\ send[c] # <<>> /\ wire' = wire
      /\ writer'[c] = "writing" /\ hand'[c] = Head(send[c])
      /\ send'[c] = Tail(send[c])
  BY DEF TakeMessage, Control, TypeOK
<1>3. Stream(c) = (wire[c] \o <<>>) \o send[c] BY <1>2 DEF Stream
<1>4. Stream(c) = wire[c] \o send[c] BY <1>1, <1>3, ConcatEmptySeq
<1>5. Stream(c)' = (wire[c] \o <<Head(send[c])>>) \o Tail(send[c])
  BY <1>2 DEF Stream
<1>6. Head(send[c]) \in Payloads /\ Tail(send[c]) \in Seq(Payloads)
  BY <1>1, <1>2, HeadTailProperties
<1>7. <<Head(send[c])>> \in Seq(Payloads) BY <1>6
<1>8. Stream(c)' = wire[c] \o (<<Head(send[c])>> \o Tail(send[c]))
  BY <1>1, <1>5, <1>6, <1>7, Regroup
<1>9. <<Head(send[c])>> \o Tail(send[c]) = send[c]
  <2> DEFINE q == <<Head(send[c])>> \o Tail(send[c])
  <2>1. /\ q \in Seq(Payloads)
        /\ Len(q) = Len(<<Head(send[c])>>) + Len(Tail(send[c]))
        /\ \A i \in 1 .. Len(<<Head(send[c])>>) + Len(Tail(send[c])) :
             q[i] = IF i <= Len(<<Head(send[c])>>) THEN <<Head(send[c])>>[i]
                    ELSE Tail(send[c])[i - Len(<<Head(send[c])>>)]
    BY <1>6, <1>7, ConcatProperties
  <2> HIDE DEF q
  <2>2. /\ Len(<<Head(send[c])>>) = 1 /\ <<Head(send[c])>>[1] = Head(send[c])
        /\ Head(send[c]) = send[c][1]
    BY <1>1
  <2>3. /\ Len(Tail(send[c])) = Len(send[c]) - 1 /\ Len(send[c]) \in Nat \ {0}
        /\ \A i \in 1 .. Len(Tail(send[c])) : Tail(send[c])[i] = send[c][i + 1]
    BY <1>1, <1>2, HeadTailProperties, EmptySeq
  <2>4. Len(q) = Len(send[c]) BY <2>1, <2>2, <2>3
  <2>5. ASSUME NEW i \in 1 .. Len(q) PROVE q[i] = send[c][i]
    <3>1. i \in 1 .. 1 + (Len(send[c]) - 1) BY <2>3, <2>4
    <3>2. CASE i = 1 BY <2>1, <2>2, <2>3, <3>1, <3>2
    <3>3. CASE i # 1
      <4>1. i - 1 \in 1 .. Len(Tail(send[c])) /\ (i - 1) + 1 = i
        BY <2>3, <3>1, <3>3
      <4>2. Tail(send[c])[i - 1] = send[c][i] BY <2>3, <4>1
      <4>3. q[i] = Tail(send[c])[i - 1] BY <2>1, <2>2, <2>3, <3>1, <3>3
      <4>4. QED BY <4>2, <4>3
    <3>4. QED BY <3>2, <3>3
  <2>6. q = send[c] BY <1>1, <2>1, <2>4, <2>5, SeqEqual
  <2>7. QED BY <2>6 DEF q
<1>10. QED BY <1>4, <1>8, <1>9

(* Writing a message leaves the stream, and the stream begins with it.       *)
LEMMA WriteKeepsStream ==
  ASSUME Control, NEW c \in Clients, WriteMessage(c)
  PROVE  Stream(c)' = Stream(c)
<1>1. /\ wire[c] \in Seq(Payloads) /\ send[c] \in Seq(Payloads)
      /\ writer[c] = "writing" /\ hand[c] \in Payloads
  BY StreamTypes DEF WriteMessage
<1>2. /\ writer'[c] = "select" /\ send' = send
      /\ wire'[c] = Append(wire[c], hand[c])
  BY DEF WriteMessage, Control, TypeOK, chanVars
<1>3. Stream(c)' = (Append(wire[c], hand[c]) \o <<>>) \o send[c]
  BY <1>2 DEF Stream
<1>4. Append(wire[c], hand[c]) \in Seq(Payloads)
      /\ Append(wire[c], hand[c]) = wire[c] \o <<hand[c]>>
  BY <1>1, AppendProperties, AppendIsConcat
<1>5. Stream(c)' = Append(wire[c], hand[c]) \o send[c]
  BY <1>3, <1>4, ConcatEmptySeq
<1>6. QED BY <1>1, <1>4, <1>5 DEF Stream

(* A delivery adds the payload Run holds to the stream.                      *)
LEMMA DeliverExtendsStream ==
  ASSUME Control, NEW c \in Clients, Deliver(c)
  PROVE  Stream(c)' = Append(Stream(c), taken[Len(taken)])
<1>1. /\ wire[c] \in Seq(Payloads) /\ send[c] \in Seq(Payloads)
      /\ writer[c] = "writing" => hand[c] \in Payloads
  BY StreamTypes
<1>2. taken # <<>> BY DEF Control, Registered, Deliver
<1> DEFINE e == taken[Len(taken)]
<1>3. e \in Payloads BY <1>2, InHand DEF Control
<1> HIDE DEF e
<1>4. /\ wire' = wire /\ writer' = writer /\ hand' = hand
      /\ send'[c] = Append(send[c], e)
  BY DEF Deliver, Control, TypeOK, clientVars, e
<1> DEFINE h == IF writer[c] = "writing" THEN <<hand[c]>> ELSE <<>>
<1>5. h \in Seq(Payloads) BY <1>1
<1>6. Stream(c)' = (wire[c] \o h) \o Append(send[c], e) BY <1>4 DEF Stream
<1> DEFINE w == wire[c] \o h
<1>7. w \in Seq(Payloads) BY <1>1, <1>5, ConcatProperties
<1>8. Stream(c) = w \o send[c] BY DEF Stream
<1> HIDE DEF w
<1>9. Append(send[c], e) = send[c] \o <<e>> BY <1>1, <1>3, AppendIsConcat
<1>10. w \o (send[c] \o <<e>>) = (w \o send[c]) \o <<e>>
  <2>1. <<e>> \in Seq(Payloads) BY <1>3
  <2>2. QED BY <1>1, <1>7, <2>1, Regroup
<1>11. Append(w \o send[c], e) = (w \o send[c]) \o <<e>>
  <2>1. w \o send[c] \in Seq(Payloads) BY <1>1, <1>7, ConcatProperties
  <2>2. QED BY <1>3, <2>1, AppendIsConcat
<1>12. Stream(c)' = w \o Append(send[c], e) BY <1>6 DEF w
<1>13. QED BY <1>8, <1>9, <1>10, <1>11, <1>12 DEF e

(* Gapless is Served of every client, and payloads taken in order.           *)
LEMMA GaplessServed ==
  Gapless <=> Increasing(taken) /\ \A c \in Clients : Served(c)
BY DEF Gapless, Served, Increasing

(* A step that neither takes a payload nor touches a client's stream, and    *)
(* neither revives its writer nor registers it, serves it as before.         *)
LEMMA Undisturbed ==
  ASSUME Control, Control', NEW c \in Clients, Served(c),
         taken' = taken, joined'[c] = joined[c],
         wire'[c] = wire[c] \/ FollowsTaken(c, wire'[c]),
         writer'[c] # "done" => writer[c] # "done" /\ Stream(c)' = Stream(c),
         c \in clients' => c \in clients /\ (c \in todo' <=> c \in todo)
  PROVE  Served(c)'
<1>1. FollowsTaken(c, wire[c])' BY DEF Served, FollowsTaken
<1>2. writer'[c] # "done" => FollowsTaken(c, Stream(c))'
  BY DEF Served, FollowsTaken
<1>3. ASSUME c \in clients', writer'[c] # "done"
      PROVE  Len(Stream(c)') + (IF c \in todo' THEN 1 ELSE 0)
               = Len(taken') - joined'[c]
  BY <1>3 DEF Served
<1>4. QED BY <1>1, <1>2, <1>3 DEF Served

(* A client not yet served anything that is registered now.                  *)
LEMMA RegisterServed ==
  ASSUME Control, Control', NEW c \in Clients, Register(c)
  PROVE  Served(c)'
<1>1. /\ wire[c] = <<>> /\ send[c] = <<>> /\ writer'[c] = "select"
      /\ wire' = wire /\ send' = send /\ taken' = taken
      /\ joined'[c] = Len(taken) /\ todo' = {}
  BY DEF Register, Control, Registered, TypeOK, hubVars
<1>2. Stream(c)' = (<<>> \o <<>>) \o <<>> BY <1>1 DEF Stream
<1>3. <<>> \o <<>> = <<>>
  <2>1. <<>> \in Seq(Payloads) OBVIOUS
  <2>2. QED BY <2>1, ConcatEmptySeq
<1>4. Stream(c)' = <<>> /\ wire'[c] = <<>> BY <1>1, <1>2, <1>3
<1>5. Len(taken) \in Nat /\ <<>> \in Seq(Payloads) /\ Len(<<>>) = 0
  BY StreamTypes, EmptySeq
<1>6. Follows(joined'[c], <<>>, taken') BY <1>1, <1>5 DEF Follows
<1>7. /\ joined'[c] + Len(<<>>) <= Len(taken')
      /\ <<>> = SubSeq(taken', joined'[c] + 1, joined'[c] + Len(<<>>))
  BY <1>5, <1>6, FollowsIffNext DEF Control
<1>8. FollowsTaken(c, wire[c])' /\ FollowsTaken(c, Stream(c))'
  BY <1>4, <1>7 DEF FollowsTaken
<1>9. Len(Stream(c)') + 0 = Len(taken') - joined'[c] /\ c \notin todo'
  BY <1>1, <1>4, <1>5
<1>10. QED BY <1>8, <1>9 DEF Served

(* Run takes a payload: every registered client now has it to come.          *)
LEMMA TakeServed ==
  ASSUME Control, Control', NEW c \in Clients, Served(c), TakePayload
  PROVE  Served(c)'
<1>1. /\ taken' = Append(taken, Head(broadcast)) /\ todo' = clients
      /\ clients' = clients /\ joined' = joined /\ wire' = wire
      /\ writer' = writer /\ hand' = hand /\ send' = send /\ todo = {}
  BY DEF TakePayload, clientVars, chanVars, Control, Registered
<1>2. /\ wire[c] \in Seq(Payloads) /\ Stream(c) \in Seq(Payloads)
      /\ taken \in Seq(Payloads) /\ joined[c] \in Nat
      /\ Len(Stream(c)) \in Nat /\ Len(taken) \in Nat
  BY StreamTypes
<1>3. Head(broadcast) \in Payloads
  BY Receive DEF TakePayload, Control, TypeOK
<1>4. Len(taken') = Len(taken) + 1 BY <1>1, <1>2, <1>3, AppendProperties
<1>5. ASSUME NEW s \in Seq(Payloads), FollowsTaken(c, s)
      PROVE  /\ joined'[c] + Len(s) <= Len(taken')
             /\ s = SubSeq(taken', joined'[c] + 1, joined'[c] + Len(s))
  <2>1. Follows(joined[c], s, taken) BY <1>5, FollowsIff DEF Control
  <2>2. Follows(joined[c], s, Append(taken, Head(broadcast)))
    BY <1>2, <1>3, <2>1, FollowsGrow
  <2>3. Follows(joined'[c], s, taken') BY <1>1, <2>2
  <2>4. QED BY <2>3, FollowsIffNext DEF Control
<1>6. Stream(c)' = Stream(c) BY <1>1 DEF Stream
<1>7. FollowsTaken(c, wire[c])'
  BY <1>1, <1>2, <1>5 DEF Served, FollowsTaken
<1>8. writer'[c] # "done" => FollowsTaken(c, Stream(c))'
  BY <1>1, <1>2, <1>5, <1>6 DEF Served, FollowsTaken
<1>9. ASSUME c \in clients', writer'[c] # "done"
      PROVE  Len(Stream(c)') + (IF c \in todo' THEN 1 ELSE 0)
               = Len(taken') - joined'[c]
  <2>1. Len(Stream(c)) + 0 = Len(taken) - joined[c] BY <1>1, <1>9 DEF Served
  <2>2. QED BY <1>1, <1>2, <1>4, <1>6, <1>9, <2>1
<1>10. QED BY <1>7, <1>8, <1>9 DEF Served

(* A delivery: the client gets the payload it had to come.                   *)
LEMMA DeliverServed ==
  ASSUME Control, Control', NEW c \in Clients, Served(c), Deliver(c)
  PROVE  Served(c)'
<1>1. /\ taken' = taken /\ joined' = joined /\ wire' = wire /\ writer' = writer
      /\ clients' = clients /\ c \notin todo' /\ c \in todo /\ c \in clients
  BY DEF Deliver, clientVars, Control, Registered
<1>2. /\ Stream(c) \in Seq(Payloads) /\ taken \in Seq(Payloads)
      /\ joined[c] \in Nat /\ Len(Stream(c)) \in Nat /\ Len(taken) \in Nat
  BY StreamTypes
<1>3. Stream(c)' = Append(Stream(c), taken[Len(taken)]) BY DeliverExtendsStream
<1>4. FollowsTaken(c, wire[c])' BY <1>1 DEF Served, FollowsTaken
<1>5. ASSUME writer[c] # "done"
      PROVE  /\ FollowsTaken(c, Stream(c))'
             /\ Len(Stream(c)') = Len(taken') - joined'[c]
  <2>1. Len(Stream(c)) + 1 = Len(taken) - joined[c] BY <1>1, <1>5 DEF Served
  <2>2. joined[c] + Len(Stream(c)) + 1 = Len(taken) BY <1>2, <2>1
  <2>3. Follows(joined[c], Stream(c), taken)
    BY <1>2, <1>5, FollowsIff DEF Served, Control
  <2>4. Follows(joined[c], Append(Stream(c), taken[Len(taken)]), taken)
    BY <1>2, <2>2, <2>3, FollowsExtend
  <2>5. taken[Len(taken)] \in Payloads
    <3>1. taken # <<>> BY DEF Deliver, Control, Registered
    <3>2. QED BY <3>1, InHand DEF Control
  <2>6. /\ Append(Stream(c), taken[Len(taken)]) \in Seq(Payloads)
        /\ Len(Append(Stream(c), taken[Len(taken)])) = Len(Stream(c)) + 1
    BY <1>2, <2>5, AppendProperties
  <2>7. FollowsTaken(c, Append(Stream(c), taken[Len(taken)]))
    BY <2>4, <2>6, FollowsIff DEF Control
  <2>8. QED BY <1>1, <1>2, <1>3, <2>1, <2>6, <2>7 DEF FollowsTaken
<1>6. QED BY <1>1, <1>2, <1>4, <1>5 DEF Served

(* A write: what is written now is the beginning of what was being served.   *)
LEMMA WriteServed ==
  ASSUME Control, Control', NEW c \in Clients, Served(c), WriteMessage(c)
  PROVE  Served(c)'
<1>1. /\ taken' = taken /\ joined' = joined /\ todo' = todo /\ clients' = clients
      /\ writer[c] = "writing"
  BY DEF WriteMessage, hubVars, chanVars
<1>2. Stream(c)' = Stream(c) BY WriteKeepsStream
<1>3. /\ Stream(c) \in Seq(Payloads) /\ taken \in Seq(Payloads) /\ joined[c] \in Nat
  BY StreamTypes
<1>4. wire'[c] \in Seq(Payloads) BY DEF Control, TypeOK, Payloads
<1>5. PICK u \in Seq(Payloads) : Stream(c) = wire'[c] \o u
  <2>1. \E u \in Seq(Payloads) : Stream(c)' = wire'[c] \o u
    <3>1. /\ wire'[c] \in Seq(Payloads) /\ send'[c] \in Seq(Payloads)
          /\ writer'[c] = "select"
      BY DEF WriteMessage, Control, TypeOK, Payloads
    <3>2. Stream(c)' = (wire'[c] \o <<>>) \o send'[c] BY <3>1 DEF Stream
    <3>3. Stream(c)' = wire'[c] \o send'[c] BY <3>1, <3>2, ConcatEmptySeq
    <3>4. QED BY <3>1, <3>3
  <2>2. QED BY <1>2, <2>1
<1>6. Follows(joined[c], Stream(c), taken)
  BY <1>1, <1>3, FollowsIff DEF Served, Control
<1>7. Follows(joined[c], wire'[c], taken)
  BY <1>3, <1>4, <1>5, <1>6, FollowsPrefix
<1>8. FollowsTaken(c, wire'[c]) BY <1>4, <1>7, FollowsIff DEF Control
<1>9. QED BY <1>1, <1>2, <1>8, Undisturbed

(* No step breaks a client's stream.                                         *)
LEMMA GaplessStep ==
  ASSUME Control, Control', Ordered, Ordered', Gapless, [Next]_vars
  PROVE  Gapless'
<1>1. SUFFICES ASSUME NEW d \in Clients PROVE Served(d)'
  BY DEF Gapless, Served, Ordered, Increasing
<1>2. Served(d) BY GaplessServed
<1>3. CASE TakePayload BY <1>2, <1>3, TakeServed
<1>4. ASSUME NEW c \in Clients, Register(c) PROVE Served(d)'
  <2>1. CASE c = d BY <1>4, <2>1, RegisterServed
  <2>2. CASE c # d
    <3>1. /\ taken' = taken /\ joined'[d] = joined[d] /\ wire' = wire
          /\ writer'[d] = writer[d] /\ todo' = todo
          /\ d \in clients' => d \in clients
      BY <1>4, <2>2 DEF Register, Control, TypeOK, hubVars
    <3>2. Stream(d)' = Stream(d) BY <1>4, <3>1 DEF Stream, Register
    <3>3. QED BY <1>2, <3>1, <3>2, Undisturbed
  <2>3. QED BY <2>1, <2>2
<1>5. ASSUME NEW c \in Clients, Deliver(c) PROVE Served(d)'
  <2>1. CASE c = d BY <1>2, <1>5, <2>1, DeliverServed
  <2>2. CASE c # d
    <3>1. /\ taken' = taken /\ joined' = joined /\ wire' = wire
          /\ writer' = writer /\ hand' = hand /\ send'[d] = send[d]
          /\ d \in todo' <=> d \in todo
          /\ clients' = clients
      BY <1>5, <2>2 DEF Deliver, Control, TypeOK, clientVars
    <3>2. Stream(d)' = Stream(d) BY <3>1 DEF Stream
    <3>3. QED BY <1>2, <3>1, <3>2, Undisturbed
  <2>3. QED BY <2>1, <2>2
<1>6. ASSUME NEW c \in Clients, CutSlow(c) PROVE Served(d)'
  <2>1. /\ taken' = taken /\ joined' = joined /\ wire' = wire
        /\ writer' = writer /\ hand' = hand /\ send' = send
        /\ d \in clients' => d \in clients /\ (d \in todo' <=> d \in todo)
    BY <1>6 DEF CutSlow, clientVars
  <2>2. Stream(d)' = Stream(d) BY <2>1 DEF Stream
  <2>3. QED BY <1>2, <2>1, <2>2, Undisturbed
<1>7. ASSUME NEW c \in Clients, TakeMessage(c) PROVE Served(d)'
  <2>1. /\ taken' = taken /\ joined' = joined /\ wire' = wire
        /\ writer'[d] # "done" => writer[d] # "done"
        /\ todo' = todo /\ clients' = clients
    BY <1>7 DEF TakeMessage, Control, TypeOK, hubVars
  <2>2. Stream(d)' = Stream(d)
    <3>1. CASE c = d BY <1>7, <3>1, TakeKeepsStream
    <3>2. CASE c # d
      BY <1>7, <3>2 DEF TakeMessage, Stream, Control, TypeOK
    <3>3. QED BY <3>1, <3>2
  <2>3. QED BY <1>2, <2>1, <2>2, Undisturbed
<1>8. ASSUME NEW c \in Clients, WriteMessage(c) PROVE Served(d)'
  <2>1. CASE c = d BY <1>2, <1>8, <2>1, WriteServed
  <2>2. CASE c # d
    <3>1. /\ taken' = taken /\ joined' = joined /\ wire'[d] = wire[d]
          /\ writer'[d] = writer[d] /\ hand' = hand /\ send' = send
          /\ todo' = todo /\ clients' = clients
      BY <1>8, <2>2 DEF WriteMessage, Control, TypeOK, hubVars, chanVars
    <3>2. Stream(d)' = Stream(d) BY <3>1 DEF Stream
    <3>3. QED BY <1>2, <3>1, <3>2, Undisturbed
  <2>3. QED BY <2>1, <2>2
<1>9. ASSUME NEW c \in Clients, WriterReturns(c) PROVE Served(d)'
  <2>1. /\ taken' = taken /\ joined' = joined /\ wire' = wire
        /\ hand' = hand /\ send' = send /\ todo' = todo /\ clients' = clients
        /\ writer'[d] # "done" => writer'[d] = writer[d]
    BY <1>9 DEF WriterReturns, Control, TypeOK, hubVars, chanVars
  <2>2. writer'[d] # "done" => Stream(d)' = Stream(d) BY <2>1 DEF Stream
  <2>3. QED BY <1>2, <2>1, <2>2, Undisturbed
<1>10. ASSUME NEW c \in Clients, Unregister(c) PROVE Served(d)'
  <2>1. /\ taken' = taken /\ joined' = joined /\ wire' = wire
        /\ writer' = writer /\ hand' = hand /\ send' = send /\ todo' = todo
        /\ d \in clients' => d \in clients
    BY <1>10 DEF Unregister, hubVars
  <2>2. Stream(d)' = Stream(d) BY <2>1 DEF Stream
  <2>3. QED BY <1>2, <2>1, <2>2, Undisturbed
<1>11. ASSUME UNCHANGED <<taken, todo, clients, joined, wire, writer, hand, send>>
       PROVE  Served(d)'
  <2>1. Stream(d)' = Stream(d) BY <1>11 DEF Stream
  <2>2. QED BY <1>2, <1>11, <2>1, Undisturbed
<1>12. ASSUME BroadcastPayload \/ CutConnection \/ DeliverDone
              \/ (\E c \in Clients : Upgrade(c) \/ ReadFails(c) \/ CloseConnection(c))
              \/ UNCHANGED vars
       PROVE  UNCHANGED <<taken, todo, clients, joined, wire, writer, hand, send>>
  BY <1>12 DEF BroadcastPayload, CutConnection, DeliverDone, Upgrade, ReadFails,
               CloseConnection, vars, hubVars, clientVars, chanVars
<1>13. QED
  BY <1>3, <1>4, <1>5, <1>6, <1>7, <1>8, <1>9, <1>10, <1>11, <1>12
  DEF Next, HubNext, ClientNext

-----------------------------------------------------------------------------
(* Theorems of the specification.                                           *)

(* Before anything happens.                                                  *)
LEMMA InitInv ==
  ASSUME Init
  PROVE  Control /\ Ordered /\ Gapless
<1> USE HubAssumption
<1>1. Control
  <2>1. <<>> \in Seq(Payloads) /\ Len(<<>>) = 0 OBVIOUS
  <2>2. TypeOK
    <3>1. /\ broadcast \in Seq(Payloads) /\ Len(broadcast) <= BroadcastCap
          /\ taken \in Seq(Payloads)
      BY <2>1 DEF Init
    <3>2. /\ send \in [Clients -> Seq(Payloads)]
          /\ wire \in [Clients -> Seq(Payloads)]
          /\ \A c \in Clients : Len(send[c]) <= SendCap
      BY <2>1 DEF Init
    <3>3. handler \in [Clients -> {"none", "registering", "reading",
                                   "unregistering", "closing", "done"}]
      BY DEF Init
    <3>4. /\ writer \in [Clients -> {"none", "select", "writing", "done"}]
          /\ hand \in [Clients -> 0 .. MaxPayloads]
          /\ joined \in [Clients -> Nat]
      BY DEF Init
    <3>5. /\ sendClosed \in [Clients -> BOOLEAN] /\ panicked \in BOOLEAN
          /\ connOpen \in [Clients -> BOOLEAN]
      BY DEF Init
    <3>6. /\ calls \in 0 .. MaxPayloads
          /\ hubPc \in {"select", "deliver", "cut"}
          /\ todo \subseteq Clients /\ clients \subseteq Clients
          /\ victim \in Clients \cup {NoClient}
      BY DEF Init
    <3>7. QED BY <3>1, <3>2, <3>3, <3>4, <3>5, <3>6 DEF TypeOK
  <2>3. NeverPanics BY DEF Init, NeverPanics
  <2>4. Registered BY DEF Init, Registered
  <2>5. QED BY <2>2, <2>3, <2>4 DEF Control
<1>2. Ordered BY DEF Init, Ordered, Increasing
<1>3. ASSUME NEW c \in Clients PROVE Served(c)
  <2>1. /\ wire[c] = <<>> /\ taken = <<>> /\ joined[c] = 0 /\ c \notin todo
        /\ Stream(c) = (<<>> \o <<>>) \o <<>>
    BY DEF Init, Stream
  <2>2. <<>> \in Seq(Payloads) /\ Len(<<>>) = 0 OBVIOUS
  <2>3. <<>> \o <<>> = <<>> BY <2>2, ConcatEmptySeq
  <2>4. Stream(c) = <<>> BY <2>1, <2>3
  <2>5. Follows(0, <<>>, <<>>) BY <2>2 DEF Follows
  <2>6. FollowsTaken(c, <<>>)
    BY <1>1, <2>1, <2>2, <2>5, FollowsIff DEF Control
  <2>7. QED BY <2>1, <2>2, <2>4, <2>6 DEF Served
<1>4. QED BY <1>1, <1>2, <1>3, GaplessServed DEF Ordered

(* Hub's inductive invariant: types, no panic, who is registered, the order   *)
(* of payloads and the stream of every client.                              *)
THEOREM HubInvariant == Spec => []IndInv
<1>1. Init => IndInv BY InitInv DEF IndInv, Control
<1>2. ASSUME IndInv, [Next]_vars PROVE IndInv'
  <2>1. Control /\ Ordered /\ Gapless BY <1>2 DEF IndInv, Control
  <2>2. Control' BY <1>2, <2>1, ControlStep
  <2>3. Ordered' BY <1>2, <2>1, OrderStep DEF Control
  <2>4. Gapless' BY <1>2, <2>1, <2>2, <2>3, GaplessStep
  <2>5. QED BY <2>2, <2>3, <2>4 DEF IndInv, Control
<1>3. QED BY <1>1, <1>2, PTL DEF Spec

(* Types of the hub, of the channels and of both goroutines of a connection. *)
THEOREM HubTypeCorrect == Spec => []TypeOK
<1>1. IndInv => TypeOK BY DEF IndInv
<1>2. QED BY <1>1, HubInvariant, PTL

(* Neither Run's send nor either close of a client's channel meets a closed   *)
(* channel, for any number of clients and any interleaving of Run's          *)
(* eviction with the reader's unregistration.                                *)
THEOREM HubNeverPanics == Spec => []NeverPanics
<1>1. IndInv => NeverPanics BY DEF IndInv
<1>2. QED BY <1>1, HubInvariant, PTL

(* Every client is written a gapless stretch of the stream from its           *)
(* registration on, and has all of the rest to come until it is cut off.      *)
THEOREM StreamGapless == Spec => []Gapless
<1>1. IndInv => Gapless BY DEF IndInv
<1>2. QED BY <1>1, HubInvariant, PTL

-----------------------------------------------------------------------------
(* Proxy: the position of a line.                                           *)

(* The position of an element of a sequence without repetitions.             *)
LEMMA PositionOf ==
  ASSUME NEW S, NEW s \in Seq(S), IsInjective(s), NEW i \in 1 .. Len(s)
  PROVE  Position(s, s[i]) = i
<1>1. DOMAIN s = 1 .. Len(s) BY LenProperties
<1>2. \A k \in DOMAIN s : s[k] = s[i] => k = i BY <1>1 DEF IsInjective
<1>3. QED BY <1>1, <1>2 DEF Position

(* It stays when the sequence grows by a new element.                        *)
LEMMA PositionGrow ==
  ASSUME NEW S, NEW s \in Seq(S), NEW e \in S, IsInjective(Append(s, e)),
         IsInjective(s), NEW x \in Range(s)
  PROVE  /\ x \in Range(Append(s, e))
         /\ Position(Append(s, e), x) = Position(s, x)
<1>1. /\ Append(s, e) \in Seq(S) /\ Len(Append(s, e)) = Len(s) + 1
      /\ \A i \in 1 .. Len(s) : Append(s, e)[i] = s[i]
  BY AppendProperties
<1>2. Len(s) \in Nat /\ DOMAIN s = 1 .. Len(s) /\ DOMAIN Append(s, e) = 1 .. Len(s) + 1
  BY <1>1, LenProperties
<1>3. PICK i \in 1 .. Len(s) : s[i] = x BY <1>2 DEF Range
<1>4. i \in 1 .. Len(Append(s, e)) /\ Append(s, e)[i] = x BY <1>1, <1>2, <1>3
<1>5. Position(s, x) = i BY <1>3, PositionOf
<1>6. Position(Append(s, e), x) = i BY <1>1, <1>4, PositionOf
<1>7. QED BY <1>1, <1>2, <1>4, <1>5, <1>6 DEF Range
-----------------------------------------------------------------------------
(* Proxy: one direction, as sequences: s was sent, g is what the receiver    *)
(* has read, q what waits for it, p what waits for the loop, which stands    *)
(* at pc with line l in its hands.                                          *)

(* Lines the loop has reported, and lines it is done with.                   *)
ReportedOf(s, p, pc) == Len(s) - Len(p) - (IF pc = "report" THEN 1 ELSE 0)
ForwardedOf(s, p, pc) == Len(s) - Len(p) - (IF pc \in {"report", "forward"} THEN 1 ELSE 0)

(* What was read, what waits for the receiver and what waits for the loop    *)
(* are stretches of what was sent, with the line in hand between the last    *)
(* two.                                                                     *)
Copying(s, g, q, p, pc, l) ==
  /\ Len(p) <= Len(s)
  /\ Follows(0, g, s)
  /\ Follows(Len(g), q, s)
  /\ Follows(Len(s) - Len(p), p, s)
  /\ pc \in {"report", "forward"} => Len(p) < Len(s) /\ l = s[Len(s) - Len(p)]
  /\ Len(g) + Len(q) <= ForwardedOf(s, p, pc)

(* Nothing is missing.                                                      *)
Complete(s, g, q, p, pc) == Len(g) + Len(q) = ForwardedOf(s, p, pc)

(* The sender puts a line into the loop's pipe.                             *)
LEMMA CopyPut ==
  ASSUME NEW S, NEW s \in Seq(S), NEW g \in Seq(S), NEW q \in Seq(S), NEW p \in Seq(S),
         NEW pc, NEW l, NEW e \in S,
         Copying(s, g, q, p, pc, l)
  PROVE  /\ Copying(Append(s, e), g, q, Append(p, e), pc, l)
         /\ Complete(s, g, q, p, pc) => Complete(Append(s, e), g, q, Append(p, e), pc)
         /\ ReportedOf(Append(s, e), Append(p, e), pc) = ReportedOf(s, p, pc)
<1> DEFINE t == Append(s, e)
<1> DEFINE r == Append(p, e)
<1>1. Len(s) \in Nat /\ Len(g) \in Nat /\ Len(q) \in Nat /\ Len(p) \in Nat
  BY LenProperties
<1>2. /\ t \in Seq(S) /\ Len(t) = Len(s) + 1 /\ \A i \in 1 .. Len(s) : t[i] = s[i]
      /\ r \in Seq(S) /\ Len(r) = Len(p) + 1
  BY AppendProperties
<1>3. Len(s) - Len(p) \in Nat /\ Len(s) - Len(p) + Len(p) = Len(s)
  BY <1>1 DEF Copying
<1>4. Follows(0, g, t) /\ Follows(Len(g), q, t) BY <1>1, FollowsGrow DEF Copying
<1>5. Follows(Len(s) - Len(p), r, t) BY <1>3, FollowsBoth DEF Copying
<1> HIDE DEF t, r
<1>6. Len(t) - Len(r) = Len(s) - Len(p) BY <1>1, <1>2
<1>7. ForwardedOf(t, r, pc) = ForwardedOf(s, p, pc) /\ ReportedOf(t, r, pc) = ReportedOf(s, p, pc)
  BY <1>6 DEF ForwardedOf, ReportedOf
<1>8. ASSUME pc \in {"report", "forward"} PROVE Len(r) < Len(t) /\ l = t[Len(t) - Len(r)]
  <2>1. Len(p) < Len(s) /\ l = s[Len(s) - Len(p)] BY <1>8 DEF Copying
  <2>2. Len(s) - Len(p) \in 1 .. Len(s) BY <2>1, <1>1
  <2>3. QED BY <2>1, <2>2, <1>1, <1>2, <1>6
<1>9. Len(r) <= Len(t) BY <1>1, <1>2 DEF Copying
<1>10. Copying(t, g, q, r, pc, l)
  BY <1>4, <1>5, <1>6, <1>7, <1>8, <1>9 DEF Copying
<1>11. QED BY <1>7, <1>10 DEF t, r, Complete

(* The receiver takes a line: the next one it has not had.                   *)
LEMMA CopyTake ==
  ASSUME NEW S, NEW s \in Seq(S), NEW g \in Seq(S), NEW q \in Seq(S), NEW p \in Seq(S),
         NEW pc, NEW l,
         Copying(s, g, q, p, pc, l), q # <<>>
  PROVE  /\ Len(g) < Len(s) /\ Head(q) = s[Len(g) + 1]
         /\ Copying(s, Append(g, Head(q)), Tail(q), p, pc, l)
         /\ Complete(s, g, q, p, pc) => Complete(s, Append(g, Head(q)), Tail(q), p, pc)
<1>1. Len(s) \in Nat /\ Len(g) \in Nat /\ Len(q) \in Nat \ {0} /\ Len(p) \in Nat
  BY LenProperties, EmptySeq
<1>2. Head(q) = s[Len(g) + 1] /\ Follows(Len(g) + 1, Tail(q), s)
  BY <1>1, FollowsTail DEF Copying
<1>3. Len(Tail(q)) = Len(q) - 1 BY HeadTailProperties
<1>4. Len(g) + Len(q) <= Len(s) BY DEF Copying, Follows
<1>5. Len(g) < Len(s) BY <1>1, <1>4
<1>6. Len(g) + 1 \in 1 .. Len(s) BY <1>1, <1>5
<1>7. Len(Append(g, Head(q))) = Len(g) + 1 BY HeadTailProperties, AppendProperties
<1>8. Follows(0, Append(g, Head(q)), s)
  <2>1. 0 + Len(g) < Len(s) /\ 0 + Len(g) + 1 = Len(g) + 1 BY <1>1, <1>5
  <2>2. Follows(0, Append(g, s[0 + Len(g) + 1]), s) BY <2>1, FollowsNext DEF Copying
  <2>3. QED BY <2>1, <2>2, <1>2
<1>9. Len(Append(g, Head(q))) + Len(Tail(q)) = Len(g) + Len(q)
  BY <1>1, <1>3, <1>7
<1>10. QED BY <1>2, <1>5, <1>7, <1>8, <1>9 DEF Copying, Complete

(* The loop takes the head of its pipe in hand.                              *)
LEMMA CopyScan ==
  ASSUME NEW S, NEW s \in Seq(S), NEW g \in Seq(S), NEW q \in Seq(S), NEW p \in Seq(S),
         NEW l, Copying(s, g, q, p, "scan", l), p # <<>>
  PROVE  /\ Copying(s, g, q, Tail(p), "report", Head(p))
         /\ Complete(s, g, q, p, "scan") => Complete(s, g, q, Tail(p), "report")
         /\ ReportedOf(s, Tail(p), "report") = ReportedOf(s, p, "scan")
<1>1. Len(s) \in Nat /\ Len(g) \in Nat /\ Len(q) \in Nat /\ Len(p) \in Nat \ {0}
  BY LenProperties, EmptySeq
<1>2. Len(p) <= Len(s) /\ Len(s) - Len(p) \in Nat BY <1>1 DEF Copying
<1> DEFINE r == Tail(p)
<1>3. Len(r) = Len(p) - 1 BY HeadTailProperties
<1>4. Head(p) = s[Len(s) - Len(p) + 1] /\ Follows(Len(s) - Len(p) + 1, r, s)
  BY <1>2, FollowsTail DEF Copying
<1> HIDE DEF r
<1>5. Len(s) - Len(r) = Len(s) - Len(p) + 1 /\ Len(r) < Len(s) BY <1>1, <1>2, <1>3
<1>6. ForwardedOf(s, r, "report") = ForwardedOf(s, p, "scan")
  BY <1>1, <1>5 DEF ForwardedOf
<1>7. ReportedOf(s, r, "report") = ReportedOf(s, p, "scan")
  BY <1>1, <1>5 DEF ReportedOf
<1>8. Len(r) <= Len(s) BY <1>1, <1>3, <1>5
<1>9. Copying(s, g, q, r, "report", Head(p))
  BY <1>4, <1>5, <1>6, <1>8 DEF Copying
<1>10. QED BY <1>6, <1>7, <1>9 DEF r, Complete

(* It has been reported, written to the socket or not.                       *)
LEMMA CopyReport ==
  ASSUME NEW s, NEW g, NEW q, NEW p, NEW l,
         Copying(s, g, q, p, "report", l)
  PROVE  /\ Copying(s, g, q, p, "forward", l)
         /\ Complete(s, g, q, p, "report") => Complete(s, g, q, p, "forward")
BY DEF Copying, Complete, ForwardedOf

(* It is written to the receiver's pipe.                                    *)
LEMMA CopyWrite ==
  ASSUME NEW S, NEW s \in Seq(S), NEW g \in Seq(S), NEW q \in Seq(S), NEW p \in Seq(S),
         NEW l, Copying(s, g, q, p, "forward", l), Complete(s, g, q, p, "forward")
  PROVE  /\ Copying(s, g, Append(q, l), p, "scan", l)
         /\ Complete(s, g, Append(q, l), p, "scan")
         /\ ReportedOf(s, p, "scan") = ReportedOf(s, p, "forward")
<1>1. Len(s) \in Nat /\ Len(g) \in Nat /\ Len(q) \in Nat /\ Len(p) \in Nat
  BY LenProperties
<1>2. /\ Len(p) < Len(s) /\ l = s[Len(s) - Len(p)]
      /\ Len(g) + Len(q) = ForwardedOf(s, p, "forward")
  BY DEF Copying, Complete
<1>3. Len(g) + Len(q) + 1 = Len(s) - Len(p) BY <1>1, <1>2 DEF ForwardedOf
<1>4. Len(s) - Len(p) \in 1 .. Len(s) /\ Len(g) + Len(q) < Len(s) BY <1>1, <1>2, <1>3
<1>5. Follows(Len(g), Append(q, l), s) BY <1>1, <1>2, <1>3, <1>4, FollowsNext DEF Copying
<1>6. l \in S BY <1>2, <1>4, ElementOfSeq
<1>7. Len(Append(q, l)) = Len(q) + 1 BY <1>6, AppendProperties
<1>8. Len(g) + Len(Append(q, l)) = ForwardedOf(s, p, "scan")
  BY <1>1, <1>3, <1>7 DEF ForwardedOf
<1>9. Len(g) + Len(Append(q, l)) <= ForwardedOf(s, p, "scan")
  BY <1>1, <1>3, <1>7 DEF ForwardedOf
<1>10. ReportedOf(s, p, "scan") = ReportedOf(s, p, "forward") BY DEF ReportedOf
<1>11. QED BY <1>5, <1>8, <1>9, <1>10 DEF Copying, Complete

(* Or thrown away, when the receiver has ended.                              *)
LEMMA CopyDrop ==
  ASSUME NEW S, NEW s \in Seq(S), NEW g \in Seq(S), NEW q \in Seq(S), NEW p \in Seq(S),
         NEW l, Copying(s, g, q, p, "forward", l)
  PROVE  /\ Copying(s, g, q, p, "scan", l)
         /\ ReportedOf(s, p, "scan") = ReportedOf(s, p, "forward")
<1>1. Len(s) \in Nat /\ Len(g) \in Nat /\ Len(q) \in Nat /\ Len(p) \in Nat
  BY LenProperties
<1>2. Len(g) + Len(q) <= ForwardedOf(s, p, "forward") BY DEF Copying
<1>3. Len(g) + Len(q) <= ForwardedOf(s, p, "scan") BY <1>1, <1>2 DEF ForwardedOf
<1>4. ReportedOf(s, p, "scan") = ReportedOf(s, p, "forward") BY DEF ReportedOf
<1>5. QED BY <1>3, <1>4 DEF Copying

(* The loop ends.                                                           *)
LEMMA CopyEnds ==
  ASSUME NEW s, NEW g, NEW q, NEW p, NEW l, Copying(s, g, q, p, "scan", l)
  PROVE  /\ Copying(s, g, q, p, "done", l)
         /\ Complete(s, g, q, p, "scan") => Complete(s, g, q, p, "done")
         /\ ReportedOf(s, p, "done") = ReportedOf(s, p, "scan")
BY DEF Copying, Complete, ForwardedOf, ReportedOf

(* The line in hand is the last one that was taken out of the pipe.          *)
LEMMA CopyInHand ==
  ASSUME NEW S, NEW s \in Seq(S), NEW g, NEW q, NEW p \in Seq(S),
         NEW pc, NEW l, pc \in {"report", "forward"},
         Copying(s, g, q, p, pc, l)
  PROVE  /\ ReportedOf(s, p, "forward") \in 1 .. Len(s)
         /\ ReportedOf(s, p, "report") < ReportedOf(s, p, "forward")
         /\ l = s[ReportedOf(s, p, "forward")]
         /\ l \in S
<1>1. Len(s) \in Nat /\ Len(p) \in Nat BY LenProperties
<1>2. Len(p) < Len(s) /\ l = s[Len(s) - Len(p)] BY DEF Copying
<1>3. Len(s) - Len(p) \in 1 .. Len(s) BY <1>1, <1>2
<1>4. /\ ReportedOf(s, p, "forward") = Len(s) - Len(p)
      /\ ReportedOf(s, p, "report") < ReportedOf(s, p, "forward")
  BY <1>1 DEF ReportedOf
<1>5. QED BY <1>2, <1>3, <1>4, ElementOfSeq

(* Nothing is twice in a pipe when nothing was sent twice.                   *)
LEMMA CopyInjective ==
  ASSUME NEW S, NEW s \in Seq(S), NEW g \in Seq(S), NEW q \in Seq(S), NEW p \in Seq(S),
         NEW pc, NEW l, Copying(s, g, q, p, pc, l), IsInjective(s)
  PROVE  IsInjective(g) /\ IsInjective(q) /\ IsInjective(p)
<1>1. Len(s) \in Nat /\ Len(g) \in Nat /\ Len(q) \in Nat /\ Len(p) \in Nat
  BY LenProperties
<1>2. Len(s) - Len(p) \in Nat BY <1>1 DEF Copying
<1>3. QED BY <1>1, <1>2, FollowsInjective DEF Copying

-----------------------------------------------------------------------------
(* Proxy: the invariant.                                                    *)

(* Nothing is missing of the answers, nor of the requests to a server that   *)
(* has not ended.                                                           *)
Copied(d) ==
  /\ Copying(sent[d], got[d], sink[d], source[d], loop[d], line[d])
  /\ d = "response" \/ serverUp => Complete(sent[d], got[d], sink[d], source[d], loop[d])
Copies == \A d \in Directions : Copied(d)

Reported(d) == ReportedOf(sent[d], source[d], loop[d])

(* Requests are numbered, and only a request that was read is answered.      *)
Answered ==
  /\ \A i \in DOMAIN sent["request"] : sent["request"][i] = i
  /\ IsInjective(sent["response"])
  /\ Range(sent["response"]) \subseteq Range(got["request"])

(* A report that was decoded is of a line that was sent and reported.        *)
Mirrored ==
  \A i \in DOMAIN decoded :
    /\ decoded[i][2] \in Range(sent[decoded[i][1]])
    /\ Position(sent[decoded[i][1]], decoded[i][2]) <= Reported(decoded[i][1])

(* The type of a direction's pipes.                                         *)
LEMMA PipeTypes ==
  ASSUME ProxyTypeOK, NEW d \in Directions
  PROVE  /\ sent[d] \in Seq(Lines) /\ got[d] \in Seq(Lines)
         /\ source[d] \in Seq(Lines) /\ sink[d] \in Seq(Lines)
         /\ Len(sent[d]) \in Nat /\ Len(got[d]) \in Nat
         /\ Len(source[d]) \in Nat /\ Len(sink[d]) \in Nat
         /\ DOMAIN sent[d] = 1 .. Len(sent[d]) /\ DOMAIN got[d] = 1 .. Len(got[d])
         /\ IsInjective(sent[d]) /\ IsInjective(got[d])
         /\ IsInjective(source[d]) /\ IsInjective(sink[d])
<1>1. /\ sent[d] \in Seq(Lines) /\ got[d] \in Seq(Lines)
      /\ source[d] \in Seq(Lines) /\ sink[d] \in Seq(Lines)
      /\ IsInjective(sent[d]) /\ IsInjective(got[d])
      /\ IsInjective(source[d]) /\ IsInjective(sink[d])
  BY DEF ProxyTypeOK
<1>2. QED BY <1>1, LenProperties

(* The parts of the type that no stretch gives.                             *)
Typed ==
  /\ agent \in {"open", "closedStdin", "gone"}
  /\ serverUp \in BOOLEAN
  /\ \A s \in {sent, got, source, sink} : s \in [Directions -> Seq(Lines)]
  /\ \A d \in Directions : Len(source[d]) <= PipeCap /\ Len(sink[d]) <= PipeCap
  /\ loop \in [Directions -> {"scan", "report", "forward", "done"}]
  /\ line \in [Directions -> Lines \cup {NoLine}]
  /\ cancelled \in BOOLEAN /\ interrupted \in BOOLEAN
  /\ mainPc \in {"waiting", "reaping", "closing", "exited", "killed"}
  /\ conn \in {"nil", "drained", "full"}
  /\ torn \in BOOLEAN
  /\ decoded \in Seq(Directions \X Lines)

(* Nothing is twice in a pipe because nothing was sent twice.               *)
LEMMA TypedIsType ==
  ASSUME Typed, Copies, \A d \in Directions : IsInjective(sent[d])
  PROVE  ProxyTypeOK
<1>1. ASSUME NEW d \in Directions
      PROVE  IsInjective(got[d]) /\ IsInjective(sink[d]) /\ IsInjective(source[d])
  <2>1. /\ sent[d] \in Seq(Lines) /\ got[d] \in Seq(Lines)
        /\ source[d] \in Seq(Lines) /\ sink[d] \in Seq(Lines)
    BY DEF Typed
  <2>2. QED BY <2>1, CopyInjective DEF Copies, Copied
<1>2. QED BY <1>1 DEF Typed, ProxyTypeOK

(* The types, step by step.                                                  *)
LEMMA TypedInit ==
  ASSUME ProxyInit
  PROVE  Typed
<1>1. <<>> \in Seq(Lines) /\ Len(<<>>) = 0 /\ <<>> \in Seq(Directions \X Lines)
  BY EmptySeq
<1>2. PipeCap \in Nat BY ProxyAssumption
<1>3. \A s \in {sent, got, source, sink} : s \in [Directions -> Seq(Lines)]
  BY <1>1 DEF ProxyInit
<1>4. \A d \in Directions : Len(source[d]) <= PipeCap /\ Len(sink[d]) <= PipeCap
  BY <1>1, <1>2 DEF ProxyInit
<1>5. QED BY <1>1, <1>3, <1>4 DEF ProxyInit, Typed, Connect

LEMMA PutTyped ==
  ASSUME Typed, NEW d \in Directions, NEW l \in Lines, Put(d, l)
  PROVE  /\ sent' \in [Directions -> Seq(Lines)]
         /\ source' \in [Directions -> Seq(Lines)]
         /\ \A x \in Directions : Len(source'[x]) <= PipeCap
<1>1. sent[d] \in Seq(Lines) /\ source[d] \in Seq(Lines) BY DEF Typed
<1>2. /\ Append(sent[d], l) \in Seq(Lines) /\ Append(source[d], l) \in Seq(Lines)
      /\ Len(Append(source[d], l)) = Len(source[d]) + 1
      /\ Len(source[d]) \in Nat
  BY <1>1, AppendProperties, LenProperties
<1>3. PipeCap \in Nat BY ProxyAssumption
<1>4. QED BY <1>1, <1>2, <1>3 DEF Put, HasRoom, Typed

LEMMA TakeTyped ==
  ASSUME Typed, NEW d \in Directions, Take(d)
  PROVE  /\ got' \in [Directions -> Seq(Lines)]
         /\ sink' \in [Directions -> Seq(Lines)]
         /\ \A x \in Directions : Len(sink'[x]) <= PipeCap
<1>1. got[d] \in Seq(Lines) /\ sink[d] \in Seq(Lines) /\ sink[d] # <<>>
  BY DEF Typed, Take
<1>2. /\ Head(sink[d]) \in Lines /\ Tail(sink[d]) \in Seq(Lines)
      /\ Len(Tail(sink[d])) = Len(sink[d]) - 1 /\ Len(sink[d]) \in Nat
  BY <1>1, HeadTailProperties, LenProperties
<1>3. Append(got[d], Head(sink[d])) \in Seq(Lines) BY <1>1, <1>2, AppendProperties
<1>4. PipeCap \in Nat BY ProxyAssumption
<1>5. QED BY <1>1, <1>2, <1>3, <1>4 DEF Take, Typed

(* The line a loop reports or forwards is one it has scanned.               *)
LEMMA InHandTyped ==
  ASSUME Typed, Copies, NEW d \in Directions, loop[d] \in {"report", "forward"}
  PROVE  line[d] \in Lines
<1>1. sent[d] \in Seq(Lines) /\ source[d] \in Seq(Lines) BY DEF Typed
<1>2. Copying(sent[d], got[d], sink[d], source[d], loop[d], line[d])
  BY DEF Copies, Copied
<1>3. QED BY <1>1, <1>2, CopyInHand

LEMMA TypedStep ==
  ASSUME Typed, Copies, [ProxyNext]_proxyVars
  PROVE  Typed'
<1> USE DEF Typed
<1>1. ASSUME AgentSends PROVE Typed'
  <2>1. Len(sent["request"]) + 1 \in Lines
    <3>1. Len(sent["request"]) \in Nat BY LenProperties DEF Directions
    <3>2. Len(sent["request"]) < MaxLines BY <1>1 DEF AgentSends
    <3>3. MaxLines \in Nat BY ProxyAssumption
    <3> HIDE DEF Typed
    <3>4. QED BY <3>1, <3>2, <3>3 DEF Lines
  <2>2. /\ sent' \in [Directions -> Seq(Lines)]
        /\ source' \in [Directions -> Seq(Lines)]
        /\ \A x \in Directions : Len(source'[x]) <= PipeCap
    BY <1>1, <2>1, PutTyped DEF AgentSends, Directions
  <2>3. QED BY <1>1, <2>2 DEF AgentSends, loopVars, endVars, daemonVars
<1>2. ASSUME AgentReads PROVE Typed'
  <2>1. /\ got' \in [Directions -> Seq(Lines)]
        /\ sink' \in [Directions -> Seq(Lines)]
        /\ \A x \in Directions : Len(sink'[x]) <= PipeCap
    BY <1>2, TakeTyped DEF AgentReads, Directions
  <2>2. QED BY <1>2, <2>1 DEF AgentReads, loopVars, endVars, daemonVars
<1>3. ASSUME AgentHangsUp PROVE Typed'
  BY <1>3 DEF AgentHangsUp, pipeVars, loopVars, endVars, daemonVars
<1>4. ASSUME ServerReads PROVE Typed'
  <2>1. /\ got' \in [Directions -> Seq(Lines)]
        /\ sink' \in [Directions -> Seq(Lines)]
        /\ \A x \in Directions : Len(sink'[x]) <= PipeCap
    BY <1>4, TakeTyped DEF ServerReads, Directions
  <2>2. QED BY <1>4, <2>1 DEF ServerReads, loopVars, endVars, daemonVars
<1>5. ASSUME ServerExits PROVE Typed'
  BY <1>5 DEF ServerExits, agentVars, pipeVars, loopVars, endVars, daemonVars
<1>6. ASSUME NEW l \in Lines, ServerAnswers(l) PROVE Typed'
  <2>1. /\ sent' \in [Directions -> Seq(Lines)]
        /\ source' \in [Directions -> Seq(Lines)]
        /\ \A x \in Directions : Len(source'[x]) <= PipeCap
    BY <1>6, PutTyped DEF ServerAnswers, Directions
  <2>2. QED BY <1>6, <2>1 DEF ServerAnswers, loopVars, endVars, daemonVars
<1>7. ASSUME DaemonStalls \/ DaemonDrains PROVE Typed'
  BY <1>7 DEF DaemonStalls, DaemonDrains, agentVars, pipeVars, loopVars, endVars
<1>8. ASSUME NEW d \in Directions, ScanLine(d) PROVE Typed'
  <2>1. source[d] \in Seq(Lines) /\ source[d] # <<>> BY <1>8 DEF ScanLine
  <2>2. /\ Head(source[d]) \in Lines /\ Tail(source[d]) \in Seq(Lines)
        /\ Len(Tail(source[d])) = Len(source[d]) - 1 /\ Len(source[d]) \in Nat
    BY <2>1, HeadTailProperties, LenProperties
  <2>3. PipeCap \in Nat BY ProxyAssumption
  <2>4. source' \in [Directions -> Seq(Lines)] /\ line' \in [Directions -> Lines \cup {NoLine}]
    BY <1>8, <2>2 DEF ScanLine
  <2>5. \A x \in Directions : Len(source'[x]) <= PipeCap
    BY <1>8, <2>2, <2>3 DEF ScanLine
  <2>6. loop' \in [Directions -> {"scan", "report", "forward", "done"}]
    BY <1>8 DEF ScanLine, Step, After
  <2>7. QED BY <1>8, <2>4, <2>5, <2>6 DEF ScanLine, agentVars, endVars, daemonVars
<1>9. ASSUME NEW d \in Directions, LoopEnds(d) PROVE Typed'
  BY <1>9 DEF LoopEnds, agentVars, pipeVars, daemonVars
<1>10. ASSUME NEW d \in Directions, ReportLine(d) PROVE Typed'
  <2>1. loop' \in [Directions -> {"scan", "report", "forward", "done"}]
    BY <1>10 DEF ReportLine, Step, After
  <2>2. torn' \in BOOLEAN /\ decoded' \in Seq(Directions \X Lines)
    <3>1. CASE WritesNothing BY <3>1 DEF WritesNothing
    <3>2. CASE WritesPart BY <3>2 DEF WritesPart
    <3>3. CASE WritesAll(<<d, line[d]>>)
      <4>1. line[d] \in Lines
        BY <1>10, InHandTyped DEF ReportLine, Step
      <4>2. Append(decoded, <<d, line[d]>>) \in Seq(Directions \X Lines)
        BY <4>1, AppendProperties
      <4>3. QED BY <3>3, <4>2 DEF WritesAll
    <3>4. QED BY <1>10, <3>1, <3>2, <3>3 DEF ReportLine, ReportAsync
  <2>3. QED
    BY <1>10, <2>1, <2>2 DEF ReportLine, ReportAsync, agentVars, pipeVars, endVars
<1>11. ASSUME NEW d \in Directions, sink' = sink \/ Write(d),
              Step(d, "forward"), UNCHANGED <<agentVars, serverUp, source, line, endVars, daemonVars>>
       PROVE  Typed'
  <2>1. loop' \in [Directions -> {"scan", "report", "forward", "done"}]
    BY <1>11 DEF Step, After
  <2>2. /\ sink' \in [Directions -> Seq(Lines)]
        /\ \A x \in Directions : Len(sink'[x]) <= PipeCap
    <3>1. CASE sink' = sink BY <3>1
    <3>2. CASE Write(d)
      <4>1. line[d] \in Lines /\ sink[d] \in Seq(Lines) BY <1>11, InHandTyped DEF Step
      <4>2. /\ Append(sink[d], line[d]) \in Seq(Lines)
            /\ Len(Append(sink[d], line[d])) = Len(sink[d]) + 1 /\ Len(sink[d]) \in Nat
        BY <4>1, AppendProperties, LenProperties
      <4>3. PipeCap \in Nat BY ProxyAssumption
      <4>4. QED BY <3>2, <4>1, <4>2, <4>3 DEF Write, HasRoom
    <3>3. QED BY <1>11, <3>1, <3>2
  <2>3. QED BY <1>11, <2>1, <2>2 DEF agentVars, endVars, daemonVars
<1>12. ASSUME BrokenStdout \/ Interrupt PROVE Typed'
  BY <1>12 DEF BrokenStdout, Interrupt, agentVars, pipeVars, loopVars, daemonVars
<1>13. ASSUME MainNext PROVE Typed'
  BY <1>13 DEF MainNext, LoopsJoined, ReapServer, CloseClient, agentVars, pipeVars,
               loopVars, daemonVars
<1>14. ASSUME UNCHANGED proxyVars PROVE Typed'
  BY <1>14 DEF proxyVars, agentVars, pipeVars, loopVars, endVars, daemonVars
<1>15. QED
  BY <1>1, <1>2, <1>3, <1>4, <1>5, <1>6, <1>7, <1>8, <1>9, <1>10, <1>11, <1>12, <1>13, <1>14
     DEF ProxyNext, ServerNext, RequestLoop, ResponseLoop, LoopNext, ForwardRequest,
         ForwardResponse, Directions

-----------------------------------------------------------------------------
(* Proxy: what each kind of step does to the copies.                         *)

Steady == \A x \in Directions : Reported(x)' = Reported(x)

(* A direction nothing happens to.                                          *)
LEMMA CopiedFrame ==
  ASSUME NEW x \in Directions, Copied(x),
         sent'[x] = sent[x], got'[x] = got[x], sink'[x] = sink[x],
         source'[x] = source[x], loop'[x] = loop[x], line'[x] = line[x],
         serverUp' => serverUp
  PROVE  Copied(x)' /\ Reported(x)' = Reported(x)
BY DEF Copied, Reported

(* The agent or the server writes a line.                                   *)
LEMMA PutStep ==
  ASSUME ProxyTypeOK, Copies, NEW d \in Directions, NEW l \in Lines, Put(d, l),
         UNCHANGED <<got, sink, serverUp, loopVars>>
  PROVE  /\ sent'[d] = Append(sent[d], l)
         /\ \A x \in Directions \ {d} : sent'[x] = sent[x]
         /\ Copies' /\ Steady
<1>1. /\ sent'[d] = Append(sent[d], l) /\ source'[d] = Append(source[d], l)
      /\ \A x \in Directions \ {d} : sent'[x] = sent[x] /\ source'[x] = source[x]
      /\ got' = got /\ sink' = sink /\ loop' = loop /\ line' = line /\ serverUp' = serverUp
  BY DEF Put, ProxyTypeOK, loopVars
<1>2. Copied(d)' /\ Reported(d)' = Reported(d)
  <2>1. /\ Copying(sent[d], got[d], sink[d], source[d], loop[d], line[d])
        /\ d = "response" \/ serverUp => Complete(sent[d], got[d], sink[d], source[d], loop[d])
    BY DEF Copies, Copied
  <2>2. /\ Copying(sent'[d], got[d], sink[d], source'[d], loop[d], line[d])
        /\ Complete(sent[d], got[d], sink[d], source[d], loop[d])
             => Complete(sent'[d], got[d], sink[d], source'[d], loop[d])
        /\ ReportedOf(sent'[d], source'[d], loop[d]) = ReportedOf(sent[d], source[d], loop[d])
    BY <1>1, <2>1, PipeTypes, CopyPut
  <2>3. QED BY <1>1, <2>1, <2>2 DEF Copied, Reported
<1>3. ASSUME NEW x \in Directions \ {d} PROVE Copied(x)' /\ Reported(x)' = Reported(x)
  BY <1>1, CopiedFrame DEF Copies
<1>4. QED BY <1>1, <1>2, <1>3 DEF Copies, Steady

(* The agent or the server reads a line.                                    *)
LEMMA TakeStep ==
  ASSUME ProxyTypeOK, Copies, NEW d \in Directions, Take(d),
         UNCHANGED <<sent, source, serverUp, loopVars>>
  PROVE  /\ Len(got[d]) < Len(sent[d])
         /\ got' = [got EXCEPT ![d] = Append(@, sent[d][Len(got[d]) + 1])]
         /\ Copies' /\ Steady
<1>1. /\ sink[d] # <<>>
      /\ got'[d] = Append(got[d], Head(sink[d])) /\ sink'[d] = Tail(sink[d])
      /\ \A x \in Directions \ {d} : got'[x] = got[x] /\ sink'[x] = sink[x]
      /\ sent' = sent /\ source' = source /\ loop' = loop /\ line' = line
      /\ serverUp' = serverUp
  BY DEF Take, ProxyTypeOK, loopVars
<1>2. /\ Len(got[d]) < Len(sent[d]) /\ Head(sink[d]) = sent[d][Len(got[d]) + 1]
      /\ Copied(d)' /\ Reported(d)' = Reported(d)
  <2>1. /\ Copying(sent[d], got[d], sink[d], source[d], loop[d], line[d])
        /\ d = "response" \/ serverUp => Complete(sent[d], got[d], sink[d], source[d], loop[d])
    BY DEF Copies, Copied
  <2>2. /\ Len(got[d]) < Len(sent[d]) /\ Head(sink[d]) = sent[d][Len(got[d]) + 1]
        /\ Copying(sent[d], got'[d], sink'[d], source[d], loop[d], line[d])
        /\ Complete(sent[d], got[d], sink[d], source[d], loop[d])
             => Complete(sent[d], got'[d], sink'[d], source[d], loop[d])
    BY <1>1, <2>1, PipeTypes, CopyTake
  <2>3. QED BY <1>1, <2>1, <2>2 DEF Copied, Reported
<1>3. ASSUME NEW x \in Directions \ {d} PROVE Copied(x)' /\ Reported(x)' = Reported(x)
  BY <1>1, CopiedFrame DEF Copies
<1>4. got' = [got EXCEPT ![d] = Append(@, sent[d][Len(got[d]) + 1])]
  BY <1>2 DEF Take
<1>5. QED BY <1>2, <1>3, <1>4 DEF Copies, Steady

(* A loop scans a line.                                                     *)
LEMMA ScanStep ==
  ASSUME ProxyTypeOK, Copies, NEW d \in Directions, ScanLine(d)
  PROVE  Copies' /\ Steady
<1>1. /\ source[d] # <<>> /\ source'[d] = Tail(source[d]) /\ line'[d] = Head(source[d])
      /\ loop[d] = "scan" /\ loop'[d] = "report"
      /\ \A x \in Directions \ {d} :
           source'[x] = source[x] /\ line'[x] = line[x] /\ loop'[x] = loop[x]
      /\ sent' = sent /\ got' = got /\ sink' = sink /\ serverUp' = serverUp
  BY DEF ScanLine, Step, After, ProxyTypeOK, agentVars
<1>2. Copied(d)' /\ Reported(d)' = Reported(d)
  <2>1. /\ Copying(sent[d], got[d], sink[d], source[d], "scan", line[d])
        /\ d = "response" \/ serverUp => Complete(sent[d], got[d], sink[d], source[d], "scan")
    BY <1>1 DEF Copies, Copied
  <2>2. /\ Copying(sent[d], got[d], sink[d], source'[d], "report", line'[d])
        /\ Complete(sent[d], got[d], sink[d], source[d], "scan")
             => Complete(sent[d], got[d], sink[d], source'[d], "report")
        /\ ReportedOf(sent[d], source'[d], "report") = ReportedOf(sent[d], source[d], "scan")
    BY <1>1, <2>1, PipeTypes, CopyScan
  <2>3. QED BY <1>1, <2>1, <2>2 DEF Copied, Reported
<1>3. ASSUME NEW x \in Directions \ {d} PROVE Copied(x)' /\ Reported(x)' = Reported(x)
  BY <1>1, CopiedFrame DEF Copies
<1>4. QED BY <1>2, <1>3 DEF Copies, Steady

(* A loop reports the line in its hands.                                     *)
LEMMA ReportStep ==
  ASSUME ProxyTypeOK, Copies, NEW d \in Directions, ReportLine(d)
  PROVE  /\ Copies'
         /\ \A x \in Directions \ {d} : Reported(x)' = Reported(x)
         /\ Reported(d)' \in 1 .. Len(sent[d]) /\ Reported(d) < Reported(d)'
         /\ line[d] = sent[d][Reported(d)'] /\ line[d] \in Lines
<1>1. /\ loop[d] = "report" /\ loop'[d] = "forward"
      /\ \A x \in Directions \ {d} : loop'[x] = loop[x]
      /\ sent' = sent /\ got' = got /\ source' = source /\ sink' = sink /\ line' = line
      /\ serverUp' = serverUp
  BY DEF ReportLine, Step, After, ProxyTypeOK, agentVars, pipeVars
<1>2. /\ Copying(sent[d], got[d], sink[d], source[d], "report", line[d])
      /\ d = "response" \/ serverUp => Complete(sent[d], got[d], sink[d], source[d], "report")
  BY <1>1 DEF Copies, Copied
<1>3. Copied(d)'
  <2>1. /\ Copying(sent[d], got[d], sink[d], source[d], "forward", line[d])
        /\ Complete(sent[d], got[d], sink[d], source[d], "report")
             => Complete(sent[d], got[d], sink[d], source[d], "forward")
    BY <1>2, CopyReport
  <2>2. QED BY <1>1, <1>2, <2>1 DEF Copied
<1>4. ASSUME NEW x \in Directions \ {d} PROVE Copied(x)' /\ Reported(x)' = Reported(x)
  BY <1>1, CopiedFrame DEF Copies
<1>5. /\ Reported(d) = ReportedOf(sent[d], source[d], "report")
      /\ Reported(d)' = ReportedOf(sent[d], source[d], "forward")
  BY <1>1 DEF Reported
<1>6. /\ Reported(d)' \in 1 .. Len(sent[d]) /\ Reported(d) < Reported(d)'
      /\ line[d] = sent[d][Reported(d)'] /\ line[d] \in Lines
  <2>1. sent[d] \in Seq(Lines) /\ source[d] \in Seq(Lines) BY PipeTypes
  <2>2. "report" \in {"report", "forward"} OBVIOUS
  <2>3. QED BY <1>2, <1>5, <2>1, <2>2, CopyInHand
<1>7. QED BY <1>3, <1>4, <1>6 DEF Copies

(* A loop writes it, or throws it away when the server has ended.            *)
LEMMA ForwardStep ==
  ASSUME ProxyTypeOK, Copies, NEW d \in Directions, Step(d, "forward"),
         \/ Write(d) /\ (d = "response" \/ serverUp)
         \/ sink' = sink /\ d = "request" /\ ~serverUp,
         UNCHANGED <<agentVars, serverUp, source, line>>
  PROVE  Copies' /\ Steady
<1>1. /\ loop[d] = "forward" /\ loop'[d] = "scan"
      /\ \A x \in Directions \ {d} : loop'[x] = loop[x] /\ sink'[x] = sink[x]
      /\ sent' = sent /\ got' = got /\ source' = source /\ line' = line
      /\ serverUp' = serverUp
  BY DEF Step, After, Write, ProxyTypeOK, agentVars
<1>2. /\ Copying(sent[d], got[d], sink[d], source[d], "forward", line[d])
      /\ d = "response" \/ serverUp => Complete(sent[d], got[d], sink[d], source[d], "forward")
  BY <1>1 DEF Copies, Copied
<1>3. Copied(d)' /\ Reported(d)' = Reported(d)
  <2>1. CASE Write(d) /\ (d = "response" \/ serverUp)
    <3>1. sink'[d] = Append(sink[d], line[d]) BY <2>1 DEF Write, ProxyTypeOK
    <3>2. /\ Copying(sent[d], got[d], sink'[d], source[d], "scan", line[d])
          /\ Complete(sent[d], got[d], sink'[d], source[d], "scan")
          /\ ReportedOf(sent[d], source[d], "scan") = ReportedOf(sent[d], source[d], "forward")
      BY <1>2, <2>1, <3>1, PipeTypes, CopyWrite
    <3>3. QED BY <1>1, <3>2 DEF Copied, Reported
  <2>2. CASE sink' = sink /\ d = "request" /\ ~serverUp
    <3>1. /\ Copying(sent[d], got[d], sink[d], source[d], "scan", line[d])
          /\ ReportedOf(sent[d], source[d], "scan") = ReportedOf(sent[d], source[d], "forward")
      BY <1>2, PipeTypes, CopyDrop
    <3>2. QED BY <1>1, <2>2, <3>1 DEF Copied, Reported
  <2>3. QED BY <2>1, <2>2
<1>4. ASSUME NEW x \in Directions \ {d} PROVE Copied(x)' /\ Reported(x)' = Reported(x)
  BY <1>1, CopiedFrame DEF Copies
<1>5. QED BY <1>3, <1>4 DEF Copies, Steady

(* A loop ends.                                                             *)
LEMMA EndsStep ==
  ASSUME ProxyTypeOK, Copies, NEW d \in Directions, LoopEnds(d)
  PROVE  Copies' /\ Steady
<1>1. /\ loop[d] = "scan" /\ loop'[d] = "done"
      /\ \A x \in Directions \ {d} : loop'[x] = loop[x]
      /\ sent' = sent /\ got' = got /\ source' = source /\ sink' = sink /\ line' = line
      /\ serverUp' = serverUp
  BY DEF LoopEnds, ProxyTypeOK, agentVars, pipeVars
<1>2. /\ Copying(sent[d], got[d], sink[d], source[d], "scan", line[d])
      /\ d = "response" \/ serverUp => Complete(sent[d], got[d], sink[d], source[d], "scan")
  BY <1>1 DEF Copies, Copied
<1>3. Copied(d)' /\ Reported(d)' = Reported(d)
  <2>1. /\ Copying(sent[d], got[d], sink[d], source[d], "done", line[d])
        /\ Complete(sent[d], got[d], sink[d], source[d], "scan")
             => Complete(sent[d], got[d], sink[d], source[d], "done")
        /\ ReportedOf(sent[d], source[d], "done") = ReportedOf(sent[d], source[d], "scan")
    BY <1>2, CopyEnds
  <2>2. QED BY <1>1, <1>2, <2>1 DEF Copied, Reported
<1>4. ASSUME NEW x \in Directions \ {d} PROVE Copied(x)' /\ Reported(x)' = Reported(x)
  BY <1>1, CopiedFrame DEF Copies
<1>5. QED BY <1>3, <1>4 DEF Copies, Steady

(* Everything else leaves them alone, but for a server that ends.            *)
LEMMA OtherStep ==
  ASSUME Copies, UNCHANGED <<agentVars, pipeVars, loopVars>> \/ UNCHANGED <<sent, got, pipeVars, loopVars>>,
         serverUp' => serverUp
  PROVE  Copies' /\ Steady
<1>1. /\ sent' = sent /\ got' = got /\ source' = source /\ sink' = sink
      /\ loop' = loop /\ line' = line
  BY DEF agentVars, pipeVars, loopVars
<1>2. QED BY <1>1, CopiedFrame DEF Copies, Steady

-----------------------------------------------------------------------------
(* Proxy: the invariant, step by step.                                      *)

ProxyInv == ProxyTypeOK /\ Copies /\ Answered /\ Mirrored /\ ReportsMirrorTraffic

(* Nothing is sent or read, nothing is decoded.                             *)
LEMMA QuietKeeps ==
  ASSUME ProxyInv, Steady, UNCHANGED <<sent, got, decoded>>
  PROVE  Answered' /\ Mirrored' /\ ReportsMirrorTraffic'
<1>1. Answered' BY DEF ProxyInv, Answered
<1>2. Mirrored'
  <2>1. SUFFICES ASSUME NEW i \in DOMAIN decoded
                 PROVE  /\ decoded[i][2] \in Range(sent[decoded[i][1]])
                        /\ Position(sent[decoded[i][1]], decoded[i][2]) <= Reported(decoded[i][1])'
    BY DEF Mirrored
  <2>2. decoded[i][1] \in Directions BY DEF ProxyInv, ProxyTypeOK
  <2>3. Reported(decoded[i][1])' = Reported(decoded[i][1]) BY <2>2 DEF Steady
  <2>4. QED BY <2>3 DEF ProxyInv, Mirrored
<1>3. ReportsMirrorTraffic' BY DEF ProxyInv, ReportsMirrorTraffic
<1>4. QED BY <1>1, <1>2, <1>3

(* A line is written that was not sent before: its place is behind those of  *)
(* all that were decoded.                                                   *)
LEMMA PutKeepsReports ==
  ASSUME ProxyInv, Steady, NEW d \in Directions, NEW l \in Lines,
         sent'[d] = Append(sent[d], l), IsInjective(sent'[d]),
         \A x \in Directions \ {d} : sent'[x] = sent[x],
         decoded' = decoded
  PROVE  Mirrored' /\ ReportsMirrorTraffic'
<1>1. ASSUME NEW i \in DOMAIN decoded
      PROVE  /\ decoded[i][1] \in Directions
             /\ decoded[i][2] \in Range(sent'[decoded[i][1]])
             /\ Position(sent'[decoded[i][1]], decoded[i][2])
                  = Position(sent[decoded[i][1]], decoded[i][2])
  <2> DEFINE x == decoded[i][1]
  <2> DEFINE m == decoded[i][2]
  <2>1. x \in Directions BY DEF ProxyInv, ProxyTypeOK
  <2>2. m \in Range(sent[x]) BY DEF ProxyInv, Mirrored
  <2>3. CASE x = d
    <3>1. sent[d] \in Seq(Lines) /\ IsInjective(sent[d])
      BY PipeTypes DEF ProxyInv
    <3>2. /\ m \in Range(Append(sent[d], l))
          /\ Position(Append(sent[d], l), m) = Position(sent[d], m)
      BY <2>2, <2>3, <3>1, PositionGrow
    <3>3. QED BY <2>1, <2>3, <3>2
  <2>4. CASE x # d BY <2>1, <2>2, <2>4
  <2>5. QED BY <2>3, <2>4
<1>2. Mirrored'
  <2>1. SUFFICES ASSUME NEW i \in DOMAIN decoded
                 PROVE  /\ decoded[i][2] \in Range(sent'[decoded[i][1]])
                        /\ Position(sent'[decoded[i][1]], decoded[i][2]) <= Reported(decoded[i][1])'
    BY DEF Mirrored
  <2>2. Reported(decoded[i][1])' = Reported(decoded[i][1]) BY <1>1 DEF Steady
  <2>3. QED BY <1>1, <2>2 DEF ProxyInv, Mirrored
<1>3. ReportsMirrorTraffic' BY <1>1 DEF ProxyInv, ReportsMirrorTraffic
<1>4. QED BY <1>2, <1>3

(* A request gets the next number.                                          *)
LEMMA RequestNumbered ==
  ASSUME ProxyInv, AgentSends
  PROVE  /\ IsInjective(sent'["request"])
         /\ Answered'
<1> DEFINE s == sent["request"]
<1> DEFINE n == Len(s) + 1
<1>1. s \in Seq(Lines) /\ Len(s) \in Nat /\ DOMAIN s = 1 .. Len(s)
  BY PipeTypes DEF ProxyInv, Directions
<1>2. /\ sent'["request"] = Append(s, n) /\ sent'["response"] = sent["response"]
      /\ got' = got
  BY DEF AgentSends, Put, ProxyInv, ProxyTypeOK, Directions
<1>3. n \in Lines
  <2>1. Len(s) < MaxLines BY DEF AgentSends
  <2>2. MaxLines \in Nat BY ProxyAssumption
  <2> HIDE DEF s
  <2>3. QED BY <2>1, <2>2, <1>1 DEF Lines
<1>4. \A i \in DOMAIN s : s[i] = i BY DEF ProxyInv, Answered
<1> HIDE DEF s
<1>5. /\ Append(s, n) \in Seq(Lines) /\ Len(Append(s, n)) = n
      /\ \A i \in 1 .. Len(s) : Append(s, n)[i] = s[i]
      /\ Append(s, n)[n] = n
  BY <1>1, <1>3, AppendProperties
<1>6. DOMAIN Append(s, n) = 1 .. n BY <1>5, LenProperties
<1>7. \A i \in DOMAIN Append(s, n) : Append(s, n)[i] = i BY <1>1, <1>4, <1>5, <1>6
<1>8. IsInjective(Append(s, n)) BY <1>7 DEF IsInjective
<1>9. Answered' BY <1>2, <1>7 DEF ProxyInv, Answered
<1>10. QED BY <1>2, <1>8, <1>9

(* An answer is the first one to a request that the server has read.         *)
LEMMA AnswerNumbered ==
  ASSUME ProxyInv, NEW l \in Lines, ServerAnswers(l)
  PROVE  /\ IsInjective(sent'["response"])
         /\ Answered'
<1>1. /\ sent["response"] \in Seq(Lines) /\ IsInjective(sent["response"])
  BY PipeTypes DEF ProxyInv, Directions
<1>2. /\ sent'["response"] = Append(sent["response"], l) /\ sent'["request"] = sent["request"]
      /\ got' = got
      /\ l \in Range(got["request"]) /\ l \notin Range(sent["response"])
  BY DEF ServerAnswers, Put, ProxyInv, ProxyTypeOK, Directions
<1>3. IsInjective(Append(sent["response"], l)) BY <1>1, <1>2, InjectiveAppend
<1>4. Range(Append(sent["response"], l)) = Range(sent["response"]) \cup {l}
  BY <1>1, RangeAppend
<1>5. Answered' BY <1>2, <1>3, <1>4 DEF ProxyInv, Answered
<1>6. QED BY <1>2, <1>3, <1>5

(* What is read stays read.                                                 *)
LEMMA ReadingKeeps ==
  ASSUME ProxyInv, NEW d \in Directions, NEW l \in Lines, sent' = sent,
         got' = [got EXCEPT ![d] = Append(@, l)]
  PROVE  Answered'
<1>1. got["request"] \in Seq(Lines) /\ got \in [Directions -> Seq(Lines)] /\ "request" \in Directions
  BY DEF ProxyInv, ProxyTypeOK, Directions
<1>2. Range(got["request"]) \subseteq Range(got'["request"])
  <2>1. CASE d = "request" BY <1>1, <2>1, RangeAppend
  <2>2. CASE d # "request" BY <1>1, <2>2
  <2>3. QED BY <2>1, <2>2
<1>3. QED BY <1>2 DEF ProxyInv, Answered

(* Lines before the one in hand are the only ones the receiver can have read. *)
LEMMA CopyRead ==
  ASSUME NEW S, NEW s \in Seq(S), NEW g \in Seq(S), NEW q \in Seq(S), NEW p \in Seq(S),
         NEW l, NEW m \in Range(g), IsInjective(s),
         Copying(s, g, q, p, "report", l)
  PROVE  m # l
<1>1. Len(s) \in Nat /\ Len(g) \in Nat /\ Len(q) \in Nat /\ Len(p) \in Nat
      /\ DOMAIN g = 1 .. Len(g) /\ DOMAIN s = 1 .. Len(s)
  BY LenProperties
<1>2. Len(p) < Len(s) /\ l = s[Len(s) - Len(p)] BY DEF Copying
<1>3. Len(g) < Len(s) - Len(p)
  <2>1. Len(g) + Len(q) <= ForwardedOf(s, p, "report") BY DEF Copying
  <2>2. QED BY <1>1, <2>1 DEF ForwardedOf
<1>4. PICK k \in 1 .. Len(g) : g[k] = m BY <1>1 DEF Range
<1>5. s[k] = m
  <2>1. Follows(0, g, s) BY DEF Copying
  <2>2. g[k] = s[0 + k] BY <2>1 DEF Follows
  <2>3. 0 + k = k BY <1>1
  <2>4. QED BY <1>4, <2>2, <2>3
<1>6. k \in 1 .. Len(s) /\ Len(s) - Len(p) \in 1 .. Len(s) /\ k # Len(s) - Len(p)
  <2> DEFINE a == Len(s)
  <2> DEFINE b == Len(p)
  <2> DEFINE c == Len(g)
  <2>1. a \in Nat /\ b \in Nat /\ c \in Nat /\ b < a /\ c < a - b /\ k \in 1 .. c
    BY <1>1, <1>2, <1>3
  <2> HIDE DEF a, b, c
  <2>2. k \in 1 .. a /\ a - b \in 1 .. a /\ k # a - b BY <2>1
  <2>3. QED BY <2>2 DEF a, b
<1>7. QED BY <1>1, <1>2, <1>5, <1>6 DEF IsInjective

LEMMA ReportedType ==
  ASSUME ProxyTypeOK, NEW d \in Directions
  PROVE  Reported(d) \in Int
<1>1. sent[d] \in Seq(Lines) /\ source[d] \in Seq(Lines) BY PipeTypes
<1>2. ASSUME NEW s \in Seq(Lines), NEW p \in Seq(Lines), NEW pc PROVE ReportedOf(s, p, pc) \in Int
  BY LenProperties DEF ReportedOf
<1>3. QED BY <1>1, <1>2 DEF Reported

(* A report that is decoded comes behind all of its direction; and if it is  *)
(* of a request, nobody has answered that yet.                              *)
LEMMA ReportKeeps ==
  ASSUME ProxyInv, NEW d \in Directions, ReportLine(d)
  PROVE  Answered' /\ Mirrored' /\ ReportsMirrorTraffic'
<1> DEFINE n == Reported(d)'
<1>1. /\ \A x \in Directions \ {d} : Reported(x)' = Reported(x)
      /\ n \in 1 .. Len(sent[d]) /\ Reported(d) < n
      /\ line[d] = sent[d][n] /\ line[d] \in Lines
  BY ReportStep DEF ProxyInv
<1>2. sent' = sent /\ got' = got BY DEF ReportLine, agentVars
<1>3. /\ sent[d] \in Seq(Lines) /\ IsInjective(sent[d]) /\ DOMAIN sent[d] = 1 .. Len(sent[d])
  BY PipeTypes DEF ProxyInv
<1>4. Position(sent[d], line[d]) = n /\ line[d] \in Range(sent[d])
  BY <1>1, <1>3, PositionOf DEF Range
<1>5. decoded \in Seq(Directions \X Lines) BY DEF ProxyInv, ProxyTypeOK
<1>6. DOMAIN decoded = 1 .. Len(decoded) /\ Len(decoded) \in Nat BY <1>5, LenProperties
<1>7. n \in Int /\ Len(sent[d]) \in Nat BY <1>1, PipeTypes DEF ProxyInv
<1> HIDE DEF n
<1>8. ASSUME NEW x \in Directions PROVE Reported(x) \in Int /\ Reported(x)' \in Int /\ Reported(x) <= Reported(x)'
  <2>1. Reported(x) \in Int BY ReportedType DEF ProxyInv
  <2>2. CASE x = d BY <1>1, <1>7, <2>1, <2>2 DEF n
  <2>3. CASE x # d BY <1>1, <2>1, <2>3
  <2>4. QED BY <2>1, <2>2, <2>3
<1>9. ASSUME NEW i \in DOMAIN decoded
      PROVE  \E x \in Directions, m \in Lines :
               /\ decoded[i] = <<x, m>>
               /\ m \in Range(sent[x])
               /\ Position(sent[x], m) <= Reported(x)'
               /\ x = d => Position(sent[d], m) < n
               /\ x = "response" /\ d = "request" => m # line[d]
  <2>1. decoded[i] \in Directions \X Lines BY <1>5, <1>6, ElementOfSeq
  <2>2. PICK x \in Directions, m \in Lines : decoded[i] = <<x, m>> BY <2>1
  <2>3. m \in Range(sent[x]) /\ Position(sent[x], m) <= Reported(x)
    BY <2>2 DEF ProxyInv, Mirrored
  <2>4. Position(sent[x], m) \in Nat
    <3>1. /\ sent[x] \in Seq(Lines) /\ IsInjective(sent[x])
          /\ DOMAIN sent[x] = 1 .. Len(sent[x]) /\ Len(sent[x]) \in Nat
      BY PipeTypes DEF ProxyInv
    <3>2. PICK k \in 1 .. Len(sent[x]) : sent[x][k] = m BY <2>3, <3>1 DEF Range
    <3>3. Position(sent[x], m) = k BY <3>1, <3>2, PositionOf
    <3>4. QED BY <3>1, <3>3
  <2>5. Position(sent[x], m) <= Reported(x)' BY <1>8, <2>3, <2>4
  <2>6. x = d => Position(sent[d], m) < n BY <1>1, <1>7, <1>8, <2>3, <2>4
  <2>7. ASSUME x = "response", d = "request" PROVE m # line[d]
    <3>1. m \in Range(got[d]) BY <2>3, <2>7 DEF ProxyInv, Answered
    <3>2. Copying(sent[d], got[d], sink[d], source[d], "report", line[d])
      BY DEF ProxyInv, Copies, Copied, ReportLine, Step
    <3>3. /\ sent[d] \in Seq(Lines) /\ got[d] \in Seq(Lines)
          /\ source[d] \in Seq(Lines) /\ sink[d] \in Seq(Lines)
      BY PipeTypes DEF ProxyInv
    <3>4. QED BY <1>3, <3>1, <3>2, <3>3, CopyRead
  <2>8. QED BY <2>2, <2>3, <2>5, <2>6, <2>7
<1>10. Answered' BY <1>2 DEF ProxyInv, Answered
<1>11. CASE decoded' = decoded
  <2>1. Mirrored'
    <3>1. SUFFICES ASSUME NEW i \in DOMAIN decoded'
                   PROVE  (/\ decoded[i][2] \in Range(sent[decoded[i][1]])
                           /\ Position(sent[decoded[i][1]], decoded[i][2]) <= Reported(decoded[i][1]))'
      BY DEF Mirrored
    <3>2. PICK x \in Directions, m \in Lines :
               /\ decoded[i] = <<x, m>>
               /\ m \in Range(sent[x])
               /\ Position(sent[x], m) <= Reported(x)'
      BY <1>9, <1>11
    <3>3. decoded'[i][1] = x /\ decoded'[i][2] = m BY <1>11, <3>2
    <3>4. QED BY <1>2, <3>2, <3>3
  <2>2. ReportsMirrorTraffic' BY <1>2, <1>11 DEF ProxyInv, ReportsMirrorTraffic
  <2>3. QED BY <1>10, <2>1, <2>2
<1>12. CASE decoded' = Append(decoded, <<d, line[d]>>)
  <2> DEFINE k == Len(decoded) + 1
  <2>1. <<d, line[d]>> \in Directions \X Lines BY <1>1
  <2>2. /\ decoded' \in Seq(Directions \X Lines) /\ Len(decoded') = k
        /\ \A i \in DOMAIN decoded : decoded'[i] = decoded[i]
        /\ decoded'[k] = <<d, line[d]>>
    BY <2>1, <1>5, <1>6, <1>12, AppendProperties
  <2>3. DOMAIN decoded' = 1 .. k BY <2>2, LenProperties
  <2>4. /\ \A i \in DOMAIN decoded' : i \in DOMAIN decoded \/ i = k
        /\ \A i, j \in DOMAIN decoded' : i < j => i \in DOMAIN decoded
    BY <1>6, <2>3
  <2> HIDE DEF k
  <2>5. Mirrored'
    <3>1. SUFFICES ASSUME NEW i \in DOMAIN decoded'
                   PROVE  (/\ decoded[i][2] \in Range(sent[decoded[i][1]])
                           /\ Position(sent[decoded[i][1]], decoded[i][2]) <= Reported(decoded[i][1]))'
      BY DEF Mirrored
    <3>2. CASE i \in DOMAIN decoded
      <4>1. PICK x \in Directions, m \in Lines :
                 /\ decoded[i] = <<x, m>>
                 /\ m \in Range(sent[x])
                 /\ Position(sent[x], m) <= Reported(x)'
        BY <1>9, <3>2
      <4>2. decoded'[i][1] = x /\ decoded'[i][2] = m BY <2>2, <3>2, <4>1
      <4>3. QED BY <1>2, <4>1, <4>2
    <3>3. CASE i = k
      <4>1. decoded'[i][1] = d /\ decoded'[i][2] = line[d] BY <2>2, <3>3
      <4>2. n <= n BY <1>7
      <4>3. QED BY <1>2, <1>4, <4>1, <4>2 DEF n
    <3>4. QED BY <2>4, <3>2, <3>3
  <2>6. ReportsMirrorTraffic'
    <3>1. SUFFICES ASSUME NEW i \in DOMAIN decoded', NEW j \in DOMAIN decoded', i < j
                   PROVE  /\ decoded'[i][1] = decoded'[j][1]
                               => Position(sent[decoded'[i][1]], decoded'[i][2])
                                    < Position(sent[decoded'[j][1]], decoded'[j][2])
                          /\ decoded'[i][1] # decoded'[j][1] /\ decoded'[i][2] = decoded'[j][2]
                               => decoded'[i][1] = "request"
      BY <1>2 DEF ReportsMirrorTraffic
    <3>2. i \in DOMAIN decoded /\ decoded'[i] = decoded[i] BY <2>2, <2>4, <3>1
    <3>3. CASE j \in DOMAIN decoded
      <4>1. decoded'[j] = decoded[j] BY <2>2, <3>3
      <4>2. QED BY <3>1, <3>2, <3>3, <4>1 DEF ProxyInv, ReportsMirrorTraffic
    <3>4. CASE j = k
      <4>1. decoded'[j] = <<d, line[d]>> BY <2>2, <3>4
      <4>2. PICK x \in Directions, m \in Lines :
                 /\ decoded[i] = <<x, m>>
                 /\ x = d => Position(sent[d], m) < n
                 /\ x = "response" /\ d = "request" => m # line[d]
        BY <1>9, <3>2
      <4>3. /\ decoded'[i][1] = x /\ decoded'[i][2] = m
            /\ decoded'[j][1] = d /\ decoded'[j][2] = line[d]
        BY <3>2, <4>1, <4>2
      <4>4. x = d => Position(sent[x], m) < Position(sent[d], line[d])
        BY <1>4, <4>2
      <4>5. x # d /\ m = line[d] => x = "request"
        BY <4>2 DEF Directions
      <4>6. QED BY <4>3, <4>4, <4>5
    <3>5. QED BY <2>4, <3>3, <3>4
  <2>7. QED BY <1>10, <2>5, <2>6
<1>13. QED
  BY <1>11, <1>12 DEF ReportLine, ReportAsync, WritesAll, WritesPart, WritesNothing

-----------------------------------------------------------------------------
(* Proxy: the theorems.                                                     *)

LEMMA ProxyInvInit ==
  ASSUME ProxyInit
  PROVE  ProxyInv
<1>1. <<>> \in Seq(Lines) /\ Len(<<>>) = 0 /\ DOMAIN <<>> = {} /\ IsInjective(<<>>)
  BY EmptySeq DEF IsInjective
<1>2. Typed BY TypedInit
<1>3. Copies
  <2>1. ASSUME NEW d \in Directions PROVE Copied(d)
    <3>1. /\ sent[d] = <<>> /\ got[d] = <<>> /\ sink[d] = <<>> /\ source[d] = <<>>
          /\ loop[d] = "scan"
      BY DEF ProxyInit
    <3>2. Follows(0, <<>>, <<>>) BY <1>1 DEF Follows
    <3>3. ForwardedOf(<<>>, <<>>, "scan") = 0
      <4>1. ASSUME NEW e, Len(e) = 0 PROVE ForwardedOf(e, e, "scan") = 0
        <5>1. ForwardedOf(e, e, "scan") = Len(e) - Len(e) - 0 BY DEF ForwardedOf
        <5>2. QED BY <4>1, <5>1
      <4>2. QED BY <1>1, <4>1
    <3>4. Copying(<<>>, <<>>, <<>>, <<>>, "scan", line[d])
      BY <1>1, <3>2, <3>3 DEF Copying
    <3>5. Complete(<<>>, <<>>, <<>>, <<>>, "scan") BY <1>1, <3>3 DEF Complete
    <3>6. QED BY <3>1, <3>4, <3>5 DEF Copied
  <2>2. QED BY <2>1 DEF Copies
<1>4. \A d \in Directions : IsInjective(sent[d]) BY <1>1 DEF ProxyInit
<1>5. ProxyTypeOK BY <1>2, <1>3, <1>4, TypedIsType
<1>6. Answered BY <1>1, RangeEmpty DEF ProxyInit, Answered, Directions
<1>7. Mirrored /\ ReportsMirrorTraffic
  BY <1>1 DEF ProxyInit, Mirrored, ReportsMirrorTraffic
<1>8. QED BY <1>3, <1>5, <1>6, <1>7 DEF ProxyInv

(* What is left to show of a step once the copies are known to be in order.  *)
LEMMA ProxyInvFrom ==
  ASSUME ProxyInv, [ProxyNext]_proxyVars, Copies',
         \A d \in Directions : IsInjective(sent'[d]),
         Answered', Mirrored', ReportsMirrorTraffic'
  PROVE  ProxyInv'
<1>1. Typed BY DEF ProxyInv, ProxyTypeOK, Typed
<1>2. Typed' BY <1>1, TypedStep DEF ProxyInv
<1>3. (\A d \in Directions : IsInjective(sent[d]))' OBVIOUS
<1>4. ProxyTypeOK'
  <2>1. ASSUME Typed, Copies, \A d \in Directions : IsInjective(sent[d]) PROVE ProxyTypeOK
    BY <2>1, TypedIsType
  <2>2. QED BY <1>2, <1>3, TypedIsType, PTL
<1>5. QED BY <1>4 DEF ProxyInv

LEMMA ProxyInvStep ==
  ASSUME ProxyInv, [ProxyNext]_proxyVars
  PROVE  ProxyInv'
<1>1. \A d \in Directions : IsInjective(sent[d]) BY DEF ProxyInv, ProxyTypeOK
<1>2. ASSUME AgentSends PROVE ProxyInv'
  <2> DEFINE l == Len(sent["request"]) + 1
  <2>1. Put("request", l) /\ UNCHANGED <<got, sink, serverUp, loopVars, decoded>>
    BY <1>2 DEF AgentSends, daemonVars
  <2>2. "request" \in Directions /\ l \in Lines
    <3>1. Len(sent["request"]) \in Nat BY PipeTypes DEF ProxyInv, Directions
    <3>2. Len(sent["request"]) < MaxLines BY <1>2 DEF AgentSends
    <3>3. MaxLines \in Nat BY ProxyAssumption
    <3>4. QED BY <3>1, <3>2, <3>3 DEF Lines, Directions
  <2> HIDE DEF l
  <2>3. /\ sent'["request"] = Append(sent["request"], l)
        /\ \A x \in Directions \ {"request"} : sent'[x] = sent[x]
        /\ Copies' /\ Steady
    BY <2>1, <2>2, PutStep DEF ProxyInv
  <2>4. IsInjective(sent'["request"]) /\ Answered' BY <1>2, RequestNumbered
  <2>5. Mirrored' /\ ReportsMirrorTraffic'
    BY <2>1, <2>2, <2>3, <2>4, PutKeepsReports
  <2>6. \A d \in Directions : IsInjective(sent'[d]) BY <1>1, <2>3, <2>4
  <2>7. QED BY <2>3, <2>4, <2>5, <2>6, ProxyInvFrom
<1>3. ASSUME NEW l \in Lines, ServerAnswers(l) PROVE ProxyInv'
  <2>1. Put("response", l) /\ UNCHANGED <<got, sink, serverUp, loopVars, decoded>>
    BY <1>3 DEF ServerAnswers, daemonVars
  <2>2. "response" \in Directions BY DEF Directions
  <2>3. /\ sent'["response"] = Append(sent["response"], l)
        /\ \A x \in Directions \ {"response"} : sent'[x] = sent[x]
        /\ Copies' /\ Steady
    BY <2>1, <2>2, PutStep DEF ProxyInv
  <2>4. IsInjective(sent'["response"]) /\ Answered' BY <1>3, AnswerNumbered
  <2>5. Mirrored' /\ ReportsMirrorTraffic'
    BY <2>1, <2>2, <2>3, <2>4, PutKeepsReports
  <2>6. \A d \in Directions : IsInjective(sent'[d]) BY <1>1, <2>3, <2>4
  <2>7. QED BY <2>3, <2>4, <2>5, <2>6, ProxyInvFrom
<1>4. ASSUME NEW d \in Directions, Take(d), UNCHANGED <<sent, source, serverUp, loopVars, decoded>>
      PROVE  ProxyInv'
  <2>1. /\ Len(got[d]) < Len(sent[d])
        /\ got' = [got EXCEPT ![d] = Append(@, sent[d][Len(got[d]) + 1])]
        /\ Copies' /\ Steady
    BY <1>4, TakeStep DEF ProxyInv
  <2>2. sent[d][Len(got[d]) + 1] \in Lines
    <3>1. /\ sent[d] \in Seq(Lines) /\ Len(sent[d]) \in Nat /\ Len(got[d]) \in Nat
      BY PipeTypes DEF ProxyInv
    <3>2. ASSUME NEW s \in Seq(Lines), NEW n \in Nat, n < Len(s) PROVE s[n + 1] \in Lines
      <4>1. n + 1 \in 1 .. Len(s) BY <3>2, LenProperties
      <4>2. QED BY <4>1, ElementOfSeq
    <3>3. QED BY <2>1, <3>1, <3>2
  <2>3. Answered' BY <1>4, <2>1, <2>2, ReadingKeeps
  <2>4. Mirrored'
    <3>1. SUFFICES ASSUME NEW i \in DOMAIN decoded
                   PROVE  /\ decoded[i][2] \in Range(sent[decoded[i][1]])
                          /\ Position(sent[decoded[i][1]], decoded[i][2])
                               <= ReportedOf(sent'[decoded[i][1]], source'[decoded[i][1]], loop'[decoded[i][1]])
      BY <1>4 DEF Mirrored, Reported
    <3>2. QED BY <1>4 DEF ProxyInv, Mirrored, Reported, loopVars
  <2>5. ReportsMirrorTraffic' BY <1>4 DEF ProxyInv, ReportsMirrorTraffic
  <2>6. QED BY <1>1, <1>4, <2>1, <2>3, <2>4, <2>5, ProxyInvFrom
<1>5. ASSUME NEW d \in Directions, ReportLine(d) PROVE ProxyInv'
  <2>1. Copies' BY <1>5, ReportStep DEF ProxyInv
  <2>2. sent' = sent BY <1>5 DEF ReportLine, agentVars
  <2>3. Answered' /\ Mirrored' /\ ReportsMirrorTraffic' BY <1>5, ReportKeeps
  <2>4. QED BY <1>1, <2>1, <2>2, <2>3, ProxyInvFrom
<1>6. ASSUME Copies', Steady, UNCHANGED <<sent, got, decoded>> PROVE ProxyInv'
  <2>1. Answered' /\ Mirrored' /\ ReportsMirrorTraffic' BY <1>6, QuietKeeps
  <2>2. QED BY <1>1, <1>6, <2>1, ProxyInvFrom
<1>7. ASSUME NEW d \in Directions, ScanLine(d) PROVE ProxyInv'
  <2>1. Copies' /\ Steady BY <1>7, ScanStep DEF ProxyInv
  <2>2. QED BY <1>6, <1>7, <2>1 DEF ScanLine, agentVars, daemonVars
<1>8. ASSUME NEW d \in Directions, LoopEnds(d) PROVE ProxyInv'
  <2>1. Copies' /\ Steady BY <1>8, EndsStep DEF ProxyInv
  <2>2. QED BY <1>6, <1>8, <2>1 DEF LoopEnds, agentVars, daemonVars
<1>9. ASSUME ForwardRequest PROVE ProxyInv'
  <2>1. /\ Step("request", "forward") /\ "request" \in Directions
        /\ \/ Write("request") /\ serverUp
           \/ sink' = sink /\ ~serverUp
        /\ UNCHANGED <<agentVars, serverUp, source, line>>
    BY <1>9 DEF ForwardRequest, Directions
  <2>2. Copies' /\ Steady BY <2>1, ForwardStep DEF ProxyInv
  <2>3. QED BY <1>6, <1>9, <2>2 DEF ForwardRequest, agentVars, daemonVars
<1>10. ASSUME ForwardResponse PROVE ProxyInv'
  <2>1. /\ Step("response", "forward") /\ "response" \in Directions /\ Write("response")
        /\ UNCHANGED <<agentVars, serverUp, source, line>>
    BY <1>10 DEF ForwardResponse, Directions
  <2>2. Copies' /\ Steady BY <2>1, ForwardStep DEF ProxyInv
  <2>3. QED BY <1>6, <1>10, <2>2 DEF ForwardResponse, agentVars, daemonVars
<1>11. ASSUME UNCHANGED <<sent, got, pipeVars, loopVars, decoded>>, serverUp' => serverUp
       PROVE  ProxyInv'
  <2>1. Copies' /\ Steady BY <1>11, OtherStep DEF ProxyInv
  <2>2. QED BY <1>6, <1>11, <2>1
<1>12. ASSUME AgentReads PROVE ProxyInv'
  BY <1>4, <1>12 DEF AgentReads, daemonVars, Directions
<1>13. ASSUME ServerReads PROVE ProxyInv'
  BY <1>4, <1>13 DEF ServerReads, daemonVars, Directions
<1>14. ASSUME AgentHangsUp \/ DaemonStalls \/ DaemonDrains PROVE ProxyInv'
  BY <1>11, <1>14 DEF AgentHangsUp, DaemonStalls, DaemonDrains, agentVars, daemonVars
<1>15. ASSUME ServerExits PROVE ProxyInv'
  BY <1>11, <1>15 DEF ServerExits, agentVars, daemonVars
<1>16. ASSUME BrokenStdout \/ Interrupt \/ MainNext PROVE ProxyInv'
  BY <1>11, <1>16 DEF BrokenStdout, Interrupt, MainNext, LoopsJoined, ReapServer,
                      CloseClient, agentVars, daemonVars
<1>17. ASSUME UNCHANGED proxyVars PROVE ProxyInv'
  BY <1>11, <1>17 DEF proxyVars, agentVars, daemonVars
<1>18. QED
  BY <1>2, <1>3, <1>5, <1>7, <1>8, <1>9, <1>10, <1>12, <1>13, <1>14, <1>15, <1>16, <1>17
     DEF ProxyNext, ServerNext, RequestLoop, ResponseLoop, LoopNext, Directions

LEMMA ProxyInvariant == ProxySpec => []ProxyInv
<1>1. ProxyInit => ProxyInv BY ProxyInvInit
<1>2. ProxyInv /\ [ProxyNext]_proxyVars => ProxyInv' BY ProxyInvStep
<1>3. QED BY <1>1, <1>2, PTL DEF ProxySpec

(* The pipes of a proxy never hold more than they can and never hold a line  *)
(* twice, and the proxy's variables keep their types, however many lines and *)
(* however large the pipes.                                                 *)
THEOREM ProxyTypeCorrect == ProxySpec => []ProxyTypeOK
<1>1. ProxyInv => ProxyTypeOK BY DEF ProxyInv
<1>2. QED BY <1>1, ProxyInvariant, PTL

(* What the daemon decodes of a proxy's reports is the traffic: per          *)
(* direction in its order, nothing twice, no answer before its request, with *)
(* two loops writing to one socket, lines torn and reports lost.             *)
THEOREM ReportsMirror == ProxySpec => []ReportsMirrorTraffic
<1>1. ProxyInv => ReportsMirrorTraffic BY DEF ProxyInv
<1>2. QED BY <1>1, ProxyInvariant, PTL

(* Every step of the proxy is a step of the two wires or does not show.      *)
LEMMA ProxyStepIsWireStep ==
  ASSUME ProxyInv, [ProxyNext]_proxyVars
  PROVE  [WireView!Next]_<<sent, got>>
<1>1. ASSUME NEW d \in Directions, NEW l \in Lines, Put(d, l), got' = got
      PROVE  WireView!Next
  BY <1>1 DEF Put, WireView!Next, WireView!Put
<1>2. ASSUME NEW d \in Directions, Take(d), UNCHANGED <<sent, source, serverUp, loopVars>>
      PROVE  WireView!Next
  <2>1. /\ Len(got[d]) < Len(sent[d])
        /\ got' = [got EXCEPT ![d] = Append(@, sent[d][Len(got[d]) + 1])]
    BY <1>2, TakeStep DEF ProxyInv
  <2>2. WireView!Take(d) BY <1>2, <2>1 DEF WireView!Take
  <2>3. QED BY <2>2 DEF WireView!Next
<1>3. ASSUME AgentSends PROVE WireView!Next
  <2>1. Put("request", Len(sent["request"]) + 1) /\ got' = got /\ "request" \in Directions
    BY <1>3 DEF AgentSends, Directions
  <2>2. Len(sent["request"]) + 1 \in Lines
    <3>1. Len(sent["request"]) \in Nat BY PipeTypes DEF ProxyInv, Directions
    <3>2. Len(sent["request"]) < MaxLines BY <1>3 DEF AgentSends
    <3>3. MaxLines \in Nat BY ProxyAssumption
    <3>4. QED BY <3>1, <3>2, <3>3 DEF Lines
  <2>3. QED BY <1>1, <2>1, <2>2
<1>4. ASSUME NEW l \in Lines, ServerAnswers(l) PROVE WireView!Next
  BY <1>1, <1>4 DEF ServerAnswers, Directions
<1>5. ASSUME AgentReads \/ ServerReads PROVE WireView!Next
  BY <1>2, <1>5 DEF AgentReads, ServerReads, Directions
<1>6. ASSUME \/ AgentHangsUp \/ ServerExits \/ DaemonStalls \/ DaemonDrains
             \/ RequestLoop \/ ResponseLoop \/ Interrupt \/ MainNext \/ UNCHANGED proxyVars
      PROVE  UNCHANGED <<sent, got>>
  BY <1>6 DEF AgentHangsUp, ServerExits, DaemonStalls, DaemonDrains, RequestLoop,
              ResponseLoop, LoopNext, ScanLine, LoopEnds, ReportLine, ForwardRequest,
              ForwardResponse, BrokenStdout, Interrupt, MainNext, LoopsJoined,
              ReapServer, CloseClient, proxyVars, agentVars
<1>7. QED BY <1>3, <1>4, <1>5, <1>6 DEF ProxyNext, ServerNext

(* With the proxy between them the agent and the server see two plain wires: *)
(* every line in order, nothing skipped, repeated or altered.                *)
THEOREM ProxyImplementsWire == ProxySpec => ImplementsWire
<1>1. ProxyInit => WireView!Init BY DEF ProxyInit, WireView!Init
<1>2. ProxyInv /\ [ProxyNext]_proxyVars => [WireView!Next]_<<sent, got>>
  BY ProxyStepIsWireStep
<1>3. QED
  BY <1>1, <1>2, ProxyInvariant, PTL
     DEF ProxySpec, ImplementsWire, WireView!Spec, WireView!vars
=============================================================================
