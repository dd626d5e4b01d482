---------------------------- MODULE DaemonProofs ----------------------------
(* Theorems about Daemon, for any set of connections, capacity, threshold   *)
(* and bounds.                                                              *)
EXTENDS Daemon, SequenceLemmas

(* The next report within its connection's bound is an event.               *)
LEMMA NextEvent ==
  ASSUME NEW c \in Conns, NEW n \in Nat, n < MaxEvents[c]
  PROVE  <<c, n + 1>> \in Events
<1>1. n + 1 \in 1 .. MaxEvents[c] BY BoundsAssumption
<1>2. <<c, n + 1>> \in {c} \X (1 .. MaxEvents[c]) BY <1>1
<1>3. QED BY <1>2 DEF Events

-----------------------------------------------------------------------------
(* Order within and between sequences of events.                            *)

(* Order between two sequences is a matter of their elements.               *)
LEMMA BeforeByRange ==
  ASSUME NEW s \in Seq(Events), NEW t \in Seq(Events)
  PROVE  Before(s, t) <=>
           \A x \in Range(s), y \in Range(t) : x[1] = y[1] => x[2] < y[2]
BY DEF Before, Range

(* The empty sequence is in order.                                          *)
LEMMA InOrderEmpty == InOrder(<<>>)
<1>1. DOMAIN <<>> = {} OBVIOUS
<1>2. QED BY <1>1 DEF InOrder

(* Sending an event read later than all it follows keeps the order.         *)
LEMMA InOrderAppend ==
  ASSUME NEW s \in Seq(Events), NEW e \in Events, InOrder(s),
         \A x \in Range(s) : x[1] = e[1] => x[2] < e[2]
  PROVE  InOrder(Append(s, e))
<1>1. /\ Append(s, e) \in Seq(Events)
      /\ Len(Append(s, e)) = Len(s) + 1
      /\ \A i \in 1 .. Len(s) : Append(s, e)[i] = s[i]
      /\ Append(s, e)[Len(s) + 1] = e
  BY AppendProperties
<1>2. /\ DOMAIN s = 1 .. Len(s) /\ Len(s) \in Nat
      /\ DOMAIN Append(s, e) = 1 .. (Len(s) + 1)
  BY <1>1, LenProperties
<1>3. \A i \in 1 .. Len(s) : s[i] \in Range(s)
  BY <1>2 DEF Range
<1>4. QED BY <1>1, <1>2, <1>3 DEF InOrder

(* Receiving takes the earliest and leaves the order.                       *)
LEMMA InOrderTail ==
  ASSUME NEW s \in Seq(Events), s # <<>>, InOrder(s)
  PROVE  /\ InOrder(Tail(s))
         /\ \A y \in Range(Tail(s)) : Head(s)[1] = y[1] => Head(s)[2] < y[2]
<1>1. /\ Tail(s) \in Seq(Events)
      /\ Len(Tail(s)) = Len(s) - 1
      /\ \A i \in 1 .. Len(Tail(s)) : Tail(s)[i] = s[i + 1]
  BY HeadTailProperties
<1>2. /\ DOMAIN s = 1 .. Len(s) /\ Len(s) \in Nat \ {0}
      /\ DOMAIN Tail(s) = 1 .. (Len(s) - 1)
      /\ Head(s) = s[1]
  BY <1>1, LenProperties, EmptySeq
<1>3. InOrder(Tail(s))
  BY <1>1, <1>2 DEF InOrder
<1>4. ASSUME NEW y \in Range(Tail(s)), Head(s)[1] = y[1]
      PROVE  Head(s)[2] < y[2]
  <2>1. PICK i \in 1 .. (Len(s) - 1) : y = Tail(s)[i]
    BY <1>2 DEF Range
  <2>2. i + 1 \in 1 .. Len(s) /\ y = s[i + 1] /\ 1 < i + 1
    BY <2>1, <1>1, <1>2
  <2>3. QED BY <2>2, <1>2, <1>4 DEF InOrder
<1>5. QED BY <1>3, <1>4

(* Committing a batch after the rows it follows keeps the order.            *)
LEMMA InOrderConcat ==
  ASSUME NEW s \in Seq(Events), NEW t \in Seq(Events),
         InOrder(s), InOrder(t), Before(s, t)
  PROVE  InOrder(s \o t)
<1>1. /\ Len(s \o t) = Len(s) + Len(t)
      /\ \A i \in 1 .. Len(s) + Len(t) :
           (s \o t)[i] = IF i <= Len(s) THEN s[i] ELSE t[i - Len(s)]
      /\ s \o t \in Seq(Events)
  BY ConcatProperties
<1>2. /\ DOMAIN s = 1 .. Len(s) /\ Len(s) \in Nat
      /\ DOMAIN t = 1 .. Len(t) /\ Len(t) \in Nat
      /\ DOMAIN (s \o t) = 1 .. (Len(s) + Len(t))
  BY <1>1, LenProperties
<1>3. SUFFICES ASSUME NEW i \in 1 .. (Len(s) + Len(t)),
                      NEW j \in 1 .. (Len(s) + Len(t)),
                      i < j, (s \o t)[i][1] = (s \o t)[j][1]
               PROVE  (s \o t)[i][2] < (s \o t)[j][2]
  BY <1>2 DEF InOrder
<1>4. CASE j <= Len(s)
  <2>1. /\ i \in 1 .. Len(s) /\ j \in 1 .. Len(s)
        /\ (s \o t)[i] = s[i] /\ (s \o t)[j] = s[j]
    BY <1>1, <1>2, <1>3, <1>4
  <2>2. QED BY <2>1, <1>2, <1>3 DEF InOrder
<1>5. CASE i <= Len(s) /\ j > Len(s)
  <2>1. /\ i \in 1 .. Len(s) /\ j - Len(s) \in 1 .. Len(t)
        /\ (s \o t)[i] = s[i] /\ (s \o t)[j] = t[j - Len(s)]
    BY <1>1, <1>2, <1>3, <1>5
  <2>2. QED BY <2>1, <1>2, <1>3 DEF Before
<1>6. CASE i > Len(s)
  <2>1. /\ i - Len(s) \in 1 .. Len(t) /\ j - Len(s) \in 1 .. Len(t)
        /\ i - Len(s) < j - Len(s)
    BY <1>2, <1>3, <1>6
  <2>2. (s \o t)[i] = t[i - Len(s)] /\ (s \o t)[j] = t[j - Len(s)]
    BY <1>1, <1>2, <1>3, <1>6
  <2>3. QED BY <2>1, <2>2, <1>2, <1>3 DEF InOrder
<1>7. QED BY <1>2, <1>3, <1>4, <1>5, <1>6

(* A sequence is its first n elements and the others.                       *)
LEMMA SplitSeq ==
  ASSUME NEW s \in Seq(Events), NEW n \in 0 .. Len(s)
  PROVE  /\ SubSeq(s, 1, n) \in Seq(Events)
         /\ SubSeq(s, n + 1, Len(s)) \in Seq(Events)
         /\ SubSeq(s, 1, n) \o SubSeq(s, n + 1, Len(s)) = s
<1>1. Len(s) \in Nat /\ n \in Nat /\ n <= Len(s) BY LenProperties
<1>2. \A i \in 1 .. Len(s) : s[i] \in Events BY ElementOfSeq
<1>3. SubSeq(s, 1, n) \in Seq(Events) BY <1>1, <1>2, SubSeqProperties
<1>4. SubSeq(s, n + 1, Len(s)) \in Seq(Events) BY <1>1, <1>2, SubSeqProperties
<1>5. SubSeq(s, 1, n) \o SubSeq(s, n + 1, Len(s)) = SubSeq(s, 1, Len(s))
  <2>1. 1 \in 1 .. Len(s) + 1 /\ n \in 1 - 1 .. Len(s) /\ Len(s) \in n .. Len(s)
    BY <1>1
  <2>2. QED BY <2>1, ConcatAdjacentSubSeq
<1>6. QED BY <1>3, <1>4, <1>5, SubSeqFull

(* Concatenation may be regrouped.                                          *)
LEMMA Regroup ==
  ASSUME NEW r \in Seq(Events), NEW s \in Seq(Events), NEW t \in Seq(Events)
  PROVE  (r \o s) \o t = r \o (s \o t)
BY ConcatAssociative

-----------------------------------------------------------------------------
(* Each step keeps the inductive invariant.                                 *)

(* Steps that leave the open transaction and all it is compared with.       *)
LEMMA TxViewFrame ==
  ASSUME TxView,
         UNCHANGED <<txVars, writerPc, batch, rows, sessionExists, totalEvents>>
  PROVE  TxView'
BY DEF TxView, txVars

(* Outside BatchInsert no transaction of the writer's is open, and what it  *)
(* does with its batch is no concern of the request's.                      *)
LEMMA TxViewIdle ==
  ASSUME TxView, writerPc \notin FlushStates, UNCHANGED txVars
  PROVE  TxView'
BY DEF TxView, txVars, BatchTx

(* No transaction is open.                                                  *)
LEMMA TxViewClosed ==
  ASSUME tx' = "none"
  PROVE  TxView'
BY DEF TxView, BatchTx

(* Steps that move a program counter, but nothing an event can be in.       *)
LEMMA FrameStep ==
  ASSUME IndInv,
         UNCHANGED <<received, writeCh, batch, rows, sessionExists, totalEvents,
                     dropped, failed, deleted>>,
         TypeOK',
         \A c \in Conns : handler'[c] = "enriched" <=> handler[c] = "enriched",
         FlushHasBatch', TxView'
  PROVE  IndInv'
<1>1. PipelineOrder' BY DEF IndInv, PipelineOrder
<1>2. Accounting'
  <2>1. \A e \in Events : Pending(e)' <=> Pending(e)
    BY DEF Pending, Held, InHand, Events
  <2>2. QED
    BY <2>1 DEF IndInv, Accounting, Accepted, Stored, Lost
<1>3. SessionConsistent' BY DEF IndInv, SessionConsistent
<1>4. HandIsFresh' BY DEF IndInv, HandIsFresh, InHand
<1>5. QED BY <1>1, <1>2, <1>3, <1>4 DEF IndInv

(* A handler that starts, ends or goes back to its scanner.                 *)
LEMMA HandlerFrameStep ==
  ASSUME IndInv, NEW c \in Conns,
         Accept(c) \/ EndConnection(c) \/ BroadcastEvent(c)
  PROVE  IndInv'
<1>1. UNCHANGED <<mainPc, received, writeCh, dropped, writerVars, dbVars, txVars, reqVars>>
  BY DEF Accept, EndConnection, BroadcastEvent
<1>2. /\ handler' \in [Conns -> HandlerStates]
      /\ \A d \in Conns : handler'[d] = "enriched" <=> handler[d] = "enriched"
  BY DEF IndInv, TypeOK, Accept, EndConnection, BroadcastEvent, Goto, HandlerStates
<1>3. TypeOK'
  BY <1>1, <1>2 DEF IndInv, TypeOK, writerVars, dbVars, txVars, reqVars
<1>4. FlushHasBatch' BY <1>1 DEF IndInv, FlushHasBatch, writerVars
<1>5. TxView' BY <1>1, TxViewFrame DEF IndInv, writerVars, dbVars
<1>6. QED BY <1>1, <1>2, <1>3, <1>4, <1>5, FrameStep DEF writerVars, dbVars, reqVars

(* A handler reads a report: the new event is later than all others.        *)
LEMMA ReadReportStep ==
  ASSUME IndInv, NEW c \in Conns, ReadReport(c)
  PROVE  IndInv'
<1>1. /\ UNCHANGED <<mainPc, writeCh, dropped, writerVars, dbVars, txVars, reqVars>>
      /\ received[c] \in 0 .. MaxEvents[c] /\ received[c] < MaxEvents[c]
      /\ received' = [received EXCEPT ![c] = received[c] + 1]
      /\ handler' = [handler EXCEPT ![c] = "enriched"]
      /\ handler[c] = "scanning"
      /\ handler \in [Conns -> HandlerStates]
      /\ received \in [Conns -> Nat]
  BY DEF ReadReport, IndInv, TypeOK, Goto
<1> DEFINE new == <<c, received[c] + 1>>
<1>2. new \in Events BY <1>1, NextEvent
<1>3. TypeOK'
  <2>1. /\ received' \in [Conns -> Nat]
        /\ \A d \in Conns : received'[d] <= MaxEvents[d]
    <3>1. \A d \in Conns : received[d] <= MaxEvents[d] BY DEF IndInv, TypeOK
    <3>2. received[c] \in Nat /\ MaxEvents[c] \in Nat BY <1>1, BoundsAssumption
    <3>3. received[c] + 1 \in Nat /\ received[c] + 1 <= MaxEvents[c]
      BY <1>1, <3>2
    <3>4. QED BY <1>1, <3>1, <3>3
  <2>2. handler' \in [Conns -> HandlerStates] BY <1>1 DEF HandlerStates
  <2>3. QED
    BY <1>1, <2>1, <2>2 DEF IndInv, TypeOK, writerVars, dbVars, txVars, reqVars
<1>4. ~Accepted(new) BY <1>1, BoundsAssumption DEF Accepted
<1>5. /\ ~Pending(new) /\ ~Stored(new) /\ ~Lost(new) /\ new \notin deleted
  BY <1>2, <1>4 DEF IndInv, Accounting
<1>6. \A e \in Events : Accepted(e)' <=> Accepted(e) \/ e = new
  BY <1>1, BoundsAssumption DEF Accepted, Events
<1>7. \A e \in Events : Held(e)' <=> Held(e) \/ e = new
  BY <1>1, BoundsAssumption DEF Held, InHand, Events
<1>8. \A e \in Events : Pending(e)' <=> Pending(e) \/ e = new
  BY <1>1, <1>7 DEF Pending, writerVars
<1>9. \A e \in Events : (Stored(e)' <=> Stored(e)) /\ (Lost(e)' <=> Lost(e))
  BY <1>1 DEF Stored, Lost, dbVars, writerVars
<1>10. Accounting'
  BY <1>1, <1>5, <1>6, <1>8, <1>9 DEF IndInv, Accounting, reqVars, writerVars
<1>11. HandIsFresh'
  <2>1. new \notin Range(writeCh) \cup Range(batch)
    BY <1>5 DEF Pending
  <2>2. \A d \in Conns : InHand(d)' = IF d = c THEN new ELSE InHand(d)
    BY <1>1 DEF InHand
  <2>3. QED BY <1>1, <2>1, <2>2 DEF IndInv, HandIsFresh, writerVars
<1>12. PipelineOrder' BY <1>1 DEF IndInv, PipelineOrder, writerVars, dbVars
<1>13. SessionConsistent' BY <1>1 DEF IndInv, SessionConsistent, dbVars
<1>14. FlushHasBatch' BY <1>1 DEF IndInv, FlushHasBatch, writerVars
<1>15. TxView' BY <1>1, TxViewFrame DEF IndInv, writerVars, dbVars
<1>16. QED BY <1>3, <1>10, <1>11, <1>12, <1>13, <1>14, <1>15 DEF IndInv

(* What the invariant says of the event a handler is about to enqueue: it   *)
(* is later than everything its connection has in the pipeline.             *)
LEMMA HandIsLatest ==
  ASSUME IndInv, NEW c \in Conns, handler[c] = "enriched"
  PROVE  /\ InHand(c) \in Events
         /\ \A x \in Range(rows) \cup Range(batch) \cup Range(writeCh) :
              x[1] = c => x[2] < received[c]
         /\ ~Stored(InHand(c)) /\ ~Lost(InHand(c)) /\ InHand(c) \notin deleted
<1>1. /\ received[c] \in 1 .. MaxEvents[c]
      /\ rows \in Seq(Events) /\ batch \in Seq(Events) /\ writeCh \in Seq(Events)
  BY DEF IndInv, HandIsFresh, TypeOK
<1>2. InHand(c) \in Events BY <1>1 DEF InHand, Events
<1>3. Held(InHand(c)) BY DEF Held, InHand
<1>4. /\ ~Stored(InHand(c)) /\ ~Lost(InHand(c)) /\ InHand(c) \notin deleted
  BY <1>2, <1>3 DEF IndInv, Accounting, Pending
<1>5. ASSUME NEW x \in Range(rows) \cup Range(batch) \cup Range(writeCh),
             x[1] = c
      PROVE  x[2] < received[c]
  <2>1. x \in Events BY <1>1, RangeOfSeq
  <2>2. Pending(x) \/ Stored(x) BY DEF Pending, Stored
  <2>3. Accepted(x) BY <2>1, <2>2 DEF IndInv, Accounting
  <2>4. x[2] <= received[c] /\ x[2] \in 1 .. MaxEvents[c]
    BY <2>1, <2>3, <1>5 DEF Accepted, Events
  <2>5. x # InHand(c)
    BY <1>4, <2>2 DEF IndInv, HandIsFresh, Stored
  <2>6. x = <<c, x[2]>> BY <2>1, <1>5 DEF Events
  <2>7. x[2] # received[c] BY <2>5, <2>6 DEF InHand
  <2>8. QED BY <2>4, <2>7, <1>1
<1>6. QED BY <1>2, <1>4, <1>5

(* After the send or the drop the handler holds nothing.                    *)
LEMMA HandEmptied ==
  ASSUME IndInv, NEW c \in Conns, handler[c] = "enriched",
         handler' = [handler EXCEPT ![c] = "queued"], received' = received
  PROVE  /\ \A e \in Events : Held(e)' <=> Held(e) /\ e # InHand(c)
         /\ \A e \in Events : Accepted(e)' <=> Accepted(e)
         /\ Held(InHand(c))
         /\ \A d \in Conns : handler'[d] = "enriched" <=> handler[d] = "enriched" /\ d # c
         /\ \A d \in Conns : InHand(d)' = InHand(d)
<1>1. handler \in [Conns -> HandlerStates] BY DEF IndInv, TypeOK
<1>2. \A d \in Conns : handler'[d] = "enriched" <=> handler[d] = "enriched" /\ d # c
  BY <1>1
<1>3. \A e \in Events : e[1] \in Conns BY DEF Events
<1>4. \A e \in Events : Held(e)' <=> Held(e) /\ e # InHand(c)
  BY <1>2, <1>3 DEF Held, InHand
<1>5. QED BY <1>2, <1>4 DEF Held, InHand, Accepted

(* The non-blocking send succeeds.                                          *)
LEMMA EnqueueEventStep ==
  ASSUME IndInv, NEW c \in Conns, EnqueueEvent(c)
  PROVE  IndInv'
<1> DEFINE e == InHand(c)
<1>1. /\ UNCHANGED <<mainPc, received, dropped, writerVars, dbVars, txVars, reqVars>>
      /\ handler[c] = "enriched" /\ Len(writeCh) < ChanCap
      /\ writeCh' = Append(writeCh, e)
      /\ handler' = [handler EXCEPT ![c] = "queued"]
  BY DEF EnqueueEvent, Goto
<1>2. /\ e \in Events
      /\ \A x \in Range(rows) \cup Range(batch) \cup Range(writeCh) :
           x[1] = c => x[2] < received[c]
      /\ ~Stored(e) /\ ~Lost(e) /\ e \notin deleted
  BY <1>1, HandIsLatest
<1>3. e[1] = c /\ e[2] = received[c] BY DEF InHand
<1>4. /\ writeCh \in Seq(Events) /\ rows \in Seq(Events) /\ batch \in Seq(Events)
  BY DEF IndInv, TypeOK
<1>5. /\ writeCh' \in Seq(Events)
      /\ Len(writeCh') = Len(writeCh) + 1
      /\ Range(writeCh') = Range(writeCh) \cup {e}
  BY <1>1, <1>2, <1>4, AppendProperties, RangeAppend
<1>6. /\ \A x \in Events : Held(x)' <=> Held(x) /\ x # e
      /\ \A x \in Events : Accepted(x)' <=> Accepted(x)
      /\ Held(e)
      /\ \A d \in Conns : handler'[d] = "enriched" <=> handler[d] = "enriched" /\ d # c
      /\ \A d \in Conns : InHand(d)' = InHand(d)
  BY <1>1, HandEmptied
<1>7. TypeOK'
  <2>1. Len(writeCh') <= ChanCap
    BY <1>1, <1>4, <1>5, LenProperties, BoundsAssumption
  <2>2. handler' \in [Conns -> HandlerStates]
    BY <1>1 DEF IndInv, TypeOK, HandlerStates
  <2>3. QED BY <1>1, <1>5, <2>1, <2>2 DEF IndInv, TypeOK, writerVars, dbVars, txVars, reqVars
<1>8. PipelineOrder'
  <2>1. InOrder(writeCh')
    BY <1>1, <1>2, <1>3, <1>4, InOrderAppend DEF IndInv, PipelineOrder
  <2>2. Before(rows, writeCh') /\ Before(batch, writeCh')
    BY <1>2, <1>3, <1>4, <1>5, BeforeByRange DEF IndInv, PipelineOrder
  <2>3. QED
    BY <1>1, <2>1, <2>2 DEF IndInv, PipelineOrder, writerVars, dbVars, Before, InOrder
<1>9. Accounting'
  <2>1. \A x \in Events : Pending(x)' <=> Pending(x)
    BY <1>1, <1>5, <1>6 DEF Pending, writerVars
  <2>2. \A x \in Events : (Stored(x)' <=> Stored(x)) /\ (Lost(x)' <=> Lost(x))
    BY <1>1 DEF Stored, Lost, dbVars, writerVars
  <2>3. QED
    BY <1>1, <1>6, <2>1, <2>2 DEF IndInv, Accounting, reqVars, writerVars
<1>10. HandIsFresh'
  <2>1. SUFFICES ASSUME NEW d \in Conns, handler'[d] = "enriched"
                 PROVE  /\ received[d] > 0
                        /\ InHand(d) \notin Range(writeCh') \cup Range(batch)
    BY <1>1, <1>6 DEF HandIsFresh, writerVars
  <2>2. handler[d] = "enriched" /\ d # c BY <1>6, <2>1
  <2>3. InHand(d) # e BY <2>2 DEF InHand
  <2>4. QED BY <1>5, <2>2, <2>3 DEF IndInv, HandIsFresh
<1>11. SessionConsistent' BY <1>1 DEF IndInv, SessionConsistent, dbVars
<1>12. FlushHasBatch' BY <1>1 DEF IndInv, FlushHasBatch, writerVars
<1>13. TxView' BY <1>1, TxViewFrame DEF IndInv, writerVars, dbVars
<1>14. QED BY <1>7, <1>8, <1>9, <1>10, <1>11, <1>12, <1>13 DEF IndInv

(* The channel is full and the event is dropped.                            *)
LEMMA DropEventStep ==
  ASSUME IndInv, NEW c \in Conns, DropEvent(c)
  PROVE  IndInv'
<1> DEFINE e == InHand(c)
<1>1. /\ UNCHANGED <<mainPc, writeCh, received, writerVars, dbVars, txVars, reqVars>>
      /\ handler[c] = "enriched"
      /\ dropped' = dropped \cup {e}
      /\ handler' = [handler EXCEPT ![c] = "queued"]
  BY DEF DropEvent, Goto
<1>2. e \in Events /\ ~Stored(e) /\ ~Lost(e) /\ e \notin deleted
  BY <1>1, HandIsLatest
<1>3. /\ \A x \in Events : Held(x)' <=> Held(x) /\ x # e
      /\ \A x \in Events : Accepted(x)' <=> Accepted(x)
      /\ Held(e)
      /\ \A d \in Conns : handler'[d] = "enriched" <=> handler[d] = "enriched" /\ d # c
      /\ \A d \in Conns : InHand(d)' = InHand(d)
  BY <1>1, HandEmptied
<1>4. e \notin Range(writeCh) \cup Range(batch)
  BY <1>1 DEF IndInv, HandIsFresh
<1>5. TypeOK'
  <2>1. handler' \in [Conns -> HandlerStates]
    BY <1>1 DEF IndInv, TypeOK, HandlerStates
  <2>2. QED BY <1>1, <1>2, <2>1 DEF IndInv, TypeOK, writerVars, dbVars, txVars, reqVars
<1>6. Accounting'
  <2>1. \A x \in Events : Pending(x)' <=> Pending(x) /\ x # e
    BY <1>1, <1>3, <1>4 DEF Pending, writerVars
  <2>2. \A x \in Events : (Stored(x)' <=> Stored(x)) /\ (Lost(x)' <=> Lost(x) \/ x = e)
    BY <1>1 DEF Stored, Lost, dbVars, writerVars
  <2>3. Pending(e) BY <1>3 DEF Pending
  <2>4. e \notin failed BY <1>2 DEF Lost
  <2>5. QED
    BY <1>1, <1>2, <1>3, <2>1, <2>2, <2>3, <2>4 DEF IndInv, Accounting, reqVars, writerVars
<1>7. HandIsFresh' BY <1>1, <1>3 DEF IndInv, HandIsFresh, writerVars
<1>8. PipelineOrder' BY <1>1 DEF IndInv, PipelineOrder, writerVars, dbVars
<1>9. SessionConsistent' BY <1>1 DEF IndInv, SessionConsistent, dbVars
<1>10. FlushHasBatch' BY <1>1 DEF IndInv, FlushHasBatch, writerVars
<1>11. TxView' BY <1>1, TxViewFrame DEF IndInv, writerVars, dbVars
<1>12. QED BY <1>5, <1>6, <1>7, <1>8, <1>9, <1>10, <1>11 DEF IndInv

(* The head of the channel moves to the end of the batch.                   *)
LEMMA ReceiveStep ==
  ASSUME IndInv, writeCh # <<>>, writerPc \notin FlushStates,
         batch' = Append(batch, Head(writeCh)),
         writeCh' = Tail(writeCh),
         writerPc' \in WriterStates,
         UNCHANGED <<mainPc, conVars, failed, dbVars, txVars, reqVars>>
  PROVE  IndInv'
<1> DEFINE e == Head(writeCh)
<1>1. /\ writeCh \in Seq(Events) /\ rows \in Seq(Events) /\ batch \in Seq(Events)
      /\ Len(writeCh) <= ChanCap
  BY DEF IndInv, TypeOK
<1>2. /\ e \in Events /\ writeCh' \in Seq(Events)
      /\ Len(writeCh') = Len(writeCh) - 1
      /\ Range(writeCh) = {e} \cup Range(writeCh')
  BY <1>1, HeadTailProperties, RangeHeadTail
<1>3. /\ batch' \in Seq(Events) /\ batch' # <<>>
      /\ Range(batch') = Range(batch) \cup {e}
  BY <1>1, <1>2, AppendProperties, RangeAppend
<1>4. TypeOK'
  <2>1. Len(writeCh') <= ChanCap
    BY <1>1, <1>2, LenProperties, BoundsAssumption
  <2>2. QED BY <1>2, <1>3, <2>1 DEF IndInv, TypeOK, conVars, dbVars, txVars, reqVars
<1>5. PipelineOrder'
  <2>1. /\ InOrder(writeCh')
        /\ \A y \in Range(writeCh') : e[1] = y[1] => e[2] < y[2]
    BY <1>1, InOrderTail DEF IndInv, PipelineOrder
  <2>2. \A x \in Range(batch), y \in Range(writeCh) : x[1] = y[1] => x[2] < y[2]
    BY <1>1, BeforeByRange DEF IndInv, PipelineOrder
  <2>3. \A x \in Range(rows), y \in Range(writeCh) : x[1] = y[1] => x[2] < y[2]
    BY <1>1, BeforeByRange DEF IndInv, PipelineOrder
  <2>4. \A x \in Range(rows), y \in Range(batch) : x[1] = y[1] => x[2] < y[2]
    BY <1>1, BeforeByRange DEF IndInv, PipelineOrder
  <2>5. InOrder(batch')
    BY <1>1, <1>2, <2>2, InOrderAppend DEF IndInv, PipelineOrder
  <2>6. Before(batch', writeCh')
    BY <1>2, <1>3, <2>1, <2>2, BeforeByRange
  <2>7. Before(rows, batch') /\ Before(rows, writeCh')
    BY <1>1, <1>2, <1>3, <2>3, <2>4, BeforeByRange
  <2>8. rows' = rows BY DEF dbVars
  <2>9. InOrder(rows) BY DEF IndInv, PipelineOrder
  <2>10. QED BY <2>1, <2>5, <2>6, <2>7, <2>8, <2>9 DEF PipelineOrder
<1>6. Accounting'
  <2>1. \A x \in Events : Pending(x)' <=> Pending(x)
    BY <1>2, <1>3 DEF Pending, Held, InHand, conVars
  <2>2. QED
    BY <2>1 DEF IndInv, Accounting, Accepted, Stored, Lost, conVars, dbVars, reqVars
<1>7. HandIsFresh'
  BY <1>2, <1>3 DEF IndInv, HandIsFresh, InHand, conVars
<1>8. SessionConsistent' BY DEF IndInv, SessionConsistent, dbVars
<1>9. FlushHasBatch' BY <1>3 DEF FlushHasBatch
<1>10. TxView' BY TxViewIdle DEF IndInv
<1>11. QED BY <1>4, <1>5, <1>6, <1>7, <1>8, <1>9, <1>10 DEF IndInv

(* The batch is lost with its transaction.                                  *)
LEMMA LoseBatchStep ==
  ASSUME IndInv, LoseBatch, writerPc \in FlushStates,
         faults' \in 0 .. MaxFaults,
         UNCHANGED <<mainPc, writeCh, conVars, rows, sessionExists, totalEvents,
                     sessionEnded, reqVars>>
  PROVE  IndInv'
<1>0. /\ failed' = failed \cup Range(batch)
      /\ EndFlush /\ writerPc' \in {"select", "done"}
  BY DEF LoseBatch, EndFlush
<1>1. /\ writeCh \in Seq(Events) /\ rows \in Seq(Events) /\ batch \in Seq(Events)
  BY DEF IndInv, TypeOK
<1>2. /\ batch' = <<>> /\ Range(batch') = {} /\ batch' \in Seq(Events)
  BY <1>0, RangeEmpty, EmptySeq DEF EndFlush
<1>3. Range(batch) \subseteq Events BY <1>1, RangeOfSeq
<1>4. TypeOK'
  <2>1. CloseTx \/ UNCHANGED txVars BY DEF LoseBatch
  <2>2. /\ tx' \in BatchTx \cup DeleteTx \cup {"none"}
        /\ txRows' \in Seq(Events) /\ txTotal' \in Nat
        /\ txSession' \in BOOLEAN /\ toInsert' \in Seq(Events)
    <3>1. CASE CloseTx BY <3>1, EmptySeq DEF CloseTx
    <3>2. CASE UNCHANGED txVars BY <3>2 DEF txVars, IndInv, TypeOK
    <3>3. QED BY <2>1, <3>1, <3>2
  <2>3. QED
    BY <1>0, <1>2, <1>3, <2>2 DEF IndInv, TypeOK, conVars, reqVars, WriterStates
<1>5. PipelineOrder'
  <2>1. InOrder(batch') BY <1>2, InOrderEmpty
  <2>2. Before(rows, batch') /\ Before(batch', writeCh)
    BY <1>1, <1>2, BeforeByRange
  <2>3. QED BY <2>1, <2>2 DEF IndInv, PipelineOrder, Before, InOrder
<1>6. \A x \in Range(batch) : x \notin Range(writeCh)
  <2>1. \A x \in Range(batch), y \in Range(writeCh) : x[1] = y[1] => x[2] < y[2]
    BY <1>1, BeforeByRange DEF IndInv, PipelineOrder
  <2>2. \A x \in Range(batch) : x[2] \in Nat BY <1>3 DEF Events
  <2>3. QED BY <2>1, <2>2
<1>7. \A x \in Range(batch) : ~Held(x)
  BY <1>3 DEF IndInv, HandIsFresh, Held, Events
<1>8. Accounting'
  <2>1. \A x \in Events : Pending(x)' <=> Pending(x) /\ x \notin Range(batch)
    BY <1>2, <1>6, <1>7 DEF Pending, Held, InHand, conVars
  <2>2. \A x \in Events : Lost(x)' <=> Lost(x) \/ x \in Range(batch)
    BY <1>0 DEF Lost, conVars
  <2>3. \A x \in Range(batch) : Pending(x) BY DEF Pending
  <2>4. \A x \in Range(batch) : x \notin dropped
    BY <1>3, <2>3 DEF IndInv, Accounting, Lost
  <2>5. QED
    BY <1>0, <2>1, <2>2, <2>3, <2>4
       DEF IndInv, Accounting, Accepted, Stored, conVars, reqVars
<1>9. HandIsFresh'
  BY <1>2 DEF IndInv, HandIsFresh, InHand, conVars
<1>10. SessionConsistent' BY DEF IndInv, SessionConsistent
<1>11. FlushHasBatch' BY <1>0 DEF FlushHasBatch, FlushStates
<1>12. TxView'
  <2>1. CASE tx \in BatchTx
    BY <2>1, TxViewClosed DEF LoseBatch, CloseTx
  <2>2. CASE tx \notin BatchTx
    BY <2>2 DEF LoseBatch, IndInv, TxView, txVars, BatchTx
  <2>3. QED BY <2>1, <2>2
<1>13. QED BY <1>4, <1>5, <1>8, <1>9, <1>10, <1>11, <1>12 DEF IndInv

(* What a batch's COMMIT publishes: the batch behind the rows it found, and *)
(* its count.                                                               *)
LEMMA CommitPublishes ==
  ASSUME IndInv, CommitBatch
  PROVE  /\ rows' = rows \o batch
         /\ totalEvents' = totalEvents + Len(batch)
         /\ sessionExists /\ sessionExists' = sessionExists
         /\ writerPc \in FlushStates
<1>1. /\ tx = "commitBatch" /\ tx \in BatchTx
      /\ rows' = txRows /\ totalEvents' = txTotal /\ sessionExists' = txSession
  BY DEF CommitBatch, CommitTx, BatchTx
<1>2. /\ writerPc \in FlushStates
      /\ txRows \o toInsert = rows \o batch
      /\ txSession = sessionExists /\ txSession
      /\ txTotal = totalEvents + Len(batch)
      /\ toInsert = <<>>
  BY <1>1 DEF IndInv, TxView
<1>3. txRows \o <<>> = txRows
  BY ConcatEmptySeq DEF IndInv, TypeOK
<1>4. QED BY <1>1, <1>2, <1>3

(* The transaction commits.                                                 *)
LEMMA CommitBatchStep ==
  ASSUME IndInv, CommitBatch
  PROVE  IndInv'
<1>1. /\ writeCh \in Seq(Events) /\ rows \in Seq(Events) /\ batch \in Seq(Events)
      /\ totalEvents \in Nat
  BY DEF IndInv, TypeOK
<1>2. /\ rows' = rows \o batch
      /\ totalEvents' = totalEvents + Len(batch)
      /\ sessionExists
      /\ writerPc' \in {"select", "done"}
      /\ UNCHANGED <<mainPc, writeCh, conVars, failed, sessionExists, sessionEnded,
                     faults, reqVars>>
      /\ CloseTx
  BY CommitPublishes DEF CommitBatch, CommitTx, EndFlush
<1>3. /\ batch' = <<>> /\ Range(batch') = {} /\ batch' \in Seq(Events)
  BY RangeEmpty, EmptySeq DEF CommitBatch, EndFlush
<1>4. /\ rows' \in Seq(Events)
      /\ Len(rows') = Len(rows) + Len(batch)
      /\ Range(rows') = Range(rows) \cup Range(batch)
  BY <1>1, <1>2, ConcatProperties, RangeConcatenation
<1>5. TypeOK'
  <2>1. totalEvents' \in Nat BY <1>1, <1>2, LenProperties
  <2>2. /\ tx' = "none" /\ txRows' \in Seq(Events) /\ txTotal' \in Nat
        /\ txSession' \in BOOLEAN /\ toInsert' \in Seq(Events)
    BY <1>2, EmptySeq DEF CloseTx
  <2>3. QED
    BY <1>2, <1>3, <1>4, <2>1, <2>2 DEF IndInv, TypeOK, conVars, reqVars, WriterStates
<1>6. PipelineOrder'
  <2>1. InOrder(batch') BY <1>3, InOrderEmpty
  <2>2. InOrder(rows')
    BY <1>1, <1>2, InOrderConcat DEF IndInv, PipelineOrder
  <2>3. Before(rows', batch') /\ Before(batch', writeCh)
    BY <1>1, <1>3, <1>4, BeforeByRange
  <2>4. Before(rows', writeCh)
    BY <1>1, <1>4, BeforeByRange DEF IndInv, PipelineOrder
  <2>5. writeCh' = writeCh BY <1>2
  <2>6. QED BY <2>1, <2>2, <2>3, <2>4, <2>5 DEF IndInv, PipelineOrder
<1>7. Range(batch) \subseteq Events BY <1>1, RangeOfSeq
<1>8. \A x \in Range(batch) : x \notin Range(writeCh)
  <2>1. \A x \in Range(batch), y \in Range(writeCh) : x[1] = y[1] => x[2] < y[2]
    BY <1>1, BeforeByRange DEF IndInv, PipelineOrder
  <2>2. \A x \in Range(batch) : x[2] \in Nat BY <1>7 DEF Events
  <2>3. QED BY <2>1, <2>2
<1>9. \A x \in Range(batch) : ~Held(x)
  BY <1>7 DEF IndInv, HandIsFresh, Held, Events
<1>10. Accounting'
  <2>1. \A x \in Events : Pending(x)' <=> Pending(x) /\ x \notin Range(batch)
    BY <1>2, <1>3, <1>8, <1>9 DEF Pending, Held, InHand, conVars
  <2>2. \A x \in Events : Stored(x)' <=> Stored(x) \/ x \in Range(batch)
    BY <1>4 DEF Stored
  <2>3. \A x \in Range(batch) : Pending(x) BY DEF Pending
  <2>4. QED
    BY <1>2, <2>1, <2>2, <2>3
       DEF IndInv, Accounting, Accepted, Lost, conVars, reqVars
<1>11. HandIsFresh'
  BY <1>2, <1>3 DEF IndInv, HandIsFresh, InHand, conVars
<1>12. SessionConsistent'
  BY <1>2, <1>4 DEF IndInv, SessionConsistent
<1>13. FlushHasBatch' BY <1>2 DEF FlushHasBatch, FlushStates
<1>14. TxView' BY <1>2, TxViewClosed DEF CloseTx
<1>15. QED BY <1>5, <1>6, <1>10, <1>11, <1>12, <1>13, <1>14 DEF IndInv

(* The session and its rows are deleted.                                    *)
LEMMA CommitDeleteStep ==
  ASSUME IndInv, CommitDelete
  PROVE  IndInv'
<1>1. /\ writeCh \in Seq(Events) /\ rows \in Seq(Events) /\ batch \in Seq(Events)
  BY DEF IndInv, TypeOK
<1>2. /\ deleted' = deleted \cup Range(rows)
      /\ rows' = <<>> /\ Range(rows') = {} /\ rows' \in Seq(Events)
      /\ sessionExists' = FALSE
      /\ totalEvents' = txTotal
      /\ deleteReq' = "none"
      /\ CloseTx
      /\ UNCHANGED <<mainPc, writeCh, conVars, writerVars, sessionEnded, faults, deletes>>
  BY RangeEmpty, EmptySeq DEF CommitDelete, CommitTx, IndInv, TypeOK, TxView
<1>3. Range(rows) \subseteq Events BY <1>1, RangeOfSeq
<1>4. TypeOK'
  <2>1. /\ tx' = "none" /\ txRows' \in Seq(Events) /\ txTotal' \in Nat
        /\ txSession' \in BOOLEAN /\ toInsert' \in Seq(Events)
    BY <1>2, EmptySeq DEF CloseTx
  <2>2. totalEvents' \in Nat BY <1>2 DEF IndInv, TypeOK
  <2>3. QED BY <1>2, <1>3, <2>1, <2>2 DEF IndInv, TypeOK, conVars, writerVars
<1>5. PipelineOrder'
  <2>1. InOrder(rows') BY <1>2, InOrderEmpty
  <2>2. Before(rows', batch) /\ Before(rows', writeCh)
    BY <1>1, <1>2, BeforeByRange
  <2>3. batch' = batch /\ writeCh' = writeCh BY <1>2 DEF writerVars
  <2>4. QED BY <2>1, <2>2, <2>3 DEF IndInv, PipelineOrder
<1>6. Accounting'
  <2>1. \A x \in Events : Pending(x)' <=> Pending(x)
    BY <1>2 DEF Pending, Held, InHand, conVars, writerVars
  <2>2. \A x \in Events : ~Stored(x)' BY <1>2 DEF Stored
  <2>3. \A x \in Events : x \in deleted' <=> x \in deleted \/ Stored(x)
    BY <1>2 DEF Stored
  <2>4. QED
    BY <1>2, <2>1, <2>2, <2>3
       DEF IndInv, Accounting, Accepted, Lost, conVars, writerVars
<1>7. HandIsFresh'
  BY <1>2 DEF IndInv, HandIsFresh, InHand, conVars, writerVars
<1>8. SessionConsistent' BY <1>2 DEF SessionConsistent
<1>9. FlushHasBatch' BY <1>2 DEF IndInv, FlushHasBatch, writerVars
<1>10. TxView' BY <1>2, TxViewClosed DEF CloseTx
<1>11. QED BY <1>4, <1>5, <1>6, <1>7, <1>8, <1>9, <1>10 DEF IndInv

(* BEGIN and the statements before COMMIT leave everything else alone.      *)
LEMMA StatementStep ==
  ASSUME IndInv, TxView',
         UNCHANGED <<mainPc, writeCh, conVars, writerVars, dbVars, reqVars>>,
         tx' \in BatchTx \cup DeleteTx,
         txRows' \in Seq(Events), txTotal' \in Nat,
         txSession' \in BOOLEAN, toInsert' \in Seq(Events)
  PROVE  IndInv'
<1>1. TypeOK'
  BY DEF IndInv, TypeOK, conVars, writerVars, dbVars, reqVars
<1>2. FlushHasBatch' BY DEF IndInv, FlushHasBatch, writerVars
<1>3. QED BY <1>1, <1>2, FrameStep DEF conVars, writerVars, dbVars, reqVars

(* BatchInsert opens its transaction.                                       *)
LEMMA BeginBatchStep == IndInv /\ BeginBatch => IndInv'
<1> SUFFICES ASSUME IndInv, BeginBatch PROVE IndInv'
  OBVIOUS
<1>1. /\ tx' = "insert" /\ txRows' = rows /\ txTotal' = totalEvents
      /\ txSession' = sessionExists /\ toInsert' = batch
      /\ writerPc \in FlushStates
      /\ UNCHANGED <<mainPc, writeCh, conVars, writerVars, dbVars, reqVars>>
  BY DEF BeginBatch, OpenTx
<1>2. TxView'
  BY <1>1 DEF TxView, writerVars, dbVars, IndInv, TypeOK
<1>3. /\ txRows' \in Seq(Events) /\ txTotal' \in Nat
      /\ txSession' \in BOOLEAN /\ toInsert' \in Seq(Events)
  BY <1>1 DEF IndInv, TypeOK
<1>4. QED BY <1>1, <1>2, <1>3, StatementStep DEF BatchTx

(* A chunk moves from the loop to the copy of the table.                    *)
LEMMA InsertChunkStep == IndInv /\ InsertChunk => IndInv'
<1> SUFFICES ASSUME IndInv, InsertChunk PROVE IndInv'
  OBVIOUS
<1> DEFINE n == IF Len(toInsert) < ChunkSize THEN Len(toInsert) ELSE ChunkSize
           chunk == SubSeq(toInsert, 1, n)
           rest  == SubSeq(toInsert, n + 1, Len(toInsert))
<1>1. /\ tx = "insert" /\ txSession
      /\ txRows' = txRows \o chunk /\ toInsert' = rest
      /\ tx' = IF rest = <<>> THEN "updateTotals" ELSE "insert"
      /\ UNCHANGED <<mainPc, writeCh, conVars, writerVars, dbVars, txTotal, txSession,
                     reqVars>>
  BY DEF InsertChunk
<1>2. /\ txRows \in Seq(Events) /\ toInsert \in Seq(Events)
      /\ txTotal \in Nat /\ txSession \in BOOLEAN
  BY DEF IndInv, TypeOK
<1>3. n \in 0 .. Len(toInsert)
  BY <1>2, LenProperties, BoundsAssumption
<1>4. chunk \in Seq(Events) /\ rest \in Seq(Events) /\ chunk \o rest = toInsert
  BY <1>2, <1>3, SplitSeq
<1>5. (txRows \o chunk) \o rest = txRows \o toInsert
  <2> HIDE DEF chunk, rest, n
  <2>1. (txRows \o chunk) \o rest = txRows \o (chunk \o rest)
    BY <1>2, <1>4, Regroup
  <2>2. QED BY <2>1, <1>4
<1>6. TxView'
  <2> HIDE DEF chunk, rest, n
  <2>1. /\ writerPc \in FlushStates
        /\ txRows \o toInsert = rows \o batch
        /\ txSession = sessionExists
        /\ txTotal = totalEvents + 0
    BY <1>1 DEF IndInv, TxView, BatchTx
  <2>2. /\ tx' \in BatchTx /\ tx' # "commitBatch"
        /\ tx' \notin {"deleteSession", "commitDelete"}
        /\ tx' = "updateTotals" => toInsert' = <<>>
    BY <1>1 DEF BatchTx
  <2>3. txRows' \o toInsert' = rows \o batch BY <1>1, <1>5, <2>1
  <2>4. QED BY <1>1, <2>1, <2>2, <2>3 DEF TxView, writerVars, dbVars
<1>7. txRows' \in Seq(Events) /\ toInsert' \in Seq(Events)
  <2> HIDE DEF chunk, rest, n
  <2>1. QED BY <1>1, <1>2, <1>4, ConcatProperties
<1>8. tx' \in BatchTx \cup DeleteTx
  <2> HIDE DEF chunk, rest, n
  <2>1. QED BY <1>1 DEF BatchTx
<1>9. QED
  <2> HIDE DEF chunk, rest, n
  <2>1. txTotal' \in Nat /\ txSession' \in BOOLEAN BY <1>1, <1>2
  <2>2. QED BY <1>1, <1>6, <1>7, <1>8, <2>1, StatementStep

(* The totals count the batch.                                              *)
LEMMA UpdateTotalsStep == IndInv /\ UpdateTotals => IndInv'
<1> SUFFICES ASSUME IndInv, UpdateTotals PROVE IndInv'
  OBVIOUS
<1>1. /\ tx = "updateTotals" /\ tx' = "commitBatch"
      /\ txTotal' = txTotal + Len(batch)
      /\ UNCHANGED <<mainPc, writeCh, conVars, writerVars, dbVars, txRows, txSession,
                     toInsert, reqVars>>
  BY DEF UpdateTotals
<1>2. /\ txRows \in Seq(Events) /\ toInsert \in Seq(Events)
      /\ txTotal \in Nat /\ txSession \in BOOLEAN
      /\ Len(batch) \in Nat /\ totalEvents \in Nat
  BY LenProperties DEF IndInv, TypeOK
<1>3. /\ writerPc \in FlushStates
      /\ txRows \o toInsert = rows \o batch
      /\ txSession = sessionExists /\ txSession
      /\ txTotal = totalEvents + 0 /\ toInsert = <<>>
  BY <1>1 DEF IndInv, TxView, BatchTx
<1>4. txTotal' = totalEvents + Len(batch) BY <1>1, <1>2, <1>3
<1>5. TxView' BY <1>1, <1>3, <1>4 DEF TxView, writerVars, dbVars, BatchTx
<1>6. txTotal' \in Nat BY <1>1, <1>2
<1>7. QED BY <1>1, <1>2, <1>5, <1>6, StatementStep DEF BatchTx

(* The statements of DeleteSession.                                         *)
LEMMA DeleteStatementStep ==
  IndInv /\ (BeginDelete \/ DeleteEvents \/ DeleteSessionRow) => IndInv'
<1> SUFFICES ASSUME IndInv, BeginDelete \/ DeleteEvents \/ DeleteSessionRow
             PROVE  IndInv'
  OBVIOUS
<1>1. /\ UNCHANGED <<mainPc, writeCh, conVars, writerVars, dbVars, toInsert, reqVars>>
      /\ tx' \in DeleteTx
  BY DEF BeginDelete, OpenTx, DeleteEvents, DeleteSessionRow, DeleteTx
<1>2. /\ txRows' \in Seq(Events) /\ txTotal' \in Nat
      /\ txSession' \in BOOLEAN /\ toInsert' \in Seq(Events)
  BY <1>1, EmptySeq
     DEF IndInv, TypeOK, BeginDelete, OpenTx, DeleteEvents, DeleteSessionRow
<1>3. TxView'
  BY <1>1 DEF BeginDelete, OpenTx, DeleteEvents, DeleteSessionRow, IndInv, TxView,
              BatchTx, DeleteTx
<1>4. QED BY <1>1, <1>2, <1>3, StatementStep

(* A DELETE that fails forgets its copy.                                    *)
LEMMA DeleteErrorStep == IndInv /\ DeleteError => IndInv'
<1> SUFFICES ASSUME IndInv, DeleteError PROVE IndInv'
  OBVIOUS
<1>1. /\ UNCHANGED <<mainPc, writeCh, conVars, writerVars, dbVars, deletes, deleted>>
      /\ deleteReq' = "none"
      /\ CloseTx \/ UNCHANGED txVars
  BY DEF DeleteError
<1>2. /\ tx' \in BatchTx \cup DeleteTx \cup {"none"}
      /\ txRows' \in Seq(Events) /\ txTotal' \in Nat
      /\ txSession' \in BOOLEAN /\ toInsert' \in Seq(Events)
  <2>1. CASE CloseTx BY <2>1, EmptySeq DEF CloseTx
  <2>2. CASE UNCHANGED txVars BY <2>2 DEF txVars, IndInv, TypeOK
  <2>3. QED BY <1>1, <2>1, <2>2
<1>3. TypeOK'
  BY <1>1, <1>2 DEF IndInv, TypeOK, conVars, writerVars, dbVars
<1>4. FlushHasBatch' BY <1>1 DEF IndInv, FlushHasBatch, writerVars
<1>5. TxView'
  <2>1. CASE CloseTx BY <2>1, TxViewClosed DEF CloseTx
  <2>2. CASE UNCHANGED txVars
    BY <1>1, <2>2, TxViewFrame DEF IndInv, writerVars, dbVars
  <2>3. QED BY <1>1, <2>1, <2>2
<1>6. QED BY <1>1, <1>3, <1>4, <1>5, FrameStep DEF conVars, writerVars, dbVars

-----------------------------------------------------------------------------
(* The invariant holds.                                                     *)

(* A fresh daemon satisfies it.                                             *)
LEMMA InitIndInv == Init => IndInv
<1> SUFFICES ASSUME Init PROVE IndInv
  OBVIOUS
<1>1. /\ Range(<<>>) = {} /\ <<>> \in Seq(Events) /\ Len(<<>>) = 0
      /\ InOrder(<<>>)
  BY RangeEmpty, EmptySeq, InOrderEmpty
<1>2. TypeOK
  <2>1. /\ writeCh \in Seq(Events) /\ batch \in Seq(Events) /\ rows \in Seq(Events)
        /\ Len(writeCh) <= ChanCap
    BY <1>1, BoundsAssumption DEF Init
  <2>2. /\ handler \in [Conns -> HandlerStates]
        /\ received \in [Conns -> Nat]
        /\ \A c \in Conns : received[c] <= MaxEvents[c]
    BY BoundsAssumption DEF Init, HandlerStates
  <2>3. /\ faults \in 0 .. MaxFaults /\ totalEvents \in Nat
        /\ deletes \in 0 .. MaxDeletes
        /\ txRows \in Seq(Events) /\ toInsert \in Seq(Events)
    BY <1>1, BoundsAssumption DEF Init
  <2>4. QED
    BY <2>1, <2>2, <2>3, BoundsAssumption DEF Init, TypeOK, MainStates, WriterStates
<1>3. Before(<<>>, <<>>) BY <1>1, BeforeByRange
<1>4. PipelineOrder BY <1>1, <1>3 DEF Init, PipelineOrder
<1>5. Accounting
  BY <1>1, BoundsAssumption
     DEF Init, Accounting, Accepted, Pending, Held, Stored, Lost, Events
<1>6. QED
  BY <1>1, <1>2, <1>4, <1>5
     DEF Init, IndInv, SessionConsistent, HandIsFresh, FlushHasBatch, FlushStates,
         TxView, BatchTx

(* Each of runWriter's steps keeps it.                                      *)
LEMMA WriterStep == IndInv /\ WriterNext => IndInv'
<1> SUFFICES ASSUME IndInv, WriterNext PROVE IndInv'
  OBVIOUS
<1>1. CASE WriterReceive
  <2>1. writerPc' \in WriterStates
    BY <1>1 DEF WriterReceive, WriterStates, FlushStates
  <2>2. QED BY <1>1, <2>1, ReceiveStep DEF WriterReceive, FlushStates
<1>2. CASE WriterDrain
  <2>1. writerPc' \in WriterStates
    BY <1>2 DEF WriterDrain, WriterStates
  <2>2. QED BY <1>2, <2>1, ReceiveStep DEF WriterDrain, FlushStates
<1>3. CASE WriterTick \/ WriterCancelled \/ WriterDrained
  <2>1. /\ UNCHANGED <<mainPc, writeCh, conVars, batch, failed, dbVars, txVars, reqVars>>
        /\ writerPc \notin FlushStates
        /\ writerPc' \in WriterStates
        /\ writerPc' \in FlushStates => batch # <<>>
    BY <1>3 DEF WriterTick, WriterCancelled, WriterDrained, WriterStates, FlushStates
  <2>2. TypeOK'
    BY <2>1 DEF IndInv, TypeOK, conVars, dbVars, txVars, reqVars
  <2>3. FlushHasBatch' BY <2>1 DEF FlushHasBatch
  <2>4. TxView' BY <2>1, TxViewIdle DEF IndInv
  <2>5. QED BY <2>1, <2>2, <2>3, <2>4, FrameStep DEF conVars, dbVars, reqVars
<1>4. CASE BeginBatch \/ InsertChunk \/ UpdateTotals \/ CommitBatch
  BY <1>4, BeginBatchStep, InsertChunkStep, UpdateTotalsStep, CommitBatchStep
<1>5. CASE FlushError
  <2>1. faults' \in 0 .. MaxFaults
    BY <1>5 DEF FlushError, dbVars, IndInv, TypeOK
  <2>2. QED BY <1>5, <2>1, LoseBatchStep DEF FlushError, dbVars
<1>6. CASE FlushFault
  <2>1. faults' \in 0 .. MaxFaults
    BY <1>6, BoundsAssumption DEF FlushFault, IndInv, TypeOK
  <2>2. QED BY <1>6, <2>1, LoseBatchStep DEF FlushFault
<1>7. QED BY <1>1, <1>2, <1>3, <1>4, <1>5, <1>6 DEF WriterNext

(* The process dies: nothing is pending any more, and no transaction open.  *)
LEMMA CrashStep ==
  ASSUME IndInv, Crash
  PROVE  IndInv'
<1>1. /\ mainPc' = "crashed" /\ writerPc' = "done" /\ tx' = "none"
      /\ writeCh' = <<>> /\ batch' = <<>> /\ deleteReq' = "none"
      /\ failed' = failed \cup {e \in Events : Pending(e)}
      /\ UNCHANGED <<received, dropped, rows, sessionExists, totalEvents, sessionEnded,
                     faults, deletes, deleted>>
  BY DEF Crash, CloseTx, dbVars
<1>2. /\ handler' \in [Conns -> HandlerStates]
      /\ \A c \in Conns : handler'[c] = "closed"
  BY DEF Crash, HandlerStates
<1>3. <<>> \in Seq(Events) /\ Len(<<>>) = 0 /\ Range(<<>>) = {} /\ DOMAIN <<>> = {}
  BY EmptySeq, RangeEmpty
<1>4. TypeOK'
  <2>1. /\ txRows' \in Seq(Events) /\ txTotal' \in Nat
        /\ txSession' \in BOOLEAN /\ toInsert' \in Seq(Events)
    BY <1>3 DEF Crash, CloseTx
  <2>2. writeCh' \in Seq(Events) /\ batch' \in Seq(Events) /\ Len(writeCh') <= ChanCap
    BY <1>1, <1>3, BoundsAssumption
  <2>3. failed' \subseteq Events BY <1>1 DEF IndInv, TypeOK
  <2>4. QED
    BY <1>1, <1>2, <2>1, <2>2, <2>3 DEF IndInv, TypeOK, MainStates, WriterStates
<1>5. PipelineOrder'
  BY <1>1, <1>3 DEF IndInv, PipelineOrder, InOrder, Before
<1>6. \A e \in Events : ~Pending(e)'
  <2>1. \A e \in Events : e[1] \in Conns BY DEF Events
  <2>2. \A e \in Events : ~Held(e)' BY <1>2, <2>1 DEF Held
  <2>3. QED BY <1>1, <1>3, <2>2 DEF Pending
<1>7. Accounting'
  <2>1. \A e \in Events : Lost(e)' <=> Lost(e) \/ Pending(e)
    BY <1>1 DEF Lost
  <2>2. \A e \in Events : e \in dropped => ~Pending(e)
    BY DEF IndInv, Accounting, Lost
  <2>3. \A e \in Events : e \in dropped' => e \notin failed'
    BY <1>1, <2>2 DEF IndInv, Accounting
  <2>4. \A e \in Events : (Accepted(e)' <=> Accepted(e)) /\ (Stored(e)' <=> Stored(e))
    BY <1>1 DEF Accepted, Stored
  <2>5. QED
    BY <1>1, <1>6, <2>1, <2>3, <2>4 DEF IndInv, Accounting
<1>8. SessionConsistent' BY <1>1 DEF IndInv, SessionConsistent
<1>9. HandIsFresh' BY <1>2 DEF HandIsFresh
<1>10. FlushHasBatch' BY <1>1 DEF FlushHasBatch, FlushStates
<1>11. TxView' BY <1>1, TxViewClosed
<1>12. QED BY <1>4, <1>5, <1>7, <1>8, <1>9, <1>10, <1>11 DEF IndInv

(* Each of main's steps and of the HTTP request's keeps it.                 *)
LEMMA MainStep ==
  IndInv /\ (RequestNext \/ Signal \/ ShutdownNext \/ Crash) => IndInv'
<1> SUFFICES ASSUME IndInv, RequestNext \/ Signal \/ ShutdownNext \/ Crash
             PROVE  IndInv'
  OBVIOUS
<1>1. CASE DeleteNext
  BY <1>1, DeleteStatementStep, CommitDeleteStep, DeleteErrorStep DEF DeleteNext
<1>2. ASSUME UNCHANGED <<writeCh, conVars, writerVars, rows, sessionExists, totalEvents,
                         txVars, deleted>>,
             mainPc' \in MainStates,
             deleteReq' \in {"none", "pending"},
             deletes' \in 0 .. MaxDeletes,
             faults' \in 0 .. MaxFaults,
             sessionEnded' \in BOOLEAN
      PROVE  IndInv'
  <2>1. TypeOK'
    BY <1>2 DEF IndInv, TypeOK, conVars, writerVars, txVars
  <2>2. FlushHasBatch' BY <1>2 DEF IndInv, FlushHasBatch, writerVars
  <2>3. TxView' BY <1>2, TxViewFrame DEF IndInv, writerVars
  <2>4. QED BY <1>2, <2>1, <2>2, <2>3, FrameStep DEF conVars, writerVars
<1>3. CASE RequestDelete
  BY <1>2, <1>3, BoundsAssumption DEF RequestDelete, dbVars, IndInv, TypeOK
<1>4. CASE CloseSession
  BY <1>2, <1>4, BoundsAssumption
     DEF CloseSession, reqVars, IndInv, TypeOK, MainStates
<1>5. CASE Signal \/ ShutdownHTTP \/ CloseListener \/ CancelWriter \/ Exit
  BY <1>2, <1>5
     DEF Signal, ShutdownHTTP, CloseListener, CancelWriter, Exit,
         dbVars, reqVars, IndInv, TypeOK, MainStates
<1>6. CASE Crash BY <1>6, CrashStep
<1>7. QED BY <1>1, <1>3, <1>4, <1>5, <1>6 DEF RequestNext, ShutdownNext

(* Every step of the daemon keeps it.                                       *)
LEMMA NextIndInv == IndInv /\ [Next]_vars => IndInv'
<1> SUFFICES ASSUME IndInv, [Next]_vars PROVE IndInv'
  OBVIOUS
<1>1. ASSUME NEW c \in Conns, HandlerNext(c) PROVE IndInv'
  BY <1>1, HandlerFrameStep, ReadReportStep, EnqueueEventStep, DropEventStep
     DEF HandlerNext
<1>2. CASE UNCHANGED vars
  <2>1. UNCHANGED <<mainPc, handler, received, writeCh, batch, writerPc, rows,
                    sessionExists, totalEvents, sessionEnded, deleteReq, deletes, faults,
                    dropped, failed, deleted, txVars>>
    BY <1>2 DEF vars, conVars, writerVars, dbVars, reqVars
  <2>2. TypeOK' BY <2>1 DEF IndInv, TypeOK, txVars
  <2>3. FlushHasBatch' BY <2>1 DEF IndInv, FlushHasBatch
  <2>4. TxView' BY <2>1, TxViewFrame DEF IndInv
  <2>5. QED BY <2>1, <2>2, <2>3, <2>4, FrameStep
<1>3. QED BY <1>1, <1>2, WriterStep, MainStep DEF Next

(* In every reachable state the inductive invariant holds.                  *)
LEMMA Invariance == Spec => []IndInv
BY InitIndInv, NextIndInv, PTL DEF Spec

(* The daemon's variables keep their types and the channel its capacity.    *)
THEOREM TypeCorrect == Spec => []TypeOK
<1>1. IndInv => TypeOK BY DEF IndInv
<1>2. QED BY <1>1, Invariance, PTL

(* Channel, batch and table hold each connection's events in the order they *)
(* were read and none twice, whatever fails or is interrupted.              *)
THEOREM OrderKept == Spec => []PipelineOrder
<1>1. IndInv => PipelineOrder BY DEF IndInv
<1>2. QED BY <1>1, Invariance, PTL

(* Every accepted event is in exactly one place: pending, a row, dropped,   *)
(* lost with a failed batch or the process, or deleted.                     *)
THEOREM NothingUnaccounted == Spec => []Accounting
<1>1. IndInv => Accounting BY DEF IndInv
<1>2. QED BY <1>1, Invariance, PTL

(* Whatever statement of a transaction fails and wherever the process ends,  *)
(* the committed total equals the number of committed rows, and no row is   *)
(* left without its session.                                                *)
THEOREM TotalsKept == Spec => []SessionConsistent
<1>1. IndInv => SessionConsistent BY DEF IndInv
<1>2. QED BY <1>1, Invariance, PTL

-----------------------------------------------------------------------------
(* Late sends.                                                              *)

(* Once the writer has drained the channel, main has been signalled, so a    *)
(* connection whose event is in the channel has read no other.               *)
LateSends ==
  /\ writerPc \in {"drain", "drainFlush", "done"} => CtxDone
  /\ writerPc \in {"drainFlush", "done"} =>
       /\ \A i, j \in DOMAIN writeCh : writeCh[i][1] = writeCh[j][1] => i = j
       /\ \A i \in DOMAIN writeCh : handler[writeCh[i][1]] # "enriched"

(* A handler that still holds an event has none in the drained channel.      *)
LEMMA LateEnqueue ==
  ASSUME TypeOK, LateSends, NEW c \in Conns, EnqueueEvent(c)
  PROVE  LateSends'
<1>1. /\ UNCHANGED <<mainPc, writerPc>>
      /\ handler[c] = "enriched" /\ handler' = [handler EXCEPT ![c] = "queued"]
      /\ handler \in [Conns -> HandlerStates]
      /\ writeCh \in Seq(Events) /\ writeCh' = Append(writeCh, InHand(c))
  BY DEF EnqueueEvent, Goto, writerVars, TypeOK
<1>2. InHand(c)[1] = c BY DEF InHand
<1>3. /\ Len(writeCh) \in Nat /\ DOMAIN writeCh = 1 .. Len(writeCh)
      /\ DOMAIN writeCh' = 1 .. Len(writeCh) + 1
      /\ \A i \in 1 .. Len(writeCh) : writeCh'[i] = writeCh[i]
      /\ writeCh'[Len(writeCh) + 1] = InHand(c)
  BY <1>1, LenProperties, AppendProperties
<1>4. ASSUME writerPc \in {"drainFlush", "done"},
             NEW i \in DOMAIN writeCh'
      PROVE  /\ i \in DOMAIN writeCh => writeCh'[i][1] # c /\ handler'[writeCh'[i][1]] # "enriched"
             /\ i \notin DOMAIN writeCh => i = Len(writeCh) + 1 /\ writeCh'[i][1] = c
  <2>1. ASSUME i \in DOMAIN writeCh
        PROVE  writeCh'[i][1] # c /\ handler'[writeCh'[i][1]] # "enriched"
    <3>1. writeCh'[i][1] = writeCh[i][1] /\ handler[writeCh[i][1]] # "enriched"
      BY <1>3, <1>4, <2>1 DEF LateSends
    <3>2. writeCh'[i][1] \in Conns
      BY <1>1, <1>3, <2>1, <3>1, ElementOfSeq DEF Events
    <3>3. QED BY <1>1, <3>1, <3>2
  <2>2. ASSUME i \notin DOMAIN writeCh
        PROVE  i = Len(writeCh) + 1 /\ writeCh'[i][1] = c
    BY <1>2, <1>3, <2>2
  <2>3. QED BY <2>1, <2>2
<1>5. CtxDone' <=> CtxDone BY <1>1 DEF CtxDone
<1>6. ASSUME writerPc \in {"drainFlush", "done"}
      PROVE  /\ \A i, j \in DOMAIN writeCh' : writeCh'[i][1] = writeCh'[j][1] => i = j
             /\ \A i \in DOMAIN writeCh' : handler'[writeCh'[i][1]] # "enriched"
  <2>1. \A i, j \in DOMAIN writeCh : writeCh'[i][1] = writeCh'[j][1] => i = j
    BY <1>3, <1>6 DEF LateSends
  <2>2. handler'[c] # "enriched" BY <1>1
  <2>3. QED BY <1>4, <1>6, <2>1, <2>2
<1>7. QED BY <1>1, <1>5, <1>6 DEF LateSends

(* The writer leaves the channel empty, and takes nothing from it after that. *)
LEMMA LateWriter ==
  ASSUME LateSends, WriterNext
  PROVE  LateSends'
<1>1. UNCHANGED <<mainPc, handler>>
  BY DEF WriterNext, WriterReceive, WriterTick, WriterCancelled, WriterDrain, WriterDrained,
         BeginBatch, InsertChunk, UpdateTotals, CommitBatch, FlushError, FlushFault, conVars
<1>2. CASE WriterReceive \/ WriterTick \/ WriterCancelled \/ WriterDrain
  <2>1. writerPc' \notin {"drainFlush", "done"}
    BY <1>2 DEF WriterReceive, WriterTick, WriterCancelled, WriterDrain
  <2>2. writerPc' = "drain" => WriteCtxDone \/ writerPc = "drain"
    BY <1>2 DEF WriterReceive, WriterTick, WriterCancelled, WriterDrain
  <2>3. QED BY <1>1, <2>1, <2>2 DEF LateSends, CtxDone, WriteCtxDone
<1>3. CASE WriterDrained
  <2>1. writerPc = "drain" /\ writeCh' = <<>> BY <1>3 DEF WriterDrained
  <2>2. QED BY <1>1, <2>1, EmptySeq DEF LateSends, CtxDone
<1>4. CASE CommitBatch \/ FlushError \/ FlushFault
  <2>1. /\ writeCh' = writeCh
        /\ writerPc' = IF writerPc = "drainFlush" THEN "done" ELSE "select"
    BY <1>4 DEF CommitBatch, FlushError, FlushFault, LoseBatch, EndFlush
  <2>2. QED BY <1>1, <2>1 DEF LateSends, CtxDone
<1>5. CASE BeginBatch \/ InsertChunk \/ UpdateTotals
  <2>1. UNCHANGED <<writeCh, writerPc>>
    BY <1>5 DEF BeginBatch, InsertChunk, UpdateTotals, writerVars
  <2>2. QED BY <1>1, <2>1 DEF LateSends, CtxDone
<1>6. QED BY <1>2, <1>3, <1>4, <1>5 DEF WriterNext

(* Every step of the daemon keeps it: the select on ctx.Done lets nobody     *)
(* read on after the signal.                                                *)
LEMMA LateStep == TypeOK /\ LateSends /\ [Next]_vars => LateSends'
<1> SUFFICES ASSUME TypeOK, LateSends, [Next]_vars PROVE LateSends'
  OBVIOUS
<1>1. ASSUME NEW c \in Conns, HandlerNext(c) PROVE LateSends'
  <2>1. CASE EnqueueEvent(c) BY <2>1, LateEnqueue
  <2>2. CASE ReadReport(c)
    <3>1. ~CtxDone /\ UNCHANGED <<mainPc, writerPc>>
      BY <2>2 DEF ReadReport, writerVars
    <3>2. QED BY <3>1 DEF LateSends, CtxDone
  <2>3. CASE Accept(c) \/ EndConnection(c) \/ DropEvent(c) \/ BroadcastEvent(c)
    <3>1. PICK pc \in {"scanning", "closed", "queued"} : handler' = [handler EXCEPT ![c] = pc]
      BY <2>3 DEF Accept, EndConnection, DropEvent, BroadcastEvent, Goto
    <3>2. UNCHANGED <<mainPc, writerPc, writeCh>>
      BY <2>3 DEF Accept, EndConnection, DropEvent, BroadcastEvent, writerVars
    <3>3. \A x : handler'[x] = "enriched" /\ x \in Conns => handler[x] = "enriched"
      BY <3>1 DEF TypeOK
    <3>4. \A i \in DOMAIN writeCh : writeCh[i][1] \in Conns
      BY LenProperties, ElementOfSeq DEF TypeOK, Events
    <3>5. QED BY <3>2, <3>3, <3>4 DEF LateSends, CtxDone
  <2>4. QED BY <1>1, <2>1, <2>2, <2>3 DEF HandlerNext
<1>2. CASE WriterNext BY <1>2, LateWriter
<1>3. CASE RequestNext \/ Signal \/ ShutdownNext
  <2>1. UNCHANGED <<writerPc, handler, writeCh>>
    BY <1>3 DEF RequestNext, RequestDelete, DeleteNext, BeginDelete, DeleteEvents,
       DeleteSessionRow, CommitDelete, DeleteError, Signal, ShutdownNext, ShutdownHTTP, CloseListener, CloseSession, CancelWriter, Exit,
       conVars, writerVars
  <2>2. CtxDone => CtxDone'
    BY <1>3 DEF CtxDone, RequestNext, RequestDelete, DeleteNext, BeginDelete, DeleteEvents,
       DeleteSessionRow, CommitDelete, DeleteError, Signal, ShutdownNext, ShutdownHTTP, CloseListener, CloseSession, CancelWriter, Exit
  <2>3. QED BY <2>1, <2>2 DEF LateSends
<1>4. CASE UNCHANGED vars
  BY <1>4 DEF LateSends, CtxDone, vars, conVars, writerVars
<1>5. CASE Crash
  <2>1. mainPc' = "crashed" /\ writeCh' = <<>> BY <1>5 DEF Crash
  <2>2. DOMAIN <<>> = {} BY EmptySeq
  <2>3. QED BY <2>1, <2>2 DEF LateSends, CtxDone
<1>6. QED BY <1>1, <1>2, <1>3, <1>4, <1>5 DEF Next

(* What late sends can lose is one event per connection, however many        *)
(* handlers pass their check of ctx before the signal (main.go, the drain    *)
(* loop of runWriter).                                                      *)
THEOREM LateLossIsBounded == Spec => []LateLossBounded
<1>1. Init => LateSends BY DEF Init, LateSends
<1>2. IndInv => TypeOK BY DEF IndInv
<1>3. LateSends => LateLossBounded BY DEF LateSends, LateLossBounded
<1>4. QED BY <1>1, <1>2, <1>3, LateStep, Invariance, PTL DEF Spec

-----------------------------------------------------------------------------
(* The daemon implements EventLog.                                          *)

Taken == {e \in Events : Accepted(e)}
Gone  == dropped \cup failed \cup deleted

(* The log's ranges and injections are the daemon's.                        *)
LEMMA LogFunctions ==
  ASSUME NEW f
  PROVE  /\ Log!Range(f) = Range(f)
         /\ Log!IsInjective(f) <=> IsInjective(f)
BY DEF Log!Range, Range, Log!IsInjective, IsInjective

(* What the log calls pending is what the pipeline holds.                   *)
LEMMA LogPending ==
  ASSUME IndInv
  PROVE  \A e \in Events : e \in Log!Pending <=> Pending(e)
<1>1. Log!Range(rows) = Range(rows) BY LogFunctions
<1>2. QED BY <1>1 DEF IndInv, Accounting, Log!Pending, Stored, Lost

(* Losing some pending events is a step of the log.                         *)
LEMMA LoseRefines ==
  ASSUME IndInv, NEW T \in SUBSET Events, \A e \in T : Pending(e),
         Gone' = Gone \cup T, received' = received, rows' = rows
  PROVE  Log!Next
<1>1. T \in SUBSET Log!Pending BY LogPending
<1>2. Taken' = Taken BY DEF Taken, Accepted
<1>3. Log!Lose BY <1>1, <1>2 DEF Log!Lose, Taken, Gone
<1>4. QED BY <1>3 DEF Log!Next

(* A committed transaction is a step of the log.                            *)
LEMMA CommitRefines ==
  ASSUME IndInv, CommitBatch
  PROVE  Log!Next
<1>1. /\ batch \in Seq(Events) /\ rows \in Seq(Events)
      /\ batch # <<>>
      /\ rows' = rows \o batch
  BY CommitPublishes DEF IndInv, TypeOK, FlushHasBatch
<1>2. /\ Len(batch) \in Nat \ {0} /\ Len(rows) \in Nat
      /\ Len(rows') = Len(rows) + Len(batch)
      /\ DOMAIN batch = 1 .. Len(batch)
  BY <1>1, EmptySeq, LenProperties, ConcatProperties
<1>3. SubSeq(rows', Len(rows) + 1, Len(rows')) = batch
  <2>1. /\ Len(rows) + 1 \in (Len(rows) + 1) .. (Len(rows) + Len(batch))
        /\ Len(rows') \in (Len(rows) + 1) .. (Len(rows) + Len(batch))
    BY <1>2
  <2>2. SubSeq(rows \o batch, Len(rows) + 1, Len(rows'))
          = SubSeq(batch, (Len(rows) + 1) - Len(rows), Len(rows') - Len(rows))
    BY <1>1, <2>1, SubSeqOfConcat2
  <2>3. (Len(rows) + 1) - Len(rows) = 1 /\ Len(rows') - Len(rows) = Len(batch)
    BY <1>2
  <2>4. SubSeq(batch, 1, Len(batch)) = batch BY <1>1, SubSeqFull
  <2>5. QED BY <1>1, <2>2, <2>3, <2>4
<1>4. IsInjective(batch)
  <2>1. \A i \in 1 .. Len(batch) : batch[i] \in Events BY <1>1, ElementOfSeq
  <2>2. ASSUME NEW i \in 1 .. Len(batch), NEW j \in 1 .. Len(batch), i < j
        PROVE  batch[i] # batch[j]
    <3>1. batch[j][2] \in Nat BY <2>1 DEF Events
    <3>2. QED BY <1>2, <2>2, <3>1 DEF IndInv, PipelineOrder, InOrder
  <2>3. \A i, j \in 1 .. Len(batch) : i < j \/ j < i \/ i = j BY <1>2
  <2>4. QED BY <1>2, <2>2, <2>3 DEF IsInjective
<1>5. Range(batch) \subseteq Log!Pending
  <2>1. Range(batch) \subseteq Events BY <1>1, RangeOfSeq
  <2>2. QED BY <2>1, LogPending DEF Pending
<1>6. Taken' = Taken /\ Gone' = Gone
  BY DEF CommitBatch, conVars, reqVars, Taken, Accepted, Gone
<1>7. Log!Store
  <2>1. Log!Range(batch) = Range(batch) /\ Log!IsInjective(batch)
    BY <1>4, LogFunctions
  <2>2. QED
    BY <2>1, <1>1, <1>3, <1>5, <1>6 DEF Log!Store, Taken, Gone
<1>8. QED BY <1>7 DEF Log!Next

(* A step that leaves the mapped state alone is a stutter of the log.       *)
LEMMA StutterRefines ==
  ASSUME UNCHANGED <<received, rows, dropped, failed, deleted>>
  PROVE  UNCHANGED Log!vars
BY DEF Log!vars, Accepted

(* Every step of the daemon is a step of the log, or a stutter.             *)
LEMMA StepRefines ==
  ASSUME IndInv, [Next]_vars
  PROVE  [Log!Next]_(Log!vars)
<1>1. CASE UNCHANGED vars
  BY <1>1, StutterRefines DEF vars, conVars, writerVars, dbVars, reqVars
<1>2. ASSUME NEW c \in Conns, HandlerNext(c) PROVE [Log!Next]_(Log!vars)
  <2>1. CASE Accept(c) \/ EndConnection(c) \/ EnqueueEvent(c) \/ BroadcastEvent(c)
    BY <2>1, StutterRefines
       DEF Accept, EndConnection, EnqueueEvent, BroadcastEvent, writerVars, dbVars, reqVars
  <2>2. CASE ReadReport(c)
    <3> DEFINE new == <<c, received[c] + 1>>
    <3>1. /\ received[c] \in 0 .. MaxEvents[c] /\ received[c] < MaxEvents[c]
          /\ received' = [received EXCEPT ![c] = received[c] + 1]
          /\ received \in [Conns -> Nat]
          /\ UNCHANGED <<rows, dropped, failed, deleted>>
      BY <2>2 DEF ReadReport, IndInv, TypeOK, dbVars, writerVars, reqVars
    <3>2. new \in Events /\ ~Accepted(new)
      BY <3>1, NextEvent, BoundsAssumption DEF Accepted
    <3>3. \A e \in Events : Accepted(e)' <=> Accepted(e) \/ e = new
      BY <3>1, BoundsAssumption DEF Accepted, Events
    <3>4. Taken' = Taken \cup {new} /\ new \in Events \ Taken
      BY <3>2, <3>3 DEF Taken
    <3>5. Log!Accept BY <3>1, <3>4 DEF Log!Accept, Taken
    <3>6. QED BY <3>5 DEF Log!Next
  <2>3. CASE DropEvent(c)
    <3>1. handler[c] = "enriched" /\ Gone' = Gone \cup {InHand(c)}
          /\ received' = received /\ rows' = rows
      BY <2>3 DEF DropEvent, Gone, writerVars, dbVars, reqVars
    <3>2. InHand(c) \in Events BY <3>1, HandIsLatest
    <3>3. Pending(InHand(c)) BY <3>1 DEF Pending, Held, InHand
    <3>4. {InHand(c)} \in SUBSET Events BY <3>2
    <3>5. QED BY <3>1, <3>3, <3>4, LoseRefines
  <2>4. QED BY <1>2, <2>1, <2>2, <2>3 DEF HandlerNext
<1>3. CASE WriterReceive \/ WriterTick \/ WriterCancelled \/ WriterDrain \/ WriterDrained
  BY <1>3, StutterRefines
     DEF WriterReceive, WriterTick, WriterCancelled, WriterDrain, WriterDrained,
         conVars, dbVars, reqVars
<1>4. CASE BeginBatch \/ InsertChunk \/ UpdateTotals \/ CommitBatch
  <2>1. CASE CommitBatch BY <2>1, CommitRefines
  <2>2. CASE BeginBatch \/ InsertChunk \/ UpdateTotals
    BY <2>2, StutterRefines
       DEF BeginBatch, InsertChunk, UpdateTotals, conVars, writerVars, dbVars, reqVars
  <2>3. QED BY <1>4, <2>1, <2>2
<1>5. CASE FlushError \/ FlushFault
  <2>1. Gone' = Gone \cup Range(batch) /\ received' = received /\ rows' = rows
    BY <1>5 DEF FlushError, FlushFault, LoseBatch, Gone, conVars, dbVars, reqVars
  <2>2. Range(batch) \in SUBSET Events
    BY RangeOfSeq DEF IndInv, TypeOK
  <2>3. \A e \in Range(batch) : Pending(e) BY DEF Pending
  <2>4. QED BY <2>1, <2>2, <2>3, LoseRefines
<1>6. CASE CommitDelete
  <2>1. /\ rows' = <<>> /\ Gone' = Gone \cup Range(rows)
        /\ received' = received
    BY <1>6 DEF CommitDelete, CommitTx, IndInv, TxView, Gone, conVars, writerVars
  <2>2. Taken' = Taken BY <2>1 DEF Taken, Accepted
  <2>3. Log!Wipe
    BY <2>1, <2>2, LogFunctions DEF Log!Wipe, Taken, Gone
  <2>4. QED BY <2>3 DEF Log!Next
<1>7. CASE \/ RequestDelete \/ BeginDelete \/ DeleteEvents \/ DeleteSessionRow
           \/ DeleteError \/ Signal \/ ShutdownNext
  BY <1>7, StutterRefines
     DEF RequestDelete, BeginDelete, DeleteEvents, DeleteSessionRow, DeleteError, Signal, ShutdownNext, ShutdownHTTP,
         CloseListener, CloseSession, CancelWriter, Exit,
         conVars, writerVars, dbVars, reqVars
<1>8. CASE Crash
  <2> DEFINE S == {e \in Events : Pending(e)}
  <2>1. Gone' = Gone \cup S /\ received' = received /\ rows' = rows
    BY <1>8 DEF Crash, Gone, dbVars
  <2>2. S \in SUBSET Events /\ \A e \in S : Pending(e) OBVIOUS
  <2>3. QED BY <2>1, <2>2, LoseRefines
<1>9. QED
  BY <1>1, <1>2, <1>3, <1>4, <1>5, <1>6, <1>7, <1>8
     DEF Next, WriterNext, RequestNext, DeleteNext

(* The daemon starts as an empty log.                                       *)
LEMMA InitRefines == Init => Log!Init
<1> SUFFICES ASSUME Init PROVE Log!Init
  OBVIOUS
<1>1. \A e \in Events : ~Accepted(e)
  BY BoundsAssumption DEF Init, Accepted, Events
<1>2. QED BY <1>1 DEF Init, Log!Init

(* Channel, batch, failing transactions, deletes, shutdown and crash        *)
(* together implement the log.                                              *)
THEOREM DaemonImplementsLog == Spec => ImplementsLog
<1>1. IndInv /\ [Next]_vars => [Log!Next]_(Log!vars)
  BY StepRefines
<1>2. QED BY <1>1, InitRefines, Invariance, PTL DEF Spec, ImplementsLog, Log!Spec
=============================================================================
