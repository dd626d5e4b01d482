------------------------------- MODULE Daemon -------------------------------
(***************************************************************************)
(* The spektr daemon (proxy/cmd/spektr/main.go) from an accepted proxy      *)
(* connection to a committed row: one handleProxyConnection goroutine per   *)
(* connection, the bounded write channel, the single runWriter goroutine,   *)
(* the session row and the event rows in SQLite, the HTTP request that      *)
(* deletes the running session, and main's shutdown sequence.               *)
(*                                                                         *)
(* BatchInsert and DeleteSession are transactions, modelled statement by    *)
(* statement: a statement changes the open transaction's copy of the        *)
(* tables, COMMIT publishes the copy, a rollback or the end of the process  *)
(* forgets it.  _txlock=immediate (db.go) makes BEGIN take SQLite's one     *)
(* write lock, so the writer and the request exclude each other.            *)
(*                                                                         *)
(* An event is <<c, n>>: the n-th report of connection c that decoded,      *)
(* parsed and was enriched.  A report that fails json.Unmarshal or Parse    *)
(* is skipped with `continue` and changes nothing, so it is a stuttering    *)
(* step.  What the hub does with a broadcast is module Hub.                 *)
(***************************************************************************)
EXTENDS Naturals, Sequences, Functions

CONSTANTS
  Conns,      \* proxy connections the daemon may accept
  MaxEvents,  \* bound: reports accepted from each connection
  ChanCap,    \* capacity of writeCh (10000 in the code)
  BatchSize,  \* flush threshold of runWriter (200 in the code)
  ChunkSize,  \* rows of one INSERT (500, eventBatchInsertChunkSize)
  MaxDeletes, \* bound: DELETE requests for the running session
  MaxFaults   \* bound: transactions that SQLite itself refuses

ASSUME BoundsAssumption ==
  /\ MaxEvents \in [Conns -> Nat]
  /\ ChanCap \in Nat \ {0}
  /\ BatchSize \in Nat \ {0}
  /\ ChunkSize \in Nat \ {0}
  /\ MaxDeletes \in Nat
  /\ MaxFaults \in Nat

VARIABLES
  mainPc,         \* where main() stands in its shutdown sequence
  handler,        \* per connection: where handleProxyConnection stands
  received,       \* per connection: reports turned into events
  writeCh,        \* the buffered channel between handlers and writer
  batch,          \* runWriter's batch slice
  writerPc,       \* where runWriter stands
  rows,           \* the session's rows of table events, in insertion order
  sessionExists,  \* the session's row of table sessions is there
  totalEvents,    \* its column total_events
  sessionEnded,   \* its column ended_at is set
  tx,             \* the open write transaction: the statement it comes to
  txRows,         \* its copy of rows
  txTotal,        \* its copy of totalEvents
  txSession,      \* its copy of sessionExists
  toInsert,       \* events[start:] in BatchInsert's loop over chunks
  deleteReq,      \* a request DELETE /api/sessions/{id} is being handled
  deletes,        \* such requests so far
  faults,         \* transactions refused so far
  dropped,        \* ghost: events the full channel turned away
  failed,         \* ghost: events lost with a failed batch or the process
  deleted         \* ghost: rows removed by the DELETE request

conVars   == <<handler, received, dropped>>
writerVars == <<batch, writerPc, failed>>
dbVars    == <<rows, sessionExists, totalEvents, sessionEnded, faults>>
txVars    == <<tx, txRows, txTotal, txSession, toInsert>>
reqVars   == <<deleteReq, deletes, deleted>>
vars == <<mainPc, writeCh, conVars, writerVars, dbVars, txVars, reqVars>>

Events == UNION {{c} \X (1 .. MaxEvents[c]) : c \in Conns}

(* main's program counter: "running" is the wait on <-ctx.Done(); each      *)
(* later value names the step main takes next.                              *)
MainStates == {"running", "shutdownHTTP", "closeListener", "closeSession",
               "cancelWriter", "waiting", "exited", "crashed"}

HandlerStates == {"idle", "scanning", "enriched", "queued", "closed"}

(* "flush" is a BatchInsert under the writer's context, "drainFlush" the    *)
(* last one, under drainCtx.                                                *)
FlushStates  == {"flush", "drainFlush"}
WriterStates == FlushStates \cup {"select", "drain", "done"}

BatchTx  == {"insert", "updateTotals", "commitBatch"}
DeleteTx == {"deleteEvents", "deleteSession", "commitDelete"}

Alive        == mainPc \notin {"exited", "crashed"}
CtxDone      == mainPc # "running"
Listening    == mainPc \in {"running", "shutdownHTTP", "closeListener"}
ServingHTTP  == mainPc \in {"running", "shutdownHTTP"}
WriteCtxDone == mainPc = "waiting"
FlushCtxDone == writerPc = "flush" /\ WriteCtxDone

TypeOK ==
  /\ mainPc \in MainStates
  /\ handler \in [Conns -> HandlerStates]
  /\ received \in [Conns -> Nat]
  /\ \A c \in Conns : received[c] <= MaxEvents[c]
  /\ writeCh \in Seq(Events)
  /\ Len(writeCh) <= ChanCap
  /\ batch \in Seq(Events)
  /\ writerPc \in WriterStates
  /\ rows \in Seq(Events)
  /\ sessionExists \in BOOLEAN
  /\ totalEvents \in Nat
  /\ sessionEnded \in BOOLEAN
  /\ tx \in BatchTx \cup DeleteTx \cup {"none"}
  /\ txRows \in Seq(Events)
  /\ txTotal \in Nat
  /\ txSession \in BOOLEAN
  /\ toInsert \in Seq(Events)
  /\ deleteReq \in {"none", "pending"}
  /\ deletes \in 0 .. MaxDeletes
  /\ faults \in 0 .. MaxFaults
  /\ dropped \subseteq Events
  /\ failed \subseteq Events
  /\ deleted \subseteq Events

Init ==
  /\ mainPc = "running"
  /\ handler = [c \in Conns |-> "idle"]
  /\ received = [c \in Conns |-> 0]
  /\ writeCh = <<>>
  /\ batch = <<>>
  /\ writerPc = "select"
  /\ rows = <<>>
  /\ sessionExists = TRUE
  /\ totalEvents = 0
  /\ sessionEnded = FALSE
  /\ tx = "none"
  /\ txRows = <<>>
  /\ txTotal = 0
  /\ txSession = FALSE
  /\ toInsert = <<>>
  /\ deleteReq = "none"
  /\ deletes = 0
  /\ faults = 0
  /\ dropped = {}
  /\ failed = {}
  /\ deleted = {}

-----------------------------------------------------------------------------
(* handleProxyConnection, one goroutine per connection.                     *)

Goto(c, pc) == handler' = [handler EXCEPT ![c] = pc]

(* The event in connection c's hands between Enrich and the channel send.   *)
InHand(c) == <<c, received[c]>>

(* The event is in memory: in a handler's hands, the channel or the batch.  *)
Held(e)    == handler[e[1]] = "enriched" /\ e = InHand(e[1])
Pending(e) == Held(e) \/ e \in Range(writeCh) \/ e \in Range(batch)

Accept(c) ==
  /\ Listening
  /\ handler[c] = "idle"
  /\ Goto(c, "scanning")
  /\ UNCHANGED <<mainPc, writeCh, received, dropped, writerVars, dbVars, txVars, reqVars>>

(* Mutant: the select on ctx.Done at the top of the loop is missing.        *)
ReadReportAlways(c) ==
  /\ Alive
  /\ handler[c] = "scanning"
  /\ received[c] < MaxEvents[c]
  /\ received' = [received EXCEPT ![c] = @ + 1]
  /\ Goto(c, "enriched")
  /\ UNCHANGED <<mainPc, writeCh, dropped, writerVars, dbVars, txVars, reqVars>>

(* scanner.Scan returned a line and the daemon is not shutting down.        *)
ReadReport(c) ==
  /\ Alive
  /\ ~CtxDone
  /\ handler[c] = "scanning"
  /\ received[c] < MaxEvents[c]
  /\ received' = [received EXCEPT ![c] = @ + 1]
  /\ Goto(c, "enriched")
  /\ UNCHANGED <<mainPc, writeCh, dropped, writerVars, dbVars, txVars, reqVars>>

(* The proxy hung up, or a line arrived and the select on ctx.Done returns. *)
EndConnection(c) ==
  /\ Alive
  /\ handler[c] = "scanning"
  /\ Goto(c, "closed")
  /\ UNCHANGED <<mainPc, writeCh, received, dropped, writerVars, dbVars, txVars, reqVars>>

EnqueueEvent(c) ==
  /\ Alive
  /\ handler[c] = "enriched"
  /\ Len(writeCh) < ChanCap
  /\ writeCh' = Append(writeCh, InHand(c))
  /\ Goto(c, "queued")
  /\ UNCHANGED <<mainPc, received, dropped, writerVars, dbVars, txVars, reqVars>>

DropEvent(c) ==
  /\ Alive
  /\ handler[c] = "enriched"
  /\ Len(writeCh) = ChanCap
  /\ dropped' = dropped \cup {InHand(c)}
  /\ Goto(c, "queued")
  /\ UNCHANGED <<mainPc, writeCh, received, writerVars, dbVars, txVars, reqVars>>

(* hub.Broadcast happens for a dropped event too, then the loop resumes.    *)
BroadcastEvent(c) ==
  /\ Alive
  /\ handler[c] = "queued"
  /\ Goto(c, "scanning")
  /\ UNCHANGED <<mainPc, writeCh, received, dropped, writerVars, dbVars, txVars, reqVars>>

-----------------------------------------------------------------------------
(* runWriter and Store.BatchInsert.                                         *)

(* case event := <-writeCh: append it and flush at the threshold.           *)
WriterReceive ==
  /\ Alive
  /\ writerPc = "select"
  /\ writeCh # <<>>
  /\ batch' = Append(batch, Head(writeCh))
  /\ writeCh' = Tail(writeCh)
  /\ writerPc' = IF Len(batch') >= BatchSize THEN "flush" ELSE "select"
  /\ UNCHANGED <<mainPc, conVars, failed, dbVars, txVars, reqVars>>

(* Mutant: the ticker too waits for a full batch.                           *)
WriterTickAtThreshold ==
  /\ Alive
  /\ writerPc = "select"
  /\ Len(batch) >= BatchSize
  /\ writerPc' = "flush"
  /\ UNCHANGED <<mainPc, writeCh, conVars, batch, failed, dbVars, txVars, reqVars>>

(* case <-ticker.C: flush returns at once for an empty batch.               *)
WriterTick ==
  /\ Alive
  /\ writerPc = "select"
  /\ batch # <<>>
  /\ writerPc' = "flush"
  /\ UNCHANGED <<mainPc, writeCh, conVars, batch, failed, dbVars, txVars, reqVars>>

(* case <-ctx.Done(): select may take it only among other ready cases.      *)
WriterCancelled ==
  /\ Alive
  /\ writerPc = "select"
  /\ WriteCtxDone
  /\ writerPc' = "drain"
  /\ UNCHANGED <<mainPc, writeCh, conVars, batch, failed, dbVars, txVars, reqVars>>

WriterDrain ==
  /\ Alive
  /\ writerPc = "drain"
  /\ writeCh # <<>>
  /\ batch' = Append(batch, Head(writeCh))
  /\ writeCh' = Tail(writeCh)
  /\ UNCHANGED <<mainPc, conVars, writerPc, failed, dbVars, txVars, reqVars>>

(* Mutant: `break` for `return`, which leaves the select and not the loop.  *)
WriterDrainedBreaks ==
  /\ Alive
  /\ writerPc = "drain"
  /\ writeCh = <<>>
  /\ writerPc' = IF batch = <<>> THEN "drain" ELSE "drainFlush"
  /\ UNCHANGED <<mainPc, writeCh, conVars, batch, failed, dbVars, txVars, reqVars>>

WriterDrained ==
  /\ Alive
  /\ writerPc = "drain"
  /\ writeCh = <<>>
  /\ writerPc' = IF batch = <<>> THEN "done" ELSE "drainFlush"
  /\ UNCHANGED <<mainPc, writeCh, conVars, batch, failed, dbVars, txVars, reqVars>>

(* Mutant: batch = batch[:0] is missing.                                    *)
EndFlushKeepsBatch ==
  /\ batch' = batch
  /\ writerPc' = IF writerPc = "drainFlush" THEN "done" ELSE "select"

(* After the transaction, whatever its outcome: batch = batch[:0].          *)
EndFlush ==
  /\ batch' = <<>>
  /\ writerPc' = IF writerPc = "drainFlush" THEN "done" ELSE "select"

(* BEGIN IMMEDIATE, when nobody else holds the write lock: the transaction  *)
(* starts from what is committed.                                           *)
OpenTx(statement) ==
  /\ tx = "none"
  /\ tx' = statement
  /\ txRows' = rows
  /\ txTotal' = totalEvents
  /\ txSession' = sessionExists

(* The transaction is over and its copy forgotten.                          *)
CloseTx ==
  /\ tx' = "none"
  /\ txRows' = <<>>
  /\ txTotal' = 0
  /\ txSession' = FALSE
  /\ toInsert' = <<>>

CommitTx ==
  /\ rows' = txRows
  /\ totalEvents' = txTotal
  /\ sessionExists' = txSession
  /\ CloseTx

(* Every statement of BatchInsert first looks at the context it was given.  *)
BeginBatch ==
  /\ Alive
  /\ writerPc \in FlushStates
  /\ ~FlushCtxDone
  /\ OpenTx("insert")
  /\ toInsert' = batch
  /\ UNCHANGED <<mainPc, writeCh, conVars, writerVars, dbVars, reqVars>>

(* batchInsertChunk: one INSERT, whose foreign key needs the session's row, *)
(* and the full-text rows; after the last chunk come the totals.            *)
InsertChunk ==
  /\ Alive
  /\ tx = "insert"
  /\ ~FlushCtxDone
  /\ txSession
  /\ LET n == IF Len(toInsert) < ChunkSize THEN Len(toInsert) ELSE ChunkSize
     IN  /\ txRows' = txRows \o SubSeq(toInsert, 1, n)
         /\ toInsert' = SubSeq(toInsert, n + 1, Len(toInsert))
  /\ tx' = IF toInsert' = <<>> THEN "updateTotals" ELSE "insert"
  /\ UNCHANGED <<mainPc, writeCh, conVars, writerVars, dbVars, txTotal, txSession,
                 reqVars>>

(* updateSessionTotals: total_events = total_events + the batch's count.    *)
UpdateTotals ==
  /\ Alive
  /\ tx = "updateTotals"
  /\ ~FlushCtxDone
  /\ txTotal' = txTotal + Len(batch)
  /\ tx' = "commitBatch"
  /\ UNCHANGED <<mainPc, writeCh, conVars, writerVars, dbVars, txRows, txSession,
                 toInsert, reqVars>>

CommitBatch ==
  /\ Alive
  /\ tx = "commitBatch"
  /\ ~FlushCtxDone
  /\ CommitTx
  /\ EndFlush
  /\ UNCHANGED <<mainPc, writeCh, conVars, failed, sessionEnded, faults, reqVars>>

(* BatchInsert returns an error: its transaction, if it got to open one, is *)
(* rolled back, and runWriter forgets the batch.                            *)
LoseBatch ==
  /\ failed' = failed \cup Range(batch)
  /\ IF tx \in BatchTx THEN CloseTx ELSE UNCHANGED txVars
  /\ EndFlush

(* The context is cancelled before or between the statements, or the        *)
(* foreign key on sessions(id) has nothing to refer to.                     *)
FlushError ==
  /\ Alive
  /\ writerPc \in FlushStates
  /\ FlushCtxDone \/ (tx = "insert" /\ ~txSession)
  /\ LoseBatch
  /\ UNCHANGED <<mainPc, writeCh, conVars, dbVars, reqVars>>

(* Mutant: a refused batch goes back to the end of the channel.             *)
FlushFaultRequeues ==
  /\ Alive
  /\ writerPc \in FlushStates
  /\ faults < MaxFaults
  /\ faults' = faults + 1
  /\ LET queue == writeCh \o batch
     IN  writeCh' = SubSeq(queue, 1, IF Len(queue) < ChanCap THEN Len(queue) ELSE ChanCap)
  /\ IF tx \in BatchTx THEN CloseTx ELSE UNCHANGED txVars
  /\ EndFlush
  /\ UNCHANGED <<mainPc, conVars, failed, rows, sessionExists, totalEvents,
                 sessionEnded, reqVars>>

(* Mutant: COMMIT where Rollback should be, on the error path of a chunk.   *)
FlushFaultHalfway ==
  /\ Alive
  /\ tx = "insert"
  /\ faults < MaxFaults
  /\ faults' = faults + 1
  /\ failed' = failed \cup Range(batch)
  /\ CommitTx
  /\ EndFlush
  /\ UNCHANGED <<mainPc, writeCh, conVars, sessionEnded, reqVars>>

(* Mutant: an error of the totals is logged, and the rows committed.        *)
FlushFaultUncounted ==
  /\ Alive
  /\ writerPc \in FlushStates
  /\ faults < MaxFaults
  /\ faults' = faults + 1
  /\ IF tx = "updateTotals"
     THEN tx' = "commitBatch"
          /\ UNCHANGED <<txRows, txTotal, txSession, toInsert, writerVars>>
     ELSE LoseBatch
  /\ UNCHANGED <<mainPc, writeCh, conVars, rows, sessionExists, totalEvents,
                 sessionEnded, reqVars>>

(* SQLite refuses any of the statements, or BEGIN or COMMIT (busy for       *)
(* longer than the timeout, a full disk, an I/O error).                     *)
FlushFault ==
  /\ Alive
  /\ writerPc \in FlushStates
  /\ faults < MaxFaults
  /\ faults' = faults + 1
  /\ LoseBatch
  /\ UNCHANGED <<mainPc, writeCh, conVars, rows, sessionExists, totalEvents,
                 sessionEnded, reqVars>>

-----------------------------------------------------------------------------
(* handleDeleteSession and Store.DeleteSession, for the running session.    *)

RequestDelete ==
  /\ ServingHTTP
  /\ deleteReq = "none"
  /\ deletes < MaxDeletes
  /\ deleteReq' = "pending"
  /\ deletes' = deletes + 1
  /\ UNCHANGED <<mainPc, writeCh, conVars, writerVars, dbVars, txVars, deleted>>

BeginDelete ==
  /\ Alive
  /\ deleteReq = "pending"
  /\ OpenTx("deleteEvents")
  /\ UNCHANGED <<mainPc, writeCh, conVars, writerVars, dbVars, toInsert, reqVars>>

DeleteEvents ==
  /\ Alive
  /\ tx = "deleteEvents"
  /\ txRows' = <<>>
  /\ tx' = "deleteSession"
  /\ UNCHANGED <<mainPc, writeCh, conVars, writerVars, dbVars, txTotal, txSession,
                 toInsert, reqVars>>

(* DELETE FROM sessions found a row.                                        *)
DeleteSessionRow ==
  /\ Alive
  /\ tx = "deleteSession"
  /\ txSession
  /\ txSession' = FALSE
  /\ tx' = "commitDelete"
  /\ UNCHANGED <<mainPc, writeCh, conVars, writerVars, dbVars, txRows, txTotal,
                 toInsert, reqVars>>

CommitDelete ==
  /\ Alive
  /\ tx = "commitDelete"
  /\ deleted' = deleted \cup Range(rows)
  /\ CommitTx
  /\ deleteReq' = "none"
  /\ UNCHANGED <<mainPc, writeCh, conVars, writerVars, sessionEnded, faults, deletes>>

(* No such session, the client hung up, or SQLite refuses: roll back.       *)
DeleteError ==
  /\ Alive
  /\ deleteReq = "pending"
  /\ IF tx \in DeleteTx THEN CloseTx ELSE UNCHANGED txVars
  /\ deleteReq' = "none"
  /\ UNCHANGED <<mainPc, writeCh, conVars, writerVars, dbVars, deletes, deleted>>

-----------------------------------------------------------------------------
(* main, from the signal to the end.                                        *)

(* SIGINT or SIGTERM; agent configs are restored before anything else.      *)
Signal ==
  /\ mainPc = "running"
  /\ mainPc' = "shutdownHTTP"
  /\ UNCHANGED <<writeCh, conVars, writerVars, dbVars, txVars, reqVars>>

(* httpServer.Shutdown returns when the request is answered or after 5s.    *)
ShutdownHTTP ==
  /\ mainPc = "shutdownHTTP"
  /\ mainPc' = "closeListener"
  /\ UNCHANGED <<writeCh, conVars, writerVars, dbVars, txVars, reqVars>>

CloseListener ==
  /\ mainPc = "closeListener"
  /\ mainPc' = "closeSession"
  /\ UNCHANGED <<writeCh, conVars, writerVars, dbVars, txVars, reqVars>>

(* UPDATE sessions SET ended_at, once the write lock is free: no row, or an *)
(* error, changes nothing.                                                  *)
CloseSession ==
  /\ mainPc = "closeSession"
  /\ mainPc' = "cancelWriter"
  /\ \/ /\ tx = "none"
        /\ sessionEnded' = sessionExists
        /\ UNCHANGED faults
     \/ /\ faults < MaxFaults
        /\ faults' = faults + 1
        /\ UNCHANGED sessionEnded
  /\ UNCHANGED <<writeCh, conVars, writerVars, rows, sessionExists, totalEvents,
                 txVars, reqVars>>

CancelWriter ==
  /\ mainPc = "cancelWriter"
  /\ mainPc' = "waiting"
  /\ UNCHANGED <<writeCh, conVars, writerVars, dbVars, txVars, reqVars>>

(* writerWG.Wait returns; the process ends with what memory still holds.    *)
Exit ==
  /\ mainPc = "waiting"
  /\ writerPc = "done"
  /\ mainPc' = "exited"
  /\ UNCHANGED <<writeCh, conVars, writerVars, dbVars, txVars, reqVars>>

(* SIGKILL or a panic: what is committed stays.  Memory is gone, with the   *)
(* events in it, and the open transaction is rolled back.                   *)
Crash ==
  /\ Alive
  /\ mainPc' = "crashed"
  /\ failed' = failed \cup {e \in Events : Pending(e)}
  /\ handler' = [c \in Conns |-> "closed"]
  /\ writeCh' = <<>>
  /\ batch' = <<>>
  /\ writerPc' = "done"
  /\ CloseTx
  /\ deleteReq' = "none"
  /\ UNCHANGED <<received, dropped, dbVars, deletes, deleted>>

-----------------------------------------------------------------------------

HandlerNext(c) ==
  \/ Accept(c) \/ ReadReport(c) \/ EndConnection(c)
  \/ EnqueueEvent(c) \/ DropEvent(c) \/ BroadcastEvent(c)

WriterNext ==
  \/ WriterReceive \/ WriterTick \/ WriterCancelled
  \/ WriterDrain \/ WriterDrained
  \/ BeginBatch \/ InsertChunk \/ UpdateTotals \/ CommitBatch
  \/ FlushError \/ FlushFault

DeleteNext ==
  \/ BeginDelete \/ DeleteEvents \/ DeleteSessionRow \/ CommitDelete
  \/ DeleteError

RequestNext == RequestDelete \/ DeleteNext

ShutdownNext == ShutdownHTTP \/ CloseListener \/ CloseSession \/ CancelWriter \/ Exit

Next ==
  \/ \E c \in Conns : HandlerNext(c)
  \/ WriterNext
  \/ RequestNext
  \/ Signal
  \/ ShutdownNext
  \/ Crash

Spec == Init /\ [][Next]_vars

(* The Go scheduler runs every goroutine that can run: the writer, main     *)
(* once signalled, a handler that holds an event, a request being served.   *)
(* Nothing obliges a proxy to send, a user to delete or a signal to come.   *)
Fairness ==
  /\ WF_vars(WriterNext)
  /\ WF_vars(ShutdownNext)
  /\ WF_vars(DeleteNext)
  /\ \A c \in Conns : WF_vars(EnqueueEvent(c) \/ DropEvent(c) \/ BroadcastEvent(c))

FairSpec == Spec /\ Fairness

-----------------------------------------------------------------------------
(* Properties.                                                              *)

(* What else can have become of an accepted event.                          *)
Stored(e)  == e \in Range(rows)
Lost(e)    == e \in dropped \cup failed
Accepted(e) == e \in Events /\ e[2] <= received[e[1]]

(* Per connection, s holds events in the order they were read, none twice.  *)
InOrder(s) ==
  \A i, j \in DOMAIN s : i < j /\ s[i][1] = s[j][1] => s[i][2] < s[j][2]

(* Per connection, all of s was read before all of t.                       *)
Before(s, t) ==
  \A i \in DOMAIN s, j \in DOMAIN t : s[i][1] = t[j][1] => s[i][2] < t[j][2]

(* What goes through the channel, the batch and the transaction stays in    *)
(* the order its connection sent it and is never duplicated, whatever       *)
(* flushes fail, requests delete and shutdown interrupts in between.        *)
PipelineOrder ==
  /\ InOrder(rows) /\ InOrder(batch) /\ InOrder(writeCh)
  /\ Before(rows, batch) /\ Before(rows, writeCh) /\ Before(batch, writeCh)

(* Every accepted event is accounted for, once: it is on its way, or a row, *)
(* or it was turned away by the full channel, lost with a failed batch or   *)
(* the process, or deleted on request.                                      *)
Accounting ==
  \A e \in Events :
    /\ Accepted(e) <=> Pending(e) \/ Stored(e) \/ Lost(e) \/ e \in deleted
    /\ Stored(e) => ~Pending(e)
    /\ Lost(e) => ~Pending(e) /\ ~Stored(e)
    /\ e \in deleted => ~Pending(e) /\ ~Stored(e) /\ ~Lost(e)
    /\ e \in dropped => e \notin failed

(* BatchInsert inserts its rows chunk by chunk and counts them in a last    *)
(* statement, DeleteSession deletes the rows and then the session: whatever *)
(* statement fails, and wherever the process ends, what is committed has a  *)
(* total that agrees with its rows, and no row without its session.         *)
SessionConsistent ==
  IF sessionExists THEN totalEvents = Len(rows) ELSE rows = <<>>

(* A handler that passed its ctx check before the signal may still enqueue  *)
(* after the writer has drained and gone; the check on each line bounds     *)
(* what such late sends can lose to one event per connection.               *)
LateLossBounded ==
  writerPc = "done" =>
    \A i, j \in DOMAIN writeCh : writeCh[i][1] = writeCh[j][1] => i = j

(* A running daemon settles every event: what was read off a proxy socket   *)
(* is stored, or lost for one of the named reasons, or the process dies.    *)
EventsSettle ==
  \A e \in Events :
    Pending(e) ~> (Stored(e) \/ Lost(e) \/ e \in deleted \/ ~Alive)

(* After the signal main always reaches its end: the writer's select takes  *)
(* ctx.Done() even while late events and ticks compete with it.             *)
ShutdownCompletes == CtxDone ~> ~Alive

(* What keeps the order and the accounting inductive: the event in a        *)
(* handler's hands is its connection's latest and has not been queued, and  *)
(* a transaction is only begun for a batch that holds something.            *)
HandIsFresh ==
  \A c \in Conns : handler[c] = "enriched" =>
    /\ received[c] > 0
    /\ InHand(c) \notin Range(writeCh) \cup Range(batch)

FlushHasBatch == writerPc \in FlushStates => batch # <<>>

(* The open transaction's copy differs from what is committed by what its   *)
(* statements have done so far.                                             *)
TxView ==
  /\ tx \in BatchTx =>
       /\ writerPc \in FlushStates
       /\ txRows \o toInsert = rows \o batch
       /\ txSession = sessionExists
       /\ txTotal = totalEvents + IF tx = "commitBatch" THEN Len(batch) ELSE 0
  /\ tx \in {"updateTotals", "commitBatch"} => toInsert = <<>> /\ txSession
  /\ tx \in {"deleteSession", "commitDelete"} => txRows = <<>>
  /\ tx = "commitDelete" => ~txSession

IndInv ==
  /\ TypeOK
  /\ PipelineOrder
  /\ Accounting
  /\ SessionConsistent
  /\ HandIsFresh
  /\ FlushHasBatch
  /\ TxView

(* The daemon implements EventLog: channel, batch, failing transactions and *)
(* shutdown together are one log that stores each accepted event at most    *)
(* once and never resurrects a lost one.                                    *)
Log == INSTANCE EventLog WITH
  Event    <- Events,
  accepted <- {e \in Events : Accepted(e)},
  stored   <- rows,
  gone     <- dropped \cup failed \cup deleted

ImplementsLog == Log!Spec

(* ARCHITECTURE.md's writer flushes its batch when its context ends: after  *)
(* an orderly stop with a healthy database no event that reached the        *)
(* writer was lost.                                                         *)
StopKeepsBatch ==
  writerPc = "done" /\ mainPc # "crashed" /\ sessionExists /\ faults = 0
    => failed = {}
=============================================================================
