---------------------------- MODULE RecentEvents ----------------------------
(***************************************************************************)
(* What the event store promises, without ring, index, statistics or loops: *)
(* the most recent events in order of their first arrival, each with its    *)
(* latest contents, and a selection that follows them.                      *)
(***************************************************************************)
EXTENDS Integers, Sequences, Functions, Subsequences

CONSTANTS Ids, NoId, Kinds, Capacity, MaxBatch

VARIABLES
  recent,   \* ids, oldest first
  content,  \* the event of each
  chosen,   \* the selected id, or NoId
  call      \* the call under way and the events it was given

vars == <<recent, content, chosen, call>>

NoCall == <<"none", <<>>>>

Batches == UNION {[1 .. n -> Ids \X Kinds] : n \in 0 .. MaxBatch}

(* The ids a batch brings that are not known yet, in order of appearance.   *)
NewIds(batch, known) ==
  Pick([i \in DOMAIN batch |-> batch[i][1]],
       {i \in DOMAIN batch : /\ batch[i][1] \notin known
                             /\ \A j \in 1 .. i - 1 : batch[j][1] # batch[i][1]})

(* What the batch says last of an id, if anything.                          *)
Latest(batch, id, otherwise) ==
  LET At == {i \in DOMAIN batch : batch[i][1] = id}
  IN  IF At = {} THEN otherwise ELSE batch[CHOOSE i \in At : \A j \in At : j <= i][2]

Take(batch, before, contentBefore) ==
  /\ recent' = LastOf(before \o NewIds(batch, Range(before)), Capacity)
  /\ content' = [id \in Range(recent') |->
       Latest(batch, id, IF id \in Range(before) THEN contentBefore[id] ELSE NoId)]

Init ==
  /\ recent = <<>>
  /\ content = [i \in {} |-> NoId]
  /\ chosen = NoId
  /\ call = NoCall

Call ==
  /\ call = NoCall
  /\ call' \in {"ingest", "replace"} \X Batches
  /\ UNCHANGED <<recent, content, chosen>>

Ingest ==
  /\ call[1] = "ingest"
  /\ Take(call[2], recent, content)
  /\ chosen' = IF chosen \in Range(recent') THEN chosen ELSE NoId
  /\ call' = NoCall

Replace ==
  /\ call[1] = "replace"
  /\ Take(call[2], <<>>, <<>>)
  /\ chosen' = NoId
  /\ call' = NoCall

Clear ==
  /\ call = NoCall
  /\ Take(<<>>, <<>>, <<>>)
  /\ chosen' = NoId
  /\ UNCHANGED call

Select(id) ==
  /\ call = NoCall
  /\ chosen' = IF id \in Range(recent) THEN id ELSE NoId
  /\ UNCHANGED <<recent, content, call>>

Next ==
  \/ Call \/ Ingest \/ Replace \/ Clear
  \/ \E id \in Ids \cup {NoId} : Select(id)

Spec == Init /\ [][Next]_vars
=============================================================================
