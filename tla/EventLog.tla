------------------------------ MODULE EventLog ------------------------------
(***************************************************************************)
(* What the daemon promises about the events it accepts, without channel,   *)
(* batch, transactions or shutdown: an accepted event becomes a row at most *)
(* once, rows are appended in whole batches of events that were still       *)
(* pending, and an event that is gone never comes back.                     *)
(***************************************************************************)
EXTENDS Naturals, Sequences, Functions

CONSTANT Event

VARIABLES
  accepted,  \* the events taken from the proxies
  stored,    \* the rows, in insertion order
  gone       \* events that were lost or deleted

vars == <<accepted, stored, gone>>

Pending == accepted \ (Range(stored) \cup gone)

Init ==
  /\ accepted = {}
  /\ stored = <<>>
  /\ gone = {}

Accept ==
  /\ \E e \in Event \ accepted : accepted' = accepted \cup {e}
  /\ UNCHANGED <<stored, gone>>

(* One transaction appends some pending events, each once.                  *)
Store ==
  LET new == SubSeq(stored', Len(stored) + 1, Len(stored'))
  IN  /\ stored' = stored \o new
      /\ new # <<>>
      /\ IsInjective(new)
      /\ Range(new) \subseteq Pending
      /\ UNCHANGED <<accepted, gone>>

Lose ==
  /\ \E S \in SUBSET Pending : gone' = gone \cup S
  /\ UNCHANGED <<accepted, stored>>

(* Deleting the session takes every row with it.                            *)
Wipe ==
  /\ stored' = <<>>
  /\ gone' = gone \cup Range(stored)
  /\ UNCHANGED accepted

Next == Accept \/ Store \/ Lose \/ Wipe

Spec == Init /\ [][Next]_vars
=============================================================================
