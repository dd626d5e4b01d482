-------------------------------- MODULE Wire --------------------------------
(***************************************************************************)
(* What an agent and an MCP server rely on: two wires, one per direction,   *)
(* each handing over what was put on it, line by line, in order, nothing    *)
(* skipped, repeated or altered.  That a proxy stands between, copies and   *)
(* reports does not show.                                                   *)
(***************************************************************************)
EXTENDS Naturals, Sequences

CONSTANTS Directions, Lines

VARIABLES
  sent,  \* per direction: the lines put on the wire
  got    \* per direction: the lines taken off it

vars == <<sent, got>>

Init ==
  /\ sent = [d \in Directions |-> <<>>]
  /\ got = [d \in Directions |-> <<>>]

Put(d) ==
  /\ \E l \in Lines : sent' = [sent EXCEPT ![d] = Append(@, l)]
  /\ UNCHANGED got

Take(d) ==
  /\ Len(got[d]) < Len(sent[d])
  /\ got' = [got EXCEPT ![d] = Append(@, sent[d][Len(@) + 1])]
  /\ UNCHANGED sent

Next == \E d \in Directions : Put(d) \/ Take(d)

Spec == Init /\ [][Next]_vars
=============================================================================
