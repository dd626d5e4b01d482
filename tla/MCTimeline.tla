----------------------------- MODULE MCTimeline -----------------------------
(* Instances of Timeline for TLC; bounds are in the cfg file.                *)
EXTENDS Timeline

CONSTANTS a, b, server

MCKinds == {[of |-> [d \in {server} |-> a], paused |-> FALSE],
            [of |-> [d \in {server} |-> b], paused |-> TRUE]}
=============================================================================
