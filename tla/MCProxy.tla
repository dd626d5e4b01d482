------------------------------ MODULE MCProxy -------------------------------
(* Instances of Proxy for TLC; bounds are in the cfg file.                  *)
EXTENDS Proxy, TLC
=============================================================================
