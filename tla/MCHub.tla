------------------------------- MODULE MCHub -------------------------------
(* Instances of Hub for TLC; bounds are in the cfg file.                    *)
EXTENDS Hub
=============================================================================
