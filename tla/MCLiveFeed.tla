----------------------------- MODULE MCLiveFeed -----------------------------
(* Instances of LiveFeed for TLC; bounds are in the cfg files.                    *)
EXTENDS LiveFeed
=============================================================================
