----------------------------- MODULE MCDaemon ------------------------------
(* Instances of Daemon for TLC; the other bounds are in the cfg files.      *)
EXTENDS Daemon, TLC

(* One connection reports twice, the others once: enough for order within a *)
(* connection and for races between them.                                   *)
BusyConn == CHOOSE c \in Conns : TRUE
OneBusyConn == [c \in Conns |-> IF c = BusyConn THEN 2 ELSE 1]
=============================================================================
