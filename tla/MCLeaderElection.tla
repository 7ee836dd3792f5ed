-------------------------- MODULE MCLeaderElection --------------------------
(* Two processes, one of which may be paused, and as many blocks as nodes:  *)
(* none can be spared.  The patch that may stray is of one node and one     *)
(* block; nodes and blocks are alike.                                       *)
EXTENDS LeaderElection

CONSTANTS n1, b1

MCStray == {[node |-> n1, block |-> b1]}
=============================================================================
