------------------------------- MODULE MCVote -------------------------------
(***************************************************************************)
(* A vote without delay that half of the clients can pass, and one with a  *)
(* delay that needs two thirds.                                            *)
(***************************************************************************)
EXTENDS Vote

MCVoteKind == {[string |-> "kick", delay |-> 0, threshold |-> 50],
               [string |-> "map", delay |-> 1, threshold |-> 66]}
=============================================================================
