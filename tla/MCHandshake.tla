------------------------------ MODULE MCHandshake ------------------------------
(***************************************************************************)
(* Handshake for TLC: a client that connects up to twice to a server whose   *)
(* slots are taken at first, and others who leave or ask for challenges.     *)
(* A tick is about a second; a datagram takes less than two.                 *)
(***************************************************************************)
EXTENDS Handshake

CONSTANTS p1, p2, p3

MCPresent  == <<p2, p3>>
MCAttempts == [p \in Parties |-> CASE p = p1 -> 2 [] p = p2 -> 1 [] p = p3 -> 0]
================================================================================
