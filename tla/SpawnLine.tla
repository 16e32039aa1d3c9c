----------------------------- MODULE SpawnLine -----------------------------
(***************************************************************************)
(* What a spawn queue of game/g_main.cpp is for: every team has a line of  *)
(* clients, none of them twice.  A client joins at the end, may step out   *)
(* from anywhere, and the first in line is the one to be served.           *)
(***************************************************************************)
EXTENDS Sequences, SequencesExt

CONSTANTS Team, Client

VARIABLE line

Init == line = [t \in Team |-> <<>>]

Join(t, c) ==
  /\ c \notin ToSet(line[t])
  /\ line' = [line EXCEPT ![t] = Append(@, c)]

StepOut(t, c) ==
  \E k \in DOMAIN line[t] :
    /\ line[t][k] = c
    /\ line' = [line EXCEPT ![t] = RemoveAt(@, k)]

Next == \E t \in Team, c \in Client : Join(t, c) \/ StepOut(t, c)

Spec == Init /\ [][Next]_line
=============================================================================
