----------------------------- MODULE MCServerClient -----------------------------
(***************************************************************************)
(* ServerClient for TLC: the bounds of each run are in its configuration.   *)
(***************************************************************************)
EXTENDS ServerClient
================================================================================
