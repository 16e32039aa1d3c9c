---------------------------- MODULE MCSpawnQueue ----------------------------
(***************************************************************************)
(* Three clients, one of them with cg_stickySpec, on a ring of four cells. *)
(***************************************************************************)
EXTENDS SpawnQueue

MCSticky == {0}
=============================================================================
