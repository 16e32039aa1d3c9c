------------------------------- MODULE MCLevelEnd -------------------------------
(***************************************************************************)
(* LevelEnd for TLC.  A step of time is about five seconds at the start and  *)
(* the end of a level and more in between.  Clients are not interchangeable: *)
(* frames run them in order.                                                 *)
(***************************************************************************)
EXTENDS LevelEnd
================================================================================
