--------------------------- MODULE MCServerCommands ----------------------------
(***************************************************************************)
(* ServerCommands for TLC: a ring of two commands, and enough commands for  *)
(* it to wrap twice before a drop.                                          *)
(***************************************************************************)
EXTENDS ServerCommands
================================================================================
