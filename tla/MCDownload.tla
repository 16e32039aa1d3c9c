------------------------------- MODULE MCDownload -------------------------------
(***************************************************************************)
(* Download for TLC: a window of two blocks; a first file that fits into it,  *)
(* so that all of it may be sent once more after the client has it, a        *)
(* second around which the window turns, and a third that may be refused.    *)
(***************************************************************************)
EXTENDS Download

ThreeFiles == <<1, 3, 1>>
OneFile    == <<2>>
================================================================================
