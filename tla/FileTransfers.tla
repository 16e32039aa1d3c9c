----------------------------- MODULE FileTransfers -----------------------------
(***************************************************************************)
(* What a client may expect of the files that it downloads: it gets them    *)
(* one after the other, each from its first block to its last, and keeps a  *)
(* file only when it is complete; or it fails, and gets nothing any more.   *)
(***************************************************************************)
EXTENDS Naturals, Sequences

CONSTANT Sources        \* the files, each a sequence of blocks

VARIABLES kept, file, failed

vars == <<kept, file, failed>>

Init ==
    /\ kept = 0
    /\ file = <<>>
    /\ failed = FALSE

Receive ==
    /\ ~failed
    /\ kept < Len(Sources)
    /\ Len(file) < Len(Sources[kept + 1])
    /\ file' = Append(file, Sources[kept + 1][Len(file) + 1])
    /\ UNCHANGED <<kept, failed>>

Keep ==
    /\ ~failed
    /\ kept < Len(Sources)
    /\ file = Sources[kept + 1]
    /\ kept' = kept + 1
    /\ file' = <<>>
    /\ UNCHANGED failed

Fail ==
    /\ failed' = TRUE
    /\ file' = <<>>
    /\ UNCHANGED kept

Next == Receive \/ Keep \/ Fail

Spec == Init /\ [][Next]_vars
================================================================================
