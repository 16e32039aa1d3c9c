------------------------------ MODULE MCSnapshots ------------------------------
(***************************************************************************)
(* Snapshots for TLC: rings of six messages, of which two may be the base    *)
(* of a difference; two entities that come, change, stay and go.             *)
(***************************************************************************)
EXTENDS Snapshots

TwoEntities == {1, 2}
TenWorlds   == <<<<1, 2>>, <<3, 2>>, <<4, 0>>, <<4, 5>>, <<6, 7>>, <<0, 7>>, <<8, 9>>, <<10, 0>>,
                 <<10, 11>>, <<12, 11>>>>
Others      == <<0, 0, 0, 0, 3, 0, 0, 1, 0, 2>>
================================================================================
