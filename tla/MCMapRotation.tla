------------------------------ MODULE MCMapRotation -----------------------------
(***************************************************************************)
(* MapRotation for TLC: two rotations, of three and of two nodes of which the *)
(* last one is a map.                                                        *)
(***************************************************************************)
EXTENDS MapRotation

TwoNames    == {"a", "b"}
TwoMaps     == {"atcs", "gone"}
OneMap      == {"atcs"}
OneLabel    == {"#top"}

N(type, name, conditional) == [type |-> type, name |-> name, conditional |-> conditional]

Kinds ==
    {N("NT_MAP", m, FALSE) : m \in TwoMaps}
    \cup {N("NT_LABEL", "#top", FALSE)}
    \cup {N("NT_RETURN", "", c) : c \in BOOLEAN}
    \cup {N("NT_GOTO", n, FALSE) : n \in {"b", "#top", "atcs"}}
    \cup {N("NT_GOTO", n, TRUE) : n \in {"a", "b"}}
    \cup {N("NT_RESUME", n, FALSE) : n \in {"a", "b"}}

AMap == N("NT_MAP", "atcs", FALSE)

Short(i, j, k) == [n \in TwoNames |-> IF n = "a" THEN <<i, j, AMap>> ELSE <<k, AMap>>]

\* A rotation whose map is too far away.
ALabel == N("NT_LABEL", "#top", FALSE)
TooLong == [n \in TwoNames |->
              IF n = "a" THEN <<N("NT_GOTO", "b", TRUE), ALabel, ALabel, ALabel, ALabel, ALabel, AMap>>
              ELSE <<N("NT_RESUME", "a", TRUE), AMap>>]

KindsOfB == {kind \in Kinds : kind.type \in {"NT_GOTO", "NT_RESUME"} => kind.name = "a"}

TwoRotations == {Short(i, j, k) : i \in Kinds, j \in Kinds, k \in KindsOfB} \cup {TooLong}
================================================================================
