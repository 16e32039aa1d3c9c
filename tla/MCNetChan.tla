------------------------------ MODULE MCNetChan --------------------------------
(***************************************************************************)
(* NetChan for TLC: fragments of two bytes; messages below one fragment,    *)
(* of an exact multiple and with a remainder; a few packets of an earlier   *)
(* connection left in the network, of which those with number 1 pass for    *)
(* packets of this one.                                                     *)
(***************************************************************************)
EXTENDS NetChan, Bitwise

MCLengths == {1, 2, 4, 5}

Old(sequence, fragment, start, length) ==
    [sequence |-> sequence, fragment |-> fragment, start |-> start, length |-> length,
     checksum |-> NETCHAN_GENCHECKSUM(6, sequence), msg |-> 9, key |-> 0]

MCStale == {Old(1, TRUE, 0, 2), Old(1, TRUE, 2, 1), Old(2, TRUE, 2, 2), Old(3, FALSE, 0, 1)}

NoStale == {}

Ints == 0 .. 2^INT_BITS - 1

\* The checksum is the exclusive or of the two ints.
ASSUME ChecksumIsXor ==
    \A c, sequence \in Ints :
        NETCHAN_GENCHECKSUM(c, sequence) =
            {i \in 0 .. INT_BITS - 1 : Bit(c ^^ ((sequence * c) % 2^INT_BITS), i)}

\* With an even sequence number it tells all challenges apart, with an odd one it never does.
ASSUME EvenNumbersDistinguish ==
    \A sequence \in Ints :
        sequence % 2 = 0 <=>
            \A c, d \in Ints :
                NETCHAN_GENCHECKSUM(c, sequence) = NETCHAN_GENCHECKSUM(d, sequence) => c = d

\* Of MCStale the checksum lets number 1 pass, and 2 and 3 not.
ASSUME NumberOneIsExposed == Stale = MCStale /\ alternateProtocol = 0 => Exposed = {1}
================================================================================
