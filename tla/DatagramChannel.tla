---------------------------- MODULE DatagramChannel ----------------------------
(***************************************************************************)
(* What a netchan promises to its user: messages arrive whole, in the      *)
(* order they were handed over and at most once; any of them may be lost.  *)
(* Under the numbers in Foreign something else may come out, in their       *)
(* place in the order.                                                      *)
(***************************************************************************)
EXTENDS Naturals, Sequences

CONSTANTS Message, Foreign

VARIABLES
    accepted,   \* the messages handed over for transmission, in order
    last,       \* the number of the last message that came out, 0 before any
    delivered   \* the messages that came out, in order

vars == <<accepted, last, delivered>>

Init ==
    /\ accepted = <<>>
    /\ last = 0
    /\ delivered = <<>>

Accept ==
    /\ \E m \in Message : accepted' = Append(accepted, m)
    /\ UNCHANGED <<last, delivered>>

Deliver ==
    /\ \E n \in 1 .. Len(accepted) :
          /\ n > last
          /\ last' = n
          /\ delivered' = Append(delivered, accepted[n])
    /\ UNCHANGED accepted

DeliverForeign ==
    /\ \E n \in Foreign : n > last /\ last' = n
    /\ Len(delivered') = Len(delivered) + 1
    /\ SubSeq(delivered', 1, Len(delivered)) = delivered
    /\ UNCHANGED accepted

Next == Accept \/ Deliver \/ DeliverForeign

Spec == Init /\ [][Next]_vars
================================================================================
