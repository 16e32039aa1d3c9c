----------------------------- MODULE NetChanProofs -----------------------------
(***************************************************************************)
(* Proofs about NetChan for every fragment size, buffer size, set of        *)
(* lengths, number of messages and set of stale packets.                    *)
(***************************************************************************)
EXTENDS NetChan, TLAPS

\* The number of the first message that has not been handed to Netchan_Transmit.
FirstQueued == IF unsentFragments THEN outgoingSequence + 1 ELSE outgoingSequence

\* The n-th message handed over, as the sender holds it, will get number n.
Numbered(m, n) ==
    /\ m.msg = n
    /\ n <= Len(sent)
    /\ m.length = sent[n]

SenderInv ==
    /\ unsentFragments =>
          /\ Numbered(unsentBuffer, outgoingSequence)
          /\ unsentFragmentStart <= unsentBuffer.length
    /\ FirstQueued + Len(queue) = Len(sent) + 1
    /\ \A i \in 1 .. Len(queue) : Numbered(queue[i], FirstQueued + i - 1)

\* A piece of a message of that length: the whole message, or a fragment that is the
\* last exactly when it is a short one.
PieceOf(p, length) ==
    /\ p.start + p.length <= length
    /\ ~p.fragment => p.start = 0
    /\ ~p.fragment \/ p.length # FRAGMENT_SIZE => p.start + p.length = length

\* A packet of this connection carries a piece of the message it is numbered for.
Own(p) ==
    /\ p.sequence \in 1 .. Len(sent)
    /\ p.msg = p.sequence
    /\ PieceOf(p, sent[p.sequence])

NetInv == \A p \in net : p \in Stale \/ Own(p)

\* The bytes held are the first ones of the message being put together, unless a
\* packet of an earlier connection may have been among its fragments.
BufferInv ==
    fragmentSequence \notin Exposed =>
        \A j \in 0 .. fragmentLength - 1 :
            fragmentBuffer[j] = [msg |-> fragmentSequence, at |-> j]

IInv == TypeOK /\ SenderInv /\ NetInv /\ BufferInv /\ DeliveredIntact

--------------------------------------------------------------------------------
(* The initial state, and the parts of a step. *)

USE SizeAssumption, StaleAssumption DEF SizeAssumption, StaleAssumption

LEMMA ChecksumType ==
  \A c, sequence : NETCHAN_GENCHECKSUM(c, sequence) \in SUBSET (0 .. INT_BITS - 1)
BY DEF NETCHAN_GENCHECKSUM

\* Every packet with number 1 passes in every connection (net.h:90): the code relies on
\* such packets having been lost.
THEOREM FirstNumberIsExposed ==
  ASSUME NEW p \in Stale, NEW c \in Nat,
         p.sequence = 1, p.checksum = NETCHAN_GENCHECKSUM(c, p.sequence)
  PROVE  1 \in Exposed
<1>1. \A d \in Nat : NETCHAN_GENCHECKSUM(d, 1) = {}
  <2> SUFFICES ASSUME NEW d \in Nat PROVE NETCHAN_GENCHECKSUM(d, 1) = {}
    OBVIOUS
  <2>1. 1 * d = d
    OBVIOUS
  <2> QED
    BY <2>1, Zenon DEF NETCHAN_GENCHECKSUM
<1>2. ChecksumFits(p)
  BY <1>1 DEF ChecksumFits
<1> QED
  BY <1>2 DEF Exposed

\* A packet that passes under a number that is not exposed is not a stale one.
LEMMA OwnPacket ==
  ASSUME IInv, NEW p \in net, Fresh(p)
  PROVE  /\ p \in Packet
         /\ p.sequence \notin Exposed => Own(p) /\ sent[p.sequence] \in 0 .. MAX_MSGLEN
<1>1. p \in Packet
  BY DEF IInv, TypeOK
<1>2. ASSUME p.sequence \notin Exposed PROVE Own(p) /\ sent[p.sequence] \in 0 .. MAX_MSGLEN
  <2>1. p \notin Stale
    BY <1>2 DEF Fresh, Exposed
  <2>2. Own(p)
    BY <2>1 DEF IInv, NetInv
  <2>3. sent \in Seq(Lengths)
    BY DEF IInv, TypeOK
  <2>4. sent[p.sequence] \in Lengths
    BY <2>2, <2>3 DEF Own
  <2> QED
    BY <2>2, <2>4
<1> QED
  BY <1>1, <1>2

LEMMA InitInv == Init => IInv
<1> SUFFICES ASSUME Init PROVE IInv
  OBVIOUS
<1>1. TypeOK
  <2>1. fragmentBuffer \in [0 .. MAX_MSGLEN - 1 -> Byte]
    BY DEF Init, Byte, ZeroByte
  <2>2. queue \in Seq(Outgoing) /\ sent \in Seq(Lengths)
    BY DEF Init
  <2>3. received \in Seq(Reassembled)
    BY DEF Init
  <2>4. unsentBuffer \in Outgoing
    BY DEF Init, Outgoing
  <2>5. unsentFragments \in BOOLEAN
    BY DEF Init
  <2>6. /\ outgoingSequence \in Nat \ {0}
        /\ unsentFragmentStart \in 0 .. MAX_MSGLEN
        /\ fragmentLength \in 0 .. MAX_MSGLEN
        /\ incomingSequence \in Nat
        /\ fragmentSequence \in Nat
        /\ net \subseteq Packet
    BY DEF Init
  <2> QED
    BY <2>1, <2>2, <2>3, <2>4, <2>5, <2>6 DEF TypeOK
<1>2. SenderInv
  BY DEF Init, SenderInv, FirstQueued
<1>3. NetInv /\ BufferInv /\ DeliveredIntact
  BY DEF Init, NetInv, BufferInv, DeliveredIntact
<1> QED
  BY <1>1, <1>2, <1>3 DEF IInv

\* The messages already handed over keep their number and length.
SentGrows ==
    /\ sent' \in Seq(Lengths)
    /\ Len(sent) <= Len(sent')
    /\ \A n \in 1 .. Len(sent) : sent'[n] = sent[n]

LEMMA StillOwn ==
  ASSUME IInv, SentGrows, NEW p, Own(p)
  PROVE  Own(p)'
<1>1. sent \in Seq(Lengths)
  BY DEF IInv, TypeOK
<1> QED
  BY <1>1 DEF Own, SentGrows, PieceOf

\* What is true of the sender's variables once a packet has gone out.
Transmitted ==
    /\ outgoingSequence' \in Nat \ {0}
    /\ unsentFragments' \in BOOLEAN
    /\ unsentFragmentStart' \in 0 .. MAX_MSGLEN
    /\ unsentBuffer' \in Outgoing
    /\ net' \subseteq Packet
    /\ NetInv'
    /\ FirstQueued' = outgoingSequence + 1
    /\ unsentFragments' =>
          /\ Numbered(unsentBuffer, outgoingSequence)'
          /\ unsentFragmentStart' <= unsentBuffer'.length

\* Sending the fragment of message m that starts at offset start.
LEMMA FragmentSent ==
  ASSUME IInv, SentGrows, NEW m \in Outgoing, NEW start \in 0 .. MAX_MSGLEN,
         m.msg = outgoingSequence, outgoingSequence <= Len(sent'),
         m.length = sent'[outgoingSequence], start <= m.length,
         Netchan_TransmitNextFragment(m, start)
  PROVE  Transmitted
<1> DEFINE length == Smaller(FRAGMENT_SIZE, m.length - start)
           p == Piece(m, TRUE, start, length)
<1>1. outgoingSequence \in Nat \ {0} /\ net \subseteq Packet
  BY DEF IInv, TypeOK
<1>2. /\ m.length \in 0 .. MAX_MSGLEN
      /\ length \in 0 .. MAX_MSGLEN
      /\ start + length <= m.length
      /\ length # FRAGMENT_SIZE => start + length = m.length
  BY DEF Smaller, Outgoing
<1>3. p \in Packet
  BY <1>1, <1>2, ChecksumType DEF Packet, Outgoing, Piece
<1>4. net' = net \cup {p}
  BY DEF Netchan_TransmitNextFragment
<1>5. /\ unsentBuffer' = m
      /\ unsentFragmentStart' = start + length
      /\ \/ /\ LastFragment(m, start, length)
            /\ outgoingSequence' = outgoingSequence + 1
            /\ unsentFragments' = FALSE
         \/ /\ ~LastFragment(m, start, length)
            /\ unsentFragments' = TRUE
            /\ outgoingSequence' = outgoingSequence
  BY DEF Netchan_TransmitNextFragment
<1>6. NetInv'
  <2> SUFFICES ASSUME NEW q \in net'
               PROVE  q \in Stale \/ Own(q)'
    BY DEF NetInv
  <2>1. CASE q \in net
    BY <2>1, StillOwn DEF IInv, NetInv
  <2>2. CASE q = p
    <3>1. p.sequence \in 1 .. Len(sent') /\ p.msg = p.sequence /\ p.sequence = outgoingSequence
      BY <1>1 DEF SentGrows, Piece
    <3>2. PieceOf(p, m.length)
      BY <1>2 DEF PieceOf, Piece
    <3> QED
      BY <2>2, <3>1, <3>2 DEF Own, PieceOf
  <2> QED
    BY <2>1, <2>2, <1>4
<1>7. /\ unsentFragments' \in BOOLEAN
      /\ outgoingSequence' \in Nat \ {0}
      /\ FirstQueued' = outgoingSequence + 1
  <2>1. CASE unsentFragments' = FALSE /\ outgoingSequence' = outgoingSequence + 1
    <3>1. FirstQueued' = outgoingSequence' /\ unsentFragments' \in BOOLEAN
      BY <2>1 DEF FirstQueued
    <3> QED
      BY <2>1, <3>1, <1>1
  <2>2. CASE unsentFragments' = TRUE /\ outgoingSequence' = outgoingSequence
    BY <1>1, <2>2 DEF FirstQueued
  <2> QED
    BY <2>1, <2>2, <1>5
<1>8. ASSUME unsentFragments'
      PROVE  /\ Numbered(unsentBuffer, outgoingSequence)'
             /\ unsentFragmentStart' <= unsentBuffer'.length
  BY <1>2, <1>5, <1>8 DEF Numbered
<1>9. unsentFragmentStart' \in 0 .. MAX_MSGLEN
  BY <1>2, <1>5
<1> QED
  BY <1>1, <1>3, <1>4, <1>5, <1>6, <1>7, <1>8, <1>9 DEF Transmitted

\* Netchan_Transmit, which is only called when no fragment is pending.
LEMMA MessageSent ==
  ASSUME IInv, SentGrows, NEW m \in Outgoing, ~unsentFragments,
         m.msg = outgoingSequence, outgoingSequence <= Len(sent'),
         m.length = sent'[outgoingSequence],
         Netchan_Transmit(m)
  PROVE  Transmitted
<1>1. CASE m.length >= FRAGMENT_SIZE /\ Netchan_TransmitNextFragment(m, 0)
  BY <1>1, FragmentSent DEF Outgoing
<1>2. CASE /\ m.length < FRAGMENT_SIZE
           /\ net' = net \cup {Piece(m, FALSE, 0, m.length)}
           /\ outgoingSequence' = outgoingSequence + 1
           /\ unsentFragmentStart' = 0
           /\ UNCHANGED <<unsentFragments, unsentBuffer>>
  <2> DEFINE p == Piece(m, FALSE, 0, m.length)
  <2>1. /\ outgoingSequence \in Nat \ {0}
        /\ net \subseteq Packet
        /\ unsentBuffer \in Outgoing
        /\ unsentFragments = FALSE
    BY DEF IInv, TypeOK
  <2>2. p \in Packet
    BY <2>1, ChecksumType DEF Packet, Outgoing, Piece
  <2>3. net' = net \cup {p}
    BY <1>2
  <2>4. NetInv'
    <3> SUFFICES ASSUME NEW q \in net'
                 PROVE  q \in Stale \/ Own(q)'
      BY DEF NetInv
    <3>1. CASE q \in net
      BY <3>1, StillOwn DEF IInv, NetInv
    <3>2. CASE q = p
      <4>1. p.sequence \in 1 .. Len(sent') /\ p.msg = p.sequence /\ p.sequence = outgoingSequence
        BY <2>1 DEF SentGrows, Piece
      <4>2. PieceOf(p, m.length)
        BY DEF PieceOf, Outgoing, Piece
      <4> QED
        BY <3>2, <4>1, <4>2 DEF Own, PieceOf
    <3> QED
      BY <3>1, <3>2, <2>3
  <2>5. unsentFragments' = FALSE
    BY <1>2, <2>1
  <2>6. FirstQueued' = outgoingSequence' /\ unsentFragments' \in BOOLEAN
    BY <2>5 DEF FirstQueued
  <2>7. outgoingSequence' = outgoingSequence + 1 /\ outgoingSequence' \in Nat \ {0}
    BY <1>2, <2>1
  <2>8. unsentFragmentStart' \in 0 .. MAX_MSGLEN /\ unsentBuffer' \in Outgoing
    BY <1>2, <2>1
  <2>9. net' \subseteq Packet
    BY <2>1, <2>2, <2>3
  <2> QED
    BY <2>4, <2>5, <2>6, <2>7, <2>8, <2>9 DEF Transmitted
<1> QED
  BY <1>1, <1>2 DEF Netchan_Transmit

--------------------------------------------------------------------------------
(* The steps of the sender. *)

\* What the receiver holds does not change when more is handed to the sender.
LEMMA ReceiverKept ==
  ASSUME IInv, SentGrows, UNCHANGED receiver
  PROVE  /\ BufferInv' /\ DeliveredIntact'
         /\ incomingSequence' \in Nat /\ fragmentSequence' \in Nat
         /\ fragmentLength' \in 0 .. MAX_MSGLEN
         /\ fragmentBuffer' \in [0 .. MAX_MSGLEN - 1 -> Byte]
         /\ received' \in Seq(Reassembled)
<1>1. DeliveredIntact'
  <2> SUFFICES ASSUME NEW i \in 1 .. Len(received), received[i].sequence \notin Exposed
               PROVE  /\ received[i].sequence \in 1 .. Len(sent')
                      /\ received[i].body = Contents(received[i].sequence, sent'[received[i].sequence])
    BY DEF DeliveredIntact, receiver, Body, Contents, ZeroByte
  <2>1. /\ received[i].sequence \in 1 .. Len(sent)
        /\ received[i].body = Contents(received[i].sequence, sent[received[i].sequence])
    BY DEF IInv, DeliveredIntact, Body
  <2>2. sent \in Seq(Lengths)
    BY DEF IInv, TypeOK
  <2> QED
    BY <2>1, <2>2 DEF SentGrows
<1>2. BufferInv'
  BY DEF IInv, BufferInv, receiver
<1> QED
  BY <1>1, <1>2 DEF IInv, TypeOK, receiver

LEMMA TransmitInv ==
  ASSUME IInv, NEW length \in Lengths, SV_Netchan_Transmit(length)
  PROVE  IInv'
<1> DEFINE m == [msg |-> Len(sent) + 1, length |-> length, key |-> 0]
<1>1. /\ sent \in Seq(Lengths) /\ queue \in Seq(Outgoing)
      /\ outgoingSequence \in Nat \ {0} /\ unsentFragments \in BOOLEAN
      /\ net \subseteq Packet /\ unsentFragmentStart \in 0 .. MAX_MSGLEN
      /\ unsentBuffer \in Outgoing
  BY DEF IInv, TypeOK
<1>2. /\ sent' = Append(sent, length)
      /\ UNCHANGED receiver
  BY DEF SV_Netchan_Transmit
<1>3. SentGrows
  BY <1>1, <1>2 DEF SentGrows
<1>4. sent' \in Seq(Lengths)
  BY <1>1, <1>2
<1>5. m \in Outgoing
  BY <1>1 DEF Outgoing
<1>6. Len(sent') = Len(sent) + 1 /\ sent'[Len(sent) + 1] = length
  BY <1>1, <1>2
<1>7. FirstQueued + Len(queue) = Len(sent) + 1
  BY DEF IInv, SenderInv
<1>8. CASE /\ MustWait
           /\ queue' = Append(queue, m)
           /\ UNCHANGED <<net, outgoingSequence, unsentFragments, unsentFragmentStart, unsentBuffer>>
  <2>1. NetInv'
    <3> SUFFICES ASSUME NEW p \in net PROVE p \in Stale \/ Own(p)'
      BY <1>8 DEF NetInv
    <3> QED
      BY <1>3, StillOwn DEF IInv, NetInv
  <2>2. FirstQueued' = FirstQueued
    BY <1>8 DEF FirstQueued
  <2>3. FirstQueued \in Nat
    BY <1>1 DEF FirstQueued
  <2>4. Len(queue') = Len(queue) + 1 /\ queue' \in Seq(Outgoing)
    BY <1>1, <1>5, <1>8
  <2>5. ASSUME NEW i \in 1 .. Len(queue')
        PROVE  /\ queue'[i].msg = FirstQueued + i - 1
               /\ FirstQueued + i - 1 <= Len(sent')
               /\ queue'[i].length = sent'[FirstQueued + i - 1]
    <3>1. CASE i \in 1 .. Len(queue)
      <4>1. queue'[i] = queue[i]
        BY <1>1, <1>8, <3>1
      <4>2. Numbered(queue[i], FirstQueued + i - 1)
        BY <3>1 DEF IInv, SenderInv
      <4>3. FirstQueued + i - 1 \in 1 .. Len(sent)
        BY <4>2, <2>3, <1>1, <3>1 DEF Numbered, FirstQueued
      <4> QED
        BY <4>1, <4>2, <4>3, <1>3, <1>6, <1>1 DEF Numbered, SentGrows
    <3>2. CASE i = Len(queue) + 1
      BY <1>1, <1>6, <1>7, <1>8, <2>3, <3>2
    <3> QED
      BY <3>1, <3>2, <2>4, <1>1
  <2>6. SenderInv'
    <3>1. ASSUME unsentFragments'
          PROVE  Numbered(unsentBuffer, outgoingSequence)' /\ unsentFragmentStart' <= unsentBuffer'.length
      BY <1>1, <1>3, <1>6, <1>8, <3>1 DEF IInv, SenderInv, Numbered, SentGrows
    <3>2. FirstQueued' + Len(queue') = Len(sent') + 1
      BY <1>6, <1>7, <2>2, <2>3, <2>4, <1>1
    <3>3. \A i \in 1 .. Len(queue') : Numbered(queue[i], FirstQueued + i - 1)'
      BY <2>2, <2>5 DEF Numbered
    <3> QED
      BY <3>1, <3>2, <3>3 DEF SenderInv
  <2>7. TypeOK'
    BY <1>1, <1>2, <1>4, <1>3, <1>8, <2>4, ReceiverKept DEF TypeOK
  <2> QED
    BY <1>2, <1>3, <2>1, <2>6, <2>7, ReceiverKept DEF IInv
<1>9. CASE ~MustWait /\ Netchan_Transmit(SV_Netchan_Encode(m)) /\ UNCHANGED queue
  <2>1. ~unsentFragments /\ queue = <<>> /\ Len(queue) = 0
    BY <1>9 DEF MustWait
  <2>2. outgoingSequence = Len(sent) + 1
    BY <1>1, <1>7, <2>1 DEF FirstQueued
  <2>3. /\ SV_Netchan_Encode(m) \in Outgoing
        /\ SV_Netchan_Encode(m).msg = Len(sent) + 1
        /\ SV_Netchan_Encode(m).length = length
    BY <1>1, <1>5 DEF SV_Netchan_Encode, Outgoing
  <2>4. Transmitted
    BY <1>3, <1>6, <1>9, <2>1, <2>2, <2>3, <1>1, MessageSent
  <2>5. SenderInv'
    <3>1. Len(queue') = 0
      BY <1>9, <2>1
    <3>2. FirstQueued' + Len(queue') = Len(sent') + 1
      BY <1>1, <1>6, <2>2, <2>4, <3>1 DEF Transmitted
    <3> QED
      BY <2>4, <3>1, <3>2 DEF SenderInv, Transmitted
  <2>6. TypeOK'
    BY <1>1, <1>4, <1>2, <1>3, <1>9, <2>4, ReceiverKept DEF TypeOK, Transmitted
  <2> QED
    BY <1>2, <1>3, <2>4, <2>5, <2>6, ReceiverKept DEF IInv, Transmitted
<1> QED
  BY <1>8, <1>9 DEF SV_Netchan_Transmit

LEMMA TransmitNextInv ==
  ASSUME IInv, SV_Netchan_TransmitNextFragment
  PROVE  IInv'
<1>1. /\ sent \in Seq(Lengths) /\ queue \in Seq(Outgoing)
      /\ outgoingSequence \in Nat \ {0} /\ unsentBuffer \in Outgoing
      /\ unsentFragmentStart \in 0 .. MAX_MSGLEN
  BY DEF IInv, TypeOK
<1>2. UNCHANGED <<receiver, sent>>
  BY DEF SV_Netchan_TransmitNextFragment
<1>3. SentGrows
  BY <1>1, <1>2 DEF SentGrows
<1>4. FirstQueued + Len(queue) = Len(sent) + 1
  BY DEF IInv, SenderInv
<1>5. CASE /\ unsentFragments
           /\ Netchan_TransmitNextFragment(unsentBuffer, unsentFragmentStart)
           /\ UNCHANGED queue
  <2>1. Transmitted
    BY <1>1, <1>2, <1>3, <1>5, FragmentSent DEF IInv, SenderInv, Numbered
  <2>2. FirstQueued' = FirstQueued
    BY <1>5, <2>1 DEF Transmitted, FirstQueued
  <2>3. SenderInv'
    BY <1>2, <1>5, <2>1, <2>2 DEF IInv, SenderInv, Transmitted, Numbered
  <2>4. TypeOK'
    BY <1>1, <1>2, <1>3, <1>5, <2>1, ReceiverKept DEF TypeOK, Transmitted
  <2> QED
    BY <1>2, <1>3, <2>1, <2>3, <2>4, ReceiverKept DEF IInv, Transmitted
<1>6. CASE ~unsentFragments /\ queue # <<>> /\ SV_Netchan_TransmitNextInQueue
  <2>1. Netchan_Transmit(Head(queue)) /\ queue' = Tail(queue)
    BY <1>6 DEF SV_Netchan_TransmitNextInQueue
  <2>2. /\ Head(queue) = queue[1] /\ queue[1] \in Outgoing /\ 1 \in 1 .. Len(queue)
        /\ queue' \in Seq(Outgoing) /\ Len(queue') = Len(queue) - 1
        /\ \A i \in 1 .. Len(queue') : queue'[i] = queue[i + 1] /\ i + 1 \in 1 .. Len(queue)
    BY <1>1, <1>6, <2>1
  <2>3. FirstQueued = outgoingSequence
    BY <1>6 DEF FirstQueued
  <2>4. Numbered(queue[1], outgoingSequence)
    BY <2>2, <2>3, <1>1 DEF IInv, SenderInv
  <2>5. Transmitted
    BY <1>2, <1>3, <1>6, <2>1, <2>2, <2>4, MessageSent DEF Numbered
  <2>6. FirstQueued' = outgoingSequence + 1
    BY <2>5 DEF Transmitted
  <2>7. SenderInv'
    <3>1. FirstQueued' + Len(queue') = Len(sent') + 1
      BY <1>1, <1>2, <1>4, <2>2, <2>3, <2>6
    <3>2. ASSUME NEW i \in 1 .. Len(queue')
          PROVE  Numbered(queue[i], FirstQueued + i - 1)'
      <4>1. Numbered(queue[i + 1], outgoingSequence + (i + 1) - 1)
        BY <2>2, <2>3 DEF IInv, SenderInv
      <4>2. outgoingSequence + (i + 1) - 1 = FirstQueued' + i - 1
        BY <1>1, <2>6
      <4> QED
        BY <1>2, <2>2, <4>1, <4>2 DEF Numbered
    <3> QED
      BY <2>5, <3>1, <3>2 DEF SenderInv, Transmitted
  <2>8. TypeOK'
    BY <1>1, <1>2, <1>3, <2>2, <2>5, ReceiverKept DEF TypeOK, Transmitted
  <2> QED
    BY <1>2, <1>3, <2>5, <2>7, <2>8, ReceiverKept DEF IInv, Transmitted
<1> QED
  BY <1>5, <1>6 DEF SV_Netchan_TransmitNextFragment

--------------------------------------------------------------------------------
(* The steps of the receiver. *)

\* What arrives does not change what the sender and the packets hold.
LEMMA SenderKept ==
  ASSUME IInv, UNCHANGED <<sender, net, sent>>
  PROVE  SenderInv' /\ NetInv'
BY DEF IInv, SenderInv, NetInv, Own, FirstQueued, Numbered, sender, PieceOf

\* One more message comes out, as it was handed over unless its number is exposed.
LEMMA DeliverInv ==
  ASSUME IInv, UNCHANGED sent, NEW n \in Nat, NEW key \in Nat,
         NEW body \in [0 .. MAX_MSGLEN - 1 -> Byte],
         n \notin Exposed => n \in 1 .. Len(sent) /\ body = Body(n),
         Deliver(n, body, key)
  PROVE  DeliveredIntact' /\ received' \in Seq(Reassembled) /\ incomingSequence' \in Nat
<1> DEFINE r == [sequence |-> n, body |-> body, key |-> key]
<1>1. received \in Seq(Reassembled) /\ sent \in Seq(Lengths)
  BY DEF IInv, TypeOK
<1>2. received' = Append(received, r) /\ incomingSequence' = n
  BY DEF Deliver
<1>4. r \in Reassembled
  BY DEF Reassembled
<1>5. DeliveredIntact'
  <2> SUFFICES ASSUME NEW i \in 1 .. Len(received'), received'[i].sequence \notin Exposed
               PROVE  /\ received'[i].sequence \in 1 .. Len(sent)
                      /\ received'[i].body = Body(received'[i].sequence)
    BY DEF DeliveredIntact, Body, Contents, ZeroByte
  <2>1. CASE i \in 1 .. Len(received)
    <3>1. received'[i] = received[i]
      BY <1>1, <1>2, <1>4, <2>1
    <3> QED
      BY <2>1, <3>1 DEF IInv, DeliveredIntact
  <2>2. CASE i = Len(received) + 1
    <3>1. received'[i] = r
      BY <1>1, <1>2, <1>4, <2>2
    <3> QED
      BY <3>1
  <2> QED
    BY <1>1, <1>2, <1>4, <2>1, <2>2
<1> QED
  BY <1>1, <1>2, <1>4, <1>5

LEMMA WholeInv ==
  ASSUME IInv, NEW p \in net, ProcessWhole(p), UNCHANGED <<sender, net, sent>>
  PROVE  IInv'
<1>1. Fresh(p) /\ ~p.fragment
  BY DEF ProcessWhole
<1>2. p \in Packet /\ p.sequence \in Nat /\ p.length \in Nat /\ p.msg \in Nat /\ p.key \in Nat
  BY <1>1, OwnPacket DEF Packet
<1> DEFINE body == Contents(p.msg, p.length)
<1>3. Deliver(p.sequence, body, p.key)
  BY DEF ProcessWhole
<1>4. body \in [0 .. MAX_MSGLEN - 1 -> Byte]
  BY <1>2 DEF Contents, Byte, ZeroByte
<1>5. p.sequence \notin Exposed => p.sequence \in 1 .. Len(sent) /\ body = Body(p.sequence)
  <2> SUFFICES ASSUME p.sequence \notin Exposed
               PROVE  p.sequence \in 1 .. Len(sent) /\ body = Body(p.sequence)
    OBVIOUS
  <2>1. Own(p) /\ sent[p.sequence] \in 0 .. MAX_MSGLEN
    BY <1>1, OwnPacket
  <2>2. p.length = sent[p.sequence]
    BY <1>1, <1>2, <2>1 DEF Own, PieceOf
  <2> QED
    BY <2>1, <2>2 DEF Own, Body
<1> HIDE DEF body
<1>6. DeliveredIntact' /\ received' \in Seq(Reassembled) /\ incomingSequence' \in Nat
  BY <1>2, <1>3, <1>4, <1>5, DeliverInv
<1>7. UNCHANGED <<fragmentSequence, fragmentLength, fragmentBuffer>>
  BY DEF ProcessWhole
<1>8. TypeOK'
  BY <1>6, <1>7 DEF IInv, TypeOK, sender
<1>9. BufferInv'
  BY <1>7 DEF IInv, BufferInv
<1>10. SenderInv' /\ NetInv'
  BY SenderKept
<1> QED
  BY <1>6, <1>8, <1>9, <1>10 DEF IInv

\* The bytes of a fragment extend what is held of its message.
LEMMA CopiedExtends ==
  ASSUME IInv, NEW p \in net, p \in Packet, Continues(p, Kept(p))
  PROVE  /\ Kept(p) \in 0 .. MAX_MSGLEN
         /\ Kept(p) + p.length \in 0 .. MAX_MSGLEN
         /\ Copied(p, Kept(p)) \in [0 .. MAX_MSGLEN - 1 -> Byte]
         /\ p.sequence \notin Exposed /\ p.msg = p.sequence =>
               \A j \in 0 .. Kept(p) + p.length - 1 :
                   Copied(p, Kept(p))[j] = [msg |-> p.sequence, at |-> j]
<1>1. /\ fragmentLength \in 0 .. MAX_MSGLEN
      /\ fragmentBuffer \in [0 .. MAX_MSGLEN - 1 -> Byte]
  BY DEF IInv, TypeOK
<1>2. Kept(p) \in 0 .. MAX_MSGLEN
  BY <1>1 DEF Kept
<1>3. p.start = Kept(p) /\ Kept(p) + p.length \in 0 .. MAX_MSGLEN /\ p.length \in Nat
  BY <1>2 DEF Continues, Packet
<1>4. p.msg \in Nat
  BY DEF Packet
<1>5. Copied(p, Kept(p)) \in [0 .. MAX_MSGLEN - 1 -> Byte]
  BY <1>1, <1>2, <1>3, <1>4 DEF Copied, Byte
<1>6. ASSUME p.sequence \notin Exposed, p.msg = p.sequence,
             NEW j \in 0 .. Kept(p) + p.length - 1
      PROVE  Copied(p, Kept(p))[j] = [msg |-> p.sequence, at |-> j]
  <2>1. j \in 0 .. MAX_MSGLEN - 1
    BY <1>2, <1>3
  <2>2. CASE j >= Kept(p)
    BY <1>2, <1>3, <1>6, <2>1, <2>2 DEF Copied
  <2>3. CASE j < Kept(p)
    <3>1. p.sequence = fragmentSequence /\ j \in 0 .. fragmentLength - 1
      BY <1>1, <2>3 DEF Kept
    <3>2. fragmentBuffer[j] = [msg |-> fragmentSequence, at |-> j]
      BY <1>6, <3>1 DEF IInv, BufferInv
    <3> QED
      BY <1>2, <2>1, <2>3, <3>1, <3>2 DEF Copied
  <2> QED
    BY <1>2, <2>2, <2>3
<1> QED
  BY <1>2, <1>3, <1>5, <1>6

LEMMA FragmentInv ==
  ASSUME IInv, NEW p \in net, ProcessFragment(p), UNCHANGED <<sender, net, sent>>
  PROVE  IInv'
<1>1. p.fragment /\ Fresh(p) /\ fragmentSequence' = p.sequence
  BY DEF ProcessFragment
<1>2. /\ p \in Packet /\ p.sequence \in Nat /\ p.length \in Nat /\ p.key \in Nat
      /\ p.sequence \notin Exposed => Own(p) /\ sent[p.sequence] \in 0 .. MAX_MSGLEN
  BY <1>1, OwnPacket DEF Packet
<1>3. SenderInv' /\ NetInv'
  BY SenderKept
<1>4. /\ fragmentLength \in 0 .. MAX_MSGLEN
      /\ fragmentBuffer \in [0 .. MAX_MSGLEN - 1 -> Byte]
      /\ fragmentSequence' \in Nat
  BY <1>1, <1>2 DEF IInv, TypeOK
<1>5. CASE /\ ~Continues(p, Kept(p))
           /\ fragmentLength' = Kept(p)
           /\ UNCHANGED <<fragmentBuffer, incomingSequence, received>>
  <2>1. Kept(p) \in 0 .. MAX_MSGLEN
    BY <1>4 DEF Kept
  <2>2. BufferInv'
    BY <1>1, <1>4, <1>5 DEF IInv, BufferInv, Kept
  <2>3. DeliveredIntact'
    BY <1>5 DEF IInv, DeliveredIntact, Body, Contents, ZeroByte
  <2>4. TypeOK'
    BY <1>4, <1>5, <2>1 DEF IInv, TypeOK, sender
  <2> QED
    BY <1>3, <2>2, <2>3, <2>4 DEF IInv
<1>6. CASE /\ Continues(p, Kept(p))
           /\ p.length = FRAGMENT_SIZE
           /\ fragmentBuffer' = Copied(p, Kept(p))
           /\ fragmentLength' = Kept(p) + p.length
           /\ UNCHANGED <<incomingSequence, received>>
  <2>1. BufferInv'
    BY <1>1, <1>2, <1>6, CopiedExtends DEF BufferInv, Own
  <2>2. DeliveredIntact'
    BY <1>6 DEF IInv, DeliveredIntact, Body, Contents, ZeroByte
  <2>3. TypeOK'
    BY <1>2, <1>4, <1>6, CopiedExtends DEF IInv, TypeOK, sender
  <2> QED
    BY <1>3, <2>1, <2>2, <2>3 DEF IInv
<1>7. CASE /\ Continues(p, Kept(p))
           /\ p.length # FRAGMENT_SIZE
           /\ fragmentBuffer' = Copied(p, Kept(p))
           /\ fragmentLength' = 0
           /\ Deliver(p.sequence, Prefix(Copied(p, Kept(p)), Kept(p) + p.length), p.key)
  <2> DEFINE buffer == Copied(p, Kept(p))
             n == Kept(p) + p.length
             body == Prefix(buffer, n)
  <2>1. n \in 0 .. MAX_MSGLEN /\ buffer \in [0 .. MAX_MSGLEN - 1 -> Byte]
    BY <1>2, <1>7, CopiedExtends
  <2>2. body \in [0 .. MAX_MSGLEN - 1 -> Byte]
    <3> HIDE DEF buffer, n
    <3> QED
      BY <2>1 DEF Prefix, Byte, ZeroByte
  <2>3. ASSUME p.sequence \notin Exposed
        PROVE  p.sequence \in 1 .. Len(sent) /\ body = Body(p.sequence)
    <3>1. /\ p.sequence \in 1 .. Len(sent) /\ p.msg = p.sequence
          /\ PieceOf(p, sent[p.sequence])
      BY <1>2, <2>3 DEF Own
    <3>2. n = sent[p.sequence]
      BY <1>2, <1>7, <2>1, <3>1 DEF PieceOf, Continues
    <3>3. \A j \in 0 .. n - 1 : buffer[j] = [msg |-> p.sequence, at |-> j]
      BY <1>2, <1>7, <2>3, <3>1, CopiedExtends
    <3> HIDE DEF buffer, n
    <3>4. \A j \in 0 .. MAX_MSGLEN - 1 :
              (IF j < n THEN buffer[j] ELSE ZeroByte)
                = (IF j < n THEN [msg |-> p.sequence, at |-> j] ELSE ZeroByte)
      BY <2>1, <3>3
    <3>5. Body(p.sequence) = [j \in 0 .. MAX_MSGLEN - 1 |->
                                IF j < n THEN [msg |-> p.sequence, at |-> j] ELSE ZeroByte]
      BY <3>2 DEF Body, Contents
    <3>6. body = Body(p.sequence)
      BY <3>4, <3>5 DEF Prefix
    <3> QED
      BY <3>1, <3>6
  <2>6. Deliver(p.sequence, body, p.key)
    BY <1>7
  <2> HIDE DEF body
  <2>7. DeliveredIntact' /\ received' \in Seq(Reassembled) /\ incomingSequence' \in Nat
    BY <1>2, <2>2, <2>3, <2>6, DeliverInv
  <2>4. BufferInv'
    BY <1>7 DEF BufferInv
  <2>5. TypeOK'
    BY <1>2, <1>4, <1>7, <2>7, CopiedExtends DEF IInv, TypeOK, sender
  <2> QED
    BY <1>3, <2>7, <2>4, <2>5 DEF IInv
<1> QED
  BY <1>5, <1>6, <1>7 DEF ProcessFragment

--------------------------------------------------------------------------------
(* The theorems. *)

LEMMA NextInv == IInv /\ [Next]_vars => IInv'
<1> SUFFICES ASSUME IInv, [Next]_vars PROVE IInv'
  OBVIOUS
<1>1. CASE \E length \in Lengths : SV_Netchan_Transmit(length)
  BY <1>1, TransmitInv
<1>2. CASE SV_Netchan_TransmitNextFragment
  BY <1>2, TransmitNextInv
<1>3. CASE Netchan_Process
  BY <1>3, WholeInv, FragmentInv DEF Netchan_Process
<1>4. CASE UNCHANGED vars
  <2>1. UNCHANGED <<outgoingSequence, unsentFragments, unsentFragmentStart, unsentBuffer,
                    queue, net, incomingSequence, fragmentSequence, fragmentLength,
                    fragmentBuffer, received, sent>>
    BY <1>4 DEF vars, sender, receiver
  <2>2. TypeOK'
    BY <2>1 DEF IInv, TypeOK
  <2>3. SenderInv'
    BY <2>1 DEF IInv, SenderInv, FirstQueued, Numbered
  <2>4. NetInv' /\ BufferInv'
    BY <2>1 DEF IInv, NetInv, Own, BufferInv, PieceOf
  <2>5. DeliveredIntact'
    BY <2>1 DEF IInv, DeliveredIntact, Body, Contents, ZeroByte
  <2> QED
    BY <2>2, <2>3, <2>4, <2>5 DEF IInv
<1> QED
  BY <1>1, <1>2, <1>3, <1>4 DEF Next

\* The invariant that the others follow from: what the sender holds is numbered as
\* it was handed over, each packet carries a piece of the message it is numbered
\* for, and the receiver holds the first bytes of one message (net_chan.cpp).
THEOREM Invariance == Spec => []IInv
<1>1. Init => IInv
  BY InitInv
<1>2. IInv /\ [Next]_vars => IInv'
  BY NextInv
<1> QED
  BY <1>1, <1>2, PTL DEF Spec

\* Every variable of both ends of the channel keeps its type: the offsets of the
\* fragments stay within the message buffers of net_chan.cpp.
THEOREM TypeCorrect == Spec => []TypeOK
<1>1. IInv => TypeOK
  BY DEF IInv
<1> QED
  BY <1>1, Invariance, PTL

\* What Netchan_Process returns is what was handed to SV_Netchan_Transmit under
\* that number, whole, whatever the network does with the packets, except under the
\* numbers at which a packet of an earlier connection passes for one of this.
THEOREM Intact == Spec => []DeliveredIntact
<1>1. IInv => DeliveredIntact
  BY DEF IInv
<1> QED
  BY <1>1, Invariance, PTL

--------------------------------------------------------------------------------
(* NetChan implements DatagramChannel. *)

Buffers == [0 .. MAX_MSGLEN - 1 -> Byte]

\* Appending one element extends a sequence given as a function by that element.
LEMMA AppendFunction ==
  ASSUME NEW S, NEW k \in Nat, NEW f \in [1 .. k -> S], NEW g \in [1 .. k + 1 -> S],
         \A n \in 1 .. k : g[n] = f[n]
  PROVE  g = Append(f, g[k + 1])
<1>1. f \in Seq(S) /\ Len(f) = k /\ g \in Seq(S) /\ Len(g) = k + 1
  OBVIOUS
<1>2. g[k + 1] \in S
  OBVIOUS
<1>3. /\ Append(f, g[k + 1]) \in Seq(S)
      /\ Len(Append(f, g[k + 1])) = k + 1
      /\ Append(f, g[k + 1])[k + 1] = g[k + 1]
      /\ \A n \in 1 .. k : Append(f, g[k + 1])[n] = f[n]
  BY <1>1, <1>2
<1>4. \A n \in 1 .. k + 1 : g[n] = Append(f, g[k + 1])[n]
  BY <1>3
<1> QED
  BY <1>1, <1>3, <1>4

LEMMA AcceptedType == IInv => Accepted \in [1 .. Len(sent) -> Buffers]
<1> SUFFICES ASSUME IInv, NEW n \in 1 .. Len(sent) PROVE Body(n) \in Buffers
  BY DEF Accepted
<1> QED
  BY DEF Body, Contents, Buffers, Byte, ZeroByte

LEMMA RefineInit == Init => Datagrams!Init
BY DEF Init, Datagrams!Init, Accepted, Delivered

LEMMA RefineAccept ==
  ASSUME IInv, IInv', NEW length \in Lengths, SV_Netchan_Transmit(length)
  PROVE  Datagrams!Accept
<1>1. /\ sent' = Append(sent, length) /\ Len(sent) < MaxMessages
      /\ received' = received /\ incomingSequence' = incomingSequence
  BY DEF SV_Netchan_Transmit, receiver
<1>2. /\ sent \in Seq(Lengths) /\ Len(sent') = Len(sent) + 1
      /\ sent'[Len(sent) + 1] = length
      /\ \A n \in 1 .. Len(sent) : sent'[n] = sent[n]
  BY <1>1 DEF IInv, TypeOK
<1>3. Accepted \in [1 .. Len(sent) -> Buffers]
  BY AcceptedType
<1>4. Accepted' \in [1 .. Len(sent) + 1 -> Buffers]
  <2>1. Accepted' = [n \in 1 .. Len(sent') |-> Contents(n, sent'[n])]
    BY DEF Accepted, Body, Contents, ZeroByte
  <2>2. \A n \in 1 .. Len(sent') : Contents(n, sent'[n]) \in Buffers
    BY <1>2 DEF Contents, Buffers, Byte, ZeroByte
  <2> QED
    BY <1>2, <2>1, <2>2
<1>5. \A n \in 1 .. Len(sent) : Accepted'[n] = Accepted[n]
  BY <1>2 DEF Accepted, Body, Contents, ZeroByte
<1>6. Accepted' = Append(Accepted, Accepted'[Len(sent) + 1])
  BY <1>2, <1>3, <1>4, <1>5, AppendFunction
<1>7. Accepted'[Len(sent) + 1] = Contents(Len(sent) + 1, length)
  BY <1>2 DEF Accepted, Body, Contents, ZeroByte
<1>8. Len(sent) + 1 \in 1 .. MaxMessages
  BY <1>1, <1>2
<1>9. Contents(Len(sent) + 1, length) \in Messages
  BY <1>8 DEF Messages
<1>10. Delivered' = Delivered
  BY <1>1 DEF Delivered
<1> QED
  BY <1>1, <1>6, <1>7, <1>9, <1>10 DEF Datagrams!Accept

LEMMA RefineDeliver ==
  ASSUME IInv, IInv', NEW p \in net, Fresh(p), sent' = sent,
         NEW body, NEW key, Deliver(p.sequence, body, key)
  PROVE  Datagrams!Deliver \/ Datagrams!DeliverForeign
<1>1. p.sequence \in Nat /\ p.sequence > incomingSequence
  BY OwnPacket DEF Fresh, Packet
<1> DEFINE r == [sequence |-> p.sequence, body |-> body, key |-> key]
<1>2. /\ received \in Seq(Reassembled) /\ received' \in Seq(Reassembled)
      /\ received' = Append(received, r) /\ incomingSequence' = p.sequence
  BY DEF IInv, TypeOK, Deliver
<1>3. /\ Len(received') = Len(received) + 1
      /\ received'[Len(received) + 1] = r
      /\ \A i \in 1 .. Len(received) : received'[i] = received[i]
  BY <1>2
<1>5. Delivered \in [1 .. Len(received) -> Buffers]
  <2>1. \A i \in 1 .. Len(received) : received[i] \in Reassembled
    BY <1>2
  <2>2. \A i \in 1 .. Len(received) : received[i].body \in Buffers
    BY <2>1 DEF Reassembled, Buffers
  <2> QED
    BY <2>2 DEF Delivered
<1>6. Delivered' \in [1 .. Len(received) + 1 -> Buffers]
  <2>1. \A i \in 1 .. Len(received') : received'[i] \in Reassembled
    BY <1>2
  <2>2. \A i \in 1 .. Len(received') : received'[i].body \in Buffers
    BY <2>1 DEF Reassembled, Buffers
  <2> QED
    BY <1>3, <2>2 DEF Delivered
<1>7. \A i \in 1 .. Len(received) : Delivered'[i] = Delivered[i]
  BY <1>2, <1>3 DEF Delivered
<1>8. Delivered'[Len(received) + 1] = body
  BY <1>2, <1>3 DEF Delivered
<1>9. Delivered' = Append(Delivered, body)
  BY <1>2, <1>5, <1>6, <1>7, <1>8, AppendFunction
<1>10. Accepted' = Accepted
  BY DEF Accepted, Body, Contents, ZeroByte
<1>11. CASE p.sequence \notin Exposed
  <2>1. p.sequence \in 1 .. Len(sent)
    BY <1>11, OwnPacket DEF Own
  <2>2. body = Body(p.sequence)
    <3>1. /\ received'[Len(received')].body = body
          /\ received'[Len(received')].sequence = p.sequence
          /\ Len(received') \in 1 .. Len(received')
      BY <1>2, <1>3
    <3>2. \A i \in 1 .. Len(received') :
             received'[i].sequence \notin Exposed =>
                received'[i].body = Contents(received'[i].sequence, sent'[received'[i].sequence])
      BY DEF IInv, DeliveredIntact, Body, Contents, ZeroByte, Exposed, ChecksumFits, NETCHAN_GENCHECKSUM, Bit
    <3>3. received'[Len(received')].body = Contents(p.sequence, sent'[p.sequence])
      BY <1>11, <3>1, <3>2
    <3> QED
      BY <3>1, <3>3 DEF Body
  <2>3. Accepted[p.sequence] = body /\ Len(Accepted) = Len(sent)
    BY <2>1, <2>2, AcceptedType DEF Accepted
  <2> QED
    BY <1>1, <1>2, <1>9, <1>10, <2>1, <2>3 DEF Datagrams!Deliver
<1>12. CASE p.sequence \in Exposed
  <2>1. Delivered \in Seq(Buffers) /\ Delivered' \in Seq(Buffers) /\ Len(Delivered) = Len(received)
    BY <1>2, <1>5, <1>6
  <2>2. Len(Delivered') = Len(Delivered) + 1
    BY <1>2, <1>6, <2>1
  <2>3. SubSeq(Delivered', 1, Len(Delivered)) = Delivered
    BY <1>2, <1>5, <1>6, <1>7, <2>1, <2>2
  <2> QED
    BY <1>1, <1>2, <1>10, <1>12, <2>2, <2>3 DEF Datagrams!DeliverForeign
<1> QED
  BY <1>11, <1>12

\* A step that delivers nothing and accepts nothing is a stutter of the channel.
LEMMA RefineStutter ==
  ASSUME sent' = sent, received' = received, incomingSequence' = incomingSequence
  PROVE  UNCHANGED Datagrams!vars
BY DEF Datagrams!vars, Accepted, Delivered, Body, Contents, ZeroByte

\* Users of the channel may reason about DatagramChannel instead: whatever the
\* network does, messages come out whole, in order and at most once, and an exposed
\* number is used up at most once, by its message or by something foreign.
THEOREM Refinement == Spec => DatagramSpec
<1>1. Init => Datagrams!Init
  BY RefineInit
<1>2. IInv /\ IInv' /\ [Next]_vars => [Datagrams!Next]_(Datagrams!vars)
  <2> SUFFICES ASSUME IInv, IInv', [Next]_vars PROVE [Datagrams!Next]_(Datagrams!vars)
    OBVIOUS
  <2>1. ASSUME NEW length \in Lengths, SV_Netchan_Transmit(length) PROVE Datagrams!Accept
    BY <2>1, RefineAccept
  <2>2. CASE SV_Netchan_TransmitNextFragment
    BY <2>2, RefineStutter DEF SV_Netchan_TransmitNextFragment, receiver
  <2>3. ASSUME NEW p \in net, ProcessWhole(p) \/ ProcessFragment(p),
               UNCHANGED <<sender, net, sent>>
        PROVE  [Datagrams!Next]_(Datagrams!vars)
    <3>1. CASE \E body, key : Deliver(p.sequence, body, key)
      BY <2>3, <3>1, RefineDeliver DEF Datagrams!Next, ProcessWhole, ProcessFragment
    <3>2. CASE received' = received /\ incomingSequence' = incomingSequence
      BY <2>3, <3>2, RefineStutter
    <3> QED
      BY <2>3, <3>1, <3>2 DEF ProcessWhole, ProcessFragment
  <2>4. CASE UNCHANGED vars
    BY <2>4, RefineStutter DEF vars, receiver
  <2> QED
    BY <2>1, <2>2, <2>3, <2>4 DEF Next, Netchan_Process, Datagrams!Next
<1> QED
  BY <1>1, <1>2, Invariance, PTL DEF Spec, DatagramSpec, Datagrams!Spec

================================================================================
