-------------------------------- MODULE NetChan --------------------------------
(***************************************************************************)
(* One direction of a netchan (qcommon/net_chan.cpp): the server's end with *)
(* the send queue of server/sv_net_chan.cpp, a network that loses,          *)
(* duplicates and reorders packets, and the end that reassembles fragments. *)
(* A byte is modelled by the message it belongs to and its place in it.     *)
(***************************************************************************)
EXTENDS Naturals, Sequences

CONSTANTS
    FRAGMENT_SIZE,      \* messages of at least this length are fragmented
    MAX_MSGLEN,         \* size of the fragment buffer, longest message
    Lengths,            \* the message lengths the server may send
    MaxMessages,        \* bound: messages handed to the channel
    alternateProtocol,  \* 0: packets carry a checksum of the challenge
    challenge,          \* the challenge of this connection
    INT_BITS,           \* the width of an int, which a checksum is
    Stale               \* packets of earlier connections still in flight

ASSUME SizeAssumption ==
    /\ FRAGMENT_SIZE \in Nat \ {0}
    /\ MAX_MSGLEN \in Nat
    /\ Lengths \subseteq 0 .. MAX_MSGLEN
    /\ MaxMessages \in Nat
    /\ alternateProtocol \in {0, 1, 2}
    /\ challenge \in Nat
    /\ INT_BITS \in Nat

\* A byte of message msg at offset at.
Byte == [msg : Nat, at : Nat]

\* A message in the hands of the sender; key is the sequence number its bytes
\* were encoded with, 0 when they are plain.
Outgoing == [msg : Nat, length : 0 .. MAX_MSGLEN, key : Nat]

Bit(n, i) == (n \div 2^i) % 2 = 1

\* challenge ^ (sequence * challenge), as the bits that are set in the int.
NETCHAN_GENCHECKSUM(c, sequence) ==
    {i \in 0 .. INT_BITS - 1 : ~(Bit(c, i) <=> Bit(sequence * c, i))}

\* A datagram: its header, and the piece of a message that it carries.  Where the
\* protocol has no checksum it is not read.
Packet == [sequence : Nat, fragment : BOOLEAN, start : Nat, length : 0 .. MAX_MSGLEN,
           checksum : SUBSET (0 .. INT_BITS - 1), msg : Nat, key : Nat]

ASSUME StaleAssumption == Stale \subseteq Packet

VARIABLES
    outgoingSequence, unsentFragments, unsentFragmentStart, unsentBuffer,
    queue,              \* netchan_start_queue
    net,                \* every packet ever sent: it may arrive at any time, or never
    incomingSequence, fragmentSequence, fragmentLength, fragmentBuffer,
    sent,               \* history: lengths of the messages handed over
    received            \* history: the messages that Netchan_Process returned

sender   == <<outgoingSequence, unsentFragments, unsentFragmentStart, unsentBuffer, queue>>
receiver == <<incomingSequence, fragmentSequence, fragmentLength, fragmentBuffer, received>>
vars     == <<sender, net, receiver, sent>>

ZeroByte == [msg |-> 0, at |-> 0]

\* The bytes of message msg, in a buffer that could hold the longest message.
Contents(msg, length) ==
    [j \in 0 .. MAX_MSGLEN - 1 |-> IF j < length THEN [msg |-> msg, at |-> j] ELSE ZeroByte]

\* Netchan_Setup, on both ends.
Init ==
    /\ outgoingSequence = 1
    /\ unsentFragments = FALSE
    /\ unsentFragmentStart = 0
    /\ unsentBuffer = [msg |-> 0, length |-> 0, key |-> 0]
    /\ queue = <<>>
    /\ net = Stale
    /\ incomingSequence = 0
    /\ fragmentSequence = 0
    /\ fragmentLength = 0
    /\ fragmentBuffer = [j \in 0 .. MAX_MSGLEN - 1 |-> ZeroByte]
    /\ sent = <<>>
    /\ received = <<>>

--------------------------------------------------------------------------------
(* The sender. *)

Smaller(a, b) == IF a < b THEN a ELSE b

\* Mutant: the empty fragment does not end a message of an exact multiple.
LastFragmentNonEmpty(m, start, length) ==
    start + length = m.length /\ length # FRAGMENT_SIZE /\ length # 0

\* The last fragment is the one shorter than FRAGMENT_SIZE, so a message of an
\* exact multiple ends with an empty fragment.
LastFragment(m, start, length) ==
    start + length = m.length /\ length # FRAGMENT_SIZE

\* The piece of message m from start on, with the header of the next packet.
Piece(m, fragment, start, length) ==
    [sequence |-> outgoingSequence, fragment |-> fragment, start |-> start, length |-> length,
     checksum |-> NETCHAN_GENCHECKSUM(challenge, outgoingSequence), msg |-> m.msg, key |-> m.key]

Netchan_TransmitNextFragment(m, start) ==
    LET length == Smaller(FRAGMENT_SIZE, m.length - start)
    IN  /\ net' = net \cup {Piece(m, TRUE, start, length)}
        /\ unsentBuffer' = m
        /\ unsentFragmentStart' = start + length
        /\ \/ /\ LastFragment(m, start, length)
              /\ outgoingSequence' = outgoingSequence + 1
              /\ unsentFragments' = FALSE
           \/ /\ ~LastFragment(m, start, length)
              /\ unsentFragments' = TRUE
              /\ UNCHANGED outgoingSequence

\* Only the first fragment of a long message is sent at once.
Netchan_Transmit(m) ==
    \/ /\ m.length >= FRAGMENT_SIZE
       /\ Netchan_TransmitNextFragment(m, 0)
    \/ /\ m.length < FRAGMENT_SIZE
       /\ net' = net \cup {Piece(m, FALSE, 0, m.length)}
       /\ outgoingSequence' = outgoingSequence + 1
       /\ unsentFragmentStart' = 0
       /\ UNCHANGED <<unsentFragments, unsentBuffer>>

SV_Netchan_Encode(m) ==
    IF alternateProtocol = 0 THEN m ELSE [m EXCEPT !.key = outgoingSequence]

\* A message waits behind the fragments and the messages that were there first.
MustWait == unsentFragments \/ queue # <<>>

SV_Netchan_Transmit(length) ==
    LET m == [msg |-> Len(sent) + 1, length |-> length, key |-> 0]
    IN  /\ Len(sent) < MaxMessages
        /\ sent' = Append(sent, length)
        /\ \/ /\ MustWait
              /\ queue' = Append(queue, m)
              /\ UNCHANGED <<net, outgoingSequence, unsentFragments, unsentFragmentStart, unsentBuffer>>
           \/ /\ ~MustWait
              /\ Netchan_Transmit(SV_Netchan_Encode(m))
              /\ UNCHANGED queue
        /\ UNCHANGED receiver

\* The queued message goes out as it was stored.
SV_Netchan_TransmitNextInQueue ==
    /\ Netchan_Transmit(Head(queue))
    /\ queue' = Tail(queue)

SV_Netchan_TransmitNextFragment ==
    /\ \/ /\ unsentFragments
          /\ Netchan_TransmitNextFragment(unsentBuffer, unsentFragmentStart)
          /\ UNCHANGED queue
       \/ /\ ~unsentFragments
          /\ queue # <<>>
          /\ SV_Netchan_TransmitNextInQueue
    /\ UNCHANGED <<receiver, sent>>

--------------------------------------------------------------------------------
(* The receiver. *)

\* "UDP spoofing protection"
ChecksumFits(p) ==
    alternateProtocol = 0 => p.checksum = NETCHAN_GENCHECKSUM(challenge, p.sequence)

\* Mutant: < for <= where out of order and duplicated packets are discarded.
FreshOrRepeated(p) == ChecksumFits(p) /\ p.sequence >= incomingSequence

\* A packet with the right checksum and the sequence number of none seen before.
Fresh(p) == ChecksumFits(p) /\ p.sequence > incomingSequence

\* Mutant: fragmentLength is not reset when a fragment of another message comes.
KeptAcrossMessages(p) == fragmentLength

\* The bytes held of the message that fragment p belongs to.
Kept(p) == IF p.sequence = fragmentSequence THEN fragmentLength ELSE 0

\* The fragment buffer after the bytes of p are copied at offset kept.
Copied(p, kept) ==
    [j \in 0 .. MAX_MSGLEN - 1 |->
        IF j >= kept /\ j < kept + p.length
        THEN [msg |-> p.msg, at |-> p.start + (j - kept)]
        ELSE fragmentBuffer[j]]

\* A message of n bytes taken from a buffer; the bytes beyond it do not count.
Prefix(buffer, n) == [j \in 0 .. MAX_MSGLEN - 1 |-> IF j < n THEN buffer[j] ELSE ZeroByte]

Deliver(sequence, body, key) ==
    /\ incomingSequence' = sequence
    /\ received' = Append(received, [sequence |-> sequence, body |-> body, key |-> key])

ProcessWhole(p) ==
    /\ ~p.fragment
    /\ Fresh(p)
    /\ Deliver(p.sequence, Contents(p.msg, p.length), p.key)
    /\ UNCHANGED <<fragmentSequence, fragmentLength, fragmentBuffer>>

\* The fragment that continues what is held.
Continues(p, kept) == p.start = kept /\ kept + p.length <= MAX_MSGLEN

ProcessFragment(p) ==
    LET kept == Kept(p)
    IN  /\ p.fragment
        /\ Fresh(p)
        /\ fragmentSequence' = p.sequence
        /\ \/ /\ ~Continues(p, kept)
              /\ fragmentLength' = kept
              /\ UNCHANGED <<fragmentBuffer, incomingSequence, received>>
           \/ /\ Continues(p, kept)
              /\ p.length = FRAGMENT_SIZE
              /\ fragmentBuffer' = Copied(p, kept)
              /\ fragmentLength' = kept + p.length
              /\ UNCHANGED <<incomingSequence, received>>
           \/ /\ Continues(p, kept)
              /\ p.length # FRAGMENT_SIZE
              /\ fragmentBuffer' = Copied(p, kept)
              /\ fragmentLength' = 0
              /\ Deliver(p.sequence, Prefix(Copied(p, kept), kept + p.length), p.key)

Netchan_Process ==
    /\ \E p \in net : ProcessWhole(p) \/ ProcessFragment(p)
    /\ UNCHANGED <<sender, net, sent>>

--------------------------------------------------------------------------------
Next ==
    \/ \E length \in Lengths : SV_Netchan_Transmit(length)
    \/ SV_Netchan_TransmitNextFragment
    \/ Netchan_Process

Spec == Init /\ [][Next]_vars

\* SV_SendQueuedPackets keeps sending what is pending, frame after frame.
FairSpec == Spec /\ WF_vars(SV_Netchan_TransmitNextFragment)

--------------------------------------------------------------------------------
(* Properties. *)

Reassembled == [sequence : Nat, body : [0 .. MAX_MSGLEN - 1 -> Byte], key : Nat]

TypeOK ==
    /\ outgoingSequence \in Nat \ {0}
    /\ unsentFragments \in BOOLEAN
    /\ unsentFragmentStart \in 0 .. MAX_MSGLEN
    /\ unsentBuffer \in Outgoing
    /\ queue \in Seq(Outgoing)
    /\ net \subseteq Packet
    /\ incomingSequence \in Nat
    /\ fragmentSequence \in Nat
    /\ fragmentLength \in 0 .. MAX_MSGLEN
    /\ fragmentBuffer \in [0 .. MAX_MSGLEN - 1 -> Byte]
    /\ sent \in Seq(Lengths)
    /\ received \in Seq(Reassembled)

\* The n-th message handed over, byte by byte.
Body(n) == Contents(n, sent[n])

\* The sequence numbers under which a packet of an earlier connection is taken for one of
\* this: the checksum fits by chance or, for number 1, always, as it is then the same for
\* every challenge; and nothing tells them apart where the protocol has no checksum.
Exposed == {p.sequence : p \in {q \in Stale : ChecksumFits(q)}}

\* What Netchan_Process returns under sequence number n is the n-th message
\* handed to SV_Netchan_Transmit, whole: no fragment is missing, repeated or of
\* another message or connection (the order checks on fragments in Netchan_Process),
\* whatever has come in before under numbers that are exposed.
DeliveredIntact ==
    \A i \in 1 .. Len(received) :
        received[i].sequence \notin Exposed =>
            /\ received[i].sequence \in 1 .. Len(sent)
            /\ received[i].body = Body(received[i].sequence)

\* The abstract channel's view of this one.
Messages  == UNION {{Contents(n, length) : length \in Lengths} : n \in 1 .. MaxMessages}
Accepted  == [n \in 1 .. Len(sent) |-> Body(n)]
Delivered == [i \in 1 .. Len(received) |-> received[i].body]

Datagrams == INSTANCE DatagramChannel WITH
    Message <- Messages, Foreign <- Exposed,
    accepted <- Accepted, last <- incomingSequence, delivered <- Delivered

\* The channel implements the one its users reason about: out of order or duplicated
\* packets never make a message come out twice or after a later one ("discard out of
\* order or duplicated packets", Netchan_Process), and a packet of an earlier connection
\* can only take the place of the message with its own number, and of those before it.
DatagramSpec == Datagrams!Spec

\* Every message handed over has all its packets put on the wire in the end: the
\* fragmentation loop terminates and the queue behind it drains.
QueueDrains ==
    \A n \in 1 .. MaxMessages : Len(sent) >= n ~> outgoingSequence > n

\* "the message will be encoded and sent later" (SV_Netchan_Transmit): a client of
\* an alternate protocol decodes every message with its own sequence number.
\* It does not hold: see Deviations in the README.
EncodedWithSequence ==
    alternateProtocol # 0 => \A p \in net : p.key = p.sequence
================================================================================
