----------------------------- MODULE DownloadProofs -----------------------------
(***************************************************************************)
(* Proofs about Download for all sizes of window, ring and files.           *)
(*                                                                           *)
(* A packet is sound for the server's count of executed commands: it has    *)
(* all commands from there on, as far as it goes, and as the ring has them   *)
(* (Sound).  The ring never overwrites what the server has not executed,     *)
(* since acknowledgements only grow and never pass that count (Acks).        *)
(*                                                                           *)
(* While the client is at a file and has not failed, the server comes to     *)
(* send this file after all commands of the earlier ones (InTurn, Begun),    *)
(* its window is around the block the client is at (Session), and a block    *)
(* under way is less than a window away from that one (OnTheWay): so its     *)
(* number, though sent modulo BlockModulus, tells it from all others         *)
(* (NextOfFile), and the client implements FileTransfers (Refinement).       *)
(***************************************************************************)
EXTENDS Download, TLAPS, SequenceTheorems

Slots == 0 .. MAX_RELIABLE_COMMANDS - 1

\* The commands that a client gives: it asks for files that there are.
Asked == {c \in ClientCommand : c.name = "download" => c.arg \in Files}

ServerType ==
    /\ state \in {"CS_PRIMED", "CS_ZOMBIE"}
    /\ downloadName \in {0} \cup Files
    /\ download \in BOOLEAN
    /\ download => downloadName # 0
    /\ downloadCurrentBlock \in Nat /\ downloadClientBlock \in Nat /\ downloadXmitBlock \in Nat
    /\ downloadBlocks \in [0 .. MAX_DOWNLOAD_WINDOW - 1 -> Block]
    /\ losses \in 0 .. MaxLosses
    /\ resends \in 0 .. MaxResends + MaxLosses

ClientType ==
    /\ connected \in BOOLEAN /\ blockZero \in BOOLEAN
    /\ wanted \in {0} \cup Files
    /\ downloadBlock \in Nat
    /\ received \in Seq(Block)
    /\ kept \in 0 .. Len(Blocks)

\* The ring and its numbers.
Commands ==
    /\ reliableSequence \in Nat /\ reliableAcknowledge \in Nat /\ lastClientCommand \in Nat
    /\ reliableAcknowledge <= lastClientCommand
    /\ lastClientCommand <= reliableSequence
    /\ reliableSequence <= reliableAcknowledge + MAX_RELIABLE_COMMANDS
    /\ reliableCommands \in [Slots -> Asked]

\* What the server has acknowledged grows along the channel.
Acks ==
    /\ toClient \in Seq(Message)
    /\ \A i \in DOMAIN toClient :
          reliableAcknowledge <= toClient[i].ack /\ toClient[i].ack <= lastClientCommand
    /\ \A i, j \in DOMAIN toClient : i < j => toClient[i].ack <= toClient[j].ack

\* A packet is sound for a server that executed the commands up to the one numbered last, and
\* a client with the given ring that goes up to number sequence.
Sound(packet, last, sequence, ring) ==
    \A n \in DOMAIN packet :
        /\ n \in Nat /\ n <= sequence
        /\ packet[n] \in Asked
        /\ n > last => packet[n] = ring[CommandSlot(n)]
        /\ \A k \in last + 1 .. n : k \in DOMAIN packet

SoundNow(packet)  == Sound(packet, lastClientCommand, reliableSequence, reliableCommands)
SoundNext(packet) == Sound(packet, lastClientCommand', reliableSequence', reliableCommands')

Packets ==
    /\ toServer \in Seq(Packet)
    /\ \A i \in DOMAIN toServer : SoundNow(toServer[i])
    /\ SoundNow(reading)

IInv == ServerType /\ ClientType /\ Commands /\ Acks /\ Packets

--------------------------------------------------------------------------------
(* The ring. *)

LEMMA SlotType ==
    /\ \A n \in Nat : CommandSlot(n) \in Slots
    /\ \A n \in Nat : WindowSlot(n) \in 0 .. MAX_DOWNLOAD_WINDOW - 1
BY ConstantsAssumption DEF CommandSlot, WindowSlot, Slots

\* Numbers less than a round apart differ modulo the round.
LEMMA Distinct ==
    ASSUME NEW M \in Nat \ {0}, NEW a \in Nat, NEW b \in Nat, a < b, b < a + M
    PROVE  a % M # b % M
<1>1. a = M * (a \div M) + (a % M) /\ a \div M \in Nat /\ a % M \in Nat
  OBVIOUS
<1>2. b = M * (b \div M) + (b % M) /\ b \div M \in Nat /\ b % M \in Nat
  OBVIOUS
<1>3. \A d \in Int : M * d # b - a
  <2>. TAKE d \in Int
  <2>1. d >= 1 => M * d >= M
    OBVIOUS
  <2>2. d <= 0 => M * d <= 0
    OBVIOUS
  <2>. QED
    BY <2>1, <2>2
<1>4. (b \div M) - (a \div M) \in Int
  BY <1>1, <1>2
<1>5. a % M = b % M => b - a = M * ((b \div M) - (a \div M))
  BY <1>1, <1>2
<1>. QED
  BY <1>3, <1>4, <1>5

\* Commands less than a round apart have different slots.
LEMMA SlotDistinct ==
    ASSUME NEW a \in Nat, NEW b \in Nat, a < b, b < a + MAX_RELIABLE_COMMANDS
    PROVE  CommandSlot(a) # CommandSlot(b)
BY Distinct, ConstantsAssumption DEF CommandSlot

\* So have blocks of one window.
LEMMA WindowDistinct ==
    ASSUME NEW a \in Nat, NEW m \in Nat, NEW n \in Nat, a <= m, a <= n,
           m < a + MAX_DOWNLOAD_WINDOW, n < a + MAX_DOWNLOAD_WINDOW,
           WindowSlot(m) = WindowSlot(n)
    PROVE  m = n
<1>1. PICK M \in Nat \ {0} : M = MAX_DOWNLOAD_WINDOW
  BY ConstantsAssumption
<1>2. CASE m < n
  <2>1. n < m + M
    BY <1>1
  <2>. QED
    BY <1>1, <1>2, <2>1, Distinct DEF WindowSlot
<1>3. CASE n < m
  <2>1. m < n + M
    BY <1>1
  <2>. QED
    BY <1>1, <1>3, <2>1, Distinct DEF WindowSlot
<1>. QED
  BY <1>2, <1>3

\* The same within a range of numbers no longer than the ring.
LEMMA SlotInRange ==
    ASSUME NEW a \in Nat, NEW m \in Nat, NEW n \in Nat,
           a < m, a < n, m <= a + MAX_RELIABLE_COMMANDS, n <= a + MAX_RELIABLE_COMMANDS,
           CommandSlot(m) = CommandSlot(n)
    PROVE  m = n
<1>1. PICK M \in Nat \ {0} : M = MAX_RELIABLE_COMMANDS
  BY ConstantsAssumption
<1>2. CASE m < n
  <2>1. n < m + M
    BY <1>1
  <2>. QED
    BY <1>1, <1>2, <2>1, SlotDistinct
<1>3. CASE n < m
  <2>1. m < n + M
    BY <1>1
  <2>. QED
    BY <1>1, <1>3, <2>1, SlotDistinct
<1>. QED
  BY <1>2, <1>3

\* What the server has not executed stays in the ring.
StaysInRing ==
    \A n \in Nat : lastClientCommand < n /\ n <= reliableSequence
      => reliableCommands'[CommandSlot(n)] = reliableCommands[CommandSlot(n)]

\* What is new gets into the ring.
GetsInRing(new) ==
    \A i \in 1 .. Len(new) : reliableCommands'[CommandSlot(reliableSequence + i)] = new[i]

\* Commands that fit: each in its slot, and those the server has not executed stay.
LEMMA AddCommands ==
    ASSUME Commands, NEW new \in Seq(Asked), Fit(Len(new)), CL_AddReliableCommands(new),
           reliableAcknowledge' \in Nat, reliableAcknowledge' <= lastClientCommand
    PROVE  /\ reliableSequence' = reliableSequence + Len(new)
           /\ reliableSequence' \in Nat
           /\ reliableSequence' <= reliableAcknowledge' + MAX_RELIABLE_COMMANDS
           /\ reliableCommands' \in [Slots -> Asked]
           /\ GetsInRing(new) /\ StaysInRing
<1>1. PICK k \in Nat : k = Len(new) /\ DOMAIN new = 1 .. k /\ \A i \in 1 .. k : new[i] \in Asked
  OBVIOUS
<1>2. PICK r \in Nat, a \in Nat, l \in Nat, M \in Nat :
        /\ r = reliableSequence /\ a = reliableAcknowledge' /\ l = lastClientCommand
        /\ M = MAX_RELIABLE_COMMANDS /\ a <= l /\ l <= r
  BY ConstantsAssumption DEF Commands
<1>3. r + k <= a + M
  BY <1>1, <1>2 DEF Fit
<1>4. \A i \in 1 .. k : /\ r + i \in Nat /\ r < r + i
                         /\ a < r + i /\ r + i <= a + M
                         /\ \A j \in 1 .. k : r + i = r + j => i = j
  <2>1. a <= r
    BY <1>2
  <2>2. \A i \in 1 .. k : i \in Nat /\ 1 <= i /\ i <= k
    OBVIOUS
  <2>. QED
    BY <1>3, <2>1, <2>2
<1>5. reliableSequence' = r + k
  BY <1>1, <1>2 DEF CL_AddReliableCommands
<1> DEFINE own(s) == {i \in 1 .. k : CommandSlot(r + i) = s}
<1>6. reliableCommands' =
        [s \in Slots |-> IF own(s) = {} THEN reliableCommands[s] ELSE new[CHOOSE i \in own(s) : TRUE]]
  BY <1>1, <1>2 DEF Commands, CL_AddReliableCommands
<1>7. \A s : own(s) # {} => (CHOOSE i \in own(s) : TRUE) \in own(s)
  OBVIOUS
<1>8. reliableCommands' \in [Slots -> Asked]
  <2>1. ASSUME NEW s \in Slots
        PROVE  (IF own(s) = {} THEN reliableCommands[s] ELSE new[CHOOSE i \in own(s) : TRUE]) \in Asked
    <3>1. CASE own(s) = {}
      BY <3>1 DEF Commands
    <3>2. CASE own(s) # {}
      <4>1. (CHOOSE i \in own(s) : TRUE) \in 1 .. k
        BY <1>7, <3>2
      <4>. QED
        BY <1>1, <3>2, <4>1
    <3>. QED
      BY <3>1, <3>2
  <2>. QED
    BY <1>6, <2>1
<1>9. ASSUME NEW i \in 1 .. k
      PROVE  reliableCommands'[CommandSlot(r + i)] = new[i]
  <2>1. PICK s \in Slots : s = CommandSlot(r + i)
    BY SlotType
  <2>2. i \in own(s)
    BY <2>1
  <2>3. ASSUME NEW j \in own(s) PROVE j = i
    <3>1. j \in 1 .. k /\ CommandSlot(r + j) = s
      OBVIOUS
    <3>2. PICK m \in Nat, n \in Nat : m = r + i /\ n = r + j
      BY <1>4, <3>1
    <3>3. a < m /\ a < n /\ m <= a + M /\ n <= a + M
      BY <1>4, <3>1, <3>2
    <3>4. m = n
      BY <1>2, <2>1, <3>1, <3>2, <3>3, SlotInRange
    <3>. QED
      BY <1>4, <3>1, <3>2, <3>4
  <2>4. (CHOOSE j \in own(s) : TRUE) = i
    BY <1>7, <2>2, <2>3
  <2>. QED
    BY <1>6, <2>1, <2>2, <2>4
<1>10. ASSUME NEW n \in Nat, l < n, n <= r
      PROVE  reliableCommands'[CommandSlot(n)] = reliableCommands[CommandSlot(n)]
  <2>1. PICK s \in Slots : s = CommandSlot(n)
    BY SlotType
  <2>2. ASSUME NEW j \in own(s) PROVE FALSE
    <3>1. j \in 1 .. k /\ CommandSlot(r + j) = s
      OBVIOUS
    <3>2. PICK m \in Nat : m = r + j
      BY <1>4, <3>1
    <3>3. a < m /\ m <= a + M /\ r < m
      BY <1>4, <3>1, <3>2
    <3>4. a < n /\ n <= a + M /\ m # n
      <4>1. a <= l /\ l < n /\ n <= r
        BY <1>2, <1>10
      <4>. QED
        BY <1>3, <3>3, <4>1
    <3>. QED
      BY <1>2, <2>1, <3>1, <3>2, <3>3, <3>4, SlotInRange
  <2>3. own(s) = {}
    BY <2>2
  <2>. QED
    BY <1>6, <2>1, <2>3
<1>. QED
  BY <1>1, <1>2, <1>3, <1>5, <1>8, <1>9, <1>10 DEF GetsInRing, StaysInRing

--------------------------------------------------------------------------------
(* Packets and acknowledgements from one state to the next. *)

\* A packet stays sound while the server executes commands and the client adds some.
LEMMA SoundLater ==
    ASSUME Commands, NEW packet, SoundNow(packet),
           lastClientCommand' \in Nat, lastClientCommand <= lastClientCommand',
           reliableSequence' \in Nat, reliableSequence <= reliableSequence',
           StaysInRing
    PROVE  SoundNext(packet)
<1>1. SUFFICES ASSUME NEW n \in DOMAIN packet
               PROVE  /\ n \in Nat /\ n <= reliableSequence'
                      /\ packet[n] \in Asked
                      /\ n > lastClientCommand' => packet[n] = reliableCommands'[CommandSlot(n)]
                      /\ \A k \in lastClientCommand' + 1 .. n : k \in DOMAIN packet
  BY DEF Sound, SoundNext
<1>2. /\ n \in Nat /\ n <= reliableSequence
      /\ packet[n] \in Asked
      /\ n > lastClientCommand => packet[n] = reliableCommands[CommandSlot(n)]
      /\ \A k \in lastClientCommand + 1 .. n : k \in DOMAIN packet
  BY DEF Sound, SoundNow
<1>3. /\ lastClientCommand \in Nat /\ reliableSequence \in Nat
  BY DEF Commands
<1>4. PICK l \in Nat, m \in Nat : l = lastClientCommand /\ m = lastClientCommand'
  BY <1>3
<1>5. n \in Nat /\ l <= m
  BY <1>2, <1>4
<1>6. (n > m => l < n) /\ \A k \in m + 1 .. n : k \in l + 1 .. n
  BY <1>5
<1>7. n <= reliableSequence'
  BY <1>2, <1>3
<1>. QED
  BY <1>2, <1>4, <1>5, <1>6, <1>7 DEF StaysInRing

LEMMA PacketType ==
    ASSUME NEW numbers \in SUBSET Nat, NEW packet \in [numbers -> ClientCommand]
    PROVE  packet \in Packet
BY DEF Packet

\* All that the client has not got acknowledged is a sound packet.
LEMMA UnacknowledgedSound ==
    ASSUME Commands,
           reliableAcknowledge' \in Nat, reliableAcknowledge' <= lastClientCommand,
           lastClientCommand' = lastClientCommand,
           NEW new \in Seq(Asked),
           reliableSequence' \in Nat, reliableSequence + Len(new) <= reliableSequence',
           GetsInRing(new), StaysInRing
    PROVE  \E packet \in Packet : packet = Unacknowledged(new) /\ SoundNext(packet)
<1>0. PICK k \in Nat : k = Len(new) /\ DOMAIN new = 1 .. k /\ \A i \in 1 .. k : new[i] \in Asked
  OBVIOUS
<1>1. PICK r \in Nat, a \in Nat, l \in Nat :
        r = reliableSequence /\ a = reliableAcknowledge' /\ l = lastClientCommand
  BY DEF Commands
<1>2. a <= l /\ l <= r
  BY <1>1 DEF Commands
<1>3. \A i \in 1 .. k : new[i] \in Asked
  BY <1>0
<1>4. PICK packet :
        /\ packet = Unacknowledged(new)
        /\ packet = [n \in a + 1 .. r + k |->
                       IF n > r THEN new[n - r] ELSE reliableCommands[CommandSlot(n)]]
  BY <1>0, <1>1 DEF Unacknowledged
<1>5. \A n \in a + 1 .. r + k : n \in Nat /\ (n > r => n - r \in 1 .. k /\ r + (n - r) = n)
  BY <1>2
<1>6. \A n \in a + 1 .. r + k : packet[n] \in Asked
  <2>1. \A n \in Nat : reliableCommands[CommandSlot(n)] \in Asked
    BY SlotType DEF Commands
  <2>. QED
    BY <1>3, <1>4, <1>5, <2>1
<1>7. packet \in Packet
  <2>1. packet \in [a + 1 .. r + k -> ClientCommand]
    BY <1>4, <1>6 DEF Asked
  <2>2. a + 1 .. r + k \in SUBSET Nat
    OBVIOUS
  <2>. QED
    BY <2>1, <2>2, PacketType
<1>8. ASSUME NEW n \in a + 1 .. r + k
      PROVE  /\ n \in Nat /\ n <= r + k
             /\ packet[n] \in Asked
             /\ n > l => packet[n] = reliableCommands'[CommandSlot(n)]
             /\ \A i \in l + 1 .. n : i \in a + 1 .. r + k
  <2>1. n \in Nat /\ n <= r + k
    OBVIOUS
  <2>2. ASSUME n > r PROVE packet[n] = reliableCommands'[CommandSlot(n)]
    BY <1>0, <1>1, <1>4, <1>5, <2>2 DEF GetsInRing
  <2>3. ASSUME n > l, ~(n > r) PROVE packet[n] = reliableCommands'[CommandSlot(n)]
    <3>1. l < n /\ n <= r
      BY <2>3
    <3>. QED
      BY <1>1, <1>4, <2>1, <2>3, <3>1 DEF StaysInRing
  <2>4. \A i \in l + 1 .. n : i \in a + 1 .. r + k
    BY <1>2, <2>1
  <2>. QED
    BY <1>6, <2>1, <2>2, <2>3, <2>4
<1>9. SoundNext(packet)
  <2>1. DOMAIN packet = a + 1 .. r + k
    BY <1>4
  <2>2. r + k <= reliableSequence' /\ lastClientCommand' = l
    BY <1>0, <1>1
  <2>3. \A n \in a + 1 .. r + k : n <= reliableSequence'
    BY <2>2
  <2>. QED
    BY <1>8, <2>1, <2>2, <2>3 DEF Sound, SoundNext
<1>. QED
  BY <1>4, <1>7, <1>9

\* What is left of a channel after its i-th datagram arrived.
LEMMA AfterArrives ==
    ASSUME NEW S, NEW channel \in Seq(S), NEW i \in DOMAIN channel
    PROVE  /\ After(channel, i) \in Seq(S)
           /\ \A j \in DOMAIN After(channel, i) :
                j \in Nat /\ i + j \in DOMAIN channel /\ After(channel, i)[j] = channel[i + j]
           /\ i \in Nat \ {0}
<1>1. PICK n \in Nat : n = Len(channel) /\ i \in 1 .. n /\ DOMAIN channel = 1 .. n
  OBVIOUS
<1>2. i + 1 \in Int /\ n \in Int
  BY <1>1
<1>3. \A j \in i + 1 .. n : channel[j] \in S
  BY <1>1
<1>4. PICK rest : rest = SubSeq(channel, i + 1, n)
  OBVIOUS
<1>5. /\ rest \in Seq(S)
      /\ Len(rest) = IF i + 1 <= n THEN n - (i + 1) + 1 ELSE 0
      /\ \A j \in 1 .. n - (i + 1) + 1 : rest[j] = channel[(i + 1) + j - 1]
  BY <1>2, <1>3, <1>4, SubSeqProperties
<1>6. DOMAIN rest = 1 .. n - i
  BY <1>1, <1>5
<1>7. \A j \in 1 .. n - i : j \in Nat /\ i + j \in 1 .. n /\ rest[j] = channel[i + j]
  <2>1. \A j \in 1 .. n - i : j \in 1 .. n - (i + 1) + 1 /\ (i + 1) + j - 1 = i + j
    BY <1>1
  <2>2. \A j \in 1 .. n - i : j \in Nat /\ i + j \in 1 .. n
    BY <1>1
  <2>. QED
    BY <1>5, <2>1, <2>2
<1>. QED
  BY <1>1, <1>4, <1>5, <1>6, <1>7 DEF After

\* The steps of the server, and those of the client that add no command.
NoNewCommands ==
    /\ UNCHANGED commands
    /\ lastClientCommand' \in Nat
    /\ lastClientCommand <= lastClientCommand'
    /\ lastClientCommand' <= reliableSequence

LEMMA CommandsLater ==
    ASSUME Commands, NoNewCommands
    PROVE  Commands' /\ StaysInRing
<1>1. /\ reliableSequence' = reliableSequence /\ reliableAcknowledge' = reliableAcknowledge
      /\ reliableCommands' = reliableCommands
  BY DEF NoNewCommands, commands
<1>2. reliableAcknowledge <= lastClientCommand'
  BY DEF Commands, NoNewCommands
<1>. QED
  BY <1>1, <1>2 DEF Commands, NoNewCommands, StaysInRing

LEMMA AcksLater ==
    ASSUME Commands, Acks, NoNewCommands, UNCHANGED toClient
    PROVE  Acks'
<1>1. \A i \in DOMAIN toClient :
        toClient[i].ack \in Nat /\ reliableAcknowledge <= toClient[i].ack /\ toClient[i].ack <= lastClientCommand
  <2>1. \A i \in DOMAIN toClient : toClient[i] \in Message
    BY DEF Acks
  <2>2. \A m \in Message : m.ack \in Nat
    BY DEF Message
  <2>. QED
    BY <2>1, <2>2 DEF Acks
<1>2. lastClientCommand \in Nat
  BY DEF Commands
<1>3. \A i \in DOMAIN toClient : toClient[i].ack <= lastClientCommand'
  BY <1>1, <1>2 DEF NoNewCommands
<1>4. toClient' = toClient /\ reliableAcknowledge' = reliableAcknowledge
  BY DEF NoNewCommands, commands
<1>5. toClient' \in Seq(Message)
  BY <1>4 DEF Acks
<1>6. \A i \in DOMAIN toClient' :
        reliableAcknowledge' <= toClient'[i].ack /\ toClient'[i].ack <= lastClientCommand'
  BY <1>1, <1>3, <1>4
<1>7. \A i, j \in DOMAIN toClient' : i < j => toClient'[i].ack <= toClient'[j].ack
  BY <1>4 DEF Acks
<1>. QED
  BY <1>5, <1>6, <1>7 DEF Acks

--------------------------------------------------------------------------------
(* The server executes what the client said. *)

LEMMA ClientMessage ==
    ASSUME IInv, SV_ExecuteClientMessage
    PROVE  IInv'
<1>. USE DEF IInv
<1>1. PICK i \in DOMAIN toServer :
        /\ Arrives(toServer, i)
        /\ toServer' = After(toServer, i)
        /\ \/ UNCHANGED <<state, window, reading>>
           \/ /\ state' = "CS_ZOMBIE"
              /\ downloadName' = 0
              /\ download' = FALSE
              /\ UNCHANGED <<reading, downloadCurrentBlock, downloadClientBlock,
                             downloadXmitBlock, downloadBlocks>>
           \/ /\ reading' = [n \in Unread(toServer[i]) |-> toServer[i][n]]
              /\ UNCHANGED <<state, window>>
  BY Zenon DEF SV_ExecuteClientMessage
<1>2. UNCHANGED <<lastClientCommand, client, toClient, resends>>
  BY DEF SV_ExecuteClientMessage
<1>3. NoNewCommands
  BY <1>2 DEF NoNewCommands, Commands, client, commands
<1>4. Commands' /\ StaysInRing
  BY <1>3, CommandsLater
<1>5. Acks'
  BY <1>2, <1>3, AcksLater
<1>6. ServerType'
  <2>1. i \in Nat \ {0} /\ losses' \in 0 .. MaxLosses
    <3>1. i \in Nat \ {0}
      BY AfterArrives DEF Packets
    <3>. QED
      BY <1>1, <3>1, ConstantsAssumption DEF Arrives, ServerType
  <2>2. CASE UNCHANGED <<state, window>>
    BY <1>2, <2>1, <2>2 DEF ServerType, window
  <2>3. CASE /\ state' = "CS_ZOMBIE"
             /\ downloadName' = 0
             /\ download' = FALSE
             /\ UNCHANGED <<reading, downloadCurrentBlock, downloadClientBlock,
                            downloadXmitBlock, downloadBlocks>>
    BY <1>2, <2>1, <2>3 DEF ServerType
  <2>. QED
    BY <1>1, <2>2, <2>3
<1>7. ClientType'
  BY <1>2 DEF ClientType, client
<1>8. Packets'
  <2>1. /\ toServer' \in Seq(Packet)
        /\ \A j \in DOMAIN toServer' : \E k \in DOMAIN toServer : toServer'[j] = toServer[k]
    BY <1>1, AfterArrives DEF Packets
  <2>2. ASSUME NEW packet, SoundNow(packet) PROVE SoundNext(packet)
    BY <1>3, <1>4, <2>2, SoundLater DEF Commands, NoNewCommands, commands
  <2>3. \A j \in DOMAIN toServer' : SoundNext(toServer'[j])
    BY <2>1, <2>2 DEF Packets
  <2>4. SoundNext(reading')
    <3>1. CASE UNCHANGED reading
      BY <2>2, <3>1 DEF Packets
    <3>2. CASE reading' = [n \in Unread(toServer[i]) |-> toServer[i][n]]
      <4>1. PICK packet : packet = toServer[i] /\ SoundNow(packet)
        BY DEF Packets
      <4>2. PICK l \in Nat : l = lastClientCommand
        BY DEF Commands
      <4>3. PICK new : new = {n \in DOMAIN packet : n > l}
        OBVIOUS
      <4>4. PICK rest : rest = [n \in new |-> packet[n]] /\ rest = reading'
        BY <3>2, <4>1, <4>2, <4>3 DEF Unread
      <4>5. \A n \in DOMAIN rest : \A k \in l + 1 .. n : k \in new
        BY <4>1, <4>2, <4>3, <4>4 DEF Sound, SoundNow
      <4>6. SoundNow(rest)
        BY <4>1, <4>2, <4>3, <4>4, <4>5 DEF Sound, SoundNow
      <4>. QED
        BY <2>2, <4>4, <4>6
    <3>. QED
      BY <1>1, <3>1, <3>2
  <2>. QED
    BY <2>1, <2>3, <2>4 DEF Packets, SoundNow, SoundNext
<1>. QED
  BY <1>4, <1>5, <1>6, <1>7, <1>8

\* The next command of the packet is there, and asks for a file that there is.
LEMMA NextCommand ==
    ASSUME IInv, NEW name, Executes(name), reading' \in {reading, <<>>}
    PROVE  /\ Commands' /\ Acks' /\ Packets' /\ ClientType'
           /\ Argument \in Nat
           /\ name = "download" => Argument \in Files
<1>. USE DEF IInv
<1>1. PICK l \in Nat, r \in Nat :
        l = lastClientCommand /\ r = reliableSequence /\ lastClientCommand' = l + 1
  BY DEF Executes, Commands
<1>2. PICK n \in DOMAIN reading : n > l
  BY <1>1 DEF Executes, Unread
<1>3. l + 1 \in DOMAIN reading /\ n \in Nat /\ n <= r
  <2>1. n \in Nat /\ n <= r /\ \A k \in l + 1 .. n : k \in DOMAIN reading
    BY <1>1, <1>2 DEF Packets, SoundNow, Sound
  <2>. QED
    BY <1>2, <2>1
<1>4. reading[l + 1] \in Asked /\ reading[l + 1].name = name
  BY <1>1, <1>3 DEF Packets, SoundNow, Sound, Executes
<1>5. l <= l + 1 /\ l + 1 <= r
  BY <1>2, <1>3
<1>6. UNCHANGED <<client, toClient, toServer>>
  BY DEF Executes
<1>7. NoNewCommands
  BY <1>1, <1>5, <1>6 DEF NoNewCommands, client
<1>8. Commands' /\ StaysInRing
  BY <1>7, CommandsLater
<1>9. Acks'
  BY <1>6, <1>7, AcksLater
<1>10. ClientType'
  BY <1>6 DEF client, ClientType
<1>11. Packets'
  <2>1. ASSUME NEW packet, SoundNow(packet) PROVE SoundNext(packet)
    BY <1>7, <1>8, <2>1, SoundLater DEF Commands, NoNewCommands, commands
  <2>2. SoundNext(<<>>)
    BY DEF SoundNext, Sound
  <2>. QED
    BY <1>6, <2>1, <2>2 DEF Packets, SoundNow, SoundNext
<1>12. Argument \in Nat /\ (name = "download" => Argument \in Files)
  BY <1>1, <1>4 DEF Argument, Asked, ClientCommand
<1>. QED
  BY <1>8, <1>9, <1>10, <1>11, <1>12

LEMMA ExecuteCommand ==
    ASSUME IInv, SV_BeginDownload_f \/ SV_NextDownload_f \/ SV_StopDownload_f \/ SV_DoneDownload_f
    PROVE  IInv'
<1>1. CASE SV_BeginDownload_f
  <2>1. Commands' /\ Acks' /\ Packets' /\ ClientType' /\ Argument \in Files
    BY <1>1, NextCommand DEF SV_BeginDownload_f
  <2>2. ServerType'
    BY <1>1, <2>1 DEF SV_BeginDownload_f, Executes, IInv, ServerType
  <2>. QED
    BY <2>1, <2>2 DEF IInv
<1>2. CASE SV_NextDownload_f
  <2>1. Commands' /\ Acks' /\ Packets' /\ ClientType'
    BY <1>2, NextCommand DEF SV_NextDownload_f
  <2>2. /\ state' \in {"CS_PRIMED", "CS_ZOMBIE"}
        /\ \/ downloadName' = 0 /\ download' = FALSE
           \/ downloadName' = downloadName /\ download' = download
        /\ downloadClientBlock' \in Nat
    BY <1>2 DEF SV_NextDownload_f, SV_CloseDownload, IInv, ServerType
  <2>3. UNCHANGED <<downloadCurrentBlock, downloadXmitBlock, downloadBlocks, losses, resends>>
    BY <1>2 DEF SV_NextDownload_f, Executes
  <2>4. /\ downloadName' \in {0} \cup Files
        /\ download' \in BOOLEAN
        /\ download' => downloadName' # 0
    <3>1. CASE downloadName' = 0 /\ download' = FALSE
      BY <3>1
    <3>2. CASE downloadName' = downloadName /\ download' = download
      BY <3>2, Zenon DEF IInv, ServerType
    <3>. QED
      BY <2>2, <3>1, <3>2
  <2>5. ServerType'
    BY <2>2, <2>3, <2>4 DEF IInv, ServerType
  <2>. QED
    BY <2>1, <2>5 DEF IInv
<1>3. CASE SV_StopDownload_f
  <2>1. Commands' /\ Acks' /\ Packets' /\ ClientType'
    BY <1>3, NextCommand DEF SV_StopDownload_f
  <2>2. ServerType'
    BY <1>3 DEF SV_StopDownload_f, SV_CloseDownload, Executes, IInv, ServerType
  <2>. QED
    BY <2>1, <2>2 DEF IInv
<1>4. CASE SV_DoneDownload_f
  <2>1. Commands' /\ Acks' /\ Packets' /\ ClientType'
    BY <1>4, NextCommand DEF SV_DoneDownload_f
  <2>2. ServerType'
    BY <1>4 DEF SV_DoneDownload_f, Executes, IInv, ServerType
  <2>. QED
    BY <2>1, <2>2 DEF IInv
<1>. QED
  BY <1>1, <1>2, <1>3, <1>4

--------------------------------------------------------------------------------
(* The server sends. *)

\* A message to the client acknowledges what is executed.
LEMMA SendAcknowledges ==
    ASSUME IInv, NEW message \in Message, Send(message), message.ack = lastClientCommand,
           UNCHANGED <<commands, lastClientCommand, toServer, reading>>
    PROVE  Commands' /\ Acks' /\ Packets'
<1>. USE DEF IInv
<1>1. NoNewCommands
  BY DEF NoNewCommands, Commands
<1>2. Commands'
  BY <1>1, CommandsLater
<1>3. Packets'
  BY DEF Packets, SoundNow, commands
<1>4. PICK n \in Nat : n = Len(toClient) /\ DOMAIN toClient = 1 .. n
  BY DEF Acks
<1>5. PICK next : next = toClient'
  OBVIOUS
<1>6. /\ next \in Seq(Message)
      /\ DOMAIN next = 1 .. n + 1
      /\ \A i \in 1 .. n : next[i] = toClient[i]
      /\ next[n + 1] = message
  BY <1>4, <1>5 DEF Acks, Send
<1>7. PICK a \in Nat, l \in Nat : a = reliableAcknowledge /\ l = lastClientCommand /\ a <= l
  BY DEF Commands
<1>8. \A i \in 1 .. n + 1 : i \in 1 .. n \/ i = n + 1
  OBVIOUS
<1>9. \A i \in 1 .. n + 1 : a <= next[i].ack /\ next[i].ack <= l
  <2>1. \A i \in 1 .. n : a <= next[i].ack /\ next[i].ack <= l
    BY <1>4, <1>6, <1>7 DEF Acks
  <2>2. a <= next[n + 1].ack /\ next[n + 1].ack <= l
    BY <1>6, <1>7
  <2>. QED
    BY <1>8, <2>1, <2>2
<1>10. ASSUME NEW i \in 1 .. n + 1, NEW j \in 1 .. n + 1, i < j
       PROVE  next[i].ack <= next[j].ack
  <2>1. i \in 1 .. n
    BY <1>10
  <2>2. CASE j \in 1 .. n
    BY <1>4, <1>6, <1>10, <2>1, <2>2 DEF Acks
  <2>3. CASE j = n + 1
    BY <1>6, <1>7, <1>9, <2>1, <2>3
  <2>. QED
    BY <1>8, <2>2, <2>3
<1>11. Acks'
  <2>1. reliableAcknowledge' = a /\ lastClientCommand' = l /\ toClient' = next
    BY <1>5, <1>7 DEF commands
  <2>. QED
    BY <1>6, <1>9, <1>10, <2>1, Zenon DEF Acks
<1>. QED
  BY <1>2, <1>3, <1>11

LEMMA SendSnapshot ==
    ASSUME IInv, SV_SendClientSnapshot
    PROVE  IInv'
<1>1. PICK m : /\ m = [type |-> "snapshot", ack |-> lastClientCommand, number |-> 0, block |-> Unknown]
               /\ Send(m)
  BY DEF SV_SendClientSnapshot
<1>2. m \in Message /\ m.ack = lastClientCommand
  BY <1>1 DEF IInv, Commands, Message, Block, Unknown
<1>3. UNCHANGED <<server, client, toServer, losses, resends>>
  BY DEF SV_SendClientSnapshot
<1>4. Commands' /\ Acks' /\ Packets'
  BY <1>1, <1>2, <1>3, SendAcknowledges DEF server, client
<1>5. ServerType' /\ ClientType'
  BY <1>3 DEF IInv, ServerType, ClientType, server, client, window
<1>. QED
  BY <1>4, <1>5 DEF IInv

\* The window after reading ahead.
LEMMA ReadAheadType ==
    ASSUME ServerType, downloadName \in Files, NEW current \in Nat, NEW clientBlock \in Nat,
           ReadAhead(current, clientBlock)
    PROVE  /\ downloadCurrentBlock' \in Nat
           /\ downloadBlocks' \in [0 .. MAX_DOWNLOAD_WINDOW - 1 -> Block]
           /\ downloadClientBlock' = clientBlock
           /\ download' = TRUE
<1>1. PICK last \in Nat : last = Limit(clientBlock) /\ Read(current, last)
  <2>1. Blocks[downloadName] \in Nat
    BY ConstantsAssumption DEF Files
  <2>2. Limit(clientBlock) \in Nat
    BY <2>1, ConstantsAssumption DEF Limit, Ahead
  <2>. QED
    BY <2>2 DEF ReadAhead
<1>2. downloadCurrentBlock' = last
  BY <1>1 DEF Read
<1> DEFINE own(s) == {n \in current .. last - 1 : WindowSlot(n) = s}
<1>3. downloadBlocks' =
        [s \in 0 .. MAX_DOWNLOAD_WINDOW - 1 |->
            IF own(s) = {} THEN downloadBlocks[s]
            ELSE [file |-> downloadName, number |-> CHOOSE n \in own(s) : TRUE]]
  BY <1>1 DEF Read, ServerType
<1>4. ASSUME NEW s \in 0 .. MAX_DOWNLOAD_WINDOW - 1
      PROVE  (IF own(s) = {} THEN downloadBlocks[s]
              ELSE [file |-> downloadName, number |-> CHOOSE n \in own(s) : TRUE]) \in Block
  <2>1. CASE own(s) = {}
    BY <2>1 DEF ServerType
  <2>2. CASE own(s) # {}
    <3>1. (CHOOSE n \in own(s) : TRUE) \in own(s)
      BY <2>2
    <3>2. own(s) \subseteq Nat
      OBVIOUS
    <3>3. downloadName \in Nat
      BY ConstantsAssumption DEF Files
    <3>. QED
      BY <2>2, <3>1, <3>2, <3>3 DEF Block
  <2>. QED
    BY <2>1, <2>2
<1>5. downloadBlocks' \in [0 .. MAX_DOWNLOAD_WINDOW - 1 -> Block]
  BY <1>3, <1>4
<1>. QED
  BY <1>2, <1>5 DEF ReadAhead

\* What sending one block of the window leaves.
LEMMA TransmitType ==
    ASSUME IInv, NEW xmit \in Nat, Transmit(xmit),
           downloadCurrentBlock' \in Nat, downloadClientBlock' \in Nat,
           downloadBlocks' \in [0 .. MAX_DOWNLOAD_WINDOW - 1 -> Block],
           UNCHANGED <<commands, lastClientCommand, toServer, reading>>
    PROVE  /\ downloadXmitBlock' \in Nat
           /\ resends' \in 0 .. MaxResends + MaxLosses
           /\ Commands' /\ Acks' /\ Packets'
<1>. USE DEF IInv
<1>1. ASSUME NEW n \in Nat, SendBlock(n) PROVE Commands' /\ Acks' /\ Packets'
  <2>1. downloadBlocks'[WindowSlot(n)] \in Block
    BY SlotType
  <2>2. PICK m : /\ m = [type |-> "block", ack |-> lastClientCommand, number |-> n,
                         block |-> downloadBlocks'[WindowSlot(n)]]
                 /\ Send(m)
    BY <1>1 DEF SendBlock
  <2>3. m \in Message /\ m.ack = lastClientCommand
    BY <2>1, <2>2 DEF Commands, Message
  <2>. QED
    BY <2>2, <2>3, SendAcknowledges
<1>2. CASE downloadXmitBlock' = xmit /\ UNCHANGED <<toClient, resends>>
  <2>1. NoNewCommands
    BY DEF NoNewCommands, Commands
  <2>2. Packets'
    BY DEF Packets, SoundNow, commands
  <2>. QED
    BY <1>2, <2>1, <2>2, CommandsLater, AcksLater DEF ServerType
<1>3. CASE SendBlock(xmit) /\ downloadXmitBlock' = xmit + 1 /\ UNCHANGED resends
  BY <1>1, <1>3 DEF ServerType
<1>4. CASE /\ resends < MaxResends + losses
           /\ resends' = resends + 1
           /\ SendBlock(downloadClientBlock')
           /\ downloadXmitBlock' = downloadClientBlock' + 1
  <2>1. resends' \in 0 .. MaxResends + MaxLosses
    BY <1>4, ConstantsAssumption DEF ServerType
  <2>2. PICK n \in Nat : n = downloadClientBlock'
    OBVIOUS
  <2>3. Commands' /\ Acks' /\ Packets'
    BY <1>1, <1>4, <2>2
  <2>4. downloadXmitBlock' = n + 1
    BY <1>4, <2>2
  <2>5. downloadXmitBlock' \in Nat
    BY <2>4
  <2>. QED
    BY <2>1, <2>3, <2>5
<1>. QED
  BY <1>2, <1>3, <1>4 DEF Transmit

LEMMA SendDownload ==
    ASSUME IInv, SV_SendDownloadMessages
    PROVE  IInv'
<1>. USE DEF IInv
<1>1. UNCHANGED <<state, lastClientCommand, reading, client, toServer, losses>>
  BY DEF SV_SendDownloadMessages
<1>2. UNCHANGED commands /\ ClientType'
  BY <1>1 DEF client, ClientType
<1>3. downloadName \in Files
  BY DEF SV_SendDownloadMessages, ServerType
<1>4. CASE Refuse
  <2>1. PICK m : /\ m = [type |-> "refusal", ack |-> lastClientCommand, number |-> 0, block |-> Unknown]
                 /\ Send(m)
    BY <1>4 DEF Refuse
  <2>2. m \in Message /\ m.ack = lastClientCommand
    BY <2>1 DEF Commands, Message, Block, Unknown
  <2>3. Commands' /\ Acks' /\ Packets'
    BY <1>1, <1>2, <2>1, <2>2, SendAcknowledges
  <2>4. ServerType'
    BY <1>1, <1>4 DEF Refuse, ServerType
  <2>. QED
    BY <1>2, <2>3, <2>4
<1>5. ASSUME NEW current \in Nat, NEW clientBlock \in Nat, NEW xmit \in Nat,
             ReadAhead(current, clientBlock), Transmit(xmit), UNCHANGED downloadName
      PROVE  IInv'
  <2>1. /\ downloadCurrentBlock' \in Nat
        /\ downloadBlocks' \in [0 .. MAX_DOWNLOAD_WINDOW - 1 -> Block]
        /\ downloadClientBlock' = clientBlock
        /\ download' = TRUE
    BY <1>3, <1>5, ReadAheadType
  <2>2. /\ downloadXmitBlock' \in Nat
        /\ resends' \in 0 .. MaxResends + MaxLosses
        /\ Commands' /\ Acks' /\ Packets'
    BY <1>1, <1>2, <1>5, <2>1, TransmitType
  <2>3. downloadName' # 0
    BY <1>5 DEF SV_SendDownloadMessages
  <2>4. UNCHANGED <<state, losses, downloadName>> /\ downloadClientBlock' \in Nat
    BY <1>1, <1>5, <2>1
  <2>5. ServerType'
    BY <2>1, <2>2, <2>3, <2>4 DEF ServerType
  <2>. QED
    BY <1>2, <2>2, <2>5
<1>6. CASE ReadAhead(0, 0) /\ Transmit(0) /\ UNCHANGED downloadName
  BY <1>5, <1>6
<1>7. CASE /\ ReadAhead(downloadCurrentBlock, downloadClientBlock)
           /\ Transmit(downloadXmitBlock) /\ UNCHANGED downloadName
  <2>1. downloadCurrentBlock \in Nat /\ downloadClientBlock \in Nat /\ downloadXmitBlock \in Nat
    BY DEF ServerType
  <2>. QED
    BY <1>5, <1>7, <2>1
<1>. QED
  BY <1>4, <1>6, <1>7 DEF SV_SendDownloadMessages

--------------------------------------------------------------------------------
(* The client. *)

LEMMA WritePacket ==
    ASSUME IInv, CL_WritePacket
    PROVE  IInv'
<1>. USE DEF IInv
<1>1. UNCHANGED <<server, client, toClient, losses, resends>>
  BY DEF CL_WritePacket
<1>2. ServerType' /\ ClientType'
  BY <1>1 DEF server, window, client, ServerType, ClientType
<1>3. NoNewCommands
  BY <1>1 DEF NoNewCommands, Commands, server, client
<1>4. Commands' /\ Acks' /\ StaysInRing
  BY <1>1, <1>3, CommandsLater, AcksLater
<1>5. PICK packet \in Packet : packet = Unacknowledged(<<>>) /\ SoundNext(packet)
  <2>1. reliableAcknowledge' \in Nat /\ reliableAcknowledge' <= lastClientCommand
    BY <1>3 DEF NoNewCommands, commands, Commands
  <2>2. lastClientCommand' = lastClientCommand
    BY <1>1 DEF server
  <2>3. reliableSequence' \in Nat /\ reliableSequence + Len(<<>>) <= reliableSequence'
    BY <1>3 DEF NoNewCommands, commands, Commands
  <2>4. <<>> \in Seq(Asked) /\ GetsInRing(<<>>)
    BY DEF GetsInRing
  <2>. QED
    BY <1>4, <2>1, <2>2, <2>3, <2>4, UnacknowledgedSound
<1>6. toServer' = Append(toServer, packet)
  <2>1. PICK a \in Nat, r \in Nat :
          a = reliableAcknowledge /\ r = reliableSequence /\ reliableAcknowledge' = a
    BY <1>3 DEF NoNewCommands, commands, Commands
  <2>2. \A n \in a + 1 .. r : ~(n > r)
    OBVIOUS
  <2>3. Len(<<>>) = 0 /\ r + 0 = r
    OBVIOUS
  <2>4. packet = [n \in a + 1 .. r |-> reliableCommands[CommandSlot(n)]]
    BY <1>5, <2>1, <2>2, <2>3 DEF Unacknowledged
  <2>. QED
    BY <2>1, <2>4 DEF CL_WritePacket
<1>7. Packets'
  <2>1. ASSUME NEW p, SoundNow(p) PROVE SoundNext(p)
    BY <1>3, <1>4, <2>1, SoundLater DEF Commands, NoNewCommands, commands
  <2>2. toServer' \in Seq(Packet)
    BY <1>6 DEF Packets
  <2>3. \A i \in DOMAIN toServer' : SoundNext(toServer'[i])
    <3>1. \A i \in DOMAIN toServer' :
            (i \in DOMAIN toServer /\ toServer'[i] = toServer[i]) \/ toServer'[i] = packet
      BY <1>6 DEF Packets
    <3>. QED
      BY <1>5, <2>1, <3>1 DEF Packets
  <2>4. reading' = reading
    BY <1>1 DEF server
  <2>. QED
    BY <2>1, <2>2, <2>3, <2>4 DEF Packets, SoundNow, SoundNext
<1>. QED
  BY <1>2, <1>4, <1>7

\* The client reads the header of a message: what it acknowledges is what the message says, since
\* the ring holds no more than a round.
Reads(i) ==
    /\ Arrives(toClient, i)
    /\ toClient' = After(toClient, i)
    /\ reliableAcknowledge' = Acknowledged(toClient[i].ack)
    /\ UNCHANGED <<server, resends>>

LEMMA ReadsHeader ==
    ASSUME IInv, NEW i \in DOMAIN toClient, Reads(i)
    PROVE  /\ toClient[i] \in Message
           /\ reliableAcknowledge' \in Nat
           /\ reliableAcknowledge' <= lastClientCommand
           /\ lastClientCommand' = lastClientCommand /\ reading' = reading
           /\ ServerType' /\ Acks'
<1>. USE DEF IInv
<1>1. UNCHANGED <<server, resends>>
  BY DEF Reads
<1>2. toClient[i] \in Message
  BY DEF Acks
<1>3. PICK a \in Nat, l \in Nat, r \in Nat, k \in Nat, M \in Nat :
        /\ a = reliableAcknowledge /\ l = lastClientCommand /\ r = reliableSequence
        /\ k = toClient[i].ack /\ M = MAX_RELIABLE_COMMANDS
        /\ r <= a + M
  BY <1>2, ConstantsAssumption DEF Commands, Message
<1>4. a <= k /\ k <= l
  BY <1>3 DEF Acks
<1>5. ~(k + M < r)
  BY <1>3, <1>4
<1>6. reliableAcknowledge' = k
  BY <1>3, <1>5 DEF Reads, Acknowledged
<1>7. ServerType'
  <2>1. i \in Nat \ {0}
    BY AfterArrives DEF Acks
  <2>2. losses' \in 0 .. MaxLosses
    BY <2>1, ConstantsAssumption DEF Reads, Arrives, ServerType
  <2>. QED
    BY <1>1, <2>2 DEF ServerType, server, window
<1>8. Acks'
  <2>1. PICK next : next = toClient'
    OBVIOUS
  <2>2. /\ next \in Seq(Message)
        /\ \A j \in DOMAIN next : j \in Nat /\ i + j \in DOMAIN toClient /\ next[j] = toClient[i + j]
        /\ i \in Nat \ {0}
    BY <2>1, AfterArrives DEF Acks, Reads
  <2>3. \A j \in DOMAIN next : k <= next[j].ack /\ next[j].ack <= l
    <3>1. \A j \in DOMAIN next : i < i + j
      <4>1. \A j \in DOMAIN next : j > 0
        BY <2>2
      <4>. QED
        BY <2>2, <4>1
    <3>. QED
      BY <1>3, <2>2, <3>1 DEF Acks
  <2>4. ASSUME NEW h \in DOMAIN next, NEW j \in DOMAIN next, h < j
        PROVE  next[h].ack <= next[j].ack
    <3>1. i + h < i + j
      BY <2>2, <2>4
    <3>. QED
      BY <2>2, <3>1 DEF Acks
  <2>5. toClient' = next /\ lastClientCommand' = l
    BY <1>1, <1>3, <2>1 DEF server
  <2>. QED
    BY <1>6, <2>2, <2>3, <2>4, <2>5 DEF Acks
<1>. QED
  BY <1>1, <1>2, <1>3, <1>4, <1>6, <1>7, <1>8 DEF server

\* The client adds commands that fit.
LEMMA AddsCommands ==
    ASSUME IInv, NEW i \in DOMAIN toClient, Reads(i),
           NEW new \in Seq(Asked), Fit(Len(new)), CL_AddReliableCommands(new)
    PROVE  /\ Commands' /\ GetsInRing(new) /\ StaysInRing
           /\ reliableSequence' = reliableSequence + Len(new) /\ reliableSequence' \in Nat
           /\ \A packet : SoundNow(packet) => SoundNext(packet)
<1>. USE DEF IInv
<1>1. /\ reliableAcknowledge' \in Nat /\ reliableAcknowledge' <= lastClientCommand
      /\ lastClientCommand' = lastClientCommand
  BY ReadsHeader
<1>2. /\ reliableSequence' = reliableSequence + Len(new)
      /\ reliableSequence' \in Nat
      /\ reliableSequence' <= reliableAcknowledge' + MAX_RELIABLE_COMMANDS
      /\ reliableCommands' \in [Slots -> Asked]
      /\ GetsInRing(new) /\ StaysInRing
  BY <1>1, AddCommands
<1>3. PICK k \in Nat : k = Len(new)
  OBVIOUS
<1>4. reliableSequence <= reliableSequence' /\ lastClientCommand <= reliableSequence'
  BY <1>2, <1>3 DEF Commands
<1>5. Commands'
  BY <1>1, <1>2, <1>4 DEF Commands
<1>6. ASSUME NEW packet, SoundNow(packet) PROVE SoundNext(packet)
  <2>1. lastClientCommand' \in Nat /\ lastClientCommand <= lastClientCommand'
    BY <1>1 DEF Commands
  <2>. QED
    BY <1>2, <1>4, <1>6, <2>1, SoundLater
<1>. QED
  BY <1>2, <1>5, <1>6

\* All that an arrival may do to the client's own state is of the right type.
Commits ==
    /\ Commands' /\ Packets'
    /\ connected' \in BOOLEAN
    /\ wanted' \in {0} \cup Files
    /\ downloadBlock' \in Nat
    /\ received' \in Seq(Block)
    /\ kept' \in 0 .. Len(Blocks)

LEMMA Stays ==
    ASSUME IInv, NEW i \in DOMAIN toClient, Reads(i), Stay, connected' \in BOOLEAN
    PROVE  Commits
<1>. USE DEF IInv
<1>1. /\ reliableAcknowledge' \in Nat /\ reliableAcknowledge' <= lastClientCommand
      /\ lastClientCommand' = lastClientCommand /\ reading' = reading
  BY ReadsHeader
<1>2. UNCHANGED <<reliableSequence, reliableCommands, toServer>>
  BY DEF Stay
<1>3. reliableAcknowledge <= reliableAcknowledge'
  <2>1. PICK a \in Nat, k \in Nat, r \in Nat, M \in Nat :
          /\ a = reliableAcknowledge /\ k = toClient[i].ack /\ r = reliableSequence
          /\ M = MAX_RELIABLE_COMMANDS /\ r <= a + M
    BY ReadsHeader, ConstantsAssumption DEF Commands, Message
  <2>2. a <= k
    BY <2>1 DEF Acks
  <2>. QED
    BY <2>1, <2>2 DEF Reads, Acknowledged
<1>4. Commands'
  <2>1. PICK a \in Nat, b \in Nat, r \in Nat, M \in Nat :
          /\ a = reliableAcknowledge /\ b = reliableAcknowledge' /\ r = reliableSequence
          /\ M = MAX_RELIABLE_COMMANDS
    BY <1>1, ConstantsAssumption DEF Commands
  <2>2. a <= b /\ r <= a + M
    BY <1>3, <2>1 DEF Commands
  <2>3. r <= b + M
    BY <2>2
  <2>. QED
    BY <1>1, <1>2, <2>1, <2>3 DEF Commands
<1>5. Packets'
  BY <1>1, <1>2 DEF Packets, SoundNow
<1>. QED
  BY <1>4, <1>5 DEF Commits, Stay, ClientType

LEMMA OneTwo ==
    ASSUME NEW a \in Asked, NEW b \in Asked
    PROVE  /\ <<a>> \in Seq(Asked) /\ Len(<<a>>) = 1 /\ <<a>>[1] = a
           /\ <<a, b>> \in Seq(Asked) /\ Len(<<a, b>>) = 2
           /\ <<a, b>>[1] = a /\ <<a, b>>[2] = b
OBVIOUS

\* The client acknowledges a block: at the end of a file in two packets at once, before it adds
\* the command for what it wants next.
LEMMA TakesBlock ==
    ASSUME IInv, NEW i \in DOMAIN toClient, Reads(i), wanted # 0,
           NEW block \in Block, Take(block)
    PROVE  Commits
<1>. USE DEF IInv
<1>1. PICK nextdl \in Asked : nextdl = Command("nextdl", downloadBlock)
  BY DEF Command, Asked, ClientCommand, ClientType
<1>2. /\ reliableAcknowledge' \in Nat /\ reliableAcknowledge' <= lastClientCommand
      /\ lastClientCommand' = lastClientCommand /\ reading' = reading
  BY ReadsHeader
<1>3. <<nextdl>> \in Seq(Asked) /\ Len(<<nextdl>>) = 1
  OBVIOUS
<1>4. CASE Leave
  BY <1>4, Stays DEF Leave
<1>5. CASE /\ Fit(1)
           /\ received' = Append(received, block)
           /\ downloadBlock' = downloadBlock + 1
           /\ CL_AddReliableCommands(<<nextdl>>)
           /\ UNCHANGED <<connected, wanted, kept, toServer>>
  <2>1. /\ Commands' /\ \A packet : SoundNow(packet) => SoundNext(packet)
    BY <1>3, <1>5, AddsCommands
  <2>2. Packets'
    BY <1>2, <1>5, <2>1 DEF Packets, SoundNow, SoundNext
  <2>3. received' \in Seq(Block) /\ downloadBlock' \in Nat
    BY <1>5 DEF ClientType
  <2>. QED
    BY <1>5, <2>1, <2>2, <2>3 DEF Commits, ClientType
<1>6. ASSUME NEW new \in Seq(Asked), Fit(Len(new)), CL_AddReliableCommands(new),
             Len(new) >= 1, new[1] = nextdl,
             toServer' = toServer \o [j \in 1 .. 2 |-> Unacknowledged(<<nextdl>>)]
      PROVE  Commands' /\ Packets'
  <2>1. /\ Commands' /\ GetsInRing(new) /\ StaysInRing
        /\ reliableSequence' = reliableSequence + Len(new) /\ reliableSequence' \in Nat
        /\ \A packet : SoundNow(packet) => SoundNext(packet)
    BY <1>6, AddsCommands
  <2>2. GetsInRing(<<nextdl>>)
    <3>1. 1 \in 1 .. Len(new)
      BY <1>6
    <3>2. reliableCommands'[CommandSlot(reliableSequence + 1)] = nextdl
      BY <1>6, <2>1, <3>1 DEF GetsInRing
    <3>3. \A j \in 1 .. 1 : j = 1
      OBVIOUS
    <3>. QED
      BY <1>3, <3>2, <3>3 DEF GetsInRing
  <2>3. reliableSequence + Len(<<nextdl>>) <= reliableSequence'
    <3>1. PICK k \in Nat, r \in Nat : k = Len(new) /\ r = reliableSequence /\ k >= 1
      BY <1>6 DEF Commands
    <3>. QED
      BY <1>3, <2>1, <3>1
  <2>4. PICK packet \in Packet : packet = Unacknowledged(<<nextdl>>) /\ SoundNext(packet)
    BY <1>2, <1>3, <2>1, <2>2, <2>3, UnacknowledgedSound
  <2>5. PICK two : two = [j \in 1 .. 2 |-> packet] /\ toServer' = toServer \o two
    BY <1>6, <2>4
  <2>6. two \in Seq(Packet)
    BY <2>5
  <2>7. toServer' \in Seq(Packet)
    BY <2>5, <2>6 DEF Packets
  <2>8. \A j \in DOMAIN toServer' :
          (j \in DOMAIN toServer /\ toServer'[j] = toServer[j]) \/ toServer'[j] = packet
    <3>1. Len(two) = 2
      BY <2>5
    <3>2. \A k \in 1 .. 2 : two[k] = packet
      BY <2>5
    <3>3. PICK n \in Nat : n = Len(toServer) /\ DOMAIN toServer = 1 .. n
      BY DEF Packets
    <3>4. /\ DOMAIN toServer' = 1 .. n + 2
          /\ \A j \in 1 .. n + 2 : toServer'[j] = IF j <= n THEN toServer[j] ELSE two[j - n]
      BY <2>5, <2>6, <3>1, <3>3, ConcatProperties DEF Packets
    <3>5. \A j \in 1 .. n + 2 : ~(j <= n) => j - n \in 1 .. 2
      BY <3>3
    <3>. QED
      BY <3>2, <3>3, <3>4, <3>5
  <2>9. \A j \in DOMAIN toServer' : SoundNext(toServer'[j])
    BY <2>1, <2>4, <2>8 DEF Packets
  <2>. QED
    BY <1>2, <2>1, <2>7, <2>9 DEF Packets, SoundNow, SoundNext
<1>7. CASE /\ Fit(1)
           /\ toServer' = toServer \o [j \in 1 .. 2 |-> Unacknowledged(<<nextdl>>)]
           /\ CL_NextDownload(nextdl)
  <2>1. CASE /\ connected' = FALSE
             /\ CL_AddReliableCommands(<<nextdl>>)
             /\ UNCHANGED <<wanted, downloadBlock, received, kept>>
    <3>1. PICK new \in Seq(Asked) : new = <<nextdl>> /\ Len(new) = 1 /\ new[1] = nextdl
      BY OneTwo
    <3>2. Fit(Len(new)) /\ CL_AddReliableCommands(new) /\ Len(new) >= 1
      BY <1>7, <2>1, <3>1
    <3>3. Commands' /\ Packets'
      BY <1>6, <1>7, <3>1, <3>2
    <3>. QED
      BY <2>1, <3>3 DEF Commits, ClientType
  <2>2. CASE /\ Fit(2)
             /\ kept' = wanted
             /\ received' = <<>>
             /\ UNCHANGED connected
             /\ wanted + 1 \in Files
             /\ wanted' = wanted + 1
             /\ downloadBlock' = 0
             /\ CL_AddReliableCommands(<<nextdl, Command("download", wanted + 1)>>)
    <3>1. PICK other \in Asked : other = Command("download", wanted + 1)
      BY <2>2, ConstantsAssumption DEF Command, Asked, ClientCommand, Files
    <3>2. PICK new \in Seq(Asked) : new = <<nextdl, other>> /\ Len(new) = 2 /\ new[1] = nextdl
      BY OneTwo
    <3>3. Fit(Len(new)) /\ CL_AddReliableCommands(new) /\ Len(new) >= 1
      BY <2>2, <3>1, <3>2
    <3>4. Commands' /\ Packets'
      BY <1>6, <1>7, <3>2, <3>3
    <3>5. kept' \in 0 .. Len(Blocks)
      BY <2>2, ConstantsAssumption DEF ClientType, Files
    <3>. QED
      BY <2>2, <3>4, <3>5 DEF Commits, ClientType
  <2>3. CASE /\ Fit(2)
             /\ kept' = wanted
             /\ received' = <<>>
             /\ UNCHANGED connected
             /\ wanted' = 0
             /\ downloadBlock' = downloadBlock + 1
             /\ CL_AddReliableCommands(<<nextdl, Command("donedl", 0)>>)
    <3>1. PICK other \in Asked : other = Command("donedl", 0)
      BY DEF Command, Asked, ClientCommand
    <3>2. PICK new \in Seq(Asked) : new = <<nextdl, other>> /\ Len(new) = 2 /\ new[1] = nextdl
      BY OneTwo
    <3>3. Fit(Len(new)) /\ CL_AddReliableCommands(new) /\ Len(new) >= 1
      BY <2>3, <3>1, <3>2
    <3>4. Commands' /\ Packets'
      BY <1>6, <1>7, <3>2, <3>3
    <3>5. kept' \in 0 .. Len(Blocks)
      BY <2>3, ConstantsAssumption DEF ClientType, Files
    <3>6. downloadBlock' \in Nat
      BY <2>3 DEF ClientType
    <3>. QED
      BY <2>3, <3>4, <3>5, <3>6 DEF Commits, ClientType
  <2>. QED
    BY <1>7, <2>1, <2>2, <2>3 DEF CL_NextDownload
<1>. QED
  BY <1>1, <1>4, <1>5, <1>7 DEF Take

LEMMA ParsesDownload ==
    ASSUME IInv, NEW i \in DOMAIN toClient, Reads(i), CL_ParseDownload(toClient[i])
    PROVE  Commits /\ blockZero' \in BOOLEAN
<1>. USE DEF IInv
<1>1. toClient[i].block \in Block /\ Unknown \in Block
  BY ReadsHeader DEF Message, Block, Unknown
<1>2. blockZero' \in BOOLEAN
  BY Zenon DEF CL_ParseDownload, ClientType
<1>3. ASSUME Leave \/ Ignore PROVE Commits
  <2>1. Stay /\ connected' \in BOOLEAN
    BY <1>3 DEF Leave, Ignore, ClientType
  <2>. QED
    BY <2>1, Stays
<1>4. ASSUME Unasked PROVE Commits
  <2>1. CASE Leave
    BY <1>3, <2>1
  <2>2. CASE /\ Fit(1)
             /\ connected' \in BOOLEAN
             /\ CL_AddReliableCommands(<<Command("stopdl", 0)>>)
             /\ UNCHANGED <<wanted, downloadBlock, received, kept, toServer>>
    <3>1. PICK c \in Asked : c = Command("stopdl", 0)
      BY DEF Command, Asked, ClientCommand
    <3>2. PICK new \in Seq(Asked) : new = <<c>> /\ Len(new) = 1
      BY OneTwo
    <3>3. Fit(Len(new)) /\ CL_AddReliableCommands(new)
      BY <2>2, <3>1, <3>2
    <3>4. Commands' /\ \A packet : SoundNow(packet) => SoundNext(packet)
      BY <3>3, AddsCommands
    <3>5. reading' = reading
      BY ReadsHeader
    <3>6. Packets'
      BY <2>2, <3>4, <3>5 DEF Packets, SoundNow, SoundNext
    <3>. QED
      BY <2>2, <3>4, <3>6 DEF Commits, ClientType
  <2>. QED
    BY <1>4, <2>1, <2>2 DEF Unasked
<1>5. \/ Unasked
      \/ Leave \/ Ignore
      \/ wanted # 0 /\ Take(Unknown)
      \/ wanted # 0 /\ Take(toClient[i].block)
  BY Zenon DEF CL_ParseDownload
<1>. QED
  BY <1>1, <1>2, <1>3, <1>4, <1>5, TakesBlock

LEMMA ParseServerMessage ==
    ASSUME IInv, CL_ParseServerMessage
    PROVE  IInv'
<1>1. PICK i \in DOMAIN toClient :
        /\ Reads(i)
        /\ \/ Ignore /\ UNCHANGED blockZero
           \/ CL_ParseDownload(toClient[i])
  BY Zenon DEF CL_ParseServerMessage, Reads
<1>2. ServerType' /\ Acks'
  BY <1>1, ReadsHeader
<1>3. Commits /\ blockZero' \in BOOLEAN
  <2>1. CASE Ignore /\ UNCHANGED blockZero
    <3>1. Stay /\ connected' \in BOOLEAN /\ blockZero' \in BOOLEAN
      BY <2>1 DEF Ignore, IInv, ClientType
    <3>. QED
      BY <1>1, <3>1, Stays
  <2>2. CASE CL_ParseDownload(toClient[i])
    BY <1>1, <2>2, ParsesDownload
  <2>. QED
    BY <1>1, <2>1, <2>2
<1>4. ClientType' /\ Commands' /\ Packets'
  BY <1>3 DEF Commits, ClientType
<1>. QED
  BY <1>2, <1>4 DEF IInv

--------------------------------------------------------------------------------
(* The invariant, and what follows from it. *)

LEMMA InitInv ==
    ASSUME Init
    PROVE  IInv
<1>. USE DEF Init
<1>1. 1 \in Files /\ Len(Blocks) \in Nat /\ Files = 1 .. Len(Blocks)
  BY ConstantsAssumption DEF Files
<1>2. ServerType
  <2>1. Unknown \in Block
    BY DEF Block, Unknown
  <2>2. downloadBlocks \in [0 .. MAX_DOWNLOAD_WINDOW - 1 -> Block]
    BY <2>1
  <2>3. losses \in 0 .. MaxLosses /\ resends \in 0 .. MaxResends + MaxLosses
    BY ConstantsAssumption
  <2>. QED
    BY <2>2, <2>3 DEF ServerType
<1>3. ClientType
  <2>1. wanted \in {0} \cup Files
    BY <1>1
  <2>2. kept \in 0 .. Len(Blocks)
    BY <1>1
  <2>3. received \in Seq(Block)
    OBVIOUS
  <2>. QED
    BY <2>1, <2>2, <2>3 DEF ClientType
<1>4. Commands
  <2>1. Command("download", 1) \in Asked /\ Command("none", 0) \in Asked
    BY <1>1 DEF Command, Asked, ClientCommand
  <2>2. reliableCommands \in [Slots -> Asked]
    BY <2>1 DEF Slots
  <2>. QED
    BY <2>2, ConstantsAssumption DEF Commands
<1>5. Acks
  <2>1. toClient \in Seq(Message) /\ DOMAIN toClient = {}
    OBVIOUS
  <2>. QED
    BY <2>1, Zenon DEF Acks
<1>6. Packets
  <2>1. toServer \in Seq(Packet) /\ DOMAIN toServer = {} /\ DOMAIN reading = {}
    OBVIOUS
  <2>2. SoundNow(reading)
    BY <2>1, Zenon DEF SoundNow, Sound
  <2>. QED
    BY <2>1, <2>2, Zenon DEF Packets
<1>. QED
  BY <1>2, <1>3, <1>4, <1>5, <1>6 DEF IInv

LEMMA NextInv ==
    ASSUME IInv, [Next]_vars
    PROVE  IInv'
<1>1. CASE UNCHANGED vars
  BY <1>1 DEF vars, server, window, commands, client, IInv, ServerType, ClientType, Commands, Acks,
              Packets, SoundNow
<1>2. CASE SV_Execute
  BY <1>2, ClientMessage, ExecuteCommand DEF SV_Execute
<1>3. CASE SV_SendClientSnapshot
  BY <1>3, SendSnapshot
<1>4. CASE SV_SendDownloadMessages
  BY <1>4, SendDownload
<1>5. CASE CL_ParseServerMessage
  BY <1>5, ParseServerMessage
<1>6. CASE CL_WritePacket
  BY <1>6, WritePacket
<1>. QED
  BY <1>1, <1>2, <1>3, <1>4, <1>5, <1>6 DEF Next

\* The inductive invariant: the packets on their way hold all that the server has not executed,
\* the ring keeps it, and acknowledgements only grow (SV_ClientCommand, CL_AddReliableCommand).
THEOREM Invariance == Spec => []IInv
<1>1. Init => IInv
  BY InitInv
<1>2. IInv /\ [Next]_vars => IInv'
  BY NextInv
<1>. QED
  BY <1>1, <1>2, PTL DEF Spec

\* Every variable of the two ends keeps its type (client_t, clientConnection_t).
THEOREM TypeCorrect == Spec => []TypeOK
<1>1. IInv => TypeOK
  BY DEF IInv, ServerType, ClientType, Commands, Acks, TypeOK, Asked, Slots
<1>. QED
  BY <1>1, Invariance, PTL

\* The server never finds a gap in the client's commands, and the client overwrites none that the
\* server has not executed, for every length of the ring (SV_ClientCommand,
\* CL_AddReliableCommand).
THEOREM Complete == Spec => []CommandsComplete
<1>1. IInv => CommandsComplete
  <2>1. SUFFICES ASSUME IInv PROVE CommandsComplete
    OBVIOUS
  <2>2. reliableAcknowledge <= lastClientCommand /\ lastClientCommand <= reliableSequence
    BY <2>1 DEF IInv, Commands
  <2>3. PICK l \in Nat : l = lastClientCommand
    BY <2>1 DEF IInv, Commands
  <2>4. ASSUME NEW i \in DOMAIN toServer
        PROVE  LET new == Unread(toServer[i])
               IN  /\ new # {} => lastClientCommand + 1 \in new
                   /\ \A n \in new : toServer[i][n] = reliableCommands[CommandSlot(n)]
    <3>1. PICK packet : packet = toServer[i] /\ SoundNow(packet)
      BY <2>1, <2>4 DEF IInv, Packets
    <3>2. \A n \in DOMAIN packet :
            /\ n \in Nat
            /\ n > l => packet[n] = reliableCommands[CommandSlot(n)]
            /\ \A k \in l + 1 .. n : k \in DOMAIN packet
      BY <2>3, <3>1 DEF SoundNow, Sound
    <3>3. ASSUME NEW n \in DOMAIN packet, n > l
          PROVE  l + 1 \in DOMAIN packet /\ l + 1 > l
      <4>1. l + 1 \in l + 1 .. n
        BY <3>2, <3>3
      <4>. QED
        BY <3>2, <4>1
    <3>. QED
      BY <2>3, <3>1, <3>2, <3>3 DEF Unread
  <2>. QED
    BY <2>2, <2>4 DEF CommandsComplete
<1>. QED
  BY <1>1, Invariance, PTL

--------------------------------------------------------------------------------
(* What is sent of a file. *)

\* The client is at a file, and has not failed.
Active == ~Failed /\ wanted # 0

Unexecuted == lastClientCommand + 1 .. reliableSequence
Said(n)    == reliableCommands[CommandSlot(n)]
Asks       == Command("download", wanted)
IsOwn(b)   == b.file = wanted

\* What the client has of the file.
Writes ==
    /\ kept + 1 = wanted
    /\ Len(received) = downloadBlock
    /\ \A i \in 1 .. downloadBlock : received[i] = [file |-> wanted, number |-> i - 1]
    /\ downloadBlock <= Blocks[wanted]

\* A command that is not executed is of this file, or comes before the one that asks for it.
InTurn ==
    /\ \A n \in Unexecuted : Said(n).name \in {"nextdl", "download"} =>
          \/ Said(n).name = "nextdl" /\ Said(n).arg < downloadBlock
          \/ \E m \in Unexecuted : n <= m /\ Said(m) = Asks
    /\ \A m, n \in Unexecuted : Said(m) = Asks /\ Said(n) = Asks => m = n
    /\ \A n \in Unexecuted : Said(n).name = "download" => Said(n).arg <= wanted

\* The server has been asked for the file.
Begun == \A n \in Unexecuted : Said(n) # Asks

\* A block under way goes by its number, unless the client has it already.
Due(m) ==
    /\ m.number < downloadBlock + MAX_DOWNLOAD_WINDOW
    /\ downloadBlock <= m.number + MAX_DOWNLOAD_WINDOW
    /\ m.block.number = m.number \/ m.number < downloadBlock

\* None that comes first takes the client beyond what those behind it can be told from.
OnTheWay ==
    /\ \A i \in DOMAIN toClient : IsOwn(toClient[i].block) => Due(toClient[i])
    /\ \A h, i \in DOMAIN toClient :
          h < i /\ IsOwn(toClient[h].block) /\ IsOwn(toClient[i].block)
            => toClient[h].number + 1 <= toClient[i].number + MAX_DOWNLOAD_WINDOW
    /\ \A i \in DOMAIN toClient : toClient[i].block.file <= wanted

\* Nothing of the file has been read.
Untouched ==
    /\ downloadBlock = 0
    /\ \A s \in DOMAIN downloadBlocks : ~IsOwn(downloadBlocks[s])
    /\ \A i \in DOMAIN toClient : ~IsOwn(toClient[i].block)

\* A window of blocks from number first to last - 1, sent up to number xmit or, since the last
\* timeout, once more up to there.
Window(first, last, xmit, blocks) ==
    /\ first <= downloadBlock /\ downloadBlock <= last
    /\ xmit <= last /\ last <= Limit(first)
    /\ downloadBlock + 1 <= xmit + MAX_DOWNLOAD_WINDOW
    /\ \A n \in first .. last - 1 : blocks[WindowSlot(n)] = [file |-> wanted, number |-> n]
    /\ \A i \in DOMAIN toClient : IsOwn(toClient[i].block) =>
          /\ toClient[i].number < last
          /\ toClient[i].number + 2 <= xmit + MAX_DOWNLOAD_WINDOW

Opened == Window(downloadClientBlock, downloadCurrentBlock, downloadXmitBlock, downloadBlocks)

\* The server sends the file when it has been asked for it, until it is done with it.
Session ==
    /\ downloadName <= wanted
    /\ \A s \in DOMAIN downloadBlocks : downloadBlocks[s].file <= wanted
    /\ ~Begun => downloadName # wanted /\ Untouched
    /\ Begun => downloadName \in {0, wanted}
    /\ downloadName = wanted => IF download THEN Opened ELSE Untouched

Transfer == Active => Writes /\ InTurn /\ OnTheWay /\ Session

\* Numbers and files.
LEMMA Numbers ==
    ASSUME IInv, Active
    PROVE  /\ wanted \in Files /\ wanted \in Nat /\ wanted # 0 /\ Blocks[wanted] \in Nat \ {0}
           /\ MAX_DOWNLOAD_WINDOW \in Nat \ {0}
           /\ downloadBlock \in Nat /\ downloadClientBlock \in Nat
           /\ downloadCurrentBlock \in Nat /\ downloadXmitBlock \in Nat
           /\ lastClientCommand \in Nat /\ reliableSequence \in Nat
           /\ DOMAIN downloadBlocks = 0 .. MAX_DOWNLOAD_WINDOW - 1
           /\ \A s \in DOMAIN downloadBlocks : downloadBlocks[s].file \in Nat
           /\ \A i \in DOMAIN toClient :
                 /\ toClient[i].number \in Nat
                 /\ toClient[i].block.file \in Nat /\ toClient[i].block.number \in Nat
           /\ DOMAIN toClient = 1 .. Len(toClient) /\ Len(toClient) \in Nat
<1>. USE DEF IInv
<1>1. wanted \in Files /\ wanted \in Nat /\ wanted # 0 /\ Blocks[wanted] \in Nat \ {0}
  BY ConstantsAssumption DEF Active, ClientType, Files
<1>2. /\ downloadBlock \in Nat /\ downloadClientBlock \in Nat
      /\ downloadCurrentBlock \in Nat /\ downloadXmitBlock \in Nat
      /\ lastClientCommand \in Nat /\ reliableSequence \in Nat
  BY DEF ServerType, ClientType, Commands
<1>3. /\ DOMAIN downloadBlocks = 0 .. MAX_DOWNLOAD_WINDOW - 1
      /\ \A s \in DOMAIN downloadBlocks : downloadBlocks[s].file \in Nat
  BY DEF ServerType, Block
<1>4. DOMAIN toClient = 1 .. Len(toClient) /\ Len(toClient) \in Nat
  BY DEF Acks
<1>5. ASSUME NEW i \in DOMAIN toClient
      PROVE  /\ toClient[i].number \in Nat
             /\ toClient[i].block.file \in Nat /\ toClient[i].block.number \in Nat
  <2>1. toClient[i] \in Message
    BY DEF Acks
  <2>. QED
    BY <2>1 DEF Message, Block
<1>. QED
  BY <1>1, <1>2, <1>3, <1>4, <1>5, ConstantsAssumption

\* What the client is at depends on this.
LEMMA ClientStays ==
    ASSUME UNCHANGED <<connected, reliableSequence, reliableCommands, wanted, downloadBlock, received,
                       kept>>
    PROVE  /\ Active' <=> Active
           /\ Writes' <=> Writes
           /\ \A n : Said(n)' = Said(n)
           /\ Asks' = Asks
           /\ \A b : IsOwn(b)' <=> IsOwn(b)
           /\ (Failed' <=> Failed)
BY DEF Active, Failed, Alien, Writes, Said, Asks, IsOwn

\* So do the commands that the server has not executed.
LEMMA TurnStays ==
    ASSUME UNCHANGED <<connected, reliableSequence, reliableCommands, wanted, downloadBlock, received,
                       kept, lastClientCommand>>
    PROVE  /\ InTurn' <=> InTurn
           /\ Begun' <=> Begun
BY ClientStays DEF InTurn, Begun, Unexecuted

\* It stays while the server works.
LEMMA ClientWaits ==
    ASSUME UNCHANGED client
    PROVE  /\ Active' <=> Active
           /\ Writes' <=> Writes
           /\ \A n : Said(n)' = Said(n)
           /\ Asks' = Asks
           /\ \A b : IsOwn(b)' <=> IsOwn(b)
           /\ downloadBlock' = downloadBlock /\ wanted' = wanted
           /\ reliableSequence' = reliableSequence /\ reliableCommands' = reliableCommands
           /\ kept' = kept /\ received' = received /\ connected' = connected
           /\ (Failed' <=> Failed)
<1>1. UNCHANGED <<connected, reliableSequence, reliableCommands, wanted, downloadBlock, received, kept>>
  BY DEF client, commands
<1>. QED
  BY <1>1, ClientStays

\* So do the commands.
LEMMA TurnWaits ==
    ASSUME UNCHANGED <<client, lastClientCommand>>
    PROVE  /\ InTurn' <=> InTurn
           /\ Begun' <=> Begun
BY ClientWaits DEF InTurn, Begun, Unexecuted

\* A server that gives up a file, or does nothing about it.
LEMMA Closing ==
    ASSUME IInv, Transfer, UNCHANGED <<client, lastClientCommand, toClient, downloadCurrentBlock,
                                 downloadClientBlock, downloadXmitBlock, downloadBlocks>>,
           \/ UNCHANGED <<downloadName, download>>
           \/ downloadName' = 0 /\ download' = FALSE
    PROVE  Transfer'
<1>. SUFFICES ASSUME Active PROVE (Writes /\ InTurn /\ OnTheWay /\ Session)'
  BY ClientWaits DEF Transfer
<1>1. Writes' /\ InTurn' /\ (Begun' <=> Begun)
  BY ClientWaits, TurnWaits DEF Transfer
<1>2. OnTheWay'
  BY ClientWaits DEF Transfer, OnTheWay, Due
<1>3. Session'
  <2>1. (Untouched' <=> Untouched) /\ (downloadName' = downloadName => (Opened' <=> Opened))
    BY ClientWaits DEF Untouched, Opened, Window, Limit
  <2>2. wanted # 0 /\ 0 <= wanted
    BY Numbers
  <2>. QED
    BY <1>1, <2>1, <2>2, ClientWaits DEF Transfer, Session
<1>. QED
  BY <1>1, <1>2, <1>3

\* The server executes the next command: what is left is in turn.
LEMMA ExecutesInTurn ==
    ASSUME IInv, Active, InTurn, NEW name, Executes(name)
    PROVE  /\ InTurn'
           /\ UNCHANGED client
           /\ name = "nextdl" /\ Begun => Argument < downloadBlock
           /\ name = "download" => Argument <= wanted
           /\ name = "download" /\ Argument = wanted => ~Begun /\ Begun'
           /\ name = "download" /\ Argument # wanted => ~Begun
           /\ name # "download" \/ Argument # wanted => (Begun' <=> Begun)
<1>1. PICK l \in Nat, r \in Nat :
        l = lastClientCommand /\ r = reliableSequence /\ lastClientCommand' = l + 1
  BY DEF Executes, IInv, Commands
<1>2. UNCHANGED client
  BY DEF Executes
<1>3. l + 1 \in DOMAIN reading /\ l + 1 <= r /\ reading[l + 1] = Said(l + 1) /\ Said(l + 1) \in Asked
  <2>1. PICK n \in DOMAIN reading : n > l
    BY <1>1 DEF Executes, Unread
  <2>2. /\ n \in Nat /\ n <= r /\ \A k \in l + 1 .. n : k \in DOMAIN reading
        /\ \A k \in DOMAIN reading :
              k \in Nat /\ reading[k] \in Asked /\ (k > l => reading[k] = Said(k))
    BY <1>1 DEF IInv, Packets, SoundNow, Sound, Said
  <2>3. l + 1 \in l + 1 .. n /\ l + 1 > l /\ l + 1 <= r
    BY <2>1, <2>2
  <2>. QED
    BY <2>2, <2>3
<1>4. Said(l + 1).name = name /\ Said(l + 1).arg = Argument
  BY <1>1, <1>3 DEF Executes, Argument
<1>5. name = "download" /\ Argument = wanted <=> Said(l + 1) = Asks
  BY <1>3, <1>4 DEF Asked, ClientCommand, Command, Asks
<1>6. Unexecuted = l + 1 .. r /\ Unexecuted' = l + 2 .. r
  BY <1>1, <1>2, ClientWaits DEF Unexecuted
<1>7. l + 1 \in l + 1 .. r /\ \A n \in l + 1 .. r : n = l + 1 \/ n \in l + 2 .. r
  BY <1>3
<1>8. /\ \A n \in l + 2 .. r : n \in l + 1 .. r /\ n # l + 1
      /\ \A n \in l + 2 .. r, m \in l + 1 .. r : n <= m => m \in l + 2 .. r
  OBVIOUS
<1>9. InTurn'
  <2>1. ASSUME NEW n \in l + 2 .. r, Said(n).name \in {"nextdl", "download"}
        PROVE  \/ Said(n).name = "nextdl" /\ Said(n).arg < downloadBlock
               \/ \E m \in l + 2 .. r : n <= m /\ Said(m) = Asks
    BY <1>6, <1>8, <2>1 DEF InTurn
  <2>2. \A m, n \in l + 2 .. r : Said(m) = Asks /\ Said(n) = Asks => m = n
    BY <1>6, <1>8 DEF InTurn
  <2>3. \A n \in l + 2 .. r : Said(n).name = "download" => Said(n).arg <= wanted
    BY <1>6, <1>8 DEF InTurn
  <2>. QED
    BY <1>2, <1>6, <2>1, <2>2, <2>3, ClientWaits DEF InTurn
<1>10. Begun <=> \A n \in l + 1 .. r : Said(n) # Asks
  BY <1>6 DEF Begun
<1>11. Begun' <=> \A n \in l + 2 .. r : Said(n) # Asks
  BY <1>2, <1>6, ClientWaits DEF Begun
<1>12. Said(l + 1) = Asks => ~Begun /\ Begun'
  BY <1>6, <1>7, <1>8, <1>10, <1>11 DEF InTurn
<1>13. Said(l + 1) # Asks => (Begun' <=> Begun)
  BY <1>7, <1>8, <1>10, <1>11
<1>14. name \in {"nextdl", "download"} /\ Begun => name = "nextdl" /\ Argument < downloadBlock
  BY <1>4, <1>6, <1>7, <1>10 DEF InTurn
<1>15. name = "download" => Argument <= wanted
  BY <1>4, <1>6, <1>7 DEF InTurn
<1>. QED
  BY <1>2, <1>5, <1>9, <1>12, <1>13, <1>14, <1>15

\* The client is at the file, and the server has executed something: what is left to show.
LEMMA ServerSession ==
    ASSUME Transfer, Active, UNCHANGED <<client, toClient>>, InTurn', Session'
    PROVE  Transfer'
BY ClientWaits DEF Transfer, OnTheWay, Due

\* A file is asked for: this one, or one that the client has got already.
LEMMA BeginsDownload ==
    ASSUME IInv, Transfer, SV_BeginDownload_f
    PROVE  Transfer'
<1>. SUFFICES ASSUME Active PROVE Transfer'
  BY ClientWaits DEF Transfer, SV_BeginDownload_f, Executes
<1>1. /\ Executes("download") /\ downloadName' = Argument /\ download' = FALSE
      /\ UNCHANGED <<client, toClient, downloadBlocks>>
  BY DEF SV_BeginDownload_f, Executes
<1>2. /\ InTurn' /\ Argument <= wanted /\ ~Begun
      /\ Argument = wanted => Begun'
      /\ Argument # wanted => ~Begun'
  BY <1>1, ExecutesInTurn DEF Transfer
<1>3. Untouched /\ Untouched'
  BY <1>1, <1>2, ClientWaits DEF Transfer, Session, Untouched
<1>4. Session'
  BY <1>1, <1>2, <1>3, ClientWaits DEF Transfer, Session
<1>. QED
  BY <1>1, <1>2, <1>4, ServerSession

\* A block is acknowledged: one that the client has.
LEMMA NextBlock ==
    ASSUME IInv, Transfer, SV_NextDownload_f
    PROVE  Transfer'
<1>. SUFFICES ASSUME Active PROVE Transfer'
  BY ClientWaits DEF Transfer, SV_NextDownload_f, Executes
<1>1. /\ Executes("nextdl")
      /\ UNCHANGED <<client, toClient, downloadBlocks, downloadCurrentBlock, downloadXmitBlock>>
  BY DEF SV_NextDownload_f, Executes
<1>2. InTurn' /\ (Begun => Argument < downloadBlock) /\ (Begun' <=> Begun)
  BY <1>1, ExecutesInTurn DEF Transfer
<1>3. Untouched' <=> Untouched
  BY <1>1, ClientWaits DEF Untouched
<1>4. wanted # 0 /\ 0 <= wanted
  BY Numbers
<1>5. CASE downloadName' = 0
  BY <1>1, <1>2, <1>3, <1>4, <1>5, ServerSession, ClientWaits DEF Transfer, Session
<1>6. CASE /\ Argument = downloadClientBlock /\ downloadClientBlock' = downloadClientBlock + 1
           /\ UNCHANGED <<downloadName, download>>
  <2>1. ASSUME Begun, Opened, downloadName = wanted PROVE Opened'
    <3>1. PICK c \in Nat, d \in Nat, k \in Nat :
            c = downloadClientBlock /\ d = downloadBlock /\ k = downloadCurrentBlock
      BY Numbers
    <3>2. c + 1 <= d /\ downloadClientBlock' = c + 1
      BY <1>2, <1>6, <2>1, <3>1
    <3>3. Limit(c) <= Limit(c + 1) /\ Limit(c) \in Nat /\ Limit(c + 1) \in Nat
      <4>1. Blocks[downloadName] \in Nat /\ MAX_DOWNLOAD_WINDOW \in Nat
        BY <2>1, Numbers
      <4>. QED
        BY <4>1 DEF Limit, Ahead
    <3>4. k <= Limit(c)
      BY <2>1, <3>1 DEF Opened, Window
    <3>5. k <= Limit(c + 1) /\ \A n \in c + 1 .. k - 1 : n \in c .. k - 1
      BY <3>3, <3>4
    <3>6. Limit(c + 1)' = Limit(c + 1)
      BY <1>6 DEF Limit
    <3>7. Window(c + 1, k, downloadXmitBlock, downloadBlocks)
      BY <2>1, <3>1, <3>2, <3>5 DEF Opened, Window
    <3>8. /\ downloadCurrentBlock' = k /\ downloadXmitBlock' = downloadXmitBlock
          /\ downloadBlocks' = downloadBlocks
      BY <1>1, <3>1
    <3>. QED
      BY <1>1, <3>2, <3>6, <3>7, <3>8, ClientWaits DEF Opened, Window
  <2>2. Session'
    BY <1>1, <1>2, <1>3, <1>4, <1>6, <2>1, ClientWaits DEF Transfer, Session
  <2>. QED
    BY <1>1, <1>2, <2>2, ServerSession
<1>. QED
  BY <1>5, <1>6 DEF SV_NextDownload_f, SV_CloseDownload

\* The other commands.
LEMMA StopsOrIsDone ==
    ASSUME IInv, Transfer, SV_StopDownload_f \/ SV_DoneDownload_f
    PROVE  Transfer'
<1>. SUFFICES ASSUME Active PROVE Transfer'
  BY ClientWaits DEF Transfer, SV_StopDownload_f, SV_DoneDownload_f, Executes
<1>1. PICK name \in {"stopdl", "donedl"} : Executes(name)
  BY DEF SV_StopDownload_f, SV_DoneDownload_f
<1>2. UNCHANGED <<client, toClient, downloadBlocks, downloadCurrentBlock, downloadXmitBlock,
                  downloadClientBlock>>
  BY DEF SV_StopDownload_f, SV_DoneDownload_f, Executes
<1>3. InTurn' /\ (Begun' <=> Begun)
  BY <1>1, ExecutesInTurn DEF Transfer
<1>4. Untouched' <=> Untouched
  BY <1>2, ClientWaits DEF Untouched
<1>5. wanted # 0 /\ 0 <= wanted
  BY Numbers
<1>6. CASE downloadName' = 0
  BY <1>2, <1>3, <1>4, <1>5, <1>6, ServerSession, ClientWaits DEF Transfer, Session
<1>7. CASE UNCHANGED <<downloadName, download>>
  <2>1. Opened' <=> Opened
    BY <1>2, <1>7, ClientWaits DEF Opened, Window, Limit
  <2>. QED
    BY <1>2, <1>3, <1>4, <1>7, <2>1, ServerSession, ClientWaits DEF Transfer, Session
<1>. QED
  BY <1>6, <1>7 DEF SV_StopDownload_f, SV_DoneDownload_f, SV_CloseDownload

\* What is sent comes behind what is under way.
LEMMA Sends ==
    ASSUME IInv, NEW m \in Message, Send(m)
    PROVE  LET n == Len(toClient)
           IN  /\ n \in Nat /\ DOMAIN toClient = 1 .. n /\ DOMAIN toClient' = 1 .. n + 1
               /\ \A i \in 1 .. n : i \in 1 .. n + 1 /\ toClient'[i] = toClient[i]
               /\ n + 1 \in 1 .. n + 1 /\ toClient'[n + 1] = m
               /\ \A i \in 1 .. n + 1 : i \in 1 .. n \/ i = n + 1
<1>1. PICK n \in Nat : n = Len(toClient) /\ DOMAIN toClient = 1 .. n /\ toClient \in Seq(Message)
  BY DEF IInv, Acks
<1>2. \A i \in 1 .. n + 1 : i \in 1 .. n \/ i = n + 1
  OBVIOUS
<1>3. /\ DOMAIN toClient' = 1 .. n + 1 /\ toClient'[n + 1] = m
      /\ \A i \in 1 .. n : toClient'[i] = toClient[i]
  BY <1>1 DEF Send
<1>. QED
  BY <1>1, <1>2, <1>3

\* A message with nothing of the file in it.
LEMMA SendsOther ==
    ASSUME IInv, Active, OnTheWay, UNCHANGED client,
           NEW m \in Message, Send(m), m.block.file <= wanted, ~IsOwn(m.block)
    PROVE  /\ OnTheWay'
           /\ (\A i \in DOMAIN toClient : ~IsOwn(toClient[i].block))
                => \A i \in DOMAIN toClient' : ~IsOwn(toClient'[i].block)
<1>1. PICK n \in Nat :
        /\ DOMAIN toClient = 1 .. n /\ DOMAIN toClient' = 1 .. n + 1
        /\ \A i \in 1 .. n : i \in 1 .. n + 1 /\ toClient'[i] = toClient[i]
        /\ toClient'[n + 1] = m
        /\ \A i \in 1 .. n + 1 : i \in 1 .. n \/ i = n + 1
  BY Sends
<1>2. \A i \in 1 .. n + 1 : IsOwn(toClient'[i].block) => i \in 1 .. n
  BY <1>1
<1>3. \A i \in DOMAIN toClient' : IsOwn(toClient'[i].block) => Due(toClient'[i])
  BY <1>1, <1>2 DEF OnTheWay
<1>4. \A h, i \in DOMAIN toClient' :
          h < i /\ IsOwn(toClient'[h].block) /\ IsOwn(toClient'[i].block)
            => toClient'[h].number + 1 <= toClient'[i].number + MAX_DOWNLOAD_WINDOW
  <2>. SUFFICES ASSUME NEW h \in 1 .. n + 1, NEW i \in 1 .. n + 1,
                       h < i, IsOwn(toClient'[h].block), IsOwn(toClient'[i].block)
                PROVE  toClient'[h].number + 1 <= toClient'[i].number + MAX_DOWNLOAD_WINDOW
    BY <1>1
  <2>1. h \in 1 .. n /\ i \in 1 .. n
    BY <1>2
  <2>. QED
    BY <1>1, <2>1 DEF OnTheWay
<1>5. \A i \in DOMAIN toClient' : toClient'[i].block.file <= wanted
  BY <1>1 DEF OnTheWay
<1>6. OnTheWay'
  BY <1>3, <1>4, <1>5, ClientWaits DEF OnTheWay, Due
<1>. QED
  BY <1>1, <1>2, <1>6

\* A snapshot, or the refusal of a file.
LEMMA SendsUnknown ==
    ASSUME IInv, Transfer, UNCHANGED <<client, lastClientCommand, downloadBlocks>>,
           downloadName' = 0, NEW m \in Message, Send(m), m.block = Unknown
    PROVE  Transfer'
<1>. SUFFICES ASSUME Active PROVE (Writes /\ InTurn /\ OnTheWay /\ Session)'
  BY ClientWaits DEF Transfer
<1>1. wanted \in Nat /\ wanted # 0 /\ 0 <= wanted
  BY Numbers
<1>2. m.block.file <= wanted /\ ~IsOwn(m.block)
  BY <1>1 DEF Unknown, IsOwn
<1>3. OnTheWay' /\ (Untouched => Untouched')
  <2>1. /\ OnTheWay'
        /\ (\A i \in DOMAIN toClient : ~IsOwn(toClient[i].block))
             => \A i \in DOMAIN toClient' : ~IsOwn(toClient'[i].block)
    BY <1>2, SendsOther DEF Transfer
  <2>. QED
    BY <2>1, ClientWaits DEF Untouched
<1>4. Writes' /\ InTurn' /\ (Begun' <=> Begun)
  BY ClientWaits, TurnWaits DEF Transfer
<1>5. Session'
  BY <1>1, <1>3, <1>4, ClientWaits DEF Transfer, Session
<1>. QED
  BY <1>3, <1>4, <1>5

\* Reading ahead fills the slots of the window that the client has done with.
LEMMA ReadsWindow ==
    ASSUME IInv, downloadName \in Files, NEW current \in Nat, NEW first \in Nat,
           first <= current, current <= Limit(first), ReadAhead(current, first)
    PROVE  /\ Limit(first) \in Nat /\ Limit(first) <= first + MAX_DOWNLOAD_WINDOW
           /\ downloadCurrentBlock' = Limit(first)
           /\ downloadClientBlock' = first
           /\ download' = TRUE
           /\ DOMAIN downloadBlocks' = DOMAIN downloadBlocks
           /\ \A s \in DOMAIN downloadBlocks :
                 downloadBlocks'[s] = downloadBlocks[s] \/ downloadBlocks'[s].file = downloadName
           /\ \A n \in first .. current - 1 :
                 downloadBlocks'[WindowSlot(n)] = downloadBlocks[WindowSlot(n)]
           /\ \A n \in current .. Limit(first) - 1 :
                 downloadBlocks'[WindowSlot(n)] = [file |-> downloadName, number |-> n]
<1>1. MAX_DOWNLOAD_WINDOW \in Nat \ {0} /\ Blocks[downloadName] \in Nat
  BY ConstantsAssumption DEF Files
<1>2. PICK last \in Nat : last = Limit(first) /\ last <= first + MAX_DOWNLOAD_WINDOW
  BY <1>1 DEF Limit, Ahead
<1>3. Read(current, last)
  BY <1>2 DEF ReadAhead
<1> DEFINE own(s) == {n \in current .. last - 1 : WindowSlot(n) = s}
<1>4. DOMAIN downloadBlocks = 0 .. MAX_DOWNLOAD_WINDOW - 1
  BY DEF IInv, ServerType
<1>5. downloadBlocks' =
        [s \in 0 .. MAX_DOWNLOAD_WINDOW - 1 |->
            IF own(s) = {} THEN downloadBlocks[s]
            ELSE [file |-> downloadName, number |-> CHOOSE n \in own(s) : TRUE]]
  BY <1>3, <1>4 DEF Read
<1>6. \A s : own(s) # {} => (CHOOSE n \in own(s) : TRUE) \in own(s)
  OBVIOUS
<1>7. \A n \in first .. last - 1 : n \in Nat /\ first <= n /\ n < first + MAX_DOWNLOAD_WINDOW
  BY <1>1, <1>2
<1>8. \A m \in first .. last - 1, n \in first .. last - 1 : WindowSlot(m) = WindowSlot(n) => m = n
  BY <1>7, WindowDistinct
<1>9. ASSUME NEW n \in current .. last - 1
      PROVE  downloadBlocks'[WindowSlot(n)] = [file |-> downloadName, number |-> n]
  <2>1. n \in Nat /\ \A m \in current .. last - 1 : m \in first .. last - 1
    OBVIOUS
  <2>2. PICK s \in 0 .. MAX_DOWNLOAD_WINDOW - 1 : s = WindowSlot(n)
    BY <2>1, SlotType
  <2>3. n \in own(s) /\ \A m \in own(s) : m = n
    BY <1>8, <2>1, <2>2
  <2>4. (CHOOSE m \in own(s) : TRUE) = n
    BY <1>6, <2>3
  <2>. QED
    BY <1>5, <2>2, <2>3, <2>4
<1>10. ASSUME NEW n \in first .. current - 1
       PROVE  downloadBlocks'[WindowSlot(n)] = downloadBlocks[WindowSlot(n)]
  <2>1. /\ n \in Nat /\ n \in first .. last - 1
        /\ \A m \in current .. last - 1 : m \in first .. last - 1 /\ m # n
    BY <1>2
  <2>2. PICK s \in 0 .. MAX_DOWNLOAD_WINDOW - 1 : s = WindowSlot(n)
    BY <2>1, SlotType
  <2>3. own(s) = {}
    BY <1>8, <2>1, <2>2
  <2>. QED
    BY <1>5, <2>2, <2>3
<1>11. \A s \in DOMAIN downloadBlocks :
          downloadBlocks'[s] = downloadBlocks[s] \/ downloadBlocks'[s].file = downloadName
  BY <1>4, <1>5
<1>12. DOMAIN downloadBlocks' = DOMAIN downloadBlocks
  BY <1>4, <1>5
<1>. QED
  BY <1>2, <1>3, <1>9, <1>10, <1>11, <1>12 DEF Read, ReadAhead

\* A block of the window, not too far behind what was sent before it.
LEMMA SendsOwn ==
    ASSUME IInv, Active, OnTheWay, UNCHANGED <<client, downloadName>>,
           NEW first \in Nat, NEW last \in Nat, NEW xmit \in Nat, NEW blocks,
           Window(first, last, xmit, blocks), last <= first + MAX_DOWNLOAD_WINDOW,
           NEW n \in Nat, n < last, downloadBlock <= n + MAX_DOWNLOAD_WINDOW,
           \A i \in DOMAIN toClient : IsOwn(toClient[i].block) =>
              toClient[i].number + 1 <= n + MAX_DOWNLOAD_WINDOW,
           NEW m \in Message, Send(m), m.number = n, m.block = blocks[WindowSlot(n)],
           m.block.file <= wanted
    PROVE  OnTheWay' /\ Window(first, last, n + 1, blocks)'
<1>1. PICK k \in Nat :
        /\ DOMAIN toClient = 1 .. k /\ DOMAIN toClient' = 1 .. k + 1
        /\ \A i \in 1 .. k : i \in 1 .. k + 1 /\ toClient'[i] = toClient[i]
        /\ toClient'[k + 1] = m
        /\ \A i \in 1 .. k + 1 : i \in 1 .. k \/ i = k + 1
  BY Sends
<1>2. PICK W \in Nat \ {0}, d \in Nat : W = MAX_DOWNLOAD_WINDOW /\ d = downloadBlock
  BY Numbers
<1>3. first <= d /\ d <= last /\ last <= first + W /\ d <= n + W
  BY <1>2 DEF Window
<1>4. \A i \in 1 .. k : toClient[i].number \in Nat
  BY <1>1, Numbers
<1>5. Due(m)
  <2>1. n < d + W
    BY <1>3
  <2>2. ASSUME ~(n < d) PROVE m.block.number = n
    <3>1. n \in first .. last - 1
      BY <1>3, <2>2
    <3>2. blocks[WindowSlot(n)] = [file |-> wanted, number |-> n]
      BY <3>1 DEF Window
    <3>. QED
      BY <3>2
  <2>. QED
    BY <1>2, <1>3, <2>1, <2>2 DEF Due
<1>6. \A i \in DOMAIN toClient' : IsOwn(toClient'[i].block) => Due(toClient'[i])
  BY <1>1, <1>5 DEF OnTheWay
<1>7. ASSUME NEW h \in 1 .. k + 1, NEW i \in 1 .. k + 1,
             h < i, IsOwn(toClient'[h].block), IsOwn(toClient'[i].block)
      PROVE  toClient'[h].number + 1 <= toClient'[i].number + W
  <2>1. h \in 1 .. k
    BY <1>7
  <2>2. CASE i \in 1 .. k
    BY <1>1, <1>2, <1>7, <2>1, <2>2 DEF OnTheWay
  <2>3. CASE i = k + 1
    BY <1>1, <1>2, <1>7, <2>1, <2>3
  <2>. QED
    BY <1>1, <2>2, <2>3
<1>8. \A i \in DOMAIN toClient' : toClient'[i].block.file <= wanted
  BY <1>1 DEF OnTheWay
<1>9. OnTheWay'
  BY <1>1, <1>2, <1>6, <1>7, <1>8, ClientWaits DEF OnTheWay, Due
<1>10. ASSUME NEW i \in 1 .. k + 1, IsOwn(toClient'[i].block)
       PROVE  toClient'[i].number < last /\ toClient'[i].number + 2 <= n + 1 + W
  <2>1. CASE i \in 1 .. k
    <3>1. IsOwn(toClient[i].block) /\ toClient'[i].number = toClient[i].number
      BY <1>1, <1>10, <2>1
    <3>2. toClient[i].number < last /\ toClient[i].number + 1 <= n + W
      BY <1>1, <1>2, <2>1, <3>1 DEF Window
    <3>3. toClient[i].number \in Nat
      BY <1>4, <2>1
    <3>. QED
      BY <3>1, <3>2, <3>3
  <2>2. CASE i = k + 1
    BY <1>1, <2>2
  <2>. QED
    BY <1>1, <2>1, <2>2
<1>11. n + 1 <= last /\ d + 1 <= n + 1 + W
  BY <1>3
<1>12. Limit(first)' = Limit(first)
  BY DEF Limit
<1>13. Window(first, last, n + 1, blocks)'
  <2>1. /\ first <= downloadBlock' /\ downloadBlock' <= last /\ n + 1 <= last
        /\ downloadBlock' + 1 <= n + 1 + MAX_DOWNLOAD_WINDOW
    BY <1>2, <1>3, <1>11, ClientWaits
  <2>2. last <= Limit(first)'
    BY <1>12 DEF Window
  <2>3. \A i \in first .. last - 1 : blocks[WindowSlot(i)] = [file |-> wanted', number |-> i]
    BY ClientWaits DEF Window
  <2>4. \A i \in DOMAIN toClient' : (toClient'[i].block.file = wanted') =>
          toClient'[i].number < last /\ toClient'[i].number + 2 <= n + 1 + MAX_DOWNLOAD_WINDOW
    BY <1>1, <1>2, <1>10, ClientWaits DEF IsOwn
  <2>. QED
    BY <2>1, <2>2, <2>3, <2>4 DEF Window, IsOwn
<1>. QED
  BY <1>9, <1>13

\* The server reads ahead in the file and sends a block of the window, or none.
LEMMA Streams ==
    ASSUME IInv, Active, OnTheWay, UNCHANGED <<client, lastClientCommand, downloadName>>,
           downloadName = wanted,
           \A s \in DOMAIN downloadBlocks : downloadBlocks[s].file <= wanted,
           NEW first \in Nat, NEW current \in Nat, NEW xmit \in Nat,
           Window(first, current, xmit, downloadBlocks),
           ReadAhead(current, first), Transmit(xmit)
    PROVE  OnTheWay' /\ Opened'
<1>1. downloadName \in Files
  BY Numbers
<1>2. first <= downloadBlock /\ downloadBlock <= current /\ current <= Limit(first) /\ xmit <= current
  BY DEF Window
<1>3. PICK W \in Nat \ {0}, d \in Nat : W = MAX_DOWNLOAD_WINDOW /\ d = downloadBlock
  BY Numbers
<1>4. first <= current
  BY <1>2, <1>3
<1>a. PICK last \in Nat : last = Limit(first)
  BY <1>1, <1>2, <1>4, ReadsWindow
<1>b. PICK blocks : blocks = downloadBlocks'
  OBVIOUS
<1>5. /\ last = Limit(first) /\ last <= first + MAX_DOWNLOAD_WINDOW
      /\ downloadCurrentBlock' = last /\ downloadClientBlock' = first
      /\ blocks = downloadBlocks'
      /\ DOMAIN blocks = DOMAIN downloadBlocks
      /\ \A s \in DOMAIN downloadBlocks :
            blocks[s] = downloadBlocks[s] \/ blocks[s].file = downloadName
      /\ \A n \in first .. current - 1 : blocks[WindowSlot(n)] = downloadBlocks[WindowSlot(n)]
      /\ \A n \in current .. last - 1 :
            blocks[WindowSlot(n)] = [file |-> downloadName, number |-> n]
  BY <1>1, <1>2, <1>4, <1>a, <1>b, ReadsWindow
<1>6. current <= last
  BY <1>2, <1>a
<1>7. Window(first, last, xmit, blocks)
  <2>1. /\ downloadBlock <= last /\ xmit <= last
        /\ first <= downloadBlock /\ downloadBlock + 1 <= xmit + MAX_DOWNLOAD_WINDOW
    BY <1>2, <1>3, <1>6 DEF Window
  <2>2. ASSUME NEW n \in first .. last - 1
        PROVE  blocks[WindowSlot(n)] = [file |-> wanted, number |-> n]
    <3>1. n \in first .. current - 1 \/ n \in current .. last - 1
      BY <1>4, <1>6
    <3>. QED
      BY <1>5, <3>1 DEF Window
  <2>3. \A i \in DOMAIN toClient : IsOwn(toClient[i].block) =>
          /\ toClient[i].number < last
          /\ toClient[i].number + 2 <= xmit + MAX_DOWNLOAD_WINDOW
    <3>. SUFFICES ASSUME NEW i \in DOMAIN toClient, IsOwn(toClient[i].block)
                  PROVE  /\ toClient[i].number < last
                         /\ toClient[i].number + 2 <= xmit + MAX_DOWNLOAD_WINDOW
      OBVIOUS
    <3>1. /\ toClient[i].number < current
          /\ toClient[i].number + 2 <= xmit + MAX_DOWNLOAD_WINDOW
      BY DEF Window
    <3>2. toClient[i].number \in Nat
      BY Numbers
    <3>. QED
      BY <1>6, <3>1, <3>2
  <2>. QED
    BY <1>5, <2>1, <2>2, <2>3 DEF Window
<1>8. ASSUME NEW n \in Nat, n < last, d <= n + W, SendBlock(n), downloadXmitBlock' = n + 1,
             \A i \in DOMAIN toClient : IsOwn(toClient[i].block) => toClient[i].number + 1 <= n + W
      PROVE  OnTheWay' /\ Opened'
  <2>1. PICK m : /\ m = [type |-> "block", ack |-> lastClientCommand, number |-> n,
                         block |-> blocks[WindowSlot(n)]]
                 /\ Send(m)
    BY <1>5, <1>8 DEF SendBlock
  <2>2. WindowSlot(n) \in DOMAIN downloadBlocks
    BY SlotType, Numbers
  <2>3. blocks[WindowSlot(n)].file <= wanted
    <3>1. CASE blocks[WindowSlot(n)] = downloadBlocks[WindowSlot(n)]
      BY <2>2, <3>1
    <3>2. CASE blocks[WindowSlot(n)].file = downloadName
      BY <3>2, Numbers
    <3>. QED
      BY <1>5, <2>2, <3>1, <3>2
  <2>4. blocks[WindowSlot(n)] \in Block
    <3>1. downloadBlocks' \in [0 .. MAX_DOWNLOAD_WINDOW - 1 -> Block]
      BY <1>1, <1>3, ReadAheadType DEF IInv
    <3>. QED
      BY <1>5, <3>1, SlotType
  <2>5. m \in Message
    BY <2>1, <2>4, Numbers DEF Message
  <2>6. m.number = n /\ m.block = blocks[WindowSlot(n)] /\ m.block.file <= wanted
    BY <2>1, <2>3
  <2>7. /\ downloadBlock <= n + MAX_DOWNLOAD_WINDOW
        /\ \A i \in DOMAIN toClient : IsOwn(toClient[i].block) =>
              toClient[i].number + 1 <= n + MAX_DOWNLOAD_WINDOW
    BY <1>3, <1>8
  <2>8. OnTheWay' /\ Window(first, last, n + 1, blocks)'
    BY <1>5, <1>7, <1>8, <2>1, <2>5, <2>6, <2>7, SendsOwn
  <2>. QED
    BY <1>5, <1>8, <2>8 DEF Opened, Window
<1>9. \A i \in DOMAIN toClient : IsOwn(toClient[i].block) =>
        /\ toClient[i].number \in Nat /\ toClient[i].number < last
        /\ toClient[i].number + 2 <= xmit + W
  BY <1>3, <1>7, Numbers DEF Window
<1>10. xmit <= last /\ d + 1 <= xmit + W /\ d <= last /\ first <= d /\ last <= first + W
  BY <1>3, <1>5, <1>7 DEF Window
<1>11. CASE downloadXmitBlock' = xmit /\ UNCHANGED <<toClient, resends>>
  <2>1. OnTheWay'
    BY <1>11, ClientWaits DEF OnTheWay, Due
  <2>2. Opened'
    <3>1. Limit(first)' = Limit(first)
      BY DEF Limit
    <3>. QED
      BY <1>5, <1>7, <1>11, <3>1, ClientWaits DEF Opened, Window
  <2>. QED
    BY <2>1, <2>2
<1>12. CASE xmit # last /\ SendBlock(xmit) /\ downloadXmitBlock' = xmit + 1
  <2>1. xmit < last /\ d <= xmit + W
    BY <1>10, <1>12
  <2>2. \A i \in DOMAIN toClient : IsOwn(toClient[i].block) => toClient[i].number + 1 <= xmit + W
    BY <1>9
  <2>. QED
    BY <1>8, <1>12, <2>1, <2>2
<1>13. CASE first # last /\ SendBlock(first) /\ downloadXmitBlock' = first + 1
  <2>1. first < last /\ d <= first + W
    BY <1>10, <1>13
  <2>2. \A i \in DOMAIN toClient : IsOwn(toClient[i].block) => toClient[i].number + 1 <= first + W
    BY <1>9, <1>10
  <2>. QED
    BY <1>8, <1>13, <2>1, <2>2
<1>. QED
  BY <1>5, <1>11, <1>12, <1>13 DEF Transmit

\* The frame of the server.
LEMMA SendsDownload ==
    ASSUME IInv, Transfer, SV_SendDownloadMessages
    PROVE  Transfer'
<1>1. UNCHANGED <<client, lastClientCommand>> /\ downloadName # 0
  BY DEF SV_SendDownloadMessages
<1>2. CASE Refuse
  <2>1. PICK m : /\ m = [type |-> "refusal", ack |-> lastClientCommand, number |-> 0, block |-> Unknown]
                 /\ Send(m)
    BY <1>2 DEF Refuse
  <2>2. m \in Message /\ m.block = Unknown
    BY <2>1 DEF IInv, Commands, Message, Block, Unknown
  <2>3. downloadName' = 0 /\ UNCHANGED downloadBlocks
    BY <1>2 DEF Refuse
  <2>. QED
    BY <1>1, <2>1, <2>2, <2>3, SendsUnknown
<1>3. ASSUME NEW current \in Nat, NEW first \in Nat, NEW xmit \in Nat,
             ReadAhead(current, first), Transmit(xmit), UNCHANGED downloadName,
             \/ ~download /\ current = 0 /\ first = 0 /\ xmit = 0
             \/ /\ download
                /\ current = downloadCurrentBlock /\ first = downloadClientBlock
                /\ xmit = downloadXmitBlock
      PROVE  Transfer'
  <2>. SUFFICES ASSUME Active PROVE (Writes /\ InTurn /\ OnTheWay /\ Session)'
    BY <1>1, ClientWaits DEF Transfer
  <2>1. Writes' /\ InTurn' /\ (Begun' <=> Begun)
    BY <1>1, ClientWaits, TurnWaits DEF Transfer
  <2>2. downloadName \in Files /\ downloadName \in Nat
    BY <1>1, ConstantsAssumption DEF IInv, ServerType, Files
  <2>3. download' = TRUE
    BY <1>3 DEF ReadAhead
  <2>4. /\ DOMAIN downloadBlocks' = DOMAIN downloadBlocks
        /\ \A s \in DOMAIN downloadBlocks :
              downloadBlocks'[s] = downloadBlocks[s] \/ downloadBlocks'[s].file = downloadName
    BY <1>3, <2>2 DEF ReadAhead, Read
  <2>5. \A s \in DOMAIN downloadBlocks' : downloadBlocks'[s].file <= wanted
    <3>1. downloadName <= wanted /\ \A s \in DOMAIN downloadBlocks : downloadBlocks[s].file <= wanted
      BY DEF Transfer, Session
    <3>. QED
      BY <2>4, <3>1
  <2>6. CASE downloadName = wanted
    <3>1. Window(first, current, xmit, downloadBlocks)
      <4>1. CASE download
        BY <1>3, <2>6, <4>1 DEF Transfer, Session, Opened
      <4>2. CASE ~download
        <5>1. Untouched /\ current = 0 /\ first = 0 /\ xmit = 0
          BY <1>3, <2>6, <4>2 DEF Transfer, Session
        <5>2. 0 <= Limit(0)
          BY <2>2, ConstantsAssumption DEF Limit, Ahead, Files
        <5>3. \A n \in 0 .. 0 - 1 : FALSE
          OBVIOUS
        <5>. QED
          BY <5>1, <5>2, <5>3, Numbers DEF Untouched, Window
      <4>. QED
        BY <4>1, <4>2
    <3>2. OnTheWay' /\ Opened'
      BY <1>1, <1>3, <2>6, <3>1, Streams DEF Transfer, Session
    <3>3. Begun
      BY <2>6 DEF Transfer, Session
    <3>4. downloadName' = wanted' /\ wanted' <= wanted'
      BY <1>1, <1>3, <2>6, ClientWaits, Numbers
    <3>5. Session'
      BY <1>1, <2>1, <2>3, <2>5, <3>2, <3>3, <3>4, ClientWaits DEF Session
    <3>. QED
      BY <2>1, <3>2, <3>5
  <2>7. CASE downloadName # wanted
    <3>1. ~Begun /\ Untouched /\ downloadName <= wanted
      BY <1>1, <2>7 DEF Transfer, Session
    <3>2. \A s \in DOMAIN downloadBlocks' : ~IsOwn(downloadBlocks'[s])
      BY <2>4, <2>7, <3>1 DEF Untouched, IsOwn
    <3>3. OnTheWay' /\ \A i \in DOMAIN toClient' : ~IsOwn(toClient'[i].block)
      <4>1. ASSUME NEW n \in Nat, SendBlock(n)
            PROVE  OnTheWay' /\ \A i \in DOMAIN toClient' : ~IsOwn(toClient'[i].block)
        <5>1. PICK m : /\ m = [type |-> "block", ack |-> lastClientCommand, number |-> n,
                               block |-> downloadBlocks'[WindowSlot(n)]]
                       /\ Send(m)
          BY <4>1 DEF SendBlock
        <5>2. WindowSlot(n) \in DOMAIN downloadBlocks'
          BY <2>4, SlotType, Numbers
        <5>3. downloadBlocks'[WindowSlot(n)] \in Block
          <6>1. downloadBlocks' \in [0 .. MAX_DOWNLOAD_WINDOW - 1 -> Block]
            BY <1>3, <2>2, ReadAheadType DEF IInv
          <6>. QED
            BY <6>1, SlotType
        <5>4. m \in Message
          BY <5>1, <5>3, Numbers DEF Message
        <5>5. m.block.file <= wanted /\ ~IsOwn(m.block)
          BY <2>5, <3>2, <5>1, <5>2
        <5>. QED
          BY <1>1, <3>1, <5>1, <5>4, <5>5, SendsOther DEF Transfer, Untouched
      <4>2. CASE UNCHANGED toClient
        BY <1>1, <3>1, <4>2, ClientWaits DEF Transfer, OnTheWay, Due, Untouched
      <4>3. downloadClientBlock' = first
        BY <1>3 DEF ReadAhead
      <4>. QED
        BY <1>3, <4>1, <4>2, <4>3 DEF Transmit
    <3>4. Untouched'
      BY <1>1, <3>1, <3>2, <3>3, ClientWaits DEF Untouched
    <3>5. Session'
      BY <1>1, <1>3, <2>1, <2>5, <2>7, <3>1, <3>4, ClientWaits DEF Session
    <3>. QED
      BY <2>1, <3>3, <3>5
  <2>. QED
    BY <2>6, <2>7
<1>4. /\ downloadCurrentBlock \in Nat /\ downloadClientBlock \in Nat /\ downloadXmitBlock \in Nat
      /\ 0 \in Nat
  BY DEF IInv, ServerType
<1>. QED
  BY <1>2, <1>3, <1>4 DEF SV_SendDownloadMessages

\* Without a file the server sends snapshots.
LEMMA SendsSnapshot ==
    ASSUME IInv, Transfer, SV_SendClientSnapshot
    PROVE  Transfer'
<1>1. PICK m : /\ m = [type |-> "snapshot", ack |-> lastClientCommand, number |-> 0, block |-> Unknown]
               /\ Send(m)
  BY DEF SV_SendClientSnapshot
<1>2. m \in Message /\ m.block = Unknown
  BY <1>1 DEF IInv, Commands, Message, Block, Unknown
<1>3. UNCHANGED <<client, lastClientCommand, downloadBlocks>> /\ downloadName' = 0
  BY DEF SV_SendClientSnapshot, server, window
<1>. QED
  BY <1>1, <1>2, <1>3, SendsUnknown

--------------------------------------------------------------------------------
(* A message arrives. *)

Nextdl == Command("nextdl", downloadBlock)

Fails == connected' = FALSE /\ UNCHANGED kept

\* The block goes to the file.
Appends(m) ==
    /\ Awaited(m) /\ ~IsEOF(m.block)
    /\ Fit(1) /\ CL_AddReliableCommands(<<Nextdl>>)
    /\ received' = Append(received, m.block)
    /\ downloadBlock' = downloadBlock + 1
    /\ UNCHANGED <<connected, wanted, kept>>

\* The next file is asked for.
AsksNext ==
    /\ wanted + 1 \in Files /\ wanted' = wanted + 1 /\ downloadBlock' = 0
    /\ Fit(2) /\ CL_AddReliableCommands(<<Nextdl, Command("download", wanted + 1)>>)

\* The file is whole.
Keeps ==
    /\ received = Whole(wanted)
    /\ kept' = wanted
    /\ received' = <<>>
    /\ UNCHANGED connected
    /\ wanted' = 0 \/ AsksNext

\* What a message may do to the file.
LEMMA Outcomes ==
    ASSUME connected = TRUE, NEW m, (m.type = "snapshot" /\ Ignore) \/ CL_ParseDownload(m)
    PROVE  \/ Ignore
           \/ Fails
           \/ wanted = 0 /\ UNCHANGED <<connected, wanted, received, kept>>
           \/ wanted # 0 /\ Appends(m)
           \/ wanted # 0 /\ Keeps
<1>1. ASSUME Leave PROVE Fails
  BY <1>1 DEF Leave, Stay, Fails
<1>2. ASSUME wanted = 0, Unasked
      PROVE  Fails \/ (wanted = 0 /\ UNCHANGED <<connected, wanted, received, kept>>)
  BY <1>1, <1>2 DEF Unasked, Fails
<1>3. ASSUME NEW block, Take(block)
      PROVE  \/ Fails
             \/ /\ ~IsEOF(block)
                /\ Fit(1) /\ CL_AddReliableCommands(<<Nextdl>>)
                /\ received' = Append(received, block)
                /\ downloadBlock' = downloadBlock + 1
                /\ UNCHANGED <<connected, wanted, kept>>
             \/ Keeps
  <2>1. CASE CL_NextDownload(Nextdl)
    BY <2>1, Zenon DEF CL_NextDownload, Fails, Keeps, AsksNext
  <2>. QED
    BY <1>1, <1>3, <2>1, Zenon DEF Take, Nextdl
<1>4. IsEOF(Unknown)
  BY ConstantsAssumption DEF IsEOF, Unknown, Files
<1>5. \/ Ignore
      \/ Leave
      \/ wanted = 0 /\ Unasked
      \/ wanted # 0 /\ Take(Unknown)
      \/ wanted # 0 /\ Awaited(m) /\ Take(m.block)
  BY Zenon DEF CL_ParseDownload
<1>6. CASE wanted # 0 /\ Take(Unknown)
  BY <1>3, <1>4, <1>6, Zenon
<1>7. CASE wanted # 0 /\ Awaited(m) /\ Take(m.block)
  BY <1>3, <1>7, Zenon DEF Appends
<1>. QED
  BY <1>1, <1>2, <1>5, <1>6, <1>7, Zenon

\* What is under way behind the message.
LEMMA Behind ==
    ASSUME IInv, NEW i \in DOMAIN toClient, Reads(i)
    PROVE  /\ \A j \in DOMAIN toClient' :
                 /\ j \in Nat /\ i + j \in DOMAIN toClient /\ i < i + j
                 /\ toClient'[j] = toClient[i + j]
           /\ i \in Nat
           /\ UNCHANGED <<server, lastClientCommand, downloadName, download, downloadCurrentBlock,
                          downloadClientBlock, downloadXmitBlock, downloadBlocks>>
<1>1. PICK next : next = toClient'
  OBVIOUS
<1>2. /\ \A j \in DOMAIN next : j \in Nat /\ i + j \in DOMAIN toClient /\ next[j] = toClient[i + j]
      /\ next \in Seq(Message) /\ i \in Nat \ {0}
  BY <1>1, AfterArrives DEF IInv, Acks, Reads
<1>3. \A j \in DOMAIN next : j > 0
  BY <1>2
<1>4. \A j \in DOMAIN next : i < i + j
  BY <1>2, <1>3
<1>. QED
  BY <1>1, <1>2, <1>4 DEF Reads, server, window

\* The commands after the client added some.
LEMMA SaidLater ==
    ASSUME IInv, NEW i \in DOMAIN toClient, Reads(i),
           NEW new \in Seq(Asked), Fit(Len(new)), CL_AddReliableCommands(new),
           NEW l \in Nat, l = lastClientCommand, NEW r \in Nat, r = reliableSequence
    PROVE  /\ Unexecuted = l + 1 .. r /\ Unexecuted' = l + 1 .. r + Len(new)
           /\ \A n \in l + 1 .. r : Said(n)' = Said(n)
           /\ \A j \in 1 .. Len(new) : Said(r + j)' = new[j]
<1>1. /\ GetsInRing(new) /\ StaysInRing /\ reliableSequence' = r + Len(new)
      /\ lastClientCommand' = l
  BY AddsCommands, ReadsHeader
<1>2. \A n \in l + 1 .. r : n \in Nat /\ l < n /\ n <= r
  OBVIOUS
<1>3. \A n \in l + 1 .. r : Said(n)' = Said(n)
  BY <1>1, <1>2 DEF StaysInRing, Said
<1>4. \A j \in 1 .. Len(new) : Said(r + j)' = new[j]
  BY <1>1 DEF GetsInRing, Said
<1>. QED
  BY <1>1, <1>3, <1>4 DEF Unexecuted

\* The client does nothing about the file.
LEMMA Ignores ==
    ASSUME IInv, Transfer, NEW i \in DOMAIN toClient, Reads(i), Ignore
    PROVE  Transfer'
<1>1. UNCHANGED <<connected, reliableSequence, reliableCommands, wanted, downloadBlock, received, kept>>
  BY DEF Ignore, Stay
<1>. SUFFICES ASSUME Active PROVE (Writes /\ InTurn /\ OnTheWay /\ Session)'
  BY <1>1, ClientStays DEF Transfer
<1>2. /\ \A j \in DOMAIN toClient' :
            /\ j \in Nat /\ i + j \in DOMAIN toClient /\ i < i + j
            /\ toClient'[j] = toClient[i + j]
      /\ i \in Nat
      /\ UNCHANGED <<lastClientCommand, downloadName, download, downloadCurrentBlock,
                     downloadClientBlock, downloadXmitBlock, downloadBlocks>>
  BY Behind
<1>3. Writes' /\ InTurn' /\ (Begun' <=> Begun)
  BY <1>1, <1>2, ClientStays, TurnStays DEF Transfer
<1>4. OnTheWay'
  <2>1. \A j \in DOMAIN toClient' : IsOwn(toClient'[j].block) => Due(toClient'[j])
    BY <1>2 DEF Transfer, OnTheWay
  <2>2. \A h, j \in DOMAIN toClient' : h < j => i + h < i + j
    BY <1>2
  <2>3. \A h, j \in DOMAIN toClient' :
          h < j /\ IsOwn(toClient'[h].block) /\ IsOwn(toClient'[j].block)
            => toClient'[h].number + 1 <= toClient'[j].number + MAX_DOWNLOAD_WINDOW
    BY <1>2, <2>2 DEF Transfer, OnTheWay
  <2>4. \A j \in DOMAIN toClient' : toClient'[j].block.file <= wanted
    BY <1>2 DEF Transfer, OnTheWay
  <2>. QED
    BY <1>1, <2>1, <2>3, <2>4, ClientStays DEF OnTheWay, Due
<1>5. Session'
  <2>1. Untouched => Untouched'
    BY <1>1, <1>2, ClientStays DEF Untouched
  <2>2. ASSUME Opened, downloadName = wanted PROVE Opened'
    <3>1. \A j \in DOMAIN toClient' : IsOwn(toClient'[j].block) =>
            /\ toClient'[j].number < downloadCurrentBlock
            /\ toClient'[j].number + 2 <= downloadXmitBlock + MAX_DOWNLOAD_WINDOW
      BY <1>2, <2>2 DEF Opened, Window
    <3>2. Limit(downloadClientBlock)' = Limit(downloadClientBlock)
      BY <1>2 DEF Limit
    <3>. QED
      BY <1>1, <1>2, <2>2, <3>1, <3>2, ClientStays DEF Opened, Window
  <2>. QED
    BY <1>1, <1>2, <1>3, <2>1, <2>2, ClientStays DEF Transfer, Session
<1>. QED
  BY <1>3, <1>4, <1>5

\* A block that the client awaits is the next one of its file, or of another file.
LEMMA NextOfFile ==
    ASSUME IInv, Transfer, Active, NEW i \in DOMAIN toClient,
           Awaited(toClient[i]), ~IsEOF(toClient[i].block), IsOwn(toClient[i].block)
    PROVE  /\ toClient[i].number = downloadBlock
           /\ toClient[i].block = [file |-> wanted, number |-> downloadBlock]
           /\ downloadBlock + 1 <= Blocks[wanted]
<1>1. PICK d \in Nat, n \in Nat, W \in Nat, M \in Nat \ {0} :
        /\ d = downloadBlock /\ n = toClient[i].number
        /\ W = MAX_DOWNLOAD_WINDOW /\ M = BlockModulus /\ W < M
  BY Numbers, ConstantsAssumption
<1>2. Due(toClient[i])
  BY DEF Transfer, OnTheWay
<1>3. n < d + W /\ d <= n + W /\ (toClient[i].block.number = n \/ n < d)
  BY <1>1, <1>2 DEF Due
<1>4. n % M = d % M
  BY <1>1 DEF Awaited, Number
<1>5. n < d + M /\ d < n + M
  BY <1>1, <1>3
<1>6. n = d
  <2>1. CASE n < d
    BY <1>4, <1>5, <2>1, Distinct
  <2>2. CASE d < n
    BY <1>4, <1>5, <2>2, Distinct
  <2>. QED
    BY <2>1, <2>2
<1>7. toClient[i].block \in Block
  <2>1. toClient[i] \in Message
    BY DEF IInv, Acks
  <2>. QED
    BY <2>1 DEF Message
<1>8. toClient[i].block = [file |-> wanted, number |-> d]
  BY <1>3, <1>6, <1>7 DEF Block, IsOwn
<1>9. d < Blocks[wanted]
  <2>1. wanted \in Files /\ Blocks[wanted] \in Nat
    BY Numbers
  <2>2. ~(d >= Blocks[wanted])
    BY <1>8, <2>1 DEF IsEOF
  <2>. QED
    BY <2>1, <2>2
<1>10. d + 1 <= Blocks[wanted]
  BY <1>9, Numbers
<1>. QED
  BY <1>1, <1>6, <1>8, <1>10

\* The block goes to the file.
LEMMA AppendsOwn ==
    ASSUME IInv, Transfer, Active, NEW i \in DOMAIN toClient, Reads(i), Appends(toClient[i]),
           IsOwn(toClient[i].block)
    PROVE  Transfer'
<1>1. PICK d \in Nat, l \in Nat, r \in Nat, W \in Nat, f \in Nat :
        /\ d = downloadBlock /\ l = lastClientCommand /\ r = reliableSequence
        /\ W = MAX_DOWNLOAD_WINDOW /\ f = wanted
  BY Numbers
<1>2. /\ toClient[i].number = d /\ toClient[i].block = [file |-> f, number |-> d]
      /\ d + 1 <= Blocks[f]
  BY <1>1, NextOfFile DEF Appends
<1>3. downloadBlock' = d + 1 /\ wanted' = f /\ kept' = kept /\ received' = Append(received, toClient[i].block)
  BY <1>1 DEF Appends
<1>4. /\ \A j \in DOMAIN toClient' :
            /\ j \in Nat /\ i + j \in DOMAIN toClient /\ i < i + j
            /\ toClient'[j] = toClient[i + j]
      /\ i \in Nat
      /\ UNCHANGED <<lastClientCommand, downloadName, download, downloadCurrentBlock,
                     downloadClientBlock, downloadXmitBlock, downloadBlocks>>
  BY Behind
<1>5. \A j \in DOMAIN toClient' : toClient'[j].number \in Nat /\ toClient'[j].block.file \in Nat
  BY <1>4, Numbers
<1>6. Writes'
  <2>1. received \in Seq(Block) /\ Len(received) = d /\ kept + 1 = f
    BY <1>1 DEF Transfer, Writes, IInv, ClientType
  <2>2. Len(received') = d + 1
    BY <1>3, <2>1
  <2>3. ASSUME NEW k \in 1 .. d + 1 PROVE received'[k] = [file |-> f, number |-> k - 1]
    <3>1. CASE k \in 1 .. d
      BY <1>1, <1>3, <2>1, <3>1 DEF Transfer, Writes
    <3>2. CASE k = d + 1
      BY <1>2, <1>3, <2>1, <3>2
    <3>. QED
      BY <3>1, <3>2
  <2>. QED
    BY <1>2, <1>3, <2>1, <2>2, <2>3 DEF Writes
<1>7. PICK nextdl \in Asked : nextdl = Nextdl /\ nextdl.name = "nextdl" /\ nextdl.arg = d
  <2>1. Nextdl = [name |-> "nextdl", arg |-> d]
    BY <1>1 DEF Nextdl, Command
  <2>2. Nextdl \in Asked
    BY <2>1 DEF Asked, ClientCommand
  <2>. QED
    BY <2>1, <2>2
<1>8. /\ Unexecuted = l + 1 .. r /\ Unexecuted' = l + 1 .. r + 1
      /\ \A n \in l + 1 .. r : Said(n)' = Said(n)
      /\ Said(r + 1)' = nextdl
  <2>1. PICK new \in Seq(Asked) : new = <<nextdl>> /\ Len(new) = 1 /\ new[1] = nextdl
    BY OneTwo
  <2>2. Fit(Len(new)) /\ CL_AddReliableCommands(new)
    BY <1>7, <2>1 DEF Appends
  <2>3. /\ Unexecuted = l + 1 .. r /\ Unexecuted' = l + 1 .. r + Len(new)
        /\ \A n \in l + 1 .. r : Said(n)' = Said(n)
        /\ \A j \in 1 .. Len(new) : Said(r + j)' = new[j]
    BY <1>1, <2>2, SaidLater
  <2>4. 1 \in 1 .. Len(new)
    BY <2>1
  <2>. QED
    BY <2>1, <2>3, <2>4
<1>9. l <= r
  BY <1>1 DEF IInv, Commands
<1>10. /\ \A n \in l + 1 .. r : n \in l + 1 .. r + 1
       /\ \A n \in l + 1 .. r + 1 : n \in l + 1 .. r \/ n = r + 1
  BY <1>9
<1>11. Asks' = Asks /\ nextdl # Asks
  BY <1>1, <1>3, <1>7 DEF Asks, Command
<1>12. InTurn'
  <2>1. ASSUME NEW n \in l + 1 .. r + 1, Said(n)'.name \in {"nextdl", "download"}
        PROVE  \/ Said(n)'.name = "nextdl" /\ Said(n)'.arg < d + 1
               \/ \E m \in l + 1 .. r + 1 : n <= m /\ Said(m)' = Asks
    <3>1. CASE n \in l + 1 .. r
      <4>1. CASE Said(n).name = "nextdl" /\ Said(n).arg < d
        <5>1. Said(n) \in Asked
          BY SlotType, <3>1 DEF Said, IInv, Commands
        <5>2. Said(n).arg \in Nat
          BY <5>1 DEF Asked, ClientCommand
        <5>3. Said(n).arg < d + 1
          BY <4>1, <5>2
        <5>. QED
          BY <1>8, <3>1, <4>1, <5>3
      <4>2. CASE \E m \in l + 1 .. r : n <= m /\ Said(m) = Asks
        BY <1>8, <1>10, <4>2
      <4>3. Said(n).name \in {"nextdl", "download"}
        BY <1>8, <2>1, <3>1
      <4>. QED
        BY <1>1, <1>8, <3>1, <4>1, <4>2, <4>3 DEF Transfer, InTurn
    <3>2. CASE n = r + 1
      BY <1>7, <1>8, <3>2
    <3>. QED
      BY <1>10, <3>1, <3>2
  <2>2. \A m, n \in l + 1 .. r + 1 : Said(m)' = Asks /\ Said(n)' = Asks => m = n
    BY <1>8, <1>10, <1>11 DEF Transfer, InTurn
  <2>3. \A n \in l + 1 .. r + 1 : Said(n)'.name = "download" => Said(n)'.arg <= f
    BY <1>1, <1>7, <1>8, <1>10 DEF Transfer, InTurn
  <2>. QED
    BY <1>3, <1>8, <1>11, <2>1, <2>2, <2>3 DEF InTurn
<1>13. Begun' <=> Begun
  BY <1>8, <1>10, <1>11 DEF Begun
<1>14. OnTheWay'
  <2>1. ASSUME NEW j \in DOMAIN toClient', toClient'[j].block.file = f
        PROVE  /\ toClient'[j].number < d + 1 + W /\ d + 1 <= toClient'[j].number + W
               /\ toClient'[j].block.number = toClient'[j].number \/ toClient'[j].number < d + 1
    <3>1. PICK n \in Nat : n = toClient'[j].number
      BY <1>5
    <3>2. i + j \in DOMAIN toClient /\ i < i + j /\ IsOwn(toClient[i + j].block)
      BY <1>1, <1>4, <2>1 DEF IsOwn
    <3>3. Due(toClient'[j])
      BY <1>4, <3>2 DEF Transfer, OnTheWay
    <3>4. n < d + W /\ d <= n + W /\ (toClient'[j].block.number = n \/ n < d)
      BY <1>1, <3>1, <3>3 DEF Due
    <3>5. d + 1 <= n + W
      BY <1>1, <1>2, <1>4, <3>1, <3>2 DEF Transfer, OnTheWay
    <3>6. n < d + 1 + W /\ (toClient'[j].block.number = n \/ n < d + 1)
      BY <3>4
    <3>. QED
      BY <3>1, <3>5, <3>6
  <2>2. ASSUME NEW h \in DOMAIN toClient', NEW j \in DOMAIN toClient',
               h < j, toClient'[h].block.file = f, toClient'[j].block.file = f
        PROVE  toClient'[h].number + 1 <= toClient'[j].number + W
    <3>1. i + h < i + j
      BY <1>4, <2>2
    <3>. QED
      BY <1>1, <1>4, <2>2, <3>1 DEF Transfer, OnTheWay, IsOwn
  <2>3. \A j \in DOMAIN toClient' : toClient'[j].block.file <= f
    BY <1>1, <1>4 DEF Transfer, OnTheWay
  <2>. QED
    BY <1>1, <1>3, <2>1, <2>2, <2>3 DEF OnTheWay, Due, IsOwn
<1>15. Session'
  <2>1. Begun /\ ~Untouched
    BY DEF Transfer, Session, Untouched
  <2>2. /\ downloadName \in {0, f} /\ downloadName <= f
        /\ \A s \in DOMAIN downloadBlocks : downloadBlocks[s].file <= f
    BY <1>1, <2>1 DEF Transfer, Session
  <2>3. ASSUME downloadName = f PROVE download /\ Opened'
    <3>1. download /\ Opened
      BY <1>1, <2>1, <2>3 DEF Transfer, Session
    <3>2. PICK first \in Nat, last \in Nat, xmit \in Nat :
            /\ first = downloadClientBlock /\ last = downloadCurrentBlock /\ xmit = downloadXmitBlock
      BY Numbers
    <3>3. /\ first <= d /\ d < last /\ xmit <= last /\ d + 2 <= xmit + W
      BY <1>1, <1>2, <3>1, <3>2 DEF Opened, Window
    <3>4. first <= d + 1 /\ d + 1 <= last /\ (d + 1) + 1 <= xmit + W
      BY <3>3
    <3>5. last <= Limit(first) /\ Limit(first)' = Limit(first)
      BY <1>4, <3>1, <3>2 DEF Opened, Window, Limit
    <3>6. \A n \in first .. last - 1 : downloadBlocks[WindowSlot(n)] = [file |-> f, number |-> n]
      BY <1>1, <3>1, <3>2 DEF Opened, Window
    <3>7. \A j \in DOMAIN toClient' : toClient'[j].block.file = f =>
            toClient'[j].number < last /\ toClient'[j].number + 2 <= xmit + W
      BY <1>1, <1>4, <3>1, <3>2 DEF Opened, Window, IsOwn
    <3>8. Window(first, last, xmit, downloadBlocks)'
      BY <1>1, <1>3, <1>4, <3>3, <3>4, <3>5, <3>6, <3>7 DEF Window, IsOwn
    <3>. QED
      BY <1>4, <3>1, <3>2, <3>8 DEF Opened, Window
  <2>. QED
    BY <1>3, <1>4, <1>13, <2>1, <2>2, <2>3 DEF Session
<1>. QED
  BY <1>6, <1>12, <1>14, <1>15 DEF Transfer

\* The file is whole: the next one is asked for, and nothing of it has been read or sent.
LEMMA KeepsFile ==
    ASSUME IInv, Transfer, Active, NEW i \in DOMAIN toClient, Reads(i), Keeps
    PROVE  Transfer'
<1>1. CASE wanted' = 0
  BY <1>1 DEF Transfer, Active
<1>2. CASE AsksNext
  <2>1. PICK d \in Nat, l \in Nat, r \in Nat, f \in Nat :
          /\ d = downloadBlock /\ l = lastClientCommand /\ r = reliableSequence /\ f = wanted
    BY Numbers
  <2>2. /\ f + 1 \in Files /\ wanted' = f + 1 /\ kept' = f /\ received' = <<>> /\ downloadBlock' = 0
    BY <1>2, <2>1 DEF Keeps, AsksNext
  <2>3. /\ \A j \in DOMAIN toClient' :
              /\ j \in Nat /\ i + j \in DOMAIN toClient /\ i < i + j
              /\ toClient'[j] = toClient[i + j]
        /\ UNCHANGED <<lastClientCommand, downloadName, download, downloadBlocks>>
    BY Behind
  <2>4. Writes'
    <3>1. Blocks[f + 1] \in Nat
      BY <2>2, ConstantsAssumption DEF Files
    <3>2. 0 <= Blocks[f + 1] /\ Len(<<>>) = 0 /\ \A k \in 1 .. 0 : FALSE
      BY <3>1
    <3>. QED
      BY <2>2, <3>2 DEF Writes
  <2>5. PICK nextdl \in Asked : nextdl = Nextdl /\ nextdl.name = "nextdl"
    <3>1. Nextdl = [name |-> "nextdl", arg |-> d]
      BY <2>1 DEF Nextdl, Command
    <3>2. Nextdl \in Asked
      BY <3>1 DEF Asked, ClientCommand
    <3>. QED
      BY <3>1, <3>2
  <2>6. PICK asks \in Asked : asks = [name |-> "download", arg |-> f + 1]
    <3>1. [name |-> "download", arg |-> f + 1] \in Asked
      BY <2>2 DEF Asked, ClientCommand
    <3>. QED
      BY <3>1
  <2>7. asks = Command("download", wanted + 1) /\ asks = Asks'
    BY <2>1, <2>2, <2>6 DEF Command, Asks
  <2>8. /\ Unexecuted = l + 1 .. r /\ Unexecuted' = l + 1 .. r + 2
        /\ \A n \in l + 1 .. r : Said(n)' = Said(n)
        /\ Said(r + 1)' = nextdl /\ Said(r + 2)' = asks
    <3>1. PICK new \in Seq(Asked) :
            new = <<nextdl, asks>> /\ Len(new) = 2 /\ new[1] = nextdl /\ new[2] = asks
      BY OneTwo
    <3>2. Fit(Len(new)) /\ CL_AddReliableCommands(new)
      BY <1>2, <2>5, <2>7, <3>1 DEF AsksNext
    <3>3. /\ Unexecuted = l + 1 .. r /\ Unexecuted' = l + 1 .. r + Len(new)
          /\ \A n \in l + 1 .. r : Said(n)' = Said(n)
          /\ \A j \in 1 .. Len(new) : Said(r + j)' = new[j]
      BY <2>1, <3>2, SaidLater
    <3>4. 1 \in 1 .. Len(new) /\ 2 \in 1 .. Len(new)
      BY <3>1
    <3>. QED
      BY <3>1, <3>3, <3>4
  <2>9. l <= r
    BY <2>1 DEF IInv, Commands
  <2>10. /\ \A n \in l + 1 .. r + 2 : n \in l + 1 .. r \/ n = r + 1 \/ n = r + 2
         /\ r + 2 \in l + 1 .. r + 2
         /\ \A n \in l + 1 .. r + 2 : n <= r + 2
    BY <2>9
  <2>11. \A n \in l + 1 .. r : Said(n)'.name = "download" => Said(n)'.arg \in Nat /\ Said(n)'.arg <= f
    <3>1. \A n \in Nat : Said(n) \in Asked
      BY SlotType DEF Said, IInv, Commands
    <3>2. \A n \in l + 1 .. r : n \in Nat
      OBVIOUS
    <3>3. \A n \in l + 1 .. r : Said(n).arg \in Nat
      BY <3>1, <3>2 DEF Asked, ClientCommand
    <3>. QED
      BY <2>1, <2>8, <3>3 DEF Transfer, InTurn
  <2>12. \A n \in l + 1 .. r : Said(n)' # asks
    <3>1. ~(f + 1 <= f)
      OBVIOUS
    <3>. QED
      BY <2>6, <2>11, <3>1
  <2>13. InTurn'
    <3>1. \A n \in l + 1 .. r + 2 : Said(n)' = asks => n = r + 2
      BY <2>5, <2>6, <2>8, <2>10, <2>12
    <3>2. \A n \in l + 1 .. r + 2 : Said(n)'.name = "download" => Said(n)'.arg <= f + 1
      <4>. SUFFICES ASSUME NEW n \in l + 1 .. r + 2, Said(n)'.name = "download"
                    PROVE  Said(n)'.arg <= f + 1
        OBVIOUS
      <4>1. CASE n \in l + 1 .. r
        <5>1. Said(n)'.arg \in Nat /\ Said(n)'.arg <= f
          BY <2>11, <4>1
        <5>. QED
          BY <5>1
      <4>2. CASE n = r + 1
        BY <2>5, <2>8, <4>2
      <4>3. CASE n = r + 2
        BY <2>6, <2>8, <4>3
      <4>. QED
        BY <2>10, <4>1, <4>2, <4>3
    <3>3. \A m, n \in l + 1 .. r + 2 : Said(m)' = asks /\ Said(n)' = asks => m = n
      BY <3>1
    <3>4. \A n \in l + 1 .. r + 2 : \E m \in l + 1 .. r + 2 : n <= m /\ Said(m)' = asks
      BY <2>8, <2>10
    <3>. QED
      BY <2>2, <2>7, <2>8, <3>2, <3>3, <3>4 DEF InTurn
  <2>14. ~Begun'
    BY <2>7, <2>8, <2>10 DEF Begun
  <2>15. \A j \in DOMAIN toClient' :
           toClient'[j].block.file <= f + 1 /\ toClient'[j].block.file # f + 1
    <3>1. \A j \in DOMAIN toClient' :
            toClient'[j].block.file \in Nat /\ toClient'[j].block.file <= f
      BY <2>1, <2>3, Numbers DEF Transfer, OnTheWay
    <3>. QED
      BY <3>1
  <2>16. OnTheWay'
    BY <2>2, <2>15 DEF OnTheWay, IsOwn
  <2>17. \A s \in DOMAIN downloadBlocks :
           downloadBlocks[s].file <= f + 1 /\ downloadBlocks[s].file # f + 1
    <3>1. \A s \in DOMAIN downloadBlocks :
            downloadBlocks[s].file \in Nat /\ downloadBlocks[s].file <= f
      BY <2>1, Numbers DEF Transfer, Session
    <3>. QED
      BY <3>1
  <2>18. downloadName <= f + 1 /\ downloadName # f + 1
    <3>1. downloadName \in Nat
      BY ConstantsAssumption DEF IInv, ServerType, Files
    <3>2. downloadName <= f
      BY <2>1 DEF Transfer, Session
    <3>. QED
      BY <3>1, <3>2
  <2>19. Untouched'
    BY <2>2, <2>3, <2>15, <2>17 DEF Untouched, IsOwn
  <2>20. Session'
    BY <2>2, <2>3, <2>14, <2>17, <2>18, <2>19 DEF Session
  <2>. QED
    BY <2>4, <2>13, <2>16, <2>20 DEF Transfer
<1>. QED
  BY <1>1, <1>2 DEF Keeps

\* A file that has got a block of another keeps it.
LEMMA AlienStays ==
    ASSUME received \in Seq(Block), NEW block \in Block, received' = Append(received, block),
           wanted' = wanted, Alien \/ ~IsOwn(block)
    PROVE  Alien'
<1>1. PICK n \in Nat : n = Len(received) /\ DOMAIN received = 1 .. n
  OBVIOUS
<1>2. /\ DOMAIN received' = 1 .. n + 1 /\ received'[n + 1] = block
      /\ \A k \in 1 .. n : received'[k] = received[k] /\ k \in 1 .. n + 1
      /\ n + 1 \in 1 .. n + 1
  BY <1>1
<1>3. CASE Alien
  BY <1>1, <1>2, <1>3 DEF Alien
<1>4. CASE ~IsOwn(block)
  BY <1>2, <1>4 DEF Alien, IsOwn
<1>. QED
  BY <1>3, <1>4

\* A whole file has no block of another.
LEMMA WholeIsOwn == received = Whole(wanted) => ~Alien
BY DEF Whole, Alien

\* The block of a message, and the file, as Append takes them.
LEMMA MessageArrives ==
    ASSUME IInv, NEW i \in DOMAIN toClient, Reads(i)
    PROVE  toClient[i].block \in Block /\ received \in Seq(Block)
<1>1. toClient[i] \in Message
  BY DEF IInv, Acks
<1>. QED
  BY <1>1 DEF Message, IInv, ClientType

\* What an arrival may do to the file.
LEMMA ParsesMessage ==
    ASSUME IInv, CL_ParseServerMessage
    PROVE  \E i \in DOMAIN toClient :
              /\ Reads(i) /\ connected = TRUE
              /\ \/ Ignore
                 \/ Fails
                 \/ wanted = 0 /\ UNCHANGED <<connected, wanted, received, kept>>
                 \/ wanted # 0 /\ Appends(toClient[i])
                 \/ wanted # 0 /\ Keeps
<1>1. connected = TRUE
  BY DEF CL_ParseServerMessage, IInv, ClientType
<1>2. PICK i \in DOMAIN toClient :
        /\ Reads(i)
        /\ (toClient[i].type = "snapshot" /\ Ignore) \/ CL_ParseDownload(toClient[i])
  BY Zenon DEF CL_ParseServerMessage, Reads
<1>. QED
  BY <1>1, <1>2, Outcomes, Zenon

\* One case for each outcome.
LEMMA Arrived ==
    ASSUME IInv, Transfer, CL_ParseServerMessage
    PROVE  Transfer'
<1>1. PICK i \in DOMAIN toClient :
        /\ Reads(i) /\ connected = TRUE
        /\ \/ Ignore
           \/ Fails
           \/ wanted = 0 /\ UNCHANGED <<connected, wanted, received, kept>>
           \/ wanted # 0 /\ Appends(toClient[i])
           \/ wanted # 0 /\ Keeps
  BY ParsesMessage, Zenon
<1>2. CASE Ignore
  BY <1>1, <1>2, Ignores
<1>3. CASE Fails
  BY <1>3 DEF Fails, Transfer, Active, Failed
<1>4. CASE wanted = 0 /\ UNCHANGED <<connected, wanted, received, kept>>
  BY <1>4 DEF Transfer, Active
<1>5. CASE wanted # 0 /\ Appends(toClient[i])
  <2>1. CASE Active /\ IsOwn(toClient[i].block)
    BY <1>1, <1>5, <2>1, AppendsOwn
  <2>2. CASE Alien \/ ~IsOwn(toClient[i].block)
    <3>1. Alien'
      BY <1>1, <1>5, <2>2, MessageArrives, AlienStays DEF Appends
    <3>. QED
      BY <3>1 DEF Transfer, Active, Failed
  <2>. QED
    BY <1>1, <1>5, <2>1, <2>2 DEF Active, Failed
<1>6. CASE wanted # 0 /\ Keeps
  <2>1. Active
    BY <1>1, <1>6, WholeIsOwn DEF Active, Failed, Keeps
  <2>. QED
    BY <1>1, <1>6, <2>1, KeepsFile
<1>. QED
  BY <1>1, <1>2, <1>3, <1>4, <1>5, <1>6

--------------------------------------------------------------------------------
(* The refinement. *)

\* The client has asked for the first file, and nothing has been sent.
LEMMA InitTransfer ==
    ASSUME Init
    PROVE  Transfer
<1>. USE DEF Init
<1>1. PICK M \in Nat \ {0} : M = MAX_RELIABLE_COMMANDS
  BY ConstantsAssumption
<1>2. Unexecuted = 1 .. 1 /\ Said(1) = Command("download", 1) /\ Asks = Command("download", 1)
  <2>1. CommandSlot(1) \in 0 .. MAX_RELIABLE_COMMANDS - 1
    BY SlotType DEF Slots
  <2>. QED
    BY <2>1 DEF Unexecuted, Said, Asks
<1>3. \A n \in 1 .. 1 : n = 1
  OBVIOUS
<1>4. 1 \in Files /\ Blocks[1] \in Nat
  BY ConstantsAssumption DEF Files
<1>5. DOMAIN toClient = {} /\ \A k \in 1 .. 0 : FALSE
  OBVIOUS
<1>6. Writes
  BY <1>4, <1>5 DEF Writes
<1>7. InTurn
  BY <1>2, <1>3 DEF InTurn, Command
<1>8. OnTheWay
  BY <1>5 DEF OnTheWay
<1>9. ~Begun
  BY <1>2 DEF Begun
<1>10. \A s \in DOMAIN downloadBlocks : downloadBlocks[s].file = 0
  BY DEF Unknown
<1>11. Untouched
  BY <1>5, <1>10 DEF Untouched, IsOwn
<1>12. Session
  BY <1>9, <1>10, <1>11 DEF Session
<1>. QED
  BY <1>6, <1>7, <1>8, <1>12 DEF Transfer

\* Every step of the two ends and the network.
LEMMA NextTransfer ==
    ASSUME IInv, Transfer, [Next]_vars
    PROVE  Transfer'
<1>1. CASE \/ UNCHANGED vars \/ CL_WritePacket \/ SV_ExecuteClientMessage
  <2>1. /\ UNCHANGED <<client, lastClientCommand, toClient, downloadCurrentBlock, downloadClientBlock,
                       downloadXmitBlock, downloadBlocks>>
        /\ UNCHANGED <<downloadName, download>> \/ (downloadName' = 0 /\ download' = FALSE)
    BY <1>1 DEF vars, server, window, CL_WritePacket, SV_ExecuteClientMessage
  <2>. QED
    BY <2>1, Closing
<1>2. CASE SV_BeginDownload_f \/ SV_NextDownload_f \/ SV_StopDownload_f \/ SV_DoneDownload_f
  BY <1>2, BeginsDownload, NextBlock, StopsOrIsDone
<1>3. CASE SV_SendClientSnapshot
  BY <1>3, SendsSnapshot
<1>4. CASE SV_SendDownloadMessages
  BY <1>4, SendsDownload
<1>5. CASE CL_ParseServerMessage
  BY <1>5, Arrived
<1>. QED
  BY <1>1, <1>2, <1>3, <1>4, <1>5 DEF Next, SV_Execute

\* What is known of the file that is sent is inductive with the invariant of the commands.
LEMMA TransferInvariance == Spec => [](IInv /\ Transfer)
<1>1. Init => IInv /\ Transfer
  BY InitInv, InitTransfer
<1>2. IInv /\ Transfer /\ [Next]_vars => (IInv /\ Transfer)'
  BY NextInv, NextTransfer
<1>. QED
  BY <1>1, <1>2, PTL DEF Spec

\* The client gets every file block by block, each once, in order and with its own data, and
\* keeps whole files only, or fails: for every window, ring, loss and number of files, as long
\* as a window has fewer blocks than the numbers it is sent with (CL_ParseDownload).
THEOREM Refinement == Spec => TransfersSpec
<1>1. Init => Transfers!Init
  <2>. SUFFICES ASSUME Init PROVE Transfers!Init
    OBVIOUS
  <2>1. ~Failed /\ kept = 0 /\ received = <<>>
    BY DEF Init, Failed, Alien
  <2>2. Failed = FALSE /\ (IF Failed THEN <<>> ELSE received) = <<>>
    BY <2>1 DEF Failed
  <2>. QED
    BY <2>1, <2>2 DEF Transfers!Init
<1>2. IInv /\ Transfer /\ [Next]_vars => [Transfers!Next]_Transfers!vars
  <2>. SUFFICES ASSUME IInv, Transfer, [Next]_vars PROVE [Transfers!Next]_Transfers!vars
    OBVIOUS
  <2>1. CASE UNCHANGED <<kept, received>> /\ (Failed' <=> Failed)
    BY <2>1 DEF Transfers!vars
  <2>2. CASE Failed' /\ UNCHANGED kept
    BY <2>2 DEF Transfers!Next, Transfers!Fail
  <2>3. CASE UNCHANGED client
    BY <2>1, <2>3, ClientWaits
  <2>4. CASE CL_ParseServerMessage
    <3>1. PICK i \in DOMAIN toClient :
            /\ Reads(i) /\ connected = TRUE
            /\ \/ Ignore
               \/ Fails
               \/ wanted = 0 /\ UNCHANGED <<connected, wanted, received, kept>>
               \/ wanted # 0 /\ Appends(toClient[i])
               \/ wanted # 0 /\ Keeps
      BY <2>4, ParsesMessage, Zenon
    <3>2. CASE Ignore \/ (wanted = 0 /\ UNCHANGED <<connected, wanted, received, kept>>)
      BY <2>1, <3>2 DEF Ignore, Stay, Failed, Alien
    <3>3. CASE Fails
      BY <2>2, <3>3 DEF Fails, Failed
    <3>4. CASE wanted # 0 /\ Appends(toClient[i])
      <4>1. CASE Alien \/ ~IsOwn(toClient[i].block)
        <5>1. Alien'
          BY <3>1, <3>4, <4>1, MessageArrives, AlienStays DEF Appends
        <5>. QED
          BY <2>2, <3>4, <5>1 DEF Appends, Failed
      <4>2. CASE ~Alien /\ IsOwn(toClient[i].block)
        <5>1. Active /\ ~Failed
          BY <3>1, <3>4, <4>2 DEF Active, Failed
        <5>2. PICK d \in Nat, f \in Nat : d = downloadBlock /\ f = wanted
          BY <5>1, Numbers
        <5>3. /\ toClient[i].block = [file |-> f, number |-> d] /\ d + 1 <= Blocks[f]
              /\ received' = Append(received, toClient[i].block)
              /\ UNCHANGED <<connected, wanted, kept>>
          BY <3>4, <4>2, <5>1, <5>2, NextOfFile DEF Appends
        <5>4. /\ f \in Files /\ Blocks[f] \in Nat /\ kept + 1 = f /\ Len(received) = d
              /\ received \in Seq(Block)
          BY <3>1, <5>1, <5>2, Numbers, MessageArrives DEF Transfer, Writes
        <5>5. ~Failed'
          <6>1. DOMAIN received = 1 .. d /\ DOMAIN received' = 1 .. d + 1
            BY <5>3, <5>4
          <6>2. \A k \in 1 .. d : received'[k] = received[k]
            BY <5>3, <5>4
          <6>3. received'[d + 1] = [file |-> f, number |-> d]
            BY <5>3, <5>4
          <6>4. \A k \in 1 .. d + 1 : k \in 1 .. d \/ k = d + 1
            OBVIOUS
          <6>5. \A k \in 1 .. d + 1 : received'[k].file = f
            BY <4>2, <5>2, <6>1, <6>2, <6>3, <6>4 DEF Alien
          <6>. QED
            BY <3>1, <5>2, <5>3, <6>1, <6>5 DEF Failed, Alien
        <5>6. /\ Len(Whole(f)) = Blocks[f] /\ Whole(f)[d + 1] = [file |-> f, number |-> d]
          <6>1. d + 1 \in 1 .. Blocks[f] /\ d + 1 - 1 = d
            BY <5>3, <5>4
          <6>. QED
            BY <5>4, <6>1 DEF Whole
        <5>7. Transfers!Receive
          <6>1. PICK sources : sources = [g \in Files |-> Whole(g)]
            OBVIOUS
          <6>2. Len(sources) = Len(Blocks) /\ sources[f] = Whole(f)
            BY <5>4, <6>1, ConstantsAssumption DEF Files
          <6>3. kept < Len(sources) /\ d < Len(sources[kept + 1])
            <7>1. kept \in Nat /\ f <= Len(Blocks)
              BY <5>4, ConstantsAssumption DEF IInv, ClientType, Files
            <7>. QED
              BY <5>3, <5>4, <5>6, <6>2, <7>1
          <6>4. received' = Append(received, sources[kept + 1][Len(received) + 1])
            BY <5>3, <5>4, <5>6, <6>2
          <6>5. Failed' = Failed /\ ~Failed
            BY <5>1, <5>5 DEF Failed
          <6>6. PICK file : file = (IF Failed THEN <<>> ELSE received) /\ file = received
            BY <6>5
          <6>7. (IF Failed THEN <<>> ELSE received)' = received'
            BY <5>5
          <6>. QED
            BY <5>3, <5>4, <6>1, <6>3, <6>4, <6>5, <6>6, <6>7 DEF Transfers!Receive
        <5>. QED
          BY <5>7 DEF Transfers!Next
      <4>. QED
        BY <4>1, <4>2
    <3>5. CASE wanted # 0 /\ Keeps
      <4>1. Active /\ ~Failed
        BY <3>1, <3>5, WholeIsOwn DEF Active, Failed, Keeps
      <4>2. PICK f \in Nat : f = wanted
        BY <4>1, Numbers
      <4>3. f \in Files /\ kept + 1 = f
        BY <4>1, <4>2, Numbers DEF Transfer, Writes
      <4>4. received = Whole(f) /\ kept' = f /\ received' = <<>> /\ connected' = connected
        BY <3>5, <4>2 DEF Keeps
      <4>5. ~Failed'
        BY <3>1, <4>4 DEF Failed, Alien
      <4>6. Transfers!Keep
        <5>1. PICK sources : sources = [g \in Files |-> Whole(g)]
          OBVIOUS
        <5>2. Len(sources) = Len(Blocks) /\ sources[f] = Whole(f)
          BY <4>3, <5>1, ConstantsAssumption DEF Files
        <5>3. kept < Len(sources)
          <6>1. kept \in Nat /\ f <= Len(Blocks) /\ Len(Blocks) \in Nat
            BY <4>3, ConstantsAssumption DEF IInv, ClientType, Files
          <6>. QED
            BY <4>3, <5>2, <6>1
        <5>4. Failed' = Failed /\ ~Failed
          BY <4>1, <4>5 DEF Failed
        <5>5. (IF Failed THEN <<>> ELSE received) = Whole(f)
          BY <4>4, <5>4
        <5>6. (IF Failed THEN <<>> ELSE received)' = <<>>
          BY <4>4, <4>5
        <5>. QED
          BY <4>3, <4>4, <5>1, <5>2, <5>3, <5>4, <5>5, <5>6 DEF Transfers!Keep
      <4>. QED
        BY <4>6 DEF Transfers!Next
    <3>. QED
      BY <3>1, <3>2, <3>3, <3>4, <3>5
  <2>5. UNCHANGED client \/ CL_ParseServerMessage
    BY DEF Next, vars, SV_Execute, SV_ExecuteClientMessage, SV_BeginDownload_f, SV_NextDownload_f,
           SV_StopDownload_f, SV_DoneDownload_f, Executes, SV_SendClientSnapshot,
           SV_SendDownloadMessages, CL_WritePacket
  <2>. QED
    BY <2>3, <2>4, <2>5
<1>. QED
  BY <1>1, <1>2, TransferInvariance, PTL DEF Spec, TransfersSpec, Transfers!Spec

================================================================================
