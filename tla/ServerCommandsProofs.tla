-------------------------- MODULE ServerCommandsProofs --------------------------
(***************************************************************************)
(* Proofs about ServerCommands for every size of the ring and all bounds.   *)
(***************************************************************************)
EXTENDS ServerCommands, SequenceTheorems, TLAPS

USE SizeAssumption DEF SizeAssumption

--------------------------------------------------------------------------------
(* The ring. *)

LEMMA SlotType == \A n \in Nat : Slot(n) \in Slots
<1> TAKE n \in Nat
<1>1. n % MAX_RELIABLE_COMMANDS \in 0 .. MAX_RELIABLE_COMMANDS - 1
  OBVIOUS
<1> QED
  BY <1>1 DEF Slot, Slots

\* Numbers less than the size of the ring apart have different slots.
LEMMA SlotDistinct ==
  ASSUME NEW a \in Nat, NEW b \in Nat, a < b, b < a + MAX_RELIABLE_COMMANDS
  PROVE  Slot(a) # Slot(b)
<1> DEFINE M == MAX_RELIABLE_COMMANDS
<1>1. a = M * (a \div M) + (a % M) /\ a \div M \in Nat /\ a % M \in Nat
  OBVIOUS
<1>2. b = M * (b \div M) + (b % M) /\ b \div M \in Nat /\ b % M \in Nat
  OBVIOUS
<1>3. \A d \in Int : M * d # b - a
  <2> TAKE d \in Int
  <2>1. d >= 1 => M * d >= M
    OBVIOUS
  <2>2. d <= 0 => M * d <= 0
    OBVIOUS
  <2> QED
    BY <2>1, <2>2
<1>4. (b \div M) - (a \div M) \in Int
  BY <1>1, <1>2
<1>5. a % M # b % M
  <2>1. a % M = b % M => b - a = M * ((b \div M) - (a \div M))
    BY <1>1, <1>2
  <2> QED
    BY <2>1, <1>3, <1>4
<1> QED
  BY <1>5 DEF Slot

LEMMA StoreType ==
  ASSUME NEW ring \in Ring, NEW texts, DOMAIN texts \subseteq Nat,
         \A n \in DOMAIN texts : texts[n] \in Nat
  PROVE  Store(ring, texts) \in Ring
<1> DEFINE Stays(s) ==
      {n \in DOMAIN texts :
          Slot(n) = s /\ \A k \in DOMAIN texts : k < n + MAX_RELIABLE_COMMANDS}
           Text(s) == IF Stays(s) = {} THEN ring[s] ELSE texts[CHOOSE n \in Stays(s) : TRUE]
<1>1. ASSUME NEW s \in Slots PROVE Text(s) \in Nat
  <2>1. CASE Stays(s) = {}
    BY <2>1 DEF Ring
  <2>2. CASE Stays(s) # {}
    <3>1. (CHOOSE n \in Stays(s) : TRUE) \in Stays(s)
      BY <2>2
    <3> QED
      BY <2>2, <3>1
  <2> QED
    BY <2>1, <2>2
<1>2. Store(ring, texts) = [s \in Slots |-> Text(s)]
  BY DEF Store
<1> HIDE DEF Text
<1> QED
  BY <1>1, <1>2 DEF Ring

\* A command of the last round of the ring is found in its slot.
LEMMA StoreIn ==
  ASSUME NEW ring, NEW texts, DOMAIN texts \subseteq Nat, NEW n \in DOMAIN texts,
         \A k \in DOMAIN texts : k < n + MAX_RELIABLE_COMMANDS
  PROVE  Store(ring, texts)[Slot(n)] = texts[n]
<1> DEFINE Stays ==
      {m \in DOMAIN texts :
          Slot(m) = Slot(n) /\ \A k \in DOMAIN texts : k < m + MAX_RELIABLE_COMMANDS}
<1>1. n \in Stays
  OBVIOUS
<1>2. ASSUME NEW m \in Stays PROVE m = n
  <2>1. m < n + MAX_RELIABLE_COMMANDS /\ n < m + MAX_RELIABLE_COMMANDS /\ m \in Nat /\ n \in Nat
    OBVIOUS
  <2>2. ~(m < n) /\ ~(n < m)
    BY <2>1, SlotDistinct
  <2> QED
    BY <2>1, <2>2
<1>3. Stays = {n}
  BY <1>1, <1>2
<1>4. Slot(n) \in Slots
  BY SlotType
<1>5. (CHOOSE m \in Stays : TRUE) = n
  BY <1>3
<1>6. Store(ring, texts)[Slot(n)] = IF Stays = {} THEN ring[Slot(n)]
                                    ELSE texts[CHOOSE m \in Stays : TRUE]
  BY <1>4 DEF Store
<1> QED
  BY <1>1, <1>5, <1>6

\* Commands less than a round later leave a command alone.
LEMMA StoreOut ==
  ASSUME NEW ring, NEW texts, DOMAIN texts \subseteq Nat, NEW n \in Nat,
         \A k \in DOMAIN texts : n < k /\ k < n + MAX_RELIABLE_COMMANDS
  PROVE  Store(ring, texts)[Slot(n)] = ring[Slot(n)]
<1> DEFINE Stays ==
      {m \in DOMAIN texts :
          Slot(m) = Slot(n) /\ \A k \in DOMAIN texts : k < m + MAX_RELIABLE_COMMANDS}
<1>1. \A m \in DOMAIN texts : Slot(m) # Slot(n)
  BY SlotDistinct
<1>2. Stays = {}
  BY <1>1
<1>3. Slot(n) \in Slots
  BY SlotType
<1>4. Store(ring, texts)[Slot(n)] = IF Stays = {} THEN ring[Slot(n)]
                                    ELSE texts[CHOOSE m \in Stays : TRUE]
  BY <1>3 DEF Store
<1> QED
  BY <1>2, <1>4

LEMMA OwnProperties ==
  ASSUME NEW first \in Nat, NEW last \in Nat
  PROVE  /\ DOMAIN Own(first, last) = first .. last
         /\ \A n \in first .. last : Own(first, last)[n] = n
         /\ DOMAIN Own(first, last) \subseteq Nat
         /\ \A n \in DOMAIN Own(first, last) : Own(first, last)[n] \in Nat
BY DEF Own

--------------------------------------------------------------------------------
(* The channels. *)

LEMMA SentProperties ==
  ASSUME NEW S, NEW c \in Seq(S), Len(c) <= MaxInFlight, NEW m \in S
  PROVE  /\ Sent(c, m) \in Seq(S)
         /\ Len(Sent(c, m)) <= MaxInFlight
         /\ \E lost \in 0 .. 1 :
               /\ Len(Sent(c, m)) = Len(c) + 1 - lost
               /\ \A i \in 1 .. Len(c) - lost : Sent(c, m)[i] = c[i + lost]
               /\ Sent(c, m)[Len(c) + 1 - lost] = m
<1>1. CASE Len(c) < MaxInFlight
  <2>1. Sent(c, m) = Append(c, m)
    BY <1>1 DEF Sent
  <2>2. /\ Append(c, m) \in Seq(S)
        /\ Len(Append(c, m)) = Len(c) + 1
        /\ \A i \in 1 .. Len(c) : Append(c, m)[i] = c[i]
        /\ Append(c, m)[Len(c) + 1] = m
    OBVIOUS
  <2>3. Len(c) \in Nat
    OBVIOUS
  <2> QED
    BY <1>1, <2>1, <2>2, <2>3
<1>2. CASE ~(Len(c) < MaxInFlight)
  <2>1. Sent(c, m) = Append(Tail(c), m)
    BY <1>2 DEF Sent
  <2>2. Len(c) \in Nat /\ Len(c) = MaxInFlight /\ Len(c) > 0
    BY <1>2
  <2>3. /\ Tail(c) \in Seq(S)
        /\ Len(Tail(c)) = Len(c) - 1
        /\ \A i \in 1 .. Len(c) - 1 : Tail(c)[i] = c[i + 1]
    BY <2>2
  <2>4. /\ Append(Tail(c), m) \in Seq(S)
        /\ Len(Append(Tail(c), m)) = Len(c)
        /\ \A i \in 1 .. Len(c) - 1 : Append(Tail(c), m)[i] = c[i + 1]
        /\ Append(Tail(c), m)[Len(c)] = m
    BY <2>2, <2>3
  <2> QED
    BY <2>1, <2>2, <2>4
<1> QED
  BY <1>1, <1>2

LEMMA AfterProperties ==
  ASSUME NEW S, NEW c \in Seq(S), NEW i \in 1 .. Len(c)
  PROVE  /\ After(c, i) \in Seq(S)
         /\ Len(After(c, i)) = Len(c) - i
         /\ \A j \in 1 .. Len(c) - i : After(c, i)[j] = c[j + i]
<1>1. Len(c) \in Nat
  OBVIOUS
<1>2. \A j \in (i + 1) .. Len(c) : c[j] \in S
  OBVIOUS
<1> QED
  BY <1>1, <1>2, SubSeqProperties DEF After

--------------------------------------------------------------------------------
(* The inductive invariant. *)

\* The ring holds the last MAX_RELIABLE_COMMANDS of the commands 1 .. last.
Right(ring, last) ==
    \A n \in 1 .. last : n + MAX_RELIABLE_COMMANDS > last => ring[Slot(n)] = n

\* The client was dropped and has a disconnect command.
Told == state = "CS_ZOMBIE" /\ ~uninformed

\* The ring is in order until an overflow, and the disconnect command even then.
ServerInv ==
    /\ state # "CS_ZOMBIE" =>
          ~overflowed /\ disconnect = 0 /\ disconnectCalls = 0 /\ ~uninformed
    /\ ~overflowed =>
          /\ reliableSequence <= reliableAcknowledge + MAX_RELIABLE_COMMANDS
          /\ Right(reliableCommands, reliableSequence)
    /\ Told =>
          /\ disconnect = reliableSequence
          /\ reliableSequence > 0
          /\ reliableCommands[Slot(reliableSequence)] = reliableSequence

\* A message carries commands that are in its ring, and leaves no gap behind what
\* the client has got.
MessageOK(m) ==
    /\ 1 <= m.first /\ m.first <= reliableAcknowledge + 1
    /\ m.last <= reliableSequence
    /\ ~overflowed => m.last < m.first + MAX_RELIABLE_COMMANDS /\ Right(m.texts, m.last)
    /\ Told /\ m.last = reliableSequence => m.texts[Slot(m.last)] = m.last

ToClientInv == \A i \in 1 .. Len(toClient) : MessageOK(toClient[i])

\* Acknowledgements in flight lie between what the server and what the client knows.
ToServerInv ==
    /\ \A i \in 1 .. Len(toServer) :
          reliableAcknowledge <= toServer[i].ack /\ toServer[i].ack <= serverCommandSequence
    /\ \A i, j \in 1 .. Len(toServer) : i <= j => toServer[i].ack <= toServer[j].ack

ClientInv ==
    /\ ~overflowed => Right(serverCommands, serverCommandSequence)
    /\ Told /\ serverCommandSequence = reliableSequence =>
          serverCommands[Slot(serverCommandSequence)] = serverCommandSequence
    /\ serverCommandNum <= serverCommandSequence
    /\ lastExecutedServerCommand <= serverCommandSequence
    /\ Told /\ lastExecutedServerCommand = disconnect => ~connected

IInv ==
    /\ TypeOK
    /\ ServerInv
    /\ ToClientInv
    /\ ToServerInv
    /\ ClientInv
    /\ AcknowledgedIsReceived
    /\ CommandsIntact

LEMMA InitInv == Init => IInv
<1> SUFFICES ASSUME Init PROVE IInv
  OBVIOUS
<1>1. TypeOK
  <2>1. reliableCommands \in Ring /\ serverCommands \in Ring
    BY DEF Init, Ring, Slots
  <2>2. toClient \in Seq(Message) /\ toServer \in Seq(Packet) /\ Len(toClient) = 0 /\ Len(toServer) = 0
    BY DEF Init
  <2>3. /\ connected \in BOOLEAN /\ overflowed \in BOOLEAN /\ uninformed \in BOOLEAN
        /\ badKey \in BOOLEAN
    BY DEF Init
  <2>4. state \in State
    BY DEF Init, State
  <2> QED
    BY <2>1, <2>2, <2>3, <2>4 DEF TypeOK, Init
<1>2. ServerInv
  BY DEF Init, ServerInv, Right, Told
<1>3. ToClientInv /\ ToServerInv
  BY DEF Init, ToClientInv, ToServerInv
<1>4. ClientInv
  BY DEF Init, ClientInv, Right, Told
<1>5. AcknowledgedIsReceived /\ CommandsIntact
  BY DEF Init, AcknowledgedIsReceived, CommandsIntact
<1> QED
  BY <1>1, <1>2, <1>3, <1>4, <1>5 DEF IInv

--------------------------------------------------------------------------------
(* One lemma per step. *)

\* Commands are added in order to a ring that has room for them.
LEMMA OwnRight ==
  ASSUME NEW ring \in Ring, NEW first \in Nat, NEW last \in Nat, first <= last, Right(ring, first)
  PROVE  /\ Store(ring, Own(first + 1, last)) \in Ring
         /\ Right(Store(ring, Own(first + 1, last)), last)
<1> DEFINE own == Own(first + 1, last)
<1>0. /\ DOMAIN own = (first + 1) .. last
      /\ \A n \in (first + 1) .. last : own[n] = n
      /\ DOMAIN own \subseteq Nat
      /\ \A n \in DOMAIN own : own[n] \in Nat
  <2>1. first + 1 \in Nat
    OBVIOUS
  <2> QED
    BY <2>1, OwnProperties
<1> HIDE DEF own
<1>1. Store(ring, own) \in Ring
  BY <1>0, StoreType
<1>2. ASSUME NEW n \in 1 .. last, n + MAX_RELIABLE_COMMANDS > last
      PROVE  Store(ring, own)[Slot(n)] = n
  <2>1. CASE n > first
    <3>1. n \in DOMAIN own
      BY <2>1, <1>0
    <3>2. \A k \in DOMAIN own : k < n + MAX_RELIABLE_COMMANDS
      BY <1>2, <1>0
    <3>3. Store(ring, own)[Slot(n)] = own[n]
      BY <1>0, <3>1, <3>2, StoreIn
    <3> QED
      BY <2>1, <3>3, <1>0
  <2>2. CASE n <= first
    <3>1. \A k \in DOMAIN own : n < k /\ k < n + MAX_RELIABLE_COMMANDS
      BY <1>2, <2>2, <1>0
    <3>2. Store(ring, own)[Slot(n)] = ring[Slot(n)]
      BY <1>0, <3>1, StoreOut
    <3>3. n + MAX_RELIABLE_COMMANDS > first /\ n \in 1 .. first
      BY <1>2, <2>2
    <3> QED
      BY <3>2, <3>3 DEF Right
  <2> QED
    BY <2>1, <2>2
<1> QED
  BY <1>1, <1>2 DEF Right, own

LEMMA MessageFacts ==
  ASSUME IInv, NEW i \in 1 .. Len(toClient)
  PROVE  /\ toClient[i] \in Message
         /\ toClient[i].first \in Nat
         /\ toClient[i].last \in Nat
         /\ toClient[i].texts \in Ring
         /\ MessageOK(toClient[i])
<1>1. toClient \in Seq(Message)
  BY DEF IInv, TypeOK
<1>2. toClient[i] \in Message
  BY <1>1
<1>3. MessageOK(toClient[i])
  BY DEF IInv, ToClientInv
<1> QED
  BY <1>2, <1>3 DEF Message

LEMMA PacketFacts ==
  ASSUME IInv, NEW i \in 1 .. Len(toServer)
  PROVE  /\ toServer[i] \in Packet
         /\ toServer[i].ack \in Nat
         /\ reliableAcknowledge <= toServer[i].ack
         /\ toServer[i].ack <= serverCommandSequence
<1>1. toServer \in Seq(Packet)
  BY DEF IInv, TypeOK
<1>2. toServer[i] \in Packet
  BY <1>1
<1> QED
  BY <1>2 DEF Packet, IInv, ToServerInv

LEMMA OverflowInv ==
  ASSUME IInv, state = "CS_PRIMED",
         NEW full \in Nat, full >= reliableSequence, NEW prints \in Nat, NEW calls \in 1 .. 2,
         Overflow(full, prints, calls),
         UNCHANGED <<reliableAcknowledge, client, toClient, toServer, badKey>>
  PROVE  IInv'
<1> DEFINE last == full + 1 + prints + 1
           mid  == Store(reliableCommands, Own(reliableSequence + 1, full))
<1>1. /\ reliableSequence' = last
      /\ reliableCommands' = Store(mid, Own(full + 2, last))
      /\ disconnect' = last
      /\ overflowed' = TRUE
      /\ disconnectCalls' = disconnectCalls + calls
      /\ state' = "CS_ZOMBIE"
      /\ uninformed' = uninformed
  BY DEF Overflow
<1>2. last \in Nat /\ last > reliableSequence /\ last > 0 /\ full + 2 <= last /\ full + 2 \in Nat
  BY DEF IInv, TypeOK
<1> HIDE DEF last
<1>3. mid \in Ring
  <2>1. reliableSequence + 1 \in Nat /\ reliableCommands \in Ring
    BY DEF IInv, TypeOK
  <2>2. /\ DOMAIN Own(reliableSequence + 1, full) \subseteq Nat
        /\ \A n \in DOMAIN Own(reliableSequence + 1, full) :
              Own(reliableSequence + 1, full)[n] \in Nat
    BY <2>1, OwnProperties
  <2> QED
    BY <2>1, <2>2, StoreType
<1> HIDE DEF mid
<1> DEFINE own == Own(full + 2, last)
<1>13. /\ DOMAIN own = (full + 2) .. last
       /\ \A n \in (full + 2) .. last : own[n] = n
       /\ DOMAIN own \subseteq Nat
       /\ \A n \in DOMAIN own : own[n] \in Nat
  BY <1>2, OwnProperties
<1>14. reliableCommands' = Store(mid, own)
  BY <1>1
<1> HIDE DEF own
<1>4. reliableCommands' \in Ring
  BY <1>3, <1>13, <1>14, StoreType
<1>5. reliableCommands'[Slot(last)] = last
  <2>1. last \in DOMAIN own /\ own[last] = last
    BY <1>2, <1>13
  <2>2. \A k \in DOMAIN own : k < last + MAX_RELIABLE_COMMANDS
    BY <1>2, <1>13
  <2> QED
    BY <1>13, <1>14, <2>1, <2>2, StoreIn
<1>6. /\ UNCHANGED <<connected, serverCommandSequence, serverCommands,
                     lastExecutedServerCommand, serverCommandNum, garbled>>
      /\ UNCHANGED <<reliableAcknowledge, toClient, toServer, badKey>>
  BY DEF client
<1>7. TypeOK'
  <2>1. disconnectCalls' \in 0 .. 2
    BY <1>1 DEF IInv, ServerInv
  <2>2. state' \in State
    BY <1>1 DEF State
  <2>3. overflowed' \in BOOLEAN
    BY <1>1
  <2> QED
    BY <1>1, <1>2, <1>4, <1>6, <2>1, <2>2, <2>3 DEF IInv, TypeOK
<1>8. ServerInv'
  BY <1>1, <1>2, <1>5 DEF ServerInv
<1>9. ToClientInv'
  <2> SUFFICES ASSUME NEW i \in 1 .. Len(toClient) PROVE MessageOK(toClient[i])'
    BY <1>6 DEF ToClientInv
  <2>1. MessageOK(toClient[i]) /\ toClient[i].last \in Nat /\ reliableSequence \in Nat
    BY MessageFacts DEF IInv, TypeOK
  <2> QED
    BY <1>1, <1>2, <1>6, <2>1 DEF MessageOK
<1>10. ToServerInv'
  BY <1>6 DEF IInv, ToServerInv
<1>11. ClientInv' /\ AcknowledgedIsReceived'
  BY <1>1, <1>2, <1>6 DEF IInv, ClientInv, AcknowledgedIsReceived, TypeOK
<1>12. CommandsIntact'
  BY <1>1 DEF CommandsIntact
<1> QED
  BY <1>7, <1>8, <1>9, <1>10, <1>11, <1>12 DEF IInv

\* Commands added up to number last, to a ring with room for them; after them the
\* client may be a zombie.
LEMMA AddedInv ==
  ASSUME IInv, state = "CS_PRIMED",
         NEW last \in Nat, reliableSequence < last,
         last <= reliableAcknowledge + MAX_RELIABLE_COMMANDS,
         reliableSequence' = last,
         reliableCommands' = Store(reliableCommands, Own(reliableSequence + 1, last)),
         overflowed' = overflowed, uninformed' = uninformed,
         \/ state' = state /\ disconnect' = disconnect /\ disconnectCalls' = disconnectCalls
         \/ state' = "CS_ZOMBIE" /\ disconnect' = last /\ disconnectCalls' = disconnectCalls + 1,
         UNCHANGED <<reliableAcknowledge, client, toClient, toServer, badKey>>
  PROVE  IInv'
<1>1. /\ UNCHANGED <<connected, serverCommandSequence, serverCommands,
                     lastExecutedServerCommand, serverCommandNum, garbled>>
      /\ UNCHANGED <<reliableAcknowledge, toClient, toServer, badKey>>
  BY DEF client
<1>2. /\ reliableSequence \in Nat /\ reliableAcknowledge \in Nat /\ reliableCommands \in Ring
      /\ Right(reliableCommands, reliableSequence)
      /\ ~overflowed /\ disconnect = 0 /\ disconnectCalls = 0 /\ ~uninformed
  BY DEF IInv, TypeOK, ServerInv
<1>3. reliableCommands' \in Ring /\ Right(reliableCommands', last)
  BY <1>2, OwnRight
<1>4. state' \in State /\ disconnect' \in Nat /\ disconnectCalls' \in 0 .. 2
  BY <1>2 DEF State
<1>5. TypeOK'
  BY <1>1, <1>3, <1>4 DEF IInv, TypeOK
<1>6. reliableCommands'[Slot(last)] = last
  <2>1. last \in 1 .. last /\ last + MAX_RELIABLE_COMMANDS > last
    BY <1>2
  <2> QED
    BY <1>3, <2>1 DEF Right
<1>7. ServerInv'
  BY <1>1, <1>2, <1>3, <1>6 DEF ServerInv, Told
<1>8. ToClientInv'
  <2> SUFFICES ASSUME NEW i \in 1 .. Len(toClient) PROVE MessageOK(toClient[i])'
    BY <1>1 DEF ToClientInv
  <2>1. MessageOK(toClient[i]) /\ toClient[i].last \in Nat
    BY MessageFacts
  <2> QED
    BY <1>1, <1>2, <2>1 DEF MessageOK
<1>9. ToServerInv'
  BY <1>1 DEF IInv, ToServerInv
<1>10. ClientInv' /\ AcknowledgedIsReceived'
  BY <1>1, <1>2 DEF IInv, ClientInv, AcknowledgedIsReceived, TypeOK, Told
<1>11. CommandsIntact'
  BY <1>1 DEF IInv, CommandsIntact
<1> QED
  BY <1>5, <1>7, <1>8, <1>9, <1>10, <1>11 DEF IInv

LEMMA AddInv == IInv /\ SV_AddServerCommand => IInv'
<1> SUFFICES ASSUME IInv, SV_AddServerCommand PROVE IInv'
  OBVIOUS
<1>1. state = "CS_PRIMED" /\ UNCHANGED <<reliableAcknowledge, client, toClient, toServer, badKey>>
  BY DEF SV_AddServerCommand
<1>2. reliableSequence \in Nat /\ reliableAcknowledge \in Nat
  BY DEF IInv, TypeOK
<1>3. CASE RingFull /\ \E prints \in 1 .. MaxPrints : Overflow(reliableSequence, prints, 1)
  <2>1. PICK prints \in 1 .. MaxPrints : Overflow(reliableSequence, prints, 1)
    BY <1>3
  <2>2. prints \in Nat /\ 1 \in 1 .. 2 /\ reliableSequence >= reliableSequence
    BY <1>2
  <2> QED
    BY <1>1, <1>2, <2>1, <2>2, OverflowInv
<1>4. CASE ~RingFull /\ SV_AddServerCommand
  <2>1. /\ reliableSequence' = reliableSequence + 1
        /\ reliableCommands' =
              Store(reliableCommands, Own(reliableSequence + 1, reliableSequence + 1))
        /\ UNCHANGED <<state, dropped>>
    BY <1>4 DEF SV_AddServerCommand
  <2>2. reliableSequence + 1 <= reliableAcknowledge + MAX_RELIABLE_COMMANDS
    BY <1>1, <1>2, <1>4 DEF RingFull, IInv, ServerInv
  <2>3. /\ overflowed' = overflowed /\ uninformed' = uninformed /\ state' = state
        /\ disconnect' = disconnect /\ disconnectCalls' = disconnectCalls
    BY <2>1 DEF dropped
  <2>4. reliableSequence + 1 \in Nat /\ reliableSequence < reliableSequence + 1
    BY <1>2
  <2> QED
    BY <1>1, <2>1, <2>2, <2>3, <2>4, AddedInv
<1> QED
  BY <1>3, <1>4 DEF SV_AddServerCommand

LEMMA DropPrimedInv ==
  ASSUME IInv, DropPrimed, UNCHANGED <<reliableAcknowledge, client, toClient, toServer, badKey>>
  PROVE  IInv'
<1>1. state = "CS_PRIMED" /\ UNCHANGED <<reliableAcknowledge, client, toClient, toServer, badKey>>
  BY DEF DropPrimed
<1>2. reliableSequence \in Nat /\ reliableAcknowledge \in Nat
  BY DEF IInv, TypeOK
<1> DEFINE full == reliableAcknowledge + MAX_RELIABLE_COMMANDS
<1>3. PICK prints \in 1 .. MaxPrints :
        LET last == reliableSequence + prints + 1
        IN  \/ /\ last <= full
               /\ reliableSequence' = last
               /\ reliableCommands' = Store(reliableCommands, Own(reliableSequence + 1, last))
               /\ disconnect' = last
               /\ disconnectCalls' = disconnectCalls + 1
               /\ state' = "CS_ZOMBIE"
               /\ UNCHANGED <<overflowed, uninformed>>
            \/ /\ last > full
               /\ Overflow(full, prints, 2)
  BY DEF DropPrimed
<1>4. prints \in Nat
  OBVIOUS
<1>5. full \in Nat /\ full >= reliableSequence
  BY <1>1, <1>2 DEF IInv, ServerInv
<1> DEFINE last == reliableSequence + prints + 1
<1>6. last \in Nat /\ reliableSequence < last
  BY <1>2, <1>4
<1> HIDE DEF last, full
<1>7. CASE Overflow(full, prints, 2)
  BY <1>1, <1>4, <1>5, <1>7, OverflowInv
<1>8. CASE ~Overflow(full, prints, 2)
  <2>1. /\ last <= full
        /\ reliableSequence' = last
        /\ reliableCommands' = Store(reliableCommands, Own(reliableSequence + 1, last))
        /\ disconnect' = last
        /\ disconnectCalls' = disconnectCalls + 1
        /\ state' = "CS_ZOMBIE"
        /\ UNCHANGED <<overflowed, uninformed>>
    BY <1>3, <1>8 DEF last, full
  <2> QED
    BY <1>1, <1>6, <2>1, AddedInv DEF full
<1> QED
  BY <1>7, <1>8

\* Steps that leave the commands and the client alone: a change of the map, and the drop
\* of a client that awaits the gamestate.
LEMMA NothingStored ==
  ASSUME IInv, state # "CS_ZOMBIE", state' \in State,
         \/ state' # "CS_ZOMBIE" /\ UNCHANGED dropped
         \/ /\ state' = "CS_ZOMBIE" /\ uninformed' = TRUE
            /\ disconnectCalls' = disconnectCalls + 1
            /\ UNCHANGED <<overflowed, disconnect>>,
         UNCHANGED <<reliableSequence, reliableAcknowledge, reliableCommands, client, toClient,
                     toServer, badKey>>
  PROVE  IInv'
<1>1. /\ UNCHANGED <<connected, serverCommandSequence, serverCommands,
                     lastExecutedServerCommand, serverCommandNum, garbled>>
      /\ UNCHANGED <<reliableSequence, reliableAcknowledge, reliableCommands, toClient, toServer,
                     badKey, overflowed, disconnect>>
  BY DEF client, dropped
<1>2. ~overflowed /\ disconnect = 0 /\ disconnectCalls = 0 /\ ~uninformed
  BY DEF IInv, ServerInv
<1>3. /\ uninformed' \in BOOLEAN /\ disconnectCalls' \in 0 .. 2
      /\ ~Told'
      /\ state' # "CS_ZOMBIE" => disconnectCalls' = 0 /\ ~uninformed'
  <2>1. CASE state' # "CS_ZOMBIE" /\ UNCHANGED dropped
    <3>1. uninformed' = uninformed /\ disconnectCalls' = disconnectCalls /\ uninformed \in BOOLEAN
      BY <2>1 DEF dropped, IInv, TypeOK
    <3> QED
      BY <1>2, <2>1, <3>1 DEF Told
  <2>2. CASE state' = "CS_ZOMBIE" /\ uninformed' = TRUE /\ disconnectCalls' = disconnectCalls + 1
    BY <1>2, <2>2 DEF Told
  <2> QED
    BY <2>1, <2>2
<1>4. TypeOK'
  BY <1>1, <1>3 DEF IInv, TypeOK
<1>5. ServerInv'
  BY <1>1, <1>2, <1>3 DEF IInv, ServerInv
<1>6. ToClientInv'
  <2> SUFFICES ASSUME NEW i \in 1 .. Len(toClient) PROVE MessageOK(toClient[i])'
    BY <1>1 DEF ToClientInv
  <2>1. MessageOK(toClient[i])
    BY MessageFacts
  <2> QED
    BY <1>1, <1>3, <2>1 DEF MessageOK
<1>7. ToServerInv' /\ AcknowledgedIsReceived' /\ CommandsIntact'
  BY <1>1 DEF IInv, ToServerInv, AcknowledgedIsReceived, CommandsIntact
<1>8. ClientInv'
  BY <1>1, <1>3 DEF IInv, ClientInv
<1> QED
  BY <1>4, <1>5, <1>6, <1>7, <1>8 DEF IInv

LEMMA DropInv == IInv /\ SV_DropClient => IInv'
<1> SUFFICES ASSUME IInv, SV_DropClient PROVE IInv'
  OBVIOUS
<1>1. CASE DropPrimed
  BY <1>1, DropPrimedInv DEF SV_DropClient
<1>2. CASE DropConnected
  <2>1. state # "CS_ZOMBIE" /\ state' \in State
    BY <1>2 DEF DropConnected, State
  <2> QED
    BY <1>2, <2>1, NothingStored DEF DropConnected, SV_DropClient
<1> QED
  BY <1>1, <1>2 DEF SV_DropClient

LEMMA SpawnServerInv == IInv /\ SV_SpawnServer => IInv'
<1> SUFFICES ASSUME IInv, SV_SpawnServer PROVE IInv'
  OBVIOUS
<1>1. state # "CS_ZOMBIE" /\ state' # "CS_ZOMBIE" /\ state' \in State
  BY DEF SV_SpawnServer, State
<1> QED
  BY <1>1, NothingStored DEF SV_SpawnServer

\* A message of the server, before a snapshot or the gamestate.
LEMMA SendInv ==
  ASSUME IInv, \E snapshot \in BOOLEAN : SV_SendMessageToClient(snapshot),
         state' \in State, state' = "CS_ZOMBIE" <=> state = "CS_ZOMBIE"
  PROVE  IInv'
<1> PICK snapshot \in BOOLEAN : SV_SendMessageToClient(snapshot)
  OBVIOUS
<1> DEFINE m == Unacknowledged(snapshot)
<1>1. /\ toClient' = Sent(toClient, m)
      /\ UNCHANGED <<reliableSequence, reliableAcknowledge, reliableCommands, toServer, badKey>>
      /\ UNCHANGED <<connected, serverCommandSequence, serverCommands,
                     lastExecutedServerCommand, serverCommandNum, garbled>>
      /\ UNCHANGED <<overflowed, disconnect, uninformed, disconnectCalls>>
  BY DEF SV_SendMessageToClient, client, dropped
<1>2. /\ reliableSequence \in Nat /\ reliableAcknowledge \in Nat /\ reliableCommands \in Ring
      /\ toClient \in Seq(Message) /\ Len(toClient) <= MaxInFlight
  BY DEF IInv, TypeOK
<1>3. /\ m \in Message
      /\ m.first = reliableAcknowledge + 1
      /\ m.last = reliableSequence
      /\ m.texts = reliableCommands
  BY <1>2 DEF Unacknowledged, Message
<1> HIDE DEF m
<1>4. /\ toClient' \in Seq(Message)
      /\ Len(toClient') <= MaxInFlight
      /\ \E lost \in 0 .. 1 :
            /\ Len(toClient') = Len(toClient) + 1 - lost
            /\ \A i \in 1 .. Len(toClient) - lost : toClient'[i] = toClient[i + lost]
            /\ toClient'[Len(toClient) + 1 - lost] = m
  <2>1. m \in Message
    BY <1>3
  <2> DEFINE channel == Sent(toClient, m)
  <2>2. /\ channel \in Seq(Message)
        /\ Len(channel) <= MaxInFlight
        /\ \E lost \in 0 .. 1 :
              /\ Len(channel) = Len(toClient) + 1 - lost
              /\ \A i \in 1 .. Len(toClient) - lost : channel[i] = toClient[i + lost]
              /\ channel[Len(toClient) + 1 - lost] = m
    BY <1>2, <2>1, SentProperties
  <2>3. toClient' = channel
    BY <1>1
  <2> HIDE DEF channel
  <2> QED
    BY <2>2, <2>3
<1>5. state' \in State /\ (state' = "CS_ZOMBIE" <=> state = "CS_ZOMBIE")
  OBVIOUS
<1>6. TypeOK'
  BY <1>1, <1>4, <1>5 DEF IInv, TypeOK
<1>7. ServerInv'
  BY <1>1, <1>5 DEF IInv, ServerInv, Told
<1>8. ToClientInv'
  <2>1. MessageOK(m)
    BY <1>2, <1>3 DEF IInv, ServerInv, MessageOK
  <2>2. ASSUME NEW k, MessageOK(k) PROVE MessageOK(k)'
    BY <1>1, <1>5, <2>2 DEF MessageOK, Told
  <2>3. PICK lost \in 0 .. 1 :
          /\ Len(toClient') = Len(toClient) + 1 - lost
          /\ \A i \in 1 .. Len(toClient) - lost : toClient'[i] = toClient[i + lost]
          /\ toClient'[Len(toClient) + 1 - lost] = m
    BY <1>4
  <2>4. Len(toClient) \in Nat
    BY <1>2
  <2>5. ASSUME NEW i \in 1 .. Len(toClient') PROVE MessageOK(toClient'[i])
    <3>1. CASE i = Len(toClient) + 1 - lost
      BY <2>1, <2>3, <3>1
    <3>2. CASE i # Len(toClient) + 1 - lost
      <4>1. i \in 1 .. Len(toClient) - lost /\ i + lost \in 1 .. Len(toClient)
        BY <2>3, <2>4, <3>2
      <4> QED
        BY <2>3, <4>1, MessageFacts
    <3> QED
      BY <3>1, <3>2
  <2>6. ASSUME NEW i \in 1 .. Len(toClient') PROVE MessageOK(toClient[i])'
    <3> DEFINE k == toClient'[i]
    <3>1. MessageOK(k)
      BY <2>5
    <3> QED
      BY <1>1, <1>5, <3>1 DEF MessageOK, Told
  <2> QED
    BY <2>6 DEF ToClientInv
<1>9. ToServerInv' /\ AcknowledgedIsReceived' /\ CommandsIntact'
  BY <1>1 DEF IInv, ToServerInv, AcknowledgedIsReceived, CommandsIntact
<1>10. ClientInv'
  BY <1>1, <1>5 DEF IInv, ClientInv, Told
<1> QED
  BY <1>6, <1>7, <1>8, <1>9, <1>10 DEF IInv

\* The acknowledgement of a client that was not dropped is never out of range.
LEMMA AcknowledgedInRange ==
  ASSUME IInv, NEW i \in 1 .. Len(toServer), state # "CS_ZOMBIE"
  PROVE  ~OutOfRange(toServer[i].ack)
<1>1. /\ toServer[i].ack \in Nat /\ reliableAcknowledge <= toServer[i].ack
      /\ reliableSequence \in Nat /\ reliableAcknowledge \in Nat
      /\ reliableSequence <= reliableAcknowledge + MAX_RELIABLE_COMMANDS
  BY PacketFacts DEF IInv, TypeOK, ServerInv
<1> QED
  BY <1>1 DEF OutOfRange

LEMMA ExecuteInv ==
  ASSUME IInv, SV_ExecuteClientMessage
  PROVE  IInv' /\ reliableAcknowledge' >= reliableAcknowledge
<1>1. PICK i \in 1 .. Len(toServer) :
        /\ toServer' = After(toServer, i)
        /\ \/ /\ state = "CS_ZOMBIE"
              /\ UNCHANGED <<reliableAcknowledge, badKey>>
           \/ /\ state # "CS_ZOMBIE"
              /\ ~OutOfRange(toServer[i].ack)
              /\ reliableAcknowledge' = toServer[i].ack
              /\ badKey' = (badKey \/ (/\ state = "CS_PRIMED"
                                       /\ reliableCommands[Slot(toServer[i].ack)] # toServer[i].key))
  BY AcknowledgedInRange DEF SV_ExecuteClientMessage
<1>2. /\ UNCHANGED <<state, reliableSequence, reliableCommands, toClient>>
      /\ UNCHANGED <<connected, serverCommandSequence, serverCommands,
                     lastExecutedServerCommand, serverCommandNum, garbled>>
      /\ UNCHANGED <<overflowed, disconnect, uninformed, disconnectCalls>>
  BY DEF SV_ExecuteClientMessage, client, dropped
<1>3. /\ reliableAcknowledge \in Nat /\ reliableSequence \in Nat /\ serverCommandSequence \in Nat
      /\ toServer \in Seq(Packet) /\ Len(toServer) \in Nat /\ Len(toServer) <= MaxInFlight
  BY DEF IInv, TypeOK
<1>4. toServer[i].ack \in Nat /\ reliableAcknowledge <= toServer[i].ack
      /\ toServer[i].ack <= serverCommandSequence
  BY PacketFacts
<1>5. \/ reliableAcknowledge' = reliableAcknowledge
      \/ reliableAcknowledge' = toServer[i].ack
  BY <1>1
<1>6. /\ reliableAcknowledge' \in Nat
      /\ reliableAcknowledge <= reliableAcknowledge'
      /\ reliableAcknowledge' <= toServer[i].ack
  BY <1>3, <1>4, <1>5
<1>7. /\ toServer' \in Seq(Packet)
      /\ Len(toServer') = Len(toServer) - i
      /\ \A j \in 1 .. Len(toServer) - i : toServer'[j] = toServer[j + i]
  BY <1>1, <1>3, AfterProperties
<1>8. badKey' \in BOOLEAN
  <2>1. badKey \in BOOLEAN
    BY DEF IInv, TypeOK
  <2> QED
    BY <1>1, <2>1
<1>9. TypeOK'
  <2>1. Len(toServer') <= MaxInFlight
    BY <1>3, <1>7
  <2> QED
    BY <1>2, <1>6, <1>7, <1>8, <2>1 DEF IInv, TypeOK
<1>10. ServerInv'
  <2>1. ASSUME ~overflowed
        PROVE  reliableSequence <= reliableAcknowledge' + MAX_RELIABLE_COMMANDS
    <3>1. reliableSequence <= reliableAcknowledge + MAX_RELIABLE_COMMANDS
      BY <2>1 DEF IInv, ServerInv
    <3>2. /\ reliableSequence \in Nat /\ reliableAcknowledge \in Nat
          /\ reliableAcknowledge' \in Nat /\ reliableAcknowledge <= reliableAcknowledge'
      BY <1>3, <1>6
    <3>3. \A a \in Nat : reliableAcknowledge <= a => reliableSequence <= a + MAX_RELIABLE_COMMANDS
      BY <3>1, <3>2
    <3> QED
      BY <3>2, <3>3
  <2> QED
    BY <1>2, <2>1 DEF IInv, ServerInv, Told
<1>11. ToClientInv'
  <2> SUFFICES ASSUME NEW j \in 1 .. Len(toClient) PROVE MessageOK(toClient[j])'
    BY <1>2 DEF ToClientInv
  <2>1. MessageOK(toClient[j]) /\ toClient[j].first \in Nat
    BY MessageFacts
  <2> QED
    BY <1>2, <1>3, <1>6, <2>1 DEF MessageOK, Told
<1>12. ToServerInv'
  <2>1. ASSUME NEW j \in 1 .. Len(toServer')
        PROVE  /\ toServer'[j] = toServer[j + i] /\ j + i \in 1 .. Len(toServer) /\ i <= j + i
               /\ toServer[j + i].ack \in Nat
               /\ toServer[i].ack <= toServer[j + i].ack
               /\ toServer[j + i].ack <= serverCommandSequence
    <3>1. j + i \in 1 .. Len(toServer) /\ i <= j + i /\ toServer'[j] = toServer[j + i]
      BY <1>3, <1>7
    <3>2. toServer[i].ack <= toServer[j + i].ack
      BY <3>1 DEF IInv, ToServerInv
    <3> QED
      BY <3>1, <3>2, PacketFacts
  <2>2. ASSUME NEW j \in 1 .. Len(toServer')
        PROVE  reliableAcknowledge' <= toServer'[j].ack /\ toServer'[j].ack <= serverCommandSequence'
    BY <1>2, <1>4, <1>6, <2>1
  <2>3. ASSUME NEW j \in 1 .. Len(toServer'), NEW k \in 1 .. Len(toServer'), j <= k
        PROVE  toServer'[j].ack <= toServer'[k].ack
    <3>1. /\ toServer'[j] = toServer[j + i] /\ j + i \in 1 .. Len(toServer)
          /\ toServer'[k] = toServer[k + i] /\ k + i \in 1 .. Len(toServer)
      BY <2>1
    <3>2. j + i <= k + i
      BY <1>3, <1>7, <2>3
    <3> QED
      BY <3>1, <3>2 DEF IInv, ToServerInv
  <2> QED
    BY <2>2, <2>3 DEF ToServerInv
<1>13. ClientInv' /\ CommandsIntact'
  BY <1>2 DEF IInv, ClientInv, CommandsIntact, Told
<1>14. AcknowledgedIsReceived'
  BY <1>2, <1>3, <1>4, <1>6 DEF IInv, AcknowledgedIsReceived
<1> QED
  BY <1>3, <1>6, <1>9, <1>10, <1>11, <1>12, <1>13, <1>14 DEF IInv

\* What the client takes from a message goes in the ring behind what it has.
LEMMA ParseInv == IInv /\ CL_ParseServerMessage => IInv'
<1> SUFFICES ASSUME IInv, CL_ParseServerMessage PROVE IInv'
  OBVIOUS
<1>1. PICK i \in 1 .. Len(toClient) :
        /\ toClient' = After(toClient, i)
        /\ serverCommandSequence' =
              IF DOMAIN New(toClient[i]) = {} THEN serverCommandSequence ELSE toClient[i].last
        /\ serverCommands' = Store(serverCommands, New(toClient[i]))
        /\ serverCommandNum' = IF toClient[i].snapshot THEN serverCommandSequence' ELSE 0
  BY DEF CL_ParseServerMessage
<1> DEFINE m == toClient[i]
           new == New(m)
<1>2. /\ UNCHANGED <<state, reliableSequence, reliableAcknowledge, reliableCommands, toServer>>
      /\ UNCHANGED <<connected, lastExecutedServerCommand, garbled, badKey>>
      /\ UNCHANGED <<overflowed, disconnect, uninformed, disconnectCalls>>
  BY DEF CL_ParseServerMessage, server, dropped
<1>3. /\ reliableAcknowledge \in Nat /\ reliableSequence \in Nat /\ serverCommandSequence \in Nat
      /\ reliableAcknowledge <= serverCommandSequence /\ serverCommandSequence <= reliableSequence
      /\ serverCommands \in Ring
      /\ toClient \in Seq(Message) /\ Len(toClient) \in Nat /\ Len(toClient) <= MaxInFlight
  BY DEF IInv, TypeOK, AcknowledgedIsReceived
<1>4. m.first \in Nat /\ m.last \in Nat /\ m.texts \in Ring /\ MessageOK(m)
  BY MessageFacts
<1>5. DOMAIN new = {n \in m.first .. m.last : n > serverCommandSequence}
  BY DEF New
<1>6. \A n \in DOMAIN new : new[n] = m.texts[Slot(n)]
  BY DEF New
<1>7. DOMAIN new \subseteq Nat
  BY <1>4, <1>5
<1>8. \A n \in DOMAIN new : new[n] \in Nat
  <2> TAKE n \in DOMAIN new
  <2>1. Slot(n) \in Slots
    BY <1>7, SlotType
  <2> QED
    BY <1>4, <1>6, <2>1 DEF Ring
<1>9. m.first <= serverCommandSequence + 1 /\ m.last <= reliableSequence
  BY <1>3, <1>4 DEF MessageOK
<1>10. /\ toClient' = After(toClient, i)
       /\ serverCommandSequence' = IF DOMAIN new = {} THEN serverCommandSequence ELSE m.last
       /\ serverCommands' = Store(serverCommands, new)
       /\ serverCommandNum' = IF m.snapshot THEN serverCommandSequence' ELSE 0
  BY <1>1
<1> HIDE DEF new, m
<1>11. serverCommands' \in Ring
  BY <1>3, <1>7, <1>8, <1>10, StoreType
<1>12. DOMAIN new # {} =>
          /\ m.last \in DOMAIN new
          /\ m.last > serverCommandSequence
          /\ \A n \in DOMAIN new : n <= m.last
          /\ \A n \in (serverCommandSequence + 1) .. m.last : n \in DOMAIN new
  BY <1>3, <1>4, <1>5, <1>9
<1>13. /\ serverCommandSequence' \in Nat
       /\ serverCommandSequence <= serverCommandSequence'
       /\ serverCommandSequence' <= reliableSequence
  BY <1>3, <1>4, <1>9, <1>10, <1>12
<1>14. DOMAIN new = {} => serverCommands' = serverCommands
  <2> SUFFICES ASSUME DOMAIN new = {} PROVE serverCommands' = serverCommands
    OBVIOUS
  <2>1. \A s \in Slots : serverCommands'[s] = serverCommands[s]
    BY <1>10 DEF Store
  <2> QED
    BY <1>3, <1>11, <2>1 DEF Ring
<1>15. ASSUME ~overflowed PROVE Right(serverCommands', serverCommandSequence')
  <2>1. Right(serverCommands, serverCommandSequence)
    BY <1>15 DEF IInv, ClientInv
  <2>2. CASE DOMAIN new = {}
    BY <1>10, <1>14, <2>1, <2>2
  <2>3. CASE DOMAIN new # {}
    <3>1. serverCommandSequence' = m.last
      BY <1>10, <2>3
    <3>2. m.last < m.first + MAX_RELIABLE_COMMANDS /\ Right(m.texts, m.last)
      BY <1>4, <1>15 DEF MessageOK
    <3>3. ASSUME NEW n \in 1 .. m.last, n + MAX_RELIABLE_COMMANDS > m.last
          PROVE  serverCommands'[Slot(n)] = n
      <4>1. \A k \in DOMAIN new : k < n + MAX_RELIABLE_COMMANDS
        BY <1>4, <1>7, <1>12, <2>3, <3>3
      <4>2. CASE n > serverCommandSequence
        <5>1. n \in DOMAIN new
          BY <1>3, <1>12, <2>3, <4>2
        <5>2. serverCommands'[Slot(n)] = new[n]
          BY <1>7, <1>10, <4>1, <5>1, StoreIn
        <5>3. new[n] = m.texts[Slot(n)] /\ m.texts[Slot(n)] = n
          BY <1>6, <3>2, <3>3, <5>1 DEF Right
        <5> QED
          BY <5>2, <5>3
      <4>3. CASE n <= serverCommandSequence
        <5>1. \A k \in DOMAIN new : n < k /\ k < n + MAX_RELIABLE_COMMANDS
          BY <1>3, <1>5, <1>7, <4>1, <4>3
        <5>2. serverCommands'[Slot(n)] = serverCommands[Slot(n)]
          BY <1>7, <1>10, <5>1, StoreOut
        <5>3. n \in 1 .. serverCommandSequence /\ n + MAX_RELIABLE_COMMANDS > serverCommandSequence
          BY <1>3, <1>4, <1>12, <2>3, <3>3, <4>3
        <5> QED
          BY <2>1, <5>2, <5>3 DEF Right
      <4> QED
        BY <1>3, <4>2, <4>3
    <3> QED
      BY <3>1, <3>3 DEF Right
  <2> QED
    BY <2>2, <2>3
<1>16. ASSUME Told, serverCommandSequence' = reliableSequence
       PROVE  serverCommands'[Slot(serverCommandSequence')] = serverCommandSequence'
  <2>1. CASE DOMAIN new = {}
    BY <1>10, <1>14, <1>16, <2>1 DEF IInv, ClientInv
  <2>2. CASE DOMAIN new # {}
    <3>1. serverCommandSequence' = m.last /\ m.last \in DOMAIN new
      BY <1>10, <1>12, <2>2
    <3>2. \A k \in DOMAIN new : k < m.last + MAX_RELIABLE_COMMANDS
      BY <1>4, <1>7, <1>12, <2>2
    <3>3. serverCommands'[Slot(m.last)] = new[m.last]
      BY <1>7, <1>10, <3>1, <3>2, StoreIn
    <3>4. new[m.last] = m.texts[Slot(m.last)]
      BY <1>6, <3>1
    <3>5. m.texts[Slot(m.last)] = m.last
      BY <1>4, <1>16, <3>1 DEF MessageOK
    <3> QED
      BY <3>1, <3>3, <3>4, <3>5
  <2> QED
    BY <2>1, <2>2
<1>17. serverCommandNum' \in Nat /\ serverCommandNum' <= serverCommandSequence'
  BY <1>10, <1>13
<1>18. /\ toClient' \in Seq(Message)
       /\ Len(toClient') = Len(toClient) - i
       /\ \A j \in 1 .. Len(toClient) - i : toClient'[j] = toClient[j + i]
  BY <1>3, <1>10, AfterProperties
<1>19. TypeOK'
  <2>1. Len(toClient') <= MaxInFlight
    BY <1>3, <1>18
  <2> QED
    BY <1>2, <1>11, <1>13, <1>17, <1>18, <2>1 DEF IInv, TypeOK
<1>20. ServerInv' /\ CommandsIntact'
  BY <1>2 DEF IInv, ServerInv, CommandsIntact, Told
<1>21. ToClientInv'
  <2>1. ASSUME NEW j \in 1 .. Len(toClient') PROVE MessageOK(toClient[j])'
    <3> DEFINE k == toClient'[j]
    <3>1. j + i \in 1 .. Len(toClient) /\ k = toClient[j + i]
      BY <1>3, <1>18
    <3>2. MessageOK(k)
      BY <3>1, MessageFacts
    <3> QED
      BY <1>2, <3>2 DEF MessageOK, Told
  <2> QED
    BY <2>1 DEF ToClientInv
<1>22. ToServerInv'
  <2> SUFFICES ASSUME NEW j \in 1 .. Len(toServer)
               PROVE  toServer[j].ack <= serverCommandSequence'
    BY <1>2 DEF IInv, ToServerInv
  <2>1. toServer[j].ack \in Nat /\ toServer[j].ack <= serverCommandSequence
    BY PacketFacts
  <2> QED
    BY <1>3, <1>13, <2>1
<1>23. ClientInv'
  <2>1. lastExecutedServerCommand <= serverCommandSequence'
    BY <1>3, <1>13 DEF IInv, ClientInv, TypeOK
  <2> QED
    BY <1>2, <1>15, <1>16, <1>17, <2>1 DEF IInv, ClientInv, Told
<1>24. AcknowledgedIsReceived'
  BY <1>2, <1>3, <1>13 DEF AcknowledgedIsReceived
<1> QED
  BY <1>19, <1>20, <1>21, <1>22, <1>23, <1>24 DEF IInv

\* A command that is not cycled out is right, and the disconnect command is seen.
LEMMA GetInv == IInv /\ CL_GetServerCommand => IInv'
<1> SUFFICES ASSUME IInv, CL_GetServerCommand PROVE IInv'
  OBVIOUS
<1> DEFINE n == lastExecutedServerCommand + 1
           text == serverCommands[Slot(n)]
<1>1. /\ connected
      /\ n <= serverCommandNum
      /\ \/ /\ n + MAX_RELIABLE_COMMANDS <= serverCommandSequence
            /\ connected' = FALSE
            /\ UNCHANGED <<lastExecutedServerCommand, garbled>>
         \/ /\ n + MAX_RELIABLE_COMMANDS > serverCommandSequence
            /\ lastExecutedServerCommand' = n
            /\ garbled' = IF text = n THEN garbled ELSE garbled \cup {n}
            /\ connected' = (disconnect = 0 \/ text # disconnect)
  BY DEF CL_GetServerCommand
<1>2. /\ UNCHANGED <<state, reliableSequence, reliableAcknowledge, reliableCommands>>
      /\ UNCHANGED <<serverCommandSequence, serverCommands, serverCommandNum, toClient, toServer>>
      /\ UNCHANGED <<overflowed, disconnect, uninformed, disconnectCalls, badKey>>
  BY DEF CL_GetServerCommand, server, dropped
<1>3. /\ n \in Nat /\ n >= 1 /\ lastExecutedServerCommand \in Nat
      /\ serverCommandNum \in Nat /\ serverCommandSequence \in Nat /\ reliableSequence \in Nat
      /\ serverCommandNum <= serverCommandSequence
      /\ serverCommandSequence <= reliableSequence
      /\ garbled \subseteq Nat
  BY DEF IInv, TypeOK, ClientInv, AcknowledgedIsReceived
<1>4. n \in 1 .. serverCommandSequence
  BY <1>1, <1>3
<1> HIDE DEF n, text
<1>5. lastExecutedServerCommand' \in Nat /\ lastExecutedServerCommand' <= serverCommandSequence
  <2>1. lastExecutedServerCommand <= serverCommandSequence
    BY DEF IInv, ClientInv
  <2> QED
    BY <1>1, <1>3, <1>4, <2>1
<1>6. garbled' \subseteq Nat /\ connected' \in BOOLEAN
  BY <1>1, <1>3
<1>7. TypeOK'
  BY <1>2, <1>5, <1>6 DEF IInv, TypeOK
<1>8. ServerInv' /\ ToServerInv' /\ AcknowledgedIsReceived'
  BY <1>2 DEF IInv, ServerInv, ToServerInv, AcknowledgedIsReceived, Told
<1>9. ToClientInv'
  BY <1>2 DEF IInv, ToClientInv, MessageOK, Told
<1>10. ASSUME ~overflowed, n + MAX_RELIABLE_COMMANDS > serverCommandSequence PROVE text = n
  <2>1. Right(serverCommands, serverCommandSequence)
    BY <1>10 DEF IInv, ClientInv
  <2> QED
    BY <1>4, <1>10, <2>1 DEF Right, text
<1>11. CommandsIntact'
  BY <1>1, <1>2, <1>10 DEF IInv, CommandsIntact
<1>12. ASSUME Told, lastExecutedServerCommand' = disconnect PROVE ~connected'
  <2>1. disconnect = reliableSequence /\ reliableSequence > 0
    BY <1>12 DEF IInv, ServerInv
  <2>2. CASE lastExecutedServerCommand' = n
    <3>1. n = serverCommandSequence /\ serverCommandSequence = reliableSequence
      BY <1>3, <1>4, <1>12, <2>1, <2>2
    <3>2. text = disconnect
      BY <1>12, <2>1, <3>1 DEF IInv, ClientInv, text
    <3>3. disconnect # 0
      BY <1>3, <2>1
    <3>4. connected' = FALSE \/ connected' = (disconnect = 0 \/ text # disconnect)
      BY <1>1
    <3> QED
      BY <3>2, <3>3, <3>4
  <2>3. CASE lastExecutedServerCommand' # n
    BY <1>1, <2>3
  <2> QED
    BY <2>2, <2>3
<1>13. ClientInv'
  BY <1>2, <1>5, <1>12 DEF IInv, ClientInv, Told
<1> QED
  BY <1>7, <1>8, <1>9, <1>11, <1>13 DEF IInv

LEMMA WriteInv == IInv /\ CL_WritePacket => IInv'
<1> SUFFICES ASSUME IInv, CL_WritePacket PROVE IInv'
  OBVIOUS
<1> DEFINE p == [ack |-> serverCommandSequence, key |-> serverCommands[Slot(serverCommandSequence)]]
<1>1. /\ toServer' = Sent(toServer, p)
      /\ UNCHANGED <<state, reliableSequence, reliableAcknowledge, reliableCommands, toClient>>
      /\ UNCHANGED <<connected, serverCommandSequence, serverCommands,
                     lastExecutedServerCommand, serverCommandNum, garbled>>
      /\ UNCHANGED <<overflowed, disconnect, uninformed, disconnectCalls, badKey>>
  BY DEF CL_WritePacket, server, client, dropped
<1>2. /\ serverCommandSequence \in Nat /\ reliableAcknowledge \in Nat /\ serverCommands \in Ring
      /\ toServer \in Seq(Packet) /\ Len(toServer) \in Nat /\ Len(toServer) <= MaxInFlight
      /\ reliableAcknowledge <= serverCommandSequence
  BY DEF IInv, TypeOK, AcknowledgedIsReceived
<1>3. p \in Packet /\ p.ack = serverCommandSequence
  <2>1. Slot(serverCommandSequence) \in Slots
    BY <1>2, SlotType
  <2> QED
    BY <1>2, <2>1 DEF Packet, Ring
<1> HIDE DEF p
<1> DEFINE channel == Sent(toServer, p)
<1>4. /\ channel \in Seq(Packet)
      /\ Len(channel) <= MaxInFlight
      /\ \E lost \in 0 .. 1 :
            /\ Len(channel) = Len(toServer) + 1 - lost
            /\ \A i \in 1 .. Len(toServer) - lost : channel[i] = toServer[i + lost]
            /\ channel[Len(toServer) + 1 - lost] = p
  <2>1. p \in Packet
    BY <1>3
  <2> QED
    BY <1>2, <2>1, SentProperties
<1>5. toServer' = channel
  BY <1>1
<1> HIDE DEF channel
<1>6. TypeOK'
  BY <1>1, <1>4, <1>5 DEF IInv, TypeOK
<1>7. ServerInv' /\ AcknowledgedIsReceived' /\ ClientInv' /\ CommandsIntact'
  BY <1>1 DEF IInv, ServerInv, AcknowledgedIsReceived, ClientInv, CommandsIntact, Told
<1>8. ToClientInv'
  BY <1>1 DEF IInv, ToClientInv, MessageOK, Told
<1>9. ToServerInv'
  <2>1. PICK lost \in 0 .. 1 :
          /\ Len(channel) = Len(toServer) + 1 - lost
          /\ \A i \in 1 .. Len(toServer) - lost : channel[i] = toServer[i + lost]
          /\ channel[Len(toServer) + 1 - lost] = p
    BY <1>4
  <2>2. ASSUME NEW i \in 1 .. Len(channel)
        PROVE  \/ i = Len(channel) /\ channel[i].ack = serverCommandSequence
               \/ /\ i < Len(channel) /\ i + lost \in 1 .. Len(toServer)
                  /\ channel[i] = toServer[i + lost]
    BY <1>2, <1>3, <2>1
  <2>3. ASSUME NEW i \in 1 .. Len(channel)
        PROVE  /\ channel[i].ack \in Nat
               /\ reliableAcknowledge <= channel[i].ack
               /\ channel[i].ack <= serverCommandSequence
    BY <1>2, <2>2, PacketFacts
  <2>4. ASSUME NEW i \in 1 .. Len(channel), NEW j \in 1 .. Len(channel), i <= j
        PROVE  channel[i].ack <= channel[j].ack
    <3>1. CASE j = Len(channel)
      BY <2>2, <2>3, <3>1
    <3>2. CASE j # Len(channel)
      <4>1. /\ channel[i] = toServer[i + lost] /\ i + lost \in 1 .. Len(toServer)
            /\ channel[j] = toServer[j + lost] /\ j + lost \in 1 .. Len(toServer)
        BY <2>1, <2>2, <2>4, <3>2
      <4>2. i + lost <= j + lost
        BY <2>4
      <4> QED
        BY <4>1, <4>2 DEF IInv, ToServerInv
    <3> QED
      BY <3>1, <3>2
  <2> QED
    BY <1>1, <1>5, <2>3, <2>4 DEF ToServerInv
<1> QED
  BY <1>6, <1>7, <1>8, <1>9 DEF IInv

--------------------------------------------------------------------------------
(* The theorems. *)

LEMMA NextInv == IInv /\ [Next]_vars => IInv'
<1> SUFFICES ASSUME IInv, [Next]_vars PROVE IInv'
  OBVIOUS
<1>1. CASE SV_AddServerCommand
  BY <1>1, AddInv
<1>2. CASE SV_DropClient
  BY <1>2, DropInv
<1>3. CASE SV_SendClientGameState
  <2>1. state' \in State /\ (state' = "CS_ZOMBIE" <=> state = "CS_ZOMBIE")
    BY <1>3 DEF SV_SendClientGameState, State
  <2>2. SV_SendMessageToClient(FALSE)
    BY <1>3 DEF SV_SendClientGameState
  <2>3. \E snapshot \in BOOLEAN : SV_SendMessageToClient(snapshot)
    BY <2>2
  <2> QED
    BY <2>1, <2>3, SendInv
<1>4. CASE SV_SendClientSnapshot
  <2>1. state' \in State /\ (state' = "CS_ZOMBIE" <=> state = "CS_ZOMBIE")
    BY <1>4 DEF SV_SendClientSnapshot, IInv, TypeOK
  <2>2. SV_SendMessageToClient(TRUE)
    BY <1>4 DEF SV_SendClientSnapshot
  <2>3. \E snapshot \in BOOLEAN : SV_SendMessageToClient(snapshot)
    BY <2>2
  <2> QED
    BY <2>1, <2>3, SendInv
<1>5. CASE SV_ExecuteClientMessage
  BY <1>5, ExecuteInv
<1>6. CASE CL_ParseServerMessage
  BY <1>6, ParseInv
<1>7. CASE CL_GetServerCommand
  BY <1>7, GetInv
<1>8. CASE CL_WritePacket
  BY <1>8, WriteInv
<1>9. CASE SV_SpawnServer
  BY <1>9, SpawnServerInv
<1>10. CASE UNCHANGED vars
  <2> USE <1>10 DEF vars, server, client, dropped
  <2>1. TypeOK' /\ ServerInv' /\ ToServerInv' /\ ClientInv'
    BY DEF IInv, TypeOK, ServerInv, ToServerInv, ClientInv, Told
  <2>2. ToClientInv'
    BY DEF IInv, ToClientInv, MessageOK, Told
  <2>3. AcknowledgedIsReceived' /\ CommandsIntact'
    BY DEF IInv, AcknowledgedIsReceived, CommandsIntact
  <2> QED
    BY <2>1, <2>2, <2>3 DEF IInv
<1> QED
  BY <1>1, <1>2, <1>3, <1>4, <1>5, <1>6, <1>7, <1>8, <1>9, <1>10 DEF Next

\* The two ends agree on what is acknowledged, received and in the rings.
THEOREM Invariance == Spec => []IInv
<1>1. Init => IInv
  BY InitInv
<1>2. IInv /\ [Next]_vars => IInv'
  BY NextInv
<1> QED
  BY <1>1, <1>2, PTL DEF Spec

\* Both rings and everything in flight keep their type (client_t, clientConnection_t).
THEOREM TypeCorrect == Spec => []TypeOK
<1>1. IInv => TypeOK
  BY DEF IInv
<1> QED
  BY <1>1, Invariance, PTL

\* The cgame executes under every number the command the server added under it,
\* unless the ring overflowed (CL_GetServerCommand).
THEOREM Intact == Spec => []CommandsIntact
<1>1. IInv => CommandsIntact
  BY DEF IInv
<1> QED
  BY <1>1, Invariance, PTL

\* The server never drops a command from its messages that the client has not got
\* (SV_UpdateServerCommandsToClient).
THEOREM Received == Spec => []AcknowledgedIsReceived
<1>1. IInv => AcknowledgedIsReceived
  BY DEF IInv
<1> QED
  BY <1>1, Invariance, PTL

\* A client that was dropped and has executed every command is disconnected
\* (SV_DropClient).
THEOREM DisconnectLast == Spec => []DisconnectIsLast
<1>1. IInv => DisconnectIsLast
  BY DEF IInv, ServerInv, ClientInv, DisconnectIsLast, Told
<1> QED
  BY <1>1, Invariance, PTL

\* An acknowledgement is never taken back (SV_ExecuteClientMessage).
THEOREM Advances == Spec => AcknowledgeAdvances
<1>1. IInv /\ [Next]_vars => [reliableAcknowledge' >= reliableAcknowledge]_vars
  <2> SUFFICES ASSUME IInv, Next PROVE reliableAcknowledge' >= reliableAcknowledge
    OBVIOUS
  <2>1. CASE SV_ExecuteClientMessage
    BY <2>1, ExecuteInv
  <2>2. CASE ~SV_ExecuteClientMessage
    <3>1. reliableAcknowledge' = reliableAcknowledge
      BY <2>2 DEF Next, SV_AddServerCommand, SV_DropClient, SV_SpawnServer, SV_SendClientGameState,
                  SV_SendClientSnapshot, SV_SendMessageToClient, CL_ParseServerMessage,
                  CL_GetServerCommand, CL_WritePacket, server
    <3>2. reliableAcknowledge \in Nat
      BY DEF IInv, TypeOK
    <3> QED
      BY <3>1, <3>2
  <2> QED
    BY <2>1, <2>2
<1> QED
  BY <1>1, Invariance, PTL DEF Spec, AcknowledgeAdvances
=================================================================================
