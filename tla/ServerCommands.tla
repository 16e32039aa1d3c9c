----------------------------- MODULE ServerCommands -----------------------------
(***************************************************************************)
(* The reliable commands that the server sends to one client: numbered,     *)
(* kept in a ring of MAX_RELIABLE_COMMANDS, repeated in every message until *)
(* the client acknowledges them, and executed by the client's cgame.        *)
(* The text of a command is modelled by the number it was added under; 0    *)
(* stands for the empty text.  Each direction of the connection is the      *)
(* DatagramChannel that NetChan implements: in order, at most once, lossy.  *)
(***************************************************************************)
EXTENDS Naturals, Sequences

CONSTANTS
    MAX_RELIABLE_COMMANDS,
    MaxCommands,    \* bound: no command is added beyond this number, but by a drop
    MaxPrints,      \* bound: commands broadcast while a client is being dropped
    MaxInFlight     \* bound: datagrams in flight in one direction

ASSUME SizeAssumption ==
    /\ MAX_RELIABLE_COMMANDS \in Nat \ {0}
    /\ MaxCommands \in Nat
    /\ MaxPrints \in Nat \ {0}
    /\ MaxInFlight \in Nat \ {0}

VARIABLES
    \* client_t
    state, reliableSequence, reliableAcknowledge, reliableCommands,
    \* the two directions: sequences of datagrams that can still arrive
    toClient, toServer,
    \* clientConnection_t
    connected, serverCommandSequence, serverCommands, lastExecutedServerCommand,
    serverCommandNum,   \* cl.snap.serverCommandNum
    \* history
    overflowed,         \* the server dropped the client for an overflow
    disconnect,         \* the number the disconnect command was added under, or 0
    uninformed,         \* the client was dropped while the server stores no commands for it
    disconnectCalls,    \* calls of GAME_CLIENT_DISCONNECT
    garbled,            \* commands executed with the text of another
    badKey              \* user commands were decoded with another key than the client's

server  == <<state, reliableSequence, reliableAcknowledge, reliableCommands>>
client  == <<connected, serverCommandSequence, serverCommands, lastExecutedServerCommand,
             serverCommandNum, garbled>>
dropped == <<overflowed, disconnect, uninformed, disconnectCalls>>
vars    == <<server, client, toClient, toServer, dropped, badKey>>

State == {"CS_ZOMBIE", "CS_CONNECTED", "CS_PRIMED"}

Slot(n) == n % MAX_RELIABLE_COMMANDS
Slots   == 0 .. MAX_RELIABLE_COMMANDS - 1
Ring    == [Slots -> Nat]

\* A ring after the commands of texts, a function of their numbers, went in: of
\* those that share a slot the last one stays.
Store(ring, texts) ==
    [s \in Slots |->
        LET stays == {n \in DOMAIN texts :
                         Slot(n) = s /\ \A k \in DOMAIN texts : k < n + MAX_RELIABLE_COMMANDS}
        IN  IF stays = {} THEN ring[s] ELSE texts[CHOOSE n \in stays : TRUE]]

\* The commands from first to last, as they were added.
Own(first, last) == [n \in first .. last |-> n]

\* The datagrams: the commands first to last, before a snapshot or the gamestate;
\* and an acknowledgement with the text that keys the user commands.
Message == [first : Nat, last : Nat, texts : Ring, snapshot : BOOLEAN]
Packet  == [ack : Nat, key : Nat]

Init ==
    /\ state = "CS_CONNECTED"
    /\ reliableSequence = 0
    /\ reliableAcknowledge = 0
    /\ reliableCommands = [s \in Slots |-> 0]
    /\ toClient = <<>>
    /\ toServer = <<>>
    /\ connected = TRUE
    /\ serverCommandSequence = 0
    /\ serverCommands = [s \in Slots |-> 0]
    /\ lastExecutedServerCommand = 0
    /\ serverCommandNum = 0
    /\ overflowed = FALSE
    /\ disconnect = 0
    /\ uninformed = FALSE
    /\ disconnectCalls = 0
    /\ garbled = {}
    /\ badKey = FALSE

--------------------------------------------------------------------------------
(* The server. *)

\* Mutant: one more command than the ring holds.
RingFullLate == reliableSequence - reliableAcknowledge = MAX_RELIABLE_COMMANDS + 1

\* The unacknowledged commands fill the ring.
RingFull == reliableSequence - reliableAcknowledge = MAX_RELIABLE_COMMANDS

\* Mutant: the disconnect command is added after the client is a zombie.
OverflowZombieFirst(full, prints, calls) ==
    LET last == full + 1 + prints
    IN  /\ reliableSequence' = last
        /\ reliableCommands' =
              Store(Store(reliableCommands, Own(reliableSequence + 1, full)), Own(full + 2, last))
        /\ disconnect' = 0
        /\ overflowed' = TRUE
        /\ disconnectCalls' = disconnectCalls + calls
        /\ state' = "CS_ZOMBIE"
        /\ UNCHANGED uninformed

\* SV_DropClient for an overflow by the command after number full, which was not
\* stored: prints commands are broadcast to all, this client too, then the
\* disconnect command, none of them checked for overflow (== and not >=).
Overflow(full, prints, calls) ==
    LET last == full + 1 + prints + 1
    IN  /\ reliableSequence' = last
        /\ reliableCommands' =
              Store(Store(reliableCommands, Own(reliableSequence + 1, full)), Own(full + 2, last))
        /\ disconnect' = last
        /\ overflowed' = TRUE
        /\ disconnectCalls' = disconnectCalls + calls
        /\ state' = "CS_ZOMBIE"
        /\ UNCHANGED uninformed

SV_AddServerCommand ==
    /\ state = "CS_PRIMED"
    /\ reliableSequence < MaxCommands
    /\ \/ /\ ~RingFull
          /\ reliableSequence' = reliableSequence + 1
          /\ reliableCommands' = Store(reliableCommands, Own(reliableSequence + 1, reliableSequence + 1))
          /\ UNCHANGED <<state, dropped>>
       \/ /\ RingFull
          /\ \E prints \in 1 .. MaxPrints : Overflow(reliableSequence, prints, 1)
    /\ UNCHANGED <<reliableAcknowledge, client, toClient, toServer, badKey>>

\* The drop of a client that has the gamestate; the prints may overflow the ring, and
\* then the client is dropped once more from within.
DropPrimed ==
    /\ state = "CS_PRIMED"
    /\ \E prints \in 1 .. MaxPrints :
          LET last == reliableSequence + prints + 1
              full == reliableAcknowledge + MAX_RELIABLE_COMMANDS
          IN  \/ /\ last <= full
                 /\ reliableSequence' = last
                 /\ reliableCommands' = Store(reliableCommands, Own(reliableSequence + 1, last))
                 /\ disconnect' = last
                 /\ disconnectCalls' = disconnectCalls + 1
                 /\ state' = "CS_ZOMBIE"
                 /\ UNCHANGED <<overflowed, uninformed>>
              \/ /\ last > full
                 /\ Overflow(full, prints, 2)

\* The drop of a client that awaits the gamestate: SV_AddServerCommand stores neither
\* the prints nor the disconnect command.
DropConnected ==
    /\ state = "CS_CONNECTED"
    /\ state' = "CS_ZOMBIE"
    /\ uninformed' = TRUE
    /\ disconnectCalls' = disconnectCalls + 1
    /\ UNCHANGED <<reliableSequence, reliableCommands, overflowed, disconnect>>

\* SV_DropClient for any other reason than an overflow.
SV_DropClient ==
    /\ DropPrimed \/ DropConnected
    /\ UNCHANGED <<reliableAcknowledge, client, toClient, toServer, badKey>>

\* A change of the map: until the gamestate is sent again no command is stored.
SV_SpawnServer ==
    /\ state = "CS_PRIMED"
    /\ state' = "CS_CONNECTED"
    /\ UNCHANGED <<reliableSequence, reliableAcknowledge, reliableCommands, client, toClient,
                   toServer, dropped, badKey>>

\* One more datagram in flight; when there are too many, the oldest is lost.
Sent(channel, m) ==
    IF Len(channel) < MaxInFlight THEN Append(channel, m) ELSE Append(Tail(channel), m)

\* SV_UpdateServerCommandsToClient: every command not yet acknowledged, each with
\* the text in its slot.
Unacknowledged(snapshot) ==
    [first |-> reliableAcknowledge + 1, last |-> reliableSequence, texts |-> reliableCommands,
     snapshot |-> snapshot]

SV_SendMessageToClient(snapshot) ==
    /\ toClient' = Sent(toClient, Unacknowledged(snapshot))
    /\ UNCHANGED <<reliableSequence, reliableAcknowledge, reliableCommands, client, toServer,
                   dropped, badKey>>

SV_SendClientGameState ==
    /\ state = "CS_CONNECTED"
    /\ state' = "CS_PRIMED"
    /\ SV_SendMessageToClient(FALSE)

\* Clients that were dropped still get messages, until they are freed.
SV_SendClientSnapshot ==
    /\ SV_SendMessageToClient(TRUE)
    /\ UNCHANGED state

\* What is left of a channel when its i-th datagram arrives: the earlier ones are
\* lost, or arrive late and are discarded.
After(channel, i) == SubSeq(channel, i + 1, Len(channel))

\* Mutant: <= for <.
OutOfRangeAtLimit(ack) == ack + MAX_RELIABLE_COMMANDS <= reliableSequence

\* The check of SV_ExecuteClientMessage for acknowledgements that cannot be.
OutOfRange(ack) == ack + MAX_RELIABLE_COMMANDS < reliableSequence

\* SV_ExecuteClientMessage up to the key of its user commands (SV_UserMove).
SV_ExecuteClientMessage ==
    /\ \E i \in 1 .. Len(toServer) :
          LET ack == toServer[i].ack
          IN  /\ toServer' = After(toServer, i)
              /\ \/ /\ state = "CS_ZOMBIE"      \* SV_PacketEvent
                    /\ UNCHANGED <<reliableAcknowledge, badKey>>
                 \/ /\ state # "CS_ZOMBIE"
                    /\ OutOfRange(ack)
                    /\ reliableAcknowledge' = reliableSequence
                    /\ UNCHANGED badKey
                 \/ /\ state # "CS_ZOMBIE"
                    /\ ~OutOfRange(ack)
                    /\ reliableAcknowledge' = ack
                    /\ badKey' =
                          (badKey \/ (state = "CS_PRIMED" /\ reliableCommands[Slot(ack)] # toServer[i].key))
    /\ UNCHANGED <<state, reliableSequence, reliableCommands, client, toClient, dropped>>

--------------------------------------------------------------------------------
(* The client. *)

\* The commands of a message that the client has not seen before.
New(m) ==
    [n \in {k \in m.first .. m.last : k > serverCommandSequence} |-> m.texts[Slot(n)]]

\* They are stored; then a snapshot takes the number of the last of them, and a
\* gamestate clears the last snapshot.
CL_ParseServerMessage ==
    /\ connected
    /\ \E i \in 1 .. Len(toClient) :
          LET new == New(toClient[i])
          IN  /\ toClient' = After(toClient, i)
              /\ serverCommandSequence' =
                    IF DOMAIN new = {} THEN serverCommandSequence ELSE toClient[i].last
              /\ serverCommands' = Store(serverCommands, new)
              /\ serverCommandNum' = IF toClient[i].snapshot THEN serverCommandSequence' ELSE 0
    /\ UNCHANGED <<server, connected, lastExecutedServerCommand, garbled, toServer, dropped, badKey>>

\* CG_ExecuteNewServerCommands runs the commands that came before the snapshot.
CL_GetServerCommand ==
    LET n == lastExecutedServerCommand + 1
        text == serverCommands[Slot(n)]
    IN  /\ connected
        /\ n <= serverCommandNum
        /\ \/ /\ n + MAX_RELIABLE_COMMANDS <= serverCommandSequence     \* it was cycled out
              /\ connected' = FALSE
              /\ UNCHANGED <<lastExecutedServerCommand, garbled>>
           \/ /\ n + MAX_RELIABLE_COMMANDS > serverCommandSequence
              /\ lastExecutedServerCommand' = n
              /\ garbled' = IF text = n THEN garbled ELSE garbled \cup {n}
              /\ connected' = (disconnect = 0 \/ text # disconnect)
        /\ UNCHANGED <<server, serverCommandSequence, serverCommands, serverCommandNum,
                       toClient, toServer, dropped, badKey>>

CL_WritePacket ==
    /\ connected
    /\ toServer' = Sent(toServer, [ack |-> serverCommandSequence,
                                   key |-> serverCommands[Slot(serverCommandSequence)]])
    /\ UNCHANGED <<server, client, toClient, dropped, badKey>>

--------------------------------------------------------------------------------
Next ==
    \/ SV_AddServerCommand
    \/ SV_DropClient
    \/ SV_SpawnServer
    \/ SV_SendClientGameState
    \/ SV_SendClientSnapshot
    \/ SV_ExecuteClientMessage
    \/ CL_ParseServerMessage
    \/ CL_GetServerCommand
    \/ CL_WritePacket

Spec == Init /\ [][Next]_vars

\* Both ends send and read every frame, and of what is sent again and again
\* something arrives in the end.
FairSpec ==
    /\ Spec
    /\ WF_vars(SV_SendClientSnapshot)
    /\ WF_vars(SV_ExecuteClientMessage)
    /\ WF_vars(CL_ParseServerMessage)
    /\ WF_vars(CL_GetServerCommand)
    /\ WF_vars(CL_WritePacket)

--------------------------------------------------------------------------------
(* Properties. *)

TypeOK ==
    /\ state \in State
    /\ reliableSequence \in Nat
    /\ reliableAcknowledge \in Nat
    /\ reliableCommands \in Ring
    /\ toClient \in Seq(Message)
    /\ toServer \in Seq(Packet)
    /\ Len(toClient) <= MaxInFlight /\ Len(toServer) <= MaxInFlight
    /\ connected \in BOOLEAN
    /\ serverCommandSequence \in Nat
    /\ serverCommands \in Ring
    /\ lastExecutedServerCommand \in Nat
    /\ serverCommandNum \in Nat
    /\ overflowed \in BOOLEAN
    /\ disconnect \in Nat
    /\ uninformed \in BOOLEAN
    /\ disconnectCalls \in 0 .. 2
    /\ garbled \subseteq Nat
    /\ badKey \in BOOLEAN

\* Every command that the cgame executes is the one the server added under that
\* number: none is skipped, repeated or replaced while messages are lost, as long as
\* the client was not dropped for an overflow of the ring (SV_AddServerCommand).
CommandsIntact == garbled # {} => overflowed

\* The server never takes a command for acknowledged that the client has not got:
\* it would not be sent again ("the acknowledgement numbers can be out of range").
AcknowledgedIsReceived ==
    /\ reliableAcknowledge <= serverCommandSequence
    /\ serverCommandSequence <= reliableSequence

\* A late packet never takes an acknowledgement back (SV_ExecuteClientMessage).
AcknowledgeAdvances == [][reliableAcknowledge' >= reliableAcknowledge]_vars

\* The disconnect command is the last one of a client that was dropped, and whole
\* even after an overflow, so a client that has executed all of them is off; but a
\* client that was dropped before it had the gamestate of this map is told nothing.
DisconnectIsLast ==
    state = "CS_ZOMBIE" /\ ~uninformed =>
        /\ disconnect = reliableSequence
        /\ reliableCommands[Slot(reliableSequence)] = disconnect
        /\ lastExecutedServerCommand = disconnect => ~connected

\* "The given command will be transmitted to the client" (SV_AddServerCommand), for
\* as long as both ends stay and maps do not change for ever: each new gamestate puts
\* the execution off until a snapshot comes.
CommandsArrive ==
    []<><<SV_SpawnServer>>_vars \/ \A n \in 1 .. MaxCommands :
        state = "CS_PRIMED" /\ reliableSequence >= n
            ~> lastExecutedServerCommand >= n \/ ~connected \/ state = "CS_ZOMBIE"

\* "we check == instead of >= so a broadcast print added by SV_DropClient() doesn't
\* cause a recursive drop client" (SV_AddServerCommand).
\* It does not hold: see Deviations in the README.
DroppedOnce == disconnectCalls <= 1

\* "also use the last acknowledged server command in the key" (SV_UserMove,
\* CL_WritePacket): both ends use the same key.
\* It does not hold: see Deviations in the README.
KeyAgrees == ~badKey
================================================================================
