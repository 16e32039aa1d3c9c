------------------------------- MODULE Snapshots --------------------------------
(***************************************************************************)
(* The snapshots that the server sends to one client, each as a difference  *)
(* to one that the client has, over the DatagramChannel that NetChan        *)
(* implements.  Both ends keep the last PACKET_BACKUP snapshots in a ring,  *)
(* and the entities of all snapshots in another ring, which the clients of  *)
(* a server share.  The rings of entities are modelled by positions that    *)
(* only grow: an entity is lost when the ring's size has been written since. *)
(* The player's own state goes with its snapshot in the same way.           *)
(***************************************************************************)
EXTENDS Integers, Sequences, FiniteSets

CONSTANTS
    PACKET_BACKUP,
    MAX_SNAPSHOT_ENTITIES,
    NumSnapshotEntities,    \* svs.numSnapshotEntities
    Entities,
    Worlds,                 \* what the client would see in each message: the states of the
                            \* entities, 0 for none
    OtherEntities,          \* how many entities go to other clients before each message
    MaxServerId,            \* bound: map changes
    MaxSequence,            \* bound: messages of the server
    MaxInFlight             \* bound: datagrams in flight

Count(world) == Cardinality({e \in Entities : world[e] # 0})

ASSUME SnapshotsAssumption ==
    /\ PACKET_BACKUP \in Nat /\ PACKET_BACKUP > 3
    /\ MAX_SNAPSHOT_ENTITIES \in Nat \ {0}
    /\ NumSnapshotEntities \in Nat /\ NumSnapshotEntities >= MAX_SNAPSHOT_ENTITIES
    /\ IsFiniteSet(Entities)
    /\ MaxSequence \in Nat
    /\ Worlds \in [1 .. MaxSequence -> [Entities -> Nat]]
    /\ \A n \in 1 .. MaxSequence : Count(Worlds[n]) <= MAX_SNAPSHOT_ENTITIES
    /\ OtherEntities \in [1 .. MaxSequence -> Nat]
    /\ MaxServerId \in Nat \ {0}
    /\ MaxInFlight \in Nat \ {0}

VARIABLES
    \* server_t, serverStatic_t
    serverId, nextSnapshotEntities,
    \* client_t
    state, gentity, outgoingSequence, frames, deltaMessage, gamestateMessageNum,
    queue,              \* the message in fragments, and those stacked behind it
    \* clientConnection_t, clientActive_t
    serverMessageSequence, clServerId,
    snapshots,
    snap,               \* cl.snap: the number of the last good snapshot, 0 for none
    parseEntitiesNum,
    \* the network
    toClient, toServer,
    \* history
    dumped              \* a snapshot could not be reconstructed

serverVars    == <<serverId, nextSnapshotEntities, state, gentity, outgoingSequence, frames,
                   deltaMessage, gamestateMessageNum, queue>>
clientVars    == <<serverMessageSequence, clServerId, snapshots, snap, parseEntitiesNum, dumped>>
snapshotsVars == <<serverVars, clientVars, toClient, toServer>>

None == [e \in Entities |-> 0]

\* States that are no entity's: overwritten in the ring, put on the wrong state, and the
\* baseline of a map.
Lost          == -1
Wrong         == -2
Baseline(map) == -3 - map

MAX_PARSE_ENTITIES == PACKET_BACKUP * MAX_SNAPSHOT_ENTITIES

Masked(n) == n % PACKET_BACKUP

\* What the server was to show, and the map that it is of.
Truth == [map : Nat, world : [Entities -> Nat]]

\* Of an entity that changed: the state that the difference is to, and the new one.
Change == [from : Int, to : Int]

Changes == UNION {[some -> Change] : some \in SUBSET Entities}

\* A snapshot says how many messages ago its base was sent, 0 for none.
ServerMessage ==
    [type : {"gamestate", "snapshot"}, number : Nat, serverId : Nat, lastframe : Nat,
     changes : Changes, truth : Truth]

Packet == [serverId : Nat, ack : Nat, delta : BOOLEAN]

\* A slot of the ring whose snapshot is not valid; what it still holds is not modelled.
Invalid == [valid |-> FALSE, number |-> 0, first |-> 0, world |-> None,
            truth |-> [map |-> 0, world |-> None]]

SnapshotsInit ==
    /\ serverId = 1
    /\ nextSnapshotEntities = 0
    /\ state = "CS_CONNECTED"
    /\ gentity = TRUE
    /\ outgoingSequence = 1
    /\ frames = [s \in 0 .. PACKET_BACKUP - 1 |-> [map |-> 0, first |-> 0, world |-> None]]
    /\ deltaMessage = 0
    /\ gamestateMessageNum = -1
    /\ queue = <<>>
    /\ serverMessageSequence = 0
    /\ clServerId = 0
    /\ snapshots = [s \in 0 .. PACKET_BACKUP - 1 |-> Invalid]
    /\ snap = 0
    /\ parseEntitiesNum = 0
    /\ toClient = <<>>
    /\ toServer = <<>>
    /\ dumped = FALSE

--------------------------------------------------------------------------------
(* Differences. *)

\* What stands for an entity of a world where it is not: the baseline of the map.
Base(old, map) == IF old = 0 THEN Baseline(map) ELSE old

\* SV_EmitPacketEntities: the entities that differ, each against its old state or, where it
\* is new, against its baseline.
SV_EmitPacketEntities(from, to) ==
    [e \in {x \in Entities : from[x] # to[x]} |-> [from |-> Base(from[e], serverId), to |-> to[e]]]

\* CL_ParsePacketEntities: an entity that is not mentioned is copied, one that is removed is
\* not there, and a difference to another state than the one at hand makes a wrong one.
CL_ParsePacketEntities(old, changes) ==
    [e \in Entities |->
        IF e \notin DOMAIN changes THEN old[e]
        ELSE IF changes[e].to = 0 THEN 0
        ELSE IF changes[e].from = Base(old[e], clServerId) THEN changes[e].to
        ELSE Wrong]

--------------------------------------------------------------------------------
(* The server. *)

\* Mutant: the client has every message that it ever acknowledged.
OutOfDateNever == FALSE

\* "client hasn't gotten a good message through in a long time"
OutOfDate == outgoingSequence - deltaMessage >= PACKET_BACKUP - 3

\* Mutant: nothing is thought to leave the ring.
RolledOffNever(first) == FALSE

\* "the snapshot's entities may still have rolled off the buffer"
RolledOff(first) == first <= nextSnapshotEntities' - NumSnapshotEntities

\* The entities of a frame as they are found in the ring.
Found(frame) ==
    [e \in Entities |->
        IF /\ frame.world[e] # 0
           /\ frame.map # serverId \/ frame.first + NumSnapshotEntities < nextSnapshotEntities'
        THEN Lost
        ELSE frame.world[e]]

\* Without an entity of its own the client sees nothing.
Seen == IF gentity THEN Worlds[outgoingSequence] ELSE None

\* SV_BuildClientSnapshot: what the client sees is copied into the ring, after what the
\* snapshots of other clients have put there.
SV_BuildClientSnapshot ==
    LET first == nextSnapshotEntities + OtherEntities[outgoingSequence]
        slot  == Masked(outgoingSequence)
    IN  /\ nextSnapshotEntities' = first + Count(Seen)
        /\ frames' = [frames EXCEPT ![slot] =
                         IF gentity THEN [map |-> serverId, first |-> first, world |-> Seen]
                         ELSE [@ EXCEPT !.world = Seen]]

\* SV_WriteSnapshotToClient: what is different from the frame that the client acknowledged.
SV_WriteSnapshotToClient ==
    LET oldframe == frames'[Masked(deltaMessage)]
        full == \/ deltaMessage <= 0
                \/ state # "CS_ACTIVE"
                \/ OutOfDate
                \/ RolledOff(oldframe.first)
    IN  [type      |-> "snapshot",
         number    |-> 0,
         serverId  |-> 0,
         lastframe |-> IF full THEN 0 ELSE outgoingSequence - deltaMessage,
         changes   |-> SV_EmitPacketEntities(IF full THEN None ELSE Found(oldframe), Seen),
         truth     |-> [map |-> serverId, world |-> Seen]]

\* Mutant: snapshots are built while a message is still being sent.
MaySendAlways == TRUE

\* "Drop this snapshot if the packet queue is still full or delta compression will break"
MaySend == queue = <<>>

SV_SendClientSnapshot ==
    /\ MaySend
    /\ outgoingSequence + Len(queue) <= MaxSequence
    /\ SV_BuildClientSnapshot
    /\ queue' = Append(queue, SV_WriteSnapshotToClient)
    /\ UNCHANGED <<serverId, state, gentity, outgoingSequence, deltaMessage, gamestateMessageNum,
                   clientVars, toClient, toServer>>

\* SV_Netchan_TransmitNextFragment: the last fragment of the message at the head of the queue
\* leaves; only then the sequence moves on.
SV_Netchan_TransmitNextFragment ==
    /\ queue # <<>>
    /\ Len(toClient) + Len(toServer) < MaxInFlight
    /\ toClient' = Append(toClient, [Head(queue) EXCEPT !.number = outgoingSequence])
    /\ queue' = Tail(queue)
    /\ outgoingSequence' = outgoingSequence + 1
    /\ UNCHANGED <<serverId, nextSnapshotEntities, state, gentity, frames, deltaMessage,
                   gamestateMessageNum, clientVars, toServer>>

\* SV_SendClientGameState, behind whatever is still being sent.
SV_SendClientGameState ==
    /\ outgoingSequence + Len(queue) <= MaxSequence
    /\ state' = "CS_PRIMED"
    /\ gamestateMessageNum' = outgoingSequence
    /\ queue' = Append(queue,
          [type |-> "gamestate", number |-> 0, serverId |-> serverId, lastframe |-> 0, changes |-> <<>>,
           truth |-> [map |-> serverId, world |-> None]])
    /\ UNCHANGED <<gentity, deltaMessage>>

\* Mutant: the client is let in without its entity.
EnterAlone == gentity

\* SV_ClientEnterWorld gives a client that is let in its entity.
Enter == gentity \/ state = "CS_PRIMED"

\* SV_UserMove: the first one of a new gamestate lets the client into the world, and its
\* snapshots start anew.
SV_UserMove(packet) ==
    /\ state' = (IF state = "CS_PRIMED" THEN "CS_ACTIVE" ELSE state)
    /\ gentity' = Enter
    /\ deltaMessage' = (IF packet.delta /\ state = "CS_ACTIVE" THEN packet.ack ELSE -1)
    /\ UNCHANGED <<gamestateMessageNum, queue>>

\* SV_ExecuteClientMessage for a packet with a move; the i-th in flight arrives, those before
\* it are lost. "if we can tell that the client has dropped the last gamestate we sent them,
\* resend it"
SV_ExecuteClientMessage ==
    /\ \E i \in DOMAIN toServer :
          LET packet == toServer[i]
          IN  /\ toServer' = SubSeq(toServer, i + 1, Len(toServer))
              /\ \/ /\ packet.serverId # serverId
                    /\ packet.ack > gamestateMessageNum
                    /\ SV_SendClientGameState
                 \/ /\ packet.serverId # serverId
                    /\ packet.ack <= gamestateMessageNum
                    /\ UNCHANGED <<state, gentity, deltaMessage, gamestateMessageNum, queue>>
                 \/ /\ packet.serverId = serverId
                    /\ SV_UserMove(packet)
    /\ UNCHANGED <<serverId, nextSnapshotEntities, outgoingSequence, frames, clientVars, toClient>>

\* SV_SpawnServer: another map; the rings of the clients stay as they are.
SV_SpawnServer ==
    /\ serverId < MaxServerId
    /\ serverId' = serverId + 1
    /\ nextSnapshotEntities' = 0
    /\ state' = "CS_CONNECTED"
    /\ gentity' = FALSE
    /\ UNCHANGED <<outgoingSequence, frames, deltaMessage, gamestateMessageNum, queue, clientVars,
                   toClient, toServer>>

--------------------------------------------------------------------------------
(* The client. *)

\* CL_ParseGamestate: everything of the map before is cleared.
CL_ParseGamestate(m) ==
    /\ clServerId' = m.serverId
    /\ snapshots' = [s \in DOMAIN snapshots |-> Invalid]
    /\ snap' = 0
    /\ parseEntitiesNum' = 0
    /\ UNCHANGED dumped

\* The entities of an older snapshot, while as many new ones are written into the ring.
Kept(old, new) ==
    IF old.first + MAX_PARSE_ENTITIES < parseEntitiesNum + new THEN [e \in Entities |-> Lost]
    ELSE old.world

\* The slots of the messages without a good snapshot between the last one and this one.
Skipped(number) ==
    {Masked(n) : n \in {k \in snap + 1 .. number - 1 : number - k < PACKET_BACKUP}}

\* The base of a snapshot is still there.
GoodDelta(old, base) ==
    /\ old.valid
    /\ old.number = base
    /\ parseEntitiesNum - old.first <= MAX_PARSE_ENTITIES - MAX_SNAPSHOT_ENTITIES

\* CL_ParseSnapshot: one that cannot be put together is read and dumped.
CL_ParseSnapshot(m) ==
    LET base  == m.number - m.lastframe
        full  == m.lastframe = 0 \/ base <= 0
        old   == snapshots[Masked(base)]
        from  == IF full THEN None ELSE Kept(old, Count(m.truth.world))
        world == CL_ParsePacketEntities(from, m.changes)
        good  == full \/ GoodDelta(old, base)
    IN  /\ parseEntitiesNum' = parseEntitiesNum + Count(world)
        /\ \/ /\ ~good
              /\ dumped' = TRUE
              /\ UNCHANGED <<snapshots, snap>>
           \/ /\ good
              /\ snap' = m.number
              /\ snapshots' =
                    [s \in DOMAIN snapshots |->
                        IF s = Masked(m.number)
                        THEN [valid |-> TRUE, number |-> m.number, first |-> parseEntitiesNum,
                              world |-> world, truth |-> m.truth]
                        ELSE IF s \in Skipped(m.number) THEN Invalid
                        ELSE snapshots[s]]
              /\ UNCHANGED dumped
        /\ UNCHANGED clServerId

CL_ParseServerMessage ==
    /\ \E i \in DOMAIN toClient :
          LET m == toClient[i]
          IN  /\ toClient' = SubSeq(toClient, i + 1, Len(toClient))
              /\ serverMessageSequence' = m.number
              /\ \/ m.type = "gamestate" /\ CL_ParseGamestate(m)
                 \/ m.type = "snapshot" /\ CL_ParseSnapshot(m)
    /\ UNCHANGED <<serverVars, toServer>>

\* CL_WritePacket with moves: the client asks for a difference to the message that it
\* acknowledges if that was a good snapshot; cl_nodelta is off.
CL_WritePacket ==
    /\ Len(toClient) + Len(toServer) < MaxInFlight
    /\ toServer' = Append(toServer,
                      [serverId |-> clServerId, ack |-> serverMessageSequence,
                       delta |-> snap # 0 /\ serverMessageSequence = snap])
    /\ UNCHANGED <<serverVars, clientVars, toClient>>

--------------------------------------------------------------------------------
SnapshotsNext ==
    \/ SV_SendClientSnapshot
    \/ SV_Netchan_TransmitNextFragment
    \/ SV_ExecuteClientMessage
    \/ SV_SpawnServer
    \/ CL_ParseServerMessage
    \/ CL_WritePacket

SnapshotsSpec == SnapshotsInit /\ [][SnapshotsNext]_snapshotsVars

--------------------------------------------------------------------------------
(* Properties. *)

SnapshotsTypeOK ==
    /\ serverId \in 1 .. MaxServerId
    /\ nextSnapshotEntities \in Nat
    /\ state \in {"CS_CONNECTED", "CS_PRIMED", "CS_ACTIVE"}
    /\ gentity \in BOOLEAN
    /\ state = "CS_ACTIVE" => gentity
    /\ outgoingSequence \in 1 .. MaxSequence + 1
    /\ frames \in [0 .. PACKET_BACKUP - 1 -> [map : Nat, first : Nat, world : [Entities -> Nat]]]
    /\ deltaMessage \in Nat \cup {-1} /\ gamestateMessageNum \in Nat \cup {-1}
    /\ serverMessageSequence \in 0 .. outgoingSequence - 1
    /\ clServerId \in 0 .. serverId
    /\ DOMAIN snapshots = 0 .. PACKET_BACKUP - 1
    /\ snap \in 0 .. serverMessageSequence
    /\ parseEntitiesNum \in Nat
    /\ toServer \in Seq(Packet)
    /\ dumped \in BOOLEAN

\* CL_GetSnapshot: the snapshots that the game of the client can get.
CL_GetSnapshot(n) ==
    /\ n <= snap
    /\ snap - n < PACKET_BACKUP
    /\ snapshots[Masked(n)].valid
    /\ parseEntitiesNum - snapshots[Masked(n)].first < MAX_PARSE_ENTITIES

\* What the game of a client gets is the message of that number, and shows what the server
\* saw, once both are on the same map, whatever is lost or delayed and however the map changes.
SnapshotsIntact ==
    \A n \in 1 .. snap :
        LET s == snapshots[Masked(n)]
        IN  CL_GetSnapshot(n) =>
                /\ s.number = n
                /\ s.truth.map = clServerId => s.world = s.truth.world

\* "Delta from invalid frame (not supposed to happen!)" (CL_ParseSnapshot), nor may a base be
\* too old: the server, which does not see the rings of the client, uses only what is in them.
DeltasApply == ~dumped
================================================================================
