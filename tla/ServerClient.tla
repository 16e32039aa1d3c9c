------------------------------ MODULE ServerClient ------------------------------
(***************************************************************************)
(* A client on its way into the game: gamestate, downloads, pure check,     *)
(* first user command, map changes and map restarts, drops and timeouts.    *)
(* The handshake has given the client a slot; both directions are the       *)
(* DatagramChannel of NetChan, and a datagram carries what ServerCommands   *)
(* keeps intact: all commands that were not executed yet.                   *)
(* Message numbers are told apart only by how they compare with the number  *)
(* of the last gamestate: 0 before it, 1 the gamestate, 2 after it.         *)
(***************************************************************************)
EXTENDS Naturals, Sequences, SequencesExt

CONSTANTS
    MaxServerId,    \* bound: map changes and map restarts
    MaxDownloads,   \* bound: gamestates after which the client lacks a file
    MaxBlocks,      \* bound: how often the last block of a file is sent
    MaxLosses,      \* bound: lost datagrams
    MaxInFlight     \* bound: datagrams in flight before one end sends another

ASSUME ConstantsAssumption ==
    /\ MaxServerId \in Nat \ {0}
    /\ MaxDownloads \in Nat
    /\ MaxBlocks \in Nat
    /\ MaxLosses \in Nat
    /\ MaxInFlight \in Nat \ {0}

VARIABLES
    sv_pure,            \* the cvar, which stays what it is
    \* server_t
    serverId,
    restartedServerId,  \* the map: serverId, checksum feed and all
    \* client_t
    state, gotCP, pureAuthentic,
    downloadName,       \* TRUE while a file is being sent
    blocks,             \* datagrams sent for it
    lastNextdl,         \* lastClientCommandString is a nextdl
    current,            \* what is left of the message being executed
    serverCommands,     \* configstring updates not executed yet; 0 is disconnect
    \* clientConnection_t, clientActive_t
    connstate, clServerId,
    clMap,              \* restartedServerId of the gamestate that is loaded
    clientCommands,     \* client commands that the server has not executed
    serverMessage,      \* rank of serverMessageSequence
    received,           \* number of serverCommands that arrived
    snap,               \* cl.snap: what has arrived since cgame ran last
    download,           \* downloadTempName; "done" after donedl
    genuine,            \* the client's paks are those of the server
    \* the network
    toClient, toServer, losses,
    \* history
    begun,              \* GAME_CLIENT_BEGIN was called in the game that runs
    caught,             \* a map_restart put the client in the world while it loaded
    downloads

sv      == <<sv_pure, serverId, restartedServerId>>
slot    == <<gotCP, pureAuthentic, downloadName, blocks, lastNextdl>>
client  == <<connstate, clServerId, clMap, clientCommands, serverMessage, received, snap,
             download, downloads>>
network == <<toClient, toServer, losses>>
history == <<begun, caught>>
vars    == <<sv, state, slot, current, serverCommands, client, genuine, network, history>>

State     == {"CS_FREE", "CS_ZOMBIE", "CS_CONNECTED", "CS_PRIMED", "CS_ACTIVE"}
ConnState == {"CA_DISCONNECTED", "CA_CONNECTED", "CA_PRIMED", "CA_ACTIVE"}
ServerId  == 0 .. MaxServerId

\* Ranks of message numbers.
Before == 0
It     == 1
Later  == 2
Rank   == {Before, It, Later}

\* Client commands; cp has a server id as its first argument.
Name           == {"cp", "download", "nextdl", "donedl", "stopdl", "disconnect"}
ClientCommand  == [name : Name, serverId : ServerId]
Command(name)  == [name |-> name, serverId |-> 0]

\* To the client; count of serverCommands have come with it or before.
Message == [type : {"gamestate", "snapshot", "download"}, rank : Rank, count : Nat,
            serverId : ServerId, map : ServerId, active : BOOLEAN]

\* To the server; count of clientCommands go with it, then user commands.  The map
\* they were made on is not sent: it stands for the checksum feed in their key.
Packet == [serverId : ServerId, ack : Rank, count : Nat, move : BOOLEAN, map : ServerId]

\* What is left to execute of a packet.
Rest(count, move, map) ==
    [count |-> count, move |-> move, map |-> IF count = 0 /\ ~move THEN 0 ELSE map]
Nothing == Rest(0, FALSE, 0)

\* The datagrams of a channel after n of the commands they count were executed.
Executed(channel, n) ==
    [i \in DOMAIN channel |-> [channel[i] EXCEPT !.count = IF @ > n THEN @ - n ELSE 0]]

Init ==
    /\ sv_pure \in BOOLEAN
    /\ serverId = 1
    /\ restartedServerId = 1
    /\ state = "CS_CONNECTED"
    /\ gotCP = FALSE
    /\ pureAuthentic = FALSE
    /\ downloadName = FALSE
    /\ blocks = 0
    /\ lastNextdl = FALSE
    /\ current = Nothing
    /\ serverCommands = <<>>
    /\ connstate = "CA_CONNECTED"
    /\ clServerId = 0
    /\ clMap = 0
    /\ clientCommands = <<>>
    /\ serverMessage = Later        \* gamestateMessageNum is -1
    /\ received = 0
    /\ snap = "none"
    /\ download = "none"
    /\ downloads = 0
    /\ genuine \in {TRUE, ~sv_pure}
    /\ toClient = <<>>
    /\ toServer = <<>>
    /\ losses = 0
    /\ begun = FALSE
    /\ caught = FALSE

--------------------------------------------------------------------------------
(* The server: parts of its handlers. *)

Connected == state \in {"CS_CONNECTED", "CS_PRIMED", "CS_ACTIVE"}

\* Nothing of a client message is left to execute.
Ready == current = Nothing

\* SV_SendClientGameState; rest is what remains of toServer.
SendGameState(rest) ==
    /\ state' = "CS_PRIMED"
    /\ gotCP' = FALSE
    /\ pureAuthentic' = FALSE
    /\ toClient' = Append([i \in DOMAIN toClient |-> [toClient[i] EXCEPT !.rank = Before]],
                          [type |-> "gamestate", rank |-> It, count |-> Len(serverCommands),
                           serverId |-> serverId, map |-> restartedServerId, active |-> FALSE])
    /\ toServer' = [i \in DOMAIN rest |-> [rest[i] EXCEPT !.ack = Before]]
    /\ serverMessage' = Before

\* Mutant: the download is not closed.
DropKeepsDownload ==
    /\ state' = "CS_ZOMBIE"
    /\ begun' = FALSE
    /\ serverCommands' = IF state = "CS_CONNECTED" THEN serverCommands ELSE Append(serverCommands, 0)
    /\ UNCHANGED downloadName

\* SV_DropClient: a client without a gamestate gets no disconnect command.
Drop ==
    /\ state' = "CS_ZOMBIE"
    /\ begun' = FALSE
    /\ serverCommands' = IF state = "CS_CONNECTED" THEN serverCommands ELSE Append(serverCommands, 0)
    /\ downloadName' = FALSE

Snapshot(active) ==
    [type |-> "snapshot", rank |-> Later, count |-> Len(serverCommands),
     serverId |-> 0, map |-> 0, active |-> active]

--------------------------------------------------------------------------------
(* The server: client messages. *)

\* "the client has dropped the last gamestate we sent them"
DroppedGameState(p) == p.ack = Later

\* Mutant: map_restart is told from a map change by the wrong comparison.
OutdatedAlways(p) == p.serverId < serverId

\* A message from before a map_restart.
Outdated(p) == p.serverId >= restartedServerId /\ p.serverId < serverId

\* Mutant: a client that was sent the gamestate is taken to have it.
OtherGameStateUnlessSent(p) ==
    p.serverId # serverId /\ ~downloadName /\ ~lastNextdl /\ state = "CS_CONNECTED"

\* A message about another gamestate, of a client that is not downloading.
OtherGameState(p) == p.serverId # serverId /\ ~downloadName /\ ~lastNextdl

\* SV_ExecuteClientMessage up to the commands.
SV_ExecuteClientMessage ==
    /\ Ready
    /\ toServer # <<>>
    /\ LET p == Head(toServer)
       IN  \/ /\ ~Connected
              /\ toServer' = Tail(toServer)
              /\ UNCHANGED <<state, slot, current, client, toClient>>
           \/ /\ Connected
              /\ OtherGameState(p)
              /\ Outdated(p) \/ ~DroppedGameState(p)
              /\ toServer' = Tail(toServer)
              /\ UNCHANGED <<state, slot, current, client, toClient>>
           \/ /\ Connected
              /\ OtherGameState(p)
              /\ ~Outdated(p)
              /\ DroppedGameState(p)
              /\ SendGameState(Tail(toServer))
              /\ UNCHANGED <<downloadName, blocks, lastNextdl, current, connstate, clServerId, clMap,
                             clientCommands, received, snap, download, downloads>>
           \/ /\ Connected
              /\ ~OtherGameState(p)
              /\ toServer' = Tail(toServer)
              /\ current' = Rest(p.count, p.move, p.map)
              /\ UNCHANGED <<state, slot, client, toClient>>
    /\ UNCHANGED <<sv, serverCommands, genuine, losses, history>>

\* The next command of the message.
NextCommand(name) == current.count > 0 /\ Head(clientCommands).name = name

\* SV_ClientCommand around the function of the command; a client that is dropped
\* has nothing more executed.
SV_ClientCommand ==
    /\ clientCommands' = Tail(clientCommands)
    /\ lastNextdl' = (Head(clientCommands).name = "nextdl")
    /\ current' = IF state' = "CS_ZOMBIE" THEN Nothing
                  ELSE Rest(current.count - 1, current.move, current.map)
    /\ blocks' = IF Head(clientCommands).name = "download" THEN 0 ELSE blocks     \* bound
    /\ UNCHANGED <<sv, connstate, clServerId, clMap, received, snap, download, downloads,
                   genuine, losses>>

\* Mutant: cp commands for an earlier checksum feed are verified too.
OutdatedNever(cp) == FALSE

\* "we may get incoming cp sequences from a previous checksumFeed"
OutdatedChecksums(cp) == cp.serverId < restartedServerId

\* The checksums are right for the feed of this map; cp names the server id of the
\* gamestate that its feed came with.
GoodChecksums(cp) == genuine /\ cp.serverId >= restartedServerId

SV_VerifyPaks_f ==
    LET cp == Head(clientCommands)
    IN  /\ NextCommand("cp")
        /\ \/ /\ ~sv_pure \/ OutdatedChecksums(cp)
              /\ toServer' = Executed(toServer, 1)
              /\ UNCHANGED <<state, gotCP, pureAuthentic, downloadName, serverCommands, toClient, history>>
           \/ /\ sv_pure
              /\ ~OutdatedChecksums(cp)
              /\ gotCP' = TRUE
              /\ toServer' = Executed(toServer, 1)
              /\ \/ /\ GoodChecksums(cp)
                    /\ pureAuthentic' = TRUE
                    /\ UNCHANGED <<state, downloadName, serverCommands, toClient, history>>
                 \/ /\ ~GoodChecksums(cp)     \* dropped while CS_ACTIVE
                    /\ pureAuthentic' = FALSE
                    /\ toClient' = Append(toClient, Snapshot(TRUE))
                    /\ state' = "CS_ZOMBIE"
                    /\ begun' = FALSE
                    /\ serverCommands' = serverCommands \o <<0, 0>>
                    /\ downloadName' = FALSE
                    /\ UNCHANGED caught
        /\ UNCHANGED serverMessage
        /\ SV_ClientCommand

SV_BeginDownload_f ==
    /\ NextCommand("download")
    /\ downloadName' = TRUE
    /\ toServer' = Executed(toServer, 1)
    /\ UNCHANGED <<state, gotCP, pureAuthentic, serverCommands, serverMessage, toClient, history>>
    /\ SV_ClientCommand

\* nextdl for the last block, or stopdl.
SV_StopDownload_f ==
    /\ NextCommand("nextdl") \/ NextCommand("stopdl")
    /\ downloadName' = FALSE
    /\ toServer' = Executed(toServer, 1)
    /\ UNCHANGED <<state, gotCP, pureAuthentic, serverCommands, serverMessage, toClient, history>>
    /\ SV_ClientCommand

SV_DoneDownload_f ==
    /\ NextCommand("donedl")
    /\ \/ /\ state = "CS_ACTIVE"
          /\ toServer' = Executed(toServer, 1)
          /\ UNCHANGED <<state, gotCP, pureAuthentic, serverMessage, toClient>>
       \/ /\ state # "CS_ACTIVE"
          /\ SendGameState(Executed(toServer, 1))
    /\ UNCHANGED <<downloadName, serverCommands, history>>
    /\ SV_ClientCommand

SV_Disconnect_f ==
    /\ NextCommand("disconnect")
    /\ Drop
    /\ toServer' = Executed(toServer, 1)
    /\ UNCHANGED <<gotCP, pureAuthentic, serverMessage, toClient, caught>>
    /\ SV_ClientCommand

\* The client's checksums are awaited.
NoChecksums == sv_pure /\ ~pureAuthentic /\ ~gotCP

\* A client whose checksums were bad is dropped already (TypeOK), and so
\* not once more here.
SV_UserMove ==
    /\ current.count = 0
    /\ current.move
    /\ current' = Nothing
    /\ \/ /\ NoChecksums
          /\ state = "CS_ACTIVE"
          /\ SendGameState(toServer)
          /\ UNCHANGED <<history, serverCommands>>
       \/ /\ NoChecksums
          /\ state # "CS_ACTIVE"
          /\ UNCHANGED <<state, gotCP, pureAuthentic, serverMessage, toClient, toServer, history,
                         serverCommands>>
       \/ /\ ~NoChecksums             \* SV_ClientEnterWorld, SV_ClientThink
          /\ state' = IF state = "CS_PRIMED" THEN "CS_ACTIVE" ELSE state
          /\ begun' = (begun \/ state = "CS_PRIMED")
          /\ UNCHANGED <<gotCP, pureAuthentic, serverMessage, toClient, toServer, caught,
                         serverCommands>>
    /\ UNCHANGED <<sv, downloadName, blocks, lastNextdl, connstate, clServerId, clMap, clientCommands,
                   received, snap, download, downloads, genuine, losses>>

--------------------------------------------------------------------------------
(* The server: frames and operator commands. *)

SV_SendClientSnapshot ==
    /\ Ready
    /\ state # "CS_FREE"
    /\ ~downloadName
    /\ Len(toClient) < MaxInFlight
    /\ toClient' = Append(toClient, Snapshot(state = "CS_ACTIVE"))
    /\ UNCHANGED <<sv, state, slot, current, serverCommands, client, genuine, toServer, losses,
                   history>>

\* The last block of the file, as often as it takes.
SV_SendDownloadMessages ==
    /\ Ready
    /\ downloadName
    /\ blocks < MaxBlocks
    /\ blocks' = blocks + 1
    /\ Len(toClient) < MaxInFlight
    /\ toClient' = Append(toClient, [type |-> "download", rank |-> Later, count |-> 0,
                                     serverId |-> 0, map |-> 0, active |-> FALSE])
    /\ UNCHANGED <<sv, state, gotCP, pureAuthentic, downloadName, lastNextdl, current, serverCommands, client, genuine, toServer, losses,
                   history>>

\* Mutant: clients stay as they were.
SpawnKeepsState ==
    /\ Ready
    /\ serverId < MaxServerId
    /\ serverId' = serverId + 1
    /\ restartedServerId' = serverId + 1
    /\ begun' = FALSE
    /\ UNCHANGED <<sv_pure, state, slot, current, serverCommands, client, genuine, network, caught>>

\* A new map: "when we get the next packet from a connected client, the new
\* gamestate will be sent"
SV_SpawnServer ==
    /\ Ready
    /\ serverId < MaxServerId
    /\ serverId' = serverId + 1
    /\ restartedServerId' = serverId + 1
    /\ state' = IF Connected THEN "CS_CONNECTED" ELSE state
    /\ begun' = FALSE
    /\ UNCHANGED <<sv_pure, slot, current, serverCommands, client, genuine, network, caught>>

\* The same map again, with the systeminfo that SV_Frame then sends.
SV_MapRestart_f ==
    /\ Ready
    /\ serverId < MaxServerId
    /\ serverId' = serverId + 1
    /\ \/ /\ Connected
          /\ state' = "CS_ACTIVE"
          /\ serverCommands' = Append(serverCommands, serverId')
          /\ begun' = TRUE
          /\ caught' = (caught \/ state # "CS_ACTIVE")
       \/ /\ ~Connected
          /\ UNCHANGED <<state, serverCommands, history>>
    /\ UNCHANGED <<sv_pure, restartedServerId, slot, current, client, genuine, network>>

\* Mutant: only zombies are freed.
TimeoutsOfZombies ==
    /\ Ready
    /\ state = "CS_ZOMBIE"
    /\ state' = "CS_FREE"
    /\ UNCHANGED <<sv, slot, current, serverCommands, client, genuine, network, history>>

\* Timeouts are far longer than a datagram takes: only a client that is gone is
\* silent for that long.
SV_CheckTimeouts ==
    /\ Ready
    /\ \/ /\ state = "CS_ZOMBIE"
          /\ UNCHANGED <<begun, serverCommands, downloadName>>
       \/ /\ Connected
          /\ connstate = "CA_DISCONNECTED"
          /\ toServer = <<>>
          /\ begun' = FALSE
          /\ downloadName' = FALSE
          /\ serverCommands' = IF state = "CS_CONNECTED" THEN serverCommands ELSE Append(serverCommands, 0)
    /\ state' = "CS_FREE"
    /\ UNCHANGED <<sv, gotCP, pureAuthentic, blocks, lastNextdl, current, client, genuine, network, caught>>

--------------------------------------------------------------------------------
(* The client. *)

\* Only a client that has loaded a map has user commands to send.
CLPacket(count) ==
    [serverId |-> clServerId, ack |-> serverMessage, count |-> count,
     move |-> connstate \in {"CA_PRIMED", "CA_ACTIVE"}, map |-> clMap]

CL_WritePacket ==
    /\ connstate # "CA_DISCONNECTED"
    /\ Len(toServer) < MaxInFlight
    /\ toServer' = Append(toServer, CLPacket(Len(clientCommands)))
    /\ UNCHANGED <<sv, state, slot, current, serverCommands, client, genuine, toClient, losses,
                   history>>

\* CL_Disconnect, for whatever reason: the command, and packets that carry it.
Leave ==
    /\ connstate' = "CA_DISCONNECTED"
    /\ clientCommands' = Append(clientCommands, Command("disconnect"))
    /\ toServer' = Append(toServer, CLPacket(Len(clientCommands')))
    /\ UNCHANGED download

\* CL_DownloadsComplete with nothing downloaded: cgame is loaded, and the checksums
\* for the feed of this gamestate are sent.
Load(m) ==
    /\ connstate' = "CA_PRIMED"
    /\ download' = "none"
    /\ clientCommands' = Append(clientCommands, [name |-> "cp", serverId |-> m.serverId])
    /\ UNCHANGED <<downloads, toServer>>

CL_ParseGamestate(m) ==
    /\ clServerId' = m.serverId
    /\ clMap' = m.map
    /\ snap' = "none"
    /\ received' = m.count
    /\ \/ /\ download # "active"
          /\ Load(m)
       \/ /\ download = "active" \/ (download = "none" /\ downloads < MaxDownloads)
          /\ connstate' = "CA_CONNECTED"
          /\ download' = "active"
          /\ downloads' = IF download = "active" THEN downloads ELSE downloads + 1
          /\ clientCommands' = Append(clientCommands, Command("download"))
          /\ UNCHANGED toServer

CL_ParseSnapshot(m) ==
    /\ snap' = IF m.active \/ snap = "active" THEN "active" ELSE "inactive"
    /\ received' = m.count
    /\ UNCHANGED <<connstate, clServerId, clMap, clientCommands, download, downloads, toServer>>

\* The end of the file: it is acknowledged at once, and then a gamestate is asked
\* for.  A block that nobody asked for is not skipped: the rest of it is read as
\* the next part of the message.
CL_ParseDownload ==
    /\ \/ /\ download = "active"
          /\ download' = "done"
          /\ clientCommands' = clientCommands \o <<Command("nextdl"), Command("donedl")>>
          /\ toServer' = Append(toServer, CLPacket(Len(clientCommands) + 1))
          /\ UNCHANGED connstate
       \/ /\ download # "active"
          /\ clientCommands' = Append(clientCommands, Command("stopdl"))
          /\ UNCHANGED <<connstate, download, toServer>>
       \/ /\ download # "active"
          /\ Leave
    /\ UNCHANGED <<clServerId, clMap, snap, received, downloads>>

CL_ParseServerMessage ==
    /\ connstate # "CA_DISCONNECTED"
    /\ toClient # <<>>
    /\ LET m == Head(toClient)
       IN  /\ toClient' = Tail(toClient)
           /\ serverMessage' = m.rank
           /\ \/ m.type = "gamestate" /\ CL_ParseGamestate(m)
              \/ m.type = "snapshot" /\ CL_ParseSnapshot(m)
              \/ m.type = "download" /\ CL_ParseDownload
    /\ UNCHANGED <<sv, state, slot, current, serverCommands, genuine, losses, history>>

\* CG_ProcessSnapshots: the first snapshot must be an active one; then the commands
\* that came with the snapshots are executed.
CG_ProcessSnapshots ==
    LET new == SubSeq(serverCommands, 1, received)
        updates == {i \in DOMAIN new : new[i] # 0}
    IN  /\ \/ connstate = "CA_PRIMED" /\ snap = "active"
           \/ connstate = "CA_ACTIVE" /\ snap # "none"
        /\ snap' = "none"
        /\ \/ updates = {} /\ clServerId' = clServerId
           \/ \E i \in updates : (\A j \in updates : j <= i) /\ clServerId' = new[i]
        /\ serverCommands' = SubSeq(serverCommands, received + 1, Len(serverCommands))
        /\ received' = 0
        /\ toClient' = Executed(toClient, received)
        /\ \/ /\ updates # DOMAIN new
              /\ Leave
           \/ /\ updates = DOMAIN new
              /\ connstate' = "CA_ACTIVE"
              /\ UNCHANGED <<clientCommands, download, toServer>>
        /\ UNCHANGED <<sv, state, slot, current, clMap, serverMessage, downloads, genuine, losses,
                       history>>

\* The player leaves, or hears no more of a server that has freed the slot.
CL_Disconnect ==
    /\ connstate # "CA_DISCONNECTED"
    /\ Leave
    /\ UNCHANGED <<sv, state, slot, current, serverCommands, clServerId, clMap, serverMessage,
                   received, snap, downloads, genuine, toClient, losses, history>>

CL_CheckTimeout == state = "CS_FREE" /\ toClient = <<>> /\ CL_Disconnect

--------------------------------------------------------------------------------
Lose ==
    /\ losses < MaxLosses
    /\ losses' = losses + 1
    /\ \/ /\ \E i \in DOMAIN toClient : toClient' = RemoveAt(toClient, i)
          /\ UNCHANGED toServer
       \/ /\ \E i \in DOMAIN toServer : toServer' = RemoveAt(toServer, i)
          /\ UNCHANGED toClient
    /\ UNCHANGED <<sv, state, slot, current, serverCommands, client, genuine, history>>

SV_Execute ==
    \/ SV_ExecuteClientMessage
    \/ SV_VerifyPaks_f
    \/ SV_BeginDownload_f
    \/ SV_StopDownload_f
    \/ SV_DoneDownload_f
    \/ SV_Disconnect_f
    \/ SV_UserMove

Next ==
    \/ SV_Execute
    \/ SV_SendClientSnapshot
    \/ SV_SendDownloadMessages
    \/ SV_SpawnServer
    \/ SV_MapRestart_f
    \/ SV_CheckTimeouts
    \/ CL_WritePacket
    \/ CL_ParseServerMessage
    \/ CG_ProcessSnapshots
    \/ CL_Disconnect
    \/ Lose

Spec == Init /\ [][Next]_vars

\* Both ends run frame after frame, and in each the server gets from the messages of
\* the clients to its own; nobody has to change the map, to leave or to lose a datagram.
FairSpec ==
    /\ Spec
    /\ WF_vars(SV_Execute)
    /\ SF_vars(SV_SendClientSnapshot)
    /\ SF_vars(SV_SendDownloadMessages)
    /\ SF_vars(SV_CheckTimeouts)
    /\ WF_vars(CL_WritePacket)
    /\ WF_vars(CL_ParseServerMessage)
    /\ WF_vars(CG_ProcessSnapshots)
    /\ WF_vars(CL_CheckTimeout)

--------------------------------------------------------------------------------
(* Properties. *)

TypeOK ==
    /\ sv_pure \in BOOLEAN
    /\ serverId \in 1 .. MaxServerId
    /\ restartedServerId \in 1 .. serverId
    /\ state \in State
    /\ gotCP \in BOOLEAN /\ pureAuthentic \in BOOLEAN
    /\ downloadName \in BOOLEAN /\ lastNextdl \in BOOLEAN
    /\ downloadName => Connected
    /\ gotCP /\ Connected => pureAuthentic
    /\ blocks \in 0 .. MaxBlocks
    /\ current \in [count : 0 .. Len(clientCommands), move : BOOLEAN, map : ServerId]
    /\ serverCommands \in Seq(ServerId)
    /\ connstate \in ConnState
    /\ clServerId \in ServerId /\ clMap \in ServerId
    /\ clientCommands \in Seq(ClientCommand)
    /\ serverMessage \in Rank
    /\ received \in 0 .. Len(serverCommands)
    /\ snap \in {"none", "inactive", "active"}
    /\ download \in {"none", "active", "done"}
    /\ downloads \in 0 .. MaxDownloads
    /\ genuine \in BOOLEAN
    /\ toClient \in Seq(Message) /\ toServer \in Seq(Packet)
    /\ losses \in 0 .. MaxLosses
    /\ begun \in BOOLEAN /\ caught \in BOOLEAN

\* The game never gets a user command for a client that has not begun in it.
ActiveHasBegun == state = "CS_ACTIVE" => begun

\* A user command is executed (SV_ClientThink).
Moves == current.count = 0 /\ current.move /\ current' = Nothing /\ state' = "CS_ACTIVE"

\* A user command is executed only if it was made on the map that is played; but for a
\* client that a map_restart put in the world while it loaded.
MovesOnThisMap == [][Moves => current.map = restartedServerId \/ caught]_vars

\* "if this is a usercmd from a previous gamestate, ignore it or retransmit the current
\* gamestate" (SV_ExecuteClientMessage).
\* It does not hold: see Deviations in the README.
PreviousGameStateIgnored == [][Moves => current.map = restartedServerId]_vars

\* A client that has the paks of the server is dropped only when it goes itself,
\* whatever checksums of earlier maps arrive late (SV_VerifyPaks_f, SV_UserMove).
GenuineStays == genuine /\ ~Connected => connstate = "CA_DISCONNECTED"

Playing ==
    /\ state = "CS_ACTIVE"
    /\ connstate = "CA_ACTIVE"
    /\ clServerId = serverId
    /\ clMap = restartedServerId

\* What a map_restart leaves a client in that had not loaded the map yet: its
\* messages are ignored while it downloads, or it has got the new server id as a
\* configstring and the gamestate of the map is not sent to it again.
Misled ==
    /\ caught
    /\ connstate = "CA_CONNECTED" \/ (clServerId = serverId /\ clMap # restartedServerId)

\* The client waits for the gamestate that it asked for with donedl.
AwaitsGameState == connstate = "CA_CONNECTED" /\ download = "done"

\* Every client that stays gets into the game that is played, after any number of map
\* changes, restarts and losses; but for the cases of the findings.
ClientPlays == <>[](Playing \/ connstate = "CA_DISCONNECTED" \/ Misled \/ AwaitsGameState)

\* "After the download is finished, we'll notice and send it a new game state"
\* (SV_ExecuteClientMessage).
DownloadLeadsToGame == download = "done" ~> connstate # "CA_CONNECTED"

\* The slot of a client that is gone becomes free (SV_CheckTimeouts).
SlotFreed == connstate = "CA_DISCONNECTED" ~> state = "CS_FREE"

================================================================================
