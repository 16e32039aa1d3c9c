------------------------------- MODULE Download --------------------------------
(***************************************************************************)
(* A client downloads the files that it lacks, one after the other, over    *)
(* the connection: blocks in a window, each acknowledged by a reliable      *)
(* client command.  The commands are numbered, kept in a ring and repeated  *)
(* in every packet until the header of a server message acknowledges them.  *)
(* Each direction is the DatagramChannel that NetChan implements.           *)
(* Data is counted in blocks; the last block of a file has no data.         *)
(***************************************************************************)
EXTENDS Naturals, Sequences

CONSTANTS
    MAX_DOWNLOAD_WINDOW,
    MAX_RELIABLE_COMMANDS,
    BlockModulus,   \* block numbers are sent as 16 bits; the window has 48 blocks
    Blocks,         \* downloadList: of each file the number of blocks with data
    Refused,        \* the files that the server may refuse: sv_allowDownload can change
    MaxLosses,      \* bound: datagrams that are lost
    MaxResends,     \* bound: timeouts of the window beyond the losses
    MaxInFlight     \* bound: datagrams in flight before one end sends another

Files == DOMAIN Blocks

ASSUME ConstantsAssumption ==
    /\ MAX_DOWNLOAD_WINDOW \in Nat \ {0}
    /\ MAX_RELIABLE_COMMANDS \in Nat \ {0}
    /\ BlockModulus \in Nat /\ BlockModulus > MAX_DOWNLOAD_WINDOW
    /\ Blocks \in Seq(Nat \ {0}) /\ Blocks # <<>>
    /\ Refused \subseteq Files
    /\ MaxLosses \in Nat
    /\ MaxResends \in Nat
    /\ MaxInFlight \in Nat \ {0}

VARIABLES
    \* client_t
    state, lastClientCommand,
    downloadName,           \* a file, or 0
    download,               \* the file is open
    downloadCurrentBlock,   \* blocks read, with the end; downloadCount and downloadEOF follow
    downloadClientBlock, downloadXmitBlock,
    downloadBlocks,         \* the window
    reading,                \* the client commands of the packet that is executed
    \* clientConnection_t
    connected, reliableSequence, reliableAcknowledge, reliableCommands,
    wanted,                 \* downloadTempName: a file, or 0
    downloadBlock,
    received,               \* the blocks written to the file
    kept,                   \* files renamed and found good
    \* the network
    toClient, toServer, losses, resends,
    \* history
    blockZero               \* block zero was read without its file size, or another with one

window   == <<downloadName, download, downloadCurrentBlock, downloadClientBlock,
              downloadXmitBlock, downloadBlocks>>
server   == <<state, lastClientCommand, window, reading>>
commands == <<reliableSequence, reliableAcknowledge, reliableCommands>>
client   == <<connected, commands, wanted, downloadBlock, received, kept, blockZero>>
vars     == <<server, client, toClient, toServer, losses, resends>>

\* A block by what is in it; no file has the number 0.
Block      == [file : Nat, number : Nat]
Unknown    == [file |-> 0, number |-> 0]
IsEOF(b)   == b.file \notin Files \/ b.number >= Blocks[b.file]
Whole(f)   == [i \in 1 .. Blocks[f] |-> [file |-> f, number |-> i - 1]]

Command(name, arg) == [name |-> name, arg |-> arg]
ClientCommand      == [name : {"none", "download", "nextdl", "stopdl", "donedl"}, arg : Nat]

\* To the client: a snapshot or other message without a block, a block under a number,
\* or the refusal of a file (block zero with a negative size).
Message == [type : {"snapshot", "block", "refusal"}, ack : Nat, number : Nat, block : Block]

\* To the server: the unacknowledged commands by their numbers.
Packet == UNION {[numbers -> ClientCommand] : numbers \in SUBSET Nat}

CommandSlot(n) == n % MAX_RELIABLE_COMMANDS
WindowSlot(n)  == n % MAX_DOWNLOAD_WINDOW

Init ==
    /\ state = "CS_PRIMED"
    /\ lastClientCommand = 0
    /\ downloadName = 0
    /\ download = FALSE
    /\ downloadCurrentBlock = 0
    /\ downloadClientBlock = 0
    /\ downloadXmitBlock = 0
    /\ downloadBlocks = [s \in 0 .. MAX_DOWNLOAD_WINDOW - 1 |-> Unknown]
    /\ reading = <<>>
    /\ connected = TRUE
    /\ reliableSequence = 1         \* CL_BeginDownload
    /\ reliableAcknowledge = 0
    /\ reliableCommands = [s \in 0 .. MAX_RELIABLE_COMMANDS - 1 |->
                              IF s = CommandSlot(1) THEN Command("download", 1) ELSE Command("none", 0)]
    /\ wanted = 1
    /\ downloadBlock = 0
    /\ received = <<>>
    /\ kept = 0
    /\ toClient = <<>>
    /\ toServer = <<>>
    /\ losses = 0
    /\ resends = 0
    /\ blockZero = FALSE

--------------------------------------------------------------------------------
(* The network: the i-th datagram of a channel arrives, those before it are lost. *)

Arrives(channel, i) ==
    /\ losses + i - 1 <= MaxLosses
    /\ losses' = losses + i - 1

After(channel, i) == SubSeq(channel, i + 1, Len(channel))

--------------------------------------------------------------------------------
(* The server: client commands. *)

\* The commands of the packet that are not executed yet.
Unread(packet) == {n \in DOMAIN packet : n > lastClientCommand}

\* SV_ExecuteClientMessage; commands seen before are skipped, and a gap in their
\* numbers drops the client.
SV_ExecuteClientMessage ==
    /\ Unread(reading) = {}
    /\ \E i \in DOMAIN toServer :
          LET new == Unread(toServer[i])
              gap == new # {} /\ lastClientCommand + 1 \notin new
          IN  /\ Arrives(toServer, i)
              /\ toServer' = After(toServer, i)
              /\ \/ /\ state = "CS_ZOMBIE" \/ new = {}
                    /\ UNCHANGED <<state, window, reading>>
                 \/ /\ state # "CS_ZOMBIE"
                    /\ gap
                    /\ state' = "CS_ZOMBIE"
                    /\ downloadName' = 0
                    /\ download' = FALSE
                    /\ UNCHANGED <<reading, downloadCurrentBlock, downloadClientBlock,
                                   downloadXmitBlock, downloadBlocks>>
                 \/ /\ state # "CS_ZOMBIE"
                    /\ new # {} /\ ~gap
                    /\ reading' = [n \in new |-> toServer[i][n]]
                    /\ UNCHANGED <<state, window>>
    /\ UNCHANGED <<lastClientCommand, client, toClient, resends>>

\* SV_ClientCommand for the next command of the packet.
Executes(name) ==
    /\ Unread(reading) # {}
    /\ reading[lastClientCommand + 1].name = name
    /\ lastClientCommand' = lastClientCommand + 1
    /\ UNCHANGED <<downloadCurrentBlock, downloadXmitBlock, downloadBlocks, client, toClient, toServer,
                   losses, resends>>

Argument == reading[lastClientCommand + 1].arg

\* Mutant: the file stays open.
CloseKeepsFile ==
    /\ downloadName' = 0
    /\ UNCHANGED download

SV_CloseDownload ==
    /\ downloadName' = 0
    /\ download' = FALSE

SV_BeginDownload_f ==
    /\ Executes("download")
    /\ downloadName' = Argument
    /\ download' = FALSE
    /\ UNCHANGED <<state, downloadClientBlock, reading>>

\* A client that acknowledges another block than the one awaited is dropped, and
\* nothing more of its packet is executed.
SV_NextDownload_f ==
    /\ Executes("nextdl")
    /\ \/ /\ Argument = downloadClientBlock
          /\ IsEOF(downloadBlocks[WindowSlot(downloadClientBlock)])
          /\ SV_CloseDownload
          /\ UNCHANGED <<state, downloadClientBlock, reading>>
       \/ /\ Argument = downloadClientBlock
          /\ ~IsEOF(downloadBlocks[WindowSlot(downloadClientBlock)])
          /\ downloadClientBlock' = downloadClientBlock + 1
          /\ UNCHANGED <<state, downloadName, download, reading>>
       \/ /\ Argument # downloadClientBlock
          /\ state' = "CS_ZOMBIE"
          /\ SV_CloseDownload
          /\ reading' = <<>>
          /\ UNCHANGED downloadClientBlock

SV_StopDownload_f ==
    /\ Executes("stopdl")
    /\ SV_CloseDownload
    /\ UNCHANGED <<state, downloadClientBlock, reading>>

\* The gamestate that answers a donedl belongs to ServerClient.
SV_DoneDownload_f ==
    /\ Executes("donedl")
    /\ UNCHANGED <<state, downloadName, download, downloadClientBlock, reading>>

--------------------------------------------------------------------------------
(* The server: its frame. *)

Send(message) == toClient' = Append(toClient, message)

\* SV_SendClientMessages sends no snapshot to a client that is downloading.
SV_SendClientSnapshot ==
    /\ Unread(reading) = {}
    /\ downloadName = 0
    /\ Len(toClient) < MaxInFlight
    /\ Send([type |-> "snapshot", ack |-> lastClientCommand, number |-> 0, block |-> Unknown])
    /\ UNCHANGED <<server, client, toServer, losses, resends>>

\* The block that is sent under number n: the one in its slot of the window.
SendBlock(n) ==
    Send([type |-> "block", ack |-> lastClientCommand, number |-> n,
          block |-> downloadBlocks'[WindowSlot(n)]])

\* SV_WriteDownloadToClient for a file that it does not open: said once.
Refuse ==
    /\ ~download
    /\ downloadName \in Refused
    /\ downloadName' = 0
    /\ Send([type |-> "refusal", ack |-> lastClientCommand, number |-> 0, block |-> Unknown])
    /\ UNCHANGED <<download, downloadCurrentBlock, downloadClientBlock, downloadXmitBlock,
                   downloadBlocks, resends>>

\* Mutant: one block more than the window has.
AheadOneMore(clientBlock) == clientBlock + MAX_DOWNLOAD_WINDOW + 1

\* The blocks in the window end before this number.
Ahead(clientBlock) == clientBlock + MAX_DOWNLOAD_WINDOW

\* The blocks from number current to last - 1 are read into the window.
Read(current, last) ==
    /\ downloadCurrentBlock' = last
    /\ downloadBlocks' =
          [s \in DOMAIN downloadBlocks |->
              LET own == {n \in current .. last - 1 : WindowSlot(n) = s}
              IN  IF own = {} THEN downloadBlocks[s]
                  ELSE [file |-> downloadName, number |-> CHOOSE n \in own : TRUE]]

\* Where reading stops: the window is full, or the file is read; its end is a block of its own.
Limit(clientBlock) ==
    LET end == Blocks[downloadName] + 1
    IN  IF Ahead(clientBlock) < end THEN Ahead(clientBlock) ELSE end

\* SV_WriteDownloadToClient opens the file, if need be, and reads from block current on.
ReadAhead(current, clientBlock) ==
    /\ download' = TRUE
    /\ downloadClientBlock' = clientBlock
    /\ Read(current, Limit(clientBlock))

\* Mutant: the window is sent once.
TransmitOnce(xmit) ==
    \/ /\ downloadClientBlock' = downloadCurrentBlock' \/ xmit = downloadCurrentBlock'
       /\ downloadXmitBlock' = xmit
       /\ UNCHANGED <<toClient, resends>>
    \/ /\ downloadClientBlock' # downloadCurrentBlock'
       /\ xmit # downloadCurrentBlock'
       /\ SendBlock(xmit)
       /\ downloadXmitBlock' = xmit + 1
       /\ UNCHANGED resends

\* One block is sent; after the last of the window the server waits for the client, and when
\* it has waited too long it starts from the block the client is at.
Transmit(xmit) ==
    \/ /\ downloadClientBlock' = downloadCurrentBlock' \/ xmit = downloadCurrentBlock'
       /\ downloadXmitBlock' = xmit
       /\ UNCHANGED <<toClient, resends>>
    \/ /\ downloadClientBlock' # downloadCurrentBlock'
       /\ xmit # downloadCurrentBlock'
       /\ SendBlock(xmit)
       /\ downloadXmitBlock' = xmit + 1
       /\ UNCHANGED resends
    \/ /\ downloadClientBlock' # downloadCurrentBlock'
       /\ xmit = downloadCurrentBlock'
       /\ resends < MaxResends + losses
       /\ resends' = resends + 1
       /\ SendBlock(downloadClientBlock')
       /\ downloadXmitBlock' = downloadClientBlock' + 1

SV_SendDownloadMessages ==
    /\ Unread(reading) = {}
    /\ downloadName # 0
    /\ Len(toClient) < MaxInFlight
    /\ \/ Refuse
       \/ /\ ~download
          /\ ReadAhead(0, 0)
          /\ Transmit(0)
          /\ UNCHANGED downloadName
       \/ /\ download
          /\ ReadAhead(downloadCurrentBlock, downloadClientBlock)
          /\ Transmit(downloadXmitBlock)
          /\ UNCHANGED downloadName
    /\ UNCHANGED <<state, lastClientCommand, reading, client, toServer, losses>>

--------------------------------------------------------------------------------
(* The client. *)

\* Mutant: one command more than the ring holds.
FitOneMore(n) == reliableSequence + n - reliableAcknowledge' <= MAX_RELIABLE_COMMANDS + 1

\* There is room in the ring for n more commands; the client keeps what the server has not
\* acknowledged.
Fit(n) == reliableSequence + n - reliableAcknowledge' <= MAX_RELIABLE_COMMANDS

\* CL_AddReliableCommand for each of a sequence of commands that fit.
CL_AddReliableCommands(new) ==
    /\ reliableSequence' = reliableSequence + Len(new)
    /\ reliableCommands' =
          [s \in DOMAIN reliableCommands |->
              LET own == {i \in DOMAIN new : CommandSlot(reliableSequence + i) = s}
              IN  IF own = {} THEN reliableCommands[s] ELSE new[CHOOSE i \in own : TRUE]]

Stay == UNCHANGED <<reliableSequence, reliableCommands, wanted, downloadBlock, received, kept, toServer>>

\* Com_Error: the disconnect command that follows belongs to ServerClient.
Leave  == connected' = FALSE /\ Stay
Ignore == UNCHANGED connected /\ Stay

\* CL_WritePacket: every command that is not acknowledged, and one that was just added.
Unacknowledged(new) ==
    [n \in reliableAcknowledge' + 1 .. reliableSequence + Len(new) |->
        IF n > reliableSequence THEN new[n - reliableSequence] ELSE reliableCommands[CommandSlot(n)]]

\* CL_NextDownload: a file with the wrong checksum is an error; then the next file is asked
\* for or, after the last, a new gamestate.
CL_NextDownload(nextdl) ==
    \/ /\ received # Whole(wanted) \/ ~Fit(2)
       /\ connected' = FALSE
       /\ CL_AddReliableCommands(<<nextdl>>)
       /\ UNCHANGED <<wanted, downloadBlock, received, kept>>
    \/ /\ received = Whole(wanted)
       /\ Fit(2)
       /\ kept' = wanted
       /\ received' = <<>>
       /\ UNCHANGED connected
       /\ \/ /\ wanted + 1 \in Files        \* CL_BeginDownload
             /\ wanted' = wanted + 1
             /\ downloadBlock' = 0
             /\ CL_AddReliableCommands(<<nextdl, Command("download", wanted + 1)>>)
          \/ /\ wanted + 1 \notin Files     \* CL_DownloadsComplete
             /\ wanted' = 0
             /\ downloadBlock' = downloadBlock + 1
             /\ CL_AddReliableCommands(<<nextdl, Command("donedl", 0)>>)

\* The block is the one that the client is at; the end of the file is acknowledged twice
\* at once.
Take(block) ==
    LET nextdl == Command("nextdl", downloadBlock)
    IN  \/ ~Fit(1) /\ Leave
        \/ /\ Fit(1)
           /\ ~IsEOF(block)
           /\ received' = Append(received, block)
           /\ downloadBlock' = downloadBlock + 1
           /\ CL_AddReliableCommands(<<nextdl>>)
           /\ UNCHANGED <<connected, wanted, kept, toServer>>
        \/ /\ Fit(1)
           /\ IsEOF(block)
           /\ toServer' = toServer \o [i \in 1 .. 2 |-> Unacknowledged(<<nextdl>>)]
           /\ CL_NextDownload(nextdl)

\* A block that nobody asked for is not read: what follows is taken for other messages, and
\* the client leaves, or goes on by the luck of the bytes.
Unasked ==
    \/ ~Fit(1) /\ Leave
    \/ /\ Fit(1)
       /\ connected' \in BOOLEAN
       /\ CL_AddReliableCommands(<<Command("stopdl", 0)>>)
       /\ UNCHANGED <<wanted, downloadBlock, received, kept, toServer>>

Number(m)  == m.number % BlockModulus

\* The server writes the file size with block zero; the client reads it if it is at block zero.
WithSize(m)    == m.number = 0
ExpectsSize(m) == Number(m) = 0 /\ downloadBlock = 0

Awaited(m) == Number(m) = downloadBlock % BlockModulus

CL_ParseDownload(m) ==
    \/ /\ wanted = 0
       /\ Unasked
       /\ UNCHANGED blockZero
    \/ /\ wanted # 0
       /\ m.type = "refusal"
       /\ Leave
       /\ UNCHANGED blockZero
    \/ /\ wanted # 0
       /\ m.type = "block"
       /\ WithSize(m) # ExpectsSize(m)
       /\ blockZero' = TRUE
       /\ \/ Leave
          \/ Ignore
          \/ Awaited(m) /\ Take(Unknown)
    \/ /\ wanted # 0
       /\ m.type = "block"
       /\ WithSize(m) = ExpectsSize(m)
       /\ \/ Awaited(m) /\ Take(m.block)
          \/ ~Awaited(m) /\ Ignore
       /\ UNCHANGED blockZero

\* An acknowledgement that cannot be counts as all.
Acknowledged(ack) ==
    IF ack + MAX_RELIABLE_COMMANDS < reliableSequence THEN reliableSequence ELSE ack

CL_ParseServerMessage ==
    /\ connected
    /\ \E i \in DOMAIN toClient :
          LET m == toClient[i]
          IN  /\ Arrives(toClient, i)
              /\ toClient' = After(toClient, i)
              /\ reliableAcknowledge' = Acknowledged(m.ack)
              /\ \/ m.type = "snapshot" /\ Ignore /\ UNCHANGED blockZero
                 \/ m.type # "snapshot" /\ CL_ParseDownload(m)
    /\ UNCHANGED <<server, resends>>

CL_WritePacket ==
    /\ connected
    /\ Len(toServer) < MaxInFlight
    /\ reliableAcknowledge < reliableSequence
    /\ toServer' = Append(toServer, [n \in reliableAcknowledge + 1 .. reliableSequence |->
                                        reliableCommands[CommandSlot(n)]])
    /\ UNCHANGED <<server, client, toClient, losses, resends>>

--------------------------------------------------------------------------------
SV_Execute ==
    \/ SV_ExecuteClientMessage
    \/ SV_BeginDownload_f
    \/ SV_NextDownload_f
    \/ SV_StopDownload_f
    \/ SV_DoneDownload_f

Next ==
    \/ SV_Execute
    \/ SV_SendClientSnapshot
    \/ SV_SendDownloadMessages
    \/ CL_ParseServerMessage
    \/ CL_WritePacket

Spec == Init /\ [][Next]_vars

\* Both ends read and send in every frame, and time passes until the window times out.
FairSpec ==
    /\ Spec
    /\ WF_vars(SV_Execute)
    /\ SF_vars(SV_SendClientSnapshot)
    /\ SF_vars(SV_SendDownloadMessages)
    /\ WF_vars(CL_ParseServerMessage)
    /\ SF_vars(CL_WritePacket)

--------------------------------------------------------------------------------
(* Properties. *)

TypeOK ==
    /\ state \in {"CS_PRIMED", "CS_ZOMBIE"}
    /\ lastClientCommand \in Nat
    /\ downloadName \in {0} \cup Files
    /\ download \in BOOLEAN
    /\ download => downloadName # 0
    /\ downloadCurrentBlock \in Nat /\ downloadClientBlock \in Nat /\ downloadXmitBlock \in Nat
    /\ downloadBlocks \in [0 .. MAX_DOWNLOAD_WINDOW - 1 -> Block]
    /\ connected \in BOOLEAN
    /\ reliableSequence \in Nat /\ reliableAcknowledge \in Nat
    /\ reliableCommands \in [0 .. MAX_RELIABLE_COMMANDS - 1 -> ClientCommand]
    /\ wanted \in {0} \cup Files
    /\ downloadBlock \in Nat
    /\ received \in Seq(Block)
    /\ kept \in 0 .. Len(Blocks)
    /\ toClient \in Seq(Message)
    /\ losses \in 0 .. MaxLosses
    /\ resends \in 0 .. MaxResends + MaxLosses
    /\ blockZero \in BOOLEAN

\* Every packet on its way has all commands that the server has not executed, each as
\* it was added: the server never finds a gap ("Lost reliable commands", SV_ClientCommand),
\* and the client forgets nothing that was not executed.
CommandsComplete ==
    /\ reliableAcknowledge <= lastClientCommand
    /\ lastClientCommand <= reliableSequence
    /\ \A i \in DOMAIN toServer :
          LET new == Unread(toServer[i])
          IN  /\ new # {} => lastClientCommand + 1 \in new
              /\ \A n \in new : toServer[i][n] = reliableCommands[CommandSlot(n)]

\* The file that the client writes has got a block of another.
Alien == \E i \in DOMAIN received : received[i].file # wanted

\* Blocks come in order, each once and with its own data, whatever is lost or sent again; a
\* client keeps whole files only, one after the other (CL_ParseDownload), or fails.
Failed == ~connected \/ Alien

Transfers == INSTANCE FileTransfers WITH
    Sources <- [f \in Files |-> Whole(f)],
    file <- IF Failed THEN <<>> ELSE received,
    failed <- Failed
TransfersSpec == Transfers!Spec

\* Every file that the server does not refuse reaches the client, or the download fails.
TransferEnds ==
    \A f \in Files \ Refused : wanted = f ~> kept >= f \/ ~connected \/ state = "CS_ZOMBIE"

\* "block zero is special, contains file size" (CL_ParseDownload).
BlockZeroRead == ~blockZero
================================================================================
