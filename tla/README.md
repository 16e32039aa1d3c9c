# Tremulous in TLA+

TLA+ specifications of parts of the Tremulous server, client and game (a Quake III descendant),
checked with TLC and, where marked, proved with TLAPS. All paths below are relative to `src/src/`.
`PROJECT.json` maps each definition to the lines it models and lists runs, mutants, findings,
hazards and theorems.

## The system

One server process and its clients exchange UDP datagrams. The server runs frames (`SV_Frame`): it
reads what has arrived (`SV_PacketEvent`, which ends in `SV_ExecuteClientMessage`), calls the game
module (`GAME_RUN_FRAME`, i.e. `G_RunFrame`), checks timeouts and sends a message to each client.
Everything in one process runs in one thread: what interleaves is the two ends of each connection,
several clients, and handlers that call each other. Hard are: datagrams that are lost, repeated or
late; client and server that are on different maps for a while; resources of fixed size (rings of
commands, of snapshots, of waiting players); state indexed by a client number that changes its
meaning; and timeouts that race with late answers. Nothing survives a restart but sessions and
configuration files, so crash recovery plays no part.

| Component | State | Operations | Correct if | Module |
|---|---|---|---|---|
| netchan (`qcommon/net_chan.cpp`, `server/sv_net_chan.cpp`) | sequence numbers, unsent fragments, send queue, fragment buffer | transmit, transmit next fragment, process | messages come out whole, in order, at most once; the queue drains | `NetChan`, `DatagramChannel` |
| handshake (`sv_client.cpp`, `cl_main.cpp`, `g_client.cpp`) | challenges, slots, the client's connection state, whom the game has in a slot | get challenge, connect, reconnect, deny, leave, time out | one slot per client; server and game agree; who is in stays in; who asks gets in | `Handshake` |
| client lifecycle (`sv_client.cpp`, `sv_ccmds.cpp`, `sv_init.cpp`, `cl_main.cpp`, `cl_parse.cpp`, `cg_snapshot.cpp`) | state of the slot, server ids, pure check, download; connection state of the client | gamestate, download, first user command, map change and restart, drop, timeout | moves are executed on the map they were made on; who stays gets to play; slots become free | `ServerClient` |
| reliable server commands (`sv_main.cpp`, `sv_snapshot.cpp`, `cl_parse.cpp`, `cl_cgame.cpp`) | ring of commands at both ends, acknowledged and executed numbers | add, send, acknowledge, store, execute, drop on overflow | each command executed once, unchanged, in order; nothing forgotten | `ServerCommands` |
| reliable client commands and downloads (`sv_client.cpp`, `cl_parse.cpp`, `cl_main.cpp`, `cl_input.cpp`) | ring of client commands; window of blocks, acknowledged block, the file being written | add, repeat, execute; ask, send, acknowledge, resend, refuse, stop | no command skipped; files arrive whole and in order, or the download fails | `Download`, `FileTransfers` |
| snapshots (`sv_snapshot.cpp`, `cl_parse.cpp`, `cl_cgame.cpp`) | rings of frames and entities at both ends, what is acknowledged | build, choose a base, write, parse, get | what the client's game gets is what the server saw under that number; no difference from a base that the client lacks | `Snapshots` |
| spawn queues (`game/g_main.cpp`, `g_cmds.cpp`, `g_team.cpp`, `g_client.cpp`) | a ring of clients per team; who follows whom | choose class, follow, change team, leave, die, spawn | in the queue exactly while waiting; first come, first served; served in the end | `SpawnQueue`, `SpawnLine` |
| votes (`game/g_main.cpp`, `g_cmds.cpp`, `g_admin.cpp`) | counters, times and strings per team; who voted what | call, vote, leave, count, decide, execute | counters match the voters; no early end of an open vote; what passed is executed | `Vote` |
| end of a level (`game/g_main.cpp`, `g_active.cpp`, `g_client.cpp`) | when the end was decided and the intermission began, who is ready, spawns counted, who lives | exit rules, intermission, ready, join, leave, die, spawn | a level ends once, with one winner; the loser has nothing left; the intermission waits for the players, and ends | `LevelEnd` |
| map rotation (`game/g_maprotation.cpp`) | place in each rotation, stack of rotations | advance, step, goto, resume, return, label | a walk ends with a map; a rotation goes on where it was left | `MapRotation` |
| build points, config strings, rate limits, VoIP (`game/g_main.cpp`, `g_buildable.cpp`, `sv_init.cpp`, `sv_main.cpp`, `sv_client.cpp`) | pools, zones, queues; strings and what each client has of them; buckets; a ring of packets | | | not modelled |
| commands, variables, events, memory (`qcommon`) | buffers and lists | | | not modelled |

What else there is (rendering, sound, user interface, collision and movement, files, the virtual
machine, vendored libraries) is listed in `PROJECT.json` under "components" with the reason for
leaving it out: geometry in floating point, text, or input and output.

Interaction: a client goes through `Handshake` into a slot of `ServerClient`. What the two say to
each other there (`ServerCommands`, `Download`, `Snapshots`) travels over the channel that `NetChan`
implements, and these modules use only what `DatagramChannel` promises: datagrams come whole and in
order, but not all. They take `Foreign` to be empty, that is, packets of an earlier connection that
the checksum lets through to be lost (see NetChan below). `ServerClient` moreover takes the server
commands to be reliable, as `ServerCommands` shows. In the game `SpawnQueue`, `Vote` and `LevelEnd`
are three views on the same clients, and share the handlers for connecting, leaving and changing
teams; each keeps only the fields it is about. `LevelEnd` ends with the call of
`G_AdvanceMapRotation`, with which `MapRotation` begins; the map change it asks for is
`SV_SpawnServer` in `ServerClient`.

## Modules

### NetChan and DatagramChannel

One direction of a connection, with the server's end as sender. The network is the set of all
packets sent: any of them may arrive at any time, again, or never. A byte is a record of the
message it belongs to and its offset, so that a buffer put together from pieces of two messages is
told apart from an intact one. `Stale` is a set of packets of an earlier connection between the
same addresses, in the network from the start. Only the checksum can tell them from those of this
one, and `NETCHAN_GENCHECKSUM` is `challenge ^ (sequence * challenge)` (`net.h:90`), here bit by
bit: an even number tells all challenges apart and an odd one does not (`EvenNumbersDistinguish`,
evaluated for ints of four bits), and with number 1 it is 0 for every challenge, so that the first
message of an earlier connection, or its fragments, is taken for the first of this one (theorem
`FirstNumberIsExposed`). `Exposed` is the set of numbers at which a stale packet fits; protocols
69 and 70 have no checksum, and all numbers of stale packets are exposed.

`DatagramChannel` is the abstract channel: a sequence of accepted messages, from which later and
later ones are delivered; under the numbers in `Foreign` anything may come out, at most once, and
in the place of what was sent under that number and before. `NetChan` has the exposed numbers for
`Foreign`. Loopback buffers, connectionless packets and the
wrap of 32-bit sequence numbers are left out; the last would take months of play.

### Handshake

Several parties, each with one address, connect to a server with few slots. The network is a set
of datagrams that may be lost, come late (up to `MaxDelay`) or be overtaken; a tick is about a
second, and the retransmission, the limit on reconnects, the timeouts and the zombies count ticks.
`challenges` is the table that `SV_GetChallenge` gives away by age, `slots` the part of `client_t`
that a connect decides on, and `game` the client that the game module has connected in a slot:
`SV_DirectConnect` takes a slot over without telling the game, whose `ClientConnect` has its own
idea of who is there. The game may deny a client, or drop it in the middle of its connect for a
malformed userinfo. Every branch of `SV_DirectConnect` about slots is there: the limit on
reconnects, the challenge that is unknown or was refused, the refusal for the ping, the slot
reused or free, the server that is full. Why the game denies somebody (passwords, bans) is left
open. Private slots, signatures, the limit on the rate of requests and a client on the server's
own machine are left out, and so are the branches of the client for protocols 69 and 70, which do
not compare the challenge of a response with its own (`cl_main.cpp:3811` and `3865`). A disconnect
that comes from an earlier connection is not looked at: one whose checksum fits every challenge is
a first message, sent without a gamestate, and `SV_ExecuteClientMessage` returns before it reads
the commands of such a message (`sv_client.cpp:1830`).

What the model shows of the code in passing: each `getchallenge` takes a new oldest entry (the
comment "this is the first time this client has asked for a challenge" notwithstanding); a client
whose challenge was given away, wiped with its former connection, or refused for its ping goes on
sending it for ever (`Forgotten`, exempted from `Connects`); ping is counted from the challenge,
so that a connect sent again three seconds later can be refused by `sv_maxPing`.

### ServerCommands

The ring `reliableCommands` of one client, at the server, and its mirror at the client. The text
of a command is the number it was added under, so that a slot overwritten too early shows.
Datagrams are sequences from which any element may be lost. The print that `SV_DropClient`
broadcasts, which comes back to `SV_AddServerCommand` for the client being dropped, is part of the
action of the drop: `MaxPrints` says how many such prints there may be. `SV_SpawnServer` takes the
client back to `CS_CONNECTED`, in which `SV_AddServerCommand` returns at once until the gamestate
is sent again: who is dropped then (timeout, kick) becomes a zombie without print or disconnect
command. `uninformed` marks it; such a client leaves by its own timeout. Left out is the message
that overflows and loses the commands in it (`sv_snapshot.cpp:695`).

### ServerClient

One slot of the server and its client, after the handshake. Message numbers are kept as ranks
relative to the last gamestate (before, it, after), because the code compares them with nothing
else; counts of commands are relative to those not executed yet. Loading a map is one step of the
client. The client's requests are the sequence of its unexecuted commands, repeated in each packet
as the real ones are. `current` is the message being executed: a message is taken apart command by
command, and the server frame goes on only when it is done, so the handlers of a message
(`SV_VerifyPaks_f`, `SV_DoneDownload_f`, ...) do not interleave with sending. Left out: a
reconnect into the slot, `vdr` after a `vid_restart`, a denial by the game at a map restart, the
abort of a download for a block that does not fit, the clock going back (`oldServerTime`), and a
map restart between two packets of one server frame. The second drop of `SV_UserMove` for clients
that are not authentic cannot be reached, and is not modelled.

### Download and FileTransfers

One client fetches its list of files. Data is counted in blocks, the last block of a file is
empty; a block carries the file and number that it really is, which the protocol does not send, so
that a block taken for another shows. Block numbers are sent modulo `BlockModulus` (16 bits). The
requests and acknowledgements of the client are its reliable commands: a ring, all unacknowledged
ones in each packet. A packet is executed command by command, and the server frame goes on when it
is done. `FileTransfers` is the promise: each file is a growing prefix of its source, kept when
whole, one after the other, or the transfer fails. `Failed` includes the case that the file has
got a block of another (`Alien`), which the checksum of the pak finds afterwards, as
`CL_NextDownload` does here. The list of files is known from the start; `Refused` are the files
for which `sv_allowDownload` may be off when they are opened. A block nobody asked for is answered
by `stopdl`, and its data is not read: the client takes it for other messages, and either fails
or, by luck, does not. `CL_AddReliableCommand` says it leaves "one slot open for the disconnect
command"; it leaves none, and the model has the code's limit.

### Snapshots

One server and one client that exchange snapshots and acknowledgements while entities change and
the map does. Entity states are numbers, and `Worlds` is the history of what the server sees. Both
rings are there: `frames` (`PACKET_BACKUP`) with places in the ring of entities that all clients
share (`OtherEntities` says how much of it the others take), and `snapshots` with `parseEntities`
at the client. The `truth` of a snapshot travels with it for the property; the client's steps read
only how many entities it has. A message that is still being sent in fragments delays the number
under which the next is sent, as in `SV_SendMessageToClient`. Left out: the sending of packets
without a move, `cl_nodelta`, a message that overflows (it is replaced by an empty one, and
acknowledged all the same), player states, which go with their frame, and map_restart, which is in
`ServerClient`. Snapshots of a new map that come before its gamestate are decoded from old
baselines; the client discards them when the gamestate comes, and the property compares only maps
that are the same at both ends.

### SpawnQueue and SpawnLine

`spawnQueue_t` as the code has it: an array and two indices, an empty queue when `back` is before
`front`. Clients have the fields that decide about waiting: team, connection, chosen class,
spectator state, whom they follow, and `clientNum`, which is `ps.clientNum`: while one follows,
`SpectatorClientEndFrame` overwrites it with the number of the client that is followed.
`SpawnLine` is what the queue is for: a line without duplicates. `wronged` collects the clients
for which `G_LeaveTeam` did not act on their own number; connecting anew clears it. Connecting and
beginning are one step, as are death and the spawn as a spectator. Where a spawn point is free is
left open.

### Vote

`level.vote*` as a record per team and one for everybody, and per client the votes whose bit in
`pers.voted` is set. Times are counted in frames: `age` for `voteTime`, `due` for
`voteExecuteTime`. The float comparisons of `G_CheckVote` are cross-multiplied, with the sign of a
negative sum and the quotients by zero as IEEE has them. Left out are the limit of votes per
client, who may call what, the delay between two changes of team, pausing, and what the string of
a vote does once it is executed.

### LevelEnd

`level` with the times of the end of a level, and per client its team, body, and readiness.
`CheckExitRules` runs in each frame and inside `CalculateRanks`, that is in the middle of
connecting, leaving, dying and spawning; so may `CheckIntermissionExit`, which calls `ExitLevel`
from within the handler of a client that leaves. What they do is a function of the level and its
clients (`State`), and `Ranked` is the call at the end of each handler. Spawns are counted in a
frame (`G_CountSpawns`), the living when somebody asks, and the two need not be of the same
moment. Frames run the clients in order (`ClientEndFrames`), any of whom may end the intermission.
One spawn point per team, a time limit, and one step of time for several seconds. Left out are
pausing, teams restored from the session, the body that a client has when `ExitLevel` has put it
back, and spawns after the end is decided. `ExitLevel` puts clients back to connecting before the
map command has run, so that `CalculateRanks` can decide the end again: `WinnerStands` shows what
remains of that. A comment speaks of waiting 10 seconds where the code has 30000 ms;
`MaxIntermission` is the code's.

### MapRotation

The rotations are sequences of nodes (maps, labels, goto, resume, return, each of them conditional
or not), the variables the cvars that survive a level: current rotation, place in each, and stack.
What a condition says is left open at each step. A walk is a sequence of steps between two levels;
`depth` counts its nodes against the two limits of the code (`SkipDepth`, `StopDepth`). `last` is
history: the node of each rotation that was run last. Left out: the parser, after whose errors
rotations stay in use (one with missing maps only would loop for ever, since the guard exempts
maps), a configuration that changes between levels, and the lengths of cvars. Those matter beyond
the model: `G_CurrentNodeIndexArray` reads into 128 characters where up to 256 are written, which
cuts off more than about 42 rotations, and the stack has 256 characters (`MaxStack`). More than
`StopDepth` nodes between two maps can make a walk give up, after which the server stays in a
level that is over; `MapsInReach` excludes it.

## Runs

| Run | Shows |
|---|---|
| `netchan` | `DeliveredIntact`: a message that comes out is the one handed over, byte by byte, except under a number at which a stale packet fits. `DatagramSpec`: the channel refines `DatagramChannel`; what is foreign takes the place of the message with its number only. `QueueDrains`: every message gets on the wire. |
| `handshake` | `OneSlotEach`: nobody has two slots, however often and late it connects. `GameAgrees`: the game has exactly whom the server has. `SettledStays`: a connect that is late does not set up anew a client that is in. `Connects`: who asks gets in or gives up, unless its challenge is lost or the server is full. |
| `servercommands` | `CommandsIntact`: what is executed under a number was added under it. `DisconnectIsLast`: a dropped client's newest command is its disconnect, unless it was dropped before it had the gamestate of the map. `CommandsArrive`: every command is executed, or one of the two ends is gone, or maps change for ever. |
| `serverclient` | `ActiveHasBegun`: the game is never run for a client it did not begin. `GenuineStays`: checksums of an earlier map do not drop a client with the right files. `MovesOnThisMap`: user commands are executed on the map they were made on. `ClientPlays`: a client gets to play, on the current map. `SlotFreed`: a dropped or silent client's slot becomes free. |
| `serverclient_download` | finding: a map restart during a download leaves the client without a gamestate. |
| `download` | `CommandsComplete`: the server meets no gap in a client's commands, and each is what the client added. `TransfersSpec`: the transfer refines `FileTransfers`. `TransferEnds`: each file that is not refused arrives, or the download fails. |
| `download_blockzero` | finding: block zero sent again meets a client that reads it without its file size. |
| `snapshots` | `SnapshotsIntact`: a snapshot the client's game can get is what the server saw under its number. `DeltasApply`: the client never gets a difference from a snapshot it does not have. |
| `spawnqueue` | `WaitsWhereItShould`: a client is in a queue exactly while it is dead, in that team and has chosen a class. `BehavesAsLine`: the ring refines `SpawnLine`, first come first served. `Served`: who waits is served or leaves. |
| `vote` | `TallyMatches`: the counters are the votes of those who still take part. `PassedIsExecuted`: what is executed is what was voted on. `EarlyIsFinal`: a vote that ends early could not have turned. `VotesEnd`: votes end, and what passed is executed. |
| `levelend` | `LevelEnds`: a level that is decided is followed by the next. `WaitsForPlayers`: an intermission is not cut short. `WinnerStands`: a level ends once. `LoserIsBeaten`: the loser has neither spawns nor anyone alive. |
| `maprotation` | `NeverGivesUp`: a walk through rotations that have maps in reach finds one. `WalkEnds`. `GoesOn`: a rotation goes on after the node that was run last in it. |

The type invariants are checked in the runs of `ServerClient`, `SpawnQueue`, `Download`,
`Snapshots` (`SnapshotsTypeOK`) and `LevelEnd` (`LevelTypeOK`); all of them are theorems, and so are
those of `NetChan`, `Handshake`, `ServerCommands`, `Vote` and `MapRotation`. They say more than types
where the code relies on more: a zombie has no download open (`ServerClient`), one who follows
follows somebody (`SpawnQueue`), an intermission belongs to a level whose end is decided
(`LevelEnd`). That of `Handshake` has a convention of the model instead, no party in a free slot:
the code leaves the address there and skips free slots.

A run for a finding expects a violation of the one property that quotes the comment the code does
not keep. The passing runs exclude the cases that the findings and the deviations below are about
by name (`overflowed`, `uninformed`, `Exposed`, `caught`, `Misled`, `AwaitsGameState`, `wronged`, `twice`, `Alien`,
`Forgotten`), and so show that nothing else goes wrong in the same way.

### Bounds

- `netchan`: fragments of 2 bytes, a buffer of 5, three messages of lengths 1, 2, 4 and 5 (below a
  fragment, exact multiples, with a remainder); stale packets whole and fragmented, those with
  number 1 exposed, those with 2 and 3 not (ints of 4 bits, challenges 5 and 6). Three messages
  are what it takes for one to be in fragments while two wait.
- `handshake`: two slots that are both taken at first, two entries for challenges, one newcomer
  with two attempts and one stranger whose request may take the newcomer's entry. Two attempts are
  what it takes for an old connect, disconnect or answer to meet a new one; with two slots a party
  could get a second one. Eight numbers for challenges are never used up. The delay of a datagram
  is one tick, the retransmission and the limit on reconnects are three (more than two delays, see
  `Settled` below).
- `servercommands`: a ring of 2 and 5 commands, so that it wraps twice; a drop may add up to 2
  prints, which fills the ring from any state; 2 datagrams each way.
- `serverclient`: server ids up to 3 (two changes or restarts, in any order), one gamestate after
  which a file is missing, its last block sent twice, one lost datagram. Two changes are needed
  for a message to be two maps late. `MaxInFlight` bounds when one end sends another message,
  never what a handler does.
- `download`: three files of one, three and one block, a window of two, a ring of four commands,
  two lost datagrams and one timeout more. The first file fits into the window, so that all of it
  may come once more when the client is at the next; the second turns the window; the last may be
  refused. Block numbers repeat after four. The finding needs one file and no loss.
- `snapshots`: rings of six messages, as the server keeps back three; ten messages, so that the
  ring of messages wraps while the acknowledged one stays; room for six entities, shared with
  others, so that a base rolls off; two entities that come, go, change and stay in turns; one
  change of the map.
- `spawnqueue`: one team of three clients and a ring of four cells, so the ring wraps; two clients
  that wait and one that follows either are enough for every case of `G_LeaveTeam`. At least one
  cell stays free, as on every server without `MAX_CLIENTS` dead players in one team: a full ring
  has the indices of an empty one, and the code then takes it for empty.
- `vote`: three clients, one team besides everybody, votes with threshold 50 at once and 66 with a
  delay, two frames to vote. `MaxVotes` keeps votes of everybody and of the team from running at
  the same time, in which they share nothing but who is there; `MaxBelow` bounds how far a counter
  falls below zero (see Deviations).
- `levelend`: two clients and one spawn for each team, the delays of a level in the order they
  have in the code (delay of the intermission, least time, timeout, limit). Two clients are one
  who is ready and one who is not, or one in each team. `MaxTime` is not reached: the time limit
  ends the level before.
- `maprotation`: all pairs of a rotation of three nodes and one of two with their last node a map,
  over every kind of node, conditional or not; limits of 3 and 5 nodes and a stack of two. One
  configuration has a map out of reach, so that the walk gives up.

Deadlock is checked for `SpawnQueue`, `Vote`, `LevelEnd` and `MapRotation`, where something can
always happen; the other models stop when everything bounded is used up, and their properties of
progress are stated as liveness.

### Fairness

- `NetChan`: weak fairness of `SV_Netchan_TransmitNextFragment`; `SV_SendQueuedPackets` and
  `SV_SendClientMessages` come back to a client with unsent fragments in frame after frame.
- `Handshake`: weak fairness of the clock and of the client's own frames; strong fairness of
  receiving each kind of request and answer, and of the game's accepting a connect that can be
  accepted: of what is sent again and again some arrives, and the newcomer is not refused for
  ever.
- `ServerCommands`: weak fairness of sending and reading at both ends. Both run frames, and of
  messages sent again and again some arrive; single ones are lost by being overtaken.
- `ServerClient`: weak fairness of reading, executing and of the client's frames; strong fairness
  of the server's sends and timeouts, because each server frame gets from the clients' messages to
  `SV_CheckTimeouts` and `SV_SendClientMessages` whatever arrived in it, while in the model
  executing a message disables them for a few steps. Nobody is assumed to change the map, leave or
  lose datagrams.
- `Download`: weak fairness of executing and reading, strong fairness of the sends at both ends,
  for the same reason; losses are bounded, and so are timeouts of the window beyond one per loss.
- `SpawnQueue`: weak fairness of `G_SpawnClients` for each team: it is called every frame, and
  spawn points come free again. A team whose spawns are all destroyed loses the game instead.
- `Vote`: weak fairness of `G_RunFrame`. `LevelEnd`: weak fairness of `Frame`, which is the same.
  `MapRotation`: weak fairness of the steps of a walk, which is a loop.

## Deviations

Where the program does something else than it says. The first two are runs that expect a
violation, and findings in `PROJECT.json`; each of the others is a definition with the comment "It
does not hold", and shows its trace when it is checked in the configuration of its module in place
of the properties there.

- `DownloadLeadsToGame` (`ServerClient`, run `serverclient_download`): a map_restart while a
  client downloads puts it in the world without a gamestate; when the download is done it waits
  for one for ever.
- `BlockZeroRead` (`Download`, run `download_blockzero`): "block zero is special, contains file
  size" (`cl_parse.cpp`, `sv_client.cpp`). The client reads the size only while it is at block
  zero, the server writes it whenever it sends the block again.
- `EncodedWithSequence` (`NetChan`, with `alternateProtocol = 1` and `Stale <- NoStale`): "the
  message will be encoded and sent later" (`sv_net_chan.cpp:233`). With protocols 69 and 70 a
  message that waited behind fragments goes out as it is, and the client decodes it.
- `DroppedOnce` (`ServerCommands`): "we check == instead of >= so a broadcast print added by
  SV_DropClient() doesn't cause a recursive drop client" (`sv_main.cpp:157`). When a client whose
  ring is exactly full is dropped for something else, the print of that drop is the command that
  overflows.
- `KeyAgrees` (`ServerCommands`): "also use the last acknowledged server command in the key"
  (`sv_client.cpp:1574`). With `MAX_RELIABLE_COMMANDS` commands unacknowledged the slot of the
  acknowledged one holds the newest, and the two ends use different keys.
- `PreviousGameStateIgnored` (`ServerClient`): "if this is a usercmd from a previous gamestate,
  ignore it or retransmit the current gamestate" (`sv_client.cpp:1817`). A map_restart soon after
  a map change puts a client that still loads in the world (`sv_ccmds.cpp:222`) and sends it the
  new server id as a command; still on the old map, the client puts that id on its user commands,
  and they count.
- `FollowsTeammates` (`SpawnQueue`): "can only follow teammates when dead and on a team"
  (`g_cmds.cpp:2816`). `G_StopFromFollowing` looks for followers of `ps.clientNum`
  (`g_cmds.cpp:2656`), which for one who follows is somebody else's number, so that its followers
  go with it to the other team.
- `MajoritySupports` (`Vote`): "need at least this percent to pass" (`g_local.h:565`). A client
  that leaves its team twice in a vote, with rejoining in between, is subtracted twice, since
  `G_Vote` (`g_main.cpp:1927`) keeps its mark; with one no counted as -1 the quotient passes every
  threshold.

Further places that the properties do not reach: "UDP spoofing protection" (`net_chan.cpp:279`)
does not protect number 1 (`Exposed`, above); `SV_FreeClient` (`sv_client.cpp:507`) runs from
the index to the count of a ring of VoIP packets, and so leaves packets or frees others when the
ring does not start at 0; the gamestate that answers a donedl is sent once (`sv_client.cpp:757`),
and `gamestateMessageNum` is taken before the message is queued behind fragments
(`sv_client.cpp:610`); a map_restart by rcon can send a gamestate between the change of the
server's id and the `CS_SYSTEMINFO` that tells it (`sv_main.cpp:1114`); with `MAX_CLIENTS` clients
waiting a spawn queue counts as empty (`g_main.cpp:797`); a vote whose string begins with "map"
sets what a restart reads (`g_main.cpp:1967`); the refusal of a download is sent once, in a
datagram that may be lost (`sv_client.cpp:897`); a reconnect into a live slot overwrites
`client_t` with the queue and the files it holds (`sv_client.cpp:221`); a snapshot that does not
fit is replaced by an empty message and acknowledged all the same (`sv_snapshot.cpp:695`).

## Proofs

`NetChanProofs`, `ConnectionProofs` (of `Handshake` and of `Snapshots`), `ServerCommandsProofs`,
`ServerClientProofs`, `DownloadProofs`, `SpawnQueueProofs`, `VoteProofs` and `LevelProofs` (of
`LevelEnd` and of `MapRotation`) prove for all values of the constants what the runs check on
small ones. The only assumptions are those of the modules (and `maxclients < MAX_CLIENTS` for the
spawn queues, see above): sizes are naturals (positive where the code divides by them), the
clients that can vote are finitely many, rotations and the files to download are not empty, those
present at first are different parties, more block numbers can be told apart on the wire than a
window has blocks (65536 and 48 in the code, `net.h:86`), no team can lose before the first frame
has counted the spawns (the code's second, within which the server has run three frames of its
own). Of stale packets nothing is assumed but their type (`StaleAssumption`).

*NetChan* (`TypeCorrect`, `Intact`, `Refinement`, `FirstNumberIsExposed`). `DeliveredIntact` is not inductive: it says
nothing about what is on the way. `IInv` adds `SenderInv` (the messages held by the sender are
numbered as they will be sent: `FirstQueued` counts past the message in fragments), `NetInv` (a
packet that is not stale is a piece of the message with its number, and it is the last piece
exactly if it is shorter than a fragment), and `BufferInv` (the buffer holds the first bytes of
the message of `fragmentSequence`, unless that number is exposed). Sending appends such a piece,
receiving extends the prefix by one or starts over; a complete prefix is the message. A packet that
passes under a number that is not exposed is not a stale one (`OwnPacket`), and a fragment with
another number starts the buffer anew, so that nothing foreign is left in it. The refinement then
follows step by step: a message that comes out is `Deliver`, or `DeliverForeign` if its number is
exposed.

*Handshake* (`TypeCorrect`, `OneSlot`, `Agreement`, `Settled`). The first three are inductive only
together: that a connect takes the first slot of its party, if it has one, keeps it at one slot
because slots have a party exactly when they are not free (`TypeOK`), and because dropping leaves
the party in its zombie; the game's idea of a slot stays right when a live slot is taken over only
because the slot taken is one of the same party, which is `OneSlotEach` and `GameAgrees` at once.
One lemma each for the acceptance, the denials and the drops.

`SettledStays` (`Settled`) compares ages. A response under way to a client is not younger than the
connect that was accepted last (`Answered`); so when a client learns that it is in, its slot was set
up at most `MaxDelay` ago, and all connects that it has sent are at least as old from then on as
the time that has passed (`Asked`). One that arrives finds a slot that is at most twice `MaxDelay`
old, which is too soon for another. The theorem therefore assumes `2 * MaxDelay < ReconnectLimit`:
no datagram takes half of `sv_reconnectlimit` (three seconds by default, `sv_init.cpp:828`). The
assumption cannot be weakened to a limit longer than one datagram takes: with a delay of one tick
and a limit of two TLC finds the slot set up anew under its client, by a connect that was sent
again just before the response came.

*ServerCommands* (`TypeCorrect`, `Intact`, `Received`, `DisconnectLast`, `Advances`). The
arithmetic of the ring is in lemmas: numbers less than the ring's size apart have different slots
(`SlotDistinct`), and `Store` of consecutive commands keeps the rest. The invariant says for each
command number still in use what rings and datagrams hold in its slot, that the client's numbers
are ordered along the datagrams in flight, and that acknowledgements in flight only grow up to
what the client has. What it says of the disconnect command is only of a client that was `Told`;
a change of the map and the drop of a client without a gamestate leave rings and datagrams alone
(`NothingStored`).

*ServerClient* (`TypeCorrect`, `HasBegun`, `Stays`, `OnThisMap`). `ActiveHasBegun` and `GenuineStays` are
about one variable of the server each, but what changes it comes out of datagrams. The invariant
adds `Queues` (a datagram counts only commands that its sender has given, so that the parts of a
packet are executed only if they exist), `Flags` (a message is executed and a file sent only for a
client that is connected, and checksums that were taken count as good), and `Goes` (a client whose
disconnect command is under way has left). One lemma per handler; those of `SV_Execute` share one
on taking the next command of the packet.

`MovesOnThisMap` says of one step that the packet which is executed was made on the map that is
played; the server only sees its server id. A second invariant, `MInv`, follows the maps to where
that packet comes from. Gamestates on their way come in order, none older than the one that is
loaded (`GameStates`); a server id that was given out since the map was loaded is found only on
gamestates, packets and configstrings of that map (`ThisMap`), as long as no `map_restart` has put
the client in the world while it loaded (`caught`); and a client that is active has loaded the map
(`Loaded`). What is left is the hole in the comparison of server ids: it is not made while the
server takes the client to be downloading. `Phases` says what commands and datagrams can be on
their way before, during and after a download (no block behind a gamestate that was asked for, no
`stopdl` behind the `download` that it would stop), so that the server sends a file, or has just
executed `nextdl`, only when the client is still at it; and `Apart` that a packet with user commands
comes behind all commands about files. So such a packet is only taken with the server id it should
have. Loss is covered by one notion: what is left of a channel is some of it, in order (`SomeOf`,
`LeftOf`), and every part of `MInv` is kept by that.

*Download* (`TypeCorrect`, `Complete`, `Refinement`). `CommandsComplete` says nothing of what the client may
still forget. `IInv` adds that the ring never holds more than a round beyond what the client has
got acknowledged (`Commands`), and that acknowledgements under way only grow and never pass what
the server has executed (`Acks`). So a command in the ring that is not executed yet keeps its slot
when others are added (`AddCommands`, by the arithmetic of `SlotInRange`), and a packet that was
sound stays sound (`SoundLater`), however old it is when it arrives. It also follows that the
client never meets an acknowledgement that it would have to correct (`ReadsHeader`): the recovery
in `CL_ParseServerMessage`, which forgets commands, is not reached by datagrams of this connection.

That the client implements `FileTransfers` is an argument about the blocks in flight. `Transfer`
says for a client that is at a file and has not failed: no command of an earlier file is left
behind the one that asks for this file (`InTurn`), so that before the server has read it nothing
of the file can be in the window or on its way (`Untouched`), and afterwards the server sends this
file or has closed it (`Session`); the window is around the block that the client is at, also when
a timeout has started it over (`Window`); and a block on its way is less than a window away from
the one the client is at, and from those behind it (`OnTheWay`), so that the numbers on the wire,
which count modulo `BlockModulus`, cannot be taken for another's (`NextOfFile`). An old window's
block of another file may still get in where its number fits; that is a failure of the transfer
(`Alien`: the checksum does not match), and failing is what `FileTransfers` allows.

*Snapshots* (`SnapshotsTypeCorrect`, `BasesAreThere`, `SnapshotsCorrect`). That the client has the
base of a difference (`DeltasApply`) and that what its game gets is what the server saw
(`SnapshotsIntact`) both rest on what is still on the way, so `SnapshotsInv` speaks of everything
in the datagrams in flight and in the server's queue behind fragments, with the numbers they will
get (`OnWay`). `Ordered` says that these are increasing and beyond what has been read; `Gamestates`
and `Maps` that at most one gamestate is on the way, and none to a client that has this map's;
`Deltas` that a base which a snapshot on the way refers to is held by the client, or is given up
there because too many have followed it (`Has`); `Ring` that a frame of the server stays what was
sent (`Framed`) until its slot is used again, and that the parsed entities of a frame that is kept
are no further back than `MAX_SNAPSHOT_ENTITIES` for each message since (`InRing`), so that they
have not been overwritten. Numbers less than a ring apart have different slots (`MaskedDistinct`,
`MaskedLast`), and a difference that is put on its own base gives what was sent (`Applied`). There
is one lemma for each action.

*SpawnQueue* (`Invariance`, `Refinement`, `TypeCorrect`, `NobodyLost`). Cells are spoken of by their place, how far they are
behind the front, which undoes the wrap of the ring. The invariant (`Ordered`) is that the places
below the length hold clients, none twice, and those behind hold nobody. A full ring would have the
length of an empty one; a client that is not in the queue always finds a second free cell, since
there are fewer other clients than that (`RoomForOne`, by the pigeonhole principle), and this is
where the assumption is needed. Each operation is described place by place (`PushPlaces`,
`PopPlaces`, `RemovePlaces`) and then as what it does to the line; nothing about `client` is
needed, so the queues are right whatever a class or team command is given. `WaitsWhereItShould`
relates the queues to `client`; `IInv` adds that a client which waits and does not follow has its
own number (`Fitting`), so that the attack button takes nobody else out of a queue. Leaving and
dying go through all clients with a recursive function; that such a walk only turns followers
(`SamePlayers`: nobody starts or stops to play on the way) is proved by induction over the steps
(`OneByOne`, `Arrives`). The library's induction theorems take an operator, which the provers
cannot instantiate; `Induction` is stated of a set instead, and follows from the well-foundedness
of the naturals.

*Vote* (`TypeCorrect`, `TallyCorrect`, `Executes`, `EarlyEndsAreFinal`). `TallyMatches` excepts the votes where a
client left its team twice, and is not inductive: it says nothing of who may still leave. `IInv`
adds that a counter never exceeds its side of the voters, also in those votes (`Tally`, from which
its upper bound follows); that everything is back at zero where the next vote can be called
(`Idle`); and that whoever has voted is still a member or is known to have left (`Marks`), so that
a client that comes back is not taken for a new voter. Each action adds one client to one side,
takes one from a side, takes one off a counter again (`twice`), or ends the vote; `Added`, `Taken`
and `ClearedInv` are the lemmas for these. The lower bound of a counter is the guard `Bounded` of
the model, as the code lets it fall with every rejoining. For `EarlyIsFinal` the counters of a vote
in which nobody left twice are the two sides (`TallyMatching`), and `Unchangeable` is the
arithmetic of the thresholds: what is over half, or can no longer get there, stays so whoever
votes. That nothing is due while a vote runs (part of `Executes`) makes the command that is set the
result of this vote.

*MapRotation* (`TypeCorrect`, `AlwaysAMap`, `Resumes`). Below the first limit a walk may do
anything. Beyond it only plain nodes are skipped, and `IInv` says how far the next map can be by
the count of nodes so far (`Distances` is what `MapsInReach` promises of each rotation): each step
brings it nearer by one, so that the second limit is not met. For `Resumes` it says that the place
kept for a rotation is the one after the node run last, but for the rotation that is being walked,
where it is the walk itself.

*LevelEnd* (`LevelTypeCorrect`, `PlayersWaitedFor`, `EndsOnce`, `LosersAreBeaten`). The rules run in
the middle of handlers and several times in a frame, and each time may end an intermission that the
last time began, so that an invariant of whole steps does not help. What the invariant says of a
level and its clients (`Shape`, `Timed`, `Noted`), and what each property promises of the end of a
step (`Waits`, `Stands`, `Lost`, which speak of the level and of `readySince` as they were before
it), are one predicate `Good` of the states in between. Every rule keeps it (`ExitGood`,
`BeginGood`, `LogGood`, `StartGood`, `ClearGood`), and so does every change of a client; the clients
of a frame follow one another by the same induction as in `SpawnQueue`. `PlayersWaitedFor` needs
that a timeout which runs began when somebody was ready who, or after whom somebody, still is
(`Timed`, `Settled`): whatever takes the last ready player away runs the rules, which clear it.
`LosersAreBeaten` needs that the count is not below what there is but for what was built since, and
that a team without a counted spawn gets no body in the same frame.

Not proved: liveness (`Connects`, `ClientPlays` and the other properties with `~>`), as fairness and
ENABLED are beyond the prover; it is model-checked only. All other properties of the passing runs are
proved.

## Not modelled

The components of `PROJECT.json` with status "not_modelled" say why. Most of the repository draws,
plays, reads files or computes geometry in floating point; its steps have no interleavings, or
none that a model without the numbers would tell apart. What could be modelled and is not, for the
next modules:

1. `BuildPoints`: pools, repeater zones and their queues (`g_main.cpp:1074`,
   `g_buildable.cpp:2472`: the power source is found while zones are summed, and the queue's time
   with more points queued than there are). Totals are kept, queues drain.
2. `Configstrings`: strings changed while a client loads are sent exactly once (`sv_init.cpp:108`,
   `sv_ccmds.cpp:175`).
3. `VoipQueue`, `LeakyBucket` (`sv_main.cpp:419`, `:500`), `BgAlloc` (`bg_alloc.cpp:148`),
   `EventQueue` (`common.cpp:1984`), `Cbuf` (`cmd.cpp:245`), `Cvar` (`cvar.cpp:300`): small
   modules, sequential for the most part.

Modules meant for proofs have no RECURSIVE operators.
