--------------------------- MODULE ServerClientProofs ---------------------------
(***************************************************************************)
(* Proofs about ServerClient for all bounds.                                *)
(*                                                                           *)
(* What a datagram counts of the commands of its sender is there to be       *)
(* executed (Queues); a message is only executed for a client that is        *)
(* connected (Flags); and a client that says it leaves has left (Goes).      *)
(*                                                                           *)
(* That user commands are made on the map that is played takes more (MInv):  *)
(* gamestates on their way come in order and are not older than the one that *)
(* is loaded; a server id that was given out since the map was loaded is     *)
(* only on gamestates, packets and configstrings of that map; and the server *)
(* takes a client to be downloading only while one is (Phases), and so lets  *)
(* no packet of another gamestate through that has user commands (Apart).    *)
(***************************************************************************)
EXTENDS ServerClient, TLAPS, SequenceTheorems

\* The variables that hold a value, or a number of something that is bounded.
Plain ==
    /\ sv_pure \in BOOLEAN /\ genuine \in BOOLEAN
    /\ gotCP \in BOOLEAN /\ pureAuthentic \in BOOLEAN
    /\ downloadName \in BOOLEAN /\ lastNextdl \in BOOLEAN
    /\ begun \in BOOLEAN /\ caught \in BOOLEAN
    /\ serverId \in 1 .. MaxServerId
    /\ restartedServerId \in 1 .. serverId
    /\ state \in State
    /\ blocks \in 0 .. MaxBlocks
    /\ connstate \in ConnState
    /\ clServerId \in ServerId /\ clMap \in ServerId
    /\ serverMessage \in Rank
    /\ snap \in {"none", "inactive", "active"}
    /\ download \in {"none", "active", "done"}
    /\ downloads \in 0 .. MaxDownloads
    /\ losses \in 0 .. MaxLosses

\* Datagrams that do not count more than n commands.
Counted(S, n) == {d \in S : d.count <= n}

\* The commands at both ends, and the datagrams that count them.
Queues ==
    /\ serverCommands \in Seq(ServerId)
    /\ clientCommands \in Seq(ClientCommand)
    /\ toClient \in Seq(Counted(Message, Len(serverCommands)))
    /\ toServer \in Seq(Counted(Packet, Len(clientCommands)))
    /\ received \in 0 .. Len(serverCommands)
    /\ current \in [count : 0 .. Len(clientCommands), move : BOOLEAN, map : ServerId]

\* What is there only for a client that is connected.
Flags ==
    /\ downloadName => Connected
    /\ gotCP /\ Connected => pureAuthentic
    /\ current # Nothing => Connected

\* A client that has said it leaves has left.
Goes ==
    \A i \in DOMAIN clientCommands :
        clientCommands[i].name = "disconnect" => connstate = "CA_DISCONNECTED"

IInv == Plain /\ Queues /\ Flags /\ Goes /\ ActiveHasBegun /\ GenuineStays

--------------------------------------------------------------------------------
(* Channels. *)

\* A channel whose sender has more commands than before is still in order.
LEMMA CountedGrows ==
    ASSUME NEW S, NEW n \in Nat, NEW m \in Nat, n <= m, NEW ch \in Seq(Counted(S, n)),
           \A d \in S : d.count \in Nat
    PROVE  ch \in Seq(Counted(S, m))
<1>1. Counted(S, n) \subseteq Counted(S, m)
  BY DEF Counted
<1>. QED
  BY <1>1, SeqMonotonic

\* Datagrams have a natural number of commands.
LEMMA CountsNat ==
    /\ \A d \in Message : d.count \in Nat
    /\ \A d \in Packet : d.count \in Nat
BY DEF Message, Packet

\* After n commands were executed, no datagram counts more than those that are left.
LEMMA ExecutedCounted ==
    ASSUME NEW S \in {Message, Packet}, NEW n \in Nat, NEW k \in Nat, k <= n,
           NEW ch \in Seq(Counted(S, n))
    PROVE  Executed(ch, k) \in Seq(Counted(S, n - k))
<1>1. DOMAIN ch = 1 .. Len(ch) /\ Len(ch) \in Nat
  OBVIOUS
<1>2. ASSUME NEW i \in 1 .. Len(ch)
      PROVE  [ch[i] EXCEPT !.count = IF @ > k THEN @ - k ELSE 0] \in Counted(S, n - k)
  <2>1. ch[i] \in S /\ ch[i].count \in Nat /\ ch[i].count <= n
    BY CountsNat DEF Counted
  <2>2. PICK d : d = ch[i]
    OBVIOUS
  <2>3. PICK c \in Nat : c = IF d.count > k THEN d.count - k ELSE 0
    BY <2>1, <2>2
  <2>4. c <= n - k
    BY <2>1, <2>2, <2>3
  <2>5. [d EXCEPT !.count = c] \in S /\ [d EXCEPT !.count = c].count = c
    <3>1. CASE S = Message
      BY <2>1, <2>2, <2>3, <3>1 DEF Message
    <3>2. CASE S = Packet
      BY <2>1, <2>2, <2>3, <3>2 DEF Packet
    <3>. QED
      BY <3>1, <3>2
  <2>. QED
    BY <2>2, <2>3, <2>4, <2>5 DEF Counted
<1>. QED
  BY <1>1, <1>2 DEF Executed

\* The ranks of a channel can be anything.
LEMMA RankedCounted ==
    ASSUME NEW n \in Nat
    PROVE  /\ \A ch \in Seq(Counted(Message, n)) :
                [i \in DOMAIN ch |-> [ch[i] EXCEPT !.rank = Before]] \in Seq(Counted(Message, n))
           /\ \A ch \in Seq(Counted(Packet, n)) :
                [i \in DOMAIN ch |-> [ch[i] EXCEPT !.ack = Before]] \in Seq(Counted(Packet, n))
<1>1. ASSUME NEW d \in Counted(Message, n)
      PROVE  [d EXCEPT !.rank = Before] \in Counted(Message, n)
  BY DEF Counted, Message, Rank
<1>2. ASSUME NEW d \in Counted(Packet, n)
      PROVE  [d EXCEPT !.ack = Before] \in Counted(Packet, n)
  BY DEF Counted, Packet, Rank
<1>3. ASSUME NEW ch \in Seq(Counted(Message, n))
      PROVE  [i \in DOMAIN ch |-> [ch[i] EXCEPT !.rank = Before]] \in Seq(Counted(Message, n))
  BY <1>1
<1>4. ASSUME NEW ch \in Seq(Counted(Packet, n))
      PROVE  [i \in DOMAIN ch |-> [ch[i] EXCEPT !.ack = Before]] \in Seq(Counted(Packet, n))
  BY <1>2
<1>. QED
  BY <1>3, <1>4

\* A channel that loses a datagram.
LEMMA RemoveAtSeq ==
    ASSUME NEW S, NEW s \in Seq(S), NEW i \in DOMAIN s
    PROVE  RemoveAt(s, i) \in Seq(S)
<1>1. i \in 1 .. Len(s) /\ Len(s) \in Nat
  OBVIOUS
<1>2. SubSeq(s, 1, i - 1) \in Seq(S)
  <2>1. \A j \in 1 .. i - 1 : s[j] \in S
    BY <1>1
  <2>2. 1 \in Int /\ i - 1 \in Int
    BY <1>1
  <2>. QED
    BY <2>1, <2>2, SubSeqProperties
<1>3. SubSeq(s, i + 1, Len(s)) \in Seq(S)
  <2>1. \A j \in i + 1 .. Len(s) : s[j] \in S
    BY <1>1
  <2>2. i + 1 \in Int /\ Len(s) \in Int
    BY <1>1
  <2>. QED
    BY <2>1, <2>2, SubSeqProperties
<1>. QED
  BY <1>2, <1>3, ConcatProperties DEF RemoveAt

--------------------------------------------------------------------------------
(* Parts of the server's handlers. *)

\* SV_SendClientGameState: rest keeps its commands.
LEMMA GameStateQueues ==
    ASSUME IInv, NEW n \in Nat, NEW rest \in Seq(Counted(Packet, n)), SendGameState(rest)
    PROVE  /\ toClient' \in Seq(Counted(Message, Len(serverCommands)))
           /\ toServer' \in Seq(Counted(Packet, n))
           /\ state' = "CS_PRIMED" /\ gotCP' = FALSE /\ pureAuthentic' = FALSE
           /\ serverMessage' \in Rank
<1>1. toClient \in Seq(Counted(Message, Len(serverCommands))) /\ Len(serverCommands) \in Nat
  BY DEF IInv, Queues
<1>2. PICK ranked, gamestate :
        /\ ranked = [i \in DOMAIN toClient |-> [toClient[i] EXCEPT !.rank = Before]]
        /\ gamestate = [type |-> "gamestate", rank |-> It, count |-> Len(serverCommands),
                        serverId |-> serverId, map |-> restartedServerId, active |-> FALSE]
  OBVIOUS
<1>3. ranked \in Seq(Counted(Message, Len(serverCommands)))
  BY <1>1, <1>2, RankedCounted
<1>4. serverId \in ServerId /\ restartedServerId \in ServerId
  BY ConstantsAssumption DEF IInv, Plain, ServerId
<1>5. gamestate \in Counted(Message, Len(serverCommands))
  BY <1>1, <1>2, <1>4 DEF Counted, Message, Rank
<1>6. toClient' = Append(ranked, gamestate)
  BY <1>2 DEF SendGameState
<1>7. toClient' \in Seq(Counted(Message, Len(serverCommands)))
  BY <1>3, <1>5, <1>6, AppendProperties
<1>8. toServer' \in Seq(Counted(Packet, n))
  BY RankedCounted DEF SendGameState
<1>. QED
  BY <1>7, <1>8 DEF SendGameState, Rank

\* SV_DropClient: perhaps the client is told.
LEMMA ToldQueues ==
    ASSUME IInv, NEW b,
           serverCommands' = IF b THEN serverCommands ELSE Append(serverCommands, 0)
    PROVE  /\ serverCommands' \in Seq(ServerId)
           /\ Len(serverCommands') \in Nat /\ Len(serverCommands) <= Len(serverCommands')
<1>1. 0 \in ServerId
  BY ConstantsAssumption DEF ServerId
<1>2. serverCommands \in Seq(ServerId) /\ Len(serverCommands) \in Nat
  BY DEF IInv, Queues
<1>3. CASE b
  BY <1>2, <1>3
<1>4. CASE ~b
  BY <1>1, <1>2, <1>4, AppendProperties
<1>. QED
  BY <1>3, <1>4

\* More commands for the client than before: all that counts them is still in order.
LEMMA MoreForClient ==
    ASSUME IInv, serverCommands' \in Seq(ServerId), Len(serverCommands) <= Len(serverCommands')
    PROVE  /\ toClient \in Seq(Counted(Message, Len(serverCommands')))
           /\ received \in 0 .. Len(serverCommands')
<1>1. /\ Len(serverCommands) \in Nat /\ Len(serverCommands') \in Nat
      /\ toClient \in Seq(Counted(Message, Len(serverCommands)))
      /\ received \in 0 .. Len(serverCommands)
  BY DEF IInv, Queues
<1>2. received \in 0 .. Len(serverCommands')
  BY <1>1
<1>3. toClient \in Seq(Counted(Message, Len(serverCommands')))
  BY <1>1, CountsNat, CountedGrows
<1>. QED
  BY <1>2, <1>3

\* SV_ClientCommand: one command less is left, here and in the datagrams.
LEMMA CommandQueues ==
    ASSUME IInv, NEW name, NextCommand(name), SV_ClientCommand
    PROVE  /\ Connected
           /\ Len(clientCommands') \in Nat
           /\ clientCommands' \in Seq(ClientCommand)
           /\ Executed(toServer, 1) \in Seq(Counted(Packet, Len(clientCommands')))
           /\ current' \in [count : 0 .. Len(clientCommands'), move : BOOLEAN, map : ServerId]
           /\ state' = "CS_ZOMBIE" => current' = Nothing
           /\ Goes'
           /\ Head(clientCommands) \in ClientCommand
           /\ Head(clientCommands).name = "disconnect" => connstate = "CA_DISCONNECTED"
           /\ blocks' \in 0 .. MaxBlocks /\ lastNextdl' \in BOOLEAN
<1>1. /\ clientCommands \in Seq(ClientCommand)
      /\ toServer \in Seq(Counted(Packet, Len(clientCommands)))
      /\ current \in [count : 0 .. Len(clientCommands), move : BOOLEAN, map : ServerId]
      /\ current.count > 0
  BY DEF IInv, Queues, NextCommand
<1>2. PICK n \in Nat : n = Len(clientCommands) /\ n >= 1 /\ current.count \in 1 .. n
  BY <1>1
<1>3. clientCommands # <<>>
  BY <1>1, <1>2
<1>4. /\ clientCommands' = Tail(clientCommands)
      /\ clientCommands' \in Seq(ClientCommand) /\ Len(clientCommands') = n - 1
      /\ \A i \in 1 .. n - 1 : clientCommands'[i] = clientCommands[i + 1]
      /\ Head(clientCommands) = clientCommands[1]
  <2>1. clientCommands' = Tail(clientCommands)
    BY DEF SV_ClientCommand
  <2>. QED
    BY <1>1, <1>2, <1>3, <2>1, HeadTailProperties
<1>5. Executed(toServer, 1) \in Seq(Counted(Packet, n - 1))
  BY <1>1, <1>2, ExecutedCounted
<1>6. current' \in [count : 0 .. n - 1, move : BOOLEAN, map : ServerId]
  <2>1. 0 \in ServerId
    BY ConstantsAssumption DEF ServerId
  <2>2. Nothing \in [count : 0 .. n - 1, move : BOOLEAN, map : ServerId]
    BY <1>2, <2>1 DEF Nothing, Rest
  <2>3. Rest(current.count - 1, current.move, current.map)
          \in [count : 0 .. n - 1, move : BOOLEAN, map : ServerId]
    <3>1. current.count - 1 \in 0 .. n - 1
      BY <1>2
    <3>2. PICK k : k = current.count - 1
      OBVIOUS
    <3>. QED
      BY <1>1, <2>1, <3>1, <3>2 DEF Rest
  <2>. QED
    BY <2>2, <2>3 DEF SV_ClientCommand
<1>7. connstate' = connstate
  BY DEF SV_ClientCommand
<1>8. Goes'
  <2>1. \A i \in 1 .. n - 1 : i + 1 \in DOMAIN clientCommands
    BY <1>1, <1>2
  <2>2. DOMAIN clientCommands' = 1 .. n - 1
    BY <1>4
  <2>. QED
    BY <1>4, <1>7, <2>1, <2>2 DEF IInv, Goes
<1>9. Connected
  <2>1. current # Nothing
    BY <1>1 DEF Nothing, Rest
  <2>. QED
    BY <2>1 DEF IInv, Flags
<1>10. Head(clientCommands).name = "disconnect" => connstate = "CA_DISCONNECTED"
  BY <1>1, <1>2, <1>4 DEF IInv, Goes
<1>11. blocks' \in 0 .. MaxBlocks /\ lastNextdl' \in BOOLEAN
  BY ConstantsAssumption DEF SV_ClientCommand, IInv, Plain
<1>12. Head(clientCommands) \in ClientCommand
  BY <1>1, <1>2, <1>4
<1>. QED
  BY <1>2, <1>4, <1>5, <1>6, <1>8, <1>9, <1>10, <1>11, <1>12 DEF SV_ClientCommand

--------------------------------------------------------------------------------
(* The server executes a message. *)

LEMMA ExecuteClientMessageInv ==
    ASSUME IInv, SV_ExecuteClientMessage
    PROVE  IInv'
<1>1. PICK p : p = Head(toServer)
  OBVIOUS
<1>2. PICK rest : rest = Tail(toServer)
  OBVIOUS
<1>3. PICK n \in Nat : n = Len(clientCommands)
  BY DEF IInv, Queues
<1>4. p \in Counted(Packet, n) /\ rest \in Seq(Counted(Packet, n))
  <2>1. toServer \in Seq(Counted(Packet, n)) /\ toServer # <<>>
    BY <1>3 DEF IInv, Queues, SV_ExecuteClientMessage
  <2>. QED
    BY <1>1, <1>2, <2>1, HeadTailProperties
<1>5. CASE /\ toServer' = rest
           /\ UNCHANGED <<sv, state, slot, current, client, toClient, serverCommands, genuine,
                          losses, history>>
  <2>1. Plain'
    BY <1>5 DEF IInv, Plain, sv, slot, client, history
  <2>2. Queues'
    BY <1>3, <1>4, <1>5 DEF IInv, Queues, client
  <2>3. Flags' /\ Goes' /\ ActiveHasBegun' /\ GenuineStays'
    BY <1>5 DEF IInv, Flags, Goes, ActiveHasBegun, GenuineStays, Connected, slot, client, history
  <2>. QED
    BY <2>1, <2>2, <2>3 DEF IInv
<1>6. CASE /\ Connected
           /\ SendGameState(rest)
           /\ UNCHANGED <<downloadName, blocks, lastNextdl, current, connstate, clServerId, clMap,
                          clientCommands, received, snap, download, downloads>>
           /\ UNCHANGED <<sv, serverCommands, genuine, losses, history>>
  <2>1. /\ toClient' \in Seq(Counted(Message, Len(serverCommands)))
        /\ toServer' \in Seq(Counted(Packet, n))
        /\ state' = "CS_PRIMED" /\ gotCP' = FALSE /\ pureAuthentic' = FALSE
        /\ serverMessage' \in Rank
    BY <1>4, <1>6, GameStateQueues
  <2>2. Plain'
    BY <1>6, <2>1 DEF IInv, Plain, sv, history, State
  <2>3. Queues'
    BY <1>3, <1>6, <2>1 DEF IInv, Queues
  <2>4. Flags' /\ Goes' /\ ActiveHasBegun' /\ GenuineStays'
    BY <1>6, <2>1 DEF IInv, Flags, Goes, ActiveHasBegun, GenuineStays, Connected
  <2>. QED
    BY <2>2, <2>3, <2>4 DEF IInv
<1>7. CASE /\ Connected
           /\ toServer' = rest
           /\ current' = Rest(p.count, p.move, p.map)
           /\ UNCHANGED <<state, slot, client, toClient>>
           /\ UNCHANGED <<sv, serverCommands, genuine, losses, history>>
  <2>1. Plain'
    BY <1>7 DEF IInv, Plain, sv, slot, client, history
  <2>2. current' \in [count : 0 .. n, move : BOOLEAN, map : ServerId]
    <3>1. p.count \in 0 .. n /\ p.move \in BOOLEAN /\ p.map \in ServerId
      BY <1>3, <1>4 DEF Counted, Packet
    <3>2. 0 \in ServerId
      BY ConstantsAssumption DEF ServerId
    <3>. QED
      BY <1>7, <3>1, <3>2 DEF Rest
  <2>3. Queues'
    BY <1>3, <1>4, <1>7, <2>2 DEF IInv, Queues, client
  <2>4. Flags' /\ Goes' /\ ActiveHasBegun' /\ GenuineStays'
    BY <1>7 DEF IInv, Flags, Goes, ActiveHasBegun, GenuineStays, Connected, slot, client, history
  <2>. QED
    BY <2>1, <2>3, <2>4 DEF IInv
<1>. QED
  BY <1>1, <1>2, <1>5, <1>6, <1>7 DEF SV_ExecuteClientMessage

LEMMA VerifyPaksInv ==
    ASSUME IInv, SV_VerifyPaks_f
    PROVE  IInv'
<1>1. /\ Connected
      /\ Len(clientCommands') \in Nat
      /\ clientCommands' \in Seq(ClientCommand)
      /\ Executed(toServer, 1) \in Seq(Counted(Packet, Len(clientCommands')))
      /\ current' \in [count : 0 .. Len(clientCommands'), move : BOOLEAN, map : ServerId]
      /\ state' = "CS_ZOMBIE" => current' = Nothing
      /\ Goes'
      /\ blocks' \in 0 .. MaxBlocks /\ lastNextdl' \in BOOLEAN
  BY CommandQueues DEF SV_VerifyPaks_f
<1>2. /\ UNCHANGED <<sv, connstate, clServerId, clMap, received, snap, download, downloads,
                     genuine, losses, serverMessage>>
      /\ toServer' = Executed(toServer, 1)
  BY DEF SV_VerifyPaks_f, SV_ClientCommand
<1>3. CASE UNCHANGED <<state, gotCP, pureAuthentic, downloadName, serverCommands, toClient, history>>
  <2>1. Plain'
    BY <1>1, <1>2, <1>3 DEF IInv, Plain, sv, history
  <2>2. Queues'
    BY <1>1, <1>2, <1>3 DEF IInv, Queues
  <2>3. Flags' /\ ActiveHasBegun' /\ GenuineStays'
    BY <1>1, <1>2, <1>3 DEF IInv, Flags, ActiveHasBegun, GenuineStays, Connected, history
  <2>. QED
    BY <1>1, <2>1, <2>2, <2>3 DEF IInv
<1>4. CASE /\ gotCP' = TRUE /\ pureAuthentic' = TRUE
           /\ UNCHANGED <<state, downloadName, serverCommands, toClient, history>>
  <2>1. Plain'
    BY <1>1, <1>2, <1>4 DEF IInv, Plain, sv, history
  <2>2. Queues'
    BY <1>1, <1>2, <1>4 DEF IInv, Queues
  <2>3. Flags' /\ ActiveHasBegun' /\ GenuineStays'
    BY <1>1, <1>2, <1>4 DEF IInv, Flags, ActiveHasBegun, GenuineStays, Connected, history
  <2>. QED
    BY <1>1, <2>1, <2>2, <2>3 DEF IInv
<1>5. CASE /\ ~OutdatedChecksums(Head(clientCommands))
           /\ gotCP' = TRUE
           /\ ~GoodChecksums(Head(clientCommands))
           /\ pureAuthentic' = FALSE
           /\ toClient' = Append(toClient, Snapshot(TRUE))
           /\ state' = "CS_ZOMBIE"
           /\ begun' = FALSE
           /\ serverCommands' = serverCommands \o <<0, 0>>
           /\ downloadName' = FALSE
           /\ UNCHANGED caught
  <2>1. Plain'
    BY <1>1, <1>2, <1>5 DEF IInv, Plain, sv, State
  <2>2. /\ serverCommands' \in Seq(ServerId)
        /\ Len(serverCommands') \in Nat /\ Len(serverCommands) <= Len(serverCommands')
    <3>1. 0 \in ServerId
      BY ConstantsAssumption DEF ServerId
    <3>2. serverCommands \in Seq(ServerId) /\ Len(serverCommands) \in Nat
      BY DEF IInv, Queues
    <3>3. <<0, 0>> \in Seq(ServerId) /\ Len(<<0, 0>>) = 2
      BY <3>1
    <3>. QED
      BY <1>5, <3>2, <3>3, ConcatProperties
  <2>3. /\ toClient \in Seq(Counted(Message, Len(serverCommands')))
        /\ received \in 0 .. Len(serverCommands')
    BY <2>2, MoreForClient
  <2>4. Snapshot(TRUE) \in Counted(Message, Len(serverCommands'))
    <3>1. 0 \in ServerId
      BY ConstantsAssumption DEF ServerId
    <3>2. Len(serverCommands) \in Nat
      BY DEF IInv, Queues
    <3>. QED
      BY <2>2, <3>1, <3>2 DEF Snapshot, Counted, Message, Rank
  <2>5. toClient' \in Seq(Counted(Message, Len(serverCommands')))
    BY <1>5, <2>3, <2>4, AppendProperties
  <2>6. Queues'
    BY <1>1, <1>2, <2>2, <2>3, <2>5 DEF Queues
  <2>7. ~genuine
    <3>1. Head(clientCommands).serverId \in Int /\ restartedServerId \in Int
      <4>1. Head(clientCommands) \in ClientCommand
        BY CommandQueues DEF SV_VerifyPaks_f
      <4>. QED
        BY <4>1 DEF ClientCommand, ServerId, IInv, Plain
    <3>. QED
      BY <1>5, <3>1 DEF OutdatedChecksums, GoodChecksums
  <2>8. Flags' /\ ActiveHasBegun' /\ GenuineStays'
    BY <1>1, <1>2, <1>5, <2>7 DEF Flags, ActiveHasBegun, GenuineStays, Connected
  <2>. QED
    BY <1>1, <2>1, <2>6, <2>8 DEF IInv
<1>. QED
  BY <1>3, <1>4, <1>5 DEF SV_VerifyPaks_f

LEMMA BeginStopDownloadInv ==
    ASSUME IInv, SV_BeginDownload_f \/ SV_StopDownload_f
    PROVE  IInv'
<1>1. PICK name : NextCommand(name) /\ SV_ClientCommand
  BY DEF SV_BeginDownload_f, SV_StopDownload_f
<1>2. /\ Connected
      /\ Len(clientCommands') \in Nat
      /\ clientCommands' \in Seq(ClientCommand)
      /\ Executed(toServer, 1) \in Seq(Counted(Packet, Len(clientCommands')))
      /\ current' \in [count : 0 .. Len(clientCommands'), move : BOOLEAN, map : ServerId]
      /\ Goes'
      /\ blocks' \in 0 .. MaxBlocks /\ lastNextdl' \in BOOLEAN
  BY <1>1, CommandQueues
<1>3. /\ UNCHANGED <<sv, connstate, clServerId, clMap, received, snap, download, downloads,
                     genuine, losses>>
      /\ UNCHANGED <<state, gotCP, pureAuthentic, serverCommands, serverMessage, toClient, history>>
      /\ toServer' = Executed(toServer, 1)
      /\ downloadName' \in BOOLEAN
  BY DEF SV_BeginDownload_f, SV_StopDownload_f, SV_ClientCommand
<1>4. Plain'
  BY <1>2, <1>3 DEF IInv, Plain, sv, history
<1>5. Queues'
  BY <1>2, <1>3 DEF IInv, Queues
<1>6. Flags' /\ ActiveHasBegun' /\ GenuineStays'
  BY <1>2, <1>3 DEF IInv, Flags, ActiveHasBegun, GenuineStays, Connected, history
<1>. QED
  BY <1>2, <1>4, <1>5, <1>6 DEF IInv

LEMMA DoneDownloadInv ==
    ASSUME IInv, SV_DoneDownload_f
    PROVE  IInv'
<1>1. /\ Connected
      /\ Len(clientCommands') \in Nat
      /\ clientCommands' \in Seq(ClientCommand)
      /\ Executed(toServer, 1) \in Seq(Counted(Packet, Len(clientCommands')))
      /\ current' \in [count : 0 .. Len(clientCommands'), move : BOOLEAN, map : ServerId]
      /\ Goes'
      /\ blocks' \in 0 .. MaxBlocks /\ lastNextdl' \in BOOLEAN
  BY CommandQueues DEF SV_DoneDownload_f
<1>2. UNCHANGED <<sv, connstate, clServerId, clMap, received, snap, download, downloads,
                  genuine, losses, downloadName, serverCommands, history>>
  BY DEF SV_DoneDownload_f, SV_ClientCommand
<1>3. CASE /\ toServer' = Executed(toServer, 1)
           /\ UNCHANGED <<state, gotCP, pureAuthentic, serverMessage, toClient>>
  <2>1. Plain'
    BY <1>1, <1>2, <1>3 DEF IInv, Plain, sv, history
  <2>2. Queues'
    BY <1>1, <1>2, <1>3 DEF IInv, Queues
  <2>3. Flags' /\ ActiveHasBegun' /\ GenuineStays'
    BY <1>1, <1>2, <1>3 DEF IInv, Flags, ActiveHasBegun, GenuineStays, Connected, history
  <2>. QED
    BY <1>1, <2>1, <2>2, <2>3 DEF IInv
<1>4. CASE SendGameState(Executed(toServer, 1))
  <2>1. /\ toClient' \in Seq(Counted(Message, Len(serverCommands)))
        /\ toServer' \in Seq(Counted(Packet, Len(clientCommands')))
        /\ state' = "CS_PRIMED" /\ gotCP' = FALSE /\ pureAuthentic' = FALSE
        /\ serverMessage' \in Rank
    BY <1>1, <1>4, GameStateQueues
  <2>2. Plain'
    BY <1>1, <1>2, <2>1 DEF IInv, Plain, sv, history, State
  <2>3. Queues'
    BY <1>1, <1>2, <2>1 DEF IInv, Queues
  <2>4. Flags' /\ ActiveHasBegun' /\ GenuineStays'
    BY <1>1, <1>2, <2>1 DEF IInv, Flags, ActiveHasBegun, GenuineStays, Connected
  <2>. QED
    BY <1>1, <2>2, <2>3, <2>4 DEF IInv
<1>. QED
  BY <1>3, <1>4 DEF SV_DoneDownload_f

LEMMA DisconnectCommandInv ==
    ASSUME IInv, SV_Disconnect_f
    PROVE  IInv'
<1>1. /\ Connected
      /\ Len(clientCommands') \in Nat
      /\ clientCommands' \in Seq(ClientCommand)
      /\ Executed(toServer, 1) \in Seq(Counted(Packet, Len(clientCommands')))
      /\ current' \in [count : 0 .. Len(clientCommands'), move : BOOLEAN, map : ServerId]
      /\ state' = "CS_ZOMBIE" => current' = Nothing
      /\ Goes'
      /\ Head(clientCommands).name = "disconnect" => connstate = "CA_DISCONNECTED"
      /\ blocks' \in 0 .. MaxBlocks /\ lastNextdl' \in BOOLEAN
  BY CommandQueues DEF SV_Disconnect_f
<1>2. /\ UNCHANGED <<sv, connstate, clServerId, clMap, received, snap, download, downloads,
                     genuine, losses, gotCP, pureAuthentic, serverMessage, toClient, caught>>
      /\ toServer' = Executed(toServer, 1)
      /\ state' = "CS_ZOMBIE" /\ begun' = FALSE /\ downloadName' = FALSE
      /\ serverCommands' = IF state = "CS_CONNECTED" THEN serverCommands ELSE Append(serverCommands, 0)
      /\ connstate = "CA_DISCONNECTED"
  BY <1>1 DEF SV_Disconnect_f, SV_ClientCommand, Drop, NextCommand
<1>3. Plain'
  BY <1>1, <1>2 DEF IInv, Plain, sv, State
<1>4. Queues'
  <2>1. /\ serverCommands' \in Seq(ServerId)
        /\ Len(serverCommands') \in Nat /\ Len(serverCommands) <= Len(serverCommands')
    BY <1>2, ToldQueues
  <2>2. /\ toClient \in Seq(Counted(Message, Len(serverCommands')))
        /\ received \in 0 .. Len(serverCommands')
    BY <2>1, MoreForClient
  <2>. QED
    BY <1>1, <1>2, <2>1, <2>2 DEF Queues
<1>5. Flags' /\ ActiveHasBegun' /\ GenuineStays'
  BY <1>1, <1>2 DEF Flags, ActiveHasBegun, GenuineStays, Connected
<1>. QED
  BY <1>1, <1>3, <1>4, <1>5 DEF IInv

LEMMA UserMoveInv ==
    ASSUME IInv, SV_UserMove
    PROVE  IInv'
<1>1. /\ UNCHANGED <<sv, downloadName, blocks, lastNextdl, connstate, clServerId, clMap,
                     clientCommands, received, snap, download, downloads, genuine, losses,
                     serverCommands>>
      /\ current' = Nothing /\ current # Nothing
  BY DEF SV_UserMove, Nothing, Rest
<1>2. Connected
  BY <1>1 DEF IInv, Flags
<1>3. PICK n \in Nat : n = Len(clientCommands)
  BY DEF IInv, Queues
<1>4. Nothing \in [count : 0 .. n, move : BOOLEAN, map : ServerId]
  BY ConstantsAssumption DEF Nothing, Rest, ServerId
<1>5. CASE SendGameState(toServer) /\ UNCHANGED history
  <2>1. /\ toClient' \in Seq(Counted(Message, Len(serverCommands)))
        /\ toServer' \in Seq(Counted(Packet, n))
        /\ state' = "CS_PRIMED" /\ gotCP' = FALSE /\ pureAuthentic' = FALSE
        /\ serverMessage' \in Rank
    <3>1. toServer \in Seq(Counted(Packet, n))
      BY <1>3 DEF IInv, Queues
    <3>. QED
      BY <1>5, <3>1, GameStateQueues
  <2>2. Plain'
    BY <1>1, <1>5, <2>1 DEF IInv, Plain, sv, history, State
  <2>3. Queues'
    BY <1>1, <1>3, <1>4, <2>1 DEF IInv, Queues
  <2>4. Flags' /\ Goes' /\ ActiveHasBegun' /\ GenuineStays'
    BY <1>1, <1>2, <2>1 DEF IInv, Flags, Goes, ActiveHasBegun, GenuineStays, Connected
  <2>. QED
    BY <2>2, <2>3, <2>4 DEF IInv
<1>6. CASE /\ UNCHANGED <<gotCP, pureAuthentic, serverMessage, toClient, toServer, caught>>
           /\ \/ UNCHANGED <<state, begun>>
              \/ /\ state' = IF state = "CS_PRIMED" THEN "CS_ACTIVE" ELSE state
                 /\ begun' = (begun \/ state = "CS_PRIMED")
  <2>1. Plain'
    <3>1. begun' \in BOOLEAN /\ state' \in State
      BY <1>6 DEF IInv, Plain, State
    <3>. QED
      BY <1>1, <1>6, <3>1 DEF IInv, Plain, sv
  <2>2. Queues'
    BY <1>1, <1>3, <1>4, <1>6 DEF IInv, Queues
  <2>3. Connected'
    BY <1>2, <1>6 DEF Connected
  <2>4. Flags' /\ Goes' /\ GenuineStays'
    BY <1>1, <1>2, <1>6, <2>3 DEF IInv, Flags, Goes, GenuineStays
  <2>5. ActiveHasBegun'
    BY <1>6 DEF IInv, ActiveHasBegun
  <2>. QED
    BY <2>1, <2>2, <2>4, <2>5 DEF IInv
<1>. QED
  BY <1>5, <1>6 DEF SV_UserMove, history

--------------------------------------------------------------------------------
(* The server's frames and operator commands. *)

LEMMA SendInv ==
    ASSUME IInv, SV_SendClientSnapshot \/ SV_SendDownloadMessages
    PROVE  IInv'
<1>1. PICK m : m \in Counted(Message, Len(serverCommands)) /\ toClient' = Append(toClient, m)
  <2>1. 0 \in ServerId /\ Len(serverCommands) \in Nat
    BY ConstantsAssumption DEF ServerId, IInv, Queues
  <2>2. Snapshot(state = "CS_ACTIVE") \in Counted(Message, Len(serverCommands))
    BY <2>1 DEF Snapshot, Counted, Message, Rank
  <2>3. [type |-> "download", rank |-> Later, count |-> 0, serverId |-> 0, map |-> 0,
         active |-> FALSE] \in Counted(Message, Len(serverCommands))
    BY <2>1 DEF Counted, Message, Rank
  <2>. QED
    BY <2>2, <2>3 DEF SV_SendClientSnapshot, SV_SendDownloadMessages
<1>2. /\ UNCHANGED <<sv, state, gotCP, pureAuthentic, downloadName, lastNextdl, current,
                     serverCommands, client, genuine, toServer, losses, history>>
      /\ blocks' \in 0 .. MaxBlocks
  BY ConstantsAssumption DEF SV_SendClientSnapshot, SV_SendDownloadMessages, slot, IInv, Plain
<1>3. Plain'
  BY <1>2 DEF IInv, Plain, sv, client, history
<1>4. Queues'
  <2>1. toClient' \in Seq(Counted(Message, Len(serverCommands)))
    BY <1>1, AppendProperties DEF IInv, Queues
  <2>. QED
    BY <1>2, <2>1 DEF IInv, Queues, client
<1>5. Flags' /\ Goes' /\ ActiveHasBegun' /\ GenuineStays'
  BY <1>2 DEF IInv, Flags, Goes, ActiveHasBegun, GenuineStays, Connected, client, history
<1>. QED
  BY <1>3, <1>4, <1>5 DEF IInv

LEMMA SpawnServerInv ==
    ASSUME IInv, SV_SpawnServer
    PROVE  IInv'
<1>1. UNCHANGED <<sv_pure, slot, current, serverCommands, client, genuine, network, caught>>
  BY DEF SV_SpawnServer
<1>2. /\ serverId' \in 1 .. MaxServerId /\ restartedServerId' \in 1 .. serverId'
      /\ state' = IF Connected THEN "CS_CONNECTED" ELSE state
      /\ begun' = FALSE
  BY ConstantsAssumption DEF SV_SpawnServer, IInv, Plain
<1>3. Connected' <=> Connected
  BY <1>2 DEF Connected
<1>4. Plain'
  <2>1. state' \in State /\ begun' \in BOOLEAN
    BY <1>2 DEF IInv, Plain, State
  <2>. QED
    BY <1>1, <1>2, <2>1 DEF IInv, Plain, slot, client, network
<1>5. Queues'
  BY <1>1 DEF IInv, Queues, client, network
<1>6. ActiveHasBegun'
  BY <1>2 DEF ActiveHasBegun, Connected
<1>7. Flags' /\ Goes' /\ GenuineStays'
  BY <1>1, <1>3 DEF IInv, Flags, Goes, GenuineStays, slot, client
<1>. QED
  BY <1>4, <1>5, <1>6, <1>7 DEF IInv

LEMMA MapRestartInv ==
    ASSUME IInv, SV_MapRestart_f
    PROVE  IInv'
<1>1. UNCHANGED <<sv_pure, restartedServerId, slot, current, client, genuine, network>>
  BY DEF SV_MapRestart_f
<1>2. serverId' \in 1 .. MaxServerId /\ restartedServerId' \in 1 .. serverId'
  BY ConstantsAssumption DEF SV_MapRestart_f, IInv, Plain
<1>3. CASE ~Connected /\ UNCHANGED <<state, serverCommands, history>>
  <2>1. Plain'
    BY <1>1, <1>2, <1>3 DEF IInv, Plain, slot, client, network, history
  <2>2. Queues'
    BY <1>1, <1>3 DEF IInv, Queues, client, network
  <2>3. Flags' /\ Goes' /\ ActiveHasBegun' /\ GenuineStays'
    BY <1>1, <1>3 DEF IInv, Flags, Goes, ActiveHasBegun, GenuineStays, Connected, slot, client,
                      history
  <2>. QED
    BY <2>1, <2>2, <2>3 DEF IInv
<1>4. CASE /\ Connected
           /\ state' = "CS_ACTIVE"
           /\ serverCommands' = Append(serverCommands, serverId')
           /\ begun' = TRUE
           /\ caught' = (caught \/ state # "CS_ACTIVE")
  <2>1. Plain'
    <3>1. caught' \in BOOLEAN /\ state' \in State
      BY <1>4 DEF IInv, Plain, State
    <3>. QED
      BY <1>1, <1>2, <1>4, <3>1 DEF IInv, Plain, slot, client, network
  <2>2. /\ serverCommands' \in Seq(ServerId)
        /\ Len(serverCommands') \in Nat /\ Len(serverCommands) <= Len(serverCommands')
    <3>1. serverId' \in ServerId
      BY <1>2, ConstantsAssumption DEF ServerId
    <3>2. serverCommands \in Seq(ServerId) /\ Len(serverCommands) \in Nat
      BY DEF IInv, Queues
    <3>. QED
      BY <1>4, <3>1, <3>2, AppendProperties
  <2>3. /\ toClient \in Seq(Counted(Message, Len(serverCommands')))
        /\ received \in 0 .. Len(serverCommands')
    BY <2>2, MoreForClient
  <2>4. Queues'
    BY <1>1, <2>2, <2>3 DEF IInv, Queues, client, network
  <2>5. Flags' /\ Goes' /\ ActiveHasBegun' /\ GenuineStays'
    BY <1>1, <1>4 DEF IInv, Flags, Goes, ActiveHasBegun, GenuineStays, Connected, slot, client
  <2>. QED
    BY <2>1, <2>4, <2>5 DEF IInv
<1>. QED
  BY <1>3, <1>4 DEF SV_MapRestart_f

LEMMA CheckTimeoutsInv ==
    ASSUME IInv, SV_CheckTimeouts
    PROVE  IInv'
<1>1. /\ UNCHANGED <<sv, gotCP, pureAuthentic, blocks, lastNextdl, current, client, genuine,
                     network, caught>>
      /\ current = Nothing /\ state' = "CS_FREE"
  BY DEF SV_CheckTimeouts, Ready
<1>2. /\ ~Connected'
      /\ downloadName' = FALSE
      /\ begun' \in BOOLEAN
      /\ genuine => connstate = "CA_DISCONNECTED"
  <2>1. CASE state = "CS_ZOMBIE" /\ UNCHANGED <<begun, serverCommands, downloadName>>
    <3>1. ~Connected
      BY <2>1 DEF Connected
    <3>. QED
      BY <1>1, <2>1, <3>1 DEF IInv, Plain, Flags, GenuineStays, Connected
  <2>2. CASE connstate = "CA_DISCONNECTED" /\ begun' = FALSE /\ downloadName' = FALSE
    BY <1>1, <2>2 DEF Connected
  <2>. QED
    BY <2>1, <2>2 DEF SV_CheckTimeouts
<1>3. Plain'
  <2>1. state' \in State
    BY <1>1 DEF State
  <2>. QED
    BY <1>1, <1>2, <2>1 DEF IInv, Plain, sv, client, network
<1>4. PICK b : serverCommands' = IF b THEN serverCommands ELSE Append(serverCommands, 0)
  BY DEF SV_CheckTimeouts
<1>5. Queues'
  <2>1. /\ serverCommands' \in Seq(ServerId)
        /\ Len(serverCommands') \in Nat /\ Len(serverCommands) <= Len(serverCommands')
    BY <1>4, ToldQueues
  <2>2. /\ toClient \in Seq(Counted(Message, Len(serverCommands')))
        /\ received \in 0 .. Len(serverCommands')
    BY <2>1, MoreForClient
  <2>. QED
    BY <1>1, <2>1, <2>2 DEF IInv, Queues, client, network
<1>6. Flags' /\ Goes' /\ ActiveHasBegun' /\ GenuineStays'
  BY <1>1, <1>2 DEF IInv, Flags, Goes, ActiveHasBegun, GenuineStays, client
<1>. QED
  BY <1>3, <1>5, <1>6 DEF IInv

--------------------------------------------------------------------------------
(* Parts of the client. *)

\* A packet that counts commands the client has.
LEMMA PacketCounted ==
    ASSUME Plain, NEW n \in Nat, NEW m \in Nat, n <= m
    PROVE  CLPacket(n) \in Counted(Packet, m)
BY DEF Plain, CLPacket, Counted, Packet

\* More commands for the server than before: all that counts them is still in order.
LEMMA MoreForServer ==
    ASSUME IInv, NEW new \in Seq(ClientCommand), clientCommands' = clientCommands \o new
    PROVE  /\ clientCommands' \in Seq(ClientCommand)
           /\ Len(clientCommands') \in Nat
           /\ Len(clientCommands') = Len(clientCommands) + Len(new)
           /\ Len(clientCommands) \in Nat /\ Len(clientCommands) <= Len(clientCommands')
           /\ toServer \in Seq(Counted(Packet, Len(clientCommands')))
           /\ current \in [count : 0 .. Len(clientCommands'), move : BOOLEAN, map : ServerId]
<1>1. /\ clientCommands \in Seq(ClientCommand) /\ Len(clientCommands) \in Nat
      /\ toServer \in Seq(Counted(Packet, Len(clientCommands)))
      /\ current \in [count : 0 .. Len(clientCommands), move : BOOLEAN, map : ServerId]
  BY DEF IInv, Queues
<1>2. /\ clientCommands' \in Seq(ClientCommand) /\ Len(clientCommands') \in Nat
      /\ Len(clientCommands') = Len(clientCommands) + Len(new)
      /\ Len(clientCommands) <= Len(clientCommands')
  <2>1. Len(new) \in Nat
    OBVIOUS
  <2>. QED
    BY <1>1, <2>1, ConcatProperties
<1>3. toServer \in Seq(Counted(Packet, Len(clientCommands')))
  BY <1>1, <1>2, CountsNat, CountedGrows
<1>4. current \in [count : 0 .. Len(clientCommands'), move : BOOLEAN, map : ServerId]
  BY <1>1, <1>2
<1>. QED
  BY <1>1, <1>2, <1>3, <1>4

\* A command is added.
LEMMA OneMore ==
    ASSUME IInv, NEW c \in ClientCommand, clientCommands' = Append(clientCommands, c)
    PROVE  <<c>> \in Seq(ClientCommand) /\ clientCommands' = clientCommands \o <<c>>
BY AppendIsConcat DEF IInv, Queues

\* A client that stays does not say that it leaves.
LEMMA StaysGoes ==
    ASSUME IInv, connstate # "CA_DISCONNECTED", NEW new \in Seq(ClientCommand),
           \A i \in DOMAIN new : new[i].name # "disconnect",
           clientCommands' = clientCommands \o new
    PROVE  Goes'
<1>1. clientCommands \in Seq(ClientCommand)
  BY DEF IInv, Queues
<1>2. \A i \in DOMAIN clientCommands : clientCommands[i].name # "disconnect"
  BY DEF IInv, Goes
<1>3. PICK n \in Nat, k \in Nat :
        n = Len(clientCommands) /\ k = Len(new) /\ DOMAIN clientCommands = 1 .. n /\ DOMAIN new = 1 .. k
  BY <1>1
<1>4. /\ DOMAIN clientCommands' = 1 .. n + k
      /\ \A i \in 1 .. n + k : clientCommands'[i] = IF i <= n THEN clientCommands[i] ELSE new[i - n]
  BY <1>1, <1>3, ConcatProperties
<1>5. ASSUME NEW i \in 1 .. n + k PROVE clientCommands'[i].name # "disconnect"
  <2>1. CASE i <= n
    BY <1>2, <1>3, <1>4, <2>1
  <2>2. CASE ~(i <= n)
    <3>1. i - n \in 1 .. k
      BY <2>2
    <3>. QED
      BY <1>3, <1>4, <2>2, <3>1
  <2>. QED
    BY <2>1, <2>2
<1>. QED
  BY <1>4, <1>5 DEF Goes

\* CL_Disconnect.
LEMMA LeaveQueues ==
    ASSUME IInv, Leave
    PROVE  /\ clientCommands' \in Seq(ClientCommand)
           /\ toServer' \in Seq(Counted(Packet, Len(clientCommands')))
           /\ current \in [count : 0 .. Len(clientCommands'), move : BOOLEAN, map : ServerId]
           /\ connstate' = "CA_DISCONNECTED" /\ download' = download
           /\ Goes'
<1>1. Command("disconnect") \in ClientCommand
  BY ConstantsAssumption DEF Command, ClientCommand, Name, ServerId
<1>2. PICK new \in Seq(ClientCommand) : clientCommands' = clientCommands \o new
  BY <1>1, OneMore DEF Leave
<1>3. /\ clientCommands' \in Seq(ClientCommand) /\ Len(clientCommands') \in Nat
      /\ toServer \in Seq(Counted(Packet, Len(clientCommands')))
      /\ current \in [count : 0 .. Len(clientCommands'), move : BOOLEAN, map : ServerId]
  BY <1>2, MoreForServer
<1>4. CLPacket(Len(clientCommands')) \in Counted(Packet, Len(clientCommands'))
  BY <1>3, PacketCounted DEF IInv
<1>5. toServer' = Append(toServer, CLPacket(Len(clientCommands')))
  BY DEF Leave
<1>6. toServer' \in Seq(Counted(Packet, Len(clientCommands')))
  BY <1>3, <1>4, <1>5, AppendProperties
<1>. QED
  BY <1>3, <1>6 DEF Leave, Goes

--------------------------------------------------------------------------------
(* The client's steps. *)

LEMMA WritePacketInv ==
    ASSUME IInv, CL_WritePacket
    PROVE  IInv'
<1>1. /\ toServer' = Append(toServer, CLPacket(Len(clientCommands)))
      /\ UNCHANGED <<sv, state, slot, current, serverCommands, client, genuine, toClient, losses,
                     history>>
  BY DEF CL_WritePacket
<1>2. Plain'
  BY <1>1 DEF IInv, Plain, sv, slot, client, history
<1>3. toServer' \in Seq(Counted(Packet, Len(clientCommands)))
  <2>1. /\ Len(clientCommands) \in Nat
        /\ toServer \in Seq(Counted(Packet, Len(clientCommands)))
    BY DEF IInv, Queues
  <2>2. CLPacket(Len(clientCommands)) \in Counted(Packet, Len(clientCommands))
    BY <2>1, PacketCounted DEF IInv
  <2>. QED
    BY <1>1, <2>1, <2>2, AppendProperties
<1>4. Queues'
  BY <1>1, <1>3 DEF IInv, Queues, client
<1>5. Flags' /\ Goes' /\ ActiveHasBegun' /\ GenuineStays'
  BY <1>1 DEF IInv, Flags, Goes, ActiveHasBegun, GenuineStays, Connected, slot, client, history
<1>. QED
  BY <1>2, <1>4, <1>5 DEF IInv

\* What a step of the client that reads a message has to keep.
ClientKeeps ==
    /\ clientCommands' \in Seq(ClientCommand)
    /\ toServer' \in Seq(Counted(Packet, Len(clientCommands')))
    /\ current \in [count : 0 .. Len(clientCommands'), move : BOOLEAN, map : ServerId]
    /\ received' \in 0 .. Len(serverCommands)
    /\ connstate' \in ConnState
    /\ clServerId' \in ServerId /\ clMap' \in ServerId
    /\ snap' \in {"none", "inactive", "active"}
    /\ download' \in {"none", "active", "done"}
    /\ downloads' \in 0 .. MaxDownloads
    /\ Goes'

LEMMA ParseGamestateKeeps ==
    ASSUME IInv, connstate # "CA_DISCONNECTED",
           NEW m \in Counted(Message, Len(serverCommands)), CL_ParseGamestate(m)
    PROVE  ClientKeeps
<1>1. /\ m.count \in 0 .. Len(serverCommands) /\ m.serverId \in ServerId /\ m.map \in ServerId
  BY DEF IInv, Queues, Counted, Message
<1>2. PICK c \in ClientCommand :
        clientCommands' = Append(clientCommands, c) /\ c.name # "disconnect"
  <2>1. [name |-> "cp", serverId |-> m.serverId] \in ClientCommand
    BY <1>1 DEF ClientCommand, Name
  <2>2. Command("download") \in ClientCommand /\ Command("download").name # "disconnect"
    BY ConstantsAssumption DEF Command, ClientCommand, Name, ServerId
  <2>. QED
    BY <2>1, <2>2 DEF CL_ParseGamestate, Load
<1>3. /\ clientCommands' \in Seq(ClientCommand)
      /\ toServer \in Seq(Counted(Packet, Len(clientCommands')))
      /\ current \in [count : 0 .. Len(clientCommands'), move : BOOLEAN, map : ServerId]
  BY <1>2, OneMore, MoreForServer
<1>4. Goes'
  <2>1. /\ <<c>> \in Seq(ClientCommand) /\ clientCommands' = clientCommands \o <<c>>
    BY <1>2, OneMore
  <2>2. \A i \in DOMAIN <<c>> : <<c>>[i].name # "disconnect"
    BY <1>2
  <2>. QED
    BY <2>1, <2>2, StaysGoes
<1>5. downloads' \in 0 .. MaxDownloads
  BY ConstantsAssumption DEF CL_ParseGamestate, Load, IInv, Plain
<1>6. /\ clServerId' \in ServerId /\ clMap' \in ServerId /\ snap' \in {"none", "inactive", "active"}
      /\ received' \in 0 .. Len(serverCommands)
      /\ connstate' \in ConnState
      /\ download' \in {"none", "active", "done"}
      /\ toServer' = toServer
  BY <1>1 DEF CL_ParseGamestate, Load, ConnState
<1>. QED
  BY <1>3, <1>4, <1>5, <1>6 DEF ClientKeeps

LEMMA ParseSnapshotKeeps ==
    ASSUME IInv, NEW m \in Counted(Message, Len(serverCommands)), CL_ParseSnapshot(m)
    PROVE  ClientKeeps
<1>1. m.count \in 0 .. Len(serverCommands)
  BY DEF IInv, Queues, Counted, Message
<1>. QED
  BY <1>1 DEF CL_ParseSnapshot, IInv, Plain, Queues, Goes, ClientKeeps

LEMMA ParseDownloadKeeps ==
    ASSUME IInv, connstate # "CA_DISCONNECTED", CL_ParseDownload
    PROVE  ClientKeeps
<1>1. \A name \in {"nextdl", "donedl", "stopdl"} :
        Command(name) \in ClientCommand /\ Command(name).name # "disconnect"
  BY ConstantsAssumption DEF Command, ClientCommand, Name, ServerId
<1>2. UNCHANGED <<clServerId, clMap, snap, received, downloads>>
  BY DEF CL_ParseDownload
<1>3. Len(clientCommands) \in Nat /\ received \in 0 .. Len(serverCommands) /\ connstate \in ConnState
  BY DEF IInv, Plain, Queues
<1>4. CASE /\ download' = "done"
           /\ clientCommands' = clientCommands \o <<Command("nextdl"), Command("donedl")>>
           /\ toServer' = Append(toServer, CLPacket(Len(clientCommands) + 1))
           /\ UNCHANGED connstate
  <2>1. PICK new : new = <<Command("nextdl"), Command("donedl")>>
    OBVIOUS
  <2>2. /\ new \in Seq(ClientCommand) /\ Len(new) = 2
        /\ \A i \in DOMAIN new : new[i].name # "disconnect"
    BY <1>1, <2>1
  <2>3. /\ clientCommands' \in Seq(ClientCommand)
        /\ Len(clientCommands') = Len(clientCommands) + 2
        /\ toServer \in Seq(Counted(Packet, Len(clientCommands')))
        /\ current \in [count : 0 .. Len(clientCommands'), move : BOOLEAN, map : ServerId]
    BY <1>4, <2>1, <2>2, MoreForServer
  <2>4. CLPacket(Len(clientCommands) + 1) \in Counted(Packet, Len(clientCommands'))
    <3>1. /\ Len(clientCommands) + 1 \in Nat /\ Len(clientCommands') \in Nat
          /\ Len(clientCommands) + 1 <= Len(clientCommands')
      BY <1>3, <2>3
    <3>. QED
      BY <3>1, PacketCounted DEF IInv
  <2>5. toServer' \in Seq(Counted(Packet, Len(clientCommands')))
    BY <1>4, <2>3, <2>4, AppendProperties
  <2>6. Goes'
    BY <1>4, <2>1, <2>2, StaysGoes
  <2>. QED
    BY <1>2, <1>3, <1>4, <2>3, <2>5, <2>6 DEF IInv, Plain, ClientKeeps
<1>5. CASE /\ clientCommands' = Append(clientCommands, Command("stopdl"))
           /\ UNCHANGED <<connstate, download, toServer>>
  <2>1. PICK new \in Seq(ClientCommand) :
          /\ clientCommands' = clientCommands \o new
          /\ new = <<Command("stopdl")>>
    BY <1>1, <1>5, OneMore
  <2>2. \A i \in DOMAIN new : new[i].name # "disconnect"
    BY <1>1, <2>1
  <2>3. Goes'
    BY <2>1, <2>2, StaysGoes
  <2>4. /\ clientCommands' \in Seq(ClientCommand)
        /\ toServer \in Seq(Counted(Packet, Len(clientCommands')))
        /\ current \in [count : 0 .. Len(clientCommands'), move : BOOLEAN, map : ServerId]
    BY <2>1, MoreForServer
  <2>. QED
    BY <1>2, <1>3, <1>5, <2>3, <2>4 DEF IInv, Plain, ClientKeeps
<1>6. CASE Leave
  <2>1. "CA_DISCONNECTED" \in ConnState
    BY DEF ConnState
  <2>. QED
    BY <1>2, <1>3, <1>6, <2>1, LeaveQueues DEF IInv, Plain, ClientKeeps
<1>. QED
  BY <1>4, <1>5, <1>6 DEF CL_ParseDownload

LEMMA ParseServerMessageInv ==
    ASSUME IInv, CL_ParseServerMessage
    PROVE  IInv'
<1>1. PICK m : m = Head(toClient)
  OBVIOUS
<1>2. m \in Counted(Message, Len(serverCommands)) /\ Tail(toClient) \in Seq(Counted(Message, Len(serverCommands)))
  <2>1. toClient \in Seq(Counted(Message, Len(serverCommands))) /\ toClient # <<>>
    BY DEF IInv, Queues, CL_ParseServerMessage
  <2>. QED
    BY <1>1, <2>1, HeadTailProperties
<1>3. /\ toClient' = Tail(toClient) /\ serverMessage' = m.rank
      /\ connstate # "CA_DISCONNECTED"
      /\ UNCHANGED <<sv, state, slot, current, serverCommands, genuine, losses, history>>
  BY <1>1 DEF CL_ParseServerMessage
<1>4. ClientKeeps
  BY <1>1, <1>2, ParseGamestateKeeps, ParseSnapshotKeeps, ParseDownloadKeeps
     DEF CL_ParseServerMessage
<1>5. Plain'
  <2>1. m.rank \in Rank
    BY <1>2 DEF Counted, Message
  <2>. QED
    BY <1>3, <1>4, <2>1 DEF IInv, Plain, ClientKeeps, sv, slot, history
<1>6. Queues'
  BY <1>2, <1>3, <1>4 DEF IInv, Queues, ClientKeeps
<1>7. Flags' /\ ActiveHasBegun' /\ GenuineStays'
  BY <1>3 DEF IInv, Flags, ActiveHasBegun, GenuineStays, Connected, slot, history
<1>. QED
  BY <1>4, <1>5, <1>6, <1>7 DEF IInv, ClientKeeps

LEMMA ProcessSnapshotsInv ==
    ASSUME IInv, CG_ProcessSnapshots
    PROVE  IInv'
<1>1. PICK n \in Nat, r \in Nat : n = Len(serverCommands) /\ r = received /\ r <= n
  BY DEF IInv, Queues
<1>2. serverCommands \in Seq(ServerId) /\ toClient \in Seq(Counted(Message, n))
  BY <1>1 DEF IInv, Queues
<1>3. PICK new : new = SubSeq(serverCommands, 1, r)
  OBVIOUS
<1>4. new \in Seq(ServerId)
  <2>1. \A i \in 1 .. r : serverCommands[i] \in ServerId
    BY <1>1, <1>2
  <2>2. 1 \in Int /\ r \in Int
    OBVIOUS
  <2>. QED
    BY <1>3, <2>1, <2>2, SubSeqProperties
<1>5. /\ serverCommands' \in Seq(ServerId) /\ Len(serverCommands') = n - r
  <2>1. serverCommands' = SubSeq(serverCommands, r + 1, n)
    BY <1>1 DEF CG_ProcessSnapshots
  <2>2. \A i \in r + 1 .. n : serverCommands[i] \in ServerId
    BY <1>1, <1>2
  <2>3. r + 1 \in Int /\ n \in Int
    OBVIOUS
  <2>4. /\ SubSeq(serverCommands, r + 1, n) \in Seq(ServerId)
        /\ Len(SubSeq(serverCommands, r + 1, n)) = IF r + 1 <= n THEN n - (r + 1) + 1 ELSE 0
    BY <2>2, <2>3, SubSeqProperties
  <2>. QED
    BY <1>1, <2>1, <2>4
<1>6. toClient' \in Seq(Counted(Message, n - r))
  <2>1. toClient' = Executed(toClient, r)
    BY <1>1 DEF CG_ProcessSnapshots
  <2>. QED
    BY <1>1, <1>2, <2>1, ExecutedCounted
<1>7. clServerId' \in ServerId
  <2>1. clServerId' = clServerId \/ \E i \in DOMAIN new : clServerId' = new[i]
    BY <1>1, <1>3 DEF CG_ProcessSnapshots
  <2>. QED
    BY <1>4, <2>1 DEF IInv, Plain
<1>8. /\ received' = 0 /\ snap' = "none"
      /\ UNCHANGED <<sv, state, slot, current, clMap, serverMessage, downloads, genuine, losses,
                     history>>
      /\ connstate \in {"CA_PRIMED", "CA_ACTIVE"}
  BY DEF CG_ProcessSnapshots
<1>9. /\ clientCommands' \in Seq(ClientCommand)
      /\ toServer' \in Seq(Counted(Packet, Len(clientCommands')))
      /\ current \in [count : 0 .. Len(clientCommands'), move : BOOLEAN, map : ServerId]
      /\ connstate' \in {"CA_DISCONNECTED", "CA_ACTIVE"} /\ download' = download
      /\ Goes'
  <2>1. CASE Leave
    BY <2>1, LeaveQueues
  <2>2. CASE connstate' = "CA_ACTIVE" /\ UNCHANGED <<clientCommands, download, toServer>>
    BY <1>8, <2>2 DEF IInv, Queues, Goes
  <2>. QED
    BY <2>1, <2>2 DEF CG_ProcessSnapshots
<1>10. Plain'
  BY <1>7, <1>8, <1>9 DEF IInv, Plain, ConnState, sv, slot, history
<1>11. Queues'
  BY <1>1, <1>5, <1>6, <1>8, <1>9 DEF Queues
<1>12. Flags' /\ ActiveHasBegun' /\ GenuineStays'
  BY <1>8 DEF IInv, Flags, ActiveHasBegun, GenuineStays, Connected, slot, history
<1>. QED
  BY <1>9, <1>10, <1>11, <1>12 DEF IInv

LEMMA DisconnectInv ==
    ASSUME IInv, CL_Disconnect
    PROVE  IInv'
<1>1. /\ Leave
      /\ UNCHANGED <<sv, state, slot, current, serverCommands, clServerId, clMap, serverMessage,
                     received, snap, downloads, genuine, toClient, losses, history>>
  BY DEF CL_Disconnect
<1>2. /\ clientCommands' \in Seq(ClientCommand)
      /\ toServer' \in Seq(Counted(Packet, Len(clientCommands')))
      /\ current \in [count : 0 .. Len(clientCommands'), move : BOOLEAN, map : ServerId]
      /\ connstate' = "CA_DISCONNECTED" /\ download' = download
      /\ Goes'
  BY <1>1, LeaveQueues
<1>3. Plain'
  BY <1>1, <1>2 DEF IInv, Plain, ConnState, sv, slot, history
<1>4. Queues'
  BY <1>1, <1>2 DEF IInv, Queues
<1>5. Flags' /\ ActiveHasBegun' /\ GenuineStays'
  BY <1>1, <1>2 DEF IInv, Flags, ActiveHasBegun, GenuineStays, Connected, slot, history
<1>. QED
  BY <1>2, <1>3, <1>4, <1>5 DEF IInv

LEMMA LoseInv ==
    ASSUME IInv, Lose
    PROVE  IInv'
<1>1. /\ UNCHANGED <<sv, state, slot, current, serverCommands, client, genuine, history>>
      /\ losses' \in 0 .. MaxLosses
  BY ConstantsAssumption DEF Lose, IInv, Plain
<1>2. /\ toClient' \in Seq(Counted(Message, Len(serverCommands)))
      /\ toServer' \in Seq(Counted(Packet, Len(clientCommands)))
  BY RemoveAtSeq DEF Lose, IInv, Queues
<1>3. Plain'
  BY <1>1 DEF IInv, Plain, sv, slot, client, history
<1>4. Queues'
  BY <1>1, <1>2 DEF IInv, Queues, client
<1>5. Flags' /\ Goes' /\ ActiveHasBegun' /\ GenuineStays'
  BY <1>1 DEF IInv, Flags, Goes, ActiveHasBegun, GenuineStays, Connected, slot, client, history
<1>. QED
  BY <1>3, <1>4, <1>5 DEF IInv

--------------------------------------------------------------------------------
(* The invariant. *)

LEMMA InitInv == Init => IInv
<1>. SUFFICES ASSUME Init PROVE IInv
  OBVIOUS
<1>1. 0 \in ServerId /\ MaxServerId \in Nat /\ 1 <= MaxServerId
  BY ConstantsAssumption DEF ServerId
<1>2. sv_pure \in BOOLEAN /\ genuine \in BOOLEAN
  BY DEF Init
<1>3. Plain
  <2>1. /\ serverId = 1 /\ restartedServerId = 1 /\ state = "CS_CONNECTED" /\ blocks = 0
        /\ connstate = "CA_CONNECTED" /\ clServerId = 0 /\ clMap = 0 /\ serverMessage = Later
        /\ snap = "none" /\ download = "none" /\ downloads = 0 /\ losses = 0
    BY DEF Init
  <2>2. /\ gotCP \in BOOLEAN /\ pureAuthentic \in BOOLEAN
        /\ downloadName \in BOOLEAN /\ lastNextdl \in BOOLEAN
        /\ begun \in BOOLEAN /\ caught \in BOOLEAN
    BY DEF Init
  <2>3. /\ serverId \in 1 .. MaxServerId /\ restartedServerId \in 1 .. serverId
        /\ blocks \in 0 .. MaxBlocks /\ downloads \in 0 .. MaxDownloads
        /\ losses \in 0 .. MaxLosses
    BY <1>1, <2>1, ConstantsAssumption
  <2>. QED
    BY <1>1, <1>2, <2>1, <2>2, <2>3 DEF Plain, State, ConnState, Rank
<1>4. Queues
  <2>1. \A S : <<>> \in Seq(S) /\ Len(<<>>) = 0
    BY EmptySeq
  <2>2. Nothing \in [count : 0 .. 0, move : BOOLEAN, map : ServerId]
    BY <1>1 DEF Nothing, Rest
  <2>. QED
    BY <2>1, <2>2 DEF Init, Queues
<1>5. Flags /\ ActiveHasBegun /\ GenuineStays
  BY DEF Init, Flags, ActiveHasBegun, GenuineStays, Connected
<1>6. Goes
  BY DEF Init, Goes
<1>. QED
  BY <1>3, <1>4, <1>5, <1>6 DEF IInv

LEMMA NextInv ==
    ASSUME IInv, [Next]_vars
    PROVE  IInv'
<1>1. CASE SV_Execute
  BY <1>1, ExecuteClientMessageInv, VerifyPaksInv, BeginStopDownloadInv, DoneDownloadInv,
     DisconnectCommandInv, UserMoveInv DEF SV_Execute
<1>2. CASE SV_SendClientSnapshot \/ SV_SendDownloadMessages \/ SV_SpawnServer
           \/ SV_MapRestart_f \/ SV_CheckTimeouts
  BY <1>2, SendInv, SpawnServerInv, MapRestartInv, CheckTimeoutsInv
<1>3. CASE CL_WritePacket \/ CL_ParseServerMessage \/ CG_ProcessSnapshots \/ CL_Disconnect \/ Lose
  BY <1>3, WritePacketInv, ParseServerMessageInv, ProcessSnapshotsInv, DisconnectInv, LoseInv
<1>4. CASE UNCHANGED vars
  <2>1. Plain'
    BY <1>4 DEF IInv, Plain, vars, sv, slot, client, network, history
  <2>2. Queues'
    BY <1>4 DEF IInv, Queues, vars, client, network
  <2>3. Flags' /\ Goes' /\ ActiveHasBegun' /\ GenuineStays'
    BY <1>4 DEF IInv, Flags, Goes, ActiveHasBegun, GenuineStays, Connected, vars, slot, client,
                history
  <2>. QED
    BY <2>1, <2>2, <2>3 DEF IInv
<1>. QED
  BY <1>1, <1>2, <1>3, <1>4 DEF Next

--------------------------------------------------------------------------------
(* The map that user commands are made on: what MovesOnThisMap needs. *)

\* The map of a gamestate or packet with a server id: with one that was given out since
\* the map was loaded it is the map that is played.
ThisMap(id, map) == id >= restartedServerId => map = restartedServerId

\* A gamestate on its way is at least as new as the one that is loaded.
GameState(d) ==
    d.type = "gamestate" =>
        /\ clMap <= d.map /\ d.map <= restartedServerId
        /\ d.serverId <= serverId
        /\ ~caught => ThisMap(d.serverId, d.map)

\* Newer gamestates come later.
InOrder(c) ==
    \A h, i \in DOMAIN c :
        h < i /\ c[h].type = "gamestate" /\ c[i].type = "gamestate" => c[h].map <= c[i].map

GameStates == (\A i \in DOMAIN toClient : GameState(toClient[i])) /\ InOrder(toClient)

\* A packet is of a map that was loaded before, or is.
FromMap(p) ==
    /\ p.map <= clMap
    /\ p.serverId <= serverId
    /\ ~caught => ThisMap(p.serverId, p.map)

\* Later packets count more.
Packets ==
    /\ \A i \in DOMAIN toServer : FromMap(toServer[i]) /\ current.count <= toServer[i].count
    /\ \A h, i \in DOMAIN toServer : h < i => toServer[h].count <= toServer[i].count

\* A server id reaches the client as a configstring only on the map it is of.
Update(id) == id <= serverId /\ (~caught => ThisMap(id, clMap))
Updates == \A i \in DOMAIN serverCommands : Update(serverCommands[i])

Loaded ==
    /\ clMap <= restartedServerId /\ clServerId <= serverId /\ current.map <= clMap
    /\ ~caught =>
        /\ state = "CS_ACTIVE" => clMap = restartedServerId
        /\ ThisMap(clServerId, clMap)
        /\ current.move => current.map = restartedServerId

\* The server does not tell a client that downloads from one that has loaded the map.
Files == {"download", "nextdl", "donedl"}
Sends == downloadName \/ lastNextdl

\* The first n commands are not about files.
Free(cs, n) == \A k \in DOMAIN cs : k <= n => cs[k].name \notin Files

\* Commands and datagrams before, during and after a download.
NoFiles(cs) == \A k \in DOMAIN cs : cs[k].name \notin Files
Asks(cs) ==
    /\ \A k \in DOMAIN cs : cs[k].name \notin {"nextdl", "donedl"}
    /\ \A j, k \in DOMAIN cs : j < k /\ cs[j].name = "download" => cs[k].name # "stopdl"
NoStops(cs) == \A k \in DOMAIN cs : cs[k].name # "stopdl"
EndsAt(cs, k) ==
    /\ cs[k].name = "donedl"
    /\ \A j \in DOMAIN cs : j > k => cs[j].name \notin Files
    /\ k > 1 => cs[k - 1].name = "nextdl"
    /\ \A j \in DOMAIN cs : j < k - 1 => cs[j].name \notin {"nextdl", "donedl", "stopdl"}

NoBlocks(c)   == \A i \in DOMAIN c : c[i].type # "download"
NoGames(c)    == \A i \in DOMAIN c : c[i].type # "gamestate"
BlocksLast(c) == \A h, i \in DOMAIN c : h < i /\ c[h].type = "download" => c[i].type # "gamestate"
GamesLast(c)  == \A h, i \in DOMAIN c : h < i /\ c[h].type = "gamestate" => c[i].type # "download"

\* The phases of a download: the server sends the file (sends) or has executed the nextdl
\* for it (acknowledged); cs are the commands and c the datagrams on their way.
Phase(dl, sends, acknowledged, cs, c) ==
    /\ dl = "none" => ~sends /\ ~acknowledged /\ NoFiles(cs) /\ NoBlocks(c)
    /\ dl = "active" =>
        /\ ~acknowledged
        /\ Asks(cs)
        /\ BlocksLast(c)
        /\ IF sends THEN NoStops(cs) ELSE NoBlocks(c)
    /\ dl = "done" =>
        \/ /\ NoGames(c)
           /\ \E k \in DOMAIN cs :
                 EndsAt(cs, k) /\ IF k = 1 THEN acknowledged /\ ~sends ELSE sends
        \/ ~sends /\ ~acknowledged /\ NoFiles(cs) /\ GamesLast(c)
Phases == Connected => Phase(download, downloadName, lastNextdl, clientCommands, toClient)

\* No user command comes before a command about files, or while the server sends one.
Still(p, cs, sends) == p.move => Free(cs, p.count) /\ ~sends
Apart ==
    /\ download # "none" => connstate \in {"CA_CONNECTED", "CA_DISCONNECTED"}
    /\ Connected =>
        /\ Still(current, clientCommands, Sends)
        /\ \A i \in DOMAIN toServer : Still(toServer[i], clientCommands, Sends)

\* What MovesOnThisMap needs.
MInv == GameStates /\ Packets /\ Updates /\ Loaded /\ Phases /\ Apart

--------------------------------------------------------------------------------
(* What becomes of a channel. *)

\* The datagrams of c are some of those to the client in ch, in their order.
Alike(d, e) == d.type = e.type /\ d.serverId = e.serverId /\ d.map = e.map
SomeOf(c, ch) ==
    \A i, j \in DOMAIN c : i <= j =>
        \E h, k \in DOMAIN ch :
            (i < j => h < k) /\ Alike(c[i], ch[h]) /\ Alike(c[j], ch[k])

\* The packets of c are some of those in ch, when n more commands were executed.
AlikeBut(p, q, n) ==
    p.serverId = q.serverId /\ p.map = q.map /\ p.move = q.move /\ q.count = p.count + n
LeftOf(c, ch, n) ==
    \A i, j \in DOMAIN c : i <= j =>
        \E h, k \in DOMAIN ch :
            (i < j => h < k) /\ AlikeBut(c[i], ch[h], n) /\ AlikeBut(c[j], ch[k], n)

\* The channels, and commands, whatever they count.
LEMMA Typed ==
    ASSUME IInv, IInv'
    PROVE  /\ toClient \in Seq(Message) /\ toClient' \in Seq(Message)
           /\ toServer \in Seq(Packet) /\ toServer' \in Seq(Packet)
<1>1. \A S, n : Counted(S, n) \subseteq S
  BY DEF Counted
<1>2. /\ toClient \in Seq(Counted(Message, Len(serverCommands)))
      /\ toServer \in Seq(Counted(Packet, Len(clientCommands)))
      /\ toClient' \in Seq(Counted(Message, Len(serverCommands')))
      /\ toServer' \in Seq(Counted(Packet, Len(clientCommands')))
  BY DEF IInv, Queues
<1>. QED
  BY <1>1, <1>2, SeqMonotonic

\* Every datagram of a channel is one that its like is of.
LEMMA SomeOne ==
    ASSUME NEW c, NEW ch, SomeOf(c, ch), NEW S, c \in Seq(S), NEW i \in DOMAIN c
    PROVE  \E h \in DOMAIN ch : Alike(c[i], ch[h])
<1>1. i <= i
  BY LenProperties
<1>. QED
  BY <1>1 DEF SomeOf

\* Every packet of a channel is one that its like is of.
LEMMA LeftOne ==
    ASSUME NEW c, NEW ch, NEW n, LeftOf(c, ch, n), NEW S, c \in Seq(S), NEW i \in DOMAIN c
    PROVE  \E h \in DOMAIN ch : AlikeBut(c[i], ch[h], n)
<1>1. i <= i
  BY LenProperties
<1>. QED
  BY <1>1 DEF LeftOf

\* The same channel, its ranks aside.
LEMMA SameSome ==
    ASSUME NEW c \in Seq(Message), NEW ch \in Seq(Message), DOMAIN c = DOMAIN ch,
           \A i \in DOMAIN ch : Alike(c[i], ch[i])
    PROVE  SomeOf(c, ch)
BY DEF SomeOf

\* The same packets, with n commands of each executed.
LEMMA SameLeft ==
    ASSUME NEW c \in Seq(Packet), NEW ch \in Seq(Packet), DOMAIN c = DOMAIN ch, NEW n,
           \A i \in DOMAIN ch : AlikeBut(c[i], ch[i], n)
    PROVE  LeftOf(c, ch, n)
BY DEF LeftOf

\* The first datagram, or any, is gone.
LEMMA TailSome ==
    ASSUME NEW ch \in Seq(Message), ch # <<>>
    PROVE  SomeOf(Tail(ch), ch)
<1>1. PICK n \in Nat : n = Len(ch) /\ n >= 1 /\ DOMAIN ch = 1 .. n
  OBVIOUS
<1>2. DOMAIN Tail(ch) = 1 .. n - 1 /\ \A i \in 1 .. n - 1 : Tail(ch)[i] = ch[i + 1]
  BY <1>1, HeadTailProperties
<1>3. ASSUME NEW i \in 1 .. n - 1, NEW j \in 1 .. n - 1
      PROVE  /\ i + 1 \in DOMAIN ch /\ j + 1 \in DOMAIN ch
             /\ i < j => i + 1 < j + 1
  BY <1>1
<1>. QED
  BY <1>2, <1>3 DEF SomeOf, Alike

\* The first packet is gone.
LEMMA TailLeft ==
    ASSUME NEW ch \in Seq(Packet), ch # <<>>
    PROVE  LeftOf(Tail(ch), ch, 0)
<1>1. PICK n \in Nat : n = Len(ch) /\ n >= 1 /\ DOMAIN ch = 1 .. n
  OBVIOUS
<1>2. DOMAIN Tail(ch) = 1 .. n - 1 /\ \A i \in 1 .. n - 1 : Tail(ch)[i] = ch[i + 1]
  BY <1>1, HeadTailProperties
<1>3. ASSUME NEW i \in 1 .. n - 1, NEW j \in 1 .. n - 1
      PROVE  /\ i + 1 \in DOMAIN ch /\ j + 1 \in DOMAIN ch
             /\ i < j => i + 1 < j + 1
  BY <1>1
<1>4. \A i \in 1 .. n - 1 : AlikeBut(Tail(ch)[i], ch[i + 1], 0)
  <2>1. \A p \in Packet : p.count = p.count + 0
    BY DEF Packet
  <2>. QED
    BY <1>2, <1>3, <2>1 DEF AlikeBut
<1>. QED
  BY <1>2, <1>3, <1>4 DEF LeftOf

\* What is left of a sequence when one is gone.
LEMMA RemoveAtAt ==
    ASSUME NEW S, NEW s \in Seq(S), NEW r \in DOMAIN s
    PROVE  /\ DOMAIN RemoveAt(s, r) = 1 .. Len(s) - 1
           /\ \A i \in 1 .. Len(s) - 1 : RemoveAt(s, r)[i] = IF i < r THEN s[i] ELSE s[i + 1]
<1>1. PICK n \in Nat : n = Len(s) /\ DOMAIN s = 1 .. n
  OBVIOUS
<1>2. /\ SubSeq(s, 1, r - 1) \in Seq(S) /\ Len(SubSeq(s, 1, r - 1)) = r - 1
      /\ \A i \in 1 .. r - 1 : SubSeq(s, 1, r - 1)[i] = s[i]
  <2>1. \A j \in 1 .. r - 1 : s[j] \in S
    BY <1>1
  <2>2. 1 \in Int /\ r - 1 \in Int /\ r >= 1
    BY <1>1
  <2>3. /\ SubSeq(s, 1, r - 1) \in Seq(S)
        /\ Len(SubSeq(s, 1, r - 1)) = IF 1 <= r - 1 THEN (r - 1) - 1 + 1 ELSE 0
        /\ \A i \in 1 .. (r - 1) - 1 + 1 : SubSeq(s, 1, r - 1)[i] = s[1 + i - 1]
    BY <2>1, <2>2, SubSeqProperties
  <2>. QED
    BY <2>2, <2>3
<1>3. /\ SubSeq(s, r + 1, n) \in Seq(S) /\ Len(SubSeq(s, r + 1, n)) = n - r
      /\ \A i \in 1 .. n - r : SubSeq(s, r + 1, n)[i] = s[r + i]
  <2>1. \A j \in r + 1 .. n : s[j] \in S
    BY <1>1
  <2>2. r + 1 \in Int /\ n \in Int /\ r \in Int /\ r <= n
    BY <1>1
  <2>3. /\ SubSeq(s, r + 1, n) \in Seq(S)
        /\ Len(SubSeq(s, r + 1, n)) = IF r + 1 <= n THEN n - (r + 1) + 1 ELSE 0
        /\ \A i \in 1 .. n - (r + 1) + 1 : SubSeq(s, r + 1, n)[i] = s[(r + 1) + i - 1]
    BY <2>1, <2>2, SubSeqProperties
  <2>4. (IF r + 1 <= n THEN n - (r + 1) + 1 ELSE 0) = n - r /\ n - (r + 1) + 1 = n - r
    BY <2>2
  <2>5. \A i \in 1 .. n - r : (r + 1) + i - 1 = r + i
    BY <2>2
  <2>. QED
    BY <2>3, <2>4, <2>5
<1>4. PICK a \in Seq(S), b \in Seq(S) : a = SubSeq(s, 1, r - 1) /\ b = SubSeq(s, r + 1, n)
  BY <1>2, <1>3
<1>5. RemoveAt(s, r) = a \o b
  BY <1>1, <1>4 DEF RemoveAt
<1>6. r \in 1 .. n
  BY <1>1
<1>7. /\ a \o b \in Seq(S) /\ Len(a \o b) = n - 1
      /\ \A i \in 1 .. n - 1 : (a \o b)[i] = IF i <= r - 1 THEN a[i] ELSE b[i - (r - 1)]
  <2>1. Len(a) = r - 1 /\ Len(b) = n - r
    BY <1>2, <1>3, <1>4
  <2>2. /\ a \o b \in Seq(S) /\ Len(a \o b) = Len(a) + Len(b)
        /\ \A i \in 1 .. Len(a) + Len(b) : (a \o b)[i] = IF i <= Len(a) THEN a[i] ELSE b[i - Len(a)]
    BY <1>4, ConcatProperties
  <2>3. (r - 1) + (n - r) = n - 1
    BY <1>6
  <2>. QED
    BY <2>1, <2>2, <2>3
<1>8. ASSUME NEW i \in 1 .. n - 1
      PROVE  (a \o b)[i] = IF i < r THEN s[i] ELSE s[i + 1]
  <2>1. CASE i < r
    BY <1>2, <1>4, <1>6, <1>7, <2>1
  <2>2. CASE ~(i < r)
    <3>1. i - (r - 1) \in 1 .. n - r /\ r + (i - (r - 1)) = i + 1 /\ ~(i <= r - 1)
      BY <1>6, <2>2
    <3>. QED
      BY <1>3, <1>4, <1>7, <2>2, <3>1
  <2>. QED
    BY <2>1, <2>2
<1>. QED
  BY <1>1, <1>5, <1>7, <1>8

\* Any datagram is gone.
LEMMA RemoveSome ==
    ASSUME NEW ch \in Seq(Message), NEW r \in DOMAIN ch
    PROVE  SomeOf(RemoveAt(ch, r), ch)
<1>1. PICK n \in Nat : n = Len(ch) /\ DOMAIN ch = 1 .. n
  OBVIOUS
<1>2. /\ DOMAIN RemoveAt(ch, r) = 1 .. n - 1
      /\ \A i \in 1 .. n - 1 : RemoveAt(ch, r)[i] = IF i < r THEN ch[i] ELSE ch[i + 1]
  BY <1>1, RemoveAtAt
<1>3. ASSUME NEW i \in 1 .. n - 1, NEW j \in 1 .. n - 1, i <= j
      PROVE  \E h, k \in DOMAIN ch : (i < j => h < k) /\ Alike(RemoveAt(ch, r)[i], ch[h]) /\ Alike(RemoveAt(ch, r)[j], ch[k])
  <2>1. PICK h \in DOMAIN ch : h = IF i < r THEN i ELSE i + 1
    BY <1>1
  <2>2. PICK k \in DOMAIN ch : k = IF j < r THEN j ELSE j + 1
    BY <1>1
  <2>3. i < j => h < k
    BY <1>1, <1>3, <2>1, <2>2
  <2>. QED
    BY <1>2, <2>1, <2>2, <2>3 DEF Alike
<1>. QED
  BY <1>2, <1>3 DEF SomeOf

\* Any packet is gone.
LEMMA RemoveLeft ==
    ASSUME NEW ch \in Seq(Packet), NEW r \in DOMAIN ch
    PROVE  LeftOf(RemoveAt(ch, r), ch, 0)
<1>1. PICK n \in Nat : n = Len(ch) /\ DOMAIN ch = 1 .. n
  OBVIOUS
<1>2. /\ DOMAIN RemoveAt(ch, r) = 1 .. n - 1
      /\ \A i \in 1 .. n - 1 : RemoveAt(ch, r)[i] = IF i < r THEN ch[i] ELSE ch[i + 1]
  BY <1>1, RemoveAtAt
<1>3. \A p \in Packet : AlikeBut(p, p, 0)
  BY DEF Packet, AlikeBut
<1>4. ASSUME NEW i \in 1 .. n - 1, NEW j \in 1 .. n - 1, i <= j
      PROVE  \E h, k \in DOMAIN ch : (i < j => h < k) /\ AlikeBut(RemoveAt(ch, r)[i], ch[h], 0) /\ AlikeBut(RemoveAt(ch, r)[j], ch[k], 0)
  <2>1. PICK h \in DOMAIN ch : h = IF i < r THEN i ELSE i + 1
    BY <1>1
  <2>2. PICK k \in DOMAIN ch : k = IF j < r THEN j ELSE j + 1
    BY <1>1
  <2>3. i < j => h < k
    BY <1>1, <1>4, <2>1, <2>2
  <2>4. ch[h] \in Packet /\ ch[k] \in Packet
    OBVIOUS
  <2>5. AlikeBut(ch[h], ch[h], 0) /\ AlikeBut(ch[k], ch[k], 0)
    BY <1>3, <2>4
  <2>6. RemoveAt(ch, r)[i] = ch[h] /\ RemoveAt(ch, r)[j] = ch[k]
    BY <1>2, <2>1, <2>2
  <2>. QED
    BY <2>3, <2>5, <2>6
<1>. QED
  BY <1>2, <1>4 DEF LeftOf

\* A command is executed that every packet counts.
LEMMA ExecutedLeft ==
    ASSUME NEW ch \in Seq(Packet), \A i \in DOMAIN ch : ch[i].count >= 1
    PROVE  /\ LeftOf(Executed(ch, 1), ch, 1)
           /\ Executed(ch, 1) \in Seq(Packet)
<1>1. PICK n \in Nat : n = Len(ch) /\ DOMAIN ch = 1 .. n
  OBVIOUS
<1>2. ASSUME NEW i \in DOMAIN ch
      PROVE  Executed(ch, 1)[i] \in Packet /\ AlikeBut(Executed(ch, 1)[i], ch[i], 1)
  <2>1. PICK p \in Packet : p = ch[i] /\ p.count \in Nat /\ p.count >= 1
    BY CountsNat
  <2>2. PICK c \in Nat : c = p.count - 1 /\ c = (IF p.count > 1 THEN p.count - 1 ELSE 0)
    BY <2>1
  <2>3. [p EXCEPT !.count = IF @ > 1 THEN @ - 1 ELSE 0] = [p EXCEPT !.count = c]
    BY <2>2
  <2>4. Executed(ch, 1)[i] = [p EXCEPT !.count = c]
    BY <2>1, <2>3 DEF Executed
  <2>5. /\ [p EXCEPT !.count = c] \in Packet
        /\ [p EXCEPT !.count = c].count = c
        /\ [p EXCEPT !.count = c].serverId = p.serverId
        /\ [p EXCEPT !.count = c].map = p.map
        /\ [p EXCEPT !.count = c].move = p.move
    BY <2>1, <2>2 DEF Packet
  <2>6. p.count = c + 1
    BY <2>1, <2>2
  <2>. QED
    BY <2>1, <2>4, <2>5, <2>6 DEF AlikeBut
<1>3. DOMAIN Executed(ch, 1) = DOMAIN ch
  BY DEF Executed
<1>4. Executed(ch, 1) \in Seq(Packet)
  BY <1>1, <1>2 DEF Executed
<1>. QED
  BY <1>2, <1>3, <1>4, SameLeft

\* The ranks of datagrams change.
LEMMA RankedSome ==
    ASSUME NEW ch \in Seq(Message), NEW c,
           c = [i \in DOMAIN ch |-> [ch[i] EXCEPT !.rank = Before]]
    PROVE  c \in Seq(Message) /\ SomeOf(c, ch)
<1>1. \A d \in Message : Alike([d EXCEPT !.rank = Before], d)
  BY DEF Message, Alike
<1>2. c \in Seq(Message)
  <2>1. \A d \in Message : [d EXCEPT !.rank = Before] \in Message
    BY DEF Message, Rank
  <2>. QED
    BY <2>1
<1>3. \A i \in DOMAIN ch : Alike(c[i], ch[i])
  <2>1. \A i \in DOMAIN ch : ch[i] \in Message /\ c[i] = [ch[i] EXCEPT !.rank = Before]
    OBVIOUS
  <2>. QED
    BY <1>1, <2>1
<1>4. DOMAIN c = DOMAIN ch
  OBVIOUS
<1>. QED
  BY <1>2, <1>3, <1>4, SameSome

\* The ranks of packets change.
LEMMA RankedLeft ==
    ASSUME NEW ch \in Seq(Packet), NEW rest \in Seq(Packet), NEW n, LeftOf(rest, ch, n), NEW c,
           c = [i \in DOMAIN rest |-> [rest[i] EXCEPT !.ack = Before]]
    PROVE  LeftOf(c, ch, n)
<1>1. ASSUME NEW p \in Packet
      PROVE  \A q : AlikeBut(p, q, n) => AlikeBut([p EXCEPT !.ack = Before], q, n)
  BY DEF Packet, AlikeBut
<1>2. \A i \in DOMAIN rest : \A q : AlikeBut(rest[i], q, n) => AlikeBut(c[i], q, n)
  BY <1>1
<1>3. DOMAIN c = DOMAIN rest
  OBVIOUS
<1>. QED
  BY <1>2, <1>3 DEF LeftOf

--------------------------------------------------------------------------------
(* Commands and datagrams of a download. *)

\* What is said of a channel is said of some of it.
LEMMA KindsSome ==
    ASSUME NEW c \in Seq(Message), NEW ch, SomeOf(c, ch)
    PROVE  /\ NoBlocks(ch) => NoBlocks(c)
           /\ NoGames(ch) => NoGames(c)
           /\ BlocksLast(ch) => BlocksLast(c)
           /\ GamesLast(ch) => GamesLast(c)
<1>1. ASSUME NEW i \in DOMAIN c
      PROVE  \E h \in DOMAIN ch : c[i].type = ch[h].type
  BY SomeOne DEF Alike
<1>2. ASSUME NEW i \in DOMAIN c, NEW j \in DOMAIN c, i < j
      PROVE  \E h, k \in DOMAIN ch : h < k /\ c[i].type = ch[h].type /\ c[j].type = ch[k].type
  <2>1. i <= j
    BY <1>2, LenProperties
  <2>. QED
    BY <1>2, <2>1 DEF SomeOf, Alike
<1>3. (NoBlocks(ch) => NoBlocks(c)) /\ (NoGames(ch) => NoGames(c))
  BY <1>1 DEF NoBlocks, NoGames
<1>4. (BlocksLast(ch) => BlocksLast(c)) /\ (GamesLast(ch) => GamesLast(c))
  BY <1>2 DEF BlocksLast, GamesLast
<1>. QED
  BY <1>3, <1>4

\* A datagram is sent.
LEMMA KindsMore ==
    ASSUME NEW c \in Seq(Message), NEW m \in Message
    PROVE  /\ NoBlocks(c) /\ m.type # "download" => NoBlocks(Append(c, m))
           /\ NoGames(c) /\ m.type # "gamestate" => NoGames(Append(c, m))
           /\ BlocksLast(c) /\ (m.type # "gamestate" \/ NoBlocks(c)) => BlocksLast(Append(c, m))
           /\ GamesLast(c) /\ (m.type # "download" \/ NoGames(c)) => GamesLast(Append(c, m))
<1>1. PICK n \in Nat : n = Len(c) /\ DOMAIN c = 1 .. n
  OBVIOUS
<1>2. PICK a : a = Append(c, m)
  OBVIOUS
<1>3. /\ DOMAIN a = 1 .. n + 1
      /\ \A i \in 1 .. n : a[i] = c[i]
      /\ a[n + 1] = m
  BY <1>1, <1>2, AppendProperties
<1>4. ASSUME NEW i \in 1 .. n + 1 PROVE i \in 1 .. n \/ i = n + 1
  BY <1>1
<1>5. ASSUME NEW i \in 1 .. n + 1, NEW j \in 1 .. n + 1, i < j PROVE i \in 1 .. n
  BY <1>1, <1>5
<1>6. (NoBlocks(c) /\ m.type # "download" => NoBlocks(a)) /\ (NoGames(c) /\ m.type # "gamestate" => NoGames(a))
  BY <1>1, <1>3, <1>4 DEF NoBlocks, NoGames
<1>7. BlocksLast(c) /\ (m.type # "gamestate" \/ NoBlocks(c)) => BlocksLast(a)
  BY <1>1, <1>3, <1>4, <1>5 DEF NoBlocks, BlocksLast
<1>8. GamesLast(c) /\ (m.type # "download" \/ NoGames(c)) => GamesLast(a)
  BY <1>1, <1>3, <1>4, <1>5 DEF NoGames, GamesLast
<1>. QED
  BY <1>2, <1>6, <1>7, <1>8

--------------------------------------------------------------------------------
(* What becomes of the client's commands. *)

\* The first is executed.
LEMMA CommandsTail ==
    ASSUME NEW cs \in Seq(ClientCommand), cs # <<>>
    PROVE  /\ \A n \in Nat : Free(cs, n + 1) => Free(Tail(cs), n)
           /\ NoFiles(cs) => NoFiles(Tail(cs))
           /\ Asks(cs) => Asks(Tail(cs))
           /\ NoStops(cs) => NoStops(Tail(cs))
           /\ Asks(cs) /\ Head(cs).name = "download" => NoStops(Tail(cs))
           /\ EndsAt(cs, 1) => NoFiles(Tail(cs))
           /\ \A k \in DOMAIN cs : k # 1 /\ EndsAt(cs, k) =>
                k - 1 \in DOMAIN Tail(cs) /\ EndsAt(Tail(cs), k - 1)
<1>1. PICK n \in Nat : n = Len(cs) /\ n >= 1 /\ DOMAIN cs = 1 .. n
  OBVIOUS
<1>2. PICK t : t = Tail(cs)
  OBVIOUS
<1>3. /\ DOMAIN t = 1 .. n - 1
      /\ \A i \in 1 .. n - 1 : t[i] = cs[i + 1]
      /\ Head(cs) = cs[1]
  BY <1>1, <1>2, HeadTailProperties
<1>4. ASSUME NEW i \in 1 .. n - 1 PROVE i + 1 \in 1 .. n /\ 1 < i + 1
  BY <1>1
<1>5. ASSUME NEW i \in 1 .. n - 1, NEW j \in 1 .. n - 1, i < j PROVE i + 1 < j + 1
  BY <1>1, <1>5
<1>6. ASSUME NEW m \in Nat, Free(cs, m + 1) PROVE Free(t, m)
  <2>1. \A k \in 1 .. n - 1 : k <= m => k + 1 <= m + 1
    BY <1>1
  <2>. QED
    BY <1>1, <1>3, <1>4, <1>6, <2>1 DEF Free
<1>7. (NoFiles(cs) => NoFiles(t)) /\ (NoStops(cs) => NoStops(t))
  BY <1>1, <1>3, <1>4 DEF NoFiles, NoStops
<1>8. ASSUME Asks(cs) PROVE Asks(t)
  <2>1. \A k \in 1 .. n - 1 : t[k].name \notin {"nextdl", "donedl"}
    BY <1>1, <1>3, <1>4, <1>8 DEF Asks
  <2>2. ASSUME NEW j \in 1 .. n - 1, NEW k \in 1 .. n - 1, j < k, t[j].name = "download"
        PROVE  t[k].name # "stopdl"
    <3>1. j + 1 \in 1 .. n /\ k + 1 \in 1 .. n /\ j + 1 < k + 1
      BY <1>4, <1>5, <2>2
    <3>2. t[j] = cs[j + 1] /\ t[k] = cs[k + 1]
      BY <1>3
    <3>. QED
      BY <1>1, <1>8, <2>2, <3>1, <3>2 DEF Asks
  <2>. QED
    BY <1>3, <2>1, <2>2 DEF Asks
<1>9. 1 \in 1 .. n
  BY <1>1
<1>10. Asks(cs) /\ Head(cs).name = "download" => NoStops(t)
  BY <1>1, <1>3, <1>4, <1>9 DEF Asks, NoStops
<1>11. EndsAt(cs, 1) => NoFiles(t)
  BY <1>1, <1>3, <1>4 DEF EndsAt, NoFiles
<1>12. ASSUME NEW k \in 1 .. n, k # 1, EndsAt(cs, k)
       PROVE  k - 1 \in 1 .. n - 1 /\ EndsAt(t, k - 1)
  <2>1. k - 1 \in 1 .. n - 1 /\ k = (k - 1) + 1
    BY <1>1, <1>12
  <2>2. PICK l \in 1 .. n - 1 : l = k - 1 /\ k = l + 1
    BY <2>1
  <2>3. t[l].name = "donedl"
    BY <1>3, <1>12, <2>2 DEF EndsAt
  <2>4. ASSUME NEW j \in 1 .. n - 1, j > l PROVE t[j].name \notin Files
    <3>1. j + 1 > k /\ j + 1 \in 1 .. n
      BY <1>1, <2>2, <2>4
    <3>. QED
      BY <1>1, <1>3, <1>12, <3>1 DEF EndsAt
  <2>5. ASSUME l > 1 PROVE t[l - 1].name = "nextdl"
    <3>1. l - 1 \in 1 .. n - 1 /\ (l - 1) + 1 = k - 1 /\ k > 1
      BY <1>1, <2>2, <2>5
    <3>2. t[l - 1] = cs[(l - 1) + 1]
      BY <1>3, <3>1
    <3>. QED
      BY <1>12, <3>1, <3>2 DEF EndsAt
  <2>6. ASSUME NEW j \in 1 .. n - 1, j < l - 1
        PROVE  t[j].name \notin {"nextdl", "donedl", "stopdl"}
    <3>1. j + 1 < k - 1 /\ j + 1 \in 1 .. n
      BY <1>1, <2>2, <2>6
    <3>. QED
      BY <1>1, <1>3, <1>12, <3>1 DEF EndsAt
  <2>7. EndsAt(t, l)
    BY <1>3, <2>3, <2>4, <2>5, <2>6 DEF EndsAt
  <2>. QED
    BY <2>2, <2>7
<1>. QED
  BY <1>1, <1>2, <1>3, <1>6, <1>7, <1>8, <1>10, <1>11, <1>12

\* Nothing about files in the first n of them, when there are more.
LEMMA FreeMore ==
    ASSUME NEW cs \in Seq(ClientCommand), NEW new \in Seq(ClientCommand),
           NEW n \in Nat, n <= Len(cs), Free(cs, n)
    PROVE  Free(cs \o new, n)
<1>1. PICK l \in Nat, m \in Nat : l = Len(cs) /\ m = Len(new) /\ DOMAIN cs = 1 .. l
  OBVIOUS
<1>2. /\ DOMAIN (cs \o new) = 1 .. l + m
      /\ \A i \in 1 .. l + m : (cs \o new)[i] = IF i <= l THEN cs[i] ELSE new[i - l]
  BY <1>1, ConcatProperties
<1>3. ASSUME NEW k \in 1 .. l + m, k <= n
      PROVE  (cs \o new)[k].name \notin Files
  <2>1. k \in 1 .. l /\ k <= l
    BY <1>1, <1>3
  <2>. QED
    BY <1>1, <1>2, <1>3, <2>1 DEF Free
<1>. QED
  BY <1>2, <1>3 DEF Free

\* One more.
LEMMA CommandsMore ==
    ASSUME NEW cs \in Seq(ClientCommand), NEW c \in ClientCommand
    PROVE  /\ NoFiles(cs) => Asks(cs)
           /\ NoFiles(cs) /\ c.name \notin Files => NoFiles(Append(cs, c))
           /\ NoStops(cs) /\ c.name # "stopdl" => NoStops(Append(cs, c))
           /\ Asks(cs) /\ c.name \notin {"nextdl", "donedl", "stopdl"} => Asks(Append(cs, c))
           /\ \A k \in DOMAIN cs : c.name \notin Files /\ EndsAt(cs, k) =>
                k \in DOMAIN Append(cs, c) /\ EndsAt(Append(cs, c), k)
<1>1. PICK n \in Nat : n = Len(cs) /\ DOMAIN cs = 1 .. n
  OBVIOUS
<1>2. PICK a : a = Append(cs, c)
  OBVIOUS
<1>3. /\ DOMAIN a = 1 .. n + 1
      /\ \A i \in 1 .. n : a[i] = cs[i]
      /\ a[n + 1] = c
  BY <1>1, <1>2, AppendProperties
<1>4. ASSUME NEW i \in 1 .. n + 1 PROVE i \in 1 .. n \/ i = n + 1
  BY <1>1
<1>5. ASSUME NEW i \in 1 .. n + 1, NEW j \in 1 .. n + 1, i < j PROVE i \in 1 .. n
  BY <1>1, <1>5
<1>6. NoFiles(cs) => Asks(cs)
  BY DEF NoFiles, Asks, Files
<1>7. NoFiles(cs) /\ c.name \notin Files => NoFiles(a)
  BY <1>1, <1>3, <1>4 DEF NoFiles
<1>8. NoStops(cs) /\ c.name # "stopdl" => NoStops(a)
  BY <1>1, <1>3, <1>4 DEF NoStops
<1>9. Asks(cs) /\ c.name \notin {"nextdl", "donedl", "stopdl"} => Asks(a)
  BY <1>1, <1>3, <1>4, <1>5 DEF Asks
<1>10. ASSUME NEW k \in 1 .. n, c.name \notin Files, EndsAt(cs, k)
       PROVE  k \in 1 .. n + 1 /\ EndsAt(a, k)
  <2>1. k \in 1 .. n + 1 /\ a[k] = cs[k]
    BY <1>1, <1>3
  <2>2. \A j \in 1 .. n + 1 : j > k => a[j].name \notin Files
    BY <1>1, <1>3, <1>4, <1>10 DEF EndsAt
  <2>3. k > 1 => a[k - 1].name = "nextdl"
    <3>1. k > 1 => k - 1 \in 1 .. n
      BY <1>1
    <3>. QED
      BY <1>3, <1>10, <3>1 DEF EndsAt
  <2>4. ASSUME NEW j \in 1 .. n + 1, j < k - 1
        PROVE  a[j].name \notin {"nextdl", "donedl", "stopdl"}
    <3>1. j \in 1 .. n
      BY <1>1, <2>4
    <3>. QED
      BY <1>1, <1>3, <1>10, <2>4, <3>1 DEF EndsAt
  <2>. QED
    BY <1>3, <1>10, <2>1, <2>2, <2>3, <2>4 DEF EndsAt
<1>. QED
  BY <1>1, <1>2, <1>3, <1>6, <1>7, <1>8, <1>9, <1>10

\* The last block: nextdl and donedl.
LEMMA CommandsEnd ==
    ASSUME NEW cs \in Seq(ClientCommand), NEW c \in ClientCommand, NEW d \in ClientCommand,
           Asks(cs), NoStops(cs), c.name = "nextdl", d.name = "donedl"
    PROVE  \E k \in DOMAIN (cs \o <<c, d>>) : k # 1 /\ EndsAt(cs \o <<c, d>>, k)
<1>1. PICK n \in Nat : n = Len(cs) /\ DOMAIN cs = 1 .. n
  OBVIOUS
<1>2. PICK new \in Seq(ClientCommand) :
        new = <<c, d>> /\ Len(new) = 2 /\ new[1] = c /\ new[2] = d
  <2>1. <<c, d>> \in Seq(ClientCommand)
    OBVIOUS
  <2>2. Len(<<c, d>>) = 2 /\ <<c, d>>[1] = c /\ <<c, d>>[2] = d
    OBVIOUS
  <2>. QED
    BY <2>1, <2>2
<1>3. PICK a : a = cs \o new
  OBVIOUS
<1>4. /\ DOMAIN a = 1 .. n + 2
      /\ \A i \in 1 .. n + 2 : a[i] = IF i <= n THEN cs[i] ELSE new[i - n]
  BY <1>1, <1>2, <1>3, ConcatProperties
<1>5. PICK k \in 1 .. n + 2 : k = n + 2 /\ k > 1 /\ k - 1 = n + 1 /\ k - n = 2 /\ ~(k <= n)
  BY <1>1
<1>6. a[k] = d
  BY <1>2, <1>4, <1>5
<1>7. a[k - 1] = c
  <2>1. n + 1 \in 1 .. n + 2 /\ ~(n + 1 <= n) /\ (n + 1) - n = 1
    BY <1>1
  <2>. QED
    BY <1>2, <1>4, <1>5, <2>1
<1>8. ASSUME NEW j \in 1 .. n + 2, j < k - 1
      PROVE  a[j].name \notin {"nextdl", "donedl", "stopdl"}
  <2>1. j \in 1 .. n /\ j <= n
    BY <1>1, <1>5, <1>8
  <2>. QED
    BY <1>1, <1>4, <2>1 DEF Asks, NoStops
<1>9. \A j \in 1 .. n + 2 : ~(j > k)
  BY <1>1, <1>5
<1>10. EndsAt(a, k)
  BY <1>4, <1>6, <1>7, <1>8, <1>9 DEF EndsAt
<1>11. k \in DOMAIN a /\ k # 1
  BY <1>1, <1>4, <1>5
<1>. QED
  BY <1>2, <1>3, <1>10, <1>11

--------------------------------------------------------------------------------
(* Phases of a download. *)

\* Datagrams are lost, or arrive and mean nothing for a download.
LEMMA PhaseSome ==
    ASSUME NEW dl, NEW dn \in BOOLEAN, NEW ln \in BOOLEAN, NEW cs, NEW ch, NEW c \in Seq(Message),
           SomeOf(c, ch), Phase(dl, dn, ln, cs, ch)
    PROVE  Phase(dl, dn, ln, cs, c)
<1>1. /\ NoBlocks(ch) => NoBlocks(c)
      /\ NoGames(ch) => NoGames(c)
      /\ BlocksLast(ch) => BlocksLast(c)
      /\ GamesLast(ch) => GamesLast(c)
  BY KindsSome
<1>. QED
  BY <1>1 DEF Phase

\* A snapshot, or a block of the file that is sent.
LEMMA PhaseMore ==
    ASSUME NEW dl, NEW dn \in BOOLEAN, NEW ln \in BOOLEAN, NEW cs, NEW c \in Seq(Message),
           NEW m \in Message, m.type # "gamestate", m.type = "download" => dn,
           Phase(dl, dn, ln, cs, c)
    PROVE  Phase(dl, dn, ln, cs, Append(c, m))
<1>1. PICK a : a = Append(c, m)
  OBVIOUS
<1>2. /\ NoBlocks(c) /\ ~dn => NoBlocks(a)
      /\ NoGames(c) => NoGames(a)
      /\ BlocksLast(c) => BlocksLast(a)
      /\ GamesLast(c) /\ ~dn => GamesLast(a)
  BY <1>1, KindsMore
<1>3. Phase(dl, dn, ln, cs, a)
  BY <1>2 DEF Phase
<1>. QED
  BY <1>1, <1>3

\* A gamestate, which the server sends only when it does not send the file.
LEMMA PhaseGame ==
    ASSUME NEW dl, NEW dn \in BOOLEAN, NEW ln \in BOOLEAN, NEW cs, NEW c \in Seq(Message),
           NEW m \in Message, m.type = "gamestate", ~dn, ~ln, Phase(dl, dn, ln, cs, c)
    PROVE  Phase(dl, dn, ln, cs, Append(c, m))
<1>1. PICK a : a = Append(c, m)
  OBVIOUS
<1>2. /\ NoBlocks(c) => NoBlocks(a) /\ BlocksLast(a)
      /\ GamesLast(c) => GamesLast(a)
  <2>1. m.type # "download"
    OBVIOUS
  <2>2. NoBlocks(c) => BlocksLast(c)
    BY DEF NoBlocks, BlocksLast
  <2>. QED
    BY <1>1, <2>1, <2>2, KindsMore
<1>3. Phase(dl, dn, ln, cs, a)
  BY <1>2 DEF Phase
<1>. QED
  BY <1>1, <1>3

\* The next command is executed.
LEMMA PhaseCommand ==
    ASSUME NEW dl \in {"none", "active", "done"}, NEW dn \in BOOLEAN, NEW ln \in BOOLEAN,
           NEW dm \in BOOLEAN, NEW lm \in BOOLEAN, NEW cs \in Seq(ClientCommand), NEW c,
           cs # <<>>,
           Head(cs).name \in {"cp", "download", "nextdl", "stopdl", "donedl"},
           dm = IF Head(cs).name = "cp" THEN dn ELSE Head(cs).name = "download",
           lm = (Head(cs).name = "nextdl"),
           Phase(dl, dn, ln, cs, c)
    PROVE  (Head(cs).name = "donedl" => ~dn) /\ Phase(dl, dm, lm, Tail(cs), c)
<1>1. PICK t, name : t = Tail(cs) /\ name = Head(cs).name
  OBVIOUS
<1>2. PICK n \in Nat : n = Len(cs) /\ n >= 1 /\ DOMAIN cs = 1 .. n /\ cs[1].name = name
  BY <1>1
<1>3. /\ NoFiles(cs) => NoFiles(t)
      /\ Asks(cs) => Asks(t)
      /\ NoStops(cs) => NoStops(t)
      /\ Asks(cs) /\ name = "download" => NoStops(t)
      /\ EndsAt(cs, 1) => NoFiles(t)
      /\ \A k \in DOMAIN cs : k # 1 /\ EndsAt(cs, k) => k - 1 \in DOMAIN t /\ EndsAt(t, k - 1)
  BY <1>1, CommandsTail
<1>4. 1 \in DOMAIN cs
  BY <1>2
<1>. /\ name \in {"cp", "download", "nextdl", "stopdl", "donedl"}
     /\ name = "cp" => (dm <=> dn)
     /\ name # "cp" => (dm <=> name = "download")
     /\ lm <=> name = "nextdl"
  BY <1>1
<1>5. ASSUME dl # "done"
      PROVE  (name = "donedl" => ~dn) /\ Phase(dl, dm, lm, t, c)
  <2>2. CASE dl = "none"
    <3>1. ~dn /\ ~ln /\ NoFiles(cs) /\ NoBlocks(c)
      BY <2>2 DEF Phase
    <3>2. name \notin Files
      BY <1>2, <1>4, <3>1 DEF NoFiles
    <3>. QED
      BY <1>3, <2>2, <3>1, <3>2 DEF Phase, Files
  <2>3. CASE dl = "active"
    <3>1. /\ ~ln /\ Asks(cs) /\ BlocksLast(c)
          /\ IF dn THEN NoStops(cs) ELSE NoBlocks(c)
      BY <2>3 DEF Phase
    <3>2. name \notin {"nextdl", "donedl"}
      BY <1>2, <1>4, <3>1 DEF Asks
    <3>3. name = "stopdl" => ~dn
      BY <1>2, <1>4, <3>1 DEF NoStops
    <3>. QED
      BY <1>3, <2>3, <3>1, <3>2, <3>3 DEF Phase
  <2>. QED
    BY <1>5, <2>2, <2>3
<1>6. ASSUME dl = "done", ~dn, ~ln, NoFiles(cs), GamesLast(c)
      PROVE  (name = "donedl" => ~dn) /\ Phase(dl, dm, lm, t, c)
  <2>1. name \notin Files
    BY <1>2, <1>4, <1>6 DEF NoFiles
  <2>. QED
    BY <1>3, <1>6, <2>1 DEF Phase, Files
<1>7. ASSUME dl = "done", NoGames(c), NEW k \in DOMAIN cs, EndsAt(cs, k),
             IF k = 1 THEN ln /\ ~dn ELSE dn
      PROVE  (name = "donedl" => ~dn) /\ Phase(dl, dm, lm, t, c)
  <2>1. CASE k = 1
    <3>1. name = "donedl" /\ ~dn
      BY <1>2, <1>7, <2>1 DEF EndsAt
    <3>2. GamesLast(c)
      BY <1>7 DEF NoGames, GamesLast
    <3>. QED
      BY <1>3, <1>7, <2>1, <3>1, <3>2 DEF Phase
  <2>2. CASE k # 1
    <3>1. PICK l \in DOMAIN t : l = k - 1 /\ EndsAt(t, l)
      BY <1>3, <1>7, <2>2
    <3>2. k \in 1 .. n /\ dn
      BY <1>2, <1>7, <2>2
    <3>3. CASE l = 1
      <4>1. k - 1 = 1 /\ k > 1
        BY <3>1, <3>2, <3>3
      <4>2. name = "nextdl"
        BY <1>2, <1>7, <4>1 DEF EndsAt
      <4>. QED
        BY <1>7, <3>1, <3>3, <4>2 DEF Phase
    <3>4. CASE l # 1
      <4>1. 1 < k - 1
        BY <2>2, <3>1, <3>2, <3>4
      <4>2. name \notin {"nextdl", "donedl", "stopdl"}
        BY <1>2, <1>4, <1>7, <4>1 DEF EndsAt
      <4>. QED
        BY <1>7, <3>1, <3>2, <3>4, <4>2 DEF Phase
    <3>. QED
      BY <3>3, <3>4
  <2>. QED
    BY <2>1, <2>2
<1>8. CASE dl = "done"
  <2>1. CASE ~dn /\ ~ln /\ NoFiles(cs) /\ GamesLast(c)
    BY <1>1, <1>6, <1>8, <2>1 DEF Files
  <2>2. CASE NoGames(c) /\ \E k \in DOMAIN cs : EndsAt(cs, k) /\ IF k = 1 THEN ln /\ ~dn ELSE dn
    <3>1. PICK k \in DOMAIN cs : EndsAt(cs, k) /\ IF k = 1 THEN ln /\ ~dn ELSE dn
      BY <2>2
    <3>. QED
      BY <1>1, <1>7, <1>8, <2>2, <3>1
  <2>. QED
    BY <1>8, <2>1, <2>2 DEF Phase
<1>. QED
  BY <1>1, <1>5, <1>8

\* The client says something that is not about files; it does not stop a file it has
\* asked for.
LEMMA PhaseSays ==
    ASSUME NEW dl, NEW dn \in BOOLEAN, NEW ln \in BOOLEAN, NEW cs \in Seq(ClientCommand), NEW c,
           NEW d \in ClientCommand, d.name \notin Files, d.name = "stopdl" => dl # "active",
           Phase(dl, dn, ln, cs, c)
    PROVE  Phase(dl, dn, ln, Append(cs, d), c)
<1>1. PICK a : a = Append(cs, d)
  OBVIOUS
<1>2. /\ NoFiles(cs) => NoFiles(a)
      /\ NoStops(cs) /\ d.name # "stopdl" => NoStops(a)
      /\ Asks(cs) /\ d.name \notin {"nextdl", "donedl", "stopdl"} => Asks(a)
      /\ \A k \in DOMAIN cs : EndsAt(cs, k) => k \in DOMAIN a /\ EndsAt(a, k)
  BY <1>1, CommandsMore
<1>3. d.name \notin {"nextdl", "donedl"}
  BY DEF Files
<1>4. Phase(dl, dn, ln, cs, c) => Phase(dl, dn, ln, a, c)
  <2>1. CASE dl = "done"
    BY <1>2, <2>1 DEF Phase
  <2>2. CASE dl # "done"
    BY <1>2, <1>3, <2>2 DEF Phase
  <2>. QED
    BY <2>1, <2>2
<1>. QED
  BY <1>1, <1>4

\* A gamestate arrives.
LEMMA PhaseArrives ==
    ASSUME NEW dl \in {"none", "active", "done"}, NEW dn \in BOOLEAN, NEW ln \in BOOLEAN,
           NEW cs \in Seq(ClientCommand), NEW c \in Seq(Message), c # <<>>,
           Head(c).type = "gamestate", NEW d \in ClientCommand, Phase(dl, dn, ln, cs, c)
    PROVE  /\ dl # "active" /\ d.name = "cp" => Phase("none", dn, ln, Append(cs, d), Tail(c))
           /\ dl # "done" /\ d.name = "download" => Phase("active", dn, ln, Append(cs, d), Tail(c))
<1>1. PICK a, t : a = Append(cs, d) /\ t = Tail(c)
  OBVIOUS
<1>2. PICK n \in Nat : n = Len(c) /\ n >= 1 /\ DOMAIN c = 1 .. n /\ c[1].type = "gamestate"
  OBVIOUS
<1>3. DOMAIN t = 1 .. n - 1 /\ \A i \in 1 .. n - 1 : t[i] = c[i + 1] /\ i + 1 \in 1 .. n /\ 1 < i + 1
  BY <1>1, <1>2, HeadTailProperties
<1>4. 1 \in DOMAIN c
  BY <1>2
<1>5. ~NoGames(c)
  BY <1>2, <1>4 DEF NoGames
<1>6. GamesLast(c) => NoBlocks(t)
  BY <1>2, <1>3, <1>4 DEF GamesLast, NoBlocks
<1>7. /\ NoBlocks(c) => NoBlocks(t)
      /\ NoBlocks(t) => BlocksLast(t)
      /\ BlocksLast(c) => BlocksLast(t)
  <2>1. t \in Seq(Message) /\ SomeOf(t, c)
    BY <1>1, HeadTailProperties, TailSome
  <2>2. NoBlocks(t) => BlocksLast(t)
    BY DEF NoBlocks, BlocksLast
  <2>. QED
    BY <2>1, <2>2, KindsSome
<1>8. /\ NoFiles(cs) => Asks(cs)
      /\ NoFiles(cs) /\ d.name \notin Files => NoFiles(a)
      /\ NoStops(cs) /\ d.name # "stopdl" => NoStops(a)
      /\ Asks(cs) /\ d.name \notin {"nextdl", "donedl", "stopdl"} => Asks(a)
  BY <1>1, CommandsMore
<1>9. ASSUME dl # "active", d.name = "cp" PROVE Phase("none", dn, ln, a, t)
  <2>1. ~dn /\ ~ln /\ NoFiles(cs) /\ NoBlocks(t)
    BY <1>5, <1>6, <1>7, <1>9 DEF Phase
  <2>2. d.name \notin Files
    BY <1>9 DEF Files
  <2>. QED
    BY <1>8, <2>1, <2>2 DEF Phase
<1>10. ASSUME dl # "done", d.name = "download" PROVE Phase("active", dn, ln, a, t)
  BY <1>7, <1>8, <1>10 DEF Phase
<1>. QED
  BY <1>1, <1>9, <1>10

\* The last block of a file arrives.
LEMMA PhaseFile ==
    ASSUME NEW dn \in BOOLEAN, NEW ln \in BOOLEAN,
           NEW cs \in Seq(ClientCommand), NEW c \in Seq(Message), c # <<>>,
           Head(c).type = "download", NEW d \in ClientCommand, NEW e \in ClientCommand,
           d.name = "nextdl", e.name = "donedl", Phase("active", dn, ln, cs, c)
    PROVE  Phase("done", dn, ln, cs \o <<d, e>>, Tail(c))
<1>1. PICK a, t : a = cs \o <<d, e>> /\ t = Tail(c)
  OBVIOUS
<1>2. PICK n \in Nat : n = Len(c) /\ n >= 1 /\ DOMAIN c = 1 .. n /\ c[1].type = "download"
  OBVIOUS
<1>3. DOMAIN t = 1 .. n - 1 /\ \A i \in 1 .. n - 1 : t[i] = c[i + 1] /\ i + 1 \in 1 .. n /\ 1 < i + 1
  BY <1>1, <1>2, HeadTailProperties
<1>4. 1 \in DOMAIN c
  BY <1>2
<1>5. dn /\ Asks(cs) /\ NoStops(cs) /\ BlocksLast(c)
  BY <1>2, <1>4 DEF Phase, NoBlocks
<1>6. NoGames(t)
  BY <1>2, <1>3, <1>4, <1>5 DEF BlocksLast, NoGames
<1>7. \E k \in DOMAIN a : k # 1 /\ EndsAt(a, k)
  BY <1>1, <1>5, CommandsEnd
<1>8. Phase("done", dn, ln, a, t)
  BY <1>5, <1>6, <1>7 DEF Phase
<1>. QED
  BY <1>1, <1>8

--------------------------------------------------------------------------------
(* Gamestates on their way, packets and updates. *)

\* What is said of a datagram is said of its like.
LEMMA AlikeStates ==
    /\ \A d, e : Alike(d, e) /\ GameState(e) => GameState(d)
    /\ \A p, q, n : AlikeBut(p, q, n) /\ FromMap(q) => FromMap(p)
BY DEF Alike, GameState, AlikeBut, FromMap

\* Of gamestates in order some are in order.
LEMMA InOrderSome ==
    ASSUME NEW c \in Seq(Message), NEW ch, SomeOf(c, ch), InOrder(ch)
    PROVE  InOrder(c)
<1>1. ASSUME NEW i \in DOMAIN c, NEW j \in DOMAIN c, i < j
      PROVE  \E h, k \in DOMAIN ch : h < k /\ Alike(c[i], ch[h]) /\ Alike(c[j], ch[k])
  <2>1. i <= j
    BY <1>1, LenProperties
  <2>. QED
    BY <1>1, <2>1 DEF SomeOf
<1>. QED
  BY <1>1 DEF InOrder, Alike

\* Of gamestates that are right some are right.
LEMMA GameStatesSome ==
    ASSUME GameStates, NEW c \in Seq(Message), SomeOf(c, toClient)
    PROVE  (\A i \in DOMAIN c : GameState(c[i])) /\ InOrder(c)
<1>1. \A i \in DOMAIN c : \E h \in DOMAIN toClient : Alike(c[i], toClient[h])
  BY SomeOne
<1>2. \A i \in DOMAIN c : GameState(c[i])
  BY <1>1, AlikeStates DEF GameStates
<1>. QED
  BY <1>2, InOrderSome DEF GameStates

\* Some datagrams are gone, and what makes them right stays.
LEMMA GameStatesStay ==
    ASSUME IInv, IInv', GameStates, SomeOf(toClient', toClient),
           \A d \in Message : GameState(d) => GameState(d)'
    PROVE  GameStates'
<1>1. PICK c \in Seq(Message) : c = toClient'
  BY Typed
<1>2. (\A i \in DOMAIN c : GameState(c[i])) /\ InOrder(c)
  BY <1>1, GameStatesSome
<1>3. \A i \in DOMAIN c : GameState(c[i])'
  BY <1>2
<1>. QED
  BY <1>1, <1>2, <1>3 DEF GameStates

\* A datagram is sent: if it is a gamestate, then it is of the map that is played.
LEMMA GameStatesMore ==
    ASSUME IInv, GameStates, NEW c \in Seq(Message), SomeOf(c, toClient), NEW m \in Message,
           toClient' = Append(c, m), m.type = "gamestate" => m.map = restartedServerId /\ GameState(m)',
           \A d \in Message : GameState(d) => GameState(d)'
    PROVE  GameStates'
<1>1. (\A i \in DOMAIN c : GameState(c[i])) /\ InOrder(c)
  BY GameStatesSome
<1>2. PICK n \in Nat : n = Len(c) /\ DOMAIN c = 1 .. n
  OBVIOUS
<1>3. PICK a : a = Append(c, m)
  OBVIOUS
<1>4. /\ DOMAIN a = 1 .. n + 1
      /\ \A i \in 1 .. n : a[i] = c[i] /\ c[i] \in Message
      /\ a[n + 1] = m
  BY <1>2, <1>3, AppendProperties
<1>5. ASSUME NEW i \in 1 .. n + 1 PROVE i \in 1 .. n \/ i = n + 1
  BY <1>2
<1>6. ASSUME NEW i \in 1 .. n + 1, NEW j \in 1 .. n + 1, i < j PROVE i \in 1 .. n
  BY <1>2, <1>6
<1>7. \A i \in 1 .. n + 1 : GameState(a[i])'
  <2>1. \A i \in 1 .. n : GameState(c[i])'
    BY <1>1, <1>2, <1>4
  <2>2. GameState(m)'
    BY DEF GameState
  <2>. QED
    BY <1>4, <1>5, <2>1, <2>2
<1>8. ASSUME NEW h \in 1 .. n + 1, NEW i \in 1 .. n + 1, h < i,
             a[h].type = "gamestate", a[i].type = "gamestate"
      PROVE  a[h].map <= a[i].map
  <2>1. h \in 1 .. n
    BY <1>6, <1>8
  <2>2. CASE i \in 1 .. n
    BY <1>1, <1>2, <1>4, <1>8, <2>1, <2>2 DEF InOrder
  <2>3. CASE i = n + 1
    BY <1>1, <1>2, <1>4, <1>8, <2>1, <2>3 DEF GameState
  <2>. QED
    BY <1>5, <2>2, <2>3
<1>9. InOrder(a)
  BY <1>4, <1>8 DEF InOrder
<1>. QED
  BY <1>3, <1>4, <1>7, <1>9 DEF GameStates

\* Some packets are gone, and perhaps a command was executed.
LEMMA PacketsStay ==
    ASSUME IInv, IInv', Packets, NEW n \in Nat, LeftOf(toServer', toServer, n),
           \A p \in Packet : FromMap(p) => FromMap(p)',
           \A i \in DOMAIN toServer' : current'.count <= toServer'[i].count
    PROVE  Packets'
<1>1. PICK c \in Seq(Packet) : c = toServer'
  BY Typed
<1>2. \A i \in DOMAIN c : \E h \in DOMAIN toServer : AlikeBut(c[i], toServer[h], n)
  BY <1>1, LeftOne
<1>3. \A i \in DOMAIN c : FromMap(c[i])
  BY <1>2, AlikeStates DEF Packets
<1>4. \A i \in DOMAIN c : FromMap(c[i])'
  BY <1>3
<1>5. ASSUME NEW h \in DOMAIN c, NEW i \in DOMAIN c, h < i
      PROVE  c[h].count <= c[i].count
  <2>1. h <= i
    BY <1>5, LenProperties
  <2>2. PICK j, k \in DOMAIN toServer :
          j < k /\ AlikeBut(c[h], toServer[j], n) /\ AlikeBut(c[i], toServer[k], n)
    BY <1>1, <1>5, <2>1 DEF LeftOf
  <2>3. toServer[j].count <= toServer[k].count
    BY <2>2 DEF Packets
  <2>4. PICK a \in Nat, b \in Nat : a = c[h].count /\ b = c[i].count
    BY CountsNat
  <2>5. a + n <= b + n
    BY <2>2, <2>3, <2>4 DEF AlikeBut
  <2>. QED
    BY <2>4, <2>5
<1>. QED
  BY <1>1, <1>4, <1>5 DEF Packets

\* The client sends a packet.
LEMMA PacketsMore ==
    ASSUME IInv, Packets, NEW p \in Packet, toServer' = Append(toServer, p), FromMap(p)',
           Len(clientCommands) <= p.count, current' = current,
           \A q \in Packet : FromMap(q) => FromMap(q)'
    PROVE  Packets'
<1>1. PICK l \in Nat : l = Len(clientCommands)
  BY DEF IInv, Queues
<1>2. toServer \in Seq(Counted(Packet, l))
  BY <1>1 DEF IInv, Queues
<1>3. PICK n \in Nat : n = Len(toServer) /\ DOMAIN toServer = 1 .. n
  BY <1>2
<1>4. p.count \in Nat /\ l <= p.count
  BY <1>1, CountsNat
<1>5. \A i \in 1 .. n : /\ toServer[i] \in Packet
                        /\ toServer[i].count \in Nat /\ toServer[i].count <= l
  BY <1>2, <1>3, CountsNat DEF Counted
<1>6. PICK a : a = Append(toServer, p)
  OBVIOUS
<1>7. toServer \in Seq(Packet)
  <2>1. Counted(Packet, l) \subseteq Packet
    BY DEF Counted
  <2>. QED
    BY <1>2, <2>1, SeqMonotonic
<1>8. /\ DOMAIN a = 1 .. n + 1
      /\ \A i \in 1 .. n : a[i] = toServer[i]
      /\ a[n + 1] = p
  BY <1>3, <1>6, <1>7, AppendProperties
<1>9. ASSUME NEW i \in 1 .. n + 1 PROVE i \in 1 .. n \/ i = n + 1
  BY <1>3
<1>10. ASSUME NEW i \in 1 .. n + 1, NEW j \in 1 .. n + 1, i < j PROVE i \in 1 .. n
  BY <1>3, <1>10
<1>11. current.count \in Nat /\ current.count <= l
  BY <1>1 DEF IInv, Queues
<1>12. ASSUME NEW i \in 1 .. n + 1 PROVE FromMap(a[i])'
  <2>1. CASE i \in 1 .. n
    <3>1. FromMap(toServer[i]) /\ toServer[i] \in Packet
      BY <1>3, <1>5, <2>1 DEF Packets
    <3>2. PICK q \in Packet : q = toServer[i] /\ q = a[i] /\ FromMap(q)
      BY <1>8, <2>1, <3>1
    <3>3. FromMap(q)'
      BY <3>2
    <3>. QED
      BY <3>2, <3>3
  <2>2. CASE i = n + 1
    BY <1>8, <2>2
  <2>. QED
    BY <1>9, <2>1, <2>2
<1>13. ASSUME NEW i \in 1 .. n + 1 PROVE current.count <= a[i].count
  <2>1. CASE i \in 1 .. n
    BY <1>3, <1>8, <2>1 DEF Packets
  <2>2. CASE i = n + 1
    BY <1>1, <1>4, <1>8, <1>11, <2>2
  <2>. QED
    BY <1>9, <2>1, <2>2
<1>14. ASSUME NEW h \in 1 .. n + 1, NEW i \in 1 .. n + 1, h < i
       PROVE  a[h].count <= a[i].count
  <2>1. h \in 1 .. n
    BY <1>10, <1>14
  <2>2. CASE i \in 1 .. n
    BY <1>3, <1>8, <1>14, <2>1, <2>2 DEF Packets
  <2>3. CASE i = n + 1
    BY <1>1, <1>4, <1>5, <1>8, <2>1, <2>3
  <2>. QED
    BY <1>9, <2>2, <2>3
<1>. QED
  BY <1>6, <1>8, <1>12, <1>13, <1>14 DEF Packets

\* The client is told of a new server id, or that it is dropped.
LEMMA UpdatesMore ==
    ASSUME IInv, Updates, NEW new \in Seq(ServerId), serverCommands' = serverCommands \o new,
           \A i \in DOMAIN new : Update(new[i])', \A j \in ServerId : Update(j) => Update(j)'
    PROVE  Updates'
<1>1. serverCommands \in Seq(ServerId)
  BY DEF IInv, Queues
<1>2. PICK n \in Nat, k \in Nat :
        /\ n = Len(serverCommands) /\ DOMAIN serverCommands = 1 .. n
        /\ k = Len(new) /\ DOMAIN new = 1 .. k
  BY <1>1
<1>3. PICK a : a = serverCommands \o new
  OBVIOUS
<1>4. /\ DOMAIN a = 1 .. n + k
      /\ \A i \in 1 .. n + k : a[i] = IF i <= n THEN serverCommands[i] ELSE new[i - n]
  BY <1>1, <1>2, <1>3, ConcatProperties
<1>5. ASSUME NEW i \in 1 .. n + k PROVE Update(a[i])'
  <2>1. CASE i <= n
    <3>1. i \in 1 .. n
      BY <2>1
    <3>2. PICK j \in ServerId : j = serverCommands[i] /\ j = a[i] /\ Update(j)
      BY <1>1, <1>2, <1>4, <2>1, <3>1 DEF Updates
    <3>3. Update(j)'
      BY <3>2
    <3>. QED
      BY <3>2, <3>3
  <2>2. CASE ~(i <= n)
    <3>1. i - n \in 1 .. k
      BY <2>2
    <3>2. PICK j : j = new[i - n] /\ j = a[i] /\ Update(j)'
      BY <1>2, <1>4, <2>2, <3>1
    <3>. QED
      BY <3>2
  <2>. QED
    BY <2>1, <2>2
<1>. QED
  BY <1>3, <1>4, <1>5 DEF Updates

\* The client is told of one new server id.
LEMMA UpdatesOne ==
    ASSUME IInv, Updates, NEW id \in ServerId, serverCommands' = Append(serverCommands, id),
           Update(id)', \A j \in ServerId : Update(j) => Update(j)'
    PROVE  Updates'
<1>1. serverCommands' = serverCommands \o <<id>>
  BY AppendIsConcat DEF IInv, Queues
<1>2. <<id>> \in Seq(ServerId) /\ \A i \in DOMAIN <<id>> : <<id>>[i] = id
  OBVIOUS
<1>3. \A i \in DOMAIN <<id>> : Update(<<id>>[i])'
  <2>1. PICK new : new = <<id>>
    OBVIOUS
  <2>2. \A i \in DOMAIN new : new[i] = id
    BY <1>2, <2>1
  <2>3. \A i \in DOMAIN new : Update(new[i])'
    BY <2>2
  <2>. QED
    BY <2>1, <2>3
<1>. QED
  BY <1>1, <1>2, <1>3, UpdatesMore

\* The disconnect command of a client that is dropped is no server id.
LEMMA NoUpdate == ASSUME Plain PROVE 0 \in ServerId /\ Update(0)
BY ConstantsAssumption DEF Plain, ServerId, Update, ThisMap

--------------------------------------------------------------------------------
(* User commands. *)

\* A packet of which a command was executed: what comes before its user commands is
\* not about files, and so the server has not begun or ended to send one.
LEMMA StillCommand ==
    ASSUME NEW cs \in Seq(ClientCommand), cs # <<>>, NEW p, NEW q, p.count \in Nat,
           p.move = q.move, q.count = p.count + 1, NEW s \in BOOLEAN, NEW r \in BOOLEAN,
           r => s \/ Head(cs).name \in Files, Still(q, cs, s)
    PROVE  Still(p, Tail(cs), r)
<1>. SUFFICES ASSUME p.move PROVE Free(Tail(cs), p.count) /\ ~r
  BY DEF Still
<1>1. Free(cs, p.count + 1) /\ ~s
  BY DEF Still
<1>2. Free(Tail(cs), p.count)
  BY <1>1, CommandsTail
<1>3. Head(cs).name \notin Files
  <2>1. Head(cs) = cs[1] /\ 1 \in DOMAIN cs
    OBVIOUS
  <2>2. 1 <= p.count + 1
    OBVIOUS
  <2>. QED
    BY <1>1, <2>1, <2>2 DEF Free
<1>. QED
  BY <1>1, <1>2, <1>3

\* The client says more than the packet counts.
LEMMA StillSays ==
    ASSUME NEW cs \in Seq(ClientCommand), NEW new \in Seq(ClientCommand), NEW p,
           p.count \in Nat, p.count <= Len(cs), NEW s, Still(p, cs, s)
    PROVE  Still(p, cs \o new, s)
BY FreeMore DEF Still

\* Some packets are gone.
LEMMA StillLeft ==
    ASSUME NEW c \in Seq(Packet), NEW ch \in Seq(Packet), LeftOf(c, ch, 0),
           NEW cs, NEW s, \A i \in DOMAIN ch : Still(ch[i], cs, s)
    PROVE  \A i \in DOMAIN c : Still(c[i], cs, s)
<1>. SUFFICES ASSUME NEW i \in DOMAIN c PROVE Still(c[i], cs, s)
  OBVIOUS
<1>1. PICK h \in DOMAIN ch : AlikeBut(c[i], ch[h], 0)
  BY LeftOne
<1>2. PICK p \in Packet, q \in Packet : p = c[i] /\ q = ch[h]
  OBVIOUS
<1>3. p.count = q.count /\ p.move = q.move
  BY <1>1, <1>2, CountsNat DEF AlikeBut
<1>. QED
  BY <1>2, <1>3 DEF Still

\* A command is executed, which every packet that is left counted.
LEMMA StillLeftCommand ==
    ASSUME NEW c \in Seq(Packet), NEW ch \in Seq(Packet), LeftOf(c, ch, 1),
           NEW cs \in Seq(ClientCommand), cs # <<>>, NEW s \in BOOLEAN, NEW r \in BOOLEAN,
           r => s \/ Head(cs).name \in Files, \A i \in DOMAIN ch : Still(ch[i], cs, s)
    PROVE  \A i \in DOMAIN c : Still(c[i], Tail(cs), r)
<1>. SUFFICES ASSUME NEW i \in DOMAIN c PROVE Still(c[i], Tail(cs), r)
  OBVIOUS
<1>1. PICK h \in DOMAIN ch : AlikeBut(c[i], ch[h], 1)
  BY LeftOne
<1>2. PICK p \in Packet, q \in Packet : p = c[i] /\ q = ch[h]
  OBVIOUS
<1>3. q.count = p.count + 1 /\ p.move = q.move /\ p.count \in Nat
  BY <1>1, <1>2, CountsNat DEF AlikeBut
<1>4. Still(q, cs, s)
  BY <1>2
<1>5. Still(p, Tail(cs), r)
  BY <1>3, <1>4, StillCommand
<1>. QED
  BY <1>2, <1>5

\* The client says more, and sends what counts it: it does not move, or has not said
\* anything about files.
LEMMA StillMore ==
    ASSUME IInv, NEW new \in Seq(ClientCommand), NEW s, NEW c \in Seq(Packet),
           \A i \in DOMAIN toServer : Still(toServer[i], clientCommands, s),
           c = toServer \/ \E p \in Packet :
                c = Append(toServer, p) /\ Still(p, clientCommands \o new, s)
    PROVE  \A i \in DOMAIN c : Still(c[i], clientCommands \o new, s)
<1>1. PICK cs \in Seq(ClientCommand) : cs = clientCommands
  BY DEF IInv, Queues
<1>2. toServer \in Seq(Counted(Packet, Len(cs)))
  BY <1>1 DEF IInv, Queues
<1>3. ASSUME NEW i \in DOMAIN toServer PROVE Still(toServer[i], cs \o new, s)
  <2>1. PICK p \in Packet : p = toServer[i] /\ p.count <= Len(cs) /\ p.count \in Nat
    BY <1>2, CountsNat DEF Counted
  <2>2. Still(p, cs, s)
    BY <1>1, <2>1
  <2>3. Still(p, cs \o new, s)
    BY <2>1, <2>2, StillSays
  <2>. QED
    BY <2>1, <2>3
<1>4. CASE c = toServer
  BY <1>1, <1>3, <1>4
<1>5. ASSUME NEW p \in Packet, c = Append(toServer, p), Still(p, cs \o new, s)
      PROVE  \A i \in DOMAIN c : Still(c[i], cs \o new, s)
  <2>1. toServer \in Seq(Packet)
    <3>1. Counted(Packet, Len(cs)) \subseteq Packet
      BY DEF Counted
    <3>. QED
      BY <1>2, <3>1, SeqMonotonic
  <2>2. PICK n \in Nat : n = Len(toServer) /\ DOMAIN toServer = 1 .. n
    BY <2>1
  <2>3. /\ DOMAIN c = 1 .. n + 1
        /\ \A i \in 1 .. n : c[i] = toServer[i]
        /\ c[n + 1] = p
    BY <1>5, <2>1, <2>2, AppendProperties
  <2>4. ASSUME NEW i \in 1 .. n + 1 PROVE i \in 1 .. n \/ i = n + 1
    BY <2>2
  <2>. QED
    BY <1>3, <1>5, <2>2, <2>3, <2>4
<1>. QED
  BY <1>1, <1>4, <1>5

\* What is right of datagrams and updates stays right.
MapsStay ==
    /\ \A d \in Message : GameState(d) => GameState(d)'
    /\ \A p \in Packet : FromMap(p) => FromMap(p)'
    /\ \A j \in ServerId : Update(j) => Update(j)'

\* The map stays, and the server id.
LEMMA SameMap ==
    ASSUME UNCHANGED <<serverId, restartedServerId, clMap, caught>>
    PROVE  MapsStay
BY DEF GameState, FromMap, Update, ThisMap, MapsStay

\* Nothing is lost.
LEMMA SomeSame ==
    ASSUME IInv
    PROVE  SomeOf(toClient, toClient) /\ LeftOf(toServer, toServer, 0)
<1>1. toClient \in Seq(Message) /\ toServer \in Seq(Packet)
  <2>1. \A S, n : Counted(S, n) \subseteq S
    BY DEF Counted
  <2>2. /\ toClient \in Seq(Counted(Message, Len(serverCommands)))
        /\ toServer \in Seq(Counted(Packet, Len(clientCommands)))
    BY DEF IInv, Queues
  <2>. QED
    BY <2>1, <2>2, SeqMonotonic
<1>2. \A i \in DOMAIN toClient : Alike(toClient[i], toClient[i])
  BY DEF Alike
<1>3. \A i \in DOMAIN toServer : AlikeBut(toServer[i], toServer[i], 0)
  <2>1. \A i \in DOMAIN toServer : toServer[i].count \in Nat
    BY <1>1, CountsNat
  <2>. QED
    BY <2>1 DEF AlikeBut
<1>. QED
  BY <1>1, <1>2, <1>3, SameSome, SameLeft

--------------------------------------------------------------------------------
(* A gamestate is sent. *)

\* SV_SendClientGameState: what is sent, and what is left of the packets.
LEMMA GameStateSent ==
    ASSUME IInv, IInv', MInv, NEW rest \in Seq(Packet), NEW n, LeftOf(rest, toServer, n),
           SendGameState(rest), UNCHANGED <<serverId, restartedServerId, clMap, caught>>
    PROVE  /\ GameStates'
           /\ LeftOf(toServer', toServer, n)
           /\ \E c \in Seq(Message), m \in Message :
                SomeOf(c, toClient) /\ m.type = "gamestate" /\ toClient' = Append(c, m)
<1>1. PICK c, m :
        /\ c = [i \in DOMAIN toClient |-> [toClient[i] EXCEPT !.rank = Before]]
        /\ m = [type |-> "gamestate", rank |-> It, count |-> Len(serverCommands),
                serverId |-> serverId, map |-> restartedServerId, active |-> FALSE]
  OBVIOUS
<1>2. toClient \in Seq(Message) /\ toServer \in Seq(Packet)
  BY Typed
<1>3. c \in Seq(Message) /\ SomeOf(c, toClient)
  BY <1>1, <1>2, RankedSome
<1>4. m \in Message
  <2>1. serverId \in ServerId /\ restartedServerId \in ServerId /\ Len(serverCommands) \in Nat
    BY ConstantsAssumption DEF IInv, Plain, Queues, ServerId
  <2>. QED
    BY <1>1, <2>1 DEF Message, Rank
<1>5. toClient' = Append(c, m)
  BY <1>1 DEF SendGameState
<1>6. GameState(m)'
  <2>1. /\ clMap <= restartedServerId /\ restartedServerId <= restartedServerId
        /\ serverId <= serverId
    BY DEF MInv, Loaded, IInv, Plain
  <2>2. m.map = restartedServerId /\ m.serverId = serverId
    BY <1>1
  <2>3. clMap' <= m.map /\ m.map <= restartedServerId' /\ m.serverId <= serverId'
    BY <2>1, <2>2
  <2>. QED
    BY <2>2, <2>3 DEF GameState, ThisMap
<1>7. GameStates'
  <2>1. m.map = restartedServerId
    BY <1>1
  <2>. QED
    BY <1>3, <1>4, <1>5, <1>6, <2>1, SameMap, GameStatesMore DEF MInv, MapsStay
<1>8. LeftOf(toServer', toServer, n)
  BY <1>2, RankedLeft DEF SendGameState
<1>9. m.type = "gamestate"
  BY <1>1
<1>. QED
  BY <1>3, <1>4, <1>5, <1>7, <1>8, <1>9

--------------------------------------------------------------------------------
(* Parts of steps. *)

\* Nothing is left of the message that is executed.
LEMMA NothingCounts ==
    ASSUME IInv, IInv', current' = Nothing
    PROVE  /\ \A i \in DOMAIN toServer' : current'.count <= toServer'[i].count
           /\ \A cs, s : Still(current', cs, s)
<1>1. PICK c \in Seq(Packet) : c = toServer'
  BY Typed
<1>2. \A i \in DOMAIN c : c[i].count \in Nat
  BY CountsNat
<1>3. current'.count = 0 /\ current'.move = FALSE
  BY DEF Nothing, Rest
<1>. QED
  BY <1>1, <1>2, <1>3 DEF Still

\* The client stays in its phase, or is not connected any more.
SamePhase == Connected' => Connected /\ UNCHANGED <<download, downloadName, lastNextdl, clientCommands>>

\* Packets are lost or ignored, and perhaps what is left of a message.
PacketsOnly ==
    /\ LeftOf(toServer', toServer, 0)
    /\ current' \in {current, Nothing}
    /\ download' = download
    /\ download # "none" => connstate' \in {connstate, "CA_DISCONNECTED"}

\* Packets are lost or ignored.
LEMMA PacketsOnlyStay ==
    ASSUME IInv, IInv', MInv, MapsStay, SamePhase, PacketsOnly
    PROVE  Packets' /\ Apart'
<1>1. PICK s \in Seq(Packet) : s = toServer'
  BY Typed
<1>2. \A i \in DOMAIN s : current'.count <= s[i].count
  <2>1. CASE current' = Nothing
    BY <1>1, <2>1, NothingCounts
  <2>2. CASE current' = current
    <3>1. ASSUME NEW i \in DOMAIN s PROVE current.count <= s[i].count
      <4>1. PICK h \in DOMAIN toServer : AlikeBut(s[i], toServer[h], 0)
        BY <1>1, LeftOne DEF PacketsOnly
      <4>2. s[i].count \in Nat /\ current.count <= toServer[h].count
        BY CountsNat DEF MInv, Packets
      <4>. QED
        BY <4>1, <4>2 DEF AlikeBut
    <3>. QED
      BY <2>2, <3>1
  <2>. QED
    BY <2>1, <2>2 DEF PacketsOnly
<1>3. Packets'
  <2>1. 0 \in Nat
    OBVIOUS
  <2>2. LeftOf(toServer', toServer, 0) /\ \A p \in Packet : FromMap(p) => FromMap(p)'
    BY DEF PacketsOnly, MapsStay
  <2>. QED
    BY <1>1, <1>2, <2>1, <2>2, PacketsStay DEF MInv
<1>4. CASE ~Connected'
  BY <1>3, <1>4 DEF MInv, Apart, PacketsOnly
<1>5. CASE Connected'
  <2>1. Connected /\ UNCHANGED <<download, downloadName, lastNextdl, clientCommands>>
    BY <1>5 DEF SamePhase
  <2>2. \A i \in DOMAIN s : Still(s[i], clientCommands, Sends)
    <3>1. \A i \in DOMAIN toServer : Still(toServer[i], clientCommands, Sends)
      BY <2>1 DEF MInv, Apart
    <3>2. toServer \in Seq(Packet) /\ LeftOf(s, toServer, 0)
      BY <1>1, Typed DEF PacketsOnly
    <3>. QED
      BY <3>1, <3>2, StillLeft
  <2>3. Still(current', clientCommands, Sends)
    <3>1. CASE current' = Nothing
      BY <3>1, NothingCounts
    <3>2. CASE current' = current
      BY <2>1, <3>2 DEF MInv, Apart
    <3>. QED
      BY <3>1, <3>2 DEF PacketsOnly
  <2>4. Sends' = Sends
    BY <2>1 DEF Sends
  <2>5. Apart'
    BY <1>1, <2>1, <2>2, <2>3, <2>4 DEF MInv, Apart, PacketsOnly
  <2>. QED
    BY <1>3, <2>5
<1>. QED
  BY <1>4, <1>5

\* Datagrams to the client are lost or ignored.
LEMMA ClientOnlyStay ==
    ASSUME IInv, IInv', MInv, MapsStay, SamePhase, SomeOf(toClient', toClient)
    PROVE  GameStates' /\ Phases'
<1>1. PICK c \in Seq(Message) : c = toClient'
  BY Typed
<1>2. GameStates'
  BY GameStatesStay DEF MInv, MapsStay
<1>3. CASE ~Connected'
  BY <1>2, <1>3 DEF Phases
<1>4. CASE Connected'
  <2>1. Connected /\ UNCHANGED <<download, downloadName, lastNextdl, clientCommands>>
    BY <1>4 DEF SamePhase
  <2>2. Phase(download, downloadName, lastNextdl, clientCommands, c)
    <3>1. Phase(download, downloadName, lastNextdl, clientCommands, toClient)
      BY <2>1 DEF MInv, Phases
    <3>2. downloadName \in BOOLEAN /\ lastNextdl \in BOOLEAN /\ SomeOf(c, toClient)
      BY <1>1 DEF IInv, Plain
    <3>. QED
      BY <3>1, <3>2, PhaseSome
  <2>3. Phases'
    BY <1>1, <2>1, <2>2 DEF Phases
  <2>. QED
    BY <1>2, <2>3
<1>. QED
  BY <1>3, <1>4

\* A datagram is sent: no gamestate, and a block only of the file that is sent.
LEMMA SentStay ==
    ASSUME IInv, IInv', MInv, MapsStay, SamePhase, NEW m \in Message, m.type # "gamestate",
           m.type = "download" /\ Connected' => downloadName, toClient' = Append(toClient, m)
    PROVE  GameStates' /\ Phases'
<1>1. toClient \in Seq(Message) /\ SomeOf(toClient, toClient)
  BY Typed, SomeSame
<1>2. GameStates'
  BY <1>1, GameStatesMore DEF MInv, MapsStay
<1>3. CASE ~Connected'
  BY <1>2, <1>3 DEF Phases
<1>4. CASE Connected'
  <2>1. Connected /\ UNCHANGED <<download, downloadName, lastNextdl, clientCommands>>
    BY <1>4 DEF SamePhase
  <2>2. Phase(download, downloadName, lastNextdl, clientCommands, Append(toClient, m))
    <3>1. Phase(download, downloadName, lastNextdl, clientCommands, toClient)
      BY <2>1 DEF MInv, Phases
    <3>2. downloadName \in BOOLEAN /\ lastNextdl \in BOOLEAN
      BY DEF IInv, Plain
    <3>. QED
      BY <1>1, <1>4, <3>1, <3>2, PhaseMore
  <2>3. Phases'
    BY <2>1, <2>2 DEF Phases
  <2>. QED
    BY <1>2, <2>3
<1>. QED
  BY <1>3, <1>4

\* A gamestate is sent to a client that is sent no file.
LEMMA GameStateStay ==
    ASSUME IInv, IInv', MInv, NEW rest \in Seq(Packet), LeftOf(rest, toServer, 0),
           SendGameState(rest), Connected, ~downloadName, ~lastNextdl,
           current' \in {current, Nothing},
           UNCHANGED <<serverId, restartedServerId, clMap, clServerId, caught, serverCommands,
                       clientCommands, connstate, download, downloadName, lastNextdl>>
    PROVE  MInv'
<1>1. /\ GameStates'
      /\ LeftOf(toServer', toServer, 0)
      /\ \E c \in Seq(Message), m \in Message :
           SomeOf(c, toClient) /\ m.type = "gamestate" /\ toClient' = Append(c, m)
  BY GameStateSent
<1>2. PICK c \in Seq(Message), m \in Message :
        SomeOf(c, toClient) /\ m.type = "gamestate" /\ toClient' = Append(c, m)
  BY <1>1
<1>3. state' = "CS_PRIMED" /\ Connected'
  BY DEF SendGameState, Connected
<1>4. Packets' /\ Apart'
  BY <1>1, SameMap, PacketsOnlyStay DEF SamePhase, PacketsOnly
<1>5. Phases'
  <2>1. PICK dn \in BOOLEAN, ln \in BOOLEAN : dn = downloadName /\ ln = lastNextdl
    BY DEF IInv, Plain
  <2>2. ~dn /\ ~ln /\ Phase(download, dn, ln, clientCommands, toClient)
    BY <2>1 DEF MInv, Phases
  <2>3. Phase(download, dn, ln, clientCommands, c)
    BY <1>2, <2>2, PhaseSome
  <2>4. Phase(download, dn, ln, clientCommands, Append(c, m))
    BY <1>2, <2>2, <2>3, PhaseGame
  <2>. QED
    BY <1>2, <2>1, <2>4 DEF Phases
<1>6. Updates'
  BY DEF MInv, Updates, Update, ThisMap
<1>7. Loaded'
  <2>1. current'.map <= clMap /\ (current'.move => current' = current)
    <3>1. CASE current' = Nothing
      BY <3>1 DEF Nothing, Rest, IInv, Plain, ServerId
    <3>2. CASE current' = current
      BY <3>2 DEF MInv, Loaded
    <3>. QED
      BY <3>1, <3>2
  <2>. QED
    BY <1>3, <2>1 DEF MInv, Loaded, ThisMap
<1>. QED
  BY <1>1, <1>4, <1>5, <1>6, <1>7 DEF MInv

--------------------------------------------------------------------------------
(* Every step. *)

\* A message is taken from the channel.
LEMMA ExecuteClientMessageMoves ==
    ASSUME IInv, IInv', MInv, SV_ExecuteClientMessage
    PROVE  MInv'
<1>1. PICK p : p = Head(toServer)
  OBVIOUS
<1>2. PICK rest : rest = Tail(toServer)
  OBVIOUS
<1>3. toServer \in Seq(Packet) /\ toServer # <<>> /\ toClient \in Seq(Message)
  BY Typed DEF SV_ExecuteClientMessage
<1>4. /\ p \in Packet /\ rest \in Seq(Packet) /\ LeftOf(rest, toServer, 0)
      /\ p = toServer[1] /\ 1 \in DOMAIN toServer
  BY <1>1, <1>2, <1>3, HeadTailProperties, TailLeft
<1>5. UNCHANGED <<sv, serverCommands, genuine, losses, history>>
  BY DEF SV_ExecuteClientMessage
<1>6. CASE /\ toServer' = rest
           /\ UNCHANGED <<state, slot, current, client, toClient>>
  <2>1. MapsStay /\ SamePhase /\ PacketsOnly /\ SomeOf(toClient', toClient)
    BY <1>4, <1>5, <1>6, SameMap, SomeSame
       DEF sv, history, slot, client, SamePhase, PacketsOnly, Connected
  <2>2. GameStates' /\ Phases' /\ Packets' /\ Apart'
    BY <2>1, ClientOnlyStay, PacketsOnlyStay
  <2>3. Updates' /\ Loaded'
    BY <1>5, <1>6 DEF MInv, Updates, Update, Loaded, ThisMap, sv, history, client
  <2>. QED
    BY <2>2, <2>3 DEF MInv
<1>7. CASE /\ Connected
           /\ ~downloadName /\ ~lastNextdl
           /\ SendGameState(rest)
           /\ UNCHANGED <<downloadName, blocks, lastNextdl, current, connstate, clServerId, clMap,
                          clientCommands, received, snap, download, downloads>>
  BY <1>4, <1>5, <1>7, GameStateStay DEF sv, history
<1>8. CASE /\ Connected
           /\ ~OtherGameState(p)
           /\ toServer' = rest
           /\ current' = Rest(p.count, p.move, p.map)
           /\ UNCHANGED <<state, slot, client, toClient>>
  <2>1. MapsStay /\ SamePhase /\ SomeOf(toClient', toClient)
    BY <1>5, <1>8, SameMap, SomeSame DEF sv, history, slot, client, SamePhase, Connected
  <2>2. GameStates' /\ Phases'
    BY <2>1, ClientOnlyStay
  <2>3. Updates'
    BY <1>5, <1>8 DEF MInv, Updates, Update, ThisMap, sv, history, client
  <2>4. FromMap(p) /\ Still(p, clientCommands, Sends)
    BY <1>4, <1>8 DEF MInv, Packets, Apart
  <2>5. /\ current'.count = p.count /\ current'.move = p.move
        /\ current'.map = IF p.count = 0 /\ ~p.move THEN 0 ELSE p.map
    BY <1>8 DEF Rest
  <2>6. p.map \in Nat /\ p.serverId \in Nat /\ p.count \in Nat /\ p.move \in BOOLEAN
    BY <1>4 DEF Packet, ServerId
  <2>7. /\ clMap \in Nat /\ serverId \in Nat /\ restartedServerId \in Nat
        /\ restartedServerId <= serverId
    BY ConstantsAssumption DEF IInv, Plain, ServerId
  <2>8. Loaded'
    <3>1. current'.map <= clMap
      BY <2>4, <2>5, <2>6, <2>7 DEF FromMap
    <3>2. ASSUME ~caught, current'.move PROVE current'.map = restartedServerId
      <4>1. ~Sends /\ p.move
        BY <2>4, <2>5, <3>2 DEF Still
      <4>2. p.serverId = serverId
        BY <1>8, <4>1 DEF OtherGameState, Sends
      <4>3. p.map = restartedServerId
        BY <2>4, <2>6, <2>7, <3>2, <4>2 DEF FromMap, ThisMap
      <4>. QED
        BY <2>5, <4>1, <4>3
    <3>3. UNCHANGED <<clMap, restartedServerId, clServerId, serverId, caught, state>>
      BY <1>5, <1>8 DEF sv, history, client
    <3>. QED
      BY <3>1, <3>2, <3>3 DEF MInv, Loaded, ThisMap
  <2>9. Packets'
    <3>1. ASSUME NEW i \in DOMAIN rest PROVE current'.count <= rest[i].count
      <4>1. PICK n \in Nat : n = Len(toServer) /\ n >= 1 /\ DOMAIN toServer = 1 .. n
        BY <1>3
      <4>2. i \in 1 .. n - 1 /\ rest[i] = toServer[i + 1]
        BY <1>2, <1>3, <4>1, HeadTailProperties
      <4>3. i + 1 \in 1 .. n /\ 1 < i + 1
        BY <4>1, <4>2
      <4>. QED
        BY <1>4, <2>5, <4>1, <4>2, <4>3 DEF MInv, Packets
    <3>2. 0 \in Nat /\ LeftOf(toServer', toServer, 0) /\ \A q \in Packet : FromMap(q) => FromMap(q)'
      BY <1>4, <1>8, <2>1 DEF MapsStay
    <3>. QED
      BY <1>8, <3>1, <3>2, PacketsStay DEF MInv
  <2>10. Apart'
    <3>1. \A i \in DOMAIN rest : Still(rest[i], clientCommands, Sends)
      <4>1. \A i \in DOMAIN toServer : Still(toServer[i], clientCommands, Sends)
        BY <1>8 DEF MInv, Apart
      <4>. QED
        BY <1>3, <1>4, <4>1, StillLeft
    <3>2. Still(current', clientCommands, Sends)
      BY <2>4, <2>5 DEF Still
    <3>3. Sends' = Sends /\ UNCHANGED <<clientCommands, download, connstate>>
      BY <1>8 DEF Sends, slot, client
    <3>. QED
      BY <1>8, <3>1, <3>2, <3>3 DEF MInv, Apart
  <2>. QED
    BY <2>2, <2>3, <2>8, <2>9, <2>10 DEF MInv
<1>. QED
  BY <1>1, <1>2, <1>6, <1>7, <1>8 DEF SV_ExecuteClientMessage, OtherGameState

\* Every packet counts a command that is executed, as it counts at least what is left of
\* an earlier one.
LEMMA CommandLeft ==
    ASSUME IInv, Packets, NEW name, NextCommand(name)
    PROVE  /\ clientCommands \in Seq(ClientCommand) /\ clientCommands # <<>>
           /\ Head(clientCommands).name = name
           /\ Connected
           /\ Executed(toServer, 1) \in Seq(Packet)
           /\ LeftOf(Executed(toServer, 1), toServer, 1)
<1>1. /\ clientCommands \in Seq(ClientCommand)
      /\ toServer \in Seq(Counted(Packet, Len(clientCommands)))
      /\ current.count \in 0 .. Len(clientCommands) /\ current.count > 0
  BY DEF IInv, Queues, NextCommand
<1>2. clientCommands # <<>>
  BY <1>1
<1>3. toServer \in Seq(Packet)
  <2>1. Counted(Packet, Len(clientCommands)) \subseteq Packet
    BY DEF Counted
  <2>. QED
    BY <1>1, <2>1, SeqMonotonic
<1>4. ASSUME NEW i \in DOMAIN toServer PROVE toServer[i].count >= 1
  <2>1. PICK c \in Nat : c = current.count /\ c > 0
    BY <1>1
  <2>2. toServer[i].count \in Nat /\ c <= toServer[i].count
    BY <1>3, <2>1, CountsNat DEF Packets
  <2>. QED
    BY <2>1, <2>2
<1>5. Connected
  <2>1. current # Nothing
    BY <1>1 DEF Nothing, Rest
  <2>. QED
    BY <2>1 DEF IInv, Flags
<1>. QED
  BY <1>1, <1>2, <1>3, <1>4, <1>5, ExecutedLeft DEF NextCommand

\* The packets of a client of which a command was executed.
LEMMA CommandPackets ==
    ASSUME IInv, IInv', MInv, NEW name, NextCommand(name), SV_ClientCommand, caught' = caught,
           LeftOf(toServer', toServer, 1), downloadName' => downloadName \/ name = "download"
    PROVE  /\ Packets' /\ Apart'
           /\ current'.map <= clMap
           /\ current'.move => current.move /\ current'.map = current.map
<1>1. /\ clientCommands' = Tail(clientCommands)
      /\ lastNextdl' = (name = "nextdl")
      /\ current' = IF state' = "CS_ZOMBIE" THEN Nothing
                    ELSE Rest(current.count - 1, current.move, current.map)
      /\ UNCHANGED <<serverId, restartedServerId, clMap, connstate, download>>
  BY DEF SV_ClientCommand, NextCommand, sv
<1>2. /\ clientCommands \in Seq(ClientCommand) /\ clientCommands # <<>>
      /\ Head(clientCommands).name = name
      /\ Connected
  BY CommandLeft DEF MInv
<1>3. /\ current.count \in Nat /\ current.count >= 1
      /\ current.map \in Nat /\ current.map <= clMap /\ clMap \in Nat
  <2>1. current \in [count : 0 .. Len(clientCommands), move : BOOLEAN, map : ServerId]
    BY DEF IInv, Queues
  <2>2. current.map \in Nat /\ clMap \in Nat
    BY <2>1, ConstantsAssumption DEF IInv, Plain, ServerId
  <2>3. current.count \in Nat /\ current.count >= 1
    BY <2>1 DEF NextCommand
  <2>. QED
    BY <2>2, <2>3 DEF MInv, Loaded
<1>4. PICK l \in Nat : l = current.count - 1 /\ current.count = l + 1
  BY <1>3
<1>5. current' = Nothing \/ current' = Rest(l, current.move, current.map)
  BY <1>1, <1>4
<1>6. /\ current'.map <= clMap
      /\ current'.move => current.move /\ current'.map = current.map
  BY <1>3, <1>5 DEF Nothing, Rest
<1>7. PICK s \in Seq(Packet) : s = toServer'
  BY Typed
<1>8. ASSUME NEW i \in DOMAIN s PROVE current'.count <= s[i].count
  <2>1. PICK h \in DOMAIN toServer : AlikeBut(s[i], toServer[h], 1)
    BY <1>7, LeftOne
  <2>2. s[i].count \in Nat /\ l + 1 <= s[i].count + 1
    BY <1>4, <2>1, CountsNat DEF MInv, Packets, AlikeBut
  <2>3. current'.count = 0 \/ current'.count = l
    BY <1>5 DEF Nothing, Rest
  <2>. QED
    BY <2>2, <2>3
<1>9. Packets'
  <2>1. \A p \in Packet : FromMap(p) => FromMap(p)'
    BY <1>1, SameMap DEF MapsStay
  <2>2. 1 \in Nat
    OBVIOUS
  <2>. QED
    BY <1>7, <1>8, <2>1, <2>2, PacketsStay DEF MInv
<1>10. PICK r \in BOOLEAN, t \in BOOLEAN : r = Sends' /\ t = Sends
  <2>1. Sends \in BOOLEAN /\ Sends' \in BOOLEAN
    BY DEF Sends
  <2>. QED
    BY <2>1
<1>11. r => t \/ name \in Files
  BY <1>1, <1>10 DEF Sends, Files
<1>12. Still(current, clientCommands, t) /\ \A i \in DOMAIN toServer : Still(toServer[i], clientCommands, t)
  BY <1>2, <1>10 DEF MInv, Apart
<1>13. \A i \in DOMAIN s : Still(s[i], Tail(clientCommands), r)
  <2>1. toServer \in Seq(Packet)
    BY Typed
  <2>. QED
    BY <1>2, <1>7, <1>11, <1>12, <2>1, StillLeftCommand
<1>14. Still(current', Tail(clientCommands), r)
  <2>1. CASE current' = Nothing
    BY <2>1, NothingCounts
  <2>2. CASE current' = Rest(l, current.move, current.map)
    <3>1. PICK p : p = Rest(l, current.move, current.map)
      OBVIOUS
    <3>2. p.count = l /\ p.move = current.move
      BY <3>1 DEF Rest
    <3>3. Still(p, Tail(clientCommands), r)
      BY <1>2, <1>4, <1>11, <1>12, <3>2, StillCommand
    <3>. QED
      BY <2>2, <3>1, <3>3
  <2>. QED
    BY <1>5, <2>1, <2>2
<1>15. Apart'
  BY <1>1, <1>7, <1>10, <1>13, <1>14 DEF MInv, Apart
<1>. QED
  BY <1>6, <1>9, <1>15

\* A command other than donedl, of a client that is not dropped.
LEMMA CommandStay ==
    ASSUME IInv, IInv', MInv, NEW name \in {"cp", "download", "nextdl", "stopdl"},
           NextCommand(name), SV_ClientCommand, toServer' = Executed(toServer, 1),
           downloadName' = IF name = "cp" THEN downloadName ELSE name = "download",
           UNCHANGED <<state, caught, serverCommands, toClient>>
    PROVE  MInv'
<1>1. /\ clientCommands \in Seq(ClientCommand) /\ clientCommands # <<>>
      /\ Head(clientCommands).name = name
      /\ Connected
      /\ LeftOf(toServer', toServer, 1)
  BY CommandLeft DEF MInv
<1>2. /\ clientCommands' = Tail(clientCommands)
      /\ lastNextdl' = (name = "nextdl")
      /\ UNCHANGED <<serverId, restartedServerId, clMap, clServerId, connstate, download>>
  BY DEF SV_ClientCommand, NextCommand, sv
<1>3. /\ Packets' /\ Apart'
      /\ current'.map <= clMap
      /\ current'.move => current.move /\ current'.map = current.map
  BY <1>1, CommandPackets
<1>4. GameStates' /\ Updates'
  <2>1. SomeOf(toClient', toClient)
    BY SomeSame
  <2>. QED
    BY <1>2, <2>1, SameMap, GameStatesStay DEF MInv, MapsStay, Updates, Update, ThisMap
<1>5. Loaded'
  BY <1>2, <1>3 DEF MInv, Loaded, ThisMap
<1>6. Phases'
  <2>1. PICK dn \in BOOLEAN, ln \in BOOLEAN, dm \in BOOLEAN, lm \in BOOLEAN :
          dn = downloadName /\ ln = lastNextdl /\ dm = downloadName' /\ lm = lastNextdl'
    BY DEF IInv, Plain
  <2>2. Phase(download, dn, ln, clientCommands, toClient)
    BY <1>1, <2>1 DEF MInv, Phases
  <2>3. /\ dm = IF Head(clientCommands).name = "cp" THEN dn ELSE Head(clientCommands).name = "download"
        /\ lm = (Head(clientCommands).name = "nextdl")
        /\ Head(clientCommands).name \in {"cp", "download", "nextdl", "stopdl", "donedl"}
    BY <1>1, <1>2, <2>1
  <2>4. download \in {"none", "active", "done"}
    BY DEF IInv, Plain
  <2>5. Phase(download, dm, lm, Tail(clientCommands), toClient)
    BY <1>1, <2>2, <2>3, <2>4, PhaseCommand
  <2>. QED
    BY <1>2, <2>1, <2>5 DEF Phases
<1>. QED
  BY <1>3, <1>4, <1>5, <1>6 DEF MInv

\* A client that is dropped is told so, or is not.
LEMMA UpdatesTold ==
    ASSUME IInv, Updates, MapsStay, NEW b,
           serverCommands' = IF b THEN serverCommands ELSE Append(serverCommands, 0)
    PROVE  Updates'
<1>1. 0 \in ServerId /\ Update(0)
  BY NoUpdate DEF IInv
<1>2. Update(0)' /\ \A j \in ServerId : Update(j) => Update(j)'
  BY <1>1 DEF MapsStay
<1>3. CASE ~b
  BY <1>1, <1>2, <1>3, UpdatesOne
<1>4. CASE b
  <2>1. serverCommands' = serverCommands \o <<>>
    BY <1>4, ConcatEmptySeq DEF IInv, Queues
  <2>2. <<>> \in Seq(ServerId) /\ DOMAIN <<>> = {}
    OBVIOUS
  <2>. QED
    BY <1>2, <2>1, <2>2, UpdatesMore
<1>. QED
  BY <1>3, <1>4

\* SV_VerifyPaks_f: the client stays in its phase or is dropped.
LEMMA VerifyPaksMoves ==
    ASSUME IInv, IInv', MInv, SV_VerifyPaks_f
    PROVE  MInv'
<1>1. NextCommand("cp") /\ SV_ClientCommand /\ toServer' = Executed(toServer, 1)
  BY DEF SV_VerifyPaks_f
<1>2. CASE UNCHANGED <<state, downloadName, serverCommands, toClient, history>>
  BY <1>1, <1>2, CommandStay DEF history
<1>3. CASE /\ toClient' = Append(toClient, Snapshot(TRUE))
           /\ state' = "CS_ZOMBIE"
           /\ serverCommands' = serverCommands \o <<0, 0>>
           /\ downloadName' = FALSE
           /\ UNCHANGED caught
  <2>1. UNCHANGED <<serverId, restartedServerId, clMap, clServerId, caught>> /\ ~Connected'
    BY <1>1, <1>3 DEF SV_ClientCommand, sv, Connected
  <2>2. MapsStay /\ SamePhase
    BY <2>1, SameMap DEF SamePhase
  <2>3. GameStates' /\ Phases'
    <3>1. Snapshot(TRUE) \in Message /\ Snapshot(TRUE).type = "snapshot"
      <4>1. Len(serverCommands) \in Nat /\ 0 \in ServerId
        BY ConstantsAssumption DEF IInv, Queues, ServerId
      <4>. QED
        BY <4>1 DEF Snapshot, Message, Rank
    <3>. QED
      BY <1>3, <2>2, <3>1, SentStay
  <2>4. /\ Packets' /\ Apart'
        /\ current'.map <= clMap
        /\ current'.move => current.move /\ current'.map = current.map
    <3>1. LeftOf(toServer', toServer, 1)
      BY <1>1, CommandLeft DEF MInv
    <3>. QED
      BY <1>1, <1>3, <3>1, CommandPackets
  <2>5. Loaded'
    BY <1>3, <2>1, <2>4 DEF MInv, Loaded, ThisMap
  <2>6. Updates'
    <3>1. 0 \in ServerId /\ Update(0)
      BY NoUpdate DEF IInv
    <3>2. PICK new \in Seq(ServerId) : new = <<0, 0>> /\ \A i \in DOMAIN new : new[i] = 0
      <4>1. <<0, 0>> \in Seq(ServerId) /\ \A i \in DOMAIN <<0, 0>> : <<0, 0>>[i] = 0
        BY <3>1
      <4>. QED
        BY <4>1
    <3>3. Update(0)' /\ \A j \in ServerId : Update(j) => Update(j)'
      BY <2>2, <3>1 DEF MapsStay
    <3>4. \A i \in DOMAIN new : Update(new[i])'
      BY <3>2, <3>3
    <3>. QED
      BY <1>3, <3>2, <3>3, <3>4, UpdatesMore DEF MInv
  <2>. QED
    BY <2>3, <2>4, <2>5, <2>6 DEF MInv
<1>. QED
  BY <1>2, <1>3 DEF SV_VerifyPaks_f

\* SV_BeginDownload_f, SV_StopDownload_f and SV_NextDownload_f: the phase goes on.
LEMMA BeginStopDownloadMoves ==
    ASSUME IInv, IInv', MInv, SV_BeginDownload_f \/ SV_StopDownload_f
    PROVE  MInv'
<1>1. PICK name \in {"download", "nextdl", "stopdl"} :
        NextCommand(name) /\ downloadName' = (name = "download")
  BY DEF SV_BeginDownload_f, SV_StopDownload_f
<1>2. /\ SV_ClientCommand /\ toServer' = Executed(toServer, 1)
      /\ UNCHANGED <<state, caught, serverCommands, toClient>>
  BY DEF SV_BeginDownload_f, SV_StopDownload_f, history
<1>3. downloadName' = IF name = "cp" THEN downloadName ELSE name = "download"
  BY <1>1
<1>4. name \in {"cp", "download", "nextdl", "stopdl"}
  BY <1>1
<1>. QED
  BY <1>1, <1>2, <1>3, <1>4, CommandStay

\* SV_DoneDownload_f: the client that downloaded is sent the gamestate of the map that is played.
LEMMA DoneDownloadMoves ==
    ASSUME IInv, IInv', MInv, SV_DoneDownload_f
    PROVE  MInv'
<1>1. NextCommand("donedl") /\ SV_ClientCommand
  BY DEF SV_DoneDownload_f
<1>2. /\ clientCommands' = Tail(clientCommands)
      /\ lastNextdl' = FALSE
      /\ UNCHANGED <<serverId, restartedServerId, clMap, clServerId, connstate, download>>
      /\ UNCHANGED <<downloadName, serverCommands, caught>>
  BY <1>1 DEF SV_ClientCommand, SV_DoneDownload_f, NextCommand, sv, history
<1>3. /\ clientCommands \in Seq(ClientCommand) /\ clientCommands # <<>>
      /\ Head(clientCommands).name = "donedl"
      /\ Connected
      /\ Executed(toServer, 1) \in Seq(Packet)
      /\ LeftOf(Executed(toServer, 1), toServer, 1)
  BY <1>1, CommandLeft DEF MInv
<1>4. PICK dm \in BOOLEAN, lm \in BOOLEAN :
        /\ dm = downloadName' /\ lm = lastNextdl' /\ ~dm /\ ~lm
        /\ Phase(download, dm, lm, Tail(clientCommands), toClient)
  <2>1. PICK dn \in BOOLEAN, ln \in BOOLEAN, dm \in BOOLEAN, lm \in BOOLEAN :
          dn = downloadName /\ ln = lastNextdl /\ ~dm /\ ~lm
    BY DEF IInv, Plain
  <2>2. Phase(download, dn, ln, clientCommands, toClient)
    BY <1>3, <2>1 DEF MInv, Phases
  <2>3. /\ dm = IF Head(clientCommands).name = "cp" THEN dn ELSE Head(clientCommands).name = "download"
        /\ lm = (Head(clientCommands).name = "nextdl")
        /\ Head(clientCommands).name \in {"cp", "download", "nextdl", "stopdl", "donedl"}
    BY <1>3, <2>1
  <2>4. download \in {"none", "active", "done"}
    BY DEF IInv, Plain
  <2>5. ~dn /\ Phase(download, dm, lm, Tail(clientCommands), toClient)
    BY <1>3, <2>2, <2>3, <2>4, PhaseCommand
  <2>6. dm = downloadName' /\ lm = lastNextdl'
    BY <1>2, <2>1, <2>5
  <2>. QED
    BY <2>1, <2>5, <2>6
<1>5. Updates'
  BY <1>2 DEF MInv, Updates, Update, ThisMap
<1>6. CASE /\ toServer' = Executed(toServer, 1)
           /\ UNCHANGED <<state, gotCP, pureAuthentic, serverMessage, toClient>>
  <2>1. /\ Packets' /\ Apart'
        /\ current'.map <= clMap
        /\ current'.move => current.move /\ current'.map = current.map
    BY <1>1, <1>2, <1>3, <1>6, CommandPackets
  <2>2. GameStates'
    <3>1. SomeOf(toClient', toClient)
      BY <1>6, SomeSame
    <3>. QED
      BY <1>2, <3>1, SameMap, GameStatesStay DEF MInv, MapsStay
  <2>3. Loaded'
    BY <1>2, <1>6, <2>1 DEF MInv, Loaded, ThisMap
  <2>4. Phases'
    BY <1>2, <1>4, <1>6 DEF Phases
  <2>. QED
    BY <1>5, <2>1, <2>2, <2>3, <2>4 DEF MInv
<1>7. CASE SendGameState(Executed(toServer, 1))
  <2>1. /\ GameStates'
        /\ LeftOf(toServer', toServer, 1)
        /\ \E c \in Seq(Message), m \in Message :
             SomeOf(c, toClient) /\ m.type = "gamestate" /\ toClient' = Append(c, m)
    BY <1>2, <1>3, <1>7, GameStateSent
  <2>2. /\ Packets' /\ Apart'
        /\ current'.map <= clMap
        /\ current'.move => current.move /\ current'.map = current.map
    BY <1>1, <1>2, <2>1, CommandPackets
  <2>3. state' = "CS_PRIMED"
    BY <1>7 DEF SendGameState
  <2>4. Loaded'
    BY <1>2, <2>2, <2>3 DEF MInv, Loaded, ThisMap
  <2>5. Phases'
    <3>1. PICK c \in Seq(Message), m \in Message :
            SomeOf(c, toClient) /\ m.type = "gamestate" /\ toClient' = Append(c, m)
      BY <2>1
    <3>2. Phase(download, dm, lm, Tail(clientCommands), c)
      BY <1>4, <3>1, PhaseSome
    <3>3. Phase(download, dm, lm, Tail(clientCommands), Append(c, m))
      BY <1>4, <3>1, <3>2, PhaseGame
    <3>. QED
      BY <1>2, <1>4, <3>1, <3>3 DEF Phases
  <2>. QED
    BY <1>5, <2>1, <2>2, <2>4, <2>5 DEF MInv
<1>. QED
  BY <1>6, <1>7 DEF SV_DoneDownload_f

\* SV_Disconnect_f: the client is dropped.
LEMMA DisconnectCommandMoves ==
    ASSUME IInv, IInv', MInv, SV_Disconnect_f
    PROVE  MInv'
<1>1. NextCommand("disconnect") /\ SV_ClientCommand /\ toServer' = Executed(toServer, 1)
  BY DEF SV_Disconnect_f
<1>2. /\ UNCHANGED <<serverId, restartedServerId, clMap, clServerId, caught, toClient>>
      /\ state' = "CS_ZOMBIE" /\ ~Connected'
      /\ serverCommands' = IF state = "CS_CONNECTED" THEN serverCommands ELSE Append(serverCommands, 0)
      /\ downloadName' = FALSE
  BY DEF SV_Disconnect_f, SV_ClientCommand, Drop, Connected, sv
<1>3. /\ Packets' /\ Apart'
      /\ current'.map <= clMap
      /\ current'.move => current.move /\ current'.map = current.map
  <2>1. LeftOf(toServer', toServer, 1)
    BY <1>1, CommandLeft DEF MInv
  <2>. QED
    BY <1>1, <1>2, <2>1, CommandPackets
<1>4. MapsStay /\ SamePhase
  BY <1>2, SameMap DEF SamePhase
<1>5. GameStates' /\ Phases'
  <2>1. SomeOf(toClient', toClient)
    BY <1>2, SomeSame
  <2>. QED
    BY <1>4, <2>1, ClientOnlyStay
<1>6. Loaded'
  BY <1>2, <1>3 DEF MInv, Loaded, ThisMap
<1>7. Updates'
  BY <1>2, <1>4, UpdatesTold DEF MInv
<1>. QED
  BY <1>3, <1>5, <1>6, <1>7 DEF MInv

\* A user command of a client that has not been in the world yet puts it there: it was made
\* on the map that is played, and so the client has loaded that map.
LEMMA UserMoveMoves ==
    ASSUME IInv, IInv', MInv, SV_UserMove
    PROVE  MInv'
<1>1. /\ UNCHANGED <<sv, downloadName, blocks, lastNextdl, connstate, clServerId, clMap,
                     clientCommands, received, snap, download, downloads, genuine, losses,
                     serverCommands>>
      /\ current' = Nothing /\ current.move
  BY DEF SV_UserMove
<1>2. current # Nothing
  BY <1>1 DEF Nothing, Rest
<1>3. Connected
  BY <1>2 DEF IInv, Flags
<1>4. CASE SendGameState(toServer) /\ UNCHANGED history
  <2>1. ~downloadName /\ ~lastNextdl
    BY <1>1, <1>3 DEF MInv, Apart, Still, Sends
  <2>2. toServer \in Seq(Packet) /\ LeftOf(toServer, toServer, 0)
    BY Typed, SomeSame
  <2>. QED
    BY <1>1, <1>3, <1>4, <2>1, <2>2, GameStateStay DEF sv, history
<1>5. CASE /\ UNCHANGED <<toClient, toServer, caught>>
           /\ state' = state \/ (state = "CS_PRIMED" /\ state' = "CS_ACTIVE")
  <2>1. MapsStay /\ SamePhase
    BY <1>1, <1>3, <1>5, SameMap DEF SamePhase, sv
  <2>2. SomeOf(toClient', toClient) /\ PacketsOnly
    BY <1>1, <1>5, SomeSame DEF PacketsOnly
  <2>3. GameStates' /\ Phases' /\ Packets' /\ Apart'
    BY <2>1, <2>2, ClientOnlyStay, PacketsOnlyStay
  <2>4. Updates'
    BY <1>1, <1>5 DEF MInv, Updates, Update, ThisMap, sv
  <2>5. Loaded'
    <3>1. /\ clMap \in Nat /\ restartedServerId \in Nat /\ current.map \in Nat
      <4>1. current \in [count : 0 .. Len(clientCommands), move : BOOLEAN, map : ServerId]
        BY DEF IInv, Queues
      <4>. QED
        BY <4>1 DEF IInv, Plain, ServerId
    <3>2. ~caught => clMap = restartedServerId
      BY <1>1, <3>1 DEF MInv, Loaded
    <3>3. current'.map = 0 /\ current'.move = FALSE /\ 0 <= clMap
      BY <1>1, <3>1 DEF Nothing, Rest
    <3>4. UNCHANGED <<serverId, restartedServerId, clMap, clServerId, caught>>
      BY <1>1, <1>5 DEF sv
    <3>. QED
      BY <3>2, <3>3, <3>4 DEF MInv, Loaded, ThisMap
  <2>. QED
    BY <2>3, <2>4, <2>5 DEF MInv
<1>. QED
  BY <1>4, <1>5 DEF SV_UserMove, history

\* SV_SendClientSnapshot, SV_SendDownloadMessages: nothing changes that the maps of
\* datagrams and commands are compared with.
LEMMA SendMoves ==
    ASSUME IInv, IInv', MInv, SV_SendClientSnapshot \/ SV_SendDownloadMessages
    PROVE  MInv'
<1>1. /\ UNCHANGED <<serverId, restartedServerId, clMap, clServerId, caught, state, connstate,
                     download, downloadName, lastNextdl, clientCommands, serverCommands, current,
                     toServer>>
      /\ \E m \in Message : /\ m.type # "gamestate" /\ (m.type = "download" => downloadName)
                            /\ toClient' = Append(toClient, m)
  <2>1. CASE SV_SendClientSnapshot
    <3>1. PICK m : m = Snapshot(state = "CS_ACTIVE")
      OBVIOUS
    <3>2. m \in Message /\ m.type = "snapshot"
      <4>1. Len(serverCommands) \in Nat /\ 0 \in ServerId
        BY ConstantsAssumption DEF IInv, Queues, ServerId
      <4>. QED
        BY <3>1, <4>1 DEF Snapshot, Message, Rank
    <3>. QED
      BY <2>1, <3>1, <3>2 DEF SV_SendClientSnapshot, sv, slot, client, history
  <2>2. CASE SV_SendDownloadMessages
    <3>1. PICK m : m = [type |-> "download", rank |-> Later, count |-> 0, serverId |-> 0, map |-> 0,
                        active |-> FALSE]
      OBVIOUS
    <3>2. m \in Message /\ m.type = "download"
      <4>1. 0 \in ServerId
        BY ConstantsAssumption DEF ServerId
      <4>. QED
        BY <3>1, <4>1 DEF Message, Rank
    <3>. QED
      BY <2>2, <3>1, <3>2 DEF SV_SendDownloadMessages, sv, client, history
  <2>. QED
    BY <2>1, <2>2
<1>2. MapsStay /\ SamePhase
  BY <1>1, SameMap DEF SamePhase, Connected
<1>3. GameStates' /\ Phases'
  BY <1>1, <1>2, SentStay
<1>4. Packets' /\ Apart'
  BY <1>1, <1>2, SomeSame, PacketsOnlyStay DEF PacketsOnly
<1>5. Updates' /\ Loaded'
  BY <1>1 DEF MInv, Updates, Update, Loaded, ThisMap
<1>. QED
  BY <1>3, <1>4, <1>5 DEF MInv

\* No datagram has the server id of the new map.
LEMMA SpawnServerMoves ==
    ASSUME IInv, IInv', MInv, SV_SpawnServer
    PROVE  MInv'
<1>1. /\ UNCHANGED <<clMap, clServerId, caught, connstate, download, downloadName, lastNextdl,
                     clientCommands, serverCommands, current, toServer, toClient>>
      /\ serverId' = serverId + 1 /\ restartedServerId' = serverId + 1
      /\ state' # "CS_ACTIVE" /\ (Connected' => Connected)
      /\ current.map = 0 /\ current.move = FALSE
  BY DEF SV_SpawnServer, Ready, Nothing, Rest, slot, client, network, history, Connected
<1>2. /\ serverId \in Nat /\ restartedServerId \in Nat /\ restartedServerId <= serverId
      /\ clMap \in Nat /\ clServerId \in Nat
  BY ConstantsAssumption DEF IInv, Plain, ServerId
<1>3. MapsStay
  <2>1. ASSUME NEW d \in Message, GameState(d) PROVE GameState(d)'
    <3>1. d.map \in Nat /\ d.serverId \in Nat
      BY DEF Message, ServerId
    <3>. QED
      BY <1>1, <1>2, <2>1, <3>1 DEF GameState, ThisMap
  <2>2. ASSUME NEW p \in Packet, FromMap(p) PROVE FromMap(p)'
    <3>1. p.map \in Nat /\ p.serverId \in Nat
      BY DEF Packet, ServerId
    <3>. QED
      BY <1>1, <1>2, <2>2, <3>1 DEF FromMap, ThisMap
  <2>3. ASSUME NEW j \in ServerId, Update(j) PROVE Update(j)'
    BY <1>1, <1>2, <2>3 DEF Update, ThisMap, ServerId
  <2>. QED
    BY <2>1, <2>2, <2>3 DEF MapsStay
<1>4. SamePhase
  BY <1>1 DEF SamePhase
<1>5. GameStates' /\ Phases'
  BY <1>1, <1>3, <1>4, SomeSame, ClientOnlyStay
<1>6. Packets' /\ Apart'
  BY <1>1, <1>3, <1>4, SomeSame, PacketsOnlyStay DEF PacketsOnly
<1>7. Updates'
  <2>1. \A i \in DOMAIN serverCommands : serverCommands[i] \in ServerId
    BY DEF IInv, Queues
  <2>. QED
    BY <1>1, <1>3, <2>1 DEF MInv, Updates, MapsStay
<1>8. Loaded'
  BY <1>1, <1>2 DEF MInv, Loaded, ThisMap
<1>. QED
  BY <1>5, <1>6, <1>7, <1>8 DEF MInv

\* The new server id goes to a client that has loaded the map, unless it is caught.
LEMMA MapRestartMoves ==
    ASSUME IInv, IInv', MInv, SV_MapRestart_f
    PROVE  MInv'
<1>1. /\ UNCHANGED <<restartedServerId, clMap, clServerId, connstate, download, downloadName,
                     lastNextdl, clientCommands, current, toServer, toClient>>
      /\ serverId' = serverId + 1
      /\ current.move = FALSE
  BY DEF SV_MapRestart_f, Ready, Nothing, Rest, slot, client, network
<1>2. /\ serverId \in Nat /\ restartedServerId \in Nat
      /\ clMap \in Nat /\ clServerId \in Nat
  BY ConstantsAssumption DEF IInv, Plain, ServerId
<1>3. /\ Connected' => Connected
      /\ caught => caught'
      /\ \/ state' = state /\ state # "CS_ACTIVE" /\ serverCommands' = serverCommands
         \/ /\ serverCommands' = Append(serverCommands, serverId')
            /\ ~caught' => ~caught /\ state = "CS_ACTIVE"
  BY DEF SV_MapRestart_f, Connected, history, IInv, Plain
<1>4. MapsStay
  <2>1. ASSUME NEW d \in Message, GameState(d) PROVE GameState(d)'
    <3>1. d.map \in Nat /\ d.serverId \in Nat
      BY DEF Message, ServerId
    <3>2. d.type = "gamestate" => d.serverId <= serverId'
      BY <1>1, <1>2, <2>1, <3>1 DEF GameState
    <3>. QED
      BY <1>1, <1>3, <2>1, <3>2 DEF GameState, ThisMap
  <2>2. ASSUME NEW p \in Packet, FromMap(p) PROVE FromMap(p)'
    <3>1. p.map \in Nat /\ p.serverId \in Nat
      BY DEF Packet, ServerId
    <3>2. p.serverId <= serverId'
      BY <1>1, <1>2, <2>2, <3>1 DEF FromMap
    <3>. QED
      BY <1>1, <1>3, <2>2, <3>2 DEF FromMap, ThisMap
  <2>3. ASSUME NEW j \in ServerId, Update(j) PROVE Update(j)'
    <3>1. j <= serverId'
      BY <1>1, <1>2, <2>3 DEF Update, ServerId
    <3>. QED
      BY <1>1, <1>3, <2>3, <3>1 DEF Update, ThisMap
  <2>. QED
    BY <2>1, <2>2, <2>3 DEF MapsStay
<1>5. SamePhase
  BY <1>1, <1>3 DEF SamePhase
<1>6. GameStates' /\ Phases'
  BY <1>1, <1>4, <1>5, SomeSame, ClientOnlyStay
<1>7. Packets' /\ Apart'
  BY <1>1, <1>4, <1>5, SomeSame, PacketsOnlyStay DEF PacketsOnly
<1>8. ~caught' /\ ~(state' = state /\ state # "CS_ACTIVE" /\ serverCommands' = serverCommands)
        => clMap = restartedServerId
  BY <1>3 DEF MInv, Loaded
<1>9. Updates'
  <2>1. CASE serverCommands' = serverCommands
    <3>1. \A i \in DOMAIN serverCommands : serverCommands[i] \in ServerId
      BY DEF IInv, Queues
    <3>. QED
      BY <1>4, <2>1, <3>1 DEF MInv, Updates, MapsStay
  <2>2. CASE serverCommands' = Append(serverCommands, serverId') /\ (~caught' => ~caught /\ state = "CS_ACTIVE")
    <3>1. PICK id \in ServerId : id = serverId'
      BY <1>2 DEF IInv, Plain, ServerId
    <3>2. ~caught' => clMap = restartedServerId
      BY <2>2 DEF MInv, Loaded
    <3>3. id <= serverId' /\ UNCHANGED <<clMap, restartedServerId>>
      BY <1>1, <1>2, <3>1
    <3>4. Update(id)'
      BY <3>2, <3>3 DEF Update, ThisMap
    <3>. QED
      BY <1>4, <2>2, <3>1, <3>4, UpdatesOne DEF MInv, MapsStay
  <2>. QED
    BY <1>3, <2>1, <2>2
<1>10. Loaded'
  <2>1. clServerId <= serverId'
    BY <1>1, <1>2 DEF MInv, Loaded
  <2>. QED
    BY <1>1, <1>3, <1>8, <2>1 DEF MInv, Loaded, ThisMap
<1>. QED
  BY <1>6, <1>7, <1>9, <1>10 DEF MInv

\* The slot is free, and nothing is executed for it any more.
LEMMA CheckTimeoutsMoves ==
    ASSUME IInv, IInv', MInv, SV_CheckTimeouts
    PROVE  MInv'
<1>1. /\ UNCHANGED <<serverId, restartedServerId, clMap, clServerId, caught, connstate, download,
                     current, toServer, toClient>>
      /\ state' = "CS_FREE" /\ ~Connected'
  BY DEF SV_CheckTimeouts, sv, client, network, Connected
<1>2. PICK b : serverCommands' = IF b THEN serverCommands ELSE Append(serverCommands, 0)
  <2>1. CASE serverCommands' = serverCommands
    BY <2>1
  <2>2. CASE serverCommands' = IF state = "CS_CONNECTED" THEN serverCommands ELSE Append(serverCommands, 0)
    BY <2>2
  <2>. QED
    BY <2>1, <2>2 DEF SV_CheckTimeouts
<1>3. MapsStay /\ SamePhase
  BY <1>1, SameMap DEF SamePhase
<1>4. GameStates' /\ Phases'
  BY <1>1, <1>3, SomeSame, ClientOnlyStay
<1>5. Packets' /\ Apart'
  BY <1>1, <1>3, SomeSame, PacketsOnlyStay DEF PacketsOnly
<1>6. Updates'
  BY <1>2, <1>3, UpdatesTold DEF MInv
<1>7. Loaded'
  BY <1>1 DEF MInv, Loaded, ThisMap
<1>. QED
  BY <1>4, <1>5, <1>6, <1>7 DEF MInv

\* What makes datagrams right does not depend on those that are lost.
LEMMA LoseMoves ==
    ASSUME IInv, IInv', MInv, Lose
    PROVE  MInv'
<1>1. UNCHANGED <<serverId, restartedServerId, clMap, clServerId, caught, state, connstate,
                  download, downloadName, lastNextdl, clientCommands, serverCommands, current>>
  BY DEF Lose, sv, slot, client, history
<1>2. MapsStay /\ SamePhase
  BY <1>1, SameMap DEF SamePhase, Connected
<1>3. SomeOf(toClient', toClient) /\ LeftOf(toServer', toServer, 0)
  <2>1. toClient \in Seq(Message) /\ toServer \in Seq(Packet)
    BY Typed
  <2>2. SomeOf(toClient, toClient) /\ LeftOf(toServer, toServer, 0)
    BY SomeSame
  <2>3. CASE (\E i \in DOMAIN toClient : toClient' = RemoveAt(toClient, i)) /\ toServer' = toServer
    BY <2>1, <2>2, <2>3, RemoveSome
  <2>4. CASE (\E i \in DOMAIN toServer : toServer' = RemoveAt(toServer, i)) /\ toClient' = toClient
    BY <2>1, <2>2, <2>4, RemoveLeft
  <2>. QED
    BY <2>3, <2>4 DEF Lose
<1>4. GameStates' /\ Phases'
  BY <1>2, <1>3, ClientOnlyStay
<1>5. Packets' /\ Apart'
  BY <1>1, <1>2, <1>3, PacketsOnlyStay DEF PacketsOnly
<1>6. Updates' /\ Loaded'
  BY <1>1 DEF MInv, Updates, Update, Loaded, ThisMap
<1>. QED
  BY <1>4, <1>5, <1>6 DEF MInv

\* A packet is of the map that is loaded, and has user commands only when nothing is
\* downloaded.
LEMMA ClientPacket ==
    ASSUME IInv, MInv, NEW n \in Nat
    PROVE  /\ CLPacket(n) \in Packet /\ CLPacket(n).count = n
           /\ FromMap(CLPacket(n))
           /\ CLPacket(n).move => download = "none"
           /\ CLPacket(n).move /\ Connected => NoFiles(clientCommands) /\ ~Sends
<1>1. PICK p : p = CLPacket(n)
  OBVIOUS
<1>2. /\ p = [serverId |-> clServerId, ack |-> serverMessage, count |-> n,
              move |-> connstate \in {"CA_PRIMED", "CA_ACTIVE"}, map |-> clMap]
      /\ clServerId \in ServerId /\ serverMessage \in Rank /\ clMap \in ServerId
  BY <1>1 DEF CLPacket, IInv, Plain
<1>3. p \in Packet /\ p.count = n /\ p.serverId = clServerId /\ p.map = clMap
  BY <1>2 DEF Packet
<1>4. p.move => download = "none"
  BY <1>2 DEF MInv, Apart
<1>5. FromMap(p)
  <2>1. clMap <= clMap
    BY <1>2 DEF ServerId
  <2>. QED
    BY <1>3, <2>1 DEF FromMap, MInv, Loaded
<1>6. p.move /\ Connected => NoFiles(clientCommands) /\ ~Sends
  <2>1. Connected => Phase(download, downloadName, lastNextdl, clientCommands, toClient)
    BY DEF MInv, Phases
  <2>. QED
    BY <1>4, <2>1 DEF Phase, Sends
<1>. QED
  BY <1>1, <1>3, <1>4, <1>5, <1>6

\* The client says something, and perhaps sends a packet.
LEMMA ClientSends ==
    ASSUME IInv, IInv', MInv, \A p \in Packet : FromMap(p) => FromMap(p)',
           NEW new \in Seq(ClientCommand), clientCommands' = clientCommands \o new,
           UNCHANGED <<state, current, downloadName, lastNextdl>>,
           download' # "none" => connstate' \in {"CA_CONNECTED", "CA_DISCONNECTED"},
           \/ toServer' = toServer
           \/ \E p \in Packet : /\ toServer' = Append(toServer, p)
                                /\ Len(clientCommands) <= p.count
                                /\ FromMap(p)
                                /\ Connected => Still(p, clientCommands \o new, Sends)
    PROVE  Packets' /\ Apart'
<1>1. Packets'
  <2>1. CASE toServer' = toServer
    <3>1. LeftOf(toServer', toServer, 0)
      BY <2>1, SomeSame
    <3>2. \A i \in DOMAIN toServer' : current'.count <= toServer'[i].count
      BY <2>1 DEF MInv, Packets
    <3>. QED
      BY <3>1, <3>2, PacketsStay DEF MInv
  <2>2. CASE \E p \in Packet : /\ toServer' = Append(toServer, p)
                               /\ Len(clientCommands) <= p.count
                               /\ FromMap(p)
    <3>1. PICK p \in Packet : /\ toServer' = Append(toServer, p)
                              /\ Len(clientCommands) <= p.count
                              /\ FromMap(p)
      BY <2>2
    <3>. QED
      BY <3>1, PacketsMore DEF MInv
  <2>. QED
    BY <2>1, <2>2
<1>2. Connected' = Connected /\ Sends' = Sends
  BY DEF Connected, Sends
<1>3. ASSUME Connected PROVE Still(current, clientCommands \o new, Sends)
  <2>1. PICK cs, p : cs \in Seq(ClientCommand) /\ cs = clientCommands /\ p = current
    BY DEF IInv, Queues
  <2>2. p.count \in Nat /\ p.count <= Len(cs)
    <3>1. p \in [count : 0 .. Len(cs), move : BOOLEAN, map : ServerId] /\ Len(cs) \in Nat
      BY <2>1 DEF IInv, Queues
    <3>2. p.count \in 0 .. Len(cs)
      BY <3>1
    <3>. QED
      BY <3>1, <3>2
  <2>3. Still(p, cs, Sends)
    BY <1>3, <2>1 DEF MInv, Apart
  <2>4. Still(p, cs \o new, Sends)
    BY <2>1, <2>2, <2>3, StillSays
  <2>. QED
    BY <2>1, <2>4
<1>4. ASSUME Connected PROVE \A i \in DOMAIN toServer' : Still(toServer'[i], clientCommands \o new, Sends)
  <2>1. PICK c \in Seq(Packet) : c = toServer'
    BY Typed
  <2>2. \A i \in DOMAIN toServer : Still(toServer[i], clientCommands, Sends)
    BY <1>4 DEF MInv, Apart
  <2>3. c = toServer \/ \E p \in Packet : c = Append(toServer, p) /\ Still(p, clientCommands \o new, Sends)
    BY <1>4, <2>1
  <2>4. \A i \in DOMAIN c : Still(c[i], clientCommands \o new, Sends)
    BY <2>2, <2>3, StillMore
  <2>. QED
    BY <2>1, <2>4
<1>5. Apart'
  BY <1>2, <1>3, <1>4 DEF Apart
<1>. QED
  BY <1>1, <1>5

\* The user commands of a packet after commands that are not about files.
LEMMA StillNoFiles ==
    ASSUME NEW p, NEW cs, NEW s \in BOOLEAN, p.move => NoFiles(cs) /\ ~s
    PROVE  Still(p, cs, s)
BY DEF Still, NoFiles, Free

\* The packet that is sent is of the map that is loaded.
LEMMA WritePacketMoves ==
    ASSUME IInv, IInv', MInv, CL_WritePacket
    PROVE  MInv'
<1>1. /\ UNCHANGED <<serverId, restartedServerId, clMap, clServerId, caught, state, connstate,
                     download, downloadName, lastNextdl, clientCommands, serverCommands, current,
                     toClient>>
      /\ toServer' = Append(toServer, CLPacket(Len(clientCommands)))
  BY DEF CL_WritePacket, sv, slot, client, history
<1>2. MapsStay /\ SamePhase
  BY <1>1, SameMap DEF SamePhase, Connected
<1>3. GameStates' /\ Phases'
  BY <1>1, <1>2, SomeSame, ClientOnlyStay
<1>4. Packets' /\ Apart'
  <2>1. clientCommands \in Seq(ClientCommand) /\ clientCommands' = clientCommands \o <<>>
    BY <1>1, ConcatEmptySeq DEF IInv, Queues
  <2>2. Len(clientCommands) \in Nat
    BY <2>1
  <2>3. PICK p : p = CLPacket(Len(clientCommands))
    OBVIOUS
  <2>4. /\ p \in Packet /\ p.count = Len(clientCommands) /\ FromMap(p)
        /\ p.move /\ Connected => NoFiles(clientCommands) /\ ~Sends
    BY <2>2, <2>3, ClientPacket
  <2>5. Sends \in BOOLEAN
    BY DEF Sends
  <2>6. Connected => Still(p, clientCommands \o <<>>, Sends)
    BY <1>1, <2>1, <2>4, <2>5, StillNoFiles
  <2>7. Len(clientCommands) <= p.count
    BY <2>2, <2>4
  <2>8. download' # "none" => connstate' \in {"CA_CONNECTED", "CA_DISCONNECTED"}
    BY <1>1 DEF MInv, Apart
  <2>9. <<>> \in Seq(ClientCommand)
    OBVIOUS
  <2>10. \A q \in Packet : FromMap(q) => FromMap(q)'
    BY <1>2 DEF MapsStay
  <2>. QED
    BY <1>1, <2>1, <2>3, <2>4, <2>6, <2>7, <2>8, <2>9, <2>10, ClientSends
<1>5. Updates' /\ Loaded'
  BY <1>1 DEF MInv, Updates, Update, Loaded, ThisMap
<1>. QED
  BY <1>3, <1>4, <1>5 DEF MInv

\* A client leaves, whatever it was doing.
LEMMA LeaveMoves ==
    ASSUME IInv, IInv', MInv, Leave, SomeOf(toClient', toClient),
           UNCHANGED <<serverId, restartedServerId, clMap, caught, state, current, downloadName,
                       lastNextdl>>
    PROVE  GameStates' /\ Packets' /\ Phases' /\ Apart'
<1>1. PICK d \in ClientCommand : d = Command("disconnect") /\ d.name = "disconnect"
  <2>1. 0 \in ServerId
    BY ConstantsAssumption DEF ServerId
  <2>2. Command("disconnect") \in ClientCommand /\ Command("disconnect").name = "disconnect"
    BY <2>1 DEF Command, ClientCommand, Name
  <2>. QED
    BY <2>2
<1>2. /\ connstate' = "CA_DISCONNECTED" /\ download' = download
      /\ clientCommands' = Append(clientCommands, d)
      /\ toServer' = Append(toServer, CLPacket(Len(clientCommands')))
  BY <1>1 DEF Leave
<1>3. MapsStay /\ Connected' = Connected
  BY SameMap DEF Connected
<1>4. GameStates'
  BY <1>3, GameStatesStay DEF MInv, MapsStay
<1>5. <<d>> \in Seq(ClientCommand) /\ clientCommands' = clientCommands \o <<d>>
  BY <1>2, OneMore
<1>6. Packets' /\ Apart'
  <2>1. PICK l \in Nat : l = Len(clientCommands') /\ Len(clientCommands) <= l
    BY <1>5, MoreForServer
  <2>2. PICK p : p = CLPacket(l)
    OBVIOUS
  <2>3. /\ p \in Packet /\ p.count = l /\ FromMap(p)
        /\ p.move /\ Connected => NoFiles(clientCommands) /\ ~Sends
    BY <2>1, <2>2, ClientPacket
  <2>4. Sends \in BOOLEAN
    BY DEF Sends
  <2>5. NoFiles(clientCommands) => NoFiles(clientCommands \o <<d>>)
    <3>1. clientCommands \in Seq(ClientCommand) /\ d.name \notin Files
      BY <1>1 DEF IInv, Queues, Files
    <3>2. NoFiles(clientCommands) => NoFiles(Append(clientCommands, d))
      BY <3>1, CommandsMore
    <3>. QED
      BY <1>2, <1>5, <3>2
  <2>6. Connected => Still(p, clientCommands \o <<d>>, Sends)
    BY <2>3, <2>4, <2>5, StillNoFiles
  <2>7. \A q \in Packet : FromMap(q) => FromMap(q)'
    BY <1>3 DEF MapsStay
  <2>. QED
    BY <1>2, <1>5, <2>1, <2>2, <2>3, <2>6, <2>7, ClientSends
<1>7. Phases'
  <2>1. ASSUME Connected PROVE Phase(download, downloadName, lastNextdl, Append(clientCommands, d), toClient')
    <3>1. PICK c \in Seq(Message) : c = toClient'
      BY Typed
    <3>2. /\ downloadName \in BOOLEAN /\ lastNextdl \in BOOLEAN
          /\ clientCommands \in Seq(ClientCommand)
          /\ d.name \notin Files /\ d.name # "stopdl"
      BY <1>1 DEF IInv, Plain, Queues, Files
    <3>3. Phase(download, downloadName, lastNextdl, clientCommands, toClient)
      BY <2>1 DEF MInv, Phases
    <3>4. Phase(download, downloadName, lastNextdl, Append(clientCommands, d), toClient)
      BY <3>2, <3>3, PhaseSays
    <3>5. Phase(download, downloadName, lastNextdl, Append(clientCommands, d), c)
      BY <3>1, <3>2, <3>4, PhaseSome
    <3>. QED
      BY <3>1, <3>5
  <2>. QED
    BY <1>2, <1>3, <2>1 DEF Phases
<1>. QED
  BY <1>4, <1>6, <1>7

\* The client leaves with the packets that say so.
LEMMA DisconnectMoves ==
    ASSUME IInv, IInv', MInv, CL_Disconnect
    PROVE  MInv'
<1>1. /\ UNCHANGED <<serverId, restartedServerId, clMap, clServerId, caught, state, downloadName,
                     lastNextdl, serverCommands, current, toClient>>
      /\ Leave
  BY DEF CL_Disconnect, sv, slot, history
<1>2. GameStates' /\ Packets' /\ Phases' /\ Apart'
  BY <1>1, SomeSame, LeaveMoves
<1>3. Updates' /\ Loaded'
  BY <1>1 DEF MInv, Updates, Update, Loaded, ThisMap
<1>. QED
  BY <1>2, <1>3 DEF MInv

\* The map that a gamestate is of is loaded: it is not older than the one that was.
LEMMA GameStateMoves ==
    ASSUME IInv, IInv', MInv, toClient # <<>>, toClient' = Tail(toClient),
           connstate # "CA_DISCONNECTED",
           NEW m \in Message, m = Head(toClient), m.type = "gamestate", CL_ParseGamestate(m),
           UNCHANGED <<serverId, restartedServerId, caught, state, current, downloadName,
                       lastNextdl, serverCommands>>
    PROVE  MInv'
<1>1. /\ clServerId' = m.serverId /\ clMap' = m.map
      /\ UNCHANGED toServer
      /\ \E d \in ClientCommand :
            /\ clientCommands' = Append(clientCommands, d)
            /\ \/ d.name = "cp" /\ download # "active" /\ download' = "none"
               \/ /\ d.name = "download" /\ download # "done" /\ download' = "active"
                  /\ connstate' = "CA_CONNECTED"
  <2>1. CASE download # "active" /\ Load(m)
    <3>1. PICK d : d = [name |-> "cp", serverId |-> m.serverId]
      OBVIOUS
    <3>2. d \in ClientCommand /\ d.name = "cp"
      BY <3>1 DEF ClientCommand, Name, Message
    <3>. QED
      BY <2>1, <3>1, <3>2 DEF CL_ParseGamestate, Load
  <2>2. CASE /\ download = "active" \/ (download = "none" /\ downloads < MaxDownloads)
             /\ connstate' = "CA_CONNECTED"
             /\ download' = "active"
             /\ clientCommands' = Append(clientCommands, Command("download"))
             /\ UNCHANGED toServer
    <3>1. PICK d : d = Command("download")
      OBVIOUS
    <3>2. d \in ClientCommand /\ d.name = "download"
      <4>1. 0 \in ServerId
        BY ConstantsAssumption DEF ServerId
      <4>. QED
        BY <3>1, <4>1 DEF Command, ClientCommand, Name
    <3>. QED
      BY <2>2, <3>1, <3>2 DEF CL_ParseGamestate
  <2>. QED
    BY <2>1, <2>2 DEF CL_ParseGamestate
<1>2. PICK d \in ClientCommand :
        /\ clientCommands' = Append(clientCommands, d)
        /\ \/ d.name = "cp" /\ download # "active" /\ download' = "none"
           \/ /\ d.name = "download" /\ download # "done" /\ download' = "active"
              /\ connstate' = "CA_CONNECTED"
  BY <1>1
<1>3. /\ toClient \in Seq(Message) /\ toClient' \in Seq(Message)
      /\ SomeOf(toClient', toClient)
  BY Typed, TailSome
<1>4. PICK n \in Nat : n = Len(toClient) /\ n >= 1 /\ DOMAIN toClient = 1 .. n /\ toClient[1] = m
  BY <1>3
<1>5. /\ clMap <= m.map /\ m.map <= restartedServerId /\ m.serverId <= serverId
      /\ ~caught => ThisMap(m.serverId, m.map)
  <2>1. 1 \in DOMAIN toClient
    BY <1>4
  <2>2. GameState(m)
    BY <1>4, <2>1 DEF MInv, GameStates
  <2>. QED
    BY <2>2 DEF GameState
<1>6. clMap \in Nat /\ m.map \in Nat /\ restartedServerId \in Nat /\ m.serverId \in Nat
  BY ConstantsAssumption DEF IInv, Plain, ServerId, Message
<1>7. \A p \in Packet : FromMap(p) => FromMap(p)'
  <2>1. ASSUME NEW p \in Packet, FromMap(p) PROVE FromMap(p)'
    <3>1. p.map \in Nat
      BY DEF Packet, ServerId
    <3>2. p.map <= clMap'
      BY <1>1, <1>5, <1>6, <2>1, <3>1 DEF FromMap
    <3>. QED
      BY <2>1, <3>2 DEF FromMap, ThisMap
  <2>. QED
    BY <2>1
<1>8. clMap = restartedServerId => clMap' = restartedServerId
  BY <1>1, <1>5, <1>6
<1>9. GameStates'
  <2>1. PICK c \in Seq(Message) : c = toClient'
    BY <1>3
  <2>2. (\A i \in DOMAIN c : GameState(c[i])) /\ InOrder(c)
    BY <1>3, <2>1, GameStatesSome DEF MInv
  <2>3. ASSUME NEW i \in DOMAIN c, c[i].type = "gamestate" PROVE m.map <= c[i].map
    <3>1. DOMAIN c = 1 .. n - 1 /\ c[i] = toClient[i + 1]
      BY <1>3, <1>4, <2>1
    <3>2. 1 \in DOMAIN toClient /\ i + 1 \in DOMAIN toClient /\ 1 < i + 1
      BY <1>4, <3>1
    <3>3. InOrder(toClient)
      BY DEF MInv, GameStates
    <3>. QED
      BY <1>4, <2>3, <3>1, <3>2, <3>3 DEF InOrder
  <2>4. \A i \in DOMAIN c : GameState(c[i])'
    BY <1>1, <2>2, <2>3 DEF GameState, ThisMap
  <2>. QED
    BY <2>1, <2>2, <2>4 DEF GameStates
<1>10. Packets' /\ Apart'
  <2>1. <<d>> \in Seq(ClientCommand) /\ clientCommands' = clientCommands \o <<d>>
    BY <1>2, OneMore
  <2>. QED
    BY <1>1, <1>2, <1>7, <2>1, ClientSends
<1>11. Updates'
  BY <1>8 DEF MInv, Updates, Update, ThisMap
<1>12. Loaded'
  <2>1. clMap' <= restartedServerId /\ clServerId' <= serverId /\ (~caught => ThisMap(clServerId', clMap'))
    BY <1>1, <1>5
  <2>2. current.map <= clMap'
    <3>1. current.map \in Nat
      <4>1. current \in [count : 0 .. Len(clientCommands), move : BOOLEAN, map : ServerId]
        BY DEF IInv, Queues
      <4>. QED
        BY <4>1 DEF ServerId
    <3>2. current.map <= clMap
      BY DEF MInv, Loaded
    <3>. QED
      BY <1>1, <1>5, <1>6, <3>1, <3>2
  <2>. QED
    BY <1>8, <2>1, <2>2 DEF MInv, Loaded, ThisMap
<1>13. Phases'
  <2>1. Connected' = Connected
    BY DEF Connected
  <2>2. ASSUME Connected
        PROVE  Phase(download', downloadName, lastNextdl, Append(clientCommands, d), Tail(toClient))
    <3>1. PICK dn \in BOOLEAN, ln \in BOOLEAN : dn = downloadName /\ ln = lastNextdl
      BY DEF IInv, Plain
    <3>2. Phase(download, dn, ln, clientCommands, toClient)
      BY <2>2, <3>1 DEF MInv, Phases
    <3>3. clientCommands \in Seq(ClientCommand) /\ download \in {"none", "active", "done"}
      BY DEF IInv, Plain, Queues
    <3>4. Head(toClient).type = "gamestate"
      OBVIOUS
    <3>5. /\ download # "active" /\ d.name = "cp" =>
               Phase("none", dn, ln, Append(clientCommands, d), Tail(toClient))
          /\ download # "done" /\ d.name = "download" =>
               Phase("active", dn, ln, Append(clientCommands, d), Tail(toClient))
      BY <1>3, <3>2, <3>3, <3>4, PhaseArrives
    <3>. QED
      BY <1>2, <3>1, <3>5
  <2>. QED
    BY <1>2, <2>1, <2>2 DEF Phases
<1>. QED
  BY <1>9, <1>10, <1>11, <1>12, <1>13 DEF MInv

\* The client keeps what it has loaded.
LEMMA SnapshotMoves ==
    ASSUME IInv, IInv', MInv, toClient # <<>>, toClient' = Tail(toClient),
           NEW m, CL_ParseSnapshot(m),
           UNCHANGED <<serverId, restartedServerId, caught, state, current, downloadName,
                       lastNextdl, serverCommands>>
    PROVE  MInv'
<1>1. UNCHANGED <<connstate, clServerId, clMap, clientCommands, download, toServer>>
  BY DEF CL_ParseSnapshot
<1>2. MapsStay /\ SamePhase
  BY <1>1, SameMap DEF SamePhase, Connected
<1>3. SomeOf(toClient', toClient)
  BY Typed, TailSome
<1>4. GameStates' /\ Phases'
  BY <1>2, <1>3, ClientOnlyStay
<1>5. Packets' /\ Apart'
  BY <1>1, <1>2, SomeSame, PacketsOnlyStay DEF PacketsOnly
<1>6. Updates' /\ Loaded'
  BY <1>1 DEF MInv, Updates, Update, Loaded, ThisMap
<1>. QED
  BY <1>4, <1>5, <1>6 DEF MInv

\* The file is acknowledged and a gamestate asked for.
LEMMA FileMoves ==
    ASSUME IInv, IInv', MInv, toClient # <<>>, toClient' = Tail(toClient),
           Head(toClient).type = "download", download = "active", download' = "done",
           clientCommands' = clientCommands \o <<Command("nextdl"), Command("donedl")>>,
           toServer' = Append(toServer, CLPacket(Len(clientCommands) + 1)),
           UNCHANGED <<serverId, restartedServerId, caught, state, current, downloadName,
                       lastNextdl, clMap, connstate>>
    PROVE  GameStates' /\ Packets' /\ Phases' /\ Apart'
<1>1. MapsStay /\ Connected' = Connected
  BY SameMap DEF Connected
<1>2. toClient \in Seq(Message) /\ SomeOf(toClient', toClient)
  BY Typed, TailSome
<1>3. GameStates'
  BY <1>1, <1>2, GameStatesStay DEF MInv, MapsStay
<1>4. PICK d \in ClientCommand, e \in ClientCommand :
        d = Command("nextdl") /\ e = Command("donedl") /\ d.name = "nextdl" /\ e.name = "donedl"
  <2>1. 0 \in ServerId
    BY ConstantsAssumption DEF ServerId
  <2>2. /\ Command("nextdl") \in ClientCommand /\ Command("nextdl").name = "nextdl"
        /\ Command("donedl") \in ClientCommand /\ Command("donedl").name = "donedl"
    BY <2>1 DEF Command, ClientCommand, Name
  <2>. QED
    BY <2>2
<1>5. clientCommands \in Seq(ClientCommand) /\ Len(clientCommands) \in Nat
  BY DEF IInv, Queues
<1>6. Packets' /\ Apart'
  <2>1. PICK l \in Nat : l = Len(clientCommands) + 1 /\ Len(clientCommands) <= l
    BY <1>5
  <2>2. PICK p : p = CLPacket(l)
    OBVIOUS
  <2>3. p \in Packet /\ p.count = l /\ FromMap(p) /\ ~p.move
    BY <2>1, <2>2, ClientPacket
  <2>4. Still(p, clientCommands \o <<d, e>>, Sends)
    BY <2>3 DEF Still
  <2>5. <<d, e>> \in Seq(ClientCommand)
    OBVIOUS
  <2>6. \A q \in Packet : FromMap(q) => FromMap(q)'
    BY <1>1 DEF MapsStay
  <2>7. connstate' \in {"CA_CONNECTED", "CA_DISCONNECTED"}
    BY DEF MInv, Apart
  <2>. QED
    BY <1>4, <2>1, <2>2, <2>3, <2>4, <2>5, <2>6, <2>7, ClientSends
<1>7. Phases'
  <2>1. ASSUME Connected
        PROVE  Phase("done", downloadName, lastNextdl, clientCommands \o <<d, e>>, Tail(toClient))
    <3>1. PICK dn \in BOOLEAN, ln \in BOOLEAN : dn = downloadName /\ ln = lastNextdl
      BY DEF IInv, Plain
    <3>2. Phase("active", dn, ln, clientCommands, toClient)
      BY <2>1, <3>1 DEF MInv, Phases
    <3>3. Phase("done", dn, ln, clientCommands \o <<d, e>>, Tail(toClient))
      BY <1>2, <1>4, <1>5, <3>2, PhaseFile
    <3>. QED
      BY <3>1, <3>3
  <2>. QED
    BY <1>1, <1>4, <2>1 DEF Phases
<1>. QED
  BY <1>3, <1>6, <1>7

\* A block that nobody asked for is refused.
LEMMA RefuseMoves ==
    ASSUME IInv, IInv', MInv, toClient # <<>>, toClient' = Tail(toClient),
           download # "active", clientCommands' = Append(clientCommands, Command("stopdl")),
           UNCHANGED <<serverId, restartedServerId, caught, state, current, downloadName,
                       lastNextdl, clMap, connstate, download, toServer>>
    PROVE  GameStates' /\ Packets' /\ Phases' /\ Apart'
<1>1. MapsStay /\ Connected' = Connected
  BY SameMap DEF Connected
<1>2. toClient \in Seq(Message) /\ SomeOf(toClient', toClient)
  BY Typed, TailSome
<1>3. GameStates'
  BY <1>1, <1>2, GameStatesStay DEF MInv, MapsStay
<1>4. PICK d \in ClientCommand : d = Command("stopdl") /\ d.name = "stopdl"
  <2>1. 0 \in ServerId
    BY ConstantsAssumption DEF ServerId
  <2>2. Command("stopdl") \in ClientCommand /\ Command("stopdl").name = "stopdl"
    BY <2>1 DEF Command, ClientCommand, Name
  <2>. QED
    BY <2>2
<1>5. Packets' /\ Apart'
  <2>1. <<d>> \in Seq(ClientCommand) /\ clientCommands' = clientCommands \o <<d>>
    BY <1>4, OneMore
  <2>2. \A q \in Packet : FromMap(q) => FromMap(q)'
    BY <1>1 DEF MapsStay
  <2>3. download' # "none" => connstate' \in {"CA_CONNECTED", "CA_DISCONNECTED"}
    BY DEF MInv, Apart
  <2>. QED
    BY <2>1, <2>2, <2>3, ClientSends
<1>6. Phases'
  <2>1. ASSUME Connected
        PROVE  Phase(download, downloadName, lastNextdl, Append(clientCommands, d), toClient')
    <3>1. PICK c \in Seq(Message) : c = toClient'
      BY Typed
    <3>2. /\ downloadName \in BOOLEAN /\ lastNextdl \in BOOLEAN
          /\ clientCommands \in Seq(ClientCommand)
          /\ d.name \notin Files
      BY <1>4 DEF IInv, Plain, Queues, Files
    <3>3. Phase(download, downloadName, lastNextdl, clientCommands, toClient)
      BY <2>1 DEF MInv, Phases
    <3>4. Phase(download, downloadName, lastNextdl, Append(clientCommands, d), toClient)
      BY <3>2, <3>3, PhaseSays
    <3>5. Phase(download, downloadName, lastNextdl, Append(clientCommands, d), c)
      BY <1>2, <3>1, <3>2, <3>4, PhaseSome
    <3>. QED
      BY <3>1, <3>5
  <2>. QED
    BY <1>1, <1>4, <2>1 DEF Phases
<1>. QED
  BY <1>3, <1>5, <1>6

\* A message is parsed, whatever it is.
LEMMA ParseServerMessageMoves ==
    ASSUME IInv, IInv', MInv, CL_ParseServerMessage
    PROVE  MInv'
<1>1. PICK m : m = Head(toClient)
  OBVIOUS
<1>2. /\ connstate # "CA_DISCONNECTED" /\ toClient # <<>> /\ toClient' = Tail(toClient)
      /\ UNCHANGED <<serverId, restartedServerId, caught, state, current, downloadName,
                     lastNextdl, serverCommands>>
      /\ \/ m.type = "gamestate" /\ CL_ParseGamestate(m)
         \/ m.type = "snapshot" /\ CL_ParseSnapshot(m)
         \/ m.type = "download" /\ CL_ParseDownload
  BY <1>1 DEF CL_ParseServerMessage, sv, slot, history
<1>3. m \in Message
  <2>1. toClient \in Seq(Message)
    BY Typed
  <2>. QED
    BY <1>1, <1>2, <2>1
<1>4. CASE m.type = "gamestate" /\ CL_ParseGamestate(m)
  BY <1>1, <1>2, <1>3, <1>4, GameStateMoves
<1>5. CASE m.type = "snapshot" /\ CL_ParseSnapshot(m)
  BY <1>2, <1>5, SnapshotMoves
<1>6. CASE m.type = "download" /\ CL_ParseDownload
  <2>1. UNCHANGED <<clServerId, clMap>>
    BY <1>6 DEF CL_ParseDownload
  <2>2. GameStates' /\ Packets' /\ Phases' /\ Apart'
    <3>1. CASE /\ download = "active" /\ download' = "done"
               /\ clientCommands' = clientCommands \o <<Command("nextdl"), Command("donedl")>>
               /\ toServer' = Append(toServer, CLPacket(Len(clientCommands) + 1))
               /\ UNCHANGED connstate
      BY <1>1, <1>2, <1>6, <2>1, <3>1, FileMoves
    <3>2. CASE /\ download # "active" /\ clientCommands' = Append(clientCommands, Command("stopdl"))
               /\ UNCHANGED <<connstate, download, toServer>>
      BY <1>2, <2>1, <3>2, RefuseMoves
    <3>3. CASE Leave
      <4>1. SomeOf(toClient', toClient)
        BY <1>2, Typed, TailSome
      <4>. QED
        BY <1>2, <2>1, <3>3, <4>1, LeaveMoves
    <3>. QED
      BY <1>6, <3>1, <3>2, <3>3 DEF CL_ParseDownload
  <2>3. Updates' /\ Loaded'
    BY <1>2, <2>1 DEF MInv, Updates, Update, Loaded, ThisMap
  <2>. QED
    BY <2>2, <2>3 DEF MInv
<1>. QED
  BY <1>2, <1>4, <1>5, <1>6

\* The configstrings that are executed are right for the map that is loaded.
LEMMA ProcessSnapshotsMoves ==
    ASSUME IInv, IInv', MInv, CG_ProcessSnapshots
    PROVE  MInv'
<1>1. PICK n \in Nat, r \in Nat :
        n = Len(serverCommands) /\ r = received /\ r <= n /\ DOMAIN serverCommands = 1 .. n
  BY DEF IInv, Queues
<1>2. PICK new : new = SubSeq(serverCommands, 1, r)
  OBVIOUS
<1>3. /\ UNCHANGED <<serverId, restartedServerId, clMap, caught, state, current, downloadName,
                     lastNextdl>>
      /\ serverCommands' = SubSeq(serverCommands, r + 1, n)
      /\ toClient' = Executed(toClient, r)
      /\ connstate \in {"CA_PRIMED", "CA_ACTIVE"}
      /\ clServerId' = clServerId \/ \E i \in DOMAIN new : clServerId' = new[i]
      /\ \/ Leave
         \/ UNCHANGED <<clientCommands, download, toServer>>
  BY <1>1, <1>2 DEF CG_ProcessSnapshots, sv, slot, history
<1>4. serverCommands \in Seq(ServerId)
  BY DEF IInv, Queues
<1>5. MapsStay
  BY <1>3, SameMap
<1>6. Updates'
  <2>1. DOMAIN serverCommands' = 1 .. n - r
        /\ \A i \in 1 .. n - r : serverCommands'[i] = serverCommands[r + i]
    BY <1>1, <1>3, <1>4, SubSeqProperties
  <2>2. \A i \in 1 .. n - r : r + i \in 1 .. n
    OBVIOUS
  <2>3. \A i \in DOMAIN serverCommands' : Update(serverCommands'[i])
    BY <1>1, <2>1, <2>2 DEF MInv, Updates
  <2>. QED
    BY <1>3, <2>3 DEF Updates, Update, ThisMap
<1>7. Update(clServerId')
  <2>1. CASE clServerId' = clServerId
    BY <2>1 DEF MInv, Loaded, Update
  <2>2. ASSUME NEW i \in DOMAIN new, clServerId' = new[i] PROVE Update(clServerId')
    <3>1. DOMAIN new = 1 .. r /\ \A j \in 1 .. r : new[j] = serverCommands[j] /\ j \in 1 .. n
      BY <1>1, <1>2, <1>4, SubSeqProperties
    <3>. QED
      BY <1>1, <2>2, <3>1 DEF MInv, Updates
  <2>. QED
    BY <1>3, <2>1, <2>2
<1>8. Loaded'
  BY <1>3, <1>7 DEF MInv, Loaded, Update, ThisMap
<1>9. SomeOf(toClient', toClient)
  <2>1. PICK c \in Seq(Message) : c = toClient'
    BY Typed
  <2>2. toClient \in Seq(Message)
    BY Typed
  <2>3. DOMAIN c = DOMAIN toClient /\ \A i \in DOMAIN toClient : Alike(c[i], toClient[i])
    <3>1. \A i \in DOMAIN toClient : toClient[i] \in Message
      BY <2>2
    <3>2. c = [i \in DOMAIN toClient |->
                 [toClient[i] EXCEPT !.count = IF toClient[i].count > r THEN toClient[i].count - r ELSE 0]]
      BY <1>3, <2>1 DEF Executed
    <3>. QED
      BY <3>1, <3>2 DEF Alike, Message
  <2>4. SomeOf(c, toClient)
    BY <2>2, <2>3, SameSome
  <2>. QED
    BY <2>1, <2>4
<1>10. CASE Leave
  BY <1>3, <1>6, <1>8, <1>9, <1>10, LeaveMoves DEF MInv
<1>11. CASE UNCHANGED <<clientCommands, download, toServer>>
  <2>1. SamePhase
    BY <1>3, <1>11 DEF SamePhase, Connected
  <2>2. GameStates' /\ Phases'
    BY <1>5, <1>9, <2>1, ClientOnlyStay
  <2>3. download = "none"
    BY <1>3 DEF MInv, Apart
  <2>4. Packets' /\ Apart'
    BY <1>3, <1>5, <1>11, <2>1, <2>3, SomeSame, PacketsOnlyStay DEF PacketsOnly
  <2>. QED
    BY <1>6, <1>8, <2>2, <2>4 DEF MInv
<1>. QED
  BY <1>3, <1>10, <1>11

\* The client has not loaded a map, and nothing is on its way.
LEMMA InitMoves == Init => MInv
<1>. SUFFICES ASSUME Init PROVE MInv
  OBVIOUS
<1>1. /\ toClient = <<>> /\ toServer = <<>> /\ clientCommands = <<>> /\ serverCommands = <<>>
      /\ current.map = 0 /\ current.move = FALSE
      /\ serverId = 1 /\ restartedServerId = 1 /\ clMap = 0 /\ clServerId = 0
      /\ state = "CS_CONNECTED" /\ ~downloadName /\ ~lastNextdl /\ download = "none"
  BY DEF Init, Nothing, Rest
<1>2. /\ DOMAIN toClient = {} /\ DOMAIN toServer = {}
      /\ DOMAIN clientCommands = {} /\ DOMAIN serverCommands = {}
  BY <1>1
<1>3. GameStates /\ Packets /\ Updates
  BY <1>2 DEF GameStates, InOrder, Packets, Updates
<1>4. Loaded
  BY <1>1 DEF Loaded, ThisMap
<1>5. Phases /\ Apart
  BY <1>1, <1>2 DEF Phases, Phase, NoFiles, NoBlocks, Apart, Still
<1>. QED
  BY <1>3, <1>4, <1>5 DEF MInv

\* Every step keeps the user commands on the map that is played.
LEMMA NextMoves ==
    ASSUME IInv, IInv', MInv, [Next]_vars
    PROVE  MInv'
<1>1. CASE SV_Execute
  BY <1>1, ExecuteClientMessageMoves, VerifyPaksMoves, BeginStopDownloadMoves, DoneDownloadMoves,
     DisconnectCommandMoves, UserMoveMoves DEF SV_Execute
<1>2. CASE SV_SendClientSnapshot \/ SV_SendDownloadMessages
  BY <1>2, SendMoves
<1>3. CASE SV_SpawnServer
  BY <1>3, SpawnServerMoves
<1>4. CASE SV_MapRestart_f
  BY <1>4, MapRestartMoves
<1>5. CASE SV_CheckTimeouts
  BY <1>5, CheckTimeoutsMoves
<1>6. CASE CL_WritePacket
  BY <1>6, WritePacketMoves
<1>7. CASE CL_ParseServerMessage
  BY <1>7, ParseServerMessageMoves
<1>8. CASE CG_ProcessSnapshots
  BY <1>8, ProcessSnapshotsMoves
<1>9. CASE CL_Disconnect
  BY <1>9, DisconnectMoves
<1>10. CASE Lose
  BY <1>10, LoseMoves
<1>11. CASE UNCHANGED vars
  <2>1. UNCHANGED <<serverId, restartedServerId, clMap, clServerId, caught, state, connstate,
                    download, downloadName, lastNextdl, clientCommands, serverCommands, current,
                    toServer, toClient>>
    BY <1>11 DEF vars, sv, slot, client, network, history
  <2>2. UNCHANGED <<GameStates, Packets>>
    BY <2>1 DEF GameStates, GameState, InOrder, Packets, FromMap, ThisMap
  <2>3. UNCHANGED <<Updates, Loaded>>
    BY <2>1 DEF Updates, Update, Loaded, ThisMap
  <2>4. UNCHANGED <<Phases, Apart>>
    BY <2>1 DEF Phases, Apart, Connected, Sends
  <2>. QED
    BY <2>2, <2>3, <2>4 DEF MInv
<1>. QED
  BY <1>1, <1>2, <1>3, <1>4, <1>5, <1>6, <1>7, <1>8, <1>9, <1>10, <1>11 DEF Next

--------------------------------------------------------------------------------
(* Theorems. *)

\* What the properties need together.
THEOREM Invariance == Spec => []IInv
BY InitInv, NextInv, PTL DEF Spec

\* All state keeps its type; a file is only sent to a client that is connected, and no
\* datagram and no message counts commands that are not there.
THEOREM TypeCorrect == Spec => []TypeOK
<1>1. IInv => TypeOK
  <2>. SUFFICES ASSUME IInv PROVE TypeOK
    OBVIOUS
  <2>1. toClient \in Seq(Message) /\ toServer \in Seq(Packet)
    <3>1. \A S, n : Counted(S, n) \subseteq S
      BY DEF Counted
    <3>. QED
      BY <3>1, SeqMonotonic DEF IInv, Queues
  <2>. QED
    BY <2>1 DEF IInv, Plain, Queues, Flags, TypeOK
<1>. QED
  BY <1>1, Invariance, PTL

\* No user command reaches the game for a client that has not begun in it: in spite of map
\* changes and restarts, at any moment of a client's way (SV_SpawnServer, SV_MapRestart_f).
THEOREM HasBegun == Spec => []ActiveHasBegun
<1>1. IInv => ActiveHasBegun
  BY DEF IInv
<1>. QED
  BY <1>1, Invariance, PTL

\* A client with the paks of the server is dropped only when it goes itself
\* (SV_VerifyPaks_f, SV_Disconnect_f, SV_CheckTimeouts).
THEOREM Stays == Spec => []GenuineStays
<1>1. IInv => GenuineStays
  BY DEF IInv
<1>. QED
  BY <1>1, Invariance, PTL

\* A user command is executed only if it was made on the map that is played, unless a
\* map_restart has put the client in the world before it had loaded the map.
THEOREM OnThisMap == Spec => MovesOnThisMap
<1>1. Init => IInv /\ MInv
  BY InitInv, InitMoves
<1>2. ASSUME IInv /\ MInv, [Next]_vars
      PROVE  (IInv /\ MInv)'
  <2>1. IInv'
    BY <1>2, NextInv
  <2>. QED
    BY <1>2, <2>1, NextMoves
<1>3. ASSUME IInv, MInv, [Next]_vars
      PROVE  [Moves => current.map = restartedServerId \/ caught]_vars
  <2>1. Moves => current.move
    BY DEF Moves
  <2>. QED
    BY <1>3, <2>1 DEF MInv, Loaded
<1>. QED
  BY <1>1, <1>2, <1>3, PTL DEF Spec, MovesOnThisMap
================================================================================
