----------------------------- MODULE SpawnQueue -----------------------------
(***************************************************************************)
(* The spawn queues of the two teams (game/g_main.cpp) and everything that *)
(* puts a client into one or takes it out: choosing a class, the attack    *)
(* button, leaving a team or the server, and the frame of the game that    *)
(* serves the first in line.  A client that waits may follow another one   *)
(* meanwhile; its playerState is then a copy of the other's, clientNum     *)
(* included, and that is the number some of this code goes by.             *)
(*                                                                         *)
(* `client' is level.clients, reduced to what decides these steps; the     *)
(* operators that take `cl' map one such array to the next, as the C++     *)
(* functions of the same names do in place.                                *)
(*   team             pers.teamSelection                                   *)
(*   connected        pers.connected = CON_CONNECTED                       *)
(*   classSelection   pers.classSelection # PCL_NONE                       *)
(*   spectatorState   sess.spectatorState; SPECTATOR_FREE stands for       *)
(*                    SPECTATOR_LOCKED too (the team tells which)          *)
(*   spectatorClient  sess.spectatorClient, the client followed            *)
(*   clientNum        ps.clientNum                                         *)
(* Nothing here can happen between ClientConnect and ClientBegin, or a     *)
(* death and the respawn: Connect and respawn stand for both.  The attack  *)
(* button is up when a client spawns.                                      *)
(***************************************************************************)
EXTENDS Integers, Sequences, FiniteSets

CONSTANTS
  MAX_CLIENTS,   \* cells of a queue
  maxclients,    \* level.maxclients, slots of the server
  Team,          \* the teams one can play for
  stickySpec     \* the clients with cg_stickySpec: they follow the dead too

TEAM_NONE == "none"

ASSUME SlotsAssumption ==
  /\ MAX_CLIENTS \in Nat \ {0, 1}
  /\ maxclients \in 1 .. MAX_CLIENTS
ASSUME TeamAssumption == TEAM_NONE \notin Team

Client == 0 .. maxclients - 1
None == -1

ASSUME StickyAssumption == stickySpec \subseteq Client

VARIABLES
  queue,    \* level.alienSpawnQueue, level.humanSpawnQueue
  client,   \* level.clients
  wronged   \* history: clients a misdirected G_LeaveTeam left out of order

vars == <<queue, client, wronged>>

(***************************************************************************)
(* The ring.                                                               *)
(***************************************************************************)
QUEUE_PLUS1(x) == IF x = MAX_CLIENTS - 1 THEN 0 ELSE x + 1
QUEUE_MINUS1(x) == IF x = 0 THEN MAX_CLIENTS - 1 ELSE x - 1

Cell == 0 .. MAX_CLIENTS - 1

G_InitSpawnQueue ==
  [front |-> 0, back |-> QUEUE_MINUS1(0), clients |-> [i \in Cell |-> None]]

G_GetSpawnQueueLength(sq) ==
  LET length == sq.back - sq.front + 1
  IN  IF length < 0 THEN length + MAX_CLIENTS
      ELSE IF length >= MAX_CLIENTS THEN length - MAX_CLIENTS
      ELSE length

\* How many cells behind the front a cell is.
Place(sq, i) == IF i < sq.front THEN i + MAX_CLIENTS - sq.front ELSE i - sq.front

\* The cell that many behind the front.
At(sq, k) ==
  IF sq.front + k < MAX_CLIENTS THEN sq.front + k ELSE sq.front + k - MAX_CLIENTS

Waiting(sq) == {i \in Cell : Place(sq, i) < G_GetSpawnQueueLength(sq)}

G_PeekSpawnQueue(sq) == sq.clients[sq.front]

Popped(sq) ==
  [sq EXCEPT !.clients[sq.front] = None, !.front = QUEUE_PLUS1(@)]

G_SearchSpawnQueue(sq, c) == \E i \in Cell : sq.clients[i] = c

\* Mutant: nobody looks whether the client is in the queue already.
PushAgain(sq, c) ==
  LET back == QUEUE_PLUS1(sq.back)
  IN  [sq EXCEPT !.back = back, !.clients[back] = c]

G_PushSpawnQueue(sq, c) ==
  IF G_SearchSpawnQueue(sq, c) THEN sq
  ELSE LET back == QUEUE_PLUS1(sq.back)
       IN  [sq EXCEPT !.back = back, !.clients[back] = c]

\* From the first cell that holds c, every one takes what is behind it.
G_RemoveFromSpawnQueue(sq, c) ==
  LET found == {i \in Waiting(sq) : sq.clients[i] = c}
      moved == {i \in Waiting(sq) : \E f \in found : Place(sq, f) <= Place(sq, i)}
  IN  IF found = {} THEN sq
      ELSE [sq EXCEPT !.back = QUEUE_MINUS1(@),
                      !.clients = [i \in Cell |-> IF i \in moved
                                                  THEN @[QUEUE_PLUS1(i)]
                                                  ELSE @[i]]]

\* The clients of a queue in the order they are served.
Line(sq) ==
  [k \in 1 .. G_GetSpawnQueueLength(sq) |-> sq.clients[At(sq, k - 1)]]

(***************************************************************************)
(* Following.                                                              *)
(***************************************************************************)
\* Mutant: the client followed is forgotten, the mode is not.
StopFollowingKeepsMode(cl, c) ==
  [cl EXCEPT ![c].spectatorClient = None, ![c].clientNum = c]

G_StopFollowing(cl, c) ==
  [cl EXCEPT ![c].spectatorState = "SPECTATOR_FREE",
             ![c].spectatorClient = None, ![c].clientNum = c]

G_FollowLockView(cl, c) ==
  [cl EXCEPT ![c].clientNum = cl[c].spectatorClient]

Follow(cl, c, i) ==
  [cl EXCEPT ![c].spectatorState = "SPECTATOR_FOLLOW", ![c].spectatorClient = i]

\* Whom c may be taken to when it is done with the client it follows.
Targets(cl, c) ==
  {i \in Client \ {c, cl[c].spectatorClient} :
     /\ cl[i].connected
     /\ cl[i].team # TEAM_NONE
     /\ c \in stickySpec \/ cl[i].spectatorState = "SPECTATOR_NOT"
     /\ cl[c].team # TEAM_NONE => cl[i].team = cl[c].team}

\* The next target up (dir = 1) or down (dir = -1) from the one followed.
G_FollowNewClient(cl, c, dir) ==
  LET original == IF cl[c].spectatorClient = None THEN 0 ELSE cl[c].spectatorClient
      steps(i) == (dir * (i - original) - 1) % maxclients
      target == CHOOSE i \in Targets(cl, c) :
                  \A j \in Targets(cl, c) : steps(i) <= steps(j)
      followed == Follow(cl, c, target)
  IN  IF Targets(cl, c) = {} THEN cl
      ELSE IF cl[target].spectatorState # "SPECTATOR_NOT"
      THEN G_FollowLockView(followed, c)
      ELSE followed

FollowOther(cl, c) ==
  IF Targets(cl, c) = {} THEN G_StopFollowing(cl, c) ELSE G_FollowNewClient(cl, c, 1)

Follows(cl, c, i) ==
  cl[c].spectatorState = "SPECTATOR_FOLLOW" /\ cl[c].spectatorClient = i

\* One client after the other; `self' may be among those that move on.
G_StopFromFollowing(cl, self) ==
  LET after[n \in 0 .. maxclients] ==
        IF n = 0 THEN cl
        ELSE IF Follows(after[n-1], n - 1, after[n-1][self].clientNum)
        THEN FollowOther(after[n-1], n - 1)
        ELSE after[n-1]
  IN  after[maxclients]

StopOwnFollowing(cl, c) ==
  IF cl[c].spectatorState = "SPECTATOR_FOLLOW" THEN G_StopFollowing(cl, c) ELSE cl

(***************************************************************************)
(* Spawning, and teams.                                                    *)
(***************************************************************************)
ClientSpawn(cl, c) ==
  [cl EXCEPT ![c].spectatorState =
               IF /\ cl[c].classSelection
                  /\ cl[c].spectatorClient = None
                  /\ cl[c].spectatorState = "SPECTATOR_NOT"
               THEN "SPECTATOR_NOT" ELSE "SPECTATOR_FREE",
             ![c].spectatorClient = None,
             ![c].clientNum = c]

LeftQueue(c) ==
  IF client[c].team = TEAM_NONE THEN queue
  ELSE [queue EXCEPT ![client[c].team] =
          G_RemoveFromSpawnQueue(@, client[c].clientNum)]

G_LeaveTeam(c) ==
  IF client[c].team = TEAM_NONE THEN StopOwnFollowing(client, c)
  ELSE G_StopFromFollowing(client, c)

\* A client is in the queue of its team while it waits to spawn, else in none.
InOrder(c) ==
  \A t \in Team :
    G_SearchSpawnQueue(queue[t], c) <=>
      /\ client[c].connected
      /\ client[c].team = t
      /\ client[c].classSelection
      /\ client[c].spectatorState # "SPECTATOR_NOT"

\* The history: who was wronged stays so until it is in order again.
Keep(new) == wronged' = {c \in wronged \cup new : ~InOrder(c)'}

\* G_LeaveTeam goes by ps.clientNum: a follower's is the client it follows.
Misdirected(c) ==
  IF client[c].clientNum = c THEN {} ELSE {c, client[c].clientNum}

NewClient(c) ==
  [team |-> TEAM_NONE, connected |-> TRUE, classSelection |-> FALSE,
   spectatorState |-> "SPECTATOR_FREE", spectatorClient |-> None, clientNum |-> c]

Init ==
  /\ queue = [t \in Team |-> G_InitSpawnQueue]
  /\ client = [c \in Client |-> [NewClient(c) EXCEPT !.connected = FALSE,
                                                     !.spectatorState = "SPECTATOR_NOT"]]
  /\ wronged = {}

Connect(c) ==
  /\ ~client[c].connected
  /\ client' = ClientSpawn([client EXCEPT ![c] = NewClient(c)], c)
  /\ UNCHANGED queue
  /\ Keep({})

ClientDisconnect(c) ==
  /\ client[c].connected
  /\ queue' = LeftQueue(c)
  /\ client' = [G_LeaveTeam(c) EXCEPT ![c].connected = FALSE,
                                      ![c].spectatorState = "SPECTATOR_NOT"]
  /\ Keep(Misdirected(c))

\* Cmd_Team_f, a vote or an admin: any other team.
G_ChangeTeam(c, newTeam) ==
  /\ client[c].connected
  /\ client[c].team # newTeam
  /\ queue' = LeftQueue(c)
  /\ client' = ClientSpawn([G_LeaveTeam(c) EXCEPT ![c].team = newTeam,
                                                  ![c].classSelection = FALSE], c)
  /\ Keep(Misdirected(c))

\* While it plays, a client's class command does not concern the queue.
Cmd_Class_f(c, allowed) ==
  LET t == client[c].team
      stopped == StopOwnFollowing(client, c)
  IN  /\ client[c].connected
      /\ t # TEAM_NONE
      /\ client[c].spectatorState # "SPECTATOR_NOT"
      /\ queue' = IF allowed THEN [queue EXCEPT ![t] = G_PushSpawnQueue(@, c)] ELSE queue
      /\ client' = IF allowed /\ ~G_SearchSpawnQueue(queue[t], c)
                   THEN [stopped EXCEPT ![c].classSelection = TRUE] ELSE stopped
      /\ Keep({})

\* Mutant: out of the queue before out of follow mode.
SpectatorThinkFollowing(c) ==
  LET t == client[c].team
      stopped == StopOwnFollowing(client, c)
      queued == t # TEAM_NONE /\ G_SearchSpawnQueue(queue[t], c)
  IN  /\ client[c].connected
      /\ client[c].spectatorState # "SPECTATOR_NOT"
      /\ queue' = IF queued
                  THEN [queue EXCEPT ![t] =
                          G_RemoveFromSpawnQueue(@, client[c].clientNum)]
                  ELSE queue
      /\ client' = IF queued THEN [stopped EXCEPT ![c].classSelection = FALSE] ELSE stopped
      /\ Keep({})

\* SpectatorThink when the attack button goes down.
SpectatorThink(c) ==
  LET t == client[c].team
      stopped == StopOwnFollowing(client, c)
      queued == t # TEAM_NONE /\ G_SearchSpawnQueue(queue[t], c)
  IN  /\ client[c].connected
      /\ client[c].spectatorState # "SPECTATOR_NOT"
      /\ queue' = IF queued
                  THEN [queue EXCEPT ![t] =
                          G_RemoveFromSpawnQueue(@, stopped[c].clientNum)]
                  ELSE queue
      /\ client' = IF queued THEN [stopped EXCEPT ![c].classSelection = FALSE] ELSE stopped
      /\ Keep({})

Cmd_Follow_f(c) ==
  /\ client[c].connected
  /\ client[c].spectatorState # "SPECTATOR_NOT"
  /\ \/ client' = IF client[c].spectatorState = "SPECTATOR_FOLLOW"
                  THEN G_StopFollowing(client, c) ELSE G_FollowNewClient(client, c, 1)
     \/ \E i \in Client \ {c} :
          /\ client[i].connected
          /\ c \in stickySpec \/ client[i].spectatorState = "SPECTATOR_NOT"
          /\ client[c].team # TEAM_NONE => client[i].team = client[c].team
          /\ client' = Follow(client, c, i)
  /\ UNCHANGED queue
  /\ Keep({})

Cmd_FollowCycle_f(c) ==
  /\ client[c].connected
  /\ client[c].spectatorState # "SPECTATOR_NOT"
  /\ \E dir \in {-1, 1} : client' = G_FollowNewClient(client, c, dir)
  /\ UNCHANGED queue
  /\ Keep({})

\* A follower gets a copy of the playerState of the client it follows.
SpectatorClientEndFrame(c) ==
  /\ client[c].connected
  /\ client[c].spectatorState = "SPECTATOR_FOLLOW"
  /\ client[client[c].spectatorClient].connected
  /\ client' = [client EXCEPT ![c].clientNum = client[client[c].spectatorClient].clientNum]
  /\ UNCHANGED queue
  /\ Keep({})

\* Those who follow c when it dies: see where it died, or move on.
LeaveDead(dead, c) ==
  LET after[n \in 0 .. maxclients] ==
        IF n = 0 THEN dead
        ELSE IF ~Follows(dead, n - 1, c) THEN after[n-1]
        ELSE IF n - 1 \in stickySpec THEN G_FollowLockView(after[n-1], n - 1)
        ELSE FollowOther(after[n-1], n - 1)
  IN  after[maxclients]

\* ClientEndFrame of a dead client.
respawn(c) ==
  /\ client[c].connected
  /\ client[c].spectatorState = "SPECTATOR_NOT"
  /\ client' = LeaveDead(ClientSpawn([client EXCEPT ![c].classSelection = FALSE], c), c)
  /\ UNCHANGED queue
  /\ Keep({})

\* Mutant: a client that left the server is not spawned, and stays first.
SpawnTheConnected(t) ==
  LET c == G_PeekSpawnQueue(queue[t])
  IN  /\ G_GetSpawnQueueLength(queue[t]) > 0
      /\ client[c].connected
      /\ queue' = [queue EXCEPT ![t] = Popped(@)]
      /\ client' = ClientSpawn([G_StopFollowing(client, c)
                                  EXCEPT ![c].spectatorState = "SPECTATOR_NOT"], c)
      /\ Keep({})

\* The team has a spawn point that is free.
G_SpawnClients(t) ==
  LET c == G_PeekSpawnQueue(queue[t])
  IN  /\ G_GetSpawnQueueLength(queue[t]) > 0
      /\ queue' = [queue EXCEPT ![t] = Popped(@)]
      /\ client' = ClientSpawn([G_StopFollowing(client, c)
                                  EXCEPT ![c].spectatorState = "SPECTATOR_NOT"], c)
      /\ Keep({})

Next ==
  \/ \E c \in Client :
       \/ Connect(c)
       \/ ClientDisconnect(c)
       \/ \E t \in Team \cup {TEAM_NONE} : G_ChangeTeam(c, t)
       \/ \E allowed \in BOOLEAN : Cmd_Class_f(c, allowed)
       \/ SpectatorThink(c)
       \/ Cmd_Follow_f(c)
       \/ Cmd_FollowCycle_f(c)
       \/ SpectatorClientEndFrame(c)
       \/ respawn(c)
  \/ \E t \in Team : G_SpawnClients(t)

Spec == Init /\ [][Next]_vars

\* Every frame serves both queues, and a spawn point is free again and again.
FairSpec == Spec /\ \A t \in Team : WF_vars(G_SpawnClients(t))
-----------------------------------------------------------------------------
QueueType ==
  [front : Cell, back : Cell, clients : [Cell -> Client \cup {None}]]

ClientType ==
  [team : Team \cup {TEAM_NONE}, connected : BOOLEAN, classSelection : BOOLEAN,
   spectatorState : {"SPECTATOR_NOT", "SPECTATOR_FREE", "SPECTATOR_FOLLOW"},
   spectatorClient : Client \cup {None}, clientNum : Client]

\* The types of the variables; a follower follows somebody.
TypeOK ==
  /\ queue \in [Team -> QueueType]
  /\ client \in [Client -> ClientType]
  /\ wronged \subseteq Client
  /\ \A c \in Client : client[c].spectatorState = "SPECTATOR_FOLLOW"
                         => client[c].spectatorClient \in Client

\* Whatever a client does while it waits (follow, change its mind, leave, come
\* back), it is in the queue of its team exactly while it has chosen a class
\* and does not play: nobody is lost from a queue, or in one for nothing; but
\* for the clients that a misdirected G_LeaveTeam left behind, or removed.
WaitsWhereItShould == \A c \in Client \ wronged : InOrder(c)

\* The ring with its two indices behaves as a line in which nobody stands
\* twice: G_PushSpawnQueue, G_PopSpawnQueue, G_RemoveFromSpawnQueue.
SL == INSTANCE SpawnLine WITH line <- [t \in Team |-> Line(queue[t])]
BehavesAsLine == SL!Spec

\* A client in a queue does not wait for ever while spawn points come free,
\* whatever the others in the queue do.
Served ==
  \A c \in Client, t \in Team :
    G_SearchSpawnQueue(queue[t], c) ~> ~G_SearchSpawnQueue(queue[t], c)

\* "can only follow teammates when dead and on a team" (g_cmds.cpp).
\* It does not hold: see Deviations in the README.
FollowsTeammates ==
  \A c \in Client :
    /\ client[c].spectatorState = "SPECTATOR_FOLLOW"
    /\ client[c].team # TEAM_NONE
    => client[client[c].spectatorClient].team = client[c].team
=============================================================================
