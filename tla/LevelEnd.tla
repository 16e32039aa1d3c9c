-------------------------------- MODULE LevelEnd --------------------------------
(***************************************************************************)
(* How a level ends: the exit rules, the delay, the intermission and the    *)
(* change to the next level.  The rules are looked at in every frame and,   *)
(* through CalculateRanks, in the middle of most handlers of a client; what *)
(* they do is therefore a function of the level and its clients.            *)
(* level.time is counted from the start of the level, which is time 1; a    *)
(* time of 0 is none.  Pausing is not modelled.                             *)
(***************************************************************************)
EXTENDS Naturals, FiniteSets

CONSTANTS
    NumClients,                 \* level.maxclients
    INTERMISSION_DELAY_TIME,
    StartDelay,                 \* no team can lose before
    MinIntermission,            \* "never exit in less than five seconds"
    ReadyTimeout,               \* "the first person to ready starts the thirty second timeout"
    MaxIntermission,            \* "never let intermission go on for over 1 minute"
    TimeLimit,                  \* g_timelimit
    MaxSpawns,                  \* bound: spawns of a team
    MaxTime                     \* bound: level.time, which no level reaches

ASSUME LevelAssumption ==
    /\ NumClients \in Nat
    /\ INTERMISSION_DELAY_TIME \in Nat
    /\ StartDelay \in Nat \ {0}       \* the first frame counts the spawns
    /\ MinIntermission \in Nat
    /\ ReadyTimeout \in Nat
    /\ MaxIntermission \in Nat
    /\ TimeLimit \in Nat
    /\ MaxSpawns \in Nat
    /\ MaxTime \in Nat \ {0}

VARIABLES
    clients,
    level,
    spawns,         \* the eggs or nodes that each team has
    \* history
    readySince,     \* since when there has been a player who is ready, 0 when there is none
    built           \* the teams that got a spawn since they were counted

levelVars == <<clients, level, spawns, readySince, built>>

Clients == 1 .. NumClients
Teams   == {"TEAM_ALIENS", "TEAM_HUMANS"}

\* A client's body is alive, dead and not respawned yet, or none (a spectator of its team).
Client ==
    [connected : {"CON_DISCONNECTED", "CON_CONNECTING", "CON_CONNECTED"},
     team : {"TEAM_NONE"} \cup Teams,
     body : {"none", "living", "dead"},
     readyToExit : BOOLEAN]

Nobody     == [connected |-> "CON_DISCONNECTED", team |-> "TEAM_NONE", body |-> "none", readyToExit |-> FALSE]
Connecting == [Nobody EXCEPT !.connected = "CON_CONNECTING"]

Level ==
    [time : Nat, numSpawns : [Teams -> Nat], intermissionQueued : Nat, intermissiontime : Nat,
     readyToExit : BOOLEAN, exitTime : Nat, exited : BOOLEAN, restarted : BOOLEAN,
     uncondWin : {"TEAM_NONE"} \cup Teams, lastWin : {"TEAM_NONE"} \cup Teams]

\* The spawns of a map are there in its first frames only (G_SpawnBuildable).
InitLevel ==
    [time |-> 1, numSpawns |-> [t \in Teams |-> 0], intermissionQueued |-> 0, intermissiontime |-> 0,
     readyToExit |-> FALSE, exitTime |-> 0, exited |-> FALSE, restarted |-> FALSE,
     uncondWin |-> "TEAM_NONE", lastWin |-> "TEAM_NONE"]

LevelInit ==
    /\ clients = [c \in Clients |-> Nobody]
    /\ spawns \in [Teams -> 0 .. MaxSpawns]
    /\ level = InitLevel
    /\ readySince = 0
    /\ built = {}

--------------------------------------------------------------------------------
(* The state that handlers work on: the level and its clients. *)

State(l, c) == [level |-> l, clients |-> c]

Connected(c)    == {i \in Clients : c[i].connected # "CON_DISCONNECTED"}
Players(c)      == {i \in Clients : c[i].connected = "CON_CONNECTED" /\ c[i].team # "TEAM_NONE"}
ReadyPlayers(c) == {i \in Players(c) : c[i].readyToExit}
Alive(c, t)     == {i \in Players(c) : c[i].team = t /\ c[i].body # "none"}

\* ClientSpawn as a spectator or with a body: what is not persistent is cleared.
Spawned(client, body) == [client EXCEPT !.body = body, !.readyToExit = FALSE]

\* ExitLevel: the clients have to begin anew.
ExitLevel(s) ==
    State([s.level EXCEPT !.restarted = TRUE, !.intermissiontime = 0],
          [i \in Clients |->
              IF s.clients[i].connected = "CON_CONNECTED"
              THEN [s.clients[i] EXCEPT !.connected = "CON_CONNECTING"]
              ELSE s.clients[i]])

\* BeginIntermission respawns the dead.
BeginIntermission(s) ==
    State([s.level EXCEPT !.intermissionQueued = 0, !.intermissiontime = s.level.time],
          [i \in Clients |->
              IF s.clients[i].body = "dead" THEN Spawned(s.clients[i], "none") ELSE s.clients[i]])

\* Mutant: that the level has ended is not remembered.
LogExitForgets(s, winner) ==
    [s EXCEPT !.level.intermissionQueued = s.level.time, !.level.lastWin = winner]

LogExit(s, winner) ==
    [s EXCEPT !.level.exited = TRUE,
              !.level.intermissionQueued = s.level.time,
              !.level.lastWin = winner]

\* Mutant: a timeout that has begun goes on though nobody is ready any more.
NobodyWantsNever(s) == FALSE

\* "if nobody wants to go, clear timer"
NobodyWants(s) == ReadyPlayers(s.clients) = {} /\ Players(s.clients) # {}

\* "the first person to ready starts the thirty second timeout"
StartTimeout(s) ==
    IF s.level.readyToExit THEN s
    ELSE [s EXCEPT !.level.readyToExit = TRUE, !.level.exitTime = s.level.time]

\* Mutant: the limit is for those only who wait for others to be ready.
OverdueIfReady(s) ==
    /\ s.level.time > s.level.intermissiontime + MaxIntermission
    /\ ReadyPlayers(s.clients) # {}

\* "never let intermission go on for over 1 minute"
Overdue(s) == s.level.time > s.level.intermissiontime + MaxIntermission

CheckIntermissionExit(s) ==
    LET time    == s.level.time
        waiting == StartTimeout(s)
    IN  IF Connected(s.clients) = {} THEN ExitLevel(s)
        ELSE IF time < s.level.intermissiontime + MinIntermission THEN s
        ELSE IF Overdue(s) THEN ExitLevel(s)
        ELSE IF NobodyWants(s) THEN [s EXCEPT !.level.readyToExit = FALSE]
        ELSE IF Players(s.clients) = ReadyPlayers(s.clients) THEN ExitLevel(s)
        ELSE IF time < waiting.level.exitTime + ReadyTimeout THEN waiting
        ELSE ExitLevel(waiting)

\* Mutant: a team can lose before the map has its spawns.
BeatenAtOnce(s, t) ==
    /\ s.level.numSpawns[t] = 0
    /\ Alive(s.clients, t) = {}

\* A team has neither spawns, as they were counted last, nor anyone alive.
Beaten(s, t) ==
    /\ s.level.time > 1 + StartDelay
    /\ s.level.numSpawns[t] = 0
    /\ Alive(s.clients, t) = {}

HumansWin(s) ==
    \/ s.level.uncondWin = "TEAM_HUMANS"
    \/ s.level.uncondWin # "TEAM_ALIENS" /\ Beaten(s, "TEAM_ALIENS")

AliensWin(s) == s.level.uncondWin = "TEAM_ALIENS" \/ Beaten(s, "TEAM_HUMANS")

CheckExitRules(s) ==
    LET l == s.level
    IN  IF l.intermissiontime # 0 THEN CheckIntermissionExit(s)
        ELSE IF l.intermissionQueued # 0 THEN
            IF l.time - l.intermissionQueued >= INTERMISSION_DELAY_TIME THEN BeginIntermission(s) ELSE s
        ELSE IF TimeLimit # 0 /\ l.time - 1 >= TimeLimit THEN LogExit(s, "TEAM_NONE")
        ELSE IF HumansWin(s) THEN LogExit(s, "TEAM_HUMANS")
        ELSE IF AliensWin(s) THEN LogExit(s, "TEAM_ALIENS")
        ELSE s

\* CalculateRanks for what became of a client.
Ranked(s, i, client) == CheckExitRules([s EXCEPT !.clients[i] = client])

Now == State(level, clients)

Becomes(s) ==
    /\ level' = s.level
    /\ clients' = s.clients
    /\ readySince' = (IF ReadyPlayers(clients') = {} THEN 0
                      ELSE IF readySince # 0 THEN readySince ELSE level'.time)

--------------------------------------------------------------------------------
(* What clients do. *)

ClientConnect(i) ==
    /\ clients[i].connected = "CON_DISCONNECTED"
    /\ Becomes(Ranked(Now, i, Connecting))
    /\ UNCHANGED <<spawns, built>>

\* ClientSpawn ranks the clients and ClientBegin does it once more. One that ExitLevel has put
\* back with its body does not come in before the next level.
ClientBegin(i) ==
    /\ clients[i].connected = "CON_CONNECTING"
    /\ clients[i].body = "none"
    /\ Becomes(CheckExitRules(
           Ranked(Now, i, Spawned([clients[i] EXCEPT !.connected = "CON_CONNECTED"], "none"))))
    /\ UNCHANGED <<spawns, built>>

ClientDisconnect(i) ==
    /\ clients[i].connected # "CON_DISCONNECTED"
    /\ Becomes(Ranked(Now, i, Nobody))
    /\ UNCHANGED <<spawns, built>>

\* By the client's own command or, in an intermission too, by an admin's (G_admin_putteam).
G_ChangeTeam(i, t) ==
    /\ clients[i].connected = "CON_CONNECTED"
    /\ clients[i].team # t
    /\ Becomes(Ranked(Now, i, Spawned([clients[i] EXCEPT !.team = t], "none")))
    /\ UNCHANGED <<spawns, built>>

\* player_die; AddScore, if a score changes, ranks the clients.
Die(i) ==
    /\ level.intermissiontime = 0
    /\ ~level.restarted
    /\ clients[i].connected = "CON_CONNECTED"
    /\ clients[i].body = "living"
    /\ LET dead == [clients[i] EXCEPT !.body = "dead"]
       IN  \/ Becomes([Now EXCEPT !.clients[i] = dead])
           \/ Becomes(Ranked(Now, i, dead))
    /\ UNCHANGED <<spawns, built>>

\* ClientIntermissionThink.
Ready(i) ==
    /\ level.intermissiontime # 0
    /\ clients[i].connected = "CON_CONNECTED"
    /\ ~clients[i].readyToExit
    /\ Becomes([Now EXCEPT !.clients[i].readyToExit = TRUE])
    /\ UNCHANGED <<spawns, built>>

G_admin_allready ==
    /\ level.intermissiontime # 0
    /\ Becomes(State(level, [i \in Clients |->
                  IF i \in Players(clients) THEN [clients[i] EXCEPT !.readyToExit = TRUE] ELSE clients[i]]))
    /\ UNCHANGED <<spawns, built>>

--------------------------------------------------------------------------------
(* What ends a level otherwise. *)

\* Mutant: a level can end once more.
EvacuateAlways == TRUE

MayEvacuate == ~level.exited

\* Svcmd_Evacuation_f, which a passed "draw" vote runs, and G_admin_nextmap.
Evacuation ==
    /\ MayEvacuate
    /\ Becomes(LogExit(Now, "TEAM_NONE"))
    /\ UNCHANGED <<spawns, built>>

\* G_admin_changemap and G_admin_restart end the level without an intermission.
Restart ==
    /\ ~level.restarted
    /\ Becomes([Now EXCEPT !.level.restarted = TRUE])
    /\ UNCHANGED <<spawns, built>>

\* target_alien_win_use, target_human_win_use; once the end is decided they change nothing.
TargetWin(t) ==
    /\ ~level.exited
    /\ level.uncondWin = "TEAM_NONE"
    /\ Becomes([Now EXCEPT !.level.uncondWin = t])
    /\ UNCHANGED <<spawns, built>>

\* Spawns that come and go once the end is decided are not modelled.
Build(t) ==
    /\ ~level.exited
    /\ spawns[t] < MaxSpawns
    /\ \E i \in Alive(clients, t) : clients[i].body = "living"
    /\ spawns' = [spawns EXCEPT ![t] = @ + 1]
    /\ built' = built \cup {t}
    /\ UNCHANGED <<clients, level, readySince>>

LoseSpawn(t) ==
    /\ ~level.exited
    /\ spawns[t] > 0
    /\ spawns' = [spawns EXCEPT ![t] = @ - 1]
    /\ UNCHANGED <<clients, level, readySince, built>>

--------------------------------------------------------------------------------
(* Frames. *)

\* ClientEndFrame for every client in turn; those in a set are due to respawn.
ClientEndFrames(s, due) ==
    LET done[i \in 0 .. NumClients] ==
            IF i = 0 THEN s
            ELSE IF i \in due /\ done[i - 1].level.intermissiontime = 0
                 THEN Ranked(done[i - 1], i, Spawned(done[i - 1].clients[i], "none"))
                 ELSE done[i - 1]
    IN  done[NumClients]

G_CountSpawns(s) == [s EXCEPT !.level.numSpawns = spawns]

\* Who may wait for a spawn of a team; SpawnQueue has their order.
Waiting(t) == {i \in Players(clients) : clients[i].team = t /\ clients[i].body = "none"}

\* G_SpawnClients: at most one client of a team comes out of a spawn.
G_SpawnClients(s, t, chosen) ==
    IF chosen # 0 /\ s.level.numSpawns[t] > 0 /\ chosen \in Players(s.clients)
    THEN Ranked(s, chosen, Spawned(s.clients[chosen], "living"))
    ELSE s

\* G_RunFrame: a score may change while the entities are run.
G_RunFrame(scored, due, alien, human) ==
    LET started == [Now EXCEPT !.level.time = @ + 1]
        run     == IF scored THEN CheckExitRules(started) ELSE started
        counted == G_CountSpawns(ClientEndFrames(run, due))
        aliens  == G_SpawnClients(counted, "TEAM_ALIENS", alien)
        humans  == G_SpawnClients(aliens, "TEAM_HUMANS", human)
    IN  CheckExitRules(humans)

Frame ==
    /\ ~level.restarted
    /\ level.time < MaxTime
    /\ \E scored \in BOOLEAN,
          due \in SUBSET {i \in Clients : clients[i].body = "dead"},
          alien \in {0} \cup Waiting("TEAM_ALIENS"),
          human \in {0} \cup Waiting("TEAM_HUMANS") :
             Becomes(G_RunFrame(scored, due, alien, human))
    /\ built' = {}
    /\ UNCHANGED spawns

\* The map command or map_restart is executed, and the game starts anew; sessions that keep
\* a client in its team are not modelled.
G_InitGame ==
    /\ level.restarted
    /\ level' = InitLevel
    /\ clients' = [i \in Clients |->
                      IF clients[i].connected = "CON_DISCONNECTED" THEN Nobody ELSE Connecting]
    /\ spawns' \in [Teams -> 0 .. MaxSpawns]
    /\ readySince' = 0
    /\ built' = {}

--------------------------------------------------------------------------------
LevelNext ==
    \/ \E i \in Clients :
          \/ ClientConnect(i)
          \/ ClientBegin(i)
          \/ ClientDisconnect(i)
          \/ \E t \in {"TEAM_NONE"} \cup Teams : G_ChangeTeam(i, t)
          \/ Die(i)
          \/ Ready(i)
    \/ G_admin_allready
    \/ Evacuation
    \/ Restart
    \/ \E t \in Teams : TargetWin(t) \/ Build(t) \/ LoseSpawn(t)
    \/ Frame
    \/ G_InitGame

LevelSpec == LevelInit /\ [][LevelNext]_levelVars

\* The server runs frames (SV_Frame); nothing else is sure to happen.
LevelFairSpec == LevelSpec /\ WF_levelVars(Frame)

--------------------------------------------------------------------------------
(* Properties. *)

LevelTypeOK ==
    /\ clients \in [Clients -> Client]
    /\ level \in Level
    /\ spawns \in [Teams -> 0 .. MaxSpawns]
    /\ readySince \in 0 .. level.time
    /\ built \in SUBSET Teams
    /\ \A i \in Clients : clients[i].body # "none" => clients[i].team # "TEAM_NONE"
    /\ level.intermissionQueued # 0 \/ level.intermissiontime # 0 => level.exited

\* Once it is decided that the level ends, it does, whoever is ready, comes or leaves
\* (CheckIntermissionExit).
LevelEnds == level.exited ~> level.restarted

Unready(c) == {i \in Connected(c) : c[i].team # "TEAM_NONE" /\ ~c[i].readyToExit}

\* An intermission ends early only when nobody is left, when every player wants it, or when
\* for the whole of the timeout some player has wanted it; in between players may join,
\* leave, change teams and come out of a spawn.
WaitsForPlayers ==
    [][level.intermissiontime # 0 /\ level'.intermissiontime = 0 /\ ~level.restarted =>
          \/ Connected(clients') = {}
          \/ level'.time > level.intermissiontime + MaxIntermission
          \/ /\ level'.time >= level.intermissiontime + MinIntermission
             /\ \/ Unready(clients') = {}
                \/ readySince # 0 /\ level'.time >= readySince + ReadyTimeout]_levelVars

\* A level ends once: from then to the next level the winner stands (level.lastWin, by
\* which the map rotation goes on).
WinnerStands ==
    [][level.exited /\ ~level'.restarted /\ ~level.restarted =>
          /\ level'.lastWin = level.lastWin
          /\ level'.intermissionQueued \in {0, level.intermissionQueued}]_levelVars

\* A team that loses has neither a spawn nor anyone alive, however its members die, leave and
\* respawn between two counts; only a spawn that it has built since may be missed.
LoserIsBeaten ==
    [][\A t \in Teams :
          /\ ~level.exited /\ level'.exited
          /\ level'.lastWin \in Teams \ {t}
          /\ level'.uncondWin # level'.lastWin
          => t \in built \/ (spawns[t] = 0 /\ Alive(clients', t) = {})]_levelVars
================================================================================
