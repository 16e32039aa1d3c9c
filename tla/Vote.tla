-------------------------------- MODULE Vote --------------------------------
(***************************************************************************)
(* The votes of the game (game/g_main.cpp, g_cmds.cpp): one that concerns  *)
(* everybody, and one in each team.  A client calls a vote, the others     *)
(* vote or do not, clients come, go and change teams meanwhile, and the    *)
(* frame of the game counts: it ends the vote early when the result cannot *)
(* change any more, else when its time is over, and executes a passed one  *)
(* after a delay.                                                          *)
(*                                                                         *)
(* `client' holds what G_Vote and CalculateRanks read of level.clients     *)
(* (pers.connected, teamSelection, and in `voted' the votes whose bit in   *)
(* pers.voted is set, with their bit in pers.vote, which is not read       *)
(* otherwise); `ballot' the arrays of level that a team indexes.  Times are*)
(* in frames: `age' of the vote for voteTime, and for voteExecuteTime the  *)
(* number of frames till it is `due', 0 if none is.  numVotingClients is   *)
(* recomputed whenever it changes.                                         *)
(***************************************************************************)
EXTENDS Integers, FiniteSets

CONSTANTS
  Client,      \* the slots of the server
  Team,        \* the teams one can play for
  VOTE_TIME,   \* frames before a vote times out
  VoteKind,    \* what can be voted on: [string, delay, threshold]
  MaxVotes,    \* bound: votes under way, of everybody and the teams, at a time
  MaxBelow     \* bound: how far below 0 a counter may fall

TEAM_NONE == "none"
Ballot == Team \cup {TEAM_NONE}

ASSUME ClientAssumption == IsFiniteSet(Client)
ASSUME TeamAssumption == TEAM_NONE \notin Team
ASSUME TimeAssumption == VOTE_TIME \in Nat \ {0}
ASSUME BoundAssumption == MaxVotes \in Nat \ {0} /\ MaxBelow \in Nat
ASSUME KindAssumption ==
  \A k \in VoteKind : k.delay \in Nat /\ k.threshold \in 0 .. 100

Off == -1      \* no voteTime

VARIABLES
  client,        \* level.clients
  ballot,        \* level.vote*, per team; voteString, voteDelay and
                 \* voteThreshold are those of `kind'
  intermission,  \* level.intermissiontime # 0
  left,          \* history: who left a team after voting in its vote
  twice,         \* history: the votes where one of those left again
  passed         \* history: what a vote that is due to be executed was on

vars == <<client, ballot, intermission, left, twice, passed>>

Voting(b) == ballot[b].age # Off
Pending(b) == ballot[b].due > 0

Members(b) ==
  IF b = TEAM_NONE
  THEN {c \in Client : client[c].connected # "CON_DISCONNECTED"}
  ELSE {c \in Client : client[c].connected = "CON_CONNECTED" /\ client[c].team = b}

numVotingClients(b) == Cardinality(Members(b))

\* G_Vote(c, b, true) after pers.vote was set to `yes'.
Cast(bal, yes) ==
  [bal EXCEPT !.yes = IF yes THEN @ + 1 ELSE @, !.no = IF yes THEN @ ELSE @ + 1]

\* Mutant: who leaves takes no vote along.
KeptInTally(c, b) == ballot[b]

\* G_Vote(c, b, false): the vote of c no longer counts.
Withdrawn(c, b) ==
  IF ~Voting(b) THEN ballot[b]
  ELSE [ballot[b] EXCEPT !.yes = IF client[c].voted[b] = "yes" THEN @ - 1 ELSE @,
                         !.no = IF client[c].voted[b] = "no" THEN @ - 1 ELSE @]

Voted(c, b) == client[c].voted[b] # ""
Mark(c, b, yes) == [client EXCEPT ![c].voted[b] = IF yes THEN "yes" ELSE "no"]
Bounded(bal) == bal.yes >= -MaxBelow /\ bal.no >= -MaxBelow

\* G_ExecuteVote: the command buffer gets the string.
Executed(bal) == [bal EXCEPT !.due = 0]

NewClient == [connected |-> "CON_DISCONNECTED", team |-> TEAM_NONE,
              voted |-> [b \in Ballot |-> ""]]

Init ==
  /\ client = [c \in Client |-> NewClient]
  /\ \E k \in VoteKind :
       /\ ballot = [b \in Ballot |-> [age |-> Off, yes |-> 0, no |-> 0, due |-> 0, kind |-> k]]
       /\ passed = [b \in Ballot |-> ""]
  /\ intermission = FALSE
  /\ left = [b \in Ballot |-> {}]
  /\ twice = [b \in Ballot |-> FALSE]

\* ClientConnect clears the whole of gclient_t.
ClientConnect(c) ==
  /\ client[c].connected = "CON_DISCONNECTED"
  /\ client' = [client EXCEPT ![c] = [NewClient EXCEPT !.connected = "CON_CONNECTING"]]
  /\ left' = [b \in Ballot |-> left[b] \ {c}]
  /\ UNCHANGED <<ballot, intermission, twice, passed>>

ClientBegin(c) ==
  /\ client[c].connected = "CON_CONNECTING"
  /\ client' = [client EXCEPT ![c].connected = "CON_CONNECTED"]
  /\ UNCHANGED <<ballot, intermission, left, twice, passed>>

\* The history of a client that leaves the team b during its vote.
Leaves(c, b) ==
  LET marked == b # TEAM_NONE /\ Voting(b) /\ Voted(c, b)
  IN  /\ left' = IF marked THEN [left EXCEPT ![b] = @ \cup {c}] ELSE left
      /\ twice' = [twice EXCEPT ![b] = @ \/ (marked /\ c \in left[b])]

\* G_LeaveTeam, then the vote of everybody.
ClientDisconnect(c) ==
  LET t == client[c].team
  IN  /\ client[c].connected # "CON_DISCONNECTED"
      /\ ballot' = [ballot EXCEPT ![t] = Withdrawn(c, t),
                                  ![TEAM_NONE] = Withdrawn(c, TEAM_NONE)]
      /\ Bounded(ballot'[t])
      /\ client' = [client EXCEPT ![c].connected = "CON_DISCONNECTED"]
      /\ Leaves(c, t)
      /\ UNCHANGED <<intermission, passed>>

\* G_LeaveTeam withdraws the vote in the old team, not one on TEAM_NONE.
G_ChangeTeam(c, newTeam) ==
  LET t == client[c].team
  IN  /\ client[c].connected = "CON_CONNECTED"
      /\ t # newTeam
      /\ ballot' = IF t = TEAM_NONE THEN ballot ELSE [ballot EXCEPT ![t] = Withdrawn(c, t)]
      /\ Bounded(ballot'[t])
      /\ client' = [client EXCEPT ![c].team = newTeam]
      /\ Leaves(c, t)
      /\ UNCHANGED <<intermission, passed>>

MayVote(c, b) ==
  /\ client[c].connected = "CON_CONNECTED"
  /\ b \in {client[c].team, TEAM_NONE}
  /\ ~intermission

\* Mutant: a call does not look for a vote that waits to be executed.
CallWhilePending(c, b) ==
  /\ MayVote(c, b)
  /\ ~Voting(b)
  /\ Cardinality({b2 \in Ballot \ {b} : Voting(b2) \/ Pending(b2)}) < MaxVotes
  /\ \E k \in VoteKind :
       ballot' = [ballot EXCEPT ![b] = Cast([@ EXCEPT !.age = 0, !.kind = k], TRUE)]
  /\ client' = Mark(c, b, TRUE)
  /\ UNCHANGED <<intermission, left, twice, passed>>

\* A vote that waits to be executed is, before the next one is looked at.
Cmd_CallVote_f(c, b) ==
  /\ MayVote(c, b)
  /\ ~Voting(b)
  /\ Cardinality({b2 \in Ballot \ {b} : Voting(b2) \/ Pending(b2)}) < MaxVotes
  /\ \/ \E k \in VoteKind :
          LET called == [Executed(ballot[b]) EXCEPT !.age = 0, !.kind = k]
          IN  /\ ballot' = [ballot EXCEPT ![b] =
                              IF Voted(c, b) THEN called ELSE Cast(called, TRUE)]
              /\ client' = Mark(c, b, TRUE)
     \/ /\ ballot' = [ballot EXCEPT ![b] = Executed(@)]      \* a call that is refused
        /\ UNCHANGED client
  /\ passed' = [passed EXCEPT ![b] = ""]
  /\ UNCHANGED <<intermission, left, twice>>

Cmd_Vote_f(c, b, yes) ==
  /\ MayVote(c, b)
  /\ Voting(b)
  /\ ~Voted(c, b)
  /\ ballot' = [ballot EXCEPT ![b] = Cast(@, yes)]
  /\ client' = Mark(c, b, yes)
  /\ UNCHANGED <<intermission, left, twice, passed>>

\* yes / (yes + no) > threshold / 100 in floating point, where yes # 0; the
\* quotient of nothing is an infinity of the sign of yes.
MostVoted(bal) ==
  LET cast == bal.yes + bal.no
  IN  /\ bal.yes # 0
      /\ \/ cast > 0 /\ 100 * bal.yes > bal.kind.threshold * cast
         \/ cast < 0 /\ 100 * bal.yes < bal.kind.threshold * cast
         \/ cast = 0 /\ bal.yes > 0

\* Mutant: the majority of the votes so far.
ResultSoFar(bal, n) ==
  IF MostVoted(bal) THEN "pass"
  ELSE IF bal.age >= VOTE_TIME \/ bal.yes + bal.no = n THEN "fail" ELSE "open"

\* The result of a vote, or "open".
Result(bal, n) ==
  IF bal.age >= VOTE_TIME \/ bal.yes + bal.no = n
  THEN IF MostVoted(bal) THEN "pass" ELSE "fail"
  ELSE IF 100 * bal.yes > bal.kind.threshold * n THEN "pass"
  ELSE IF 100 * bal.no <= (100 - bal.kind.threshold) * n THEN "open"
  ELSE "fail"

\* What G_CheckVote makes of a vote among n clients; one that passes now is
\* executed in the first frame after the delay.
G_CheckVote(bal, n) ==
  IF bal.age = Off \/ Result(bal, n) = "open" THEN bal
  ELSE [bal EXCEPT !.age = Off, !.yes = 0, !.no = 0,
                   !.due = IF Result(bal, n) = "pass" THEN bal.kind.delay + 1 ELSE @]

\* Who has voted is forgotten with the vote.
Ended(b) == Voting(b) /\ ballot'[b].age = Off
Cleared ==
  /\ client' = [c \in Client |-> 
       [client[c] EXCEPT !.voted = [b \in Ballot |-> IF Ended(b) THEN "" ELSE @[b]]]]
  /\ left' = [b \in Ballot |-> IF Ended(b) THEN {} ELSE left[b]]
  /\ twice' = [b \in Ballot |-> twice[b] /\ ~Ended(b)]
  /\ passed' = [b \in Ballot |-> IF Ended(b) /\ ballot'[b].due > 0
                                 THEN ballot[b].kind.string
                                 ELSE IF ballot'[b].due > 0 THEN passed[b] ELSE ""]

\* A frame later: what is due is executed, every vote is checked.
Aged(bal) ==
  [bal EXCEPT !.age = IF @ = Off THEN Off ELSE @ + 1, !.due = IF @ = 0 THEN 0 ELSE @ - 1]

\* Mutant: no votes are looked at in the intermission.
FrameOfPlay ==
  /\ ~intermission
  /\ ballot' = [b \in Ballot |-> G_CheckVote(Aged(ballot[b]), numVotingClients(b))]
  /\ Cleared
  /\ UNCHANGED intermission

G_RunFrame ==
  /\ ballot' = [b \in Ballot |-> G_CheckVote(Aged(ballot[b]), numVotingClients(b))]
  /\ Cleared
  /\ UNCHANGED intermission

\* endvote and cancelvote: as if everyone had voted.
G_admin_endvote(b, cancel) ==
  LET n == numVotingClients(b)
      decided == [ballot[b] EXCEPT !.yes = IF cancel THEN 0 ELSE n,
                                   !.no = IF cancel THEN n ELSE 0]
  IN  /\ Voting(b)
      /\ ballot' = [ballot EXCEPT ![b] = G_CheckVote(decided, n)]
      /\ Cleared
      /\ UNCHANGED intermission

\* G_ClearVotes; what has passed is executed all the same.
BeginIntermission ==
  /\ ~intermission
  /\ intermission' = TRUE
  /\ ballot' = [b \in Ballot |-> [ballot[b] EXCEPT !.age = Off]]
  /\ UNCHANGED <<client, left, twice, passed>>

Next ==
  \/ \E c \in Client :
       \/ ClientConnect(c)
       \/ ClientBegin(c)
       \/ ClientDisconnect(c)
       \/ \E t \in Ballot : G_ChangeTeam(c, t)
       \/ \E b \in Ballot : Cmd_CallVote_f(c, b)
       \/ \E b \in Ballot, yes \in BOOLEAN : Cmd_Vote_f(c, b, yes)
  \/ \E b \in Ballot, cancel \in BOOLEAN : G_admin_endvote(b, cancel)
  \/ G_RunFrame
  \/ BeginIntermission

Spec == Init /\ [][Next]_vars

\* The server runs frames for ever.
FairSpec == Spec /\ WF_vars(G_RunFrame)
-----------------------------------------------------------------------------
TypeOK ==
  /\ client \in [Client -> [connected : {"CON_DISCONNECTED", "CON_CONNECTING", "CON_CONNECTED"},
                            team : Ballot, voted : [Ballot -> {"", "yes", "no"}]]]
  /\ ballot \in [Ballot -> [age : Off .. VOTE_TIME - 1, yes : -MaxBelow .. Cardinality(Client),
                            no : -MaxBelow .. Cardinality(Client),
                            due : Nat, kind : VoteKind]]
  /\ intermission \in BOOLEAN
  /\ left \in [Ballot -> SUBSET Client]
  /\ twice \in [Ballot -> BOOLEAN]
  /\ passed \in [Ballot -> {k.string : k \in VoteKind} \cup {""}]

\* Those whose vote should count: who voted and has not left since.
Voters(b) == {c \in Members(b) \ left[b] : Voted(c, b)}
Supporters(b) == {c \in Voters(b) : client[c].voted[b] = "yes"}

\* The counters of a vote in progress are the votes of those who take part in
\* it still, whoever came, went or changed teams since they voted; but for a
\* client that left its team twice in one vote (see MajoritySupports).
TallyMatches ==
  \A b \in Ballot : Voting(b) /\ ~twice[b] =>
    /\ ballot[b].yes = Cardinality(Supporters(b))
    /\ ballot[b].no = Cardinality(Voters(b) \ Supporters(b))

Percent(b) == ballot[b].kind.threshold
EndsEarly(b) == Ended(b) /\ ballot[b].age + 1 < VOTE_TIME
Passes(b) == Ended(b) /\ ballot'[b].due > 0

\* A vote that ends before its time has a result that the clients who have not
\* voted could not change, for or against.
EarlyIsFinal ==
  [][G_RunFrame => \A b \in Ballot : EndsEarly(b) /\ ~twice[b] =>
       LET all == numVotingClients(b)
           against == Cardinality(Voters(b) \ Supporters(b))
       IN  IF Passes(b) THEN 100 * Cardinality(Supporters(b)) > Percent(b) * all
           ELSE 100 * (all - against) <= Percent(b) * all]_vars

\* What is executed is what was voted on: no call can replace it before.
PassedIsExecuted ==
  \A b \in Ballot : Pending(b) => ~Voting(b) /\ ballot[b].kind.string = passed[b]

\* A vote ends, and one that passed is executed.
VotesEnd ==
  \A b \in Ballot : /\ Voting(b) ~> ~Voting(b)
                    /\ Pending(b) ~> ~Pending(b)

\* "need at least this percent to pass" (g_local.h, voteThreshold): of those
\* who vote, when the frame lets a vote pass.
\* It does not hold: see Deviations in the README.
MajoritySupports ==
  [][G_RunFrame => \A b \in Ballot : Passes(b) =>
       /\ Supporters(b) # {}
       /\ 100 * Cardinality(Supporters(b)) >= Percent(b) * Cardinality(Voters(b))]_vars
=============================================================================
