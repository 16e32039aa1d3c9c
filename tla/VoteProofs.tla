------------------------------ MODULE VoteProofs ------------------------------
(***************************************************************************)
(* Proofs about Vote for every finite set of clients, all teams, kinds of  *)
(* vote and bounds.                                                        *)
(***************************************************************************)
EXTENDS Vote, FiniteSetTheorems, TLAPS

\* c is one of the members of b.
In(c, b) ==
  IF b = TEAM_NONE THEN client[c].connected # "CON_DISCONNECTED"
  ELSE client[c].connected = "CON_CONNECTED" /\ client[c].team = b

\* The voters of one side in the vote b.
Side(b, side) == {c \in Client : In(c, b) /\ c \notin left[b] /\ client[c].voted[b] = side}

Counted(b, n, side) ==
  /\ n <= Cardinality(Side(b, side))
  /\ ~twice[b] => n = Cardinality(Side(b, side))

Tallied(b) == Counted(b, ballot[b].yes, "yes") /\ Counted(b, ballot[b].no, "no")

\* The counters of a vote that runs are the sizes of its sides, or less.
Tally == \A b \in Ballot : Voting(b) => Tallied(b)

\* Nothing is left of earlier votes where the next one can be called.
Idle ==
  ~intermission => \A b \in Ballot : ~Voting(b) =>
    /\ ballot[b].yes = 0 /\ ballot[b].no = 0
    /\ left[b] = {} /\ ~twice[b]
    /\ \A c \in Client : ~Voted(c, b)

\* Who has voted is a member still, or is known to have left.
Marks ==
  /\ left[TEAM_NONE] = {} /\ ~twice[TEAM_NONE]
  /\ \A c \in Client, b \in Ballot : c \in left[b] => Voted(c, b)
  /\ \A c \in Client : client[c].connected = "CON_CONNECTING" => \A b \in Ballot : ~Voted(c, b)
  /\ \A c \in Client, b \in Ballot :
       Voting(b) /\ Voted(c, b) /\ client[c].connected = "CON_CONNECTED"
         => In(c, b) \/ c \in left[b]

IInv == TypeOK /\ Tally /\ Idle /\ Marks /\ PassedIsExecuted

-----------------------------------------------------------------------------
(* Sizes of sides, and the parts of the state. *)

USE ClientAssumption, TeamAssumption, TimeAssumption, BoundAssumption, KindAssumption
    DEF ClientAssumption, TeamAssumption, TimeAssumption, BoundAssumption, KindAssumption

\* Sets of clients are finite, and grow and shrink by one.
LEMMA Size ==
  ASSUME NEW S \in SUBSET Client
  PROVE  /\ Cardinality(S) \in Nat /\ Cardinality(Client) \in Nat
         /\ Cardinality(S) <= Cardinality(Client)
         /\ \A c \in Client \ S : Cardinality(S \cup {c}) = Cardinality(S) + 1
         /\ \A c \in S : Cardinality(S \ {c}) = Cardinality(S) - 1
<1>1. IsFiniteSet(S) /\ IsFiniteSet(Client)
  BY FS_Subset
<1>2. Cardinality(S) \in Nat /\ Cardinality(Client) \in Nat
  BY <1>1, FS_CardinalityType
<1>3. Cardinality(S) <= Cardinality(Client)
  BY FS_Subset
<1>4. \A c \in Client \ S : Cardinality(S \cup {c}) = Cardinality(S) + 1
  BY <1>1, FS_AddElement
<1>5. \A c \in S : Cardinality(S \ {c}) = Cardinality(S) - 1
  BY <1>1, FS_RemoveElement
<1> QED
  BY <1>2, <1>3, <1>4, <1>5

Counter == -MaxBelow .. Cardinality(Client)
Record == [age : Off .. VOTE_TIME - 1, yes : Counter, no : Counter, due : Nat, kind : VoteKind]
Marked == [connected : {"CON_DISCONNECTED", "CON_CONNECTING", "CON_CONNECTED"},
           team : Ballot, voted : [Ballot -> {"", "yes", "no"}]]
Histories ==
  /\ left \in [Ballot -> SUBSET Client]
  /\ twice \in [Ballot -> BOOLEAN]
  /\ passed \in [Ballot -> {k.string : k \in VoteKind} \cup {""}]

\* TypeOK, in the parts that the proofs cite.
LEMMA Types ==
  TypeOK <=> /\ client \in [Client -> Marked]
             /\ ballot \in [Ballot -> Record]
             /\ intermission \in BOOLEAN
             /\ Histories
BY DEF TypeOK, Marked, Record, Counter, Histories

-----------------------------------------------------------------------------
(* The invariant holds at first. *)

\* No vote runs at first.
LEMMA InitInv == Init => IInv
<1> SUFFICES ASSUME Init PROVE IInv
  OBVIOUS
<1>0. /\ client = [c \in Client |-> NewClient] /\ intermission = FALSE
      /\ left = [b \in Ballot |-> {}] /\ twice = [b \in Ballot |-> FALSE]
  BY DEF Init
<1>1. PICK k \in VoteKind :
        /\ ballot = [b \in Ballot |-> [age |-> Off, yes |-> 0, no |-> 0, due |-> 0, kind |-> k]]
        /\ passed = [b \in Ballot |-> ""]
  BY DEF Init
<1> DEFINE first == [age |-> Off, yes |-> 0, no |-> 0, due |-> 0, kind |-> k]
<1>2. 0 \in Counter /\ Off \in Off .. VOTE_TIME - 1
  BY Size DEF Counter, Off
<1>3. first \in Record /\ first.age = Off /\ ~(first.due > 0) /\ first.yes = 0 /\ first.no = 0
  BY <1>2 DEF Record
<1> HIDE DEF first
<1>z. ballot = [b \in Ballot |-> first]
  BY <1>1 DEF first
<1>4. client \in [Client -> Marked]
  <2>1. NewClient \in Marked
    BY DEF Marked, NewClient, Ballot
  <2> QED
    BY <1>0, <2>1
<1>5. Histories
  BY <1>0, <1>1 DEF Histories
<1>6. TypeOK
  <2>1. ballot \in [Ballot -> Record] /\ intermission \in BOOLEAN
    BY <1>0, <1>z, <1>3
  <2> QED
    BY <2>1, <1>4, <1>5, Types
<1>7. \A b \in Ballot : ~Voting(b) /\ ~Pending(b) /\ ballot[b].yes = 0 /\ ballot[b].no = 0
  BY <1>z, <1>3 DEF Voting, Pending
<1>8. \A c \in Client, b \in Ballot : ~Voted(c, b)
  BY <1>0 DEF Voted, NewClient
<1>9. \A b \in Ballot : left[b] = {} /\ ~twice[b]
  BY <1>0
<1>10. Tally /\ PassedIsExecuted
  BY <1>7 DEF Tally, PassedIsExecuted
<1>11. Idle
  BY <1>7, <1>8, <1>9 DEF Idle
<1>12. Marks
  BY <1>7, <1>8, <1>9 DEF Marks, Ballot
<1> QED
  BY <1>6, <1>10, <1>11, <1>12 DEF IInv

-----------------------------------------------------------------------------
(* What a check makes of a vote. *)

\* A vote as a check meets it: its time may be over.
Checked == [age : Off .. VOTE_TIME, yes : Counter, no : Counter, due : Nat, kind : VoteKind]

\* A check leaves a vote as it is, or ends it with its counters reset; as it is only
\* where the time is not over and some clients have not voted.
LEMMA CheckVote ==
  ASSUME NEW bal \in Checked, NEW n
  PROVE  LET r == G_CheckVote(bal, n)
         IN  \/ r = bal /\ bal \in Record /\ (bal.age = Off \/ bal.yes + bal.no # n)
             \/ /\ bal.age # Off
                /\ r \in Record
                /\ r.age = Off /\ r.yes = 0 /\ r.no = 0 /\ r.kind = bal.kind
                /\ r.due = bal.due \/ r.due = bal.kind.delay + 1
<1> DEFINE r == G_CheckVote(bal, n)
<1> DEFINE d == IF Result(bal, n) = "pass" THEN bal.kind.delay + 1 ELSE bal.due
<1> DEFINE ended == [bal EXCEPT !.age = Off, !.yes = 0, !.no = 0, !.due = d]
<1>1. CASE bal.age = Off \/ Result(bal, n) = "open"
  <2>1. r = bal
    BY <1>1 DEF G_CheckVote
  <2>2. bal.age \in Off .. VOTE_TIME /\ (bal.age = VOTE_TIME => FALSE)
    <3>1. bal.age \in Off .. VOTE_TIME
      BY DEF Checked
    <3>2. ASSUME bal.age = VOTE_TIME PROVE FALSE
      <4>1. bal.age # Off /\ bal.age >= VOTE_TIME
        BY <3>2 DEF Off
      <4>2. Result(bal, n) # "open"
        BY <4>1 DEF Result
      <4> QED
        BY <4>1, <4>2, <1>1
    <3> QED
      BY <3>1, <3>2
  <2>3. bal.age \in Off .. VOTE_TIME - 1
    BY <2>2 DEF Off
  <2>4. bal \in Record
    BY <2>3 DEF Checked, Record
  <2>5. bal.age = Off \/ bal.yes + bal.no # n
    BY <1>1 DEF Result
  <2> QED
    BY <2>1, <2>4, <2>5
<1>2. CASE ~(bal.age = Off \/ Result(bal, n) = "open")
  <2>1. r = ended
    BY <1>2 DEF G_CheckVote
  <2>2. bal.kind \in VoteKind /\ bal.due \in Nat
    BY DEF Checked
  <2>3. d \in Nat /\ (d = bal.due \/ d = bal.kind.delay + 1)
    BY <2>2
  <2>4. 0 \in Counter /\ Off \in Off .. VOTE_TIME - 1
    BY Size DEF Counter, Off
  <2> HIDE DEF d
  <2>5. /\ ended \in Record /\ ended.age = Off /\ ended.yes = 0 /\ ended.no = 0
        /\ ended.kind = bal.kind /\ ended.due = d
    BY <2>2, <2>3, <2>4 DEF Checked, Record
  <2> QED
    BY <1>2, <2>1, <2>3, <2>5
<1> QED
  BY <1>1, <1>2

-----------------------------------------------------------------------------
(* Votes that stay as they are, and votes that one who leaves takes along. *)

\* The counters before it is known that they are in their bounds.
Loose == [age : Off .. VOTE_TIME - 1, yes : Int, no : Int, due : Nat, kind : VoteKind]

\* A side is a set of clients, before and after a step.
LEMMA Sides ==
  ASSUME NEW b, NEW side
  PROVE  Side(b, side) \in SUBSET Client /\ Side(b, side)' \in SUBSET Client
BY DEF Side

\* A tally within its sides is within its bounds.
LEMMA Fits ==
  ASSUME NEW b \in Ballot, ballot'[b] \in Loose, Tallied(b)', Bounded(ballot'[b])
  PROVE  ballot'[b] \in Record
<1>1. ballot'[b].yes \in Int /\ ballot'[b].no \in Int
  BY DEF Loose
<1>2. /\ ballot'[b].yes <= Cardinality(Side(b, "yes")')
      /\ ballot'[b].no <= Cardinality(Side(b, "no")')
  BY DEF Tallied, Counted
<1>3. /\ Cardinality(Side(b, "yes")') <= Cardinality(Client)
      /\ Cardinality(Side(b, "no")') <= Cardinality(Client)
      /\ Cardinality(Side(b, "yes")') \in Nat /\ Cardinality(Side(b, "no")') \in Nat
      /\ Cardinality(Client) \in Nat
  BY Sides, Size
<1>4. ballot'[b].yes >= -MaxBelow /\ ballot'[b].no >= -MaxBelow
  BY DEF Bounded
<1>5. ballot'[b].yes \in Counter /\ ballot'[b].no \in Counter
  BY <1>1, <1>2, <1>3, <1>4 DEF Counter
<1> QED
  BY <1>5 DEF Loose, Record

\* So is one that is exactly the sizes of its sides.
LEMMA ExactFits ==
  ASSUME NEW b \in Ballot, ballot'[b] \in Loose, Tallied(b)', ~twice'[b]
  PROVE  ballot'[b] \in Record
<1>1. /\ ballot'[b].yes = Cardinality(Side(b, "yes")')
      /\ ballot'[b].no = Cardinality(Side(b, "no")')
  BY DEF Tallied, Counted
<1>2. Cardinality(Side(b, "yes")') \in Nat /\ Cardinality(Side(b, "no")') \in Nat
  BY Sides, Size
<1>3. Bounded(ballot'[b])
  BY <1>1, <1>2 DEF Bounded
<1> QED
  BY <1>3, Fits

\* A vote that a step leaves alone keeps its tally.
LEMMA TallyKept ==
  ASSUME NEW b \in Ballot, Tallied(b), twice'[b] = twice[b],
         ballot'[b].yes = ballot[b].yes, ballot'[b].no = ballot[b].no,
         Side(b, "yes")' = Side(b, "yes"), Side(b, "no")' = Side(b, "no")
  PROVE  Tallied(b)'
BY DEF Tallied, Counted

\* The counter of one side when c leaves, for the first time or again.
LEMMA Taken ==
  ASSUME NEW b \in Ballot, NEW c \in Client, NEW side, NEW n \in Int, NEW m \in Int,
         Counted(b, n, side),
         Side(b, side)' = Side(b, side) \ {c},
         \/ c \notin Side(b, side) /\ m = n /\ (twice[b] => twice'[b])
         \/ c \in Side(b, side) /\ m = n - 1 /\ (twice[b] => twice'[b])
         \/ c \notin Side(b, side) /\ m = n - 1 /\ twice'[b]
  PROVE  Counted(b, m, side)'
<1> DEFINE S == Side(b, side)
<1>1. S \in SUBSET Client /\ S \ {c} \in SUBSET Client
  BY Sides
<1> HIDE DEF S
<1>2. Cardinality(S) \in Nat /\ (c \in S => Cardinality(S \ {c}) = Cardinality(S) - 1)
  BY <1>1, Size
<1>3. c \notin S => Cardinality(S \ {c}) = Cardinality(S)
  <2>1. c \notin S => S \ {c} = S
    OBVIOUS
  <2> QED
    BY <2>1
<1>4. n <= Cardinality(S) /\ (~twice[b] => n = Cardinality(S))
  BY DEF Counted, S
<1>5. CASE c \notin S /\ m = n /\ (twice[b] => twice'[b])
  <2>1. m <= Cardinality(S \ {c})
    BY <1>3, <1>4, <1>5
  <2>2. ~twice'[b] => ~twice[b]
    BY <1>5
  <2>3. ~twice'[b] => m = Cardinality(S \ {c})
    BY <1>3, <1>4, <1>5, <2>2
  <2> QED
    BY <2>1, <2>3 DEF Counted, S
<1>6. CASE c \in S /\ m = n - 1 /\ (twice[b] => twice'[b])
  <2>1. m <= Cardinality(S \ {c})
    BY <1>2, <1>4, <1>6
  <2>2. ~twice'[b] => m = Cardinality(S \ {c})
    <3>1. n = Cardinality(S) => m = Cardinality(S \ {c})
      BY <1>2, <1>6
    <3>2. ~twice'[b] => ~twice[b]
      BY <1>6
    <3> QED
      BY <1>4, <3>1, <3>2
  <2> QED
    BY <2>1, <2>2 DEF Counted, S
<1>7. CASE c \notin S /\ m = n - 1 /\ twice'[b]
  <2>0. m = n - 1 /\ c \notin S
    BY <1>7
  <2>1. m <= Cardinality(S \ {c})
    BY <1>2, <1>3, <1>4, <2>0
  <2> QED
    BY <2>1, <1>7 DEF Counted, S
<1> QED
  BY <1>5, <1>6, <1>7 DEF S

\* What a withdrawal changes: a counter by one, of a vote that runs.
LEMMA WithdrawnFacts ==
  ASSUME TypeOK, NEW c \in Client, NEW b \in Ballot
  PROVE  LET w == Withdrawn(c, b)
             mark == client[c].voted[b]
         IN  /\ w \in Loose
             /\ w.age = ballot[b].age /\ w.due = ballot[b].due /\ w.kind = ballot[b].kind
             /\ ~Voting(b) => w = ballot[b]
             /\ Voting(b) => /\ w.yes = IF mark = "yes" THEN ballot[b].yes - 1 ELSE ballot[b].yes
                             /\ w.no = IF mark = "no" THEN ballot[b].no - 1 ELSE ballot[b].no
<1>1. ballot[b] \in Record
  BY Types
<1>2. Cardinality(Client) \in Nat
  BY Size
<1>3. ballot[b] \in Loose
  BY <1>1, <1>2 DEF Record, Loose, Counter
<1>4. CASE ~Voting(b)
  BY <1>3, <1>4 DEF Withdrawn
<1>5. CASE Voting(b)
  <2> DEFINE y == IF client[c].voted[b] = "yes" THEN ballot[b].yes - 1 ELSE ballot[b].yes
  <2> DEFINE n == IF client[c].voted[b] = "no" THEN ballot[b].no - 1 ELSE ballot[b].no
  <2>1. Withdrawn(c, b) = [ballot[b] EXCEPT !.yes = y, !.no = n]
    BY <1>5 DEF Withdrawn
  <2>2. y \in Int /\ n \in Int
    BY <1>3 DEF Loose
  <2>3. y = (IF client[c].voted[b] = "yes" THEN ballot[b].yes - 1 ELSE ballot[b].yes)
    OBVIOUS
  <2>4. n = (IF client[c].voted[b] = "no" THEN ballot[b].no - 1 ELSE ballot[b].no)
    OBVIOUS
  <2> HIDE DEF y, n
  <2>5. LET w == Withdrawn(c, b)
        IN  /\ w \in Loose /\ w.yes = y /\ w.no = n
            /\ w.age = ballot[b].age /\ w.due = ballot[b].due /\ w.kind = ballot[b].kind
    BY <1>3, <2>1, <2>2 DEF Loose
  <2> QED
    BY <1>5, <2>3, <2>4, <2>5
<1> QED
  BY <1>4, <1>5

\* The vote b after c left it.
LEMMA Leaving ==
  ASSUME TypeOK, Tally, NEW c \in Client, NEW b \in Ballot, Voting(b),
         ballot'[b] = Withdrawn(c, b), Voted(c, b) => In(c, b),
         \A side \in {"yes", "no"} : Side(b, side)' = Side(b, side) \ {c},
         twice[b] => twice'[b], Voted(c, b) /\ c \in left[b] => twice'[b]
  PROVE  Tallied(b)'
<1>1. Counted(b, ballot[b].yes, "yes") /\ Counted(b, ballot[b].no, "no")
  BY DEF Tally, Tallied
<1>2. ballot[b] \in Record /\ Cardinality(Client) \in Nat
  BY Types, Size
<1>3. ballot[b].yes \in Int /\ ballot[b].no \in Int
  BY <1>2 DEF Record, Counter
<1>4. ballot'[b] \in Loose
  BY WithdrawnFacts
<1>5. ballot'[b].yes \in Int /\ ballot'[b].no \in Int
  BY <1>4 DEF Loose
<1>6. ASSUME NEW side \in {"yes", "no"}, NEW n \in Int, NEW m \in Int, Counted(b, n, side),
             m = IF client[c].voted[b] = side THEN n - 1 ELSE n
      PROVE  Counted(b, m, side)'
  <2>1. Side(b, side)' = Side(b, side) \ {c}
    OBVIOUS
  <2>2. c \in Side(b, side) <=> In(c, b) /\ c \notin left[b] /\ client[c].voted[b] = side
    BY DEF Side
  <2>3. CASE client[c].voted[b] # side
    BY <1>6, <2>1, <2>2, <2>3, Taken
  <2>4. CASE client[c].voted[b] = side /\ c \notin left[b]
    <3>1. Voted(c, b)
      BY <2>4 DEF Voted
    <3>2. c \in Side(b, side) /\ m = n - 1
      BY <1>6, <2>2, <2>4, <3>1
    <3> QED
      BY <1>6, <2>1, <3>2, Taken
  <2>5. CASE client[c].voted[b] = side /\ c \in left[b]
    <3>1. Voted(c, b)
      BY <2>5 DEF Voted
    <3>2. c \notin Side(b, side) /\ m = n - 1 /\ twice'[b]
      BY <1>6, <2>2, <2>5, <3>1
    <3> QED
      BY <1>6, <2>1, <3>2, Taken
  <2> QED
    BY <2>3, <2>4, <2>5
<1>7. Counted(b, ballot[b].yes, "yes")'
  <2>1. ballot'[b].yes = IF client[c].voted[b] = "yes" THEN ballot[b].yes - 1 ELSE ballot[b].yes
    BY WithdrawnFacts
  <2> QED
    BY <1>1, <1>3, <1>5, <1>6, <2>1
<1>8. Counted(b, ballot[b].no, "no")'
  <2>1. ballot'[b].no = IF client[c].voted[b] = "no" THEN ballot[b].no - 1 ELSE ballot[b].no
    BY WithdrawnFacts
  <2> QED
    BY <1>1, <1>3, <1>5, <1>6, <2>1
<1> QED
  BY <1>7, <1>8 DEF Tallied

\* What a leaving client changes in the histories.
LEMMA LeavesFacts ==
  ASSUME Histories, NEW c \in Client, NEW t \in Ballot, Leaves(c, t), UNCHANGED passed
  PROVE  /\ Histories'
         /\ \A b \in Ballot :
              /\ left'[b] = left[b] \/ left'[b] = left[b] \cup {c}
              /\ ~(b = t /\ b # TEAM_NONE /\ Voting(b) /\ Voted(c, b))
                   => left'[b] = left[b] /\ twice'[b] = twice[b]
              /\ b = t /\ b # TEAM_NONE /\ Voting(b) /\ Voted(c, b)
                   => c \in left'[b] /\ (c \in left[b] => twice'[b])
              /\ twice[b] => twice'[b]
<1> DEFINE marked == t # TEAM_NONE /\ Voting(t) /\ Voted(c, t)
<1>1. /\ left' = IF marked THEN [left EXCEPT ![t] = @ \cup {c}] ELSE left
      /\ twice' = [twice EXCEPT ![t] = @ \/ (marked /\ c \in left[t])]
  BY DEF Leaves
<1>2. marked \in BOOLEAN /\ (marked <=> t # TEAM_NONE /\ Voting(t) /\ Voted(c, t))
  OBVIOUS
<1> HIDE DEF marked
<1>3. left \in [Ballot -> SUBSET Client] /\ twice \in [Ballot -> BOOLEAN]
  BY DEF Histories
<1>4. left' \in [Ballot -> SUBSET Client] /\ twice' \in [Ballot -> BOOLEAN]
  BY <1>1, <1>3
<1>5. Histories'
  BY <1>4 DEF Histories
<1>6. ASSUME NEW b \in Ballot
      PROVE  /\ left'[b] = IF b = t /\ marked THEN left[b] \cup {c} ELSE left[b]
             /\ b # t \/ ~marked => twice'[b] = twice[b]
             /\ b = t /\ marked /\ c \in left[b] => twice'[b]
             /\ twice[b] => twice'[b]
  BY <1>1, <1>3
<1> QED
  BY <1>2, <1>5, <1>6

-----------------------------------------------------------------------------
(* Clients that leave or change teams. *)

\* What leaving does besides the tallies: nothing to votes that do not run.
LEMMA LeftIdle ==
  ASSUME IInv, NEW c \in Client, NEW t \in Ballot, Leaves(c, t),
         UNCHANGED <<intermission, passed>>,
         \A b \in Ballot : ballot'[b] \in {ballot[b], Withdrawn(c, b)},
         \A d \in Client : client'[d].voted = client[d].voted
  PROVE  /\ Histories' /\ Idle' /\ PassedIsExecuted'
         /\ left'[TEAM_NONE] = {} /\ ~twice'[TEAM_NONE]
         /\ \A d \in Client, b \in Ballot : d \in left'[b] => Voted(d, b)'
         /\ \A b \in Ballot : /\ ballot'[b] \in Loose
                              /\ Voting(b)' <=> Voting(b)
                              /\ ~Voting(b) => ballot'[b] = ballot[b]
<1> USE DEF IInv
<1>1. Histories /\ TypeOK
  BY Types
<1>2. ASSUME NEW b \in Ballot
      PROVE  /\ ballot'[b] \in Loose
             /\ ballot'[b].age = ballot[b].age /\ ballot'[b].due = ballot[b].due
             /\ ballot'[b].kind = ballot[b].kind
             /\ ~Voting(b) => ballot'[b] = ballot[b]
  <2>1. ballot[b] \in Loose
    <3>1. ballot[b] \in Record /\ Cardinality(Client) \in Nat
      BY Types, Size
    <3> QED
      BY <3>1 DEF Record, Loose, Counter
  <2>2. CASE ballot'[b] = ballot[b]
    BY <2>1, <2>2
  <2>3. CASE ballot'[b] = Withdrawn(c, b)
    BY <1>1, <2>3, WithdrawnFacts
  <2> QED
    BY <2>2, <2>3
<1>3. \A b \in Ballot : (Voting(b)' <=> Voting(b)) /\ (Pending(b)' <=> Pending(b))
  BY <1>2 DEF Voting, Pending
<1>4. Histories'
  BY <1>1, LeavesFacts
<1>5. \A b \in Ballot : ~Voting(b) => left'[b] = left[b] /\ twice'[b] = twice[b]
  BY <1>1, LeavesFacts
<1>6. Idle'
  <2> SUFFICES ASSUME ~intermission', NEW b \in Ballot, ~Voting(b)'
               PROVE  /\ ballot'[b].yes = 0 /\ ballot'[b].no = 0
                      /\ left'[b] = {} /\ ~twice'[b]
                      /\ \A d \in Client : ~Voted(d, b)'
    BY DEF Idle
  <2>1. /\ ballot[b].yes = 0 /\ ballot[b].no = 0 /\ left[b] = {} /\ ~twice[b]
        /\ \A d \in Client : ~Voted(d, b)
    BY <1>3 DEF Idle
  <2> QED
    BY <1>2, <1>3, <1>5, <2>1 DEF Voted
<1>7. PassedIsExecuted'
  BY <1>2, <1>3 DEF PassedIsExecuted
<1>8. left'[TEAM_NONE] = {} /\ ~twice'[TEAM_NONE]
  <2>1. TEAM_NONE \in Ballot
    BY DEF Ballot
  <2>2. left'[TEAM_NONE] = left[TEAM_NONE] /\ twice'[TEAM_NONE] = twice[TEAM_NONE]
    BY <1>1, <2>1, LeavesFacts
  <2> QED
    BY <2>2 DEF Marks
<1>9. ASSUME NEW d \in Client, NEW b \in Ballot, d \in left'[b]
      PROVE  Voted(d, b)'
  <2>1. CASE left'[b] = left[b]
    BY <1>9, <2>1 DEF Marks, Voted
  <2>2. CASE left'[b] # left[b]
    <3>1. Voted(c, b) /\ left'[b] = left[b] \cup {c}
      BY <1>1, <2>2, LeavesFacts
    <3>2. d \in left[b] => Voted(d, b)
      BY DEF Marks
    <3>3. Voted(d, b)
      BY <1>9, <3>1, <3>2
    <3> QED
      BY <3>3 DEF Voted
  <2> QED
    BY <2>1, <2>2
<1> QED
  BY <1>2, <1>3, <1>4, <1>6, <1>7, <1>8, <1>9

\* A client that disconnects keeps the invariant.
LEMMA DisconnectInv ==
  ASSUME IInv, NEW c \in Client, ClientDisconnect(c)
  PROVE  IInv'
<1> DEFINE t == client[c].team
<1> USE DEF IInv
<1>1. /\ client \in [Client -> Marked] /\ ballot \in [Ballot -> Record]
      /\ Histories /\ intermission \in BOOLEAN
  BY Types
<1>2. t \in Ballot /\ TEAM_NONE \in Ballot
  BY <1>1 DEF Marked, Ballot
<1>3. /\ client[c].connected # "CON_DISCONNECTED"
      /\ ballot' = [ballot EXCEPT ![t] = Withdrawn(c, t), ![TEAM_NONE] = Withdrawn(c, TEAM_NONE)]
      /\ Bounded(ballot'[t])
      /\ client' = [client EXCEPT ![c].connected = "CON_DISCONNECTED"]
      /\ Leaves(c, t) /\ UNCHANGED <<intermission, passed>>
  BY DEF ClientDisconnect
<1> HIDE DEF t
<1>4. client' \in [Client -> Marked]
  BY <1>1, <1>3 DEF Marked
<1>5. /\ \A d \in Client : client'[d].voted = client[d].voted /\ client'[d].team = client[d].team
      /\ \A d \in Client \ {c} : client'[d] = client[d]
      /\ client'[c].connected = "CON_DISCONNECTED"
  BY <1>1, <1>3 DEF Marked
<1>6. \A b \in Ballot : ballot'[b] = IF b \in {t, TEAM_NONE} THEN Withdrawn(c, b) ELSE ballot[b]
  BY <1>1, <1>2, <1>3
<1>7. /\ Histories' /\ Idle' /\ PassedIsExecuted'
      /\ left'[TEAM_NONE] = {} /\ ~twice'[TEAM_NONE]
      /\ \A d \in Client, b \in Ballot : d \in left'[b] => Voted(d, b)'
      /\ \A b \in Ballot : /\ ballot'[b] \in Loose
                           /\ Voting(b)' <=> Voting(b)
                           /\ ~Voting(b) => ballot'[b] = ballot[b]
  <2>1. \A b \in Ballot : ballot'[b] \in {ballot[b], Withdrawn(c, b)}
    BY <1>6
  <2>2. \A d \in Client : client'[d].voted = client[d].voted
    BY <1>5
  <2> HIDE DEF IInv
  <2> QED
    BY <1>2, <1>3, <2>1, <2>2, LeftIdle
<1>8. \A b \in Ballot : left'[b] = left[b] \/ left'[b] = left[b] \cup {c}
  BY <1>1, <1>2, <1>3, LeavesFacts
<1>9. /\ \A b \in Ballot : twice[b] => twice'[b]
      /\ \A b \in Ballot : b # t => twice'[b] = twice[b]
      /\ \A b \in Ballot : b = t /\ b # TEAM_NONE /\ Voting(b) /\ Voted(c, b) /\ c \in left[b]
                             => twice'[b]
  BY <1>1, <1>2, <1>3, LeavesFacts
<1>10. ASSUME NEW b \in Ballot, NEW side
      PROVE  Side(b, side)' = Side(b, side) \ {c}
  <2>1. ~In(c, b)'
    BY <1>5 DEF In
  <2>2. \A d \in Client \ {c} : In(d, b)' <=> In(d, b)
    BY <1>5 DEF In
  <2>3. \A d \in Client \ {c} : d \in left'[b] <=> d \in left[b]
    BY <1>8
  <2> QED
    BY <1>5, <2>1, <2>2, <2>3 DEF Side
<1>11. ASSUME NEW b \in Ballot, Voting(b), b \in {t, TEAM_NONE}
       PROVE  Tallied(b)'
  <2>1. ballot'[b] = Withdrawn(c, b)
    BY <1>6, <1>11
  <2>2. ASSUME Voted(c, b) PROVE In(c, b)
    <3>1. client[c].connected = "CON_CONNECTED"
      BY <1>1, <1>3, <2>2 DEF Marks, Marked
    <3> QED
      BY <1>11, <3>1 DEF In, t
  <2>3. Voted(c, b) /\ c \in left[b] => twice'[b]
    <3>1. CASE b = TEAM_NONE
      BY <3>1 DEF Marks
    <3>2. CASE b # TEAM_NONE
      <4>1. b = t
        BY <1>11, <3>2
      <4> QED
        BY <1>9, <1>11, <3>2, <4>1
    <3> QED
      BY <3>1, <3>2
  <2>4. twice[b] => twice'[b]
    BY <1>9
  <2> QED
    BY <1>10, <1>11, <2>1, <2>2, <2>3, <2>4, Leaving
<1>12. ASSUME NEW b \in Ballot, Voting(b), b \notin {t, TEAM_NONE}
       PROVE  Tallied(b)'
  <2>1. ~In(c, b)
    BY <1>12 DEF In, t
  <2>2. \A side : c \notin Side(b, side)
    BY <2>1 DEF Side
  <2>3. Side(b, "yes")' = Side(b, "yes") /\ Side(b, "no")' = Side(b, "no")
    BY <1>10, <2>2
  <2>4. ballot'[b] = ballot[b] /\ twice'[b] = twice[b]
    <3>1. b # t /\ b # TEAM_NONE
      BY <1>12
    <3> QED
      BY <1>6, <1>9, <3>1
  <2>5. Tallied(b)
    BY <1>12 DEF Tally
  <2> QED
    BY <2>3, <2>4, <2>5, TallyKept
<1>13. Tally'
  BY <1>7, <1>11, <1>12 DEF Tally
<1>14. ASSUME NEW b \in Ballot PROVE ballot'[b] \in Record
  <2>1. CASE b \notin {t, TEAM_NONE} \/ ~Voting(b)
    BY <1>1, <1>6, <1>7, <2>1
  <2>2. CASE b = TEAM_NONE /\ Voting(b)
    BY <1>7, <1>11, <2>2, ExactFits
  <2>3. CASE b = t /\ Voting(b)
    BY <1>3, <1>7, <1>11, <2>3, Fits
  <2> QED
    BY <2>1, <2>2, <2>3
<1>15. TypeOK'
  <2>1. ballot' \in [Ballot -> Record]
    BY <1>1, <1>3, <1>14
  <2>2. intermission' \in BOOLEAN
    BY <1>1, <1>3
  <2>3. Histories'
    BY <1>7
  <2> QED
    BY <1>4, <2>1, <2>2, <2>3 DEF TypeOK, Marked, Record, Counter, Histories
<1>16. Marks'
  <2>1. \A d \in Client : client'[d].connected \in {client[d].connected, "CON_DISCONNECTED"}
    BY <1>5
  <2>2. \A d \in Client, b \in Ballot : Voted(d, b)' <=> Voted(d, b)
    BY <1>5 DEF Voted
  <2>3. \A d \in Client : client'[d].connected = "CON_CONNECTING"
          => \A b \in Ballot : ~Voted(d, b)'
    BY <2>1, <2>2 DEF Marks
  <2>4. ASSUME NEW d \in Client, NEW b \in Ballot,
               Voting(b)', Voted(d, b)', client'[d].connected = "CON_CONNECTED"
        PROVE  In(d, b)' \/ d \in left'[b]
    <3>1. d # c /\ client'[d] = client[d]
      BY <1>5, <2>4
    <3>2. In(d, b) \/ d \in left[b]
      BY <1>7, <2>2, <2>4, <3>1 DEF Marks
    <3>3. In(d, b)' <=> In(d, b)
      BY <3>1 DEF In
    <3>4. d \in left[b] => d \in left'[b]
      BY <1>8
    <3> QED
      BY <3>2, <3>3, <3>4
  <2> QED
    BY <1>7, <2>3, <2>4 DEF Marks
<1> QED
  BY <1>7, <1>13, <1>15, <1>16

\* A client that changes teams keeps the invariant.
LEMMA ChangeTeamInv ==
  ASSUME IInv, NEW c \in Client, NEW newTeam \in Ballot, G_ChangeTeam(c, newTeam)
  PROVE  IInv'
<1> USE DEF IInv
<1>1. /\ client \in [Client -> Marked] /\ ballot \in [Ballot -> Record]
      /\ Histories /\ intermission \in BOOLEAN
  BY Types
<1>2. PICK t \in Ballot : t = client[c].team
  BY <1>1 DEF Marked
<1>3. /\ client[c].connected = "CON_CONNECTED" /\ t # newTeam
      /\ ballot' = IF t = TEAM_NONE THEN ballot ELSE [ballot EXCEPT ![t] = Withdrawn(c, t)]
      /\ Bounded(ballot'[t])
      /\ client' = [client EXCEPT ![c].team = newTeam]
      /\ Leaves(c, t) /\ UNCHANGED <<intermission, passed>>
  BY <1>2 DEF G_ChangeTeam
<1>4. client' \in [Client -> Marked]
  BY <1>1, <1>3 DEF Marked
<1>5. /\ \A d \in Client : client'[d].voted = client[d].voted
                          /\ client'[d].connected = client[d].connected
      /\ \A d \in Client \ {c} : client'[d] = client[d]
      /\ client'[c].team = newTeam
  BY <1>1, <1>3 DEF Marked
<1>6. \A b \in Ballot : ballot'[b] = IF b = t /\ t # TEAM_NONE THEN Withdrawn(c, b) ELSE ballot[b]
  BY <1>1, <1>2, <1>3
<1>7. /\ Histories' /\ Idle' /\ PassedIsExecuted'
      /\ left'[TEAM_NONE] = {} /\ ~twice'[TEAM_NONE]
      /\ \A d \in Client, b \in Ballot : d \in left'[b] => Voted(d, b)'
      /\ \A b \in Ballot : /\ ballot'[b] \in Loose
                           /\ Voting(b)' <=> Voting(b)
                           /\ ~Voting(b) => ballot'[b] = ballot[b]
  BY <1>3, <1>5, <1>6, LeftIdle
<1>8. \A b \in Ballot : left'[b] = left[b] \/ left'[b] = left[b] \cup {c}
  BY <1>1, <1>3, LeavesFacts
<1>9. \A b \in Ballot : b # t \/ b = TEAM_NONE => left'[b] = left[b] /\ twice'[b] = twice[b]
  BY <1>1, <1>3, LeavesFacts
<1>10. \A b \in Ballot : twice[b] => twice'[b]
  BY <1>1, <1>3, LeavesFacts
<1>11. t # TEAM_NONE /\ Voting(t) /\ Voted(c, t) => c \in left'[t] /\ (c \in left[t] => twice'[t])
  BY <1>1, <1>3, LeavesFacts
<1>12. \A d \in Client, b \in Ballot : Voted(d, b)' <=> Voted(d, b)
  BY <1>5 DEF Voted
<1>13. /\ \A d \in Client \ {c}, b \in Ballot : In(d, b)' <=> In(d, b)
       /\ \A d \in Client \ {c}, b \in Ballot : d \in left'[b] <=> d \in left[b]
  <2>1. \A d \in Client \ {c}, b \in Ballot : In(d, b)' <=> In(d, b)
    BY <1>5 DEF In
  <2>2. \A d \in Client \ {c}, b \in Ballot : d \in left'[b] <=> d \in left[b]
    BY <1>8
  <2> QED
    BY <2>1, <2>2
<1>14. ASSUME NEW b \in Ballot, Voting(b), b # t \/ b = TEAM_NONE
       PROVE  Tallied(b)'
  <2>1. left'[b] = left[b] /\ twice'[b] = twice[b] /\ ballot'[b] = ballot[b]
    BY <1>6, <1>9, <1>14
  <2>2. ASSUME Voted(c, b), c \notin left[b] PROVE In(c, b)' /\ In(c, b)
    <3>1. In(c, b)
      BY <1>3, <1>14, <2>2 DEF Marks
    <3>2. b = TEAM_NONE
        BY <1>2, <1>14, <3>1 DEF In
    <3> QED
      BY <1>3, <1>5, <3>1, <3>2 DEF In
  <2>3. ASSUME NEW side \in {"yes", "no"} PROVE Side(b, side)' = Side(b, side)
    <3>1. ASSUME NEW d \in Client, d \notin left[b], client[d].voted[b] = side
          PROVE  In(d, b)' <=> In(d, b)
      <4>1. CASE d = c
        BY <2>2, <3>1, <4>1 DEF Voted
      <4>2. CASE d # c
        BY <1>13, <4>2
      <4> QED
        BY <4>1, <4>2
    <3> QED
      BY <1>5, <2>1, <3>1 DEF Side
  <2>4. Tallied(b)
    BY <1>14 DEF Tally
  <2> QED
    BY <2>1, <2>3, <2>4, TallyKept
<1>15. ASSUME Voting(t), t # TEAM_NONE
       PROVE  Tallied(t)'
  <2>1. ballot'[t] = Withdrawn(c, t)
    BY <1>2, <1>6, <1>15
  <2>2. In(c, t) /\ ~In(c, t)'
    BY <1>2, <1>3, <1>5, <1>15 DEF In
  <2>3. ASSUME NEW side \in {"yes", "no"} PROVE Side(t, side)' = Side(t, side) \ {c}
    BY <1>2, <1>5, <1>13, <2>2 DEF Side
  <2>4. Voted(c, t) /\ c \in left[t] => twice'[t]
    BY <1>11, <1>15
  <2>5. twice[t] => twice'[t]
    BY <1>2, <1>10
  <2> QED
    BY <1>2, <1>15, <2>1, <2>2, <2>3, <2>4, <2>5, Leaving
<1>16. Tally'
  BY <1>7, <1>14, <1>15 DEF Tally
<1>17. ASSUME NEW b \in Ballot PROVE ballot'[b] \in Record
  <2>1. CASE b # t \/ t = TEAM_NONE \/ ~Voting(b)
    BY <1>1, <1>6, <1>7, <2>1
  <2>2. CASE b = t /\ t # TEAM_NONE /\ Voting(b)
    BY <1>3, <1>7, <1>15, <2>2, Fits
  <2> QED
    BY <2>1, <2>2
<1>18. TypeOK'
  <2>1. ballot' \in [Ballot -> Record]
    BY <1>1, <1>3, <1>17
  <2>2. intermission' \in BOOLEAN
    BY <1>1, <1>3
  <2>3. Histories'
    BY <1>7
  <2> QED
    BY <1>4, <2>1, <2>2, <2>3 DEF TypeOK, Marked, Record, Counter, Histories
<1>19. Marks'
  <2>1. \A d \in Client : client'[d].connected = "CON_CONNECTING"
          => \A b \in Ballot : ~Voted(d, b)'
    BY <1>5, <1>12 DEF Marks
  <2>2. ASSUME NEW d \in Client, NEW b \in Ballot,
               Voting(b)', Voted(d, b)', client'[d].connected = "CON_CONNECTED"
        PROVE  In(d, b)' \/ d \in left'[b]
    <3>1. Voting(b) /\ Voted(d, b) /\ (In(d, b) \/ d \in left[b])
      BY <1>5, <1>7, <1>12, <2>2 DEF Marks
    <3>2. CASE d # c
      BY <1>13, <3>1, <3>2
    <3>3. CASE d = c /\ b = TEAM_NONE
      BY <1>3, <1>5, <3>3 DEF In
    <3>4. CASE d = c /\ b = t /\ b # TEAM_NONE
      BY <1>11, <3>1, <3>4
    <3>5. CASE d = c /\ b # t /\ b # TEAM_NONE
      <4>1. ~In(d, b)
        BY <1>2, <3>5 DEF In
      <4>2. left'[b] = left[b]
        BY <1>9, <3>5
      <4> QED
        BY <3>1, <4>1, <4>2
    <3> QED
      BY <3>2, <3>3, <3>4, <3>5
  <2> QED
    BY <1>7, <2>1, <2>2 DEF Marks
<1> QED
  BY <1>7, <1>16, <1>18, <1>19

-----------------------------------------------------------------------------
(* Clients that come, and the intermission. *)

\* A slot that is taken anew has no vote of its last client.
LEMMA ConnectInv ==
  ASSUME IInv, NEW c \in Client, ClientConnect(c)
  PROVE  IInv'
<1> USE DEF IInv
<1>1. /\ client \in [Client -> Marked] /\ Histories
  BY Types
<1> DEFINE fresh == [NewClient EXCEPT !.connected = "CON_CONNECTING"]
<1>2. /\ client[c].connected = "CON_DISCONNECTED"
      /\ client' = [client EXCEPT ![c] = fresh]
      /\ left' = [b \in Ballot |-> left[b] \ {c}]
      /\ UNCHANGED <<ballot, intermission, twice, passed>>
  BY DEF ClientConnect
<1>3. /\ fresh \in Marked /\ fresh.connected = "CON_CONNECTING"
      /\ \A b \in Ballot : fresh.voted[b] = ""
  BY DEF NewClient, Marked, Ballot
<1> HIDE DEF fresh
<1>4. TypeOK'
  <2>1. client' \in [Client -> Marked]
    BY <1>1, <1>2, <1>3
  <2>2. Histories'
    BY <1>1, <1>2 DEF Histories
  <2> QED
    BY <1>2, <2>1, <2>2 DEF TypeOK, Marked, Record, Counter, Histories
<1>5. client'[c] = fresh /\ \A d \in Client \ {c} : client'[d] = client[d]
  BY <1>1, <1>2
<1>6. \A b \in Ballot : Voting(b)' <=> Voting(b)
  BY <1>2 DEF Voting
<1>7. \A b \in Ballot : ~Voted(c, b)' /\ \A d \in Client \ {c} : Voted(d, b)' <=> Voted(d, b)
  BY <1>3, <1>5 DEF Voted
<1>8. Tally'
  <2> SUFFICES ASSUME NEW b \in Ballot, Voting(b) PROVE Tallied(b)'
    BY <1>6 DEF Tally
  <2>1. ASSUME NEW side \in {"yes", "no"} PROVE Side(b, side)' = Side(b, side)
    <3>1. ~(In(c, b) \/ client'[c].voted[b] = side)
      BY <1>2, <1>3, <1>5 DEF In
    <3>2. \A d \in Client \ {c} : In(d, b)' <=> In(d, b)
      BY <1>5 DEF In
    <3>3. \A d \in Client \ {c} : d \in left'[b] <=> d \in left[b]
      BY <1>2
    <3> QED
      BY <1>5, <3>1, <3>2, <3>3 DEF Side
  <2>2. Tallied(b)
    BY DEF Tally
  <2> QED
    BY <1>2, <2>1, <2>2, TallyKept
<1>9. Idle'
  BY <1>2, <1>6, <1>7 DEF Idle
<1>10. Marks'
  <2>1. left'[TEAM_NONE] = {} /\ ~twice'[TEAM_NONE]
    BY <1>2 DEF Marks, Ballot
  <2>4. \A d \in Client, b \in Ballot : d \in left'[b] => Voted(d, b)'
    <3>1. \A b \in Ballot : c \notin left'[b] /\ \A d \in Client : d \in left'[b] => d \in left[b]
      BY <1>2
    <3> QED
      BY <1>7, <3>1 DEF Marks
  <2>2. \A d \in Client : client'[d].connected = "CON_CONNECTING"
          => \A b \in Ballot : ~Voted(d, b)'
    BY <1>5, <1>7 DEF Marks
  <2>3. ASSUME NEW d \in Client, NEW b \in Ballot,
               Voting(b)', Voted(d, b)', client'[d].connected = "CON_CONNECTED"
        PROVE  In(d, b)' \/ d \in left'[b]
    <3>1. d # c /\ Voted(d, b) /\ Voting(b) /\ client'[d] = client[d]
      BY <1>5, <1>6, <1>7, <2>3
    <3>2. In(d, b) \/ d \in left[b]
      BY <2>3, <3>1 DEF Marks
    <3>3. In(d, b)' <=> In(d, b)
      BY <3>1 DEF In
    <3>4. d \in left'[b] <=> d \in left[b]
      BY <1>2, <3>1
    <3> QED
      BY <3>2, <3>3, <3>4
  <2> QED
    BY <2>1, <2>2, <2>3, <2>4 DEF Marks
<1>11. PassedIsExecuted'
  BY <1>2 DEF PassedIsExecuted, Pending, Voting
<1> QED
  BY <1>4, <1>8, <1>9, <1>10, <1>11

\* A client that enters the game has not voted.
LEMMA BeginInv ==
  ASSUME IInv, NEW c \in Client, ClientBegin(c)
  PROVE  IInv'
<1> USE DEF IInv
<1>1. /\ client \in [Client -> Marked] /\ Histories
  BY Types
<1>2. /\ client[c].connected = "CON_CONNECTING"
      /\ client' = [client EXCEPT ![c].connected = "CON_CONNECTED"]
      /\ UNCHANGED <<ballot, intermission, left, twice, passed>>
  BY DEF ClientBegin
<1>3. TypeOK'
  <2>1. client' \in [Client -> Marked]
    BY <1>1, <1>2 DEF Marked
  <2> QED
    BY <1>2, <2>1 DEF TypeOK, Marked
<1>4. /\ \A d \in Client : client'[d].voted = client[d].voted
      /\ \A d \in Client \ {c} : client'[d] = client[d]
      /\ client'[c].connected = "CON_CONNECTED"
  BY <1>1, <1>2 DEF Marked
<1>5. \A b \in Ballot : Voting(b)' <=> Voting(b)
  BY <1>2 DEF Voting
<1>6. \A d \in Client, b \in Ballot : Voted(d, b)' <=> Voted(d, b)
  BY <1>4 DEF Voted
<1>7. \A b \in Ballot : ~Voted(c, b)
  BY <1>2 DEF Marks
<1>8. Tally'
  <2> SUFFICES ASSUME NEW b \in Ballot, Voting(b) PROVE Tallied(b)'
    BY <1>5 DEF Tally
  <2>1. ASSUME NEW side \in {"yes", "no"} PROVE Side(b, side)' = Side(b, side)
    <3>1. client[c].voted[b] # side
      BY <1>7 DEF Voted
    <3>2. \A d \in Client \ {c} : In(d, b)' <=> In(d, b)
      BY <1>4 DEF In
    <3> QED
      BY <1>2, <1>4, <3>1, <3>2 DEF Side
  <2>2. Tallied(b)
    BY DEF Tally
  <2> QED
    BY <1>2, <2>1, <2>2, TallyKept
<1>9. Idle'
  BY <1>2, <1>5, <1>6 DEF Idle
<1>10. Marks'
  <2>1. \A d \in Client : client'[d].connected = "CON_CONNECTING"
          => \A b \in Ballot : ~Voted(d, b)'
    BY <1>4, <1>6 DEF Marks
  <2>2. ASSUME NEW d \in Client, NEW b \in Ballot,
               Voting(b)', Voted(d, b)', client'[d].connected = "CON_CONNECTED"
        PROVE  In(d, b)' \/ d \in left'[b]
    <3>1. d # c /\ Voted(d, b) /\ Voting(b) /\ client'[d] = client[d]
      BY <1>4, <1>5, <1>6, <1>7, <2>2
    <3>2. In(d, b) \/ d \in left[b]
      BY <2>2, <3>1 DEF Marks
    <3>3. In(d, b)' <=> In(d, b)
      BY <3>1 DEF In
    <3> QED
      BY <1>2, <3>2, <3>3
  <2>3. left'[TEAM_NONE] = {} /\ ~twice'[TEAM_NONE]
    BY <1>2 DEF Marks
  <2>4. \A d \in Client, b \in Ballot : d \in left'[b] => Voted(d, b)'
    BY <1>2, <1>6 DEF Marks
  <2> QED
    BY <2>1, <2>2, <2>3, <2>4 DEF Marks
<1>11. PassedIsExecuted'
  BY <1>2 DEF PassedIsExecuted, Pending, Voting
<1> QED
  BY <1>3, <1>8, <1>9, <1>10, <1>11

\* The intermission ends every vote, and drops none that is due.
LEMMA IntermissionInv ==
  ASSUME IInv, BeginIntermission
  PROVE  IInv'
<1> USE DEF IInv
<1>1. ballot \in [Ballot -> Record] /\ TypeOK
  BY Types
<1>2. /\ intermission' = TRUE
      /\ ballot' = [b \in Ballot |-> [ballot[b] EXCEPT !.age = Off]]
      /\ UNCHANGED <<client, left, twice, passed>>
  BY DEF BeginIntermission
<1>3. \A b \in Ballot : /\ ballot'[b] \in Record /\ ballot'[b].age = Off
                       /\ ballot'[b].due = ballot[b].due /\ ballot'[b].kind = ballot[b].kind
  BY <1>1, <1>2 DEF Record, Off
<1>4. TypeOK'
  <2>1. ballot' \in [Ballot -> Record]
    BY <1>2, <1>3
  <2> QED
    BY <1>2, <2>1 DEF TypeOK, Record, Counter
<1>5. \A b \in Ballot : ~Voting(b)'
  BY <1>3 DEF Voting
<1>6. Tally' /\ Idle'
  BY <1>2, <1>5 DEF Tally, Idle
<1>7. Marks'
  <2>1. \A d \in Client : client'[d].connected = "CON_CONNECTING"
          => \A b \in Ballot : ~Voted(d, b)'
    BY <1>2 DEF Marks, Voted
  <2>2. left'[TEAM_NONE] = {} /\ ~twice'[TEAM_NONE]
    BY <1>2 DEF Marks
  <2>3. \A d \in Client, b \in Ballot : d \in left'[b] => Voted(d, b)'
    BY <1>2 DEF Marks, Voted
  <2> QED
    BY <1>5, <2>1, <2>2, <2>3 DEF Marks
<1>8. PassedIsExecuted'
  <2> SUFFICES ASSUME NEW b \in Ballot, Pending(b)'
               PROVE  ~Voting(b)' /\ ballot'[b].kind.string = passed'[b]
    BY DEF PassedIsExecuted
  <2>1. Pending(b)
    BY <1>3 DEF Pending
  <2>2. ballot[b].kind.string = passed[b]
    BY <2>1 DEF PassedIsExecuted
  <2> QED
    BY <1>2, <1>3, <1>5, <2>2
<1> QED
  BY <1>4, <1>6, <1>7, <1>8

-----------------------------------------------------------------------------
(* Clients that call a vote, and that vote. *)

\* The counter of the side that c joins.
LEMMA Added ==
  ASSUME NEW b \in Ballot, NEW c \in Client, NEW side, NEW n \in Int, NEW m \in Int,
         Counted(b, n, side), c \notin Side(b, side), m = n + 1,
         Side(b, side)' = Side(b, side) \cup {c}, twice'[b] = twice[b]
  PROVE  Counted(b, m, side)'
<1> DEFINE S == Side(b, side)
<1>1. S \in SUBSET Client
  BY Sides
<1>2. c \notin S /\ S' = S \cup {c}
  OBVIOUS
<1>3. n <= Cardinality(S) /\ (~twice[b] => n = Cardinality(S))
  BY DEF Counted
<1> HIDE DEF S
<1>4. Cardinality(S) \in Nat /\ Cardinality(S \cup {c}) = Cardinality(S) + 1
  BY <1>1, <1>2, Size
<1>5. m <= Cardinality(S \cup {c})
  BY <1>3, <1>4
<1>6. n = Cardinality(S) => m = Cardinality(S \cup {c})
  BY <1>4
<1> QED
  BY <1>2, <1>3, <1>5, <1>6 DEF Counted, S

\* c, who has not voted, votes v in b.
Casts(c, b, v) ==
  /\ client[c].connected = "CON_CONNECTED" /\ In(c, b) /\ ~Voted(c, b) /\ ~intermission
  /\ client' = [client EXCEPT ![c].voted[b] = v]
  /\ UNCHANGED <<left, twice>>
  /\ \A b2 \in Ballot \ {b} : Voting(b2)' <=> Voting(b2)

\* The marks and the sides after that.
LEMMA Marking ==
  ASSUME IInv, NEW c \in Client, NEW b \in Ballot, NEW v \in {"yes", "no"}, Casts(c, b, v)
  PROVE  /\ client' \in [Client -> Marked]
         /\ Marks'
         /\ \A d \in Client, b2 \in Ballot \ {b} : Voted(d, b2)' <=> Voted(d, b2)
         /\ \A b2 \in Ballot, side \in {"yes", "no"} :
              Side(b2, side)' = IF b2 = b /\ side = v THEN Side(b2, side) \cup {c} ELSE Side(b2, side)
         /\ \A side \in {"yes", "no"} : c \notin Side(b, side)
<1> USE DEF IInv, Casts
<1>1. client \in [Client -> Marked]
  BY Types
<1>2. client' \in [Client -> Marked]
  BY <1>1 DEF Marked
<1>3. \A d \in Client : client'[d].connected = client[d].connected /\ client'[d].team = client[d].team
  BY <1>1 DEF Marked
<1>4. \A d \in Client, b2 \in Ballot :
        client'[d].voted[b2] = IF d = c /\ b2 = b THEN v ELSE client[d].voted[b2]
  BY <1>1 DEF Marked
<1>5. \A d \in Client, b2 \in Ballot : In(d, b2)' <=> In(d, b2)
  BY <1>3 DEF In
<1>6. ASSUME NEW d \in Client, NEW b2 \in Ballot, d # c \/ b2 # b
      PROVE  Voted(d, b2)' <=> Voted(d, b2)
  <2>1. client'[d].voted[b2] = client[d].voted[b2]
    BY <1>4, <1>6
  <2> QED
    BY <2>1 DEF Voted
<1>7. Voted(c, b)'
  <2>1. client'[c].voted[b] = v /\ v # ""
    BY <1>4
  <2> QED
    BY <2>1 DEF Voted
<1>8. c \notin left[b]
  BY DEF Marks
<1>9. Marks'
  <2>1. left'[TEAM_NONE] = {} /\ ~twice'[TEAM_NONE]
    BY DEF Marks
  <2>2. \A d \in Client, b2 \in Ballot : d \in left'[b2] => Voted(d, b2)'
    BY <1>6, <1>7 DEF Marks
  <2>3. \A d \in Client : client'[d].connected = "CON_CONNECTING"
          => \A b2 \in Ballot : ~Voted(d, b2)'
    BY <1>3, <1>6 DEF Marks
  <2>4. ASSUME NEW d \in Client, NEW b2 \in Ballot,
               Voting(b2)', Voted(d, b2)', client'[d].connected = "CON_CONNECTED"
        PROVE  In(d, b2)' \/ d \in left'[b2]
    <3>1. CASE d = c /\ b2 = b
      BY <1>5, <3>1
    <3>2. CASE d # c /\ b2 = b
      <4>1. Voted(d, b)
        BY <1>6, <2>4, <3>2
      <4>2. Voting(b)
        BY <4>1 DEF Idle
      <4>3. In(d, b) \/ d \in left[b]
        BY <1>3, <2>4, <4>1, <4>2 DEF Marks
      <4> QED
        BY <1>5, <3>2, <4>3
    <3>3. CASE b2 # b
      <4>1. Voted(d, b2) /\ Voting(b2)
        BY <1>6, <2>4, <3>3
      <4>2. In(d, b2) \/ d \in left[b2]
        BY <1>3, <2>4, <4>1 DEF Marks
      <4> QED
        BY <1>5, <4>2
    <3> QED
      BY <3>1, <3>2, <3>3
  <2> QED
    BY <2>1, <2>2, <2>3, <2>4 DEF Marks
<1>10. \A b2 \in Ballot, side \in {"yes", "no"} :
         Side(b2, side)' = IF b2 = b /\ side = v THEN Side(b2, side) \cup {c} ELSE Side(b2, side)
  <2> SUFFICES ASSUME NEW b2 \in Ballot, NEW side \in {"yes", "no"}
               PROVE  Side(b2, side)' = IF b2 = b /\ side = v THEN Side(b2, side) \cup {c}
                                        ELSE Side(b2, side)
    OBVIOUS
  <2>1. CASE b2 # b
    BY <1>4, <1>5, <2>1 DEF Side
  <2>2. CASE b2 = b
    <3>1. \A d \in Client \ {c} : client'[d].voted[b] = client[d].voted[b]
      BY <1>4
    <3>2. client'[c].voted[b] = v /\ client[c].voted[b] = ""
      BY <1>4 DEF Voted
    <3>3. In(c, b)' /\ \A d \in Client : In(d, b)' <=> In(d, b)
      BY <1>5
    <3>4. CASE side = v
      BY <1>8, <2>2, <3>1, <3>2, <3>3, <3>4 DEF Side
    <3>5. CASE side # v
      BY <1>8, <2>2, <3>1, <3>2, <3>3, <3>5 DEF Side
    <3> QED
      BY <3>4, <3>5
  <2> QED
    BY <2>1, <2>2
<1>11. \A side \in {"yes", "no"} : c \notin Side(b, side)
  BY DEF Side, Voted
<1> QED
  BY <1>2, <1>6, <1>9, <1>10, <1>11

\* A vote cast keeps the invariant.
LEMMA VoteInv ==
  ASSUME IInv, NEW c \in Client, NEW b \in Ballot, NEW yes \in BOOLEAN, Cmd_Vote_f(c, b, yes)
  PROVE  IInv'
<1> USE DEF IInv
<1>1. /\ client \in [Client -> Marked] /\ ballot \in [Ballot -> Record]
  BY Types
<1>2. PICK v \in {"yes", "no"} : v = IF yes THEN "yes" ELSE "no"
  OBVIOUS
<1>3. /\ client[c].connected = "CON_CONNECTED" /\ b \in {client[c].team, TEAM_NONE}
      /\ ~intermission /\ Voting(b) /\ ~Voted(c, b)
      /\ ballot' = [ballot EXCEPT ![b] = Cast(ballot[b], yes)]
      /\ client' = [client EXCEPT ![c].voted[b] = v]
      /\ UNCHANGED <<intermission, left, twice, passed>>
  BY <1>2 DEF Cmd_Vote_f, MayVote, Mark
<1>4. In(c, b)
  BY <1>3 DEF In
<1>5. Cardinality(Client) \in Nat
  BY Size
<1>6. ballot[b] \in Loose
  BY <1>1, <1>5 DEF Record, Loose, Counter
<1>7. /\ Cast(ballot[b], yes) \in Loose
      /\ Cast(ballot[b], yes).age = ballot[b].age
      /\ Cast(ballot[b], yes).due = ballot[b].due
      /\ Cast(ballot[b], yes).kind = ballot[b].kind
      /\ Cast(ballot[b], yes).yes = IF v = "yes" THEN ballot[b].yes + 1 ELSE ballot[b].yes
      /\ Cast(ballot[b], yes).no = IF v = "no" THEN ballot[b].no + 1 ELSE ballot[b].no
  <2>1. CASE yes
    <3>1. v = "yes" /\ Cast(ballot[b], yes) = [ballot[b] EXCEPT !.yes = @ + 1]
      <4>1. Cast(ballot[b], yes) = [ballot[b] EXCEPT !.yes = @ + 1, !.no = @]
        BY <2>1 DEF Cast
      <4> QED
        BY <1>2, <1>6, <2>1, <4>1 DEF Loose
    <3> QED
      BY <1>6, <3>1 DEF Loose
  <2>2. CASE ~yes
    <3>1. v = "no" /\ Cast(ballot[b], yes) = [ballot[b] EXCEPT !.no = @ + 1]
      <4>1. Cast(ballot[b], yes) = [ballot[b] EXCEPT !.yes = @, !.no = @ + 1]
        BY <2>2 DEF Cast
      <4> QED
        BY <1>2, <1>6, <2>2, <4>1 DEF Loose
    <3> QED
      BY <1>6, <3>1 DEF Loose
  <2> QED
    BY <2>1, <2>2
<1>8. ballot'[b] = Cast(ballot[b], yes) /\ \A b2 \in Ballot \ {b} : ballot'[b2] = ballot[b2]
  BY <1>1, <1>3
<1>9. \A b2 \in Ballot : Voting(b2)' <=> Voting(b2)
  BY <1>7, <1>8 DEF Voting
<1>10. /\ client' \in [Client -> Marked]
       /\ Marks'
       /\ \A d \in Client, b2 \in Ballot \ {b} : Voted(d, b2)' <=> Voted(d, b2)
       /\ \A b2 \in Ballot, side \in {"yes", "no"} :
            Side(b2, side)' = IF b2 = b /\ side = v THEN Side(b2, side) \cup {c} ELSE Side(b2, side)
       /\ \A side \in {"yes", "no"} : c \notin Side(b, side)
  <2>1. Casts(c, b, v)
    BY <1>3, <1>4, <1>9 DEF Casts
  <2> HIDE DEF IInv
  <2> QED
    BY <2>1, Marking
<1>11. Tallied(b)'
  <2>1. Counted(b, ballot[b].yes, "yes") /\ Counted(b, ballot[b].no, "no")
    BY <1>3 DEF Tally, Tallied
  <2>2. /\ ballot[b].yes \in Int /\ ballot[b].no \in Int
        /\ ballot'[b].yes \in Int /\ ballot'[b].no \in Int
    BY <1>6, <1>7, <1>8 DEF Loose
  <2>3. ASSUME NEW side \in {"yes", "no"}, NEW n \in Int, NEW m \in Int, Counted(b, n, side),
               m = IF v = side THEN n + 1 ELSE n
        PROVE  Counted(b, m, side)'
    <3>1. twice'[b] = twice[b] /\ c \notin Side(b, side)
      BY <1>3, <1>10
    <3>2. CASE v = side
      <4>1. Side(b, side)' = Side(b, side) \cup {c} /\ m = n + 1
        BY <1>10, <2>3, <3>2
      <4> QED
        BY <2>3, <3>1, <4>1, Added
    <3>3. CASE v # side
      <4>1. Side(b, side)' = Side(b, side) /\ m = n
        BY <1>10, <2>3, <3>3
      <4> QED
        BY <2>3, <3>1, <4>1 DEF Counted
    <3> QED
      BY <3>2, <3>3
  <2>4. Counted(b, ballot[b].yes, "yes")'
    BY <1>7, <1>8, <2>1, <2>2, <2>3
  <2>5. Counted(b, ballot[b].no, "no")'
    BY <1>7, <1>8, <2>1, <2>2, <2>3
  <2> QED
    BY <2>4, <2>5 DEF Tallied
<1>12. Tally'
  <2> SUFFICES ASSUME NEW b2 \in Ballot \ {b}, Voting(b2) PROVE Tallied(b2)'
    BY <1>9, <1>11 DEF Tally
  <2>1. Tallied(b2)
    BY DEF Tally
  <2>2. Side(b2, "yes")' = Side(b2, "yes") /\ Side(b2, "no")' = Side(b2, "no")
    BY <1>10
  <2> QED
    BY <1>3, <1>8, <2>1, <2>2, TallyKept
<1>13. ballot'[b] \in Record
  <2>1. CASE ballot'[b].yes >= -MaxBelow /\ ballot'[b].no >= -MaxBelow
    BY <1>7, <1>8, <1>11, <2>1, Fits DEF Bounded
  <2>2. ballot'[b].yes >= -MaxBelow /\ ballot'[b].no >= -MaxBelow
    BY <1>1, <1>5, <1>7, <1>8 DEF Record, Counter
  <2> QED
    BY <2>1, <2>2
<1>14. TypeOK'
  <2>1. ballot' \in [Ballot -> Record]
    BY <1>1, <1>3, <1>8, <1>13
  <2> QED
    BY <1>3, <1>10, <2>1 DEF TypeOK, Marked, Record, Counter
<1>15. Idle'
  <2> SUFFICES ASSUME NEW b2 \in Ballot \ {b}, ~Voting(b2)
               PROVE  /\ ballot'[b2].yes = 0 /\ ballot'[b2].no = 0
                      /\ left'[b2] = {} /\ ~twice'[b2]
                      /\ \A d \in Client : ~Voted(d, b2)'
    BY <1>3, <1>9 DEF Idle
  <2> QED
    BY <1>3, <1>8, <1>10 DEF Idle
<1>16. PassedIsExecuted'
  <2> SUFFICES ASSUME NEW b2 \in Ballot, Pending(b2)'
               PROVE  ~Voting(b2)' /\ ballot'[b2].kind.string = passed'[b2]
    BY DEF PassedIsExecuted
  <2>1. Pending(b2) /\ ballot'[b2].kind = ballot[b2].kind
    BY <1>7, <1>8 DEF Pending
  <2> QED
    BY <1>3, <1>9, <2>1 DEF PassedIsExecuted
<1> QED
  BY <1>10, <1>12, <1>14, <1>15, <1>16

\* A vote called starts from no votes, and replaces none that is due.
LEMMA CallVoteInv ==
  ASSUME IInv, NEW c \in Client, NEW b \in Ballot, Cmd_CallVote_f(c, b)
  PROVE  IInv'
<1> USE DEF IInv
<1>1. /\ client \in [Client -> Marked] /\ ballot \in [Ballot -> Record] /\ Histories
      /\ intermission \in BOOLEAN
  BY Types
<1>2. /\ client[c].connected = "CON_CONNECTED" /\ b \in {client[c].team, TEAM_NONE}
      /\ ~intermission /\ ~Voting(b)
      /\ passed' = [passed EXCEPT ![b] = ""]
      /\ UNCHANGED <<intermission, left, twice>>
  BY DEF Cmd_CallVote_f, MayVote
<1>3. /\ ballot[b].yes = 0 /\ ballot[b].no = 0 /\ left[b] = {} /\ ~twice[b]
      /\ \A d \in Client : ~Voted(d, b)
  BY <1>2 DEF Idle
<1>4. In(c, b)
  BY <1>2 DEF In
<1>5. Histories'
  BY <1>1, <1>2 DEF Histories
<1>6. ballot[b] \in Record /\ Executed(ballot[b]) \in Record /\ Executed(ballot[b]).due = 0
  BY <1>1 DEF Executed, Record
<1>7. CASE \E k \in VoteKind :
             LET called == [Executed(ballot[b]) EXCEPT !.age = 0, !.kind = k]
             IN  /\ ballot' = [ballot EXCEPT ![b] = IF Voted(c, b) THEN called ELSE Cast(called, TRUE)]
                 /\ client' = Mark(c, b, TRUE)
  <2>1. PICK k \in VoteKind :
          LET called == [Executed(ballot[b]) EXCEPT !.age = 0, !.kind = k]
          IN  /\ ballot' = [ballot EXCEPT ![b] = IF Voted(c, b) THEN called ELSE Cast(called, TRUE)]
              /\ client' = Mark(c, b, TRUE)
    BY <1>7
  <2> DEFINE called == [Executed(ballot[b]) EXCEPT !.age = 0, !.kind = k]
  <2>2. ballot' = [ballot EXCEPT ![b] = Cast(called, TRUE)]
    BY <1>3, <2>1
  <2>3. client' = [client EXCEPT ![c].voted[b] = "yes"]
    BY <2>1 DEF Mark
  <2>4. /\ called \in Loose /\ called.age = 0 /\ called.due = 0
        /\ called.yes = 0 /\ called.no = 0 /\ called.kind = k
    <3>1. Cardinality(Client) \in Nat
      BY Size
    <3>2. ballot[b] \in Loose
      BY <1>6, <3>1 DEF Record, Loose, Counter
    <3>3. called = [ballot[b] EXCEPT !.due = 0, !.age = 0, !.kind = k]
      BY <3>2 DEF Executed, Loose
    <3>4. 0 \in Off .. VOTE_TIME - 1
      BY DEF Off
    <3> HIDE DEF called
    <3> QED
      BY <1>3, <3>2, <3>3, <3>4 DEF Loose
  <2> HIDE DEF called
  <2> DEFINE cast == Cast(called, TRUE)
  <2>5. /\ cast.age = called.age /\ cast.yes = called.yes + 1 /\ cast.no = called.no
        /\ cast.due = called.due /\ cast.kind = called.kind
        /\ cast = [age |-> cast.age, yes |-> cast.yes, no |-> cast.no, due |-> cast.due, kind |-> cast.kind]
    <3>1. PICK bal \in Loose : bal = called
      BY <2>4
    <3>2. Cast(bal, TRUE) = [bal EXCEPT !.yes = bal.yes + 1, !.no = bal.no]
      BY DEF Cast
    <3>3. cast = [bal EXCEPT !.yes = bal.yes + 1, !.no = bal.no]
      BY <3>1, <3>2
    <3> HIDE DEF cast
    <3> QED
      BY <3>1, <3>3 DEF Loose
  <2> HIDE DEF cast
  <2>6. cast \in Loose /\ cast.age = 0 /\ cast.due = 0 /\ cast.yes = 1 /\ cast.no = 0
    BY <2>4, <2>5 DEF Loose
  <2>7. /\ ballot'[b] \in Loose /\ ballot'[b].age = 0 /\ ballot'[b].due = 0
        /\ ballot'[b].yes = 1 /\ ballot'[b].no = 0
        /\ \A b2 \in Ballot \ {b} : ballot'[b2] = ballot[b2]
    <3>1. ballot' = [ballot EXCEPT ![b] = cast]
      BY <2>2 DEF cast
    <3> QED
      BY <1>1, <2>6, <3>1
  <2>8. Voting(b)' /\ \A b2 \in Ballot \ {b} : Voting(b2)' <=> Voting(b2)
    BY <2>7 DEF Voting, Off
  <2>9. /\ client' \in [Client -> Marked]
        /\ Marks'
        /\ \A d \in Client, b2 \in Ballot \ {b} : Voted(d, b2)' <=> Voted(d, b2)
        /\ \A b2 \in Ballot, side \in {"yes", "no"} :
             Side(b2, side)' = IF b2 = b /\ side = "yes" THEN Side(b2, side) \cup {c} ELSE Side(b2, side)
    <3>1. Casts(c, b, "yes")
      BY <1>2, <1>3, <1>4, <2>3, <2>8 DEF Casts
    <3> HIDE DEF IInv
    <3> QED
      BY <3>1, Marking
  <2>10. Tallied(b)'
    <3>1. Side(b, "yes") = {} /\ Side(b, "no") = {}
      BY <1>3 DEF Side, Voted
    <3>2. Side(b, "yes")' = {c} /\ Side(b, "no")' = {}
      BY <2>9, <3>1
    <3>3. Cardinality({c}) = 1 /\ Cardinality({}) = 0
      BY FS_Singleton, FS_EmptySet
    <3>4. Cardinality(Side(b, "yes")') = 1 /\ Cardinality(Side(b, "no")') = 0
      BY <3>2, <3>3
    <3> QED
      BY <2>7, <3>4 DEF Tallied, Counted
  <2>11. Tally'
    <3> SUFFICES ASSUME NEW b2 \in Ballot \ {b}, Voting(b2) PROVE Tallied(b2)'
      BY <2>8, <2>10 DEF Tally
    <3>1. Tallied(b2)
      BY DEF Tally
    <3>2. Side(b2, "yes")' = Side(b2, "yes") /\ Side(b2, "no")' = Side(b2, "no")
      BY <2>9
    <3> QED
      BY <1>2, <2>7, <3>1, <3>2, TallyKept
  <2>12. ballot'[b] \in Record
    <3>1. ~twice'[b]
      BY <1>2, <1>3
    <3> QED
      BY <2>7, <2>10, <3>1, ExactFits
  <2>13. TypeOK'
    <3>1. ballot' \in [Ballot -> Record]
      BY <1>1, <2>2, <2>7, <2>12
    <3>2. intermission' \in BOOLEAN
      BY <1>1, <1>2
    <3> QED
      BY <1>5, <2>9, <3>1, <3>2 DEF TypeOK, Marked, Record, Counter, Histories
  <2>14. Idle'
    <3> SUFFICES ASSUME NEW b2 \in Ballot \ {b}, ~Voting(b2)
                 PROVE  /\ ballot'[b2].yes = 0 /\ ballot'[b2].no = 0
                        /\ left'[b2] = {} /\ ~twice'[b2]
                        /\ \A d \in Client : ~Voted(d, b2)'
      BY <2>8 DEF Idle
    <3> QED
      BY <1>2, <2>7, <2>9 DEF Idle
  <2>15. PassedIsExecuted'
    <3> SUFFICES ASSUME NEW b2 \in Ballot, Pending(b2)'
                 PROVE  ~Voting(b2)' /\ ballot'[b2].kind.string = passed'[b2]
      BY DEF PassedIsExecuted
    <3>1. b2 # b /\ ballot'[b2] = ballot[b2]
      BY <2>7 DEF Pending
    <3>2. Pending(b2) /\ passed'[b2] = passed[b2]
      BY <1>1, <1>2, <3>1 DEF Pending, Histories
    <3> QED
      BY <2>8, <3>1, <3>2 DEF PassedIsExecuted
  <2> QED
    BY <2>9, <2>11, <2>13, <2>14, <2>15
<1>8. CASE ballot' = [ballot EXCEPT ![b] = Executed(ballot[b])] /\ UNCHANGED client
  <2>1. /\ ballot' \in [Ballot -> Record] /\ ballot'[b].due = 0
        /\ \A b2 \in Ballot : /\ ballot'[b2].age = ballot[b2].age
                             /\ ballot'[b2].yes = ballot[b2].yes /\ ballot'[b2].no = ballot[b2].no
        /\ \A b2 \in Ballot \ {b} : ballot'[b2] = ballot[b2]
    BY <1>1, <1>6, <1>8 DEF Executed, Record
  <2>2. TypeOK'
    <3>1. intermission' \in BOOLEAN
      BY <1>1, <1>2
    <3>2. client' \in [Client -> Marked]
      BY <1>1, <1>8
    <3> QED
      BY <1>5, <2>1, <3>1, <3>2 DEF TypeOK, Marked, Record, Counter, Histories
  <2>3. \A b2 \in Ballot : Voting(b2)' <=> Voting(b2)
    BY <2>1 DEF Voting
  <2>4. \A d \in Client, b2 \in Ballot : (Voted(d, b2)' <=> Voted(d, b2)) /\ (In(d, b2)' <=> In(d, b2))
    BY <1>8 DEF Voted, In
  <2>5. Tally'
    <3> SUFFICES ASSUME NEW b2 \in Ballot, Voting(b2) PROVE Tallied(b2)'
      BY <2>3 DEF Tally
    <3>1. Tallied(b2)
      BY DEF Tally
    <3>2. Side(b2, "yes")' = Side(b2, "yes") /\ Side(b2, "no")' = Side(b2, "no")
      BY <1>2, <1>8, <2>4 DEF Side
    <3> QED
      BY <1>2, <2>1, <3>1, <3>2, TallyKept
  <2>6. Idle'
    BY <1>2, <2>1, <2>3, <2>4 DEF Idle
  <2>7. Marks'
    BY <1>2, <1>8, <2>3, <2>4 DEF Marks
  <2>8. PassedIsExecuted'
    <3> SUFFICES ASSUME NEW b2 \in Ballot, Pending(b2)'
                 PROVE  ~Voting(b2)' /\ ballot'[b2].kind.string = passed'[b2]
      BY DEF PassedIsExecuted
    <3>1. b2 # b /\ ballot'[b2] = ballot[b2]
      BY <2>1 DEF Pending
    <3>2. Pending(b2) /\ passed'[b2] = passed[b2]
      BY <1>1, <1>2, <3>1 DEF Pending, Histories
    <3> QED
      BY <2>3, <3>1, <3>2 DEF PassedIsExecuted
  <2> QED
    BY <2>2, <2>5, <2>6, <2>7, <2>8
<1> QED
  BY <1>7, <1>8 DEF Cmd_CallVote_f

-----------------------------------------------------------------------------
(* Votes that are checked. *)

\* What a step that checks b does to it: the vote goes on, or it ends.
GoesOn(b) ==
  /\ Voting(b)' <=> Voting(b)
  /\ Pending(b)' => Pending(b)
  /\ ballot'[b].yes = ballot[b].yes /\ ballot'[b].no = ballot[b].no
  /\ ballot'[b].kind = ballot[b].kind

Ends(b) ==
  /\ Voting(b) /\ ballot'[b].age = Off
  /\ ballot'[b].yes = 0 /\ ballot'[b].no = 0
  /\ ballot'[b].kind = ballot[b].kind

\* A step that checks votes and forgets those that ended keeps the invariant.
LEMMA ClearedInv ==
  ASSUME IInv, Cleared, UNCHANGED intermission, ballot' \in [Ballot -> Record],
         \A b \in Ballot : GoesOn(b) \/ Ends(b)
  PROVE  IInv'
<1> USE DEF IInv
<1>1. /\ client \in [Client -> Marked] /\ ballot \in [Ballot -> Record] /\ Histories
      /\ intermission \in BOOLEAN
  BY Types
<1>2. \A b \in Ballot : GoesOn(b) => ~Ended(b)
  BY DEF GoesOn, Ended, Voting
<1>3. \A b \in Ballot : Ends(b) => Ended(b) /\ ~Voting(b)'
  BY DEF Ends, Ended, Voting
<1>4. \A b \in Ballot : ~Ended(b) => GoesOn(b)
  BY <1>3
<1>5. ASSUME NEW c \in Client
      PROVE  /\ client'[c] \in Marked
             /\ client'[c].connected = client[c].connected /\ client'[c].team = client[c].team
             /\ \A b \in Ballot : client'[c].voted[b] = IF Ended(b) THEN "" ELSE client[c].voted[b]
  <2> DEFINE marks == [b \in Ballot |-> IF Ended(b) THEN "" ELSE client[c].voted[b]]
  <2>1. client[c] \in Marked
    BY <1>1
  <2>2. marks \in [Ballot -> {"", "yes", "no"}]
    BY <2>1 DEF Marked
  <2>3. client'[c] = [client[c] EXCEPT !.voted = marks]
    BY DEF Cleared
  <2>4. \A b \in Ballot : marks[b] = IF Ended(b) THEN "" ELSE client[c].voted[b]
    OBVIOUS
  <2> HIDE DEF marks
  <2> QED
    BY <2>1, <2>2, <2>3, <2>4 DEF Marked
<1>6. ASSUME NEW b \in Ballot
      PROVE  /\ left'[b] = IF Ended(b) THEN {} ELSE left[b]
             /\ Ended(b) => ~twice'[b]
             /\ ~Ended(b) => twice'[b] = twice[b]
             /\ passed'[b] = IF Ended(b) /\ ballot'[b].due > 0 THEN ballot[b].kind.string
                             ELSE IF ballot'[b].due > 0 THEN passed[b] ELSE ""
  <2>1. twice[b] \in BOOLEAN
    BY <1>1 DEF Histories
  <2>2. twice'[b] = (twice[b] /\ ~Ended(b))
    BY DEF Cleared
  <2>3. Ended(b) => ~twice'[b]
    BY <2>2
  <2>4. ~Ended(b) => twice'[b] = twice[b]
    BY <2>1, <2>2
  <2>5. left'[b] = IF Ended(b) THEN {} ELSE left[b]
    BY DEF Cleared
  <2>6. passed'[b] = IF Ended(b) /\ ballot'[b].due > 0 THEN ballot[b].kind.string
                     ELSE IF ballot'[b].due > 0 THEN passed[b] ELSE ""
    BY DEF Cleared
  <2> QED
    BY <2>3, <2>4, <2>5, <2>6
<1>7. Histories'
  <2>1. left' \in [Ballot -> SUBSET Client]
    <3>1. \A b \in Ballot : left'[b] \in SUBSET Client
      BY <1>1, <1>6 DEF Histories
    <3> QED
      BY <3>1 DEF Cleared
  <2>2. twice' \in [Ballot -> BOOLEAN]
    BY DEF Cleared
  <2>3. passed' \in [Ballot -> {k.string : k \in VoteKind} \cup {""}]
    <3>1. ASSUME NEW b \in Ballot PROVE passed'[b] \in {k.string : k \in VoteKind} \cup {""}
      <4>1. ballot[b].kind \in VoteKind /\ passed[b] \in {k.string : k \in VoteKind} \cup {""}
        BY <1>1 DEF Record, Histories
      <4>2. ballot[b].kind.string \in {k.string : k \in VoteKind}
        BY <4>1
      <4> QED
        BY <1>6, <4>1, <4>2
    <3>2. passed' = [b \in Ballot |-> passed'[b]]
      BY DEF Cleared
    <3> QED
      BY <3>1, <3>2
  <2> QED
    BY <2>1, <2>2, <2>3 DEF Histories
<1>8. TypeOK'
  <2>1. client' \in [Client -> Marked]
    <3>1. client' = [c \in Client |-> client'[c]]
      BY DEF Cleared
    <3> QED
      BY <1>5, <3>1
  <2>2. intermission' \in BOOLEAN
    BY <1>1
  <2> QED
    BY <1>7, <2>1, <2>2 DEF TypeOK, Marked, Record, Counter, Histories
<1>9. \A d \in Client, b \in Ballot : In(d, b)' <=> In(d, b)
  BY <1>5 DEF In
<1>10. ASSUME NEW b \in Ballot, Ended(b)
       PROVE  /\ left'[b] = {} /\ ~twice'[b] /\ ~Voting(b)'
              /\ \A d \in Client : ~Voted(d, b)'
  <2>1. ~Voting(b)'
    BY <1>2, <1>3, <1>10
  <2>2. \A d \in Client : ~Voted(d, b)'
    BY <1>5, <1>10 DEF Voted
  <2> QED
    BY <1>6, <1>10, <2>1, <2>2
<1>11. ASSUME NEW b \in Ballot, ~Ended(b)
       PROVE  /\ left'[b] = left[b] /\ twice'[b] = twice[b]
              /\ \A d \in Client : client'[d].voted[b] = client[d].voted[b]
              /\ \A d \in Client : Voted(d, b)' <=> Voted(d, b)
  <2>1. \A d \in Client : client'[d].voted[b] = client[d].voted[b]
    BY <1>5, <1>11
  <2>2. \A d \in Client : Voted(d, b)' <=> Voted(d, b)
    BY <2>1 DEF Voted
  <2> QED
    BY <1>6, <1>11, <2>1, <2>2
<1>12. Tally'
  <2> SUFFICES ASSUME NEW b \in Ballot, Voting(b)' PROVE Tallied(b)'
    BY DEF Tally
  <2>1. ~Ended(b) /\ GoesOn(b)
    BY <1>4, <1>10
  <2>2. /\ Tallied(b)
        /\ ballot'[b].yes = ballot[b].yes /\ ballot'[b].no = ballot[b].no
    BY <2>1 DEF Tally, GoesOn
  <2>3. Side(b, "yes")' = Side(b, "yes") /\ Side(b, "no")' = Side(b, "no")
    BY <1>9, <1>11, <2>1 DEF Side
  <2> QED
    BY <1>11, <2>1, <2>2, <2>3, TallyKept
<1>13. Idle'
  <2> SUFFICES ASSUME ~intermission', NEW b \in Ballot, ~Voting(b)'
               PROVE  /\ ballot'[b].yes = 0 /\ ballot'[b].no = 0
                      /\ left'[b] = {} /\ ~twice'[b]
                      /\ \A d \in Client : ~Voted(d, b)'
    BY DEF Idle
  <2>1. CASE Ended(b)
    BY <1>2, <1>10, <2>1 DEF Ends
  <2>2. CASE ~Ended(b)
    <3>1. /\ ~Voting(b) /\ ballot'[b].yes = ballot[b].yes /\ ballot'[b].no = ballot[b].no
      BY <1>4, <2>2 DEF GoesOn
    <3> QED
      BY <1>11, <2>2, <3>1 DEF Idle
  <2> QED
    BY <2>1, <2>2
<1>14. Marks'
  <2>1. left'[TEAM_NONE] = {} /\ ~twice'[TEAM_NONE]
    <3>1. TEAM_NONE \in Ballot
      BY DEF Ballot
    <3>2. CASE Ended(TEAM_NONE)
      BY <1>10, <3>1, <3>2
    <3>3. CASE ~Ended(TEAM_NONE)
      BY <1>11, <3>1, <3>3 DEF Marks
    <3> QED
      BY <3>2, <3>3
  <2>2. \A d \in Client, b \in Ballot : d \in left'[b] => Voted(d, b)'
    BY <1>10, <1>11 DEF Marks
  <2>3. \A d \in Client : client'[d].connected = "CON_CONNECTING"
          => \A b \in Ballot : ~Voted(d, b)'
    BY <1>5, <1>10, <1>11 DEF Marks
  <2>4. ASSUME NEW d \in Client, NEW b \in Ballot,
               Voting(b)', Voted(d, b)', client'[d].connected = "CON_CONNECTED"
        PROVE  In(d, b)' \/ d \in left'[b]
    <3>1. ~Ended(b)
      BY <1>10, <2>4
    <3>2. Voting(b)
      BY <1>4, <2>4, <3>1 DEF GoesOn
    <3>3. In(d, b) \/ d \in left[b]
      BY <1>5, <1>11, <2>4, <3>1, <3>2 DEF Marks
    <3> QED
      BY <1>9, <1>11, <3>1, <3>3
  <2> QED
    BY <2>1, <2>2, <2>3, <2>4 DEF Marks
<1>15. PassedIsExecuted'
  <2> SUFFICES ASSUME NEW b \in Ballot, Pending(b)'
               PROVE  ~Voting(b)' /\ ballot'[b].kind.string = passed'[b]
    BY DEF PassedIsExecuted
  <2>1. ballot'[b].due > 0
    BY DEF Pending
  <2>2. CASE Ended(b)
    <3>1. ballot'[b].kind = ballot[b].kind
      BY <1>2, <2>2 DEF Ends
    <3> QED
      BY <1>6, <1>10, <2>1, <2>2, <3>1
  <2>3. CASE ~Ended(b)
    <3>1. /\ Pending(b) /\ (Voting(b)' <=> Voting(b)) /\ ballot'[b].kind = ballot[b].kind
      BY <1>4, <2>3 DEF GoesOn
    <3>2. ~Voting(b) /\ ballot[b].kind.string = passed[b]
      BY <3>1 DEF PassedIsExecuted
    <3> QED
      BY <1>6, <2>1, <2>3, <3>1, <3>2
  <2> QED
    BY <2>2, <2>3
<1> QED
  BY <1>8, <1>12, <1>13, <1>14, <1>15

\* A frame keeps the invariant.
LEMMA FrameInv ==
  ASSUME IInv, G_RunFrame
  PROVE  IInv'
<1>1. ballot \in [Ballot -> Record]
  BY Types DEF IInv
<1>2. /\ ballot' = [b \in Ballot |-> G_CheckVote(Aged(ballot[b]), numVotingClients(b))]
      /\ Cleared /\ UNCHANGED intermission
  BY DEF G_RunFrame
<1>3. ASSUME NEW b \in Ballot
      PROVE  ballot'[b] \in Record /\ (GoesOn(b) \/ Ends(b))
  <2> DEFINE old == ballot[b]
  <2> DEFINE aged == Aged(old)
  <2>1. old \in Record
    BY <1>1
  <2>2. old.age \in Off .. VOTE_TIME - 1 /\ old.due \in Nat
    BY <2>1 DEF Record
  <2> DEFINE age == IF old.age = Off THEN Off ELSE old.age + 1
  <2> DEFINE due == IF old.due = 0 THEN 0 ELSE old.due - 1
  <2>3. aged = [old EXCEPT !.age = age, !.due = due]
    BY DEF Aged
  <2>4. age \in Off .. VOTE_TIME /\ (age = Off <=> old.age = Off)
    BY <2>2 DEF Off
  <2>5. due \in Nat /\ (due > 0 => old.due > 0)
    BY <2>2
  <2> HIDE DEF age, due, aged
  <2>6. /\ aged \in Checked
        /\ aged.age = age /\ aged.due = due
        /\ aged.yes = old.yes /\ aged.no = old.no /\ aged.kind = old.kind
    BY <2>1, <2>3, <2>4, <2>5 DEF Record, Checked
  <2> DEFINE r == G_CheckVote(aged, numVotingClients(b))
  <2>7. \/ r = aged /\ aged \in Record
        \/ /\ aged.age # Off
           /\ r \in Record
           /\ r.age = Off /\ r.yes = 0 /\ r.no = 0 /\ r.kind = aged.kind
    BY <2>6, CheckVote
  <2>8. ballot'[b] = r
    BY <1>2 DEF aged
  <2> HIDE DEF r
  <2>9. CASE r = aged /\ aged \in Record
    BY <2>4, <2>5, <2>6, <2>8, <2>9 DEF GoesOn, Voting, Pending
  <2>10. CASE /\ aged.age # Off
              /\ r \in Record
              /\ r.age = Off /\ r.yes = 0 /\ r.no = 0 /\ r.kind = aged.kind
    BY <2>4, <2>6, <2>8, <2>10 DEF Ends, Voting
  <2> QED
    BY <2>7, <2>9, <2>10
<1>4. ballot' \in [Ballot -> Record]
  BY <1>2, <1>3
<1> QED
  BY <1>2, <1>3, <1>4, ClearedInv

\* So does an admin that decides a vote: a check with all votes cast ends it.
LEMMA EndVoteInv ==
  ASSUME IInv, NEW b \in Ballot, NEW cancel \in BOOLEAN, G_admin_endvote(b, cancel)
  PROVE  IInv'
<1>1. ballot \in [Ballot -> Record]
  BY Types DEF IInv
<1> DEFINE n == numVotingClients(b)
<1> DEFINE y == IF cancel THEN 0 ELSE n
<1> DEFINE m == IF cancel THEN n ELSE 0
<1> DEFINE decided == [ballot[b] EXCEPT !.yes = y, !.no = m]
<1> DEFINE r == G_CheckVote(decided, n)
<1>2. /\ Voting(b)
      /\ ballot' = [ballot EXCEPT ![b] = r]
      /\ Cleared /\ UNCHANGED intermission
  BY DEF G_admin_endvote
<1>3. n \in Nat /\ n <= Cardinality(Client) /\ Cardinality(Client) \in Nat
  <2>1. Members(b) \in SUBSET Client
    BY DEF Members
  <2> QED
    BY <2>1, Size DEF numVotingClients
<1> HIDE DEF n
<1>4. y \in Counter /\ m \in Counter /\ y + m = n
  BY <1>3 DEF Counter
<1>5. ballot[b] \in Record /\ ballot[b].age # Off
  BY <1>1, <1>2 DEF Voting
<1> HIDE DEF y, m
<1>6. Off .. VOTE_TIME - 1 \in SUBSET (Off .. VOTE_TIME)
  BY DEF Off
<1>7. /\ decided \in Checked /\ decided.age = ballot[b].age /\ decided.kind = ballot[b].kind
      /\ decided.yes = y /\ decided.no = m
  BY <1>4, <1>5, <1>6 DEF Record, Checked
<1> HIDE DEF decided
<1>8. \/ r = decided /\ decided \in Record /\ (decided.age = Off \/ decided.yes + decided.no # n)
      \/ /\ decided.age # Off
         /\ r \in Record
         /\ r.age = Off /\ r.yes = 0 /\ r.no = 0 /\ r.kind = decided.kind
  BY <1>7, CheckVote
<1> HIDE DEF r
<1>9. r \in Record /\ r.age = Off /\ r.yes = 0 /\ r.no = 0 /\ r.kind = ballot[b].kind
  BY <1>4, <1>5, <1>7, <1>8
<1>10. ballot' \in [Ballot -> Record]
  BY <1>1, <1>2, <1>9
<1>11. ASSUME NEW b2 \in Ballot PROVE GoesOn(b2) \/ Ends(b2)
  <2>1. CASE b2 = b
    <3>1. ballot'[b] = r
      BY <1>1, <1>2
    <3> QED
      BY <1>2, <1>9, <2>1, <3>1 DEF Ends
  <2>2. CASE b2 # b
    <3>1. ballot'[b2] = ballot[b2]
      BY <1>1, <1>2, <2>2
    <3> QED
      BY <3>1 DEF GoesOn, Voting, Pending
  <2> QED
    BY <2>1, <2>2
<1> QED
  BY <1>2, <1>10, <1>11, ClearedInv

-----------------------------------------------------------------------------
(* The result of a vote. *)

\* The sides are those that the properties speak of.
LEMMA SidesAre ==
  ASSUME IInv, NEW b \in Ballot
  PROVE  Supporters(b) = Side(b, "yes") /\ Voters(b) \ Supporters(b) = Side(b, "no")
<1>1. client \in [Client -> Marked]
  BY Types DEF IInv
<1>2. \A c \in Client : client[c].voted[b] \in {"", "yes", "no"}
  <2>1. \A c \in Client : client[c].voted \in [Ballot -> {"", "yes", "no"}]
    BY <1>1 DEF Marked
  <2> QED
    BY <2>1
<1>3. \A c \in Client : In(c, b) <=> c \in Members(b)
  BY DEF In, Members
<1>4. Supporters(b) = Side(b, "yes")
  BY <1>2, <1>3 DEF Supporters, Voters, Voted, Side, Members
<1>5. Voters(b) \ Supporters(b) = Side(b, "no")
  BY <1>2, <1>3 DEF Supporters, Voters, Voted, Side, Members
<1> QED
  BY <1>4, <1>5

\* A vote that no one left twice is counted exactly.
LEMMA TallyMatching == IInv => TallyMatches
<1> SUFFICES ASSUME IInv, NEW b \in Ballot, Voting(b), ~twice[b]
             PROVE  /\ ballot[b].yes = Cardinality(Supporters(b))
                    /\ ballot[b].no = Cardinality(Voters(b) \ Supporters(b))
  BY DEF TallyMatches
<1>1. Tallied(b)
  BY DEF IInv, Tally
<1> QED
  BY <1>1, SidesAre DEF Tallied, Counted

\* A result before the time is over is one that the votes that have not been
\* cast could not change.
LEMMA Unchangeable ==
  ASSUME NEW bal, NEW n \in Nat, bal.age \in Int, bal.age < VOTE_TIME,
         bal.yes \in Nat, bal.no \in Nat, bal.kind.threshold \in 0 .. 100
  PROVE  /\ Result(bal, n) = "pass" => 100 * bal.yes > bal.kind.threshold * n
         /\ Result(bal, n) = "fail" => 100 * (n - bal.no) <= bal.kind.threshold * n
<1> DEFINE t == bal.kind.threshold
<1> DEFINE cast == bal.yes + bal.no
<1>1. CASE cast = n
  <2>1. Result(bal, n) = IF MostVoted(bal) THEN "pass" ELSE "fail"
    BY <1>1 DEF Result
  <2>2. PICK share \in Int : share = t * n /\ share >= 0
    OBVIOUS
  <2>3. MostVoted(bal) <=> n > 0 /\ bal.yes # 0 /\ 100 * bal.yes > share
    BY <1>1, <2>2 DEF MostVoted
  <2>4. n - bal.no = bal.yes
    BY <1>1
  <2>5. MostVoted(bal) => 100 * bal.yes > share
    BY <2>3
  <2>6. ~MostVoted(bal) => 100 * bal.yes <= share
    BY <2>2, <2>3, <1>1
  <2> QED
    BY <2>1, <2>2, <2>4, <2>5, <2>6
<1>2. CASE cast # n
  <2>1. ~(bal.age >= VOTE_TIME)
    OBVIOUS
  <2>2. Result(bal, n) = "pass" => 100 * bal.yes > t * n
    BY <1>2, <2>1 DEF Result
  <2>3. Result(bal, n) = "fail" => ~(100 * bal.no <= (100 - t) * n)
    BY <1>2, <2>1 DEF Result
  <2>4. (100 - t) * n = 100 * n - t * n
    OBVIOUS
  <2>5. PICK share \in Int : share = t * n
    OBVIOUS
  <2>6. ~(100 * bal.no <= 100 * n - share) => 100 * (n - bal.no) <= share
    OBVIOUS
  <2> QED
    BY <2>2, <2>3, <2>4, <2>5, <2>6
<1> QED
  BY <1>1, <1>2

\* What EarlyIsFinal says of the vote b in a frame.
EndsFinally(b) ==
  LET all == numVotingClients(b)
      against == Cardinality(Voters(b) \ Supporters(b))
  IN  IF Passes(b) THEN 100 * Cardinality(Supporters(b)) > Percent(b) * all
      ELSE 100 * (all - against) <= Percent(b) * all

\* Such a vote had nothing due, so that it passes exactly if its result says so.
LEMMA FrameIsFinal ==
  ASSUME IInv, G_RunFrame, NEW b \in Ballot, EndsEarly(b), ~twice[b]
  PROVE  EndsFinally(b)
<1> DEFINE n == numVotingClients(b)
<1>1. ballot[b] \in Record /\ ballot[b].kind \in VoteKind
  BY Types DEF IInv, Record
<1>2. /\ ballot[b].age \in Off .. VOTE_TIME - 1 /\ ballot[b].age # Off
      /\ ballot[b].age + 1 < VOTE_TIME
  BY <1>1 DEF EndsEarly, Ended, Voting, Record
<1>3. ballot[b].due = 0
  <2>1. ballot[b].due \in Nat /\ ~(ballot[b].due > 0)
    BY <1>1, <1>2 DEF Record, IInv, PassedIsExecuted, Pending, Voting
  <2> QED
    BY <2>1
<1>4. PICK aged : aged = [ballot[b] EXCEPT !.age = ballot[b].age + 1, !.due = 0]
  OBVIOUS
<1>5. aged = Aged(ballot[b])
  BY <1>2, <1>3, <1>4 DEF Aged
<1>6. ballot'[b] = G_CheckVote(aged, n)
  BY <1>5 DEF G_RunFrame
<1>7. /\ aged.age = ballot[b].age + 1 /\ aged.due = 0
      /\ aged.yes = ballot[b].yes /\ aged.no = ballot[b].no /\ aged.kind = ballot[b].kind
  BY <1>1, <1>4 DEF Record
<1>8. ballot'[b].age = Off
  BY DEF EndsEarly, Ended
<1>9. aged.age # Off
  BY <1>2, <1>7 DEF Off
<1>10. Result(aged, n) # "open"
  BY <1>6, <1>8, <1>9 DEF G_CheckVote
<1>11. Result(aged, n) \in {"pass", "fail"}
  BY <1>10 DEF Result
<1>12. ballot'[b] = [aged EXCEPT !.age = Off, !.yes = 0, !.no = 0,
                       !.due = IF Result(aged, n) = "pass" THEN aged.kind.delay + 1 ELSE @]
  BY <1>6, <1>9, <1>10 DEF G_CheckVote
<1>13. aged.kind.delay \in Nat /\ aged.kind.threshold \in 0 .. 100
  BY <1>1, <1>7
<1>14. ballot'[b].due = IF Result(aged, n) = "pass" THEN aged.kind.delay + 1 ELSE 0
  BY <1>1, <1>4, <1>7, <1>12 DEF Record
<1>15. Passes(b) <=> Result(aged, n) = "pass"
  BY <1>13, <1>14 DEF Passes, EndsEarly
<1>16. aged.yes = Cardinality(Supporters(b)) /\ aged.no = Cardinality(Voters(b) \ Supporters(b))
  BY <1>7, TallyMatching DEF TallyMatches, EndsEarly, Ended
<1>17. aged.yes \in Nat /\ aged.no \in Nat
  BY <1>16, SidesAre, Sides, Size
<1>18. n \in Nat
  <2>1. Members(b) \in SUBSET Client
    BY DEF Members
  <2> QED
    BY <2>1, Size DEF numVotingClients
<1>19. aged.age \in Int /\ aged.age < VOTE_TIME
  BY <1>2, <1>7 DEF Off
<1> HIDE DEF n
<1>20. /\ Result(aged, n) = "pass" => 100 * aged.yes > aged.kind.threshold * n
       /\ Result(aged, n) = "fail" => 100 * (n - aged.no) <= aged.kind.threshold * n
  BY <1>13, <1>17, <1>18, <1>19, Unchangeable
<1>21. aged.kind.threshold = Percent(b)
  BY <1>7 DEF Percent
<1> QED
  BY <1>11, <1>15, <1>16, <1>20, <1>21 DEF EndsFinally, n

-----------------------------------------------------------------------------
(* The theorems. *)

\* Every reachable state has the invariant.
THEOREM Invariance == Spec => []IInv
<1>1. ASSUME IInv, [Next]_vars PROVE IInv'
  <2>1. CASE UNCHANGED vars
    <3>1. UNCHANGED <<client, ballot, intermission, left, twice, passed>>
      BY <2>1 DEF vars
    <3>2. TypeOK' /\ PassedIsExecuted'
      BY <1>1, <3>1 DEF IInv, TypeOK, PassedIsExecuted, Pending, Voting
    <3>3. Tally'
      BY <1>1, <3>1 DEF IInv, Tally, Tallied, Counted, Side, In, Voting
    <3>4. Idle'
      BY <1>1, <3>1 DEF IInv, Idle, Voting, Voted
    <3>5. Marks'
      BY <1>1, <3>1 DEF IInv, Marks, In, Voting, Voted
    <3> QED
      BY <3>2, <3>3, <3>4, <3>5 DEF IInv
  <2>2. ASSUME NEW c \in Client, ClientConnect(c) PROVE IInv'
    BY <1>1, <2>2, ConnectInv
  <2>3. ASSUME NEW c \in Client, ClientBegin(c) PROVE IInv'
    BY <1>1, <2>3, BeginInv
  <2>4. ASSUME NEW c \in Client, ClientDisconnect(c) PROVE IInv'
    BY <1>1, <2>4, DisconnectInv
  <2>5. ASSUME NEW c \in Client, NEW t \in Ballot, G_ChangeTeam(c, t) PROVE IInv'
    BY <1>1, <2>5, ChangeTeamInv
  <2>6. ASSUME NEW c \in Client, NEW b \in Ballot, Cmd_CallVote_f(c, b) PROVE IInv'
    BY <1>1, <2>6, CallVoteInv
  <2>7. ASSUME NEW c \in Client, NEW b \in Ballot, NEW yes \in BOOLEAN, Cmd_Vote_f(c, b, yes)
        PROVE  IInv'
    BY <1>1, <2>7, VoteInv
  <2>8. ASSUME NEW b \in Ballot, NEW cancel \in BOOLEAN, G_admin_endvote(b, cancel) PROVE IInv'
    BY <1>1, <2>8, EndVoteInv
  <2>9. CASE G_RunFrame
    BY <1>1, <2>9, FrameInv
  <2>10. CASE BeginIntermission
    BY <1>1, <2>10, IntermissionInv
  <2> QED
    BY <1>1, <2>1, <2>2, <2>3, <2>4, <2>5, <2>6, <2>7, <2>8, <2>9, <2>10 DEF Next
<1> QED
  BY <1>1, InitInv, PTL DEF Spec

\* No counter leaves its bounds, whoever comes and goes (level.voteYes and
\* voteNo, never more than there are clients).
THEOREM TypeCorrect == Spec => []TypeOK
<1>1. IInv => TypeOK
  BY DEF IInv
<1> QED
  BY <1>1, Invariance, PTL

\* The counters are the votes of those who still take part, but for a client
\* that left its team twice in one vote (G_Vote, G_LeaveTeam, G_CheckVote).
THEOREM TallyCorrect == Spec => []TallyMatches
BY TallyMatching, Invariance, PTL

\* Where a frame ends a vote before its time, the clients who have not voted
\* could not have changed the result (the early tests of G_CheckVote).
THEOREM EarlyEndsAreFinal == Spec => EarlyIsFinal
<1>1. ASSUME IInv, [Next]_vars
      PROVE  [G_RunFrame => \A b \in Ballot : EndsEarly(b) /\ ~twice[b] =>
                LET all == numVotingClients(b)
                    against == Cardinality(Voters(b) \ Supporters(b))
                IN  IF Passes(b) THEN 100 * Cardinality(Supporters(b)) > Percent(b) * all
                    ELSE 100 * (all - against) <= Percent(b) * all]_vars
  BY <1>1, FrameIsFinal DEF EndsFinally
<1> QED
  BY <1>1, Invariance, PTL DEF Spec, EarlyIsFinal

\* A vote that waits for its delay is still the one that passed when it is
\* executed (Cmd_CallVote_f executes it before it takes the next).
THEOREM Executes == Spec => []PassedIsExecuted
<1>1. IInv => PassedIsExecuted
  BY DEF IInv
<1> QED
  BY <1>1, Invariance, PTL
=============================================================================
