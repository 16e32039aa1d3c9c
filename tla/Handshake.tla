------------------------------- MODULE Handshake -------------------------------
(***************************************************************************)
(* How a client gets a slot of the server: getchallenge, challengeResponse,  *)
(* connect, connectResponse; and how the slot is freed, or taken over when   *)
(* the client comes back.  A party is an address with its qport, by which    *)
(* the server tells clients apart.  Datagrams are lost, overtake each other  *)
(* and come late, but not later than MaxDelay.  Times are ages in ticks that *)
(* stop at the limit they are compared with.  Not modelled: private slots,   *)
(* signatures, the limit on the rate of requests, a client that is the       *)
(* server's own machine, and protocols 69 and 70, in which the client does   *)
(* not compare the challenges of the responses.                              *)
(***************************************************************************)
EXTENDS Integers, FiniteSets, Sequences, FiniteSetsExt, Functions

CONSTANTS
    Parties,
    Present,                \* a sequence: those in the first slots, from the start until dropped
    Nobody,
    NumSlots,               \* sv_maxclients
    MAX_CHALLENGES,
    MAX_CHALLENGES_MULTI,
    RETRANSMIT_TIMEOUT,     \* of the client
    ReconnectLimit,         \* sv_reconnectlimit
    MaxDelay,               \* how old a datagram gets before it is lost for good
    MaxAttempts,            \* bound: attempts or requests of each party
    MaxNumbers              \* bound: challenge numbers in use at once

ASSUME ConstantsAssumption ==
    /\ Nobody \notin Parties
    /\ Present \in Seq(Parties) /\ Len(Present) <= NumSlots
    /\ \A i, j \in DOMAIN Present : i # j => Present[i] # Present[j]
    /\ {NumSlots, MAX_CHALLENGES, MAX_CHALLENGES_MULTI} \subseteq Nat \ {0}
    /\ MAX_CHALLENGES_MULTI <= MAX_CHALLENGES
    /\ {RETRANSMIT_TIMEOUT, ReconnectLimit, MaxDelay} \subseteq Nat
    /\ MaxNumbers \in Nat
    /\ MaxAttempts \in [Parties -> Nat]

VARIABLES
    clients,        \* clc of each party
    challenges,     \* svs.challenges
    slots,          \* svs.clients
    game,           \* whom the game has in each slot
    net             \* datagrams under way

server == <<challenges, slots, game>>
vars   == <<clients, challenges, slots, game, net>>

Newcomers == Parties \ Range(Present)

Slots   == 0 .. NumSlots - 1
Entries == 0 .. MAX_CHALLENGES - 1
Numbers == 1 .. MaxNumbers

\* clc.challenge holds the client's own number (that of the attempt) until the server's comes.
Client ==
    [state : {"disconnected", "connecting", "challenging", "connected"},
     challenge : Nat, attempt : Nat, waited : 0 .. RETRANSMIT_TIMEOUT]

\* "time" is the rank among the times of all entries; a wiped entry has time 0.
Challenge ==
    [adr : Parties \cup {Nobody}, challenge : Nat, connected : BOOLEAN, wasrefused : BOOLEAN,
     time : 0 .. MAX_CHALLENGES]

NoChallenge == [adr |-> Nobody, challenge |-> 0, connected |-> FALSE, wasrefused |-> FALSE, time |-> 0]

\* "connected" stands for CS_CONNECTED, CS_PRIMED and CS_ACTIVE; the packets of a zombie are
\* ignored whatever their checksum.
Slot ==
    [state : {"free", "connected", "zombie"}, party : Parties \cup {Nobody}, challenge : Nat,
     sinceConnect : 0 .. ReconnectLimit]

FreeSlot == [state |-> "free", party |-> Nobody, challenge |-> 0, sinceConnect |-> 0]

Datagram ==
    [kind : {"getchallenge", "challengeResponse", "connect", "connectResponse", "disconnect"},
     party : Parties, challenge : Nat, nonce : Nat, age : 0 .. MaxDelay]

Init ==
    /\ clients = [p \in Parties |->
                     [state |-> IF p \in Range(Present) THEN "connected" ELSE "disconnected",
                      challenge |-> 0, attempt |-> 0, waited |-> 0]]
    /\ challenges = [i \in Entries |-> NoChallenge]
    /\ slots = [s \in Slots |->
                   IF s < Len(Present)
                   THEN [state |-> "connected", party |-> Present[s + 1], challenge |-> 0,
                         sinceConnect |-> ReconnectLimit]
                   ELSE FreeSlot]
    /\ game = [s \in Slots |-> slots[s].party]
    /\ net = {}

Same(d, e) == [d EXCEPT !.age = 0] = [e EXCEPT !.age = 0]

Message(kind, p, c, nonce) ==
    [kind |-> kind, party |-> p, challenge |-> c, nonce |-> nonce, age |-> 0]

\* A datagram that is sent again takes the place of the one still under way.
With(n, d) == {e \in n : ~Same(d, e)} \cup {d}

Received(kind, p) == {d \in net : d.kind = kind /\ d.party = p}

--------------------------------------------------------------------------------
(* The client. *)

CL_Disconnect(p, n) ==
    IF clients[p].state = "connected"
    THEN With(n, Message("disconnect", p, clients[p].challenge, 0))
    ELSE n

Disconnect(p) ==
    /\ clients[p].state # "disconnected"
    /\ net' = CL_Disconnect(p, net)
    /\ clients' = [clients EXCEPT ![p].state = "disconnected", ![p].challenge = 0, ![p].waited = 0]
    /\ UNCHANGED server

CL_Connect_f(p) ==
    /\ clients[p].attempt < MaxAttempts[p]
    /\ net' = CL_Disconnect(p, net)
    /\ clients' = [clients EXCEPT ![p] =
                      [state |-> "connecting", challenge |-> @.attempt + 1,
                       attempt |-> @.attempt + 1, waited |-> RETRANSMIT_TIMEOUT]]
    /\ UNCHANGED server

CL_CheckForResend(p) ==
    /\ clients[p].state \in {"connecting", "challenging"}
    /\ clients[p].waited = RETRANSMIT_TIMEOUT
    /\ net' = With(net, Message(IF clients[p].state = "connecting" THEN "getchallenge" ELSE "connect",
                                p, clients[p].challenge, 0))
    /\ clients' = [clients EXCEPT ![p].waited = 0]
    /\ UNCHANGED server

ChallengeResponse(p) ==
    \E d \in Received("challengeResponse", p) :
        /\ net' = net \ {d}
        /\ clients' = [clients EXCEPT ![p] =
                          IF @.state = "connecting" /\ @.challenge = d.nonce
                          THEN [@ EXCEPT !.state = "challenging", !.challenge = d.challenge,
                                         !.waited = RETRANSMIT_TIMEOUT]
                          ELSE @]
        /\ UNCHANGED server

ConnectResponse(p) ==
    \E d \in Received("connectResponse", p) :
        /\ net' = net \ {d}
        /\ clients' = [clients EXCEPT ![p] =
                          IF @.state = "challenging" /\ @.challenge = d.challenge
                          THEN [@ EXCEPT !.state = "connected", !.waited = 0]
                          ELSE @]
        /\ UNCHANGED server

--------------------------------------------------------------------------------
(* The server: challenges. *)

\* The numbers of an address that are still about; a number is only compared with others of
\* the same address.
InUse(p) ==
    {challenges[i].challenge : i \in {j \in Entries : challenges[j].adr = p}}
        \cup {slots[s].challenge : s \in {t \in Slots : slots[t].party = p}}
        \cup {d.challenge : d \in {e \in net : e.party = p}}
        \cup {clients[p].challenge}

\* A random number, different from all that are still about.
NewNumbers(p) == {n \in Numbers \ InUse(p) : \A k \in Numbers \ InUse(p) : n <= k}

Waiting(p) == {i \in Entries : challenges[i].adr = p /\ ~challenges[i].connected}

\* Who asks again gets another of the first entries, or one before the entry he has.
Candidates(p) ==
    IF Waiting(p) = {} THEN Entries
    ELSE {i \in Entries : i < MAX_CHALLENGES_MULTI \/ i < Min(Waiting(p))}

Oldest(p) ==
    Min({i \in Candidates(p) : \A j \in Candidates(p) : challenges[i].time <= challenges[j].time})

Times(c) == {c[i].time : i \in Entries} \ {0}

\* The times of the entries, counted from 1 again.
Ranked(c) == [i \in Entries |-> [c[i] EXCEPT !.time = Cardinality({t \in Times(c) : t <= @})]]

Given(p, n) ==
    Ranked([challenges EXCEPT ![Oldest(p)] =
               [adr |-> p, challenge |-> n, connected |-> FALSE, wasrefused |-> FALSE,
                time |-> MAX_CHALLENGES + 1]])

SV_GetChallenge(p) ==
    \E d \in Received("getchallenge", p), n \in NewNumbers(p) :
        /\ challenges' = Given(p, n)
        /\ net' = With(net \ {d}, Message("challengeResponse", p, n, d.challenge))
        /\ UNCHANGED <<clients, slots, game>>

\* Somebody asks who does not connect.
OthersAsk(p) ==
    /\ clients[p].attempt < MaxAttempts[p]
    /\ challenges' = Given(p, 0)
    /\ clients' = [clients EXCEPT ![p].attempt = @ + 1]
    /\ UNCHANGED <<slots, game, net>>

\* SV_DropClient forgets the first challenge of the address, whichever that is.
Wiped(c, p) ==
    LET theirs == {i \in Entries : c[i].adr = p}
    IN  IF theirs = {} THEN c ELSE Ranked([c EXCEPT ![Min(theirs)] = NoChallenge])

--------------------------------------------------------------------------------
(* The server: slots. *)

\* Mutant: a slot whose client has been dropped is not theirs any more.
SlotsOfLiving(p) == {s \in Slots : slots[s].state = "connected" /\ slots[s].party = p}

SlotsOf(p) == {s \in Slots : slots[s].state # "free" /\ slots[s].party = p}
Free       == {s \in Slots : slots[s].state = "free"}

First(S) == {s \in S : \A t \in S : s <= t}

\* Mutant: there is no limit on reconnects.
NeverTooSoon(p) == FALSE

TooSoon(p) == \E s \in First(SlotsOf(p)) : slots[s].sinceConnect < ReconnectLimit

Matching(d) ==
    {i \in Entries : challenges[i].adr = d.party /\ challenges[i].challenge = d.challenge}

\* "if there is already a slot for this ip, reuse it", else the first one that is free.
SlotFor(p) == First(IF SlotsOf(p) # {} THEN SlotsOf(p) ELSE Free)

\* Mutant: a challenge is good for one connect.
AdmissibleOnce(d) ==
    /\ ~TooSoon(d.party)
    /\ Matching(d) # {}
    /\ ~challenges[Min(Matching(d))].wasrefused
    /\ ~challenges[Min(Matching(d))].connected

\* Otherwise it comes too early, or its challenge is not known or has been refused.
Admissible(d) ==
    /\ ~TooSoon(d.party)
    /\ Matching(d) # {}
    /\ ~challenges[Min(Matching(d))].wasrefused

\* The challenge counts as used also when the server is full.
Used(d) == [challenges EXCEPT ![Min(Matching(d))].connected = TRUE]

\* Nothing comes of a connect that is not admissible, or finds all slots taken.
Turned(d) ==
    /\ Admissible(d) => SlotFor(d.party) = {}
    /\ challenges' = IF Admissible(d) THEN Used(d) ELSE challenges
    /\ net' = net \ {d}
    /\ UNCHANGED <<clients, slots, game>>

\* The ping, counted since the challenge was given, is not what the server wants.
RefusePing(d) ==
    /\ Admissible(d)
    /\ challenges' = [challenges EXCEPT ![Min(Matching(d))].wasrefused = TRUE]
    /\ net' = net \ {d}
    /\ UNCHANGED <<clients, slots, game>>

\* ClientConnect has "ignore if client already connected": only a client it does not have
\* can be denied.
Accept(d) ==
    /\ Admissible(d)
    /\ \E s \in SlotFor(d.party) :
           /\ slots' = [slots EXCEPT ![s] =
                           [state |-> "connected", party |-> d.party, challenge |-> d.challenge,
                            sinceConnect |-> 0]]
           /\ game' = [game EXCEPT ![s] = IF @ = Nobody THEN d.party ELSE @]
    /\ challenges' = Used(d)
    /\ net' = With(net \ {d}, Message("connectResponse", d.party, d.challenge, 0))
    /\ UNCHANGED clients

Deny(d) ==
    /\ Admissible(d)
    /\ \E s \in SlotFor(d.party) :
           /\ game[s] = Nobody
           /\ slots' = [slots EXCEPT ![s] = FreeSlot]
    /\ challenges' = Used(d)
    /\ net' = net \ {d}
    /\ UNCHANGED <<clients, game>>

\* ClientUserinfoChanged drops the client whose userinfo is malformed, before it has a state.
DenyMalformed(d) ==
    /\ Admissible(d)
    /\ \E s \in SlotFor(d.party) :
           /\ game[s] = Nobody
           /\ slots' = [slots EXCEPT ![s] =
                           [state |-> "zombie", party |-> d.party, challenge |-> 0,
                            sinceConnect |-> ReconnectLimit]]
    /\ challenges' = Wiped(Used(d), d.party)
    /\ net' = net \ {d}
    /\ UNCHANGED <<clients, game>>

SV_DirectConnect(p) ==
    \E d \in Received("connect", p) :
        Turned(d) \/ RefusePing(d) \/ Accept(d) \/ Deny(d) \/ DenyMalformed(d)

SV_DropClient(s) ==
    /\ slots[s].state = "connected"
    /\ challenges' = Wiped(challenges, slots[s].party)
    /\ game' = [game EXCEPT ![s] = Nobody]
    /\ slots' = [slots EXCEPT ![s].state = "zombie", ![s].challenge = 0]

\* A client is dropped by the server: kicked, overflowed, caught with other files.
Kick(s) == SV_DropClient(s) /\ UNCHANGED <<clients, net>>

\* A disconnect of another connection is not looked at.  Its checksum tells, but for the first
\* message of a connection, whose checksum is 0 for every challenge (net.h); that one was sent
\* before there was a gamestate, and of such a message SV_ExecuteClientMessage reads no commands.
ReceiveDisconnect(p) ==
    \E d \in Received("disconnect", p) :
        /\ \/ \E s \in First(SlotsOf(p)) :
                 slots[s].challenge = d.challenge /\ SV_DropClient(s)
           \/ /\ \A s \in First(SlotsOf(p)) :
                    slots[s].challenge # d.challenge \/ slots[s].state = "zombie"
              /\ UNCHANGED server
        /\ net' = net \ {d}
        /\ UNCHANGED clients

\* Mutant: the game is not told of a timeout.
TimeOutSilently(s) ==
    /\ slots[s].state = "connected"
    /\ slots[s].sinceConnect = ReconnectLimit
    /\ challenges' = Wiped(challenges, slots[s].party)
    /\ slots' = [slots EXCEPT ![s] = FreeSlot]
    /\ UNCHANGED <<clients, game, net>>

\* SV_CheckTimeouts.  A client that has sent nothing for long has not connected lately.
TimeOut(s) ==
    /\ slots[s].state = "connected"
    /\ slots[s].sinceConnect = ReconnectLimit
    /\ challenges' = Wiped(challenges, slots[s].party)
    /\ game' = [game EXCEPT ![s] = Nobody]
    /\ slots' = [slots EXCEPT ![s] = FreeSlot]
    /\ UNCHANGED <<clients, net>>

\* SV_CheckTimeouts, once the client's last packet is long enough ago.  The code leaves the
\* rest of the slot as it is, and looks at nothing in a free one.
ZombieExpires(s) ==
    /\ slots[s].state = "zombie"
    /\ slots' = [slots EXCEPT ![s] = FreeSlot]
    /\ UNCHANGED <<clients, challenges, game, net>>

\* A tick of the clocks; what is too old by then is lost.
Tick ==
    /\ net' = {[d EXCEPT !.age = @ + 1] : d \in {e \in net : e.age < MaxDelay}}
    /\ slots' = [s \in Slots |->
                    IF slots[s].state = "free" \/ slots[s].sinceConnect = ReconnectLimit THEN slots[s]
                    ELSE [slots[s] EXCEPT !.sinceConnect = @ + 1]]
    /\ clients' = [p \in Parties |->
                      IF clients[p].state \in {"connecting", "challenging"}
                         /\ clients[p].waited < RETRANSMIT_TIMEOUT
                      THEN [clients[p] EXCEPT !.waited = @ + 1]
                      ELSE clients[p]]
    /\ UNCHANGED <<challenges, game>>

Next ==
    \/ \E p \in Newcomers :
           \/ CL_Connect_f(p)
           \/ Disconnect(p)
           \/ CL_CheckForResend(p)
           \/ ChallengeResponse(p)
           \/ ConnectResponse(p)
           \/ ReceiveDisconnect(p)
           \/ SV_GetChallenge(p)
           \/ SV_DirectConnect(p)
    \/ \E p \in Range(Present) : OthersAsk(p)
    \/ \E s \in Slots : Kick(s) \/ TimeOut(s) \/ ZombieExpires(s)
    \/ Tick

Spec == Init /\ [][Next]_vars

\* Time goes on and both ends run frames.  Of datagrams sent again and again some arrive, and of
\* connects that could be accepted again and again the game accepts one.
Fairness ==
    /\ WF_vars(Tick)
    /\ \A p \in Newcomers :
           /\ WF_vars(CL_CheckForResend(p))
           /\ SF_vars(SV_GetChallenge(p))
           /\ SF_vars(ChallengeResponse(p))
           /\ SF_vars(\E d \in Received("connect", p) : Accept(d))
           /\ SF_vars(ConnectResponse(p))

FairSpec == Spec /\ Fairness

--------------------------------------------------------------------------------
(* Properties. *)

\* Types.  A free slot has no party in the model: the code leaves the address there, and
\* skips CS_FREE wherever it looks for one.
TypeOK ==
    /\ clients \in [Parties -> Client]
    /\ challenges \in [Entries -> Challenge]
    /\ slots \in [Slots -> Slot]
    /\ game \in [Slots -> Parties \cup {Nobody}]
    /\ net \subseteq Datagram
    /\ \A s \in Slots : slots[s].state = "free" <=> slots[s].party = Nobody

\* However often a party comes back, before or after the server has noticed that it left, it
\* has one slot at most (SV_DirectConnect: "if there is already a slot for this ip, reuse it").
OneSlotEach ==
    \A s, t \in Slots :
        slots[s].party = slots[t].party /\ slots[s].party # Nobody => s = t

\* The game has a client in a slot exactly while the server has it connected, and it is the
\* same party: one that was denied, or left before another took the slot, leaves nothing
\* behind for which ClientConnect would take the next one as "already connected".
GameAgrees ==
    \A s \in Slots :
        game[s] = IF slots[s].state = "connected" THEN slots[s].party ELSE Nobody

\* The slot of a client that knows it is connected is not set up anew by a connect that was
\* under way before: the limit on reconnects is longer than the response and a connect sent
\* meanwhile can take together.
SettledStays ==
    [][\A s \in Slots :
          LET p == slots[s].party
          IN  /\ slots[s].state = "connected"
              /\ clients[p].state = "connected"
              /\ clients[p].challenge = slots[s].challenge
              /\ slots'[s].state = "connected"
              => /\ slots'[s].party = p
                 /\ slots'[s].challenge = slots[s].challenge
                 /\ slots'[s].sinceConnect >= slots[s].sinceConnect]_vars

\* The challenge that the client goes on sending has been given away, wiped or refused: it
\* does not ask for another one by itself.
Forgotten(p) ==
    /\ clients[p].state = "challenging"
    /\ \A i \in Entries :
           challenges[i].adr = p /\ challenges[i].challenge = clients[p].challenge
               => challenges[i].wasrefused

Full(p) == SlotFor(p) = {}

\* A client that asks gets in or gives up, whatever is lost or comes late, unless its challenge
\* is forgotten or others hold all slots.
Connects ==
    \A p \in Newcomers :
        clients[p].state \in {"connecting", "challenging"} ~>
            clients[p].state \in {"connected", "disconnected"} \/ Forgotten(p) \/ Full(p)
================================================================================
