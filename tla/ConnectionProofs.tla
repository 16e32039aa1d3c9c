--------------------------- MODULE ConnectionProofs ----------------------------
(***************************************************************************)
(* Proofs about how a client gets a slot (Handshake) and about what it then  *)
(* sees (Snapshots).                                                         *)
(* Handshake, for any number of parties, slots and challenges, and all       *)
(* limits on times: the types of the slots, OneSlotEach and GameAgrees are   *)
(* inductive together.  A connect goes to the one slot of its party or, if   *)
(* there is none, to a free slot, of which the game has nobody.  That a slot *)
(* is not set up anew under its client is about times: how long ago it was   *)
(* set up, compared with the ages of the connects and responses under way.   *)
(* Snapshots, for rings of any size, any entities and any number of maps: an *)
(* invariant of everything on the way keeps each difference together with    *)
(* the snapshot that the client will put it on.                              *)
(***************************************************************************)
EXTENDS Handshake, Snapshots, FiniteSetTheorems, FunctionTheorems, SequenceTheorems, TLAPS

--------------------------------------------------------------------------------
(* Handshake. *)

IInv == TypeOK /\ OneSlotEach /\ GameAgrees

--------------------------------------------------------------------------------
(* Challenges. *)

\* An entry before the times are counted anew.
NewChallenge ==
    [adr : Parties \cup {Nobody}, challenge : Nat, connected : BOOLEAN, wasrefused : BOOLEAN,
     time : Nat]

\* There are no more ranks than entries.
LEMMA RankBound ==
    ASSUME NEW c, c \in [Entries -> NewChallenge], NEW n
    PROVE  Cardinality({t \in Times(c) : t <= n}) \in 0 .. MAX_CHALLENGES
<1>1. MAX_CHALLENGES \in Nat /\ MAX_CHALLENGES # 0
  BY ConstantsAssumption
<1>2. IsFiniteSet(Entries) /\ Cardinality(Entries) = MAX_CHALLENGES
  <2>1. 0 \in Int /\ MAX_CHALLENGES - 1 \in Int
    BY <1>1
  <2>2. IsFiniteSet(0 .. MAX_CHALLENGES - 1)
        /\ Cardinality(0 .. MAX_CHALLENGES - 1) =
               IF 0 > MAX_CHALLENGES - 1 THEN 0 ELSE MAX_CHALLENGES - 1 - 0 + 1
    BY <2>1, FS_Interval
  <2>. QED
    BY <1>1, <2>2 DEF Entries
<1>. DEFINE f == [i \in Entries |-> c[i].time]
            R == {c[i].time : i \in Entries}
            T == {t \in Times(c) : t <= n}
<1>3. f \in Surjection(Entries, R)
  BY DEF Surjection
<1>4. IsFiniteSet(R) /\ Cardinality(R) <= Cardinality(Entries)
  BY <1>2, <1>3, FS_Surjection
<1>5. T \in SUBSET R
  BY DEF Times
<1>6. IsFiniteSet(T) /\ Cardinality(T) <= Cardinality(R)
  BY <1>4, <1>5, FS_Subset
<1>7. Cardinality(T) \in Nat /\ Cardinality(R) \in Nat
  BY <1>4, <1>6, FS_CardinalityType
<1>. HIDE DEF R, T
<1>8. Cardinality(T) \in 0 .. MAX_CHALLENGES
  BY <1>1, <1>2, <1>4, <1>6, <1>7
<1>. QED
  BY <1>8 DEF T

LEMMA RankedType ==
    ASSUME NEW c, c \in [Entries -> NewChallenge]
    PROVE  Ranked(c) \in [Entries -> Challenge]
<1>1. ASSUME NEW i \in Entries
      PROVE  [c[i] EXCEPT !.time = Cardinality({t \in Times(c) : t <= @})] \in Challenge
  <2>1. Cardinality({t \in Times(c) : t <= c[i].time}) \in 0 .. MAX_CHALLENGES
    BY RankBound
  <2>2. PICK k \in 0 .. MAX_CHALLENGES : k = Cardinality({t \in Times(c) : t <= c[i].time})
    BY <2>1
  <2>3. [c[i] EXCEPT !.time = k] \in Challenge
    BY <1>1 DEF NewChallenge, Challenge
  <2>. QED
    BY <2>2, <2>3
<1>. QED
  BY <1>1 DEF Ranked

LEMMA Widened ==
    ASSUME NEW c, c \in [Entries -> Challenge]
    PROVE  c \in [Entries -> NewChallenge]
<1>1. MAX_CHALLENGES \in Nat
  BY ConstantsAssumption
<1>. QED
  BY <1>1 DEF Challenge, NewChallenge

LEMMA GivenType ==
    ASSUME challenges \in [Entries -> Challenge], NEW p \in Parties, NEW n \in Nat
    PROVE  Given(p, n) \in [Entries -> Challenge]
<1>. DEFINE e == [adr |-> p, challenge |-> n, connected |-> FALSE, wasrefused |-> FALSE,
                  time |-> MAX_CHALLENGES + 1]
            c == [challenges EXCEPT ![Oldest(p)] = e]
<1>1. e \in NewChallenge
  BY ConstantsAssumption DEF NewChallenge
<1>2. challenges \in [Entries -> NewChallenge]
  BY Widened
<1>3. c \in [Entries -> NewChallenge]
  BY <1>1, <1>2
<1>4. Ranked(c) \in [Entries -> Challenge]
  BY <1>3, RankedType
<1>. QED
  BY <1>4 DEF Given

LEMMA WipedType ==
    ASSUME NEW c \in [Entries -> Challenge], NEW p
    PROVE  Wiped(c, p) \in [Entries -> Challenge]
<1>. DEFINE i == Min({j \in Entries : c[j].adr = p})
            w == [c EXCEPT ![i] = NoChallenge]
<1>1. NoChallenge \in NewChallenge
  BY DEF NoChallenge, NewChallenge
<1>2. c \in [Entries -> NewChallenge]
  BY Widened
<1>3. w \in [Entries -> NewChallenge]
  BY <1>1, <1>2
<1>4. Ranked(w) \in [Entries -> Challenge]
  BY <1>3, RankedType
<1>. QED
  BY <1>4 DEF Wiped

LEMMA UsedType ==
    ASSUME challenges \in [Entries -> Challenge], NEW d
    PROVE  Used(d) \in [Entries -> Challenge]
BY DEF Used, Challenge

--------------------------------------------------------------------------------
(* Slots. *)

\* What IInv says of slots and of the game.
SlotsOK(sl, g) ==
    /\ sl \in [Slots -> Slot]
    /\ g \in [Slots -> Parties \cup {Nobody}]
    /\ \A s \in Slots : sl[s].state = "free" <=> sl[s].party = Nobody
    /\ \A s, t \in Slots : sl[s].party = sl[t].party /\ sl[s].party # Nobody => s = t
    /\ \A s \in Slots : g[s] = IF sl[s].state = "connected" THEN sl[s].party ELSE Nobody

LEMMA SlotsOKInv ==
    IInv <=> /\ clients \in [Parties -> Client]
             /\ challenges \in [Entries -> Challenge]
             /\ net \subseteq Datagram
             /\ SlotsOK(slots, game)
BY DEF IInv, TypeOK, OneSlotEach, GameAgrees, SlotsOK

\* One slot is given to a party that has no other, or to nobody, and the game is told.
LEMMA SlotSet ==
    ASSUME NEW sl, NEW g, SlotsOK(sl, g), NEW s \in Slots, NEW v \in Slot,
           v.state = "free" <=> v.party = Nobody,
           v.party # Nobody => \A t \in Slots : sl[t].party = v.party => t = s
    PROVE  SlotsOK([sl EXCEPT ![s] = v],
                   [g EXCEPT ![s] = IF v.state = "connected" THEN v.party ELSE Nobody])
<1>. DEFINE h == [g EXCEPT ![s] = IF v.state = "connected" THEN v.party ELSE Nobody]
            sm == [sl EXCEPT ![s] = v]
<1>1. v.party \in Parties \cup {Nobody}
  BY DEF Slot
<1>2. sm \in [Slots -> Slot] /\ h \in [Slots -> Parties \cup {Nobody}]
  BY <1>1 DEF SlotsOK
<1>3. \A t \in Slots : sm[t] = IF t = s THEN v ELSE sl[t]
  BY DEF SlotsOK
<1>4. \A t \in Slots : h[t] = IF t = s THEN IF v.state = "connected" THEN v.party ELSE Nobody ELSE g[t]
  BY DEF SlotsOK
<1>. HIDE DEF h, sm
<1>5. \A t \in Slots : sm[t].state = "free" <=> sm[t].party = Nobody
  BY <1>3 DEF SlotsOK
<1>6. \A t, u \in Slots : sm[t].party = sm[u].party /\ sm[t].party # Nobody => t = u
  BY <1>3 DEF SlotsOK
<1>7. \A t \in Slots : h[t] = IF sm[t].state = "connected" THEN sm[t].party ELSE Nobody
  BY <1>3, <1>4 DEF SlotsOK
<1>8. SlotsOK(sm, h)
  BY <1>2, <1>5, <1>6, <1>7 DEF SlotsOK
<1>. QED
  BY <1>8 DEF h, sm

\* The slot for a party is free or its own, and no other is its own.
LEMMA SlotForParty ==
    ASSUME SlotsOK(slots, game), NEW p \in Parties, NEW s \in SlotFor(p)
    PROVE  /\ s \in Slots
           /\ slots[s].party \in {p, Nobody}
           /\ \A t \in Slots : slots[t].party = p => t = s
<1>1. p # Nobody
  BY ConstantsAssumption
<1>2. CASE SlotsOf(p) # {}
  <2>1. s \in SlotsOf(p)
    BY <1>2 DEF SlotFor, First
  <2>. QED
    BY <1>1, <2>1 DEF SlotsOf, SlotsOK
<1>3. CASE SlotsOf(p) = {}
  <2>1. s \in Free
    BY <1>3 DEF SlotFor, First
  <2>2. \A t \in Slots : slots[t].party # p
    BY <1>1, <1>3 DEF SlotsOf, SlotsOK
  <2>. QED
    BY <2>1, <2>2 DEF Free, SlotsOK
<1>. QED
  BY <1>2, <1>3

\* A party takes the slot for it, as a client of the game.
LEMMA SlotTaken ==
    ASSUME SlotsOK(slots, game), NEW p \in Parties, NEW c \in Nat, NEW s \in SlotFor(p)
    PROVE  SlotsOK([slots EXCEPT ![s] = [state |-> "connected", party |-> p, challenge |-> c,
                                         sinceConnect |-> 0]],
                   [game EXCEPT ![s] = IF @ = Nobody THEN p ELSE @])
<1>. DEFINE v == [state |-> "connected", party |-> p, challenge |-> c, sinceConnect |-> 0]
<1>1. p # Nobody /\ ReconnectLimit \in Nat
  BY ConstantsAssumption
<1>2. /\ s \in Slots
      /\ slots[s].party \in {p, Nobody}
      /\ \A t \in Slots : slots[t].party = p => t = s
  BY SlotForParty
<1>3. v \in Slot /\ v.state = "connected" /\ v.party = p
  BY <1>1 DEF Slot
<1>. HIDE DEF v
<1>4. SlotsOK([slots EXCEPT ![s] = v],
              [game EXCEPT ![s] = IF v.state = "connected" THEN v.party ELSE Nobody])
  BY <1>1, <1>2, <1>3, SlotSet
<1>5. (IF game[s] = Nobody THEN p ELSE game[s]) = p
  BY <1>2 DEF SlotsOK
<1>6. [game EXCEPT ![s] = IF v.state = "connected" THEN v.party ELSE Nobody]
        = [game EXCEPT ![s] = IF @ = Nobody THEN p ELSE @]
  BY <1>3, <1>5
<1>. QED
  BY <1>4, <1>6 DEF v

\* A slot becomes free or a zombie, and the game has nobody in it.
LEMMA SlotLeft ==
    ASSUME SlotsOK(slots, game), NEW s \in Slots, NEW v \in Slot,
           v.state # "connected",
           v.state = "free" <=> v.party = Nobody,
           v.party # Nobody => \A t \in Slots : slots[t].party = v.party => t = s
    PROVE  SlotsOK([slots EXCEPT ![s] = v], [game EXCEPT ![s] = Nobody])
<1>1. SlotsOK([slots EXCEPT ![s] = v],
              [game EXCEPT ![s] = IF v.state = "connected" THEN v.party ELSE Nobody])
  BY SlotSet
<1>. QED
  BY <1>1

LEMMA FreeSlotType == FreeSlot \in Slot /\ FreeSlot.state = "free" /\ FreeSlot.party = Nobody
<1>1. ReconnectLimit \in Nat
  BY ConstantsAssumption
<1>. QED
  BY <1>1 DEF FreeSlot, Slot

LEMMA DropSlot ==
    ASSUME SlotsOK(slots, game), NEW s \in Slots, SV_DropClient(s)
    PROVE  SlotsOK(slots', game')
<1>1. PICK v \in Slot : v = [slots[s] EXCEPT !.state = "zombie", !.challenge = 0]
  BY DEF SlotsOK, Slot
<1>2. v.state = "zombie" /\ v.party = slots[s].party
  BY <1>1 DEF SlotsOK, Slot
<1>3. slots[s].party # Nobody
  BY DEF SV_DropClient, SlotsOK
<1>4. SlotsOK([slots EXCEPT ![s] = v], [game EXCEPT ![s] = Nobody])
  <2>1. \A t \in Slots : slots[t].party = v.party => t = s
    BY <1>2, <1>3 DEF SlotsOK
  <2>. QED
    BY <1>2, <1>3, <2>1, SlotLeft
<1>5. slots' = [slots EXCEPT ![s] = v] /\ game' = [game EXCEPT ![s] = Nobody]
  BY <1>1 DEF SV_DropClient, SlotsOK
<1>. QED
  BY <1>4, <1>5

LEMMA FreeStep ==
    ASSUME SlotsOK(slots, game), NEW s \in Slots,
           slots' = [slots EXCEPT ![s] = FreeSlot], game' = [game EXCEPT ![s] = Nobody]
    PROVE  SlotsOK(slots', game')
<1>1. SlotsOK([slots EXCEPT ![s] = FreeSlot], [game EXCEPT ![s] = Nobody])
  BY FreeSlotType, SlotLeft
<1>. QED
  BY <1>1

\* Where the game has nobody it need not be told.
LEMMA GameUntold ==
    ASSUME SlotsOK(slots, game), NEW s \in Slots, game[s] = Nobody
    PROVE  [game EXCEPT ![s] = Nobody] = game
BY DEF SlotsOK

--------------------------------------------------------------------------------
(* Datagrams. *)

LEMMA MessageType ==
    ASSUME NEW p \in Parties, NEW c \in Nat, NEW n \in Nat,
           NEW k \in {"getchallenge", "challengeResponse", "connect", "connectResponse", "disconnect"}
    PROVE  Message(k, p, c, n) \in Datagram
<1>1. MaxDelay \in Nat
  BY ConstantsAssumption
<1>. QED
  BY <1>1 DEF Message, Datagram

LEMMA WithType ==
    ASSUME NEW n, n \subseteq Datagram, NEW d \in Datagram
    PROVE  With(n, d) \subseteq Datagram
BY DEF With

LEMMA LeaveType ==
    ASSUME clients \in [Parties -> Client], net \subseteq Datagram, NEW p \in Parties
    PROVE  CL_Disconnect(p, net) \subseteq Datagram
<1>1. Message("disconnect", p, clients[p].challenge, 0) \in Datagram
  <2>1. clients[p].challenge \in Nat
    BY DEF Client
  <2>. QED
    BY <2>1, MessageType
<1>2. With(net, Message("disconnect", p, clients[p].challenge, 0)) \subseteq Datagram
  BY <1>1, WithType
<1>. QED
  BY <1>2 DEF CL_Disconnect

--------------------------------------------------------------------------------
(* Steps. *)

LEMMA InitInv == Init => IInv
<1>. SUFFICES ASSUME Init
              PROVE  IInv
  OBVIOUS
<1>1. ReconnectLimit \in Nat /\ RETRANSMIT_TIMEOUT \in Nat /\ NumSlots \in Nat /\ MAX_CHALLENGES \in Nat
  BY ConstantsAssumption
<1>2. clients \in [Parties -> Client] /\ net \subseteq Datagram
  BY <1>1 DEF Init, Client
<1>3. challenges \in [Entries -> Challenge]
  BY <1>1 DEF Init, Challenge, NoChallenge
<1>4. SlotsOK(slots, game)
  <2>1. /\ Present \in Seq(Parties) /\ Len(Present) \in Nat
        /\ \A i, j \in 1 .. Len(Present) : i # j => Present[i] # Present[j]
        /\ \A i \in 1 .. Len(Present) : Present[i] \in Parties /\ Present[i] # Nobody
    BY ConstantsAssumption
  <2>2. \A s \in Slots : s \in Int /\ s >= 0
    BY <1>1 DEF Slots
  <2>3. \A s \in Slots : s < Len(Present) => s + 1 \in 1 .. Len(Present)
    BY <2>1, <2>2
  <2>4. \A s \in Slots :
           slots[s] = IF s < Len(Present)
                      THEN [state |-> "connected", party |-> Present[s + 1], challenge |-> 0,
                            sinceConnect |-> ReconnectLimit]
                      ELSE FreeSlot
    BY DEF Init
  <2>5. \A s \in Slots : slots[s] \in Slot
    <3>. SUFFICES ASSUME NEW s \in Slots
                  PROVE  slots[s] \in Slot
      OBVIOUS
    <3>1. CASE s < Len(Present)
      <4>1. Present[s + 1] \in Parties
        BY <2>1, <2>3, <3>1
      <4>2. slots[s] = [state |-> "connected", party |-> Present[s + 1], challenge |-> 0,
                        sinceConnect |-> ReconnectLimit]
        BY <2>4, <3>1
      <4>3. ReconnectLimit \in 0 .. ReconnectLimit
        BY <1>1
      <4>4. [state |-> "connected", party |-> Present[s + 1], challenge |-> 0,
             sinceConnect |-> ReconnectLimit] \in Slot
        BY <4>1, <4>3 DEF Slot
      <4>. QED
        BY <4>2, <4>4
    <3>2. CASE ~(s < Len(Present))
      BY <2>4, <3>2, FreeSlotType
    <3>. QED
      BY <3>1, <3>2
  <2>6. \A s \in Slots :
           /\ s < Len(Present) => slots[s].state = "connected" /\ slots[s].party = Present[s + 1]
           /\ ~(s < Len(Present)) => slots[s].state = "free" /\ slots[s].party = Nobody
    <3>. SUFFICES ASSUME NEW s \in Slots
                  PROVE  /\ s < Len(Present) => slots[s].state = "connected"
                                                /\ slots[s].party = Present[s + 1]
                         /\ ~(s < Len(Present)) => slots[s].state = "free" /\ slots[s].party = Nobody
      OBVIOUS
    <3>1. CASE s < Len(Present)
      <4>1. slots[s] = [state |-> "connected", party |-> Present[s + 1], challenge |-> 0,
                        sinceConnect |-> ReconnectLimit]
        BY <2>4, <3>1
      <4>. QED
        BY <3>1, <4>1
    <3>2. CASE ~(s < Len(Present))
      <4>1. slots[s] = FreeSlot
        BY <2>4, <3>2
      <4>. QED
        BY <3>2, <4>1, FreeSlotType
    <3>. QED
      BY <3>1, <3>2
  <2>7. \A s \in Slots : slots[s].state = "free" <=> slots[s].party = Nobody
    BY <2>1, <2>3, <2>6
  <2>8. \A s, t \in Slots : slots[s].party = slots[t].party /\ slots[s].party # Nobody => s = t
    <3>. SUFFICES ASSUME NEW s \in Slots, NEW t \in Slots,
                         slots[s].party = slots[t].party, slots[s].party # Nobody
                  PROVE  s = t
      OBVIOUS
    <3>1. s < Len(Present) /\ t < Len(Present)
      BY <2>6
    <3>2. Present[s + 1] = Present[t + 1]
      BY <2>6, <3>1
    <3>3. s + 1 = t + 1
      BY <2>1, <2>3, <3>1, <3>2
    <3>. QED
      BY <2>2, <3>3
  <2>9. slots \in [Slots -> Slot]
    BY <2>5 DEF Init
  <2>10. \A s \in Slots : game[s] = slots[s].party
    BY DEF Init
  <2>11. game \in [Slots -> Parties \cup {Nobody}]
    <3>1. \A s \in Slots : slots[s].party \in Parties \cup {Nobody}
      BY <2>5 DEF Slot
    <3>. QED
      BY <3>1 DEF Init
  <2>12. \A s \in Slots : game[s] = IF slots[s].state = "connected" THEN slots[s].party ELSE Nobody
    BY <2>6, <2>10
  <2>. QED
    BY <2>7, <2>8, <2>9, <2>11, <2>12 DEF SlotsOK
<1>. QED
  BY <1>2, <1>3, <1>4, SlotsOKInv

\* A client in another state is a client.
LEMMA ClientWaits ==
    ASSUME NEW c \in Client, NEW w \in 0 .. RETRANSMIT_TIMEOUT,
           NEW k \in {"disconnected", "connecting", "challenging", "connected"}
    PROVE  [c EXCEPT !.state = k, !.waited = w] \in Client
<1>1. PICK d \in Client : d = [c EXCEPT !.waited = w]
  BY DEF Client
<1>2. [d EXCEPT !.state = k] \in Client
  BY DEF Client
<1>3. [c EXCEPT !.state = k, !.waited = w] = [d EXCEPT !.state = k]
  BY <1>1 DEF Client
<1>. QED
  BY <1>2, <1>3

LEMMA ClientGoesOn ==
    ASSUME NEW c \in Client, NEW n \in Nat, NEW w \in 0 .. RETRANSMIT_TIMEOUT,
           NEW k \in {"disconnected", "connecting", "challenging", "connected"}
    PROVE  [c EXCEPT !.state = k, !.challenge = n, !.waited = w] \in Client
<1>1. PICK d \in Client : d = [c EXCEPT !.waited = w]
  BY DEF Client
<1>2. [d EXCEPT !.state = k, !.challenge = n] \in Client
  BY DEF Client
<1>3. [c EXCEPT !.state = k, !.challenge = n, !.waited = w]
        = [d EXCEPT !.state = k, !.challenge = n]
  BY <1>1 DEF Client
<1>. QED
  BY <1>2, <1>3

\* The client's own steps: the server knows nothing of them.
LEMMA ClientStep ==
    ASSUME IInv, NEW p \in Newcomers,
           CL_Connect_f(p) \/ Disconnect(p) \/ CL_CheckForResend(p)
    PROVE  IInv'
<1>1. /\ clients \in [Parties -> Client] /\ challenges \in [Entries -> Challenge]
      /\ net \subseteq Datagram /\ SlotsOK(slots, game)
  BY SlotsOKInv
<1>2. p \in Parties /\ clients[p] \in Client /\ clients[p].challenge \in Nat /\ clients[p].attempt \in Nat
  BY <1>1 DEF Newcomers, Client
<1>3. RETRANSMIT_TIMEOUT \in Nat
  BY ConstantsAssumption
<1>4. CL_Disconnect(p, net) \subseteq Datagram
  BY <1>1, <1>2, LeaveType
<1>5. challenges' \in [Entries -> Challenge] /\ SlotsOK(slots', game')
  <2>1. UNCHANGED server
    BY DEF CL_Connect_f, Disconnect, CL_CheckForResend
  <2>. QED
    BY <1>1, <2>1 DEF server
<1>6. CASE CL_Connect_f(p)
  <2>1. [state |-> "connecting", challenge |-> clients[p].attempt + 1,
         attempt |-> clients[p].attempt + 1, waited |-> RETRANSMIT_TIMEOUT] \in Client
    BY <1>2, <1>3 DEF Client
  <2>2. clients' \in [Parties -> Client]
    BY <1>1, <1>2, <1>6, <2>1 DEF CL_Connect_f
  <2>3. net' \subseteq Datagram
    BY <1>4, <1>6 DEF CL_Connect_f
  <2>. QED
    BY <1>5, <2>2, <2>3 DEF IInv, TypeOK, OneSlotEach, GameAgrees, SlotsOK
<1>7. CASE Disconnect(p)
  <2>1. [clients[p] EXCEPT !.state = "disconnected", !.challenge = 0, !.waited = 0] \in Client
    <3>1. 0 \in 0 .. RETRANSMIT_TIMEOUT
      BY <1>3
    <3>. QED
      BY <1>2, <3>1, ClientGoesOn
  <2>2. PICK c \in Client :
            c = [clients[p] EXCEPT !.state = "disconnected", !.challenge = 0, !.waited = 0]
    BY <2>1
  <2>3. clients' = [clients EXCEPT ![p] = c]
    BY <1>1, <1>2, <1>7, <2>2 DEF Disconnect
  <2>4. clients' \in [Parties -> Client]
    BY <1>1, <2>3
  <2>5. net' \subseteq Datagram
    BY <1>4, <1>7 DEF Disconnect
  <2>. QED
    BY <1>5, <2>4, <2>5 DEF IInv, TypeOK, OneSlotEach, GameAgrees, SlotsOK
<1>8. CASE CL_CheckForResend(p)
  <2>1. [clients[p] EXCEPT !.waited = 0] \in Client
    BY <1>2, <1>3 DEF Client
  <2>2. clients' \in [Parties -> Client]
    BY <1>1, <1>2, <1>8, <2>1 DEF CL_CheckForResend
  <2>3. PICK k \in {"getchallenge", "connect"} :
            k = IF clients[p].state = "connecting" THEN "getchallenge" ELSE "connect"
    OBVIOUS
  <2>4. Message(k, p, clients[p].challenge, 0) \in Datagram
    BY <1>2, MessageType
  <2>5. With(net, Message(k, p, clients[p].challenge, 0)) \subseteq Datagram
    BY <1>1, <2>4, WithType
  <2>6. net' \subseteq Datagram
    BY <1>8, <2>3, <2>5 DEF CL_CheckForResend
  <2>. QED
    BY <1>5, <2>2, <2>6 DEF IInv, TypeOK, OneSlotEach, GameAgrees, SlotsOK
<1>. QED
  BY <1>6, <1>7, <1>8

\* A response changes the client that waits for it, at most.
LEMMA ResponseStep ==
    ASSUME IInv, NEW p \in Newcomers, ChallengeResponse(p) \/ ConnectResponse(p)
    PROVE  IInv'
<1>1. /\ clients \in [Parties -> Client] /\ challenges \in [Entries -> Challenge]
      /\ net \subseteq Datagram /\ SlotsOK(slots, game)
  BY SlotsOKInv
<1>2. p \in Parties /\ clients[p] \in Client
  BY <1>1 DEF Newcomers
<1>3. RETRANSMIT_TIMEOUT \in Nat
  BY ConstantsAssumption
<1>4. challenges' \in [Entries -> Challenge] /\ SlotsOK(slots', game')
  <2>1. UNCHANGED server
    BY DEF ChallengeResponse, ConnectResponse
  <2>. QED
    BY <1>1, <2>1 DEF server
<1>5. net' \subseteq Datagram
  BY <1>1 DEF ChallengeResponse, ConnectResponse
<1>6. clients' \in [Parties -> Client]
  <2>1. CASE ChallengeResponse(p)
    <3>1. PICK d \in Received("challengeResponse", p) :
              clients' = [clients EXCEPT ![p] =
                             IF @.state = "connecting" /\ @.challenge = d.nonce
                             THEN [@ EXCEPT !.state = "challenging", !.challenge = d.challenge,
                                            !.waited = RETRANSMIT_TIMEOUT]
                             ELSE @]
      BY <2>1 DEF ChallengeResponse
    <3>2. d.challenge \in Nat
      BY <1>1 DEF Received, Datagram
    <3>3. [clients[p] EXCEPT !.state = "challenging", !.challenge = d.challenge,
                             !.waited = RETRANSMIT_TIMEOUT] \in Client
      <4>1. RETRANSMIT_TIMEOUT \in 0 .. RETRANSMIT_TIMEOUT
        BY <1>3
      <4>. QED
        BY <1>2, <3>2, <4>1, ClientGoesOn
    <3>. QED
      BY <1>1, <1>2, <3>1, <3>3
  <2>2. CASE ConnectResponse(p)
    <3>1. PICK d \in Received("connectResponse", p) :
              clients' = [clients EXCEPT ![p] =
                             IF @.state = "challenging" /\ @.challenge = d.challenge
                             THEN [@ EXCEPT !.state = "connected", !.waited = 0]
                             ELSE @]
      BY <2>2 DEF ConnectResponse
    <3>2. [clients[p] EXCEPT !.state = "connected", !.waited = 0] \in Client
      <4>1. 0 \in 0 .. RETRANSMIT_TIMEOUT
        BY <1>3
      <4>. QED
        BY <1>2, <4>1, ClientWaits
    <3>. QED
      BY <1>1, <1>2, <3>1, <3>2
  <2>. QED
    BY <2>1, <2>2
<1>. QED
  BY <1>4, <1>5, <1>6 DEF IInv, TypeOK, OneSlotEach, GameAgrees, SlotsOK

\* The server gives a challenge to a party of the handshake, or to another.
LEMMA ChallengeStep ==
    ASSUME IInv, NEW p \in Parties, SV_GetChallenge(p) \/ OthersAsk(p)
    PROVE  IInv'
<1>1. /\ clients \in [Parties -> Client] /\ challenges \in [Entries -> Challenge]
      /\ net \subseteq Datagram /\ SlotsOK(slots, game)
  BY SlotsOKInv
<1>2. slots' = slots /\ game' = game
  BY DEF SV_GetChallenge, OthersAsk
<1>3. SlotsOK(slots', game')
  BY <1>1, <1>2
<1>4. CASE SV_GetChallenge(p)
  <2>1. PICK d \in Received("getchallenge", p), n \in NewNumbers(p) :
            /\ challenges' = Given(p, n)
            /\ net' = With(net \ {d}, Message("challengeResponse", p, n, d.challenge))
    BY <1>4 DEF SV_GetChallenge
  <2>2. d.challenge \in Nat /\ n \in Nat
    BY <1>1, ConstantsAssumption DEF Received, Datagram, NewNumbers, Numbers
  <2>3. challenges' \in [Entries -> Challenge]
    BY <1>1, <2>1, <2>2, GivenType
  <2>4. net' \subseteq Datagram
    <3>1. Message("challengeResponse", p, n, d.challenge) \in Datagram
      BY <2>2, MessageType
    <3>2. net \ {d} \subseteq Datagram
      BY <1>1
    <3>. QED
      BY <2>1, <3>1, <3>2, WithType
  <2>5. clients' \in [Parties -> Client]
    BY <1>1, <1>4 DEF SV_GetChallenge
  <2>. QED
    BY <1>3, <2>3, <2>4, <2>5 DEF IInv, TypeOK, OneSlotEach, GameAgrees, SlotsOK
<1>5. CASE OthersAsk(p)
  <2>1. challenges' \in [Entries -> Challenge]
    <3>1. 0 \in Nat
      OBVIOUS
    <3>. QED
      BY <1>1, <1>5, <3>1, GivenType DEF OthersAsk
  <2>2. clients' \in [Parties -> Client]
    <3>1. clients[p] \in Client /\ clients[p].attempt \in Nat
      BY <1>1 DEF Client
    <3>2. [clients[p] EXCEPT !.attempt = clients[p].attempt + 1] \in Client
      BY <3>1 DEF Client
    <3>. QED
      BY <1>1, <1>5, <3>2 DEF OthersAsk
  <2>3. net' \subseteq Datagram
    BY <1>1, <1>5 DEF OthersAsk
  <2>. QED
    BY <1>3, <2>1, <2>2, <2>3 DEF IInv, TypeOK, OneSlotEach, GameAgrees, SlotsOK
<1>. QED
  BY <1>4, <1>5

\* A slot that is set up, given back or made a zombie by a connect was its party's or free.
LEMMA ConnectSlots ==
    ASSUME SlotsOK(slots, game), NEW d \in Datagram,
           Turned(d) \/ RefusePing(d) \/ Accept(d) \/ Deny(d) \/ DenyMalformed(d)
    PROVE  SlotsOK(slots', game')
<1>1. d.party \in Parties /\ d.challenge \in Nat
  BY DEF Datagram
<1>2. CASE Turned(d) \/ RefusePing(d)
  <2>1. slots' = slots /\ game' = game
    BY <1>2 DEF Turned, RefusePing
  <2>. QED
    BY <2>1
<1>3. CASE Accept(d)
  <2>1. PICK s \in SlotFor(d.party) :
            /\ slots' = [slots EXCEPT ![s] =
                            [state |-> "connected", party |-> d.party, challenge |-> d.challenge,
                             sinceConnect |-> 0]]
            /\ game' = [game EXCEPT ![s] = IF @ = Nobody THEN d.party ELSE @]
    BY <1>3 DEF Accept
  <2>2. SlotsOK([slots EXCEPT ![s] = [state |-> "connected", party |-> d.party,
                                      challenge |-> d.challenge, sinceConnect |-> 0]],
                [game EXCEPT ![s] = IF @ = Nobody THEN d.party ELSE @])
    BY <1>1, SlotTaken
  <2>. QED
    BY <2>1, <2>2
<1>4. CASE Deny(d)
  <2>1. PICK s \in SlotFor(d.party) :
            game[s] = Nobody /\ slots' = [slots EXCEPT ![s] = FreeSlot]
    BY <1>4 DEF Deny
  <2>2. s \in Slots
    BY <1>1, SlotForParty
  <2>3. game' = [game EXCEPT ![s] = Nobody]
    BY <1>4, <2>1, <2>2, GameUntold DEF Deny
  <2>. QED
    BY <2>1, <2>2, <2>3, FreeStep
<1>5. CASE DenyMalformed(d)
  <2>1. PICK s \in SlotFor(d.party) :
            /\ game[s] = Nobody
            /\ slots' = [slots EXCEPT ![s] =
                            [state |-> "zombie", party |-> d.party, challenge |-> 0,
                             sinceConnect |-> ReconnectLimit]]
    BY <1>5 DEF DenyMalformed
  <2>2. s \in Slots /\ \A t \in Slots : slots[t].party = d.party => t = s
    BY <1>1, SlotForParty
  <2>3. game' = [game EXCEPT ![s] = Nobody]
    BY <1>5, <2>1, <2>2, GameUntold DEF DenyMalformed
  <2>4. d.party # Nobody /\ ReconnectLimit \in Nat
    BY <1>1, ConstantsAssumption
  <2>5. PICK v : v = [state |-> "zombie", party |-> d.party, challenge |-> 0,
                      sinceConnect |-> ReconnectLimit]
    OBVIOUS
  <2>6. v \in Slot /\ v.state = "zombie" /\ v.party = d.party
    BY <1>1, <2>4, <2>5 DEF Slot
  <2>7. SlotsOK([slots EXCEPT ![s] = v], [game EXCEPT ![s] = Nobody])
    BY <2>2, <2>4, <2>6, SlotLeft
  <2>. QED
    BY <2>1, <2>3, <2>5, <2>7
<1>. QED
  BY <1>2, <1>3, <1>4, <1>5

\* What a connect leaves of the challenges and sends.
LEMMA ConnectRest ==
    ASSUME challenges \in [Entries -> Challenge], net \subseteq Datagram, NEW d \in Datagram,
           Turned(d) \/ RefusePing(d) \/ Accept(d) \/ Deny(d) \/ DenyMalformed(d)
    PROVE  challenges' \in [Entries -> Challenge] /\ net' \subseteq Datagram /\ clients' = clients
<1>1. Used(d) \in [Entries -> Challenge]
  BY UsedType
<1>2. Wiped(Used(d), d.party) \in [Entries -> Challenge]
  BY <1>1, WipedType
<1>3. [challenges EXCEPT ![Min(Matching(d))].wasrefused = TRUE] \in [Entries -> Challenge]
  BY DEF Challenge
<1>4. With(net \ {d}, Message("connectResponse", d.party, d.challenge, 0)) \subseteq Datagram
  <2>1. Message("connectResponse", d.party, d.challenge, 0) \in Datagram
    <3>1. d.party \in Parties /\ d.challenge \in Nat
      BY DEF Datagram
    <3>. QED
      BY <3>1, MessageType
  <2>2. net \ {d} \subseteq Datagram
    OBVIOUS
  <2>. QED
    BY <2>1, <2>2, WithType
<1>5. challenges' \in [Entries -> Challenge]
  BY <1>1, <1>2, <1>3 DEF Turned, RefusePing, Accept, Deny, DenyMalformed
<1>6. net' \subseteq Datagram
  BY <1>4 DEF Turned, RefusePing, Accept, Deny, DenyMalformed
<1>7. clients' = clients
  BY DEF Turned, RefusePing, Accept, Deny, DenyMalformed
<1>. QED
  BY <1>5, <1>6, <1>7

LEMMA ConnectStep ==
    ASSUME IInv, NEW p \in Parties, SV_DirectConnect(p)
    PROVE  IInv'
<1>1. /\ clients \in [Parties -> Client] /\ challenges \in [Entries -> Challenge]
      /\ net \subseteq Datagram /\ SlotsOK(slots, game)
  BY SlotsOKInv
<1>2. PICK d \in Received("connect", p) :
          Turned(d) \/ RefusePing(d) \/ Accept(d) \/ Deny(d) \/ DenyMalformed(d)
  BY DEF SV_DirectConnect
<1>3. d \in Datagram
  BY <1>1 DEF Received
<1>4. SlotsOK(slots', game')
  BY <1>1, <1>2, <1>3, ConnectSlots
<1>5. challenges' \in [Entries -> Challenge] /\ net' \subseteq Datagram /\ clients' = clients
  BY <1>1, <1>2, <1>3, ConnectRest
<1>. QED
  BY <1>1, <1>4, <1>5 DEF IInv, TypeOK, OneSlotEach, GameAgrees, SlotsOK

\* A slot is left: by a kick, a disconnect, a timeout, or a zombie that expires.
LEMMA SlotsLeft ==
    ASSUME SlotsOK(slots, game), NEW s \in Slots,
           SV_DropClient(s) \/ TimeOut(s) \/ ZombieExpires(s)
    PROVE  SlotsOK(slots', game')
<1>1. CASE SV_DropClient(s)
  BY <1>1, DropSlot
<1>2. CASE TimeOut(s)
  <2>1. slots' = [slots EXCEPT ![s] = FreeSlot] /\ game' = [game EXCEPT ![s] = Nobody]
    BY <1>2 DEF TimeOut
  <2>. QED
    BY <2>1, FreeStep
<1>3. CASE ZombieExpires(s)
  <2>1. slots' = [slots EXCEPT ![s] = FreeSlot] /\ game' = game /\ game[s] = Nobody
    BY <1>3 DEF ZombieExpires, SlotsOK
  <2>2. game' = [game EXCEPT ![s] = Nobody]
    BY <2>1, GameUntold
  <2>. QED
    BY <2>1, <2>2, FreeStep
<1>. QED
  BY <1>1, <1>2, <1>3

LEMMA LeftStep ==
    ASSUME IInv, NEW s \in Slots, Kick(s) \/ TimeOut(s) \/ ZombieExpires(s)
    PROVE  IInv'
<1>1. /\ clients \in [Parties -> Client] /\ challenges \in [Entries -> Challenge]
      /\ net \subseteq Datagram /\ SlotsOK(slots, game)
  BY SlotsOKInv
<1>2. SlotsOK(slots', game')
  BY <1>1, SlotsLeft DEF Kick
<1>3. clients' \in [Parties -> Client] /\ net' \subseteq Datagram
  BY <1>1 DEF Kick, TimeOut, ZombieExpires
<1>4. Wiped(challenges, slots[s].party) \in [Entries -> Challenge]
  BY <1>1, WipedType
<1>5. challenges' \in [Entries -> Challenge]
  BY <1>1, <1>4 DEF Kick, SV_DropClient, TimeOut, ZombieExpires
<1>. QED
  BY <1>2, <1>3, <1>5 DEF IInv, TypeOK, OneSlotEach, GameAgrees, SlotsOK

LEMMA DisconnectStep ==
    ASSUME IInv, NEW p \in Parties, ReceiveDisconnect(p)
    PROVE  IInv'
<1>1. /\ clients \in [Parties -> Client] /\ challenges \in [Entries -> Challenge]
      /\ net \subseteq Datagram /\ SlotsOK(slots, game)
  BY SlotsOKInv
<1>2. clients' \in [Parties -> Client] /\ net' \subseteq Datagram
  BY <1>1 DEF ReceiveDisconnect
<1>3. CASE \E s \in First(SlotsOf(p)) : SV_DropClient(s)
  <2>1. PICK s \in Slots : SV_DropClient(s)
    BY <1>3 DEF First, SlotsOf
  <2>2. SlotsOK(slots', game')
    BY <1>1, <2>1, DropSlot
  <2>3. Wiped(challenges, slots[s].party) \in [Entries -> Challenge]
    BY <1>1, WipedType
  <2>4. challenges' \in [Entries -> Challenge]
    BY <2>1, <2>3 DEF SV_DropClient
  <2>. QED
    BY <1>2, <2>2, <2>4 DEF IInv, TypeOK, OneSlotEach, GameAgrees, SlotsOK
<1>4. CASE UNCHANGED server
  <2>1. SlotsOK(slots', game') /\ challenges' \in [Entries -> Challenge]
    BY <1>1, <1>4 DEF server
  <2>. QED
    BY <1>2, <2>1 DEF IInv, TypeOK, OneSlotEach, GameAgrees, SlotsOK
<1>. QED
  BY <1>3, <1>4 DEF ReceiveDisconnect

\* The clocks go on.
LEMMA TickStep ==
    ASSUME IInv, Tick
    PROVE  IInv'
<1>1. /\ clients \in [Parties -> Client] /\ challenges \in [Entries -> Challenge]
      /\ net \subseteq Datagram /\ SlotsOK(slots, game)
  BY SlotsOKInv
<1>2. ReconnectLimit \in Nat /\ RETRANSMIT_TIMEOUT \in Nat /\ MaxDelay \in Nat
  BY ConstantsAssumption
<1>3. net' \subseteq Datagram
  <2>1. ASSUME NEW d \in Datagram, d.age < MaxDelay
        PROVE  [d EXCEPT !.age = d.age + 1] \in Datagram
    <3>1. d.age + 1 \in 0 .. MaxDelay
      BY <1>2, <2>1 DEF Datagram
    <3>. QED
      BY <3>1 DEF Datagram
  <2>. QED
    BY <1>1, <2>1 DEF Tick
<1>4. clients' \in [Parties -> Client]
  <2>1. ASSUME NEW c \in Client, c.waited < RETRANSMIT_TIMEOUT
        PROVE  [c EXCEPT !.waited = c.waited + 1] \in Client
    <3>1. c.waited + 1 \in 0 .. RETRANSMIT_TIMEOUT
      BY <1>2, <2>1 DEF Client
    <3>. QED
      BY <3>1 DEF Client
  <2>. QED
    BY <1>1, <2>1 DEF Tick
<1>5. ASSUME NEW s \in Slots
      PROVE  slots'[s] \in Slot /\ slots'[s].state = slots[s].state /\ slots'[s].party = slots[s].party
  <2>1. slots[s] \in Slot
    BY <1>1 DEF SlotsOK
  <2>2. CASE slots[s].state = "free" \/ slots[s].sinceConnect = ReconnectLimit
    BY <2>1, <2>2 DEF Tick
  <2>3. CASE ~(slots[s].state = "free" \/ slots[s].sinceConnect = ReconnectLimit)
    <3>1. slots[s].sinceConnect + 1 \in 0 .. ReconnectLimit
      BY <1>2, <2>1, <2>3 DEF Slot
    <3>2. PICK n \in 0 .. ReconnectLimit : n = slots[s].sinceConnect + 1
      BY <3>1
    <3>3. slots'[s] = [slots[s] EXCEPT !.sinceConnect = n]
      BY <2>3, <3>2 DEF Tick
    <3>. QED
      BY <2>1, <3>3 DEF Slot
  <2>. QED
    BY <2>2, <2>3
<1>6. game' = game /\ challenges' = challenges
  BY DEF Tick
<1>7. slots' \in [Slots -> Slot]
  <2>1. slots' = [s \in Slots |-> slots'[s]]
    BY DEF Tick
  <2>. QED
    BY <1>5, <2>1
<1>8. SlotsOK(slots', game')
  <2>1. SlotsOK(slots, game)
    BY <1>1
  <2>. QED
    BY <2>1, <1>5, <1>6, <1>7 DEF SlotsOK
<1>. QED
  BY <1>1, <1>3, <1>4, <1>6, <1>8 DEF IInv, TypeOK, OneSlotEach, GameAgrees, SlotsOK

LEMMA NextInv == IInv /\ [Next]_vars => IInv'
<1>. SUFFICES ASSUME IInv, [Next]_vars
              PROVE  IInv'
  OBVIOUS
<1>1. ASSUME NEW p \in Newcomers,
             \/ CL_Connect_f(p) \/ Disconnect(p) \/ CL_CheckForResend(p)
             \/ ChallengeResponse(p) \/ ConnectResponse(p)
             \/ ReceiveDisconnect(p) \/ SV_GetChallenge(p) \/ SV_DirectConnect(p)
      PROVE  IInv'
  <2>1. p \in Parties
    BY DEF Newcomers
  <2>. QED
    BY <1>1, <2>1, ClientStep, ResponseStep, DisconnectStep, ChallengeStep, ConnectStep
<1>2. ASSUME NEW p \in Range(Present), OthersAsk(p)
      PROVE  IInv'
  <2>1. p \in Parties
    BY ConstantsAssumption DEF Range
  <2>. QED
    BY <1>2, <2>1, ChallengeStep
<1>3. ASSUME NEW s \in Slots, Kick(s) \/ TimeOut(s) \/ ZombieExpires(s)
      PROVE  IInv'
  BY <1>3, LeftStep
<1>4. CASE Tick
  BY <1>4, TickStep
<1>5. CASE UNCHANGED vars
  <2>1. clients' = clients /\ challenges' = challenges /\ slots' = slots /\ game' = game /\ net' = net
    BY <1>5 DEF vars
  <2>2. TypeOK'
    BY <2>1 DEF IInv, TypeOK
  <2>3. OneSlotEach' /\ GameAgrees'
    BY <2>1 DEF IInv, OneSlotEach, GameAgrees
  <2>. QED
    BY <2>2, <2>3 DEF IInv
<1>. QED
  BY <1>1, <1>2, <1>3, <1>4, <1>5 DEF Next

--------------------------------------------------------------------------------
(* Connects that come late. *)

\* A response is as old as the connect that was accepted last, or older.
Answered ==
    \A s \in Slots, d \in net :
        /\ slots[s].state = "connected" /\ d.party = slots[s].party
        /\ d.kind = "connectResponse"
        => slots[s].sinceConnect <= d.age

\* A client that is connected has sent its connects before the response came.
Asked ==
    \A s \in Slots, d \in net :
        /\ slots[s].state = "connected" /\ d.party = slots[s].party
        /\ d.kind = "connect" /\ clients[d.party].state = "connected"
        => slots[s].sinceConnect <= d.age + MaxDelay

\* What sets up a slot anew, or says that one was.
Connecting == {"connect", "connectResponse"}

\* Nobody gets in.
Calm ==
    /\ \A d \in net' : d.kind \in Connecting => d \in net
    /\ \A p \in Parties : clients'[p].state = "connected" => clients[p].state = "connected"
    /\ \A s \in Slots : slots'[s].state = "connected" => slots'[s] = slots[s]

\* Then responses and connects under way stay as old as they should be.
LEMMA CalmStays ==
    ASSUME IInv, IInv', Answered, Asked, Calm
    PROVE  Answered' /\ Asked'
<1>1. PICK n, cl, sl : n = net' /\ cl = clients' /\ sl = slots'
  OBVIOUS
<1>2. \A d \in n : d.party \in Parties
  BY <1>1 DEF IInv, TypeOK, Datagram
<1>3. \A d \in n : d.kind \in Connecting => d \in net
  BY <1>1 DEF Calm
<1>4. \A p \in Parties : cl[p].state = "connected" => clients[p].state = "connected"
  BY <1>1 DEF Calm
<1>5. \A s \in Slots : sl[s].state = "connected" => sl[s] = slots[s]
  BY <1>1 DEF Calm
<1>6. \A s \in Slots, d \in n :
        /\ sl[s].state = "connected" /\ d.party = sl[s].party /\ d.kind = "connectResponse"
        => sl[s].sinceConnect <= d.age
  BY <1>3, <1>5 DEF Answered, Connecting
<1>7. \A s \in Slots, d \in n :
        /\ sl[s].state = "connected" /\ d.party = sl[s].party
        /\ d.kind = "connect" /\ cl[d.party].state = "connected"
        => sl[s].sinceConnect <= d.age + MaxDelay
  BY <1>2, <1>3, <1>4, <1>5 DEF Asked, Connecting
<1>. QED
  BY <1>1, <1>6, <1>7 DEF Answered, Asked

\* Only what is added to the datagrams comes to be under way.
LEMMA WithMore == ASSUME NEW n, NEW d PROVE \A e \in With(n, d) : e \in n \/ e = d
BY DEF With

\* The client asks, gives up, or gets the challenge; the server takes its disconnect.
LEMMA ClientCalm ==
    ASSUME IInv, NEW p \in Newcomers,
           \/ CL_Connect_f(p) \/ Disconnect(p) \/ ChallengeResponse(p)
           \/ ReceiveDisconnect(p) \/ SV_GetChallenge(p)
    PROVE  Calm
<1>1. /\ clients \in [Parties -> Client] /\ slots \in [Slots -> Slot] /\ p \in Parties
  BY DEF IInv, TypeOK, Newcomers
<1>2. \A k, c, n : Message(k, p, c, n).kind = k
  BY DEF Message
<1>3. \A e \in CL_Disconnect(p, net) : e.kind \in Connecting => e \in net
  BY <1>2, WithMore DEF CL_Disconnect, Connecting
<1>4. CASE CL_Connect_f(p) \/ Disconnect(p)
  <2>1. net' = CL_Disconnect(p, net) /\ slots' = slots
    BY <1>4 DEF CL_Connect_f, Disconnect, server
  <2>2. PICK c : clients' = [clients EXCEPT ![p] = c] /\ c.state # "connected"
    <3>1. clients[p] \in Client
      BY <1>1
    <3>2. [clients[p] EXCEPT !.state = "disconnected", !.challenge = 0, !.waited = 0].state = "disconnected"
      BY <3>1 DEF Client
    <3>3. CASE CL_Connect_f(p)
      <4>1. PICK c : c = [state |-> "connecting", challenge |-> clients[p].attempt + 1,
                          attempt |-> clients[p].attempt + 1, waited |-> RETRANSMIT_TIMEOUT]
        OBVIOUS
      <4>2. clients' = [clients EXCEPT ![p] = c]
        BY <1>1, <3>3, <4>1 DEF CL_Connect_f
      <4>3. c.state # "connected"
        BY <4>1
      <4>. QED
        BY <4>2, <4>3
    <3>4. CASE Disconnect(p)
      <4>1. clients' = [clients EXCEPT ![p] = [clients[p] EXCEPT !.state = "disconnected", !.challenge = 0,
                                                                 !.waited = 0]]
        BY <1>1, <3>4 DEF Disconnect
      <4>. QED
        BY <3>2, <4>1
    <3>. QED
      BY <1>4, <3>3, <3>4
  <2>3. \A q \in Parties : clients'[q].state = "connected" => clients[q].state = "connected"
    BY <1>1, <2>2
  <2>. QED
    BY <1>3, <2>1, <2>3 DEF Calm
<1>5. CASE ChallengeResponse(p)
  <2>1. PICK d : /\ net' = net \ {d}
                 /\ clients' = [clients EXCEPT ![p] =
                                   IF @.state = "connecting" /\ @.challenge = d.nonce
                                   THEN [@ EXCEPT !.state = "challenging", !.challenge = d.challenge,
                                                  !.waited = RETRANSMIT_TIMEOUT]
                                   ELSE @]
                 /\ UNCHANGED server
    BY <1>5 DEF ChallengeResponse
  <2>2. \A q \in Parties : clients'[q].state = "connected" => clients[q].state = "connected"
    <3>1. clients[p] \in Client
      BY <1>1
    <3>2. [clients[p] EXCEPT !.state = "challenging", !.challenge = d.challenge,
                             !.waited = RETRANSMIT_TIMEOUT].state = "challenging"
      BY <3>1 DEF Client
    <3>. QED
      BY <1>1, <2>1, <3>2
  <2>. QED
    BY <2>1, <2>2 DEF Calm, server
<1>6. CASE ReceiveDisconnect(p)
  <2>1. /\ \A d \in net' : d \in net
        /\ clients' = clients
        /\ slots' = slots \/ \E s \in Slots : slots' = [slots EXCEPT ![s].state = "zombie", ![s].challenge = 0]
    BY <1>6 DEF ReceiveDisconnect, SV_DropClient, First, SlotsOf, server
  <2>2. \A s \in Slots : slots'[s].state = "connected" => slots'[s] = slots[s]
    <3>1. ASSUME NEW s \in Slots
          PROVE  [slots[s] EXCEPT !.state = "zombie", !.challenge = 0].state = "zombie"
      <4>1. slots[s] \in Slot
        BY <1>1
      <4>. QED
        BY <4>1 DEF Slot
    <3>. QED
      BY <1>1, <2>1, <3>1
  <2>. QED
    BY <2>1, <2>2 DEF Calm
<1>7. CASE SV_GetChallenge(p)
  <2>1. PICK d, n : net' = With(net \ {d}, Message("challengeResponse", p, n, d.challenge))
    BY <1>7 DEF SV_GetChallenge
  <2>2. \A e \in net' : e.kind \in Connecting => e \in net
    BY <1>2, <2>1, WithMore DEF Connecting
  <2>. QED
    BY <1>7, <2>2 DEF Calm, SV_GetChallenge
<1>. QED
  BY <1>4, <1>5, <1>6, <1>7

\* A stranger asks.
LEMMA OthersCalm ==
    ASSUME IInv, NEW p \in Parties, OthersAsk(p)
    PROVE  Calm
<1>1. clients \in [Parties -> Client]
  BY DEF IInv, TypeOK
<1>2. [clients[p] EXCEPT !.attempt = clients[p].attempt + 1].state = clients[p].state
  BY <1>1 DEF Client
<1>3. \A q \in Parties : clients'[q].state = clients[q].state
  BY <1>1, <1>2 DEF OthersAsk
<1>. QED
  BY <1>3 DEF Calm, OthersAsk

\* A client is dropped, or its slot becomes free.
LEMMA LeftCalm ==
    ASSUME IInv, NEW s \in Slots, Kick(s) \/ TimeOut(s) \/ ZombieExpires(s)
    PROVE  Calm
<1>1. slots \in [Slots -> Slot]
  BY DEF IInv, TypeOK
<1>2. clients' = clients /\ net' = net
  BY DEF Kick, TimeOut, ZombieExpires
<1>3. PICK v : slots' = [slots EXCEPT ![s] = v] /\ v.state # "connected"
  <2>1. CASE Kick(s)
    <3>1. slots' = [slots EXCEPT ![s] = [slots[s] EXCEPT !.state = "zombie", !.challenge = 0]]
      BY <1>1, <2>1 DEF Kick, SV_DropClient
    <3>2. slots[s] \in Slot
      BY <1>1
    <3>3. [slots[s] EXCEPT !.state = "zombie", !.challenge = 0].state = "zombie"
      BY <3>2 DEF Slot
    <3>. QED
      BY <3>1, <3>3
  <2>2. CASE TimeOut(s) \/ ZombieExpires(s)
    BY <2>2, FreeSlotType DEF TimeOut, ZombieExpires
  <2>. QED
    BY <2>1, <2>2
<1>. QED
  BY <1>1, <1>2, <1>3 DEF Calm

\* A connect is turned away.
LEMMA TurnedCalm ==
    ASSUME IInv, NEW d, Turned(d) \/ RefusePing(d) \/ Deny(d) \/ DenyMalformed(d)
    PROVE  Calm
<1>1. slots \in [Slots -> Slot]
  BY DEF IInv, TypeOK
<1>2. clients' = clients /\ \A e \in net' : e \in net
  BY DEF Turned, RefusePing, Deny, DenyMalformed
<1>3. slots' = slots \/ \E s \in Slots : \E v : slots' = [slots EXCEPT ![s] = v] /\ v.state # "connected"
  BY FreeSlotType DEF Turned, RefusePing, Deny, DenyMalformed, SlotFor, First, SlotsOf, Free
<1>. QED
  BY <1>1, <1>2, <1>3 DEF Calm

\* A client that is not connected sends a connect, or asks for a challenge.
LEMMA ResendTimely ==
    ASSUME IInv, IInv', Answered, Asked, NEW p \in Newcomers, CL_CheckForResend(p)
    PROVE  Answered' /\ Asked'
<1>1. /\ clients \in [Parties -> Client] /\ p \in Parties
      /\ net' \subseteq Datagram
  BY DEF IInv, TypeOK, Newcomers
<1>2. PICK m : /\ net' = With(net, m) /\ m.party = p /\ m.kind # "connectResponse"
  BY DEF CL_CheckForResend, Message
<1>3. /\ slots' = slots /\ clients[p].state # "connected"
      /\ \A q \in Parties : clients'[q].state = clients[q].state
  <2>1. clients[p] \in Client
    BY <1>1
  <2>2. [clients[p] EXCEPT !.waited = 0].state = clients[p].state
    BY <2>1 DEF Client
  <2>3. clients' = [clients EXCEPT ![p] = [clients[p] EXCEPT !.waited = 0]]
    BY <1>1 DEF CL_CheckForResend
  <2>. QED
    BY <1>1, <2>2, <2>3 DEF CL_CheckForResend, server
<1>4. \A e \in net' : (e \in net \/ e = m) /\ e.party \in Parties
  BY <1>1, <1>2, WithMore DEF Datagram
<1>5. Answered'
  BY <1>2, <1>3, <1>4 DEF Answered
<1>6. Asked'
  BY <1>2, <1>3, <1>4 DEF Asked
<1>. QED
  BY <1>5, <1>6

\* The response is on its way for MaxDelay at most, and so the last connect that was accepted
\* is not longer ago.
LEMMA ResponseTimely ==
    ASSUME IInv, IInv', Answered, Asked, NEW p \in Newcomers, ConnectResponse(p)
    PROVE  Answered' /\ Asked'
<1>1. /\ clients \in [Parties -> Client] /\ slots \in [Slots -> Slot] /\ p \in Parties
      /\ net \subseteq Datagram
  BY DEF IInv, TypeOK, Newcomers
<1>2. PICK r \in net : /\ r.kind = "connectResponse" /\ r.party = p
                       /\ net' = net \ {r}
                       /\ slots' = slots
                       /\ \E c : clients' = [clients EXCEPT ![p] = c]
  BY DEF ConnectResponse, Received, server
<1>3. Answered'
  BY <1>2 DEF Answered
<1>4. r.age \in 0 .. MaxDelay /\ MaxDelay \in Nat
  BY <1>1, ConstantsAssumption DEF Datagram
<1>5. ASSUME NEW s \in Slots, NEW d \in net, slots[s].state = "connected",
             d.party = slots[s].party, d.kind = "connect", clients'[d.party].state = "connected"
      PROVE  slots[s].sinceConnect <= d.age + MaxDelay
  <2>1. d.party \in Parties /\ d.age \in Nat /\ slots[s].sinceConnect \in Nat
    <3>1. d \in Datagram /\ slots[s] \in Slot
      BY <1>1
    <3>. QED
      BY <3>1, ConstantsAssumption DEF Datagram, Slot
  <2>2. CASE d.party # p
    <3>1. clients'[d.party] = clients[d.party]
      BY <1>1, <1>2, <2>1, <2>2
    <3>. QED
      BY <1>5, <3>1 DEF Asked
  <2>3. CASE d.party = p
    <3>1. slots[s].sinceConnect <= r.age
      BY <1>2, <1>5, <2>3 DEF Answered
    <3>. QED
      BY <1>4, <2>1, <3>1
  <2>. QED
    BY <2>2, <2>3
<1>6. Asked'
  BY <1>2, <1>5 DEF Asked
<1>. QED
  BY <1>3, <1>6

\* A connect is accepted: nothing of its party is older than that.
LEMMA AcceptTimely ==
    ASSUME IInv, IInv', Answered, Asked, NEW d \in Datagram, Accept(d)
    PROVE  Answered' /\ Asked'
<1>1. /\ slots \in [Slots -> Slot] /\ slots' \in [Slots -> Slot]
      /\ net' \subseteq Datagram /\ OneSlotEach'
  BY DEF IInv, TypeOK
<1>2. PICK s \in Slots : slots' = [slots EXCEPT ![s] =
                             [state |-> "connected", party |-> d.party, challenge |-> d.challenge,
                              sinceConnect |-> 0]]
  BY DEF Accept, SlotFor, First, SlotsOf, Free
<1>3. PICK m : net' = With(net \ {d}, m) /\ m.party = d.party /\ m.kind = "connectResponse"
  BY DEF Accept, Message
<1>4. slots'[s].party = d.party /\ slots'[s].sinceConnect = 0
  BY <1>1, <1>2
<1>5. \A t \in Slots : t # s => slots'[t] = slots[t]
  BY <1>1, <1>2
<1>6. d.party # Nobody
  BY ConstantsAssumption DEF Datagram
<1>7. \A t \in Slots : t # s => slots'[t].party # d.party
  BY <1>1, <1>4, <1>6 DEF OneSlotEach
<1>8. \A e \in net' : /\ e \in net \/ e = m
                      /\ e.age \in Nat
  BY <1>1, <1>3, WithMore, ConstantsAssumption DEF Datagram
<1>9. Answered'
  <2>1. ASSUME NEW t \in Slots, NEW e \in net', slots'[t].state = "connected",
               e.party = slots'[t].party, e.kind = "connectResponse"
        PROVE  slots'[t].sinceConnect <= e.age
    <3>1. CASE t = s
      BY <1>4, <1>8, <3>1
    <3>2. CASE t # s
      <4>1. e \in net
        BY <1>3, <1>7, <1>8, <2>1, <3>2
      <4>. QED
        BY <1>5, <2>1, <3>2, <4>1 DEF Answered
    <3>. QED
      BY <3>1, <3>2
  <2>. QED
    BY <2>1 DEF Answered
<1>10. Asked'
  <2>1. clients' = clients
    BY DEF Accept
  <2>2. ASSUME NEW t \in Slots, NEW e \in net', slots'[t].state = "connected",
               e.party = slots'[t].party, e.kind = "connect", clients[e.party].state = "connected"
        PROVE  slots'[t].sinceConnect <= e.age + MaxDelay
    <3>1. CASE t = s
      <4>1. MaxDelay \in Nat
        BY ConstantsAssumption
      <4>. QED
        BY <1>4, <1>8, <3>1, <4>1
    <3>2. CASE t # s
      <4>1. e \in net
        BY <1>3, <1>8, <2>2
      <4>. QED
        BY <1>5, <2>2, <3>2, <4>1 DEF Asked
    <3>. QED
      BY <3>1, <3>2
  <2>. QED
    BY <2>1, <2>2 DEF Asked
<1>. QED
  BY <1>9, <1>10

\* A slot counts as datagrams age, up to the limit.
LEMMA TickCounts ==
    ASSUME IInv, Tick, NEW s \in Slots
    PROVE  /\ slots'[s].state = slots[s].state /\ slots'[s].party = slots[s].party
           /\ slots'[s].challenge = slots[s].challenge
           /\ slots[s].sinceConnect \in Nat /\ slots'[s].sinceConnect \in Nat
           /\ slots[s].sinceConnect <= slots'[s].sinceConnect
           /\ slots'[s].sinceConnect <= slots[s].sinceConnect + 1
<1>1. slots[s] \in Slot
  BY DEF IInv, TypeOK
<1>2. PICK n \in Nat : n = slots[s].sinceConnect
  BY <1>1, ConstantsAssumption DEF Slot
<1>3. slots'[s] = slots[s] \/ slots'[s] = [slots[s] EXCEPT !.sinceConnect = n + 1]
  BY <1>2 DEF Tick
<1>4. CASE slots'[s] = slots[s]
  BY <1>2, <1>4
<1>5. CASE slots'[s] = [slots[s] EXCEPT !.sinceConnect = n + 1]
  <2>1. /\ slots'[s].state = slots[s].state /\ slots'[s].party = slots[s].party
        /\ slots'[s].challenge = slots[s].challenge /\ slots'[s].sinceConnect = n + 1
    BY <1>1, <1>5 DEF Slot
  <2>. QED
    BY <1>2, <2>1
<1>. QED
  BY <1>3, <1>4, <1>5

\* Datagrams and slots age together.
LEMMA TickTimely ==
    ASSUME IInv, Answered, Asked, Tick
    PROVE  Answered' /\ Asked'
<1>1. /\ clients \in [Parties -> Client] /\ net \subseteq Datagram
  BY DEF IInv, TypeOK
<1>2. \A d \in net' : \E e \in net :
        d.kind = e.kind /\ d.party = e.party /\ d.age = e.age + 1 /\ e.age \in Nat /\ e.party \in Parties
  <2>1. \A e \in net : /\ e.age \in Nat /\ e.party \in Parties
                       /\ [e EXCEPT !.age = e.age + 1].kind = e.kind
                       /\ [e EXCEPT !.age = e.age + 1].party = e.party
                       /\ [e EXCEPT !.age = e.age + 1].age = e.age + 1
    BY <1>1, ConstantsAssumption DEF Datagram
  <2>2. \A d \in net' : \E e \in net : d = [e EXCEPT !.age = e.age + 1]
    BY DEF Tick
  <2>3. ASSUME NEW d \in net'
        PROVE  \E e \in net : /\ d.kind = e.kind /\ d.party = e.party /\ d.age = e.age + 1
                              /\ e.age \in Nat /\ e.party \in Parties
    <3>1. PICK e \in net : d = [e EXCEPT !.age = e.age + 1]
      BY <2>2
    <3>2. /\ d.kind = e.kind /\ d.party = e.party /\ d.age = e.age + 1
          /\ e.age \in Nat /\ e.party \in Parties
      BY <2>1, <3>1
    <3>. QED
      BY <3>2
  <2>. QED
    BY <2>3
<1>3. \A p \in Parties : clients'[p].state = clients[p].state
  <2>1. ASSUME NEW p \in Parties PROVE clients'[p].state = clients[p].state
    <3>1. clients[p] \in Client
      BY <1>1
    <3>2. [clients[p] EXCEPT !.waited = clients[p].waited + 1].state = clients[p].state
      BY <3>1 DEF Client
    <3>3. clients'[p] = clients[p] \/ clients'[p] = [clients[p] EXCEPT !.waited = clients[p].waited + 1]
      BY DEF Tick
    <3>. QED
      BY <3>2, <3>3
  <2>. QED
    BY <2>1
<1>4. MaxDelay \in Nat
  BY ConstantsAssumption
<1>5. Answered'
  <2>1. ASSUME NEW s \in Slots, NEW d \in net', slots'[s].state = "connected",
               d.party = slots'[s].party, d.kind = "connectResponse"
        PROVE  slots'[s].sinceConnect <= d.age
    <3>1. PICK e \in net : d.kind = e.kind /\ d.party = e.party /\ d.age = e.age + 1 /\ e.age \in Nat
      BY <1>2
    <3>2. slots[s].sinceConnect <= e.age
      BY <2>1, <3>1, TickCounts DEF Answered
    <3>. QED
      BY <3>1, <3>2, TickCounts
  <2>. QED
    BY <2>1 DEF Answered
<1>6. Asked'
  <2>1. ASSUME NEW s \in Slots, NEW d \in net', slots'[s].state = "connected",
               d.party = slots'[s].party, d.kind = "connect", clients'[d.party].state = "connected"
        PROVE  slots'[s].sinceConnect <= d.age + MaxDelay
    <3>1. PICK e \in net : /\ d.kind = e.kind /\ d.party = e.party /\ d.age = e.age + 1
                           /\ e.age \in Nat /\ e.party \in Parties
      BY <1>2
    <3>2. slots[s].sinceConnect <= e.age + MaxDelay
      BY <1>3, <2>1, <3>1, TickCounts DEF Asked
    <3>. QED
      BY <1>4, <3>1, <3>2, TickCounts
  <2>. QED
    BY <2>1 DEF Asked
<1>. QED
  BY <1>5, <1>6

\* Every step.
LEMMA NextTimely ==
    ASSUME IInv, IInv', Answered, Asked, [Next]_vars
    PROVE  Answered' /\ Asked'
<1>1. ASSUME NEW p \in Newcomers,
             \/ CL_Connect_f(p) \/ Disconnect(p) \/ ChallengeResponse(p)
             \/ ReceiveDisconnect(p) \/ SV_GetChallenge(p)
      PROVE  Answered' /\ Asked'
  BY <1>1, ClientCalm, CalmStays
<1>2. ASSUME NEW p \in Newcomers, CL_CheckForResend(p) \/ ConnectResponse(p)
      PROVE  Answered' /\ Asked'
  BY <1>2, ResendTimely, ResponseTimely
<1>3. ASSUME NEW p \in Newcomers, SV_DirectConnect(p)
      PROVE  Answered' /\ Asked'
  <2>1. PICK d \in Datagram : Turned(d) \/ RefusePing(d) \/ Accept(d) \/ Deny(d) \/ DenyMalformed(d)
    BY <1>3 DEF SV_DirectConnect, Received, IInv, TypeOK
  <2>. QED
    BY <2>1, AcceptTimely, TurnedCalm, CalmStays
<1>4. ASSUME NEW p \in Range(Present), OthersAsk(p)
      PROVE  Answered' /\ Asked'
  <2>1. p \in Parties
    BY ConstantsAssumption DEF Range
  <2>. QED
    BY <1>4, <2>1, OthersCalm, CalmStays
<1>5. ASSUME NEW s \in Slots, Kick(s) \/ TimeOut(s) \/ ZombieExpires(s)
      PROVE  Answered' /\ Asked'
  BY <1>5, LeftCalm, CalmStays
<1>6. CASE Tick
  BY <1>6, TickTimely
<1>7. CASE UNCHANGED vars
  <2>1. UNCHANGED <<clients, slots, net>>
    BY <1>7 DEF vars
  <2>. QED
    BY <2>1 DEF Answered, Asked
<1>. QED
  BY <1>1, <1>2, <1>3, <1>4, <1>5, <1>6, <1>7 DEF Next

\* The slot of a client that is in stays what it is, and counts on.
Keeps(s) ==
    /\ slots'[s].party = slots[s].party
    /\ slots'[s].challenge = slots[s].challenge
    /\ slots'[s].sinceConnect >= slots[s].sinceConnect

\* A slot that nobody sets up is kept.
LEMMA CalmKeeps ==
    ASSUME IInv, Calm, NEW s \in Slots, slots'[s].state = "connected"
    PROVE  Keeps(s)
<1>1. slots[s].sinceConnect \in Nat
  <2>1. slots[s] \in Slot
    BY DEF IInv, TypeOK
  <2>. QED
    BY <2>1, ConstantsAssumption DEF Slot
<1>2. slots'[s] = slots[s]
  BY DEF Calm
<1>. QED
  BY <1>1, <1>2 DEF Keeps

\* A connect of a client that is in comes too soon after the one that was accepted.
LEMMA AcceptKeeps ==
    ASSUME IInv, Asked, 2 * MaxDelay < ReconnectLimit,
           NEW d \in net, d.kind = "connect", Accept(d), NEW s \in Slots,
           slots[s].state = "connected", clients[slots[s].party].state = "connected"
    PROVE  Keeps(s)
<1>1. slots \in [Slots -> Slot] /\ d \in Datagram /\ slots[s] \in Slot
  BY DEF IInv, TypeOK
<1>2. slots[s].sinceConnect \in Nat /\ d.age \in 0 .. MaxDelay /\ d.party # Nobody
  BY <1>1, ConstantsAssumption DEF Slot, Datagram
<1>3. slots[s].party # d.party
  <2>. SUFFICES ASSUME slots[s].party = d.party PROVE FALSE
    OBVIOUS
  <2>1. slots[s].sinceConnect <= d.age + MaxDelay
    BY DEF Asked
  <2>2. slots[s].sinceConnect < ReconnectLimit
    BY <1>2, <2>1, ConstantsAssumption
  <2>3. \A t \in Slots : slots[t].party = d.party => t = s
    BY <1>2 DEF IInv, OneSlotEach
  <2>4. s \in First(SlotsOf(d.party))
    <3>1. s \in SlotsOf(d.party) /\ \A t \in SlotsOf(d.party) : t = s
      BY <2>3 DEF SlotsOf
    <3>2. s <= s
      BY ConstantsAssumption DEF Slots
    <3>. QED
      BY <3>1, <3>2 DEF First
  <2>5. TooSoon(d.party)
    BY <2>2, <2>4 DEF TooSoon
  <2>. QED
    BY <2>5 DEF Accept, Admissible
<1>4. slots'[s] = slots[s]
  <2>1. PICK t \in SlotFor(d.party) : \E v : slots' = [slots EXCEPT ![t] = v]
    BY DEF Accept
  <2>2. t # s
    <3>1. t \in SlotsOf(d.party) \/ t \in Free
      BY DEF SlotFor, First
    <3>. QED
      BY <1>3, <3>1 DEF SlotsOf, Free
  <2>. QED
    BY <1>1, <2>1, <2>2
<1>. QED
  BY <1>2, <1>4 DEF Keeps

\* Every step.
LEMMA NextKeeps ==
    ASSUME IInv, Asked, 2 * MaxDelay < ReconnectLimit, [Next]_vars, NEW s \in Slots,
           slots[s].state = "connected", clients[slots[s].party].state = "connected",
           slots'[s].state = "connected"
    PROVE  Keeps(s)
<1>1. CASE slots' = slots
  <2>1. slots[s] \in Slot
    BY DEF IInv, TypeOK
  <2>2. slots[s].sinceConnect \in Nat
    BY <2>1, ConstantsAssumption DEF Slot
  <2>. QED
    BY <1>1, <2>2 DEF Keeps
<1>2. ASSUME NEW p \in Newcomers,
             \/ CL_Connect_f(p) \/ Disconnect(p) \/ ChallengeResponse(p)
             \/ ReceiveDisconnect(p) \/ SV_GetChallenge(p)
      PROVE  Keeps(s)
  BY <1>2, ClientCalm, CalmKeeps
<1>3. ASSUME NEW p \in Newcomers, CL_CheckForResend(p) \/ ConnectResponse(p)
      PROVE  Keeps(s)
  BY <1>1, <1>3 DEF CL_CheckForResend, ConnectResponse, server
<1>4. ASSUME NEW p \in Newcomers, SV_DirectConnect(p)
      PROVE  Keeps(s)
  <2>1. PICK d \in net : /\ d.kind = "connect"
                         /\ Turned(d) \/ RefusePing(d) \/ Accept(d) \/ Deny(d) \/ DenyMalformed(d)
    BY <1>4 DEF SV_DirectConnect, Received
  <2>. QED
    BY <2>1, AcceptKeeps, TurnedCalm, CalmKeeps
<1>5. ASSUME NEW p \in Range(Present), OthersAsk(p)
      PROVE  Keeps(s)
  BY <1>1, <1>5 DEF OthersAsk
<1>6. ASSUME NEW t \in Slots, Kick(t) \/ TimeOut(t) \/ ZombieExpires(t)
      PROVE  Keeps(s)
  BY <1>6, LeftCalm, CalmKeeps
<1>7. CASE Tick
  BY <1>7, TickCounts DEF Keeps
<1>8. CASE UNCHANGED vars
  BY <1>1, <1>8 DEF vars
<1>. QED
  BY <1>2, <1>3, <1>4, <1>5, <1>6, <1>7, <1>8 DEF Next

--------------------------------------------------------------------------------
(* Theorems. *)

\* The invariant that the three properties make up together.
THEOREM Invariance == Spec => []IInv
BY InitInv, NextInv, PTL DEF Spec

\* All state keeps its type, and a free slot has no party: the lemma on slots that the
\* other properties rest on.
THEOREM TypeCorrect == Spec => []TypeOK
<1>1. IInv => TypeOK
  BY DEF IInv
<1>. QED
  BY <1>1, Invariance, PTL

\* SV_DirectConnect never gives a second slot to a party: whatever the number of slots, of
\* parties and of their attempts, and in whatever order datagrams come.
THEOREM OneSlot == Spec => []OneSlotEach
<1>1. IInv => OneSlotEach
  BY DEF IInv
<1>. QED
  BY <1>1, Invariance, PTL

\* The game has exactly the clients that the server has connected, each in its slot: in spite
\* of a slot that is taken over without a word to the game.
THEOREM Agreement == Spec => []GameAgrees
<1>1. IInv => GameAgrees
  BY DEF IInv
<1>. QED
  BY <1>1, Invariance, PTL

\* The slot of a client that is in is not set up anew by a connect that comes late, if no
\* datagram takes half as long as the limit on reconnects: the connect may have been sent
\* when the response had come only just, and that may have taken as long
\* (SV_DirectConnect, sv_reconnectlimit).
THEOREM Settled ==
    ASSUME 2 * MaxDelay < ReconnectLimit
    PROVE  Spec => SettledStays
<1>1. Init => Answered /\ Asked
  BY DEF Init, Answered, Asked
<1>2. ASSUME IInv /\ Answered /\ Asked, [Next]_vars
      PROVE  (IInv /\ Answered /\ Asked)'
  <2>1. IInv'
    BY <1>2, NextInv
  <2>. QED
    BY <1>2, <2>1, NextTimely
<1>3. ASSUME IInv, Asked, [Next]_vars
      PROVE  [\A s \in Slots :
                LET p == slots[s].party
                IN  /\ slots[s].state = "connected"
                    /\ clients[p].state = "connected"
                    /\ clients[p].challenge = slots[s].challenge
                    /\ slots'[s].state = "connected"
                    => /\ slots'[s].party = p
                       /\ slots'[s].challenge = slots[s].challenge
                       /\ slots'[s].sinceConnect >= slots[s].sinceConnect]_vars
  BY <1>3, NextKeeps DEF Keeps
<1>. QED
  BY <1>1, <1>2, <1>3, InitInv, PTL DEF Spec, SettledStays

--------------------------------------------------------------------------------
(* Snapshots. *)

\* The messages that may still reach the client, with the numbers that they have or will get.
OnWay ==
    {toClient[i] : i \in DOMAIN toClient}
      \cup {[queue[k] EXCEPT !.number = outgoingSequence + k - 1] : k \in DOMAIN queue}

\* The difference between two worlds of a map (SV_EmitPacketEntities).
Diff(from, to, map) ==
    [e \in {x \in Entities : from[x] # to[x]} |-> [from |-> Base(from[e], map), to |-> to[e]]]

\* The client has the snapshot of that number, or has had so many since that it does not matter.
Held(b) == snapshots[Masked(b)].valid /\ snapshots[Masked(b)].number = b
Has(b) == b \in 1 .. snap /\ (snap < b + PACKET_BACKUP => Held(b))

\* The frame of a message is as it was sent, unless another has its slot by now.
Framed(n, truth) ==
    outgoingSequence < n + PACKET_BACKUP =>
      /\ frames[Masked(n)].world = truth.world
      /\ truth.world # None => frames[Masked(n)].map = truth.map

SnapType == [valid : BOOLEAN, number : Nat, first : Nat, world : [Entities -> Int], truth : Truth]

\* The types, and what SnapshotsTypeOK does not say.
Types ==
    /\ SnapshotsTypeOK
    /\ queue \in Seq(ServerMessage) /\ toClient \in Seq(ServerMessage)
    /\ outgoingSequence + Len(queue) <= MaxSequence + 1
    /\ snapshots \in [0 .. PACKET_BACKUP - 1 -> SnapType]
    /\ ~dumped

\* Only the first message in the queue can be a snapshot; messages arrive in the order of their
\* numbers, and acknowledgements are of messages that have arrived.
Ordered ==
    /\ \A k \in DOMAIN queue : k > 1 => queue[k].type = "gamestate"
    /\ \A i \in DOMAIN toClient :
         /\ serverMessageSequence < toClient[i].number
         /\ toClient[i].number < outgoingSequence
    /\ \A i, j \in DOMAIN toClient : i < j => toClient[i].number < toClient[j].number
    /\ \A i \in DOMAIN toServer :
         /\ toServer[i].ack <= serverMessageSequence
         /\ toServer[i].serverId <= clServerId

\* One gamestate at most is on its way, and none to a client that has the one of this map.
Gamestates ==
    /\ \A m \in OnWay : m.type = "gamestate" =>
         /\ gamestateMessageNum <= m.number /\ m.number <= gamestateMessageNum + 1
         /\ m.serverId <= serverId /\ m.truth.map = m.serverId
    /\ \A m, g \in OnWay : m.type = "gamestate" /\ g.type = "gamestate" => m.number = g.number
    /\ clServerId = serverId =>
         /\ \A m \in OnWay : m.type = "snapshot"
         /\ \A i \in DOMAIN toServer :
              toServer[i].serverId # serverId => toServer[i].ack <= gamestateMessageNum
    /\ state = "CS_ACTIVE" => clServerId = serverId

\* The maps of the snapshots on the way.
Maps ==
    \A m \in OnWay :
      /\ clServerId <= m.truth.map /\ m.truth.map <= serverId
      /\ Count(m.truth.world) <= MAX_SNAPSHOT_ENTITIES
      /\ \A g \in OnWay : g.type = "gamestate" /\ g.number < m.number => g.serverId <= m.truth.map

\* A slot of the client's ring.
InRing(s) ==
    LET r == snapshots[s]
    IN  r.valid =>
          /\ r.number \in 1 .. snap /\ snap < r.number + PACKET_BACKUP /\ Masked(r.number) = s
          /\ clServerId <= r.truth.map /\ r.truth.map <= serverId
          /\ r.truth.map = clServerId => r.world = r.truth.world
          /\ parseEntitiesNum - r.first
               <= (serverMessageSequence - r.number + 1) * MAX_SNAPSHOT_ENTITIES
          /\ Framed(r.number, r.truth)

Ring ==
    /\ \A s \in 0 .. PACKET_BACKUP - 1 : InRing(s)
    /\ snap > 0 => Held(snap)

\* A snapshot on the way is a difference to nothing or to one that the client has.
Sound(m) ==
    /\ Framed(m.number, m.truth)
    /\ m.lastframe = 0 => m.changes = Diff(None, m.truth.world, m.truth.map)
    /\ m.lastframe > 0 =>
         /\ m.truth.map = clServerId
         /\ \A g \in OnWay : g.type = "gamestate" => g.number > m.number
         /\ m.lastframe < PACKET_BACKUP - 3
         /\ Has(m.number - m.lastframe)
         /\ snapshots[Masked(m.number - m.lastframe)].truth.map = m.truth.map
         /\ m.changes =
              Diff(snapshots[Masked(m.number - m.lastframe)].truth.world, m.truth.world, m.truth.map)

\* The differences on the way, and the bases of those to come.
Deltas ==
    /\ state = "CS_ACTIVE" /\ deltaMessage > 0 => Has(deltaMessage)
    /\ \A i \in DOMAIN toServer :
         toServer[i].serverId = serverId /\ toServer[i].delta => Has(toServer[i].ack)
    /\ \A m \in OnWay : m.type = "snapshot" => Sound(m)

SnapshotsInv == Types /\ Ordered /\ Gamestates /\ Maps /\ Ring /\ Deltas

--------------------------------------------------------------------------------
(* Slots, worlds and differences. *)

\* Slots of the rings.
LEMMA MaskedRange ==
    ASSUME NEW n \in Int
    PROVE  Masked(n) \in 0 .. PACKET_BACKUP - 1
BY SnapshotsAssumption DEF Masked

\* Numbers less than the ring's size apart have different slots.
LEMMA MaskedDistinct ==
    ASSUME NEW a \in Nat, NEW b \in Nat, a < b, b < a + PACKET_BACKUP
    PROVE  Masked(a) # Masked(b)
<1> DEFINE M == PACKET_BACKUP
<1>0. M \in Nat /\ M > 0
  BY SnapshotsAssumption
<1>1. a = M * (a \div M) + (a % M) /\ a \div M \in Nat /\ a % M \in Nat
  BY <1>0
<1>2. b = M * (b \div M) + (b % M) /\ b \div M \in Nat /\ b % M \in Nat
  BY <1>0
<1>3. \A d \in Int : M * d # b - a
  <2> TAKE d \in Int
  <2>1. d >= 1 => M * d >= M
    BY <1>0
  <2>2. d <= 0 => M * d <= 0
    BY <1>0
  <2> QED
    BY <1>0, <2>1, <2>2
<1>4. (b \div M) - (a \div M) \in Int
  BY <1>1, <1>2
<1>5. a % M # b % M
  <2>1. a % M = b % M => b - a = M * ((b \div M) - (a \div M))
    BY <1>0, <1>1, <1>2
  <2> QED
    BY <2>1, <1>3, <1>4
<1> QED
  BY <1>5 DEF Masked

\* How many entities a world has.
LEMMA CountNat ==
    ASSUME NEW world
    PROVE  Count(world) \in Nat
<1>1. IsFiniteSet({e \in Entities : world[e] # 0})
  BY SnapshotsAssumption, FS_Subset
<1>. QED
  BY <1>1, FS_CardinalityType DEF Count

\* Nothing has none.
LEMMA CountNone ==
    Count(None) = 0
<1>1. {e \in Entities : None[e] # 0} = {}
  BY DEF None
<1>. QED
  BY <1>1, FS_EmptySet DEF Count

\* What is sent is a difference (SV_EmitPacketEntities).
LEMMA DiffType ==
    ASSUME NEW from \in [Entities -> Int], NEW to \in [Entities -> Nat], NEW map \in Nat
    PROVE  Diff(from, to, map) \in Changes
<1>1. PICK some \in SUBSET Entities : some = {e \in Entities : from[e] # to[e]}
  OBVIOUS
<1>2. \A e \in some : [from |-> Base(from[e], map), to |-> to[e]] \in Change
  BY <1>1 DEF Base, Baseline, Change
<1>3. Diff(from, to, map) \in [some -> Change]
  BY <1>1, <1>2 DEF Diff
<1>. QED
  BY <1>3 DEF Changes

\* Put on the world that it is from, a difference makes the one it is to (CL_ParsePacketEntities).
LEMMA Applied ==
    ASSUME NEW from \in [Entities -> Int], NEW to \in [Entities -> Nat]
    PROVE  CL_ParsePacketEntities(from, Diff(from, to, clServerId)) = to
<1>1. PICK changes : changes = Diff(from, to, clServerId)
  OBVIOUS
<1>2. /\ DOMAIN changes = {e \in Entities : from[e] # to[e]}
      /\ \A e \in DOMAIN changes : /\ changes[e].from = Base(from[e], clServerId)
                                   /\ changes[e].to = to[e]
  BY <1>1 DEF Diff
<1>3. ASSUME NEW e \in Entities
      PROVE  CL_ParsePacketEntities(from, changes)[e] = to[e]
  BY <1>2 DEF CL_ParsePacketEntities
<1>4. CL_ParsePacketEntities(from, changes)
        = [e \in Entities |-> CL_ParsePacketEntities(from, changes)[e]]
  BY DEF CL_ParsePacketEntities
<1>. QED
  BY <1>1, <1>3, <1>4

\* Even of another map, a full snapshot makes as many entities as there were.
LEMMA AppliedFull ==
    ASSUME NEW to \in [Entities -> Nat], NEW map
    PROVE  Count(CL_ParsePacketEntities(None, Diff(None, to, map))) = Count(to)
<1>1. PICK changes : changes = Diff(None, to, map)
  OBVIOUS
<1>2. /\ DOMAIN changes = {e \in Entities : None[e] # to[e]}
      /\ \A e \in DOMAIN changes : changes[e].to = to[e]
  BY <1>1 DEF Diff
<1>3. \A e \in Entities : None[e] = 0
  BY DEF None
<1>4. ASSUME NEW e \in Entities
      PROVE  CL_ParsePacketEntities(None, changes)[e] # 0 <=> to[e] # 0
  BY <1>2, <1>3 DEF CL_ParsePacketEntities, Wrong
<1>5. {e \in Entities : CL_ParsePacketEntities(None, changes)[e] # 0} = {e \in Entities : to[e] # 0}
  BY <1>4
<1>. QED
  BY <1>1, <1>5 DEF Count

\* Whatever a difference is put on, a world comes out of it.
LEMMA AppliedType ==
    ASSUME NEW from \in [Entities -> Int], NEW to \in [Entities -> Nat], NEW map
    PROVE  CL_ParsePacketEntities(from, Diff(from, to, map)) \in [Entities -> Int]
<1>1. PICK changes : changes = Diff(from, to, map)
  OBVIOUS
<1>2. \A e \in DOMAIN changes : changes[e].to \in Nat
  BY <1>1 DEF Diff
<1>3. \A e \in Entities : CL_ParsePacketEntities(from, changes)[e] \in Int
  BY <1>2 DEF CL_ParsePacketEntities, Wrong
<1>4. CL_ParsePacketEntities(from, changes)
        = [e \in Entities |-> CL_ParsePacketEntities(from, changes)[e]]
  BY DEF CL_ParsePacketEntities
<1>. QED
  BY <1>1, <1>3, <1>4

--------------------------------------------------------------------------------
(* What is on the way. *)

\* What the types say of the numbers,
LEMMA Bounds ==
    ASSUME Types
    PROVE  /\ PACKET_BACKUP \in Nat /\ PACKET_BACKUP > 3 /\ MAX_SNAPSHOT_ENTITIES \in Nat
           /\ serverId \in Nat /\ clServerId \in Nat /\ clServerId <= serverId
           /\ outgoingSequence \in Nat /\ outgoingSequence > 0
           /\ serverMessageSequence \in Nat /\ serverMessageSequence < outgoingSequence
           /\ snap \in Nat /\ snap <= serverMessageSequence
           /\ parseEntitiesNum \in Nat /\ nextSnapshotEntities \in Nat
           /\ deltaMessage \in Int /\ gamestateMessageNum \in Int
BY SnapshotsAssumption DEF Types, SnapshotsTypeOK

\* and of the messages.
LEMMA Sequences ==
    ASSUME Types
    PROVE  /\ queue \in Seq(ServerMessage) /\ Len(queue) \in Nat /\ DOMAIN queue = 1 .. Len(queue)
           /\ toClient \in Seq(ServerMessage) /\ Len(toClient) \in Nat
           /\ DOMAIN toClient = 1 .. Len(toClient)
           /\ toServer \in Seq(Packet) /\ Len(toServer) \in Nat
           /\ DOMAIN toServer = 1 .. Len(toServer)
BY DEF Types, SnapshotsTypeOK

\* What a packet of the client says.
LEMMA PacketTypes ==
    ASSUME Types, NEW i \in DOMAIN toServer
    PROVE  /\ toServer[i] \in Packet
           /\ toServer[i].serverId \in Nat /\ toServer[i].ack \in Nat /\ toServer[i].delta \in BOOLEAN
<1>1. toServer[i] \in Packet
  BY Sequences
<1>. QED
  BY <1>1 DEF Packet

\* What a message of the server says.
LEMMA MessageTypes ==
    ASSUME NEW m \in ServerMessage
    PROVE  /\ m.type \in {"gamestate", "snapshot"} /\ m.number \in Nat /\ m.serverId \in Nat
           /\ m.lastframe \in Nat /\ m.truth \in Truth /\ m.truth.map \in Nat
           /\ m.truth.world \in [Entities -> Nat]
BY DEF ServerMessage, Truth

\* What is in a slot of the client's ring.
LEMMA SlotTypes ==
    ASSUME Types, NEW s \in 0 .. PACKET_BACKUP - 1
    PROVE  /\ snapshots[s] \in SnapType
           /\ snapshots[s].number \in Nat /\ snapshots[s].first \in Nat
           /\ snapshots[s].world \in [Entities -> Int]
           /\ snapshots[s].truth.map \in Nat /\ snapshots[s].truth.world \in [Entities -> Nat]
<1>1. snapshots[s] \in SnapType
  BY DEF Types
<1>. QED
  BY <1>1 DEF SnapType, Truth


\* A message with a number.
LEMMA Numbered ==
    ASSUME NEW m \in ServerMessage, NEW n \in Nat
    PROVE  LET x == [m EXCEPT !.number = n]
           IN  /\ x \in ServerMessage
               /\ x.number = n /\ x.type = m.type /\ x.serverId = m.serverId
               /\ x.lastframe = m.lastframe /\ x.changes = m.changes /\ x.truth = m.truth
BY DEF ServerMessage

\* The messages on the way are numbered from the next one that the client can get.
LEMMA OnWayTypes ==
    ASSUME Types, Ordered
    PROVE  \A m \in OnWay : /\ m \in ServerMessage
                            /\ serverMessageSequence < m.number
                            /\ m.number < outgoingSequence + Len(queue)
<1>1. /\ queue \in Seq(ServerMessage) /\ toClient \in Seq(ServerMessage)
      /\ outgoingSequence \in Nat /\ serverMessageSequence \in Nat
      /\ serverMessageSequence < outgoingSequence /\ Len(queue) \in Nat
  BY Bounds, Sequences
<1>2. ASSUME NEW i \in DOMAIN toClient
      PROVE  /\ toClient[i] \in ServerMessage
             /\ serverMessageSequence < toClient[i].number
             /\ toClient[i].number < outgoingSequence + Len(queue)
  <2>1. toClient[i] \in ServerMessage /\ toClient[i].number \in Nat
    <3>1. toClient[i] \in ServerMessage
      BY <1>1
    <3>. QED
      BY <3>1 DEF ServerMessage
  <2>2. serverMessageSequence < toClient[i].number /\ toClient[i].number < outgoingSequence
    BY DEF Ordered
  <2>3. PICK n \in Nat, l \in Nat : n = toClient[i].number /\ l = Len(queue)
    BY <1>1, <2>1
  <2>4. toClient[i].number < outgoingSequence + Len(queue)
    BY <1>1, <2>2, <2>3
  <2>. QED
    BY <2>1, <2>2, <2>4
<1>3. ASSUME NEW k \in DOMAIN queue
      PROVE  LET m == [queue[k] EXCEPT !.number = outgoingSequence + k - 1]
             IN  /\ m \in ServerMessage
                 /\ serverMessageSequence < m.number
                 /\ m.number < outgoingSequence + Len(queue)
  <2>1. queue[k] \in ServerMessage /\ k \in 1 .. Len(queue)
    BY <1>1
  <2>2. PICK n \in Nat : n = outgoingSequence + k - 1
    BY <1>1, <2>1
  <2>3. [queue[k] EXCEPT !.number = n] \in ServerMessage /\ [queue[k] EXCEPT !.number = n].number = n
    BY <2>1, <2>2, Numbered
  <2>. QED
    BY <1>1, <2>1, <2>2, <2>3
<1>. QED
  BY <1>2, <1>3 DEF OnWay

\* A message that is added comes last.
LEMMA OnWaySend ==
    ASSUME Types, Ordered, NEW m \in ServerMessage,
           queue' = Append(queue, m), toClient' = toClient, outgoingSequence' = outgoingSequence
    PROVE  /\ OnWay' = OnWay \cup {[m EXCEPT !.number = outgoingSequence + Len(queue)]}
           /\ queue' \in Seq(ServerMessage) /\ Len(queue') = Len(queue) + 1
<1>1. queue \in Seq(ServerMessage) /\ Len(queue) \in Nat /\ outgoingSequence \in Nat
  BY Bounds, Sequences
<1>2. /\ queue' \in Seq(ServerMessage) /\ Len(queue') = Len(queue) + 1
      /\ DOMAIN queue = 1 .. Len(queue) /\ DOMAIN queue' = 1 .. Len(queue) + 1
      /\ \A k \in 1 .. Len(queue) : queue'[k] = queue[k]
      /\ queue'[Len(queue) + 1] = m
  BY <1>1
<1>3. outgoingSequence + (Len(queue) + 1) - 1 = outgoingSequence + Len(queue)
  BY <1>1
<1>4. {[queue'[k] EXCEPT !.number = outgoingSequence + k - 1] : k \in DOMAIN queue'}
        = {[queue[k] EXCEPT !.number = outgoingSequence + k - 1] : k \in DOMAIN queue}
            \cup {[m EXCEPT !.number = outgoingSequence + Len(queue)]}
  <2> DEFINE S == {[queue[k] EXCEPT !.number = outgoingSequence + k - 1] : k \in DOMAIN queue}
  <2> DEFINE T == {[queue'[k] EXCEPT !.number = outgoingSequence + k - 1] : k \in DOMAIN queue'}
  <2>1. ASSUME NEW x \in T
        PROVE  x \in S \cup {[m EXCEPT !.number = outgoingSequence + Len(queue)]}
    <3>1. PICK k \in DOMAIN queue' : x = [queue'[k] EXCEPT !.number = outgoingSequence + k - 1]
      OBVIOUS
    <3>2. CASE k \in 1 .. Len(queue)
      BY <1>2, <3>1, <3>2
    <3>3. CASE k = Len(queue) + 1
      BY <1>2, <1>3, <3>1, <3>3
    <3>. QED
      BY <1>1, <1>2, <3>2, <3>3
  <2>2. \A k \in DOMAIN queue : [queue[k] EXCEPT !.number = outgoingSequence + k - 1] \in T
    BY <1>1, <1>2
  <2>3. [m EXCEPT !.number = outgoingSequence + Len(queue)] \in T
    <3>1. Len(queue) + 1 \in DOMAIN queue'
      BY <1>1, <1>2
    <3>. QED
      BY <1>2, <1>3, <3>1
  <2>. QED
    BY <2>1, <2>2, <2>3
<1>. QED
  BY <1>2, <1>4 DEF OnWay

\* When a message leaves the queue it keeps the number that it was to get.
LEMMA OnWayTransmit ==
    ASSUME Types, Ordered, queue # <<>>,
           toClient' = Append(toClient, [Head(queue) EXCEPT !.number = outgoingSequence]),
           queue' = Tail(queue), outgoingSequence' = outgoingSequence + 1
    PROVE  /\ OnWay' = OnWay
           /\ queue' \in Seq(ServerMessage) /\ Len(queue') = Len(queue) - 1
           /\ \A k \in DOMAIN queue' : k + 1 \in DOMAIN queue /\ queue'[k] = queue[k+1]
           /\ toClient' \in Seq(ServerMessage) /\ Len(toClient') = Len(toClient) + 1
           /\ \A i \in DOMAIN toClient : toClient'[i] = toClient[i]
           /\ toClient'[Len(toClient) + 1].number = outgoingSequence
<1>1. /\ queue \in Seq(ServerMessage) /\ Len(queue) \in Nat /\ outgoingSequence \in Nat
      /\ toClient \in Seq(ServerMessage) /\ Len(toClient) \in Nat
  BY Bounds, Sequences
<1>2. /\ 1 \in DOMAIN queue /\ Head(queue) = queue[1] /\ queue[1] \in ServerMessage
      /\ DOMAIN queue = 1 .. Len(queue)
      /\ queue' \in Seq(ServerMessage) /\ Len(queue') = Len(queue) - 1
      /\ DOMAIN queue' = 1 .. Len(queue) - 1
      /\ \A k \in 1 .. Len(queue) - 1 : queue'[k] = queue[k+1]
  BY <1>1
<1>3. PICK m \in ServerMessage : /\ m = [queue[1] EXCEPT !.number = outgoingSequence]
                                 /\ m.number = outgoingSequence
  <2>1. queue[1] \in ServerMessage /\ outgoingSequence \in Nat
    BY <1>1, <1>2
  <2>2. /\ [queue[1] EXCEPT !.number = outgoingSequence] \in ServerMessage
        /\ [queue[1] EXCEPT !.number = outgoingSequence].number = outgoingSequence
    BY <2>1, Numbered
  <2>. QED
    BY <2>2
<1>4. /\ toClient' = Append(toClient, m)
      /\ toClient' \in Seq(ServerMessage) /\ Len(toClient') = Len(toClient) + 1
      /\ DOMAIN toClient = 1 .. Len(toClient) /\ DOMAIN toClient' = 1 .. Len(toClient) + 1
      /\ \A i \in 1 .. Len(toClient) : toClient'[i] = toClient[i]
      /\ toClient'[Len(toClient) + 1] = m
  BY <1>1, <1>2, <1>3
<1> DEFINE S == {[queue[k] EXCEPT !.number = outgoingSequence + k - 1] : k \in DOMAIN queue}
<1> DEFINE T == {[queue'[k] EXCEPT !.number = outgoingSequence' + k - 1] : k \in DOMAIN queue'}
<1>5. S = T \cup {m}
  <2>1. ASSUME NEW k \in 1 .. Len(queue) - 1
        PROVE  /\ k + 1 \in DOMAIN queue
               /\ [queue'[k] EXCEPT !.number = outgoingSequence' + k - 1]
                    = [queue[k+1] EXCEPT !.number = outgoingSequence + (k + 1) - 1]
    <3>1. outgoingSequence' + k - 1 = outgoingSequence + (k + 1) - 1 /\ k + 1 \in 1 .. Len(queue)
      BY <1>1
    <3>. QED
      BY <1>2, <3>1
  <2>2. \A x \in T : x \in S
    <3>. SUFFICES ASSUME NEW k \in DOMAIN queue'
                  PROVE  [queue'[k] EXCEPT !.number = outgoingSequence' + k - 1] \in S
      OBVIOUS
    <3>1. k \in 1 .. Len(queue) - 1
      BY <1>2
    <3>. QED
      BY <2>1, <3>1
  <2>3. m \in S
    <3>1. outgoingSequence + 1 - 1 = outgoingSequence
      BY <1>1
    <3>. QED
      BY <1>2, <1>3, <3>1
  <2>4. ASSUME NEW x \in S PROVE x \in T \cup {m}
    <3>1. PICK k \in DOMAIN queue : x = [queue[k] EXCEPT !.number = outgoingSequence + k - 1]
      OBVIOUS
    <3>2. CASE k = 1
      <4>1. outgoingSequence + 1 - 1 = outgoingSequence
        BY <1>1
      <4>. QED
        BY <1>3, <3>1, <3>2, <4>1
    <3>3. CASE k # 1
      <4>1. k - 1 \in 1 .. Len(queue) - 1 /\ (k - 1) + 1 = k
        BY <1>1, <1>2, <3>3
      <4>. QED
        BY <1>2, <2>1, <3>1, <4>1
    <3>. QED
      BY <3>2, <3>3
  <2>. QED
    BY <2>2, <2>3, <2>4
<1>6. {toClient'[i] : i \in DOMAIN toClient'} = {toClient[i] : i \in DOMAIN toClient} \cup {m}
  <2>1. \A i \in DOMAIN toClient' : i \in DOMAIN toClient \/ i = Len(toClient) + 1
    BY <1>1, <1>4
  <2>2. DOMAIN toClient \subseteq DOMAIN toClient' /\ Len(toClient) + 1 \in DOMAIN toClient'
    BY <1>1, <1>4
  <2>. QED
    BY <1>4, <2>1, <2>2
<1>7. \A k \in DOMAIN queue' : k + 1 \in DOMAIN queue /\ queue'[k] = queue[k+1]
  BY <1>1, <1>2
<1> HIDE DEF S, T
<1>8. OnWay = {toClient[i] : i \in DOMAIN toClient} \cup S
  BY DEF OnWay, S
<1>9. OnWay' = {toClient'[i] : i \in DOMAIN toClient'} \cup T
  BY DEF OnWay, T
<1>. QED
  BY <1>2, <1>3, <1>4, <1>5, <1>6, <1>7, <1>8, <1>9

\* When the client gets a message, those before it are lost.
LEMMA OnWayReceive ==
    ASSUME Types, Ordered, NEW i \in DOMAIN toClient,
           toClient' = SubSeq(toClient, i + 1, Len(toClient)),
           queue' = queue, outgoingSequence' = outgoingSequence
    PROVE  /\ toClient[i] \in OnWay
           /\ OnWay' \subseteq {m \in OnWay : m.number > toClient[i].number}
           /\ toClient' \in Seq(ServerMessage)
           /\ \A j \in DOMAIN toClient' : j + i \in DOMAIN toClient /\ toClient'[j] = toClient[j + i]
<1>1. /\ queue \in Seq(ServerMessage) /\ Len(queue) \in Nat /\ outgoingSequence \in Nat
      /\ toClient \in Seq(ServerMessage) /\ Len(toClient) \in Nat
      /\ DOMAIN toClient = 1 .. Len(toClient) /\ i \in Nat
  BY Bounds, Sequences
<1>2. /\ toClient' \in Seq(ServerMessage)
      /\ \A j \in DOMAIN toClient' : j + i \in DOMAIN toClient /\ toClient'[j] = toClient[j + i]
  <2>1. \A j \in i + 1 .. Len(toClient) : toClient[j] \in ServerMessage
    BY <1>1
  <2>2. /\ toClient' \in Seq(ServerMessage)
        /\ Len(toClient') = IF i + 1 <= Len(toClient) THEN Len(toClient) - (i + 1) + 1 ELSE 0
        /\ \A j \in 1 .. Len(toClient) - (i + 1) + 1 : toClient'[j] = toClient[(i + 1) + j - 1]
    <3>1. i + 1 \in Int /\ Len(toClient) \in Int
      BY <1>1
    <3>. QED
      BY <2>1, <3>1, SubSeqProperties
  <2>3. DOMAIN toClient' = 1 .. Len(toClient')
    BY <2>2
  <2>4. ASSUME NEW j \in DOMAIN toClient'
        PROVE  j + i \in DOMAIN toClient /\ toClient'[j] = toClient[j + i]
    <3>1. /\ j \in 1 .. Len(toClient) - (i + 1) + 1 /\ (i + 1) + j - 1 = j + i
          /\ j + i \in 1 .. Len(toClient)
      BY <1>1, <2>2, <2>3
    <3>. QED
      BY <1>1, <2>2, <3>1
  <2>. QED
    BY <2>2, <2>4
<1>3. toClient[i] \in OnWay
  BY DEF OnWay
<1>4. toClient[i].number \in Nat /\ toClient[i].number < outgoingSequence
  <2>1. toClient[i] \in ServerMessage
    BY <1>1
  <2>. QED
    BY <2>1 DEF ServerMessage, Ordered
<1>5. ASSUME NEW m \in OnWay' PROVE m \in OnWay /\ m.number > toClient[i].number
  <2>1. ASSUME NEW j \in DOMAIN toClient', m = toClient'[j]
        PROVE  m \in OnWay /\ m.number > toClient[i].number
    <3>1. j + i \in DOMAIN toClient /\ m = toClient[j + i] /\ i < j + i
      <4>1. j \in Nat /\ j > 0
        BY <1>2
      <4>. QED
        BY <1>1, <1>2, <2>1, <4>1
    <3>2. toClient[i].number < toClient[j + i].number
      BY <3>1 DEF Ordered
    <3>3. m \in OnWay
      BY <3>1 DEF OnWay
    <3>. QED
      BY <1>4, <3>1, <3>2, <3>3
  <2>2. ASSUME NEW k \in DOMAIN queue, m = [queue[k] EXCEPT !.number = outgoingSequence + k - 1]
        PROVE  m \in OnWay /\ m.number > toClient[i].number
    <3>1. m \in OnWay
      BY <2>2 DEF OnWay
    <3>2. queue[k] \in ServerMessage /\ outgoingSequence + k - 1 \in Nat
          /\ outgoingSequence + k - 1 >= outgoingSequence
      BY <1>1
    <3>3. m.number = outgoingSequence + k - 1
      BY <2>2, <3>2, Numbered
    <3>. QED
      BY <1>1, <1>4, <3>1, <3>2, <3>3
  <2>. QED
    BY <2>1, <2>2 DEF OnWay
<1>. QED
  BY <1>2, <1>3, <1>5

--------------------------------------------------------------------------------
(* The invariant, step by step. *)

\* A message leaves the server.
LEMMA TransmitKeeps ==
    ASSUME SnapshotsInv, SV_Netchan_TransmitNextFragment
    PROVE  SnapshotsInv'
<1>1. Types /\ Ordered /\ Gamestates /\ Maps /\ Ring /\ Deltas
  BY DEF SnapshotsInv
<1>2. /\ queue # <<>> /\ queue' = Tail(queue) /\ outgoingSequence' = outgoingSequence + 1
      /\ toClient' = Append(toClient, [Head(queue) EXCEPT !.number = outgoingSequence])
      /\ serverId' = serverId /\ state' = state /\ gentity' = gentity /\ frames' = frames
      /\ nextSnapshotEntities' = nextSnapshotEntities
      /\ deltaMessage' = deltaMessage /\ gamestateMessageNum' = gamestateMessageNum
      /\ serverMessageSequence' = serverMessageSequence /\ clServerId' = clServerId
      /\ snapshots' = snapshots /\ snap' = snap /\ parseEntitiesNum' = parseEntitiesNum
      /\ dumped' = dumped /\ toServer' = toServer
  BY DEF SV_Netchan_TransmitNextFragment, clientVars
<1>3. /\ OnWay' = OnWay
      /\ queue' \in Seq(ServerMessage) /\ Len(queue') = Len(queue) - 1
      /\ \A k \in DOMAIN queue' : k + 1 \in DOMAIN queue /\ queue'[k] = queue[k+1]
      /\ toClient' \in Seq(ServerMessage) /\ Len(toClient') = Len(toClient) + 1
      /\ \A i \in DOMAIN toClient : toClient'[i] = toClient[i]
      /\ toClient'[Len(toClient) + 1].number = outgoingSequence
  BY <1>1, <1>2, OnWayTransmit
<1>4. Types'
  <2>1. Len(queue) > 0
    BY <1>1, <1>2, Bounds
  <2>2. outgoingSequence' \in 1 .. MaxSequence + 1 /\ outgoingSequence' + Len(queue') <= MaxSequence + 1
    <3>1. outgoingSequence + Len(queue) <= MaxSequence + 1 /\ MaxSequence \in Nat
      BY <1>1, SnapshotsAssumption DEF Types
    <3>2. outgoingSequence \in Nat /\ outgoingSequence > 0 /\ Len(queue) \in Nat
      BY <1>1, Bounds
    <3>3. outgoingSequence' = outgoingSequence + 1 /\ Len(queue') = Len(queue) - 1
      BY <1>2, <1>3
    <3>. QED
      BY <2>1, <3>1, <3>2, <3>3
  <2>3. serverMessageSequence' \in 0 .. outgoingSequence' - 1
    BY <1>1, <1>2, Bounds
  <2>4. SnapshotsTypeOK'
    BY <1>1, <1>2, <2>2, <2>3 DEF Types, SnapshotsTypeOK
  <2>. QED
    BY <1>1, <1>2, <1>3, <2>2, <2>4 DEF Types
<1>5. Ordered'
  <2>1. \A k \in DOMAIN queue' : k > 1 => queue'[k].type = "gamestate"
    <3>1. \A k \in DOMAIN queue' : k > 1 => k + 1 > 1 /\ k + 1 \in DOMAIN queue
      BY <1>3
    <3>. QED
      BY <1>1, <1>3, <3>1 DEF Ordered
  <2>2. DOMAIN toClient' = DOMAIN toClient \cup {Len(toClient) + 1}
    BY <1>1, <1>3, Sequences
  <2>3. ASSUME NEW i \in DOMAIN toClient
        PROVE  /\ toClient'[i].number \in Nat /\ serverMessageSequence < toClient'[i].number
               /\ toClient'[i].number < outgoingSequence
               /\ i # Len(toClient) + 1 /\ i < Len(toClient) + 1
    <3>1. toClient[i] \in ServerMessage /\ i # Len(toClient) + 1 /\ i < Len(toClient) + 1
      BY <1>1, Sequences
    <3>2. serverMessageSequence < toClient[i].number /\ toClient[i].number < outgoingSequence
      BY <1>1 DEF Ordered
    <3>. QED
      BY <1>3, <3>1, <3>2, MessageTypes
  <2>4. \A i \in DOMAIN toClient' : /\ serverMessageSequence < toClient'[i].number
                                    /\ toClient'[i].number < outgoingSequence'
    <3>. TAKE i \in DOMAIN toClient'
    <3>1. CASE i \in DOMAIN toClient
      <4>1. toClient'[i].number < outgoingSequence + 1 /\ serverMessageSequence < toClient'[i].number
        BY <1>1, <2>3, <3>1, Bounds
      <4>. QED
        BY <1>2, <4>1
    <3>2. CASE i = Len(toClient) + 1
      BY <1>1, <1>2, <1>3, <3>2, Bounds
    <3>. QED
      BY <2>2, <3>1, <3>2
  <2>5. \A i, j \in DOMAIN toClient' : i < j => toClient'[i].number < toClient'[j].number
    <3>. SUFFICES ASSUME NEW i \in DOMAIN toClient', NEW j \in DOMAIN toClient', i < j
                  PROVE  toClient'[i].number < toClient'[j].number
      OBVIOUS
    <3>1. CASE j \in DOMAIN toClient
      <4>1. i \in DOMAIN toClient
        BY <1>1, <1>3, <2>2, <3>1, Sequences
      <4>. QED
        BY <1>1, <1>3, <3>1, <4>1 DEF Ordered
    <3>2. CASE j = Len(toClient) + 1
      <4>1. i \in DOMAIN toClient
        BY <1>1, <1>3, <2>2, <3>2, Bounds
      <4>. QED
        BY <1>3, <2>3, <3>2, <4>1
    <3>. QED
      BY <2>2, <3>1, <3>2
  <2>6. \A i \in DOMAIN toServer' : /\ toServer'[i].ack <= serverMessageSequence'
                                    /\ toServer'[i].serverId <= clServerId'
    BY <1>1, <1>2 DEF Ordered
  <2>. QED
    BY <1>2, <2>1, <2>4, <2>5, <2>6 DEF Ordered
<1>6. Gamestates' /\ Maps'
  BY <1>1, <1>2, <1>3 DEF Gamestates, Maps
<1>7. \A n \in Nat : \A truth : Framed(n, truth) => Framed(n, truth)'
  BY <1>1, <1>2, Bounds DEF Framed
<1>8. Ring'
  <2>1. ASSUME NEW s \in 0 .. PACKET_BACKUP - 1 PROVE InRing(s)'
    BY <1>1, <1>2, <1>7, SlotTypes DEF Ring, InRing
  <2>. QED
    BY <1>1, <1>2, <2>1 DEF Ring, Held
<1>9. Deltas'
  <2>1. \A n : Has(n)' = Has(n)
    BY <1>2 DEF Has, Held
  <2>2. ASSUME NEW m \in OnWay, Sound(m) PROVE Sound(m)'
    <3>1. Framed(m.number, m.truth)'
      <4>1. m.number \in Nat
        BY <1>1, OnWayTypes, MessageTypes
      <4>. QED
        BY <1>7, <2>2, <4>1 DEF Sound
    <3>. QED
      BY <1>2, <1>3, <2>1, <2>2, <3>1 DEF Sound
  <2>. QED
    BY <1>1, <1>2, <1>3, <2>1, <2>2 DEF Deltas
<1>. QED
  BY <1>4, <1>5, <1>6, <1>8, <1>9 DEF SnapshotsInv

\* The client acknowledges what it has.
LEMMA WritePacketKeeps ==
    ASSUME SnapshotsInv, CL_WritePacket
    PROVE  SnapshotsInv'
<1>1. Types /\ Ordered /\ Gamestates /\ Maps /\ Ring /\ Deltas
  BY DEF SnapshotsInv
<1> DEFINE p == [serverId |-> clServerId, ack |-> serverMessageSequence,
                 delta |-> snap # 0 /\ serverMessageSequence = snap]
<1>2. /\ toServer' = Append(toServer, p)
      /\ serverId' = serverId /\ state' = state /\ gentity' = gentity /\ frames' = frames
      /\ nextSnapshotEntities' = nextSnapshotEntities /\ outgoingSequence' = outgoingSequence
      /\ deltaMessage' = deltaMessage /\ gamestateMessageNum' = gamestateMessageNum
      /\ queue' = queue /\ toClient' = toClient
      /\ serverMessageSequence' = serverMessageSequence /\ clServerId' = clServerId
      /\ snapshots' = snapshots /\ snap' = snap /\ parseEntitiesNum' = parseEntitiesNum
      /\ dumped' = dumped
  BY DEF CL_WritePacket, clientVars, serverVars
<1>3. p \in Packet /\ p.serverId = clServerId /\ p.ack = serverMessageSequence
      /\ (p.delta <=> snap # 0 /\ serverMessageSequence = snap)
  <2>1. (snap # 0 /\ serverMessageSequence = snap) \in BOOLEAN
    OBVIOUS
  <2>. QED
    BY <1>1, <2>1, Bounds DEF Packet
<1> HIDE DEF p
<1>4. /\ toServer' \in Seq(Packet) /\ DOMAIN toServer' = DOMAIN toServer \cup {Len(toServer) + 1}
      /\ \A i \in DOMAIN toServer : toServer'[i] = toServer[i]
      /\ toServer'[Len(toServer) + 1] = p
  BY <1>1, <1>2, <1>3, Sequences
<1>5. Types'
  BY <1>1, <1>2, <1>4 DEF Types, SnapshotsTypeOK
<1>6. Ordered'
  <2>1. \A i \in DOMAIN toServer' : /\ toServer'[i].ack <= serverMessageSequence
                                    /\ toServer'[i].serverId <= clServerId
    <3>1. p.ack <= serverMessageSequence /\ p.serverId <= clServerId
      BY <1>1, <1>3, Bounds
    <3>. QED
      BY <1>1, <1>4, <3>1 DEF Ordered
  <2>. QED
    BY <1>1, <1>2, <2>1 DEF Ordered
<1>7. OnWay' = OnWay
  BY <1>2 DEF OnWay
<1>8. Gamestates'
  <2>1. clServerId = serverId =>
          \A i \in DOMAIN toServer' :
            toServer'[i].serverId # serverId => toServer'[i].ack <= gamestateMessageNum
    BY <1>1, <1>3, <1>4 DEF Gamestates
  <2>. QED
    BY <1>1, <1>2, <1>7, <2>1 DEF Gamestates
<1>9. Maps'
  BY <1>1, <1>2, <1>7 DEF Maps
<1>10. Ring'
  BY <1>1, <1>2 DEF Ring, InRing, Held, Framed
<1>11. Deltas'
  <2>1. \A n : Has(n)' = Has(n)
    BY <1>2 DEF Has, Held
  <2>2. \A m \in OnWay : Sound(m) => Sound(m)'
    BY <1>2, <1>7 DEF Sound, Framed, Has, Held
  <2>3. p.delta => Has(p.ack)
    BY <1>1, <1>3, Bounds DEF Has, Ring
  <2>4. \A i \in DOMAIN toServer' :
          toServer'[i].serverId = serverId /\ toServer'[i].delta => Has(toServer'[i].ack)
    BY <1>1, <1>4, <2>3 DEF Deltas
  <2>. QED
    BY <1>1, <1>2, <1>7, <2>1, <2>2, <2>4 DEF Deltas
<1>. QED
  BY <1>5, <1>6, <1>8, <1>9, <1>10, <1>11 DEF SnapshotsInv

\* The map changes.
LEMMA SpawnServerKeeps ==
    ASSUME SnapshotsInv, SV_SpawnServer
    PROVE  SnapshotsInv'
<1>1. Types /\ Ordered /\ Gamestates /\ Maps /\ Ring /\ Deltas
  BY DEF SnapshotsInv
<1>2. /\ serverId < MaxServerId /\ serverId' = serverId + 1
      /\ nextSnapshotEntities' = 0 /\ state' = "CS_CONNECTED" /\ gentity' = FALSE
      /\ toServer' = toServer /\ frames' = frames /\ outgoingSequence' = outgoingSequence
      /\ deltaMessage' = deltaMessage /\ gamestateMessageNum' = gamestateMessageNum
      /\ queue' = queue /\ toClient' = toClient
      /\ serverMessageSequence' = serverMessageSequence /\ clServerId' = clServerId
      /\ snapshots' = snapshots /\ snap' = snap /\ parseEntitiesNum' = parseEntitiesNum
      /\ dumped' = dumped
  BY DEF SV_SpawnServer, clientVars
<1>3. OnWay' = OnWay
  BY <1>2 DEF OnWay
<1>4. /\ serverId \in Nat /\ serverId' \in Nat /\ serverId' \in 1 .. MaxServerId
      /\ clServerId \in 0 .. serverId' /\ clServerId # serverId' /\ clServerId < serverId'
      /\ \A n \in Nat : n <= serverId => n <= serverId'
  <2>1. serverId \in 1 .. MaxServerId /\ MaxServerId \in Nat /\ clServerId \in 0 .. serverId
    BY <1>1, SnapshotsAssumption DEF Types, SnapshotsTypeOK
  <2>. QED
    BY <1>2, <2>1
<1>5. Types'
  BY <1>1, <1>2, <1>4 DEF Types, SnapshotsTypeOK
<1>6. Ordered'
  BY <1>1, <1>2 DEF Ordered
<1>7. Gamestates'
  <2>1. \A m \in OnWay : m.serverId \in Nat
    BY <1>1, OnWayTypes, MessageTypes
  <2>2. \A m \in OnWay : m.type = "gamestate" => m.serverId <= serverId'
    BY <1>1, <1>4, <2>1 DEF Gamestates
  <2>. QED
    BY <1>1, <1>2, <1>3, <1>4, <2>2 DEF Gamestates
<1>8. Maps'
  <2>1. \A m \in OnWay : m.truth.map <= serverId'
    BY <1>1, <1>4, OnWayTypes, MessageTypes DEF Maps
  <2>. QED
    BY <1>1, <1>2, <1>3, <2>1 DEF Maps
<1>9. Ring'
  <2>1. ASSUME NEW s \in 0 .. PACKET_BACKUP - 1, snapshots[s].valid
        PROVE  snapshots[s].truth.map <= serverId'
    BY <1>1, <1>4, <2>1, SlotTypes DEF Ring, InRing
  <2>. QED
    BY <1>1, <1>2, <2>1 DEF Ring, InRing, Held, Framed
<1>10. Deltas'
  <2>1. \A n : Has(n)' = Has(n)
    BY <1>2 DEF Has, Held
  <2>2. \A m \in OnWay : Sound(m) => Sound(m)'
    BY <1>2, <1>3 DEF Sound, Framed, Has, Held
  <2>3. \A i \in DOMAIN toServer : toServer[i].serverId # serverId'
    <3>. TAKE i \in DOMAIN toServer
    <3>1. toServer[i].serverId <= clServerId /\ toServer[i].serverId \in Nat
      BY <1>1, PacketTypes DEF Ordered
    <3>. QED
      BY <1>1, <1>4, <3>1, Bounds
  <2>. QED
    BY <1>1, <1>2, <1>3, <2>1, <2>2, <2>3 DEF Deltas
<1>. QED
  BY <1>5, <1>6, <1>7, <1>8, <1>9, <1>10 DEF SnapshotsInv

\* A packet arrives; those before it are lost.
LEMMA PacketReceived ==
    ASSUME Types, NEW i \in DOMAIN toServer, toServer' = SubSeq(toServer, i + 1, Len(toServer))
    PROVE  /\ toServer' \in Seq(Packet)
           /\ \A j \in DOMAIN toServer' : j + i \in DOMAIN toServer /\ toServer'[j] = toServer[j + i]
<1>1. /\ toServer \in Seq(Packet) /\ Len(toServer) \in Nat
      /\ DOMAIN toServer = 1 .. Len(toServer) /\ i \in Nat
  BY Sequences
<1>2. \A j \in i + 1 .. Len(toServer) : toServer[j] \in Packet
  BY <1>1
<1>3. /\ toServer' \in Seq(Packet)
      /\ Len(toServer') = IF i + 1 <= Len(toServer) THEN Len(toServer) - (i + 1) + 1 ELSE 0
      /\ \A j \in 1 .. Len(toServer) - (i + 1) + 1 : toServer'[j] = toServer[(i + 1) + j - 1]
  <2>1. i + 1 \in Int /\ Len(toServer) \in Int
    BY <1>1
  <2>. QED
    BY <1>2, <2>1, SubSeqProperties
<1>4. DOMAIN toServer' = 1 .. Len(toServer')
  BY <1>3
<1>5. ASSUME NEW j \in DOMAIN toServer'
      PROVE  j + i \in DOMAIN toServer /\ toServer'[j] = toServer[j + i]
  <2>1. /\ j \in 1 .. Len(toServer) - (i + 1) + 1 /\ (i + 1) + j - 1 = j + i
        /\ j + i \in 1 .. Len(toServer)
    BY <1>1, <1>3, <1>4
  <2>. QED
    BY <1>1, <1>3, <2>1
<1>. QED
  BY <1>3, <1>5

\* A packet of another map that shows that the gamestate was lost makes another one follow.
LEMMA ResendKeeps ==
    ASSUME SnapshotsInv, NEW i \in DOMAIN toServer,
           toServer' = SubSeq(toServer, i + 1, Len(toServer)),
           toServer[i].serverId # serverId,
           toServer[i].ack > gamestateMessageNum,
           SV_SendClientGameState,
           UNCHANGED <<serverId, nextSnapshotEntities, outgoingSequence, frames, clientVars, toClient>>
    PROVE  SnapshotsInv'
<1>1. Types /\ Ordered /\ Gamestates /\ Maps /\ Ring /\ Deltas
  BY DEF SnapshotsInv
<1> DEFINE g == [type |-> "gamestate", number |-> 0, serverId |-> serverId, lastframe |-> 0,
                 changes |-> <<>>, truth |-> [map |-> serverId, world |-> None]]
<1> DEFINE number == outgoingSequence + Len(queue)
<1> DEFINE sent == [g EXCEPT !.number = number]
<1>2. /\ outgoingSequence + Len(queue) <= MaxSequence
      /\ state' = "CS_PRIMED" /\ gamestateMessageNum' = outgoingSequence
      /\ queue' = Append(queue, g)
      /\ gentity' = gentity /\ deltaMessage' = deltaMessage
  BY DEF SV_SendClientGameState
<1>3. /\ serverId' = serverId /\ nextSnapshotEntities' = nextSnapshotEntities
      /\ frames' = frames /\ outgoingSequence' = outgoingSequence /\ toClient' = toClient
      /\ serverMessageSequence' = serverMessageSequence /\ clServerId' = clServerId
      /\ snapshots' = snapshots /\ snap' = snap /\ parseEntitiesNum' = parseEntitiesNum
      /\ dumped' = dumped
  BY DEF clientVars
<1>4. g \in ServerMessage
  <2>1. <<>> \in Changes
    <3>1. <<>> \in [{} -> Change]
      OBVIOUS
    <3>. QED
      BY <3>1 DEF Changes
  <2>2. None \in [Entities -> Nat]
    BY DEF None
  <2>. QED
    BY <1>1, <2>1, <2>2, Bounds DEF ServerMessage, Truth
<1>5. /\ sent \in ServerMessage /\ sent.number = number /\ sent.type = "gamestate"
      /\ sent.serverId = serverId /\ sent.truth = [map |-> serverId, world |-> None]
  <2>1. number \in Nat
    BY <1>1, Bounds
  <2>. QED
    BY <1>4, <2>1, Numbered
<1>6. /\ OnWay' = OnWay \cup {sent}
      /\ queue' \in Seq(ServerMessage) /\ Len(queue') = Len(queue) + 1
  BY <1>1, <1>2, <1>3, <1>4, OnWaySend
<1>7. /\ toServer' \in Seq(Packet)
      /\ \A j \in DOMAIN toServer' : j + i \in DOMAIN toServer /\ toServer'[j] = toServer[j + i]
  BY <1>1, PacketReceived
<1>8. clServerId # serverId
  <2>1. toServer[i].ack > gamestateMessageNum => ~(toServer[i].ack <= gamestateMessageNum)
    BY <1>1, Bounds, PacketTypes
  <2>. QED
    BY <1>1, <2>1 DEF Gamestates
<1>9. \A m \in OnWay : m.type = "snapshot" /\ m.number \in Nat /\ m.number < number
  <2>1. toServer[i].ack <= serverMessageSequence /\ toServer[i].ack \in Nat
    BY <1>1, PacketTypes DEF Ordered
  <2>2. ASSUME NEW m \in OnWay
        PROVE  m.type = "snapshot" /\ m.number \in Nat /\ m.number < number
    <3>1. m \in ServerMessage /\ serverMessageSequence < m.number /\ m.number < number
      BY <1>1, OnWayTypes
    <3>2. m.number \in Nat /\ m.type \in {"gamestate", "snapshot"}
      BY <3>1, MessageTypes
    <3>3. m.type = "gamestate" => m.number <= gamestateMessageNum + 1
      BY <1>1 DEF Gamestates
    <3>. HIDE DEF number
    <3>4. ~(m.number <= gamestateMessageNum + 1)
      <4>1. /\ serverMessageSequence \in Nat /\ gamestateMessageNum \in Int
            /\ serverMessageSequence < m.number
        BY <1>1, <3>1, Bounds
      <4>2. toServer[i].ack > gamestateMessageNum
        OBVIOUS
      <4>3. serverMessageSequence > gamestateMessageNum
        BY <2>1, <4>1, <4>2
      <4>. QED
        BY <3>2, <4>1, <4>3
    <3>. QED
      BY <3>1, <3>2, <3>3, <3>4
  <2>. QED
    BY <2>2
<1>10. number \in Nat /\ outgoingSequence <= number /\ number <= outgoingSequence + 1
  <2>1. \A k \in DOMAIN queue : k <= 1
    <3>. SUFFICES ASSUME NEW k \in DOMAIN queue, k > 1
                  PROVE  FALSE
      BY <1>1, Sequences
    <3>1. queue[k].type = "gamestate" /\ queue[k] \in ServerMessage
      BY <1>1, Sequences DEF Ordered
    <3>2. [queue[k] EXCEPT !.number = outgoingSequence + k - 1] \in OnWay
      BY DEF OnWay
    <3>3. outgoingSequence + k - 1 \in Nat
      <4>1. outgoingSequence \in Nat /\ k \in Nat /\ k > 0
        <5>1. k \in Nat /\ k > 0
          BY <1>1, Sequences
        <5>. QED
          BY <1>1, <5>1, Bounds
      <4>. QED
        BY <4>1
    <3>4. [queue[k] EXCEPT !.number = outgoingSequence + k - 1].type = "gamestate"
      BY <3>1, <3>3, Numbered
    <3>. QED
      BY <1>9, <3>2, <3>4
  <2>2. Len(queue) \in Nat /\ DOMAIN queue = 1 .. Len(queue) /\ outgoingSequence \in Nat
    BY <1>1, Bounds
  <2>3. Len(queue) <= 1
    BY <2>1, <2>2
  <2>. QED
    BY <2>2, <2>3
<1> HIDE DEF g, number, sent
<1>11. Types'
  <2>1. outgoingSequence' + Len(queue') <= MaxSequence + 1
    <3>1. outgoingSequence \in Nat /\ Len(queue) \in Nat /\ MaxSequence \in Nat
      BY <1>1, Bounds, SnapshotsAssumption
    <3>. QED
      BY <1>2, <1>3, <1>6, <3>1
  <2>2. outgoingSequence \in Nat
    BY <1>1, Bounds
  <2>. QED
    BY <1>1, <1>2, <1>3, <1>6, <1>7, <2>1, <2>2 DEF Types, SnapshotsTypeOK
<1>12. Ordered'
  <2>1. \A k \in DOMAIN queue' : k > 1 => queue'[k].type = "gamestate"
    <3>1. /\ DOMAIN queue' = DOMAIN queue \cup {Len(queue) + 1}
          /\ \A k \in DOMAIN queue : queue'[k] = queue[k]
          /\ queue'[Len(queue) + 1] = g
      BY <1>1, <1>2, <1>4, Sequences
    <3>2. g.type = "gamestate"
      BY DEF g
    <3>. QED
      BY <1>1, <3>1, <3>2 DEF Ordered
  <2>. QED
    BY <1>1, <1>3, <1>7, <2>1 DEF Ordered
<1>13. Gamestates'
  <2>1. ASSUME NEW m \in OnWay', m.type = "gamestate"
        PROVE  m = sent
    BY <1>6, <1>9, <2>1
  <2>2. outgoingSequence <= sent.number /\ sent.number <= outgoingSequence + 1
    BY <1>5, <1>10
  <2>3. sent.serverId <= serverId /\ sent.truth.map = sent.serverId
    BY <1>1, <1>5, Bounds
  <2>. QED
    BY <1>2, <1>3, <1>8, <2>1, <2>2, <2>3 DEF Gamestates
<1>14. Maps'
  <2>1. /\ clServerId <= sent.truth.map /\ sent.truth.map <= serverId
        /\ Count(sent.truth.world) <= MAX_SNAPSHOT_ENTITIES
    BY <1>1, <1>5, Bounds, CountNone
  <2>2. \A m \in OnWay' : ~(sent.number < m.number)
    <3>1. \A m \in OnWay : ~(number < m.number)
      BY <1>9, <1>10
    <3>. QED
      BY <1>5, <1>6, <1>10, <3>1
  <2>3. ASSUME NEW m \in OnWay'
        PROVE  /\ clServerId <= m.truth.map /\ m.truth.map <= serverId
               /\ Count(m.truth.world) <= MAX_SNAPSHOT_ENTITIES
               /\ \A x \in OnWay' :
                    x.type = "gamestate" /\ x.number < m.number => x.serverId <= m.truth.map
    <3>1. \A x \in OnWay' : ~(x.type = "gamestate" /\ x.number < m.number)
      BY <1>6, <1>9, <2>2
    <3>. QED
      BY <1>1, <1>6, <2>1, <3>1 DEF Maps
  <2>. QED
    BY <1>3, <2>3 DEF Maps
<1>15. Ring'
  BY <1>1, <1>3 DEF Ring, InRing, Held, Framed
<1>16. Deltas'
  <2>1. \A n : Has(n)' = Has(n)
    BY <1>3 DEF Has, Held
  <2>2. ASSUME NEW m \in OnWay, Sound(m) PROVE Sound(m)'
    <3>1. \A x \in OnWay' : x.type = "gamestate" => x.number > m.number
      BY <1>5, <1>6, <1>9, <1>10
    <3>. QED
      BY <1>3, <2>1, <2>2, <3>1 DEF Sound, Framed
  <2>3. \A m \in OnWay' : m.type = "snapshot" => m \in OnWay
    BY <1>5, <1>6
  <2>4. \A j \in DOMAIN toServer' :
          toServer'[j].serverId = serverId /\ toServer'[j].delta => Has(toServer'[j].ack)
    BY <1>1, <1>7 DEF Deltas
  <2>. QED
    BY <1>1, <1>2, <1>3, <2>1, <2>2, <2>3, <2>4 DEF Deltas
<1>. QED
  BY <1>11, <1>12, <1>13, <1>14, <1>15, <1>16 DEF SnapshotsInv

\* What a packet does besides: nothing, or it moves the client.
LEMMA MoveKeeps ==
    ASSUME SnapshotsInv, NEW i \in DOMAIN toServer,
           toServer' = SubSeq(toServer, i + 1, Len(toServer)),
           \/ UNCHANGED <<state, gentity, deltaMessage, gamestateMessageNum, queue>>
           \/ toServer[i].serverId = serverId /\ SV_UserMove(toServer[i]),
           UNCHANGED <<serverId, nextSnapshotEntities, outgoingSequence, frames, clientVars, toClient>>
    PROVE  SnapshotsInv'
<1>1. Types /\ Ordered /\ Gamestates /\ Maps /\ Ring /\ Deltas
  BY DEF SnapshotsInv
<1>2. /\ serverId' = serverId /\ nextSnapshotEntities' = nextSnapshotEntities
      /\ frames' = frames /\ outgoingSequence' = outgoingSequence /\ toClient' = toClient
      /\ serverMessageSequence' = serverMessageSequence /\ clServerId' = clServerId
      /\ snapshots' = snapshots /\ snap' = snap /\ parseEntitiesNum' = parseEntitiesNum
      /\ dumped' = dumped /\ queue' = queue /\ gamestateMessageNum' = gamestateMessageNum
  BY DEF clientVars, SV_UserMove
<1>3. /\ toServer' \in Seq(Packet)
      /\ \A j \in DOMAIN toServer' : j + i \in DOMAIN toServer /\ toServer'[j] = toServer[j + i]
  BY <1>1, PacketReceived
<1>4. toServer[i].serverId = serverId => clServerId = serverId
  <2>1. toServer[i].serverId <= clServerId
    BY <1>1 DEF Ordered
  <2>. QED
    BY <1>1, <2>1, Bounds
<1>5. /\ state' \in {"CS_CONNECTED", "CS_PRIMED", "CS_ACTIVE"} /\ gentity' \in BOOLEAN
      /\ state' = "CS_ACTIVE" => gentity'
      /\ deltaMessage' \in Nat \cup {-1}
      /\ state' = "CS_ACTIVE" => clServerId = serverId
      /\ state' = "CS_ACTIVE" /\ deltaMessage' > 0 => Has(deltaMessage')
  <2>1. /\ state \in {"CS_CONNECTED", "CS_PRIMED", "CS_ACTIVE"} /\ gentity \in BOOLEAN
        /\ state = "CS_ACTIVE" => gentity
        /\ deltaMessage \in Nat \cup {-1}
        /\ state = "CS_ACTIVE" => clServerId = serverId
        /\ state = "CS_ACTIVE" /\ deltaMessage > 0 => Has(deltaMessage)
    BY <1>1 DEF Types, SnapshotsTypeOK, Gamestates, Deltas
  <2>2. CASE UNCHANGED <<state, gentity, deltaMessage, gamestateMessageNum, queue>>
    BY <2>1, <2>2
  <2>3. CASE toServer[i].serverId = serverId /\ SV_UserMove(toServer[i])
    <3>1. /\ state' = (IF state = "CS_PRIMED" THEN "CS_ACTIVE" ELSE state)
          /\ gentity' = (gentity \/ state = "CS_PRIMED")
          /\ deltaMessage' = (IF toServer[i].delta /\ state = "CS_ACTIVE" THEN toServer[i].ack ELSE -1)
      BY <2>3 DEF SV_UserMove, Enter
    <3>2. toServer[i].ack \in Nat /\ (toServer[i].delta => Has(toServer[i].ack))
      BY <1>1, <2>3, PacketTypes DEF Deltas
    <3>3. (deltaMessage' = toServer[i].ack /\ Has(toServer[i].ack)) \/ deltaMessage' = -1
      BY <3>1, <3>2
    <3>4. deltaMessage' \in Nat \cup {-1} /\ (deltaMessage' > 0 => Has(deltaMessage'))
      BY <3>2, <3>3
    <3>5. state' \in {"CS_CONNECTED", "CS_PRIMED", "CS_ACTIVE"} /\ gentity' \in BOOLEAN
          /\ (state' = "CS_ACTIVE" => gentity')
      BY <2>1, <3>1, Zenon
    <3>. QED
      BY <1>4, <2>3, <3>4, <3>5
  <2>. QED
    BY <2>2, <2>3
<1>6. OnWay' = OnWay
  BY <1>2 DEF OnWay
<1>7. Types'
  BY <1>1, <1>2, <1>3, <1>5 DEF Types, SnapshotsTypeOK
<1>8. Ordered'
  BY <1>1, <1>2, <1>3 DEF Ordered
<1>9. Gamestates'
  BY <1>1, <1>2, <1>3, <1>5, <1>6 DEF Gamestates
<1>10. Maps' /\ Ring'
  BY <1>1, <1>2, <1>6 DEF Maps, Ring, InRing, Held, Framed
<1>11. Deltas'
  <2>1. \A n : Has(n)' = Has(n)
    BY <1>2 DEF Has, Held
  <2>2. \A m \in OnWay : Sound(m) => Sound(m)'
    BY <1>2, <1>6 DEF Sound, Framed, Has, Held
  <2>3. \A j \in DOMAIN toServer' :
          toServer'[j].serverId = serverId /\ toServer'[j].delta => Has(toServer'[j].ack)
    BY <1>1, <1>3 DEF Deltas
  <2>4. state' = "CS_ACTIVE" /\ deltaMessage' > 0 => Has(deltaMessage)'
    BY <1>2, <1>5 DEF Has, Held
  <2>. QED
    BY <1>1, <1>2, <1>6, <2>1, <2>2, <2>3, <2>4 DEF Deltas
<1>. QED
  BY <1>7, <1>8, <1>9, <1>10, <1>11 DEF SnapshotsInv

\* A packet of the client arrives.
LEMMA ExecuteKeeps ==
    ASSUME SnapshotsInv, SV_ExecuteClientMessage
    PROVE  SnapshotsInv'
<1>1. UNCHANGED <<serverId, nextSnapshotEntities, outgoingSequence, frames, clientVars, toClient>>
  BY DEF SV_ExecuteClientMessage
<1>2. PICK i \in DOMAIN toServer :
        /\ toServer' = SubSeq(toServer, i + 1, Len(toServer))
        /\ \/ /\ toServer[i].serverId # serverId
              /\ toServer[i].ack > gamestateMessageNum
              /\ SV_SendClientGameState
           \/ UNCHANGED <<state, gentity, deltaMessage, gamestateMessageNum, queue>>
           \/ toServer[i].serverId = serverId /\ SV_UserMove(toServer[i])
  BY DEF SV_ExecuteClientMessage
<1>. QED
  BY <1>1, <1>2, ResendKeeps, MoveKeeps

\* A snapshot is built and put into the queue.
LEMMA SendKeeps ==
    ASSUME SnapshotsInv, SV_SendClientSnapshot
    PROVE  SnapshotsInv'
<1>1. Types /\ Ordered /\ Gamestates /\ Maps /\ Ring /\ Deltas
  BY DEF SnapshotsInv
<1> DEFINE slot == Masked(outgoingSequence)
<1> DEFINE first == nextSnapshotEntities + OtherEntities[outgoingSequence]
<1> DEFINE m == SV_WriteSnapshotToClient
<1>2. /\ queue = <<>> /\ queue' = Append(queue, m)
      /\ outgoingSequence + Len(queue) <= MaxSequence
      /\ nextSnapshotEntities' = first + Count(Seen)
      /\ frames' = [frames EXCEPT ![slot] =
                       IF gentity THEN [map |-> serverId, first |-> first, world |-> Seen]
                       ELSE [@ EXCEPT !.world = Seen]]
      /\ serverId' = serverId /\ state' = state /\ gentity' = gentity
      /\ outgoingSequence' = outgoingSequence /\ toClient' = toClient /\ toServer' = toServer
      /\ deltaMessage' = deltaMessage /\ gamestateMessageNum' = gamestateMessageNum
      /\ serverMessageSequence' = serverMessageSequence /\ clServerId' = clServerId
      /\ snapshots' = snapshots /\ snap' = snap /\ parseEntitiesNum' = parseEntitiesNum
      /\ dumped' = dumped
  BY DEF SV_SendClientSnapshot, MaySend, SV_BuildClientSnapshot, clientVars
<1>3. outgoingSequence \in 1 .. MaxSequence /\ Len(queue) = 0
  <2>1. Len(queue) = 0
    BY <1>2
  <2>. QED
    BY <1>1, <1>2, <2>1, Bounds, SnapshotsAssumption
<1>4. /\ Seen \in [Entities -> Nat] /\ Count(Seen) \in Nat /\ Count(Seen) <= MAX_SNAPSHOT_ENTITIES
      /\ Seen # None => gentity
  <2>1. /\ Worlds[outgoingSequence] \in [Entities -> Nat]
        /\ Count(Worlds[outgoingSequence]) <= MAX_SNAPSHOT_ENTITIES
    BY <1>3, SnapshotsAssumption
  <2>2. None \in [Entities -> Nat] /\ Count(None) <= MAX_SNAPSHOT_ENTITIES
    BY <1>1, Bounds, CountNone DEF None
  <2>. QED
    BY <2>1, <2>2, CountNat DEF Seen
<1>5. first \in Nat /\ nextSnapshotEntities' \in Nat
  <2>1. OtherEntities[outgoingSequence] \in Nat
    BY <1>3, SnapshotsAssumption
  <2>2. nextSnapshotEntities \in Nat /\ Count(Seen) \in Nat
    BY <1>1, <1>4, Bounds
  <2>3. first \in Nat
    BY <2>1, <2>2
  <2>. QED
    BY <1>2, <2>2, <2>3
<1>6. slot \in 0 .. PACKET_BACKUP - 1
  BY <1>1, Bounds, MaskedRange
<1> HIDE DEF first, slot
<1>7. /\ frames' \in [0 .. PACKET_BACKUP - 1 -> [map : Nat, first : Nat, world : [Entities -> Nat]]]
      /\ \A s \in 0 .. PACKET_BACKUP - 1 : s # slot => frames'[s] = frames[s]
      /\ frames'[slot].world = Seen
      /\ Seen # None => frames'[slot].map = serverId
  <2>1. frames \in [0 .. PACKET_BACKUP - 1 -> [map : Nat, first : Nat, world : [Entities -> Nat]]]
    BY <1>1 DEF Types, SnapshotsTypeOK
  <2>2. PICK new \in [map : Nat, first : Nat, world : [Entities -> Nat]] :
          /\ new = IF gentity THEN [map |-> serverId, first |-> first, world |-> Seen]
                   ELSE [frames[slot] EXCEPT !.world = Seen]
          /\ new.world = Seen
          /\ gentity => new.map = serverId
    <3>1. CASE gentity
      <4>1. /\ [map |-> serverId, first |-> first, world |-> Seen]
                 \in [map : Nat, first : Nat, world : [Entities -> Nat]]
        BY <1>1, <1>4, <1>5, Bounds
      <4>. QED
        BY <3>1, <4>1
    <3>2. CASE ~gentity
      <4>1. frames[slot] \in [map : Nat, first : Nat, world : [Entities -> Nat]]
        BY <1>6, <2>1
      <4>2. /\ [frames[slot] EXCEPT !.world = Seen]
                 \in [map : Nat, first : Nat, world : [Entities -> Nat]]
            /\ [frames[slot] EXCEPT !.world = Seen].world = Seen
        BY <1>4, <4>1
      <4>. QED
        BY <3>2, <4>2
    <3>. QED
      BY <3>1, <3>2
  <2>3. frames' = [frames EXCEPT ![slot] = new]
    BY <1>2, <2>2
  <2>. QED
    BY <1>4, <1>6, <2>1, <2>2, <2>3
<1>8. ASSUME NEW n \in Nat, n < outgoingSequence, outgoingSequence < n + PACKET_BACKUP
      PROVE  Masked(n) \in 0 .. PACKET_BACKUP - 1 /\ frames'[Masked(n)] = frames[Masked(n)]
  <2>1. Masked(n) # slot
    BY <1>1, <1>8, Bounds, MaskedDistinct DEF slot
  <2>2. Masked(n) \in 0 .. PACKET_BACKUP - 1
    BY <1>8, MaskedRange
  <2>. QED
    BY <1>7, <2>1, <2>2
<1>9. ASSUME NEW n \in Nat, NEW truth, n < outgoingSequence, Framed(n, truth)
      PROVE  Framed(n, truth)'
  BY <1>2, <1>8, <1>9 DEF Framed
<1> DEFINE oldframe == frames'[Masked(deltaMessage)]
<1> DEFINE full == \/ deltaMessage <= 0
                   \/ state # "CS_ACTIVE"
                   \/ OutOfDate
                   \/ RolledOff(oldframe.first)
<1> DEFINE from == IF full THEN None ELSE Found(oldframe)
<1> DEFINE lastframe == IF full THEN 0 ELSE outgoingSequence - deltaMessage
<1> DEFINE truth == [map |-> serverId, world |-> Seen]
<1>10. m = [type |-> "snapshot", number |-> 0, serverId |-> 0, lastframe |-> lastframe,
            changes |-> Diff(from, Seen, serverId), truth |-> truth]
  BY DEF SV_WriteSnapshotToClient, SV_EmitPacketEntities, Diff
<1> HIDE DEF m
<1>11. truth \in Truth /\ truth.map = serverId /\ truth.world = Seen
  BY <1>1, <1>4, Bounds DEF Truth
\* A base, if there is one, is a frame of this map that the client has and the ring still holds.
<1> DEFINE r == snapshots[Masked(deltaMessage)]
<1>12. ASSUME ~full
       PROVE  /\ deltaMessage \in Nat /\ deltaMessage > 0 /\ deltaMessage < outgoingSequence
              /\ outgoingSequence < deltaMessage + PACKET_BACKUP - 3
              /\ clServerId = serverId /\ Has(deltaMessage)
              /\ r.truth.map = serverId /\ r.truth.world \in [Entities -> Nat]
              /\ Found(oldframe) = r.truth.world
  <2>1. /\ deltaMessage > 0 /\ state = "CS_ACTIVE" /\ ~OutOfDate /\ ~RolledOff(oldframe.first)
    BY <1>1, <1>12, Bounds
  <2>2. clServerId = serverId /\ Has(deltaMessage)
    BY <1>1, <2>1 DEF Gamestates, Deltas
  <2>3. /\ deltaMessage \in Nat /\ deltaMessage <= snap /\ deltaMessage < outgoingSequence
        /\ outgoingSequence < deltaMessage + PACKET_BACKUP - 3
        /\ outgoingSequence < deltaMessage + PACKET_BACKUP
        /\ snap < deltaMessage + PACKET_BACKUP
    <3>1. deltaMessage \in Nat /\ deltaMessage <= snap
      BY <1>1, <2>1, <2>2, Bounds DEF Has
    <3>2. ~(outgoingSequence - deltaMessage >= PACKET_BACKUP - 3)
      BY <2>1 DEF OutOfDate
    <3>. QED
      BY <1>1, <3>1, <3>2, Bounds
  <2>4. r.valid /\ r.number = deltaMessage /\ Masked(deltaMessage) \in 0 .. PACKET_BACKUP - 1
    BY <2>2, <2>3, MaskedRange DEF Has, Held
  <2>5. InRing(Masked(deltaMessage))
    BY <1>1, <2>4 DEF Ring
  <2>6. /\ clServerId <= r.truth.map /\ r.truth.map <= serverId /\ Framed(deltaMessage, r.truth)
    BY <2>4, <2>5 DEF InRing
  <2>7. r.truth.map \in Nat /\ r.truth.world \in [Entities -> Nat]
    BY <1>1, <2>4, SlotTypes
  <2>8. r.truth.map = serverId
    BY <1>1, <2>2, <2>6, <2>7, Bounds
  <2>9. oldframe = frames[Masked(deltaMessage)]
    BY <1>8, <2>3
  <2>10. oldframe.world = r.truth.world /\ (r.truth.world # None => oldframe.map = serverId)
    BY <2>3, <2>6, <2>8, <2>9 DEF Framed
  <2>11. ~(oldframe.first + NumSnapshotEntities < nextSnapshotEntities')
    <3>1. ~(oldframe.first <= nextSnapshotEntities' - NumSnapshotEntities)
      BY <2>1 DEF RolledOff
    <3>2. oldframe.first \in Nat
      BY <1>7, <2>4
    <3>. QED
      BY <1>5, <3>1, <3>2, SnapshotsAssumption
  <2>12. ASSUME NEW e \in Entities
         PROVE  ~(/\ oldframe.world[e] # 0
                  /\ \/ oldframe.map # serverId
                     \/ oldframe.first + NumSnapshotEntities < nextSnapshotEntities')
    <3>1. oldframe.world[e] # 0 => r.truth.world # None
      BY <2>10 DEF None
    <3>. QED
      BY <2>10, <2>11, <3>1
  <2>13. Found(oldframe) = [e \in Entities |-> oldframe.world[e]]
    BY <2>12 DEF Found
  <2>14. Found(oldframe) = r.truth.world
    BY <2>7, <2>10, <2>13
  <2>. QED
    BY <2>1, <2>2, <2>3, <2>7, <2>8, <2>14
<1>13. from \in [Entities -> Int] /\ lastframe \in Nat /\ (lastframe = 0 <=> full)
  <2>1. CASE full
    BY <2>1 DEF None
  <2>2. CASE ~full
    <3>1. outgoingSequence - deltaMessage \in Nat /\ outgoingSequence - deltaMessage # 0
      BY <1>1, <1>12, <2>2, Bounds
    <3>. HIDE DEF full, oldframe, r
    <3>. QED
      BY <1>12, <2>2, <3>1
  <2>. QED
    BY <2>1, <2>2
<1> HIDE DEF full, from, lastframe, truth
<1>14. m \in ServerMessage
  <2>1. Diff(from, Seen, serverId) \in Changes
    BY <1>1, <1>4, <1>13, Bounds, DiffType
  <2>. QED
    BY <1>10, <1>11, <1>13, <2>1 DEF ServerMessage
<1>15. PICK sent \in ServerMessage :
         /\ sent = [m EXCEPT !.number = outgoingSequence]
         /\ sent.number = outgoingSequence /\ sent.type = "snapshot"
         /\ sent.lastframe = lastframe /\ sent.changes = Diff(from, Seen, serverId)
         /\ sent.truth = truth
  <2>1. outgoingSequence \in Nat
    BY <1>1, Bounds
  <2>2. /\ m.type = "snapshot" /\ m.lastframe = lastframe /\ m.changes = Diff(from, Seen, serverId)
        /\ m.truth = truth
    BY <1>10
  <2>3. /\ [m EXCEPT !.number = outgoingSequence] \in ServerMessage
        /\ [m EXCEPT !.number = outgoingSequence].number = outgoingSequence
        /\ [m EXCEPT !.number = outgoingSequence].type = m.type
        /\ [m EXCEPT !.number = outgoingSequence].lastframe = m.lastframe
        /\ [m EXCEPT !.number = outgoingSequence].changes = m.changes
        /\ [m EXCEPT !.number = outgoingSequence].truth = m.truth
    BY <1>14, <2>1, Numbered
  <2>. QED
    BY <2>2, <2>3
<1>16. /\ OnWay' = OnWay \cup {sent}
       /\ queue' \in Seq(ServerMessage) /\ Len(queue') = 1
  <2>1. outgoingSequence + Len(queue) = outgoingSequence /\ Len(queue) + 1 = 1
    BY <1>1, <1>3, Bounds
  <2>2. /\ OnWay' = OnWay \cup {[m EXCEPT !.number = outgoingSequence + Len(queue)]}
        /\ queue' \in Seq(ServerMessage) /\ Len(queue') = Len(queue) + 1
    BY <1>1, <1>2, <1>14, OnWaySend
  <2>3. [m EXCEPT !.number = outgoingSequence + Len(queue)] = sent
    BY <1>15, <2>1
  <2>. QED
    BY <2>1, <2>2, <2>3
<1>17. \A x \in OnWay : x.number \in Nat /\ x.number < outgoingSequence
  <2>1. outgoingSequence + Len(queue) = outgoingSequence
    BY <1>1, <1>3, Bounds
  <2>. QED
    BY <1>1, <2>1, OnWayTypes, MessageTypes
<1>18. Types'
  <2>1. outgoingSequence' + Len(queue') <= MaxSequence + 1
    BY <1>2, <1>3, <1>16, SnapshotsAssumption
  <2>. QED
    BY <1>1, <1>2, <1>5, <1>7, <1>16, <2>1 DEF Types, SnapshotsTypeOK
<1>19. Ordered'
  <2>1. \A k \in DOMAIN queue' : k > 1 => queue'[k].type = "gamestate"
    BY <1>16
  <2>. QED
    BY <1>1, <1>2, <2>1 DEF Ordered
<1>20. Gamestates'
  <2>1. \A x \in OnWay' : x.type = "gamestate" => x \in OnWay
    BY <1>15, <1>16
  <2>. QED
    BY <1>1, <1>2, <1>15, <1>16, <2>1 DEF Gamestates
<1>21. Maps'
  <2>1. /\ clServerId <= sent.truth.map /\ sent.truth.map <= serverId
        /\ Count(sent.truth.world) <= MAX_SNAPSHOT_ENTITIES
    BY <1>1, <1>4, <1>11, <1>15, Bounds
  <2>2. \A g \in OnWay' : g.type = "gamestate" => g \in OnWay /\ g.serverId <= sent.truth.map
    BY <1>1, <1>11, <1>15, <1>16 DEF Gamestates
  <2>3. ASSUME NEW x \in OnWay'
        PROVE  /\ clServerId <= x.truth.map /\ x.truth.map <= serverId
               /\ Count(x.truth.world) <= MAX_SNAPSHOT_ENTITIES
               /\ \A g \in OnWay' :
                    g.type = "gamestate" /\ g.number < x.number => g.serverId <= x.truth.map
    BY <1>1, <1>16, <2>1, <2>2 DEF Maps
  <2>. QED
    BY <1>2, <2>3 DEF Maps
<1>22. Ring'
  <2>1. ASSUME NEW s \in 0 .. PACKET_BACKUP - 1 PROVE InRing(s)'
    <3>1. CASE ~snapshots[s].valid
      BY <1>2, <3>1 DEF InRing
    <3>2. CASE snapshots[s].valid
      <4>1. InRing(s)
        BY <1>1 DEF Ring
      <4>2. /\ snapshots[s].number \in 1 .. snap /\ Framed(snapshots[s].number, snapshots[s].truth)
        BY <3>2, <4>1 DEF InRing
      <4>3. snapshots[s].number \in Nat /\ snapshots[s].number < outgoingSequence
        BY <1>1, <4>2, Bounds
      <4>4. Framed(snapshots[s].number, snapshots[s].truth)'
        BY <1>2, <1>9, <4>2, <4>3
      <4>. QED
        BY <1>2, <4>1, <4>4 DEF InRing
    <3>. QED
      BY <3>1, <3>2
  <2>. QED
    BY <1>1, <1>2, <2>1 DEF Ring, Held
<1>23. Deltas'
  <2>1. \A n : Has(n)' = Has(n)
    BY <1>2 DEF Has, Held
  <2>2. \A x \in OnWay' : x.type = "gamestate" => x \in OnWay
    BY <1>15, <1>16
  <2>3. ASSUME NEW x \in OnWay, Sound(x) PROVE Sound(x)'
    <3>1. Framed(x.number, x.truth)'
      BY <1>9, <1>17, <2>3 DEF Sound
    <3>. QED
      BY <1>2, <2>1, <2>2, <2>3, <3>1 DEF Sound
  <2>4. Sound(sent)'
    <3>1. Framed(sent.number, sent.truth)'
      <4>1. /\ sent.number = outgoingSequence /\ sent.truth = truth /\ truth.world = Seen
            /\ truth.map = serverId
        BY <1>11, <1>15
      <4>2. frames'[Masked(outgoingSequence)].world = Seen
            /\ (Seen # None => frames'[Masked(outgoingSequence)].map = serverId)
        BY <1>7 DEF slot
      <4>. QED
        BY <1>2, <4>1, <4>2 DEF Framed
    <3>2. CASE full
      <4>1. /\ lastframe = 0 /\ from = None
        BY <1>13, <3>2 DEF from
      <4>. QED
        BY <1>11, <1>15, <3>1, <4>1 DEF Sound
    <3>3. CASE ~full
      <4>1. \A g \in OnWay' : g.type = "snapshot"
        BY <1>1, <1>12, <1>15, <1>16, <3>3 DEF Gamestates
      <4>2. lastframe = outgoingSequence - deltaMessage /\ sent.number - lastframe = deltaMessage
            /\ lastframe < PACKET_BACKUP - 3
        <5>1. lastframe = outgoingSequence - deltaMessage
          BY <3>3 DEF lastframe
        <5>2. deltaMessage \in Nat /\ outgoingSequence < deltaMessage + PACKET_BACKUP - 3
          BY <1>12, <3>3
        <5>3. outgoingSequence \in Nat /\ PACKET_BACKUP \in Nat /\ sent.number = outgoingSequence
          BY <1>1, <1>15, Bounds
        <5>. QED
          BY <5>1, <5>2, <5>3
      <4>3. from = r.truth.world
        BY <1>12, <3>3 DEF from
      <4>. QED
        BY <1>2, <1>11, <1>12, <1>13, <1>15, <2>1, <3>1, <3>3, <4>1, <4>2, <4>3 DEF Sound
    <3>. QED
      BY <3>2, <3>3
  <2>5. \A x \in OnWay' : x.type = "snapshot" => Sound(x)'
    BY <1>1, <1>16, <2>3, <2>4 DEF Deltas
  <2>. QED
    BY <1>1, <1>2, <2>1, <2>5 DEF Deltas
<1>. QED
  BY <1>18, <1>19, <1>20, <1>21, <1>22, <1>23 DEF SnapshotsInv

\* A number and its slot.
LEMMA DivMasked ==
    ASSUME NEW n \in Int
    PROVE  n \div PACKET_BACKUP \in Int /\ n = PACKET_BACKUP * (n \div PACKET_BACKUP) + Masked(n)
BY SnapshotsAssumption DEF Masked

\* The slot of a number.
LEMMA MaskedOf ==
    ASSUME NEW q \in Int, NEW s \in 0 .. PACKET_BACKUP - 1
    PROVE  Masked(PACKET_BACKUP * q + s) = s
<1>1. PACKET_BACKUP \in Nat /\ PACKET_BACKUP > 0 /\ s \in Int /\ 0 <= s /\ s < PACKET_BACKUP
  BY SnapshotsAssumption
<1>2. PICK n \in Int : n = PACKET_BACKUP * q + s
  BY <1>1
<1>3. PICK p \in Int : n = PACKET_BACKUP * p + Masked(n)
  BY <1>2, DivMasked
<1>4. PICK r \in Int : r = Masked(n) /\ 0 <= r /\ r < PACKET_BACKUP
  BY <1>1, <1>2, MaskedRange
<1>5. PICK d \in Int : d = p - q
  BY <1>3
<1>6. PACKET_BACKUP * d = PACKET_BACKUP * p - PACKET_BACKUP * q
  BY <1>1, <1>5
<1>7. /\ PACKET_BACKUP * d < PACKET_BACKUP /\ PACKET_BACKUP * d > -PACKET_BACKUP
      /\ PACKET_BACKUP * d = s - r
  <2>1. PICK x \in Int, y \in Int : x = PACKET_BACKUP * p /\ y = PACKET_BACKUP * q
    BY <1>1
  <2>2. n = x + r /\ n = y + s
    BY <1>2, <1>3, <1>4, <2>1
  <2>. QED
    <3>1. PACKET_BACKUP * d = x - y
      BY <1>6, <2>1
    <3>2. x - y = s - r
      BY <1>1, <2>2
    <3>3. s - r < PACKET_BACKUP /\ s - r > -PACKET_BACKUP
      BY <1>1, <1>4
    <3>. QED
      BY <3>1, <3>2, <3>3
<1>8. d = 0
  <2>1. d >= 1 => PACKET_BACKUP * d >= PACKET_BACKUP
    BY <1>1
  <2>2. d <= -1 => PACKET_BACKUP * d <= -PACKET_BACKUP
    BY <1>1
  <2>3. PICK x \in Int : x = PACKET_BACKUP * d
    BY <1>1
  <2>. QED
    BY <1>1, <1>7, <2>1, <2>2, <2>3
<1>9. r = s
  BY <1>1, <1>4, <1>7, <1>8
<1>. QED
  BY <1>2, <1>4, <1>9

\* Every slot is that of one of the last numbers.
LEMMA MaskedLast ==
    ASSUME NEW s \in 0 .. PACKET_BACKUP - 1, NEW last \in Nat
    PROVE  \E n \in Int : last - PACKET_BACKUP < n /\ n <= last /\ Masked(n) = s
<1>1. PACKET_BACKUP \in Nat /\ s \in Int /\ last - s \in Int
  BY SnapshotsAssumption
<1>2. PICK q \in Int, r \in 0 .. PACKET_BACKUP - 1 : last - s = PACKET_BACKUP * q + r
  BY <1>1, DivMasked, MaskedRange
<1>3. PICK p \in Int : p = PACKET_BACKUP * q
  BY <1>1
<1>4. Masked(p + s) = s
  BY <1>3, MaskedOf
<1>5. p + s = last - r /\ p + s \in Int
  BY <1>1, <1>2, <1>3
<1>6. last - PACKET_BACKUP < p + s /\ p + s <= last
  BY <1>1, <1>2, <1>5
<1>. QED
  BY <1>4, <1>5, <1>6

\* What was in a slot that stays is not too old.
LEMMA NotSkipped ==
    ASSUME Types, NEW number \in Nat, snap < number,
           NEW n \in 1 .. snap, snap < n + PACKET_BACKUP,
           Masked(n) # Masked(number), Masked(n) \notin Skipped(number)
    PROVE  number < n + PACKET_BACKUP
<1>1. snap \in Nat /\ PACKET_BACKUP \in Nat /\ n \in Nat
  BY Bounds
<1>2. SUFFICES ASSUME number >= n + PACKET_BACKUP PROVE FALSE
  BY <1>1
<1>3. Masked(n) \in 0 .. PACKET_BACKUP - 1
  BY <1>1, MaskedRange
<1>4. PICK k \in Int : number - PACKET_BACKUP < k /\ k <= number /\ Masked(k) = Masked(n)
  BY <1>3, MaskedLast
<1>5. k # number
  BY <1>4
<1>6. CASE k > snap
  <2>1. k \in snap + 1 .. number - 1 /\ number - k < PACKET_BACKUP
    BY <1>1, <1>4, <1>5, <1>6
  <2>. QED
    BY <1>4, <2>1 DEF Skipped
<1>7. CASE k <= snap
  <2>1. k \in Nat /\ n < k /\ k < n + PACKET_BACKUP
    BY <1>1, <1>2, <1>4, <1>7
  <2>. QED
    BY <1>1, <1>4, <2>1, MaskedDistinct
<1>. QED
  BY <1>1, <1>4, <1>6, <1>7

\* One more message is room for the entities of one more.
LEMMA Room ==
    ASSUME NEW a \in Int, NEW b \in Int, NEW k \in Nat, a < b
    PROVE  a * k + k <= b * k
<1>1. PICK d \in Nat : b = a + 1 + d
  <2>1. b - a - 1 \in Nat /\ b = a + 1 + (b - a - 1)
    OBVIOUS
  <2>. QED
    BY <2>1
<1>2. (a + 1 + d) * k = a * k + k + d * k
  OBVIOUS
<1>3. d * k \in Nat
  OBVIOUS
<1>4. a * k \in Int
  OBVIOUS
<1>. QED
  BY <1>1, <1>2, <1>3, <1>4

\* A snapshot on its way can be put together, and is then what was sent.
LEMMA Parsed ==
    ASSUME SnapshotsInv, NEW m \in OnWay, m.type = "snapshot", NEW base, NEW full, NEW old, NEW world,
           base = m.number - m.lastframe,
           full = (m.lastframe = 0 \/ base <= 0),
           old = snapshots[Masked(base)],
           world = CL_ParsePacketEntities(
                       IF full THEN None ELSE Kept(old, Count(m.truth.world)), m.changes)
    PROVE  /\ full \/ GoodDelta(old, base)
           /\ world \in [Entities -> Int]
           /\ m.truth.map = clServerId => world = m.truth.world
           /\ Count(world) \in Nat /\ Count(world) <= MAX_SNAPSHOT_ENTITIES
<1>1. Types /\ Ordered /\ Gamestates /\ Maps /\ Ring /\ Deltas
  BY DEF SnapshotsInv
<1>2. Sound(m)
  BY <1>1 DEF Deltas
<1>3. /\ m \in ServerMessage /\ m.number \in Nat /\ m.lastframe \in Nat /\ m.truth.map \in Nat
      /\ m.truth.world \in [Entities -> Nat] /\ serverMessageSequence < m.number
  BY <1>1, OnWayTypes, MessageTypes
<1>4. Count(m.truth.world) \in Nat /\ Count(m.truth.world) <= MAX_SNAPSHOT_ENTITIES
  BY <1>1, CountNat DEF Maps
<1>5. CASE m.lastframe = 0
  <2>1. m.changes = Diff(None, m.truth.world, m.truth.map)
    BY <1>2, <1>5 DEF Sound
  <2>2. world = CL_ParsePacketEntities(None, Diff(None, m.truth.world, m.truth.map)) /\ full
    BY <1>5, <2>1
  <2>3. None \in [Entities -> Int]
    BY DEF None
  <2>4. world \in [Entities -> Int]
    BY <1>3, <2>2, <2>3, AppliedType
  <2>5. m.truth.map = clServerId => world = m.truth.world
    BY <1>3, <2>2, <2>3, Applied
  <2>6. Count(world) = Count(m.truth.world)
    BY <1>3, <2>2, AppliedFull
  <2>. QED
    BY <1>4, <2>2, <2>4, <2>5, <2>6
<1>6. CASE m.lastframe > 0
  <2>1. /\ m.truth.map = clServerId /\ m.lastframe < PACKET_BACKUP - 3
        /\ Has(base) /\ old.truth.map = m.truth.map
        /\ m.changes = Diff(old.truth.world, m.truth.world, m.truth.map)
    BY <1>2, <1>6 DEF Sound
  <2>2. /\ base \in Nat /\ base > 0 /\ base <= snap /\ m.number < base + PACKET_BACKUP - 3
        /\ snap < base + PACKET_BACKUP
    <3>1. base \in 1 .. snap
      BY <2>1 DEF Has
    <3>. QED
      <4>1. base \in Nat /\ base > 0 /\ base <= snap /\ snap \in Nat
        BY <1>1, <3>1, Bounds
      <4>2. base = m.number - m.lastframe /\ m.lastframe < PACKET_BACKUP - 3
            /\ PACKET_BACKUP \in Nat /\ snap < m.number
        BY <1>1, <1>3, <2>1, Bounds
      <4>3. m.number < base + PACKET_BACKUP - 3
        BY <1>3, <4>1, <4>2
      <4>. QED
        BY <1>3, <4>1, <4>2, <4>3
  <2>3. ~full
    <3>1. ~(m.lastframe = 0 \/ base <= 0)
      BY <1>6, <2>2
    <3>. QED
      BY <3>1
  <2>4. old.valid /\ old.number = base /\ Masked(base) \in 0 .. PACKET_BACKUP - 1
    BY <2>1, <2>2, MaskedRange DEF Has, Held
  <2>5. InRing(Masked(base))
    BY <1>1, <2>4 DEF Ring
  <2>6. /\ old.world = old.truth.world
        /\ parseEntitiesNum - old.first <= (serverMessageSequence - base + 1) * MAX_SNAPSHOT_ENTITIES
    BY <2>1, <2>4, <2>5 DEF InRing
  <2>7. old.first \in Nat /\ old.world \in [Entities -> Int] /\ old.truth.world \in [Entities -> Nat]
    BY <1>1, <2>4, SlotTypes
  <2>8. /\ parseEntitiesNum - old.first <= MAX_PARSE_ENTITIES - MAX_SNAPSHOT_ENTITIES
        /\ MAX_PARSE_ENTITIES \in Nat
    <3>1. PICK k \in Int : k = serverMessageSequence - base + 1 /\ k < PACKET_BACKUP
      <4>1. serverMessageSequence - base + 1 \in Int /\ serverMessageSequence - base + 1 < PACKET_BACKUP
        <5>1. serverMessageSequence \in Nat /\ PACKET_BACKUP \in Nat
          BY <1>1, Bounds
        <5>. QED
          BY <1>3, <2>2, <5>1
      <4>. QED
        BY <4>1
    <3>2. k * MAX_SNAPSHOT_ENTITIES + MAX_SNAPSHOT_ENTITIES <= PACKET_BACKUP * MAX_SNAPSHOT_ENTITIES
      <4>1. PACKET_BACKUP \in Int /\ MAX_SNAPSHOT_ENTITIES \in Nat
        BY <1>1, Bounds
      <4>. QED
        BY <3>1, <4>1, Room
    <3>3. parseEntitiesNum - old.first <= k * MAX_SNAPSHOT_ENTITIES
      BY <2>6, <3>1
    <3>4. /\ parseEntitiesNum \in Nat /\ MAX_SNAPSHOT_ENTITIES \in Nat /\ PACKET_BACKUP \in Nat
      BY <1>1, Bounds
    <3>5. k * MAX_SNAPSHOT_ENTITIES \in Int /\ PACKET_BACKUP * MAX_SNAPSHOT_ENTITIES \in Nat
      BY <3>1, <3>4
    <3>. HIDE DEF MAX_PARSE_ENTITIES
    <3>6. MAX_PARSE_ENTITIES = PACKET_BACKUP * MAX_SNAPSHOT_ENTITIES
      BY DEF MAX_PARSE_ENTITIES
    <3>. QED
      BY <2>7, <3>2, <3>3, <3>4, <3>5, <3>6
  <2>9. GoodDelta(old, base)
    BY <2>4, <2>8 DEF GoodDelta
  <2>10. Kept(old, Count(m.truth.world)) = old.world
    <3>1. ~(old.first + MAX_PARSE_ENTITIES < parseEntitiesNum + Count(m.truth.world))
      <4>1. PICK new \in Nat : new = Count(m.truth.world) /\ new <= MAX_SNAPSHOT_ENTITIES
        BY <1>4
      <4>2. parseEntitiesNum \in Nat /\ MAX_SNAPSHOT_ENTITIES \in Nat
        BY <1>1, Bounds
      <4>. HIDE DEF MAX_PARSE_ENTITIES
      <4>. QED
        BY <2>7, <2>8, <4>1, <4>2
    <3>. QED
      BY <3>1 DEF Kept
  <2>11. world = CL_ParsePacketEntities(old.truth.world,
                                        Diff(old.truth.world, m.truth.world, clServerId))
    BY <2>1, <2>3, <2>6, <2>10
  <2>12. world = m.truth.world
    <3>1. old.truth.world \in [Entities -> Int]
      BY <2>7
    <3>. QED
      BY <1>3, <2>11, <3>1, Applied
  <2>13. world \in [Entities -> Int]
    BY <1>3, <2>12
  <2>. QED
    BY <1>4, <2>9, <2>12, <2>13
<1>. QED
  BY <1>3, <1>5, <1>6

\* The numbers stay in order when the client gets a message.
LEMMA ReceiveOrdered ==
    ASSUME Types, Ordered, NEW i \in DOMAIN toClient,
           toClient' = SubSeq(toClient, i + 1, Len(toClient)),
           serverMessageSequence' = toClient[i].number,
           queue' = queue, outgoingSequence' = outgoingSequence, toServer' = toServer,
           clServerId <= clServerId', clServerId' \in Nat
    PROVE  Ordered'
<1>1. PICK number \in Nat : /\ number = toClient[i].number /\ serverMessageSequence < number
                            /\ toClient[i] \in OnWay
  BY OnWayReceive, OnWayTypes, MessageTypes
<1>2. /\ \A x \in OnWay' : x \in OnWay /\ x.number > number
      /\ toClient' \in Seq(ServerMessage)
      /\ \A j \in DOMAIN toClient' : j + i \in DOMAIN toClient /\ toClient'[j] = toClient[j + i]
  BY <1>1, OnWayReceive
<1>3. ASSUME NEW j \in DOMAIN toClient'
      PROVE  number < toClient'[j].number /\ toClient'[j].number < outgoingSequence
  <2>1. toClient'[j] \in OnWay' /\ toClient'[j] \in ServerMessage
    <3>1. toClient'[j] \in OnWay'
      BY DEF OnWay
    <3>. QED
      BY <1>2, <3>1
  <2>2. toClient'[j].number \in Nat /\ toClient'[j].number > number
    BY <1>2, <2>1, MessageTypes
  <2>3. toClient'[j].number < outgoingSequence
    BY <1>2 DEF Ordered
  <2>. QED
    BY <1>1, <2>2, <2>3
<1>4. ASSUME NEW j \in DOMAIN toClient', NEW k \in DOMAIN toClient', j < k
      PROVE  toClient'[j].number < toClient'[k].number
  <2>1. DOMAIN toClient' = 1 .. Len(toClient') /\ Len(toClient') \in Nat /\ i \in Nat
    <3>1. i \in 1 .. Len(toClient) /\ Len(toClient) \in Nat
      BY Sequences
    <3>2. toClient' \in Seq(ServerMessage)
      BY <1>2
    <3>. QED
      BY <3>1, <3>2
  <2>2. j + i < k + i
    BY <1>4, <2>1
  <2>. QED
    BY <1>2, <2>2 DEF Ordered
<1>5. ASSUME NEW j \in DOMAIN toServer
      PROVE  toServer[j].ack <= number /\ toServer[j].serverId <= clServerId'
  <2>1. /\ toServer[j].ack \in Nat /\ toServer[j].ack <= serverMessageSequence
        /\ toServer[j].serverId \in Nat /\ toServer[j].serverId <= clServerId
    BY PacketTypes DEF Ordered
  <2>2. serverMessageSequence \in Nat /\ clServerId \in Nat
    BY Bounds
  <2>. QED
    BY <1>1, <2>1, <2>2
<1>. QED
  BY <1>1, <1>3, <1>4, <1>5 DEF Ordered

\* The client gets a gamestate.
LEMMA GamestateKeeps ==
    ASSUME SnapshotsInv, NEW i \in DOMAIN toClient,
           toClient' = SubSeq(toClient, i + 1, Len(toClient)),
           serverMessageSequence' = toClient[i].number,
           toClient[i].type = "gamestate", CL_ParseGamestate(toClient[i]),
           UNCHANGED <<serverVars, toServer>>
    PROVE  SnapshotsInv'
<1>1. Types /\ Ordered /\ Gamestates /\ Maps /\ Ring /\ Deltas
  BY DEF SnapshotsInv
<1>2. /\ serverId' = serverId /\ nextSnapshotEntities' = nextSnapshotEntities /\ state' = state
      /\ gentity' = gentity /\ frames' = frames /\ outgoingSequence' = outgoingSequence
      /\ deltaMessage' = deltaMessage /\ gamestateMessageNum' = gamestateMessageNum
      /\ queue' = queue /\ toServer' = toServer
  BY DEF serverVars
<1>3. PICK m \in OnWay : m = toClient[i]
  BY <1>1, <1>2, OnWayReceive
<1>4. /\ clServerId' = m.serverId /\ snapshots' = [s \in DOMAIN snapshots |-> Invalid]
      /\ snap' = 0 /\ parseEntitiesNum' = 0 /\ dumped' = dumped
      /\ serverMessageSequence' = m.number /\ m.type = "gamestate"
  BY <1>3 DEF CL_ParseGamestate
<1>5. /\ \A x \in OnWay' : x \in OnWay /\ x.number > m.number
      /\ toClient' \in Seq(ServerMessage)
      /\ \A j \in DOMAIN toClient' : j + i \in DOMAIN toClient /\ toClient'[j] = toClient[j + i]
  BY <1>1, <1>2, <1>3, OnWayReceive
<1>6. /\ m.number \in Nat /\ m.serverId \in Nat /\ serverMessageSequence < m.number
      /\ m.number < outgoingSequence
  <2>1. m.number < outgoingSequence
    BY <1>1, <1>3 DEF Ordered
  <2>. QED
    BY <1>1, <2>1, OnWayTypes, MessageTypes
<1>7. /\ m.number <= gamestateMessageNum + 1 /\ m.serverId <= serverId /\ m.truth.map = m.serverId
      /\ clServerId <= m.serverId
  BY <1>1, <1>4 DEF Gamestates, Maps
<1>8. clServerId # serverId
  BY <1>1, <1>4 DEF Gamestates
<1>9. /\ DOMAIN snapshots = 0 .. PACKET_BACKUP - 1
      /\ \A s \in 0 .. PACKET_BACKUP - 1 : ~snapshots'[s].valid
  BY <1>1, <1>4 DEF Types, SnapshotsTypeOK, Invalid
<1>10. Types'
  <2>1. snapshots' \in [0 .. PACKET_BACKUP - 1 -> SnapType]
    <3>1. None \in [Entities -> Nat] /\ None \in [Entities -> Int]
      BY DEF None
    <3>2. Invalid \in SnapType
      BY <3>1 DEF Invalid, SnapType, Truth
    <3>. QED
      BY <1>4, <1>9, <3>2
  <2>2. serverMessageSequence' \in 0 .. outgoingSequence - 1
    BY <1>1, <1>4, <1>6, Bounds
  <2>3. clServerId' \in 0 .. serverId
    BY <1>1, <1>4, <1>6, <1>7, Bounds
  <2>4. snap' \in 0 .. serverMessageSequence' /\ parseEntitiesNum' \in Nat
    BY <1>4, <1>6
  <2>. QED
    BY <1>1, <1>2, <1>4, <1>5, <1>9, <2>1, <2>2, <2>3, <2>4 DEF Types, SnapshotsTypeOK
<1>11. Ordered'
  <2>1. clServerId <= clServerId' /\ clServerId' \in Nat
    BY <1>4, <1>6, <1>7
  <2>. QED
    BY <1>1, <1>2, <1>3, <1>4, <2>1, ReceiveOrdered
<1>12. Gamestates'
  <2>1. \A x \in OnWay' : x.type = "snapshot"
    <3>. TAKE x \in OnWay'
    <3>1. x \in OnWay /\ x \in ServerMessage /\ x.number > m.number
      BY <1>1, <1>5, OnWayTypes
    <3>2. x.type = "gamestate" => x.number = m.number
      BY <1>1, <1>4, <3>1 DEF Gamestates
    <3>. QED
      BY <1>6, <3>1, <3>2, MessageTypes
  <2>2. \A j \in DOMAIN toServer : toServer[j].ack <= gamestateMessageNum
    <3>. TAKE j \in DOMAIN toServer
    <3>1. toServer[j].ack \in Nat /\ toServer[j].ack <= serverMessageSequence
      BY <1>1, PacketTypes DEF Ordered
    <3>2. serverMessageSequence \in Nat /\ gamestateMessageNum \in Int
      BY <1>1, Bounds
    <3>. QED
      BY <1>6, <1>7, <3>1, <3>2
  <2>3. state # "CS_ACTIVE"
    BY <1>1, <1>8 DEF Gamestates
  <2>. QED
    BY <1>1, <1>2, <1>5, <2>1, <2>2, <2>3 DEF Gamestates
<1>13. Maps'
  <2>1. \A x \in OnWay' : m.serverId <= x.truth.map
    <3>. TAKE x \in OnWay'
    <3>1. x \in OnWay /\ m.number < x.number
      <4>1. x \in OnWay /\ x.number > m.number /\ x.number \in Nat
        BY <1>1, <1>5, OnWayTypes, MessageTypes
      <4>. QED
        BY <1>6, <4>1
    <3>. QED
      BY <1>1, <1>4, <3>1 DEF Maps
  <2>. QED
    BY <1>1, <1>2, <1>4, <1>5, <2>1 DEF Maps
<1>14. Ring'
  BY <1>4, <1>9 DEF Ring, InRing
<1>15. Deltas'
  <2>1. state # "CS_ACTIVE"
    BY <1>1, <1>8 DEF Gamestates
  <2>2. \A j \in DOMAIN toServer : toServer[j].serverId # serverId
    <3>. TAKE j \in DOMAIN toServer
    <3>1. toServer[j].serverId \in Nat /\ toServer[j].serverId <= clServerId
      BY <1>1, PacketTypes DEF Ordered
    <3>2. clServerId \in Nat /\ serverId \in Nat /\ clServerId < serverId
      BY <1>1, <1>8, Bounds
    <3>. QED
      BY <3>1, <3>2
  <2>3. ASSUME NEW x \in OnWay', x.type = "snapshot" PROVE Sound(x)'
    <3>1. x \in OnWay /\ x.number > m.number /\ x.number \in Nat /\ x.lastframe \in Nat
      BY <1>1, <1>5, OnWayTypes, MessageTypes
    <3>2. Sound(x)
      BY <1>1, <2>3, <3>1 DEF Deltas
    <3>3. ~(x.lastframe > 0)
      <4>1. x.lastframe > 0 => m.number > x.number
        BY <1>4, <3>2 DEF Sound
      <4>. QED
        BY <1>6, <3>1, <4>1
    <3>4. Framed(x.number, x.truth)'
      BY <1>2, <3>2 DEF Sound, Framed
    <3>. QED
      BY <3>2, <3>3, <3>4 DEF Sound
  <2>. QED
    BY <1>2, <2>1, <2>2, <2>3 DEF Deltas
<1>. QED
  BY <1>10, <1>11, <1>12, <1>13, <1>14, <1>15 DEF SnapshotsInv

\* The client gets a snapshot.
LEMMA SnapshotKeeps ==
    ASSUME SnapshotsInv, NEW i \in DOMAIN toClient,
           toClient' = SubSeq(toClient, i + 1, Len(toClient)),
           serverMessageSequence' = toClient[i].number,
           toClient[i].type = "snapshot", CL_ParseSnapshot(toClient[i]),
           UNCHANGED <<serverVars, toServer>>
    PROVE  SnapshotsInv'
<1>1. Types /\ Ordered /\ Gamestates /\ Maps /\ Ring /\ Deltas
  BY DEF SnapshotsInv
<1>2. /\ serverId' = serverId /\ nextSnapshotEntities' = nextSnapshotEntities /\ state' = state
      /\ gentity' = gentity /\ frames' = frames /\ outgoingSequence' = outgoingSequence
      /\ deltaMessage' = deltaMessage /\ gamestateMessageNum' = gamestateMessageNum
      /\ queue' = queue /\ toServer' = toServer
  BY DEF serverVars
<1>3. PICK m \in OnWay : m = toClient[i] /\ m.type = "snapshot"
  BY <1>1, <1>2, OnWayReceive
<1> DEFINE base == m.number - m.lastframe
<1> DEFINE full == m.lastframe = 0 \/ base <= 0
<1> DEFINE old == snapshots[Masked(base)]
<1> DEFINE world == CL_ParsePacketEntities(
                        IF full THEN None ELSE Kept(old, Count(m.truth.world)), m.changes)
<1>4. /\ parseEntitiesNum' = parseEntitiesNum + Count(world)
      /\ \/ ~(full \/ GoodDelta(old, base))
         \/ /\ snap' = m.number
            /\ snapshots' =
                  [s \in DOMAIN snapshots |->
                      IF s = Masked(m.number)
                      THEN [valid |-> TRUE, number |-> m.number, first |-> parseEntitiesNum,
                            world |-> world, truth |-> m.truth]
                      ELSE IF s \in Skipped(m.number) THEN Invalid
                      ELSE snapshots[s]]
            /\ dumped' = dumped
      /\ clServerId' = clServerId
  BY <1>3 DEF CL_ParseSnapshot
<1>5. /\ full \/ GoodDelta(old, base)
      /\ world \in [Entities -> Int]
      /\ m.truth.map = clServerId => world = m.truth.world
      /\ Count(world) \in Nat /\ Count(world) <= MAX_SNAPSHOT_ENTITIES
  BY <1>3, Parsed
<1> HIDE DEF base, full, old, world
<1>6. /\ snap' = m.number /\ serverMessageSequence' = m.number
      /\ parseEntitiesNum' = parseEntitiesNum + Count(world)
      /\ dumped' = dumped /\ clServerId' = clServerId
      /\ snapshots' = [s \in 0 .. PACKET_BACKUP - 1 |->
                          IF s = Masked(m.number)
                          THEN [valid |-> TRUE, number |-> m.number, first |-> parseEntitiesNum,
                                world |-> world, truth |-> m.truth]
                          ELSE IF s \in Skipped(m.number) THEN Invalid
                          ELSE snapshots[s]]
  <2>1. DOMAIN snapshots = 0 .. PACKET_BACKUP - 1
    BY <1>1 DEF Types
  <2>. QED
    BY <1>3, <1>4, <1>5, <2>1
<1>7. /\ \A x \in OnWay' : x \in OnWay /\ x.number > m.number
      /\ toClient' \in Seq(ServerMessage)
  BY <1>1, <1>2, <1>3, OnWayReceive
<1>8. /\ m \in ServerMessage /\ m.number \in Nat /\ m.truth \in Truth /\ m.truth.map \in Nat
      /\ serverMessageSequence < m.number /\ m.number < outgoingSequence
  <2>1. m.number < outgoingSequence
    BY <1>1, <1>3 DEF Ordered
  <2>. QED
    BY <1>1, <2>1, OnWayTypes, MessageTypes
<1>9. /\ snap \in Nat /\ serverMessageSequence \in Nat /\ parseEntitiesNum \in Nat
      /\ outgoingSequence \in Nat /\ PACKET_BACKUP \in Nat /\ PACKET_BACKUP > 0
  BY <1>1, Bounds
<1>10. PICK new \in SnapType :
        /\ new = [valid |-> TRUE, number |-> m.number, first |-> parseEntitiesNum,
                  world |-> world, truth |-> m.truth]
        /\ new.valid /\ new.number = m.number /\ new.first = parseEntitiesNum
        /\ new.world = world /\ new.truth = m.truth
  <2>1. [valid |-> TRUE, number |-> m.number, first |-> parseEntitiesNum,
         world |-> world, truth |-> m.truth] \in SnapType
    BY <1>5, <1>8, <1>9 DEF SnapType
  <2>. QED
    BY <2>1
<1>11. /\ Masked(m.number) \in 0 .. PACKET_BACKUP - 1 /\ snapshots'[Masked(m.number)] = new
       /\ snap < m.number
  <2>1. Masked(m.number) \in 0 .. PACKET_BACKUP - 1
    <3>1. m.number \in Int
      BY <1>8
    <3>. QED
      BY <3>1, MaskedRange
  <2>2. snap < m.number
    BY <1>1, <1>8, Bounds
  <2>. QED
    BY <1>6, <1>10, <2>1, <2>2
<1>12. parseEntitiesNum' = parseEntitiesNum + Count(world) /\ serverMessageSequence' = m.number
  BY <1>6
<1>13. ~Invalid.valid
  BY DEF Invalid
\* What may still be a base stays.
<1>14. ASSUME NEW b \in 1 .. snap, m.number < b + PACKET_BACKUP
       PROVE  snapshots'[Masked(b)] = snapshots[Masked(b)]
  <2>1. b \in Nat /\ b <= snap /\ snap \in Nat /\ b < m.number
    BY <1>8, <1>11, <1>9
  <2>2. Masked(b) # Masked(m.number) /\ Masked(b) \in 0 .. PACKET_BACKUP - 1
    <3>1. Masked(b) # Masked(m.number)
      BY <1>8, <1>14, <2>1, MaskedDistinct
    <3>. QED
      BY <2>1, <3>1, MaskedRange
  <2>3. Masked(b) \notin Skipped(m.number)
    <3>1. SUFFICES ASSUME NEW k \in snap + 1 .. m.number - 1, m.number - k < PACKET_BACKUP,
                          Masked(k) = Masked(b)
                   PROVE  FALSE
      BY DEF Skipped
    <3>2. k \in Nat /\ b < k /\ k < b + PACKET_BACKUP
      <4>1. PACKET_BACKUP \in Nat
        BY <1>1, Bounds
      <4>. QED
        BY <1>8, <1>14, <2>1, <4>1
    <3>. QED
      BY <2>1, <3>1, <3>2, MaskedDistinct
  <2>. QED
    BY <1>6, <2>2, <2>3
<1>15. ASSUME NEW b, Has(b) PROVE Has(b)'
  <2>1. b \in 1 .. snap /\ b \in 1 .. snap'
    <3>1. b \in 1 .. snap
      BY <1>15 DEF Has
    <3>. QED
      BY <1>6, <1>8, <1>11, <1>9, <3>1
  <2>2. ASSUME m.number < b + PACKET_BACKUP PROVE Held(b)'
    <3>1. snap < b + PACKET_BACKUP
      <4>1. snap \in Nat /\ b \in Nat /\ PACKET_BACKUP \in Nat
        BY <1>1, <2>1, Bounds
      <4>. QED
        BY <1>8, <1>11, <2>2, <4>1
    <3>. QED
      BY <1>14, <1>15, <2>1, <2>2, <3>1 DEF Has, Held
  <2>. QED
    BY <1>6, <2>1, <2>2 DEF Has
<1>16. Types'
  <2>1. snapshots' \in [0 .. PACKET_BACKUP - 1 -> SnapType]
    <3>1. None \in [Entities -> Nat] /\ None \in [Entities -> Int]
      BY DEF None
    <3>2. Invalid \in SnapType
      BY <3>1 DEF Invalid, SnapType, Truth
    <3>. QED
      BY <1>1, <1>6, <1>10, <3>2 DEF Types
  <2>2. serverMessageSequence' \in 0 .. outgoingSequence - 1 /\ snap' \in 0 .. serverMessageSequence'
    BY <1>6, <1>8, <1>9
  <2>3. parseEntitiesNum' \in Nat
    BY <1>5, <1>6, <1>9
  <2>4. DOMAIN snapshots' = 0 .. PACKET_BACKUP - 1
    BY <2>1
  <2>. QED
    BY <1>1, <1>2, <1>6, <1>7, <2>1, <2>2, <2>3, <2>4 DEF Types, SnapshotsTypeOK
<1>17. Ordered'
  <2>1. clServerId <= clServerId' /\ clServerId' \in Nat
    BY <1>1, <1>6, Bounds
  <2>. QED
    BY <1>1, <1>2, <1>3, <1>6, <2>1, ReceiveOrdered
<1>18. Gamestates'
  BY <1>1, <1>2, <1>6, <1>7 DEF Gamestates
<1>19. Maps'
  BY <1>1, <1>2, <1>6, <1>7 DEF Maps
<1>20. Ring'
  <2>1. InRing(Masked(m.number))'
    <3>1. PICK n \in Nat : n = new.number /\ n = m.number /\ n = serverMessageSequence' /\ n = snap'
      BY <1>6, <1>8, <1>10
    <3>2. n \in 1 .. snap' /\ snap' < n + PACKET_BACKUP
      BY <1>8, <1>9, <3>1
    <3>3. clServerId' <= new.truth.map /\ new.truth.map <= serverId'
      BY <1>1, <1>2, <1>3, <1>6, <1>10 DEF Maps
    <3>4. new.truth.map = clServerId' => new.world = new.truth.world
      BY <1>5, <1>6, <1>10
    <3>5. parseEntitiesNum' - new.first <= (serverMessageSequence' - n + 1) * MAX_SNAPSHOT_ENTITIES
      <4>1. (serverMessageSequence' - n + 1) * MAX_SNAPSHOT_ENTITIES = MAX_SNAPSHOT_ENTITIES
        <5>1. serverMessageSequence' - n + 1 = 1
          <6>1. serverMessageSequence' = n
            BY <3>1
          <6>2. n - n + 1 = 1
            OBVIOUS
          <6>. QED
            BY <6>1, <6>2
        <5>2. MAX_SNAPSHOT_ENTITIES \in Nat
          BY <1>1, Bounds
        <5>. QED
          BY <5>1, <5>2
      <4>2. parseEntitiesNum' - new.first = Count(world)
        BY <1>5, <1>10, <1>9, <1>12
      <4>. QED
        BY <1>5, <4>1, <4>2
    <3>6. Framed(n, new.truth)'
      <4>1. Framed(m.number, m.truth)
        BY <1>1, <1>3 DEF Deltas, Sound
      <4>2. n = m.number /\ new.truth = m.truth
        BY <1>10, <3>1
      <4>3. Framed(n, new.truth)
        BY <4>1, <4>2
      <4>. QED
        BY <1>2, <4>3 DEF Framed
    <3>. QED
      BY <1>10, <1>11, <3>1, <3>2, <3>3, <3>4, <3>5, <3>6 DEF InRing
  <2>2. ASSUME NEW s \in 0 .. PACKET_BACKUP - 1, s # Masked(m.number), s \in Skipped(m.number)
        PROVE  InRing(s)'
    BY <1>6, <1>13, <2>2 DEF InRing
  <2>3. ASSUME NEW s \in 0 .. PACKET_BACKUP - 1, s # Masked(m.number), s \notin Skipped(m.number),
               snapshots[s].valid
        PROVE  InRing(s)'
    <3>1. PICK r \in SnapType : r = snapshots'[s] /\ r = snapshots[s]
      BY <1>1, <1>6, <2>3, SlotTypes
    <3>2. PICK n \in Nat : n = r.number
      BY <3>1 DEF SnapType
    <3>3. /\ n \in 1 .. snap /\ snap < n + PACKET_BACKUP /\ Masked(n) = s
          /\ clServerId <= r.truth.map /\ r.truth.map <= serverId
          /\ r.truth.map = clServerId => r.world = r.truth.world
          /\ parseEntitiesNum - r.first <= (serverMessageSequence - n + 1) * MAX_SNAPSHOT_ENTITIES
          /\ Framed(n, r.truth)
      BY <1>1, <2>3, <3>1, <3>2 DEF Ring, InRing
    <3>4. n \in 1 .. snap' /\ snap' < n + PACKET_BACKUP
      <4>1. m.number < n + PACKET_BACKUP
        BY <1>1, <1>8, <1>11, <2>3, <3>3, NotSkipped
      <4>. QED
        BY <1>6, <1>8, <1>11, <1>9, <3>3, <4>1
    <3>5. parseEntitiesNum' - r.first <= (serverMessageSequence' - n + 1) * MAX_SNAPSHOT_ENTITIES
      <4>1. PICK a \in Int, b \in Int :
              a = serverMessageSequence - n + 1 /\ b = serverMessageSequence' - n + 1 /\ a < b
        <5>1. serverMessageSequence \in Nat /\ serverMessageSequence' \in Nat
          BY <1>8, <1>9, <1>12
        <5>2. serverMessageSequence < serverMessageSequence'
          BY <1>8, <1>12
        <5>. QED
          BY <5>1, <5>2
      <4>2. MAX_SNAPSHOT_ENTITIES \in Nat /\ r.first \in Nat
        BY <1>1, <3>1, Bounds, SlotTypes
      <4>3. a * MAX_SNAPSHOT_ENTITIES + MAX_SNAPSHOT_ENTITIES <= b * MAX_SNAPSHOT_ENTITIES
        BY <4>1, <4>2, Room
      <4>4. PICK x \in Int, y \in Int : x = a * MAX_SNAPSHOT_ENTITIES /\ y = b * MAX_SNAPSHOT_ENTITIES
        BY <4>2
      <4>5. x + MAX_SNAPSHOT_ENTITIES <= y /\ parseEntitiesNum - r.first <= x
        BY <3>3, <4>1, <4>3, <4>4
      <4>6. parseEntitiesNum' - r.first <= y
        BY <1>5, <1>9, <1>12, <4>2, <4>5
      <4>. QED
        BY <4>1, <4>4, <4>6
    <3>6. Framed(n, r.truth)'
      BY <1>2, <3>3 DEF Framed
    <3>7. clServerId' <= r.truth.map /\ r.truth.map <= serverId'
          /\ (r.truth.map = clServerId' => r.world = r.truth.world)
      BY <1>2, <1>6, <3>3
    <3>. QED
      BY <3>1, <3>2, <3>3, <3>4, <3>5, <3>6, <3>7 DEF InRing
  <2>4. ASSUME NEW s \in 0 .. PACKET_BACKUP - 1, s # Masked(m.number), s \notin Skipped(m.number),
               ~snapshots[s].valid
        PROVE  InRing(s)'
    BY <1>6, <2>4 DEF InRing
  <2>5. Held(snap)'
    BY <1>6, <1>10, <1>11 DEF Held
  <2>. QED
    BY <2>1, <2>2, <2>3, <2>4, <2>5 DEF Ring
<1>21. Deltas'
  <2>1. state' = "CS_ACTIVE" /\ deltaMessage' > 0 => Has(deltaMessage)'
    BY <1>1, <1>2, <1>15 DEF Deltas
  <2>2. \A j \in DOMAIN toServer :
          toServer[j].serverId = serverId /\ toServer[j].delta => Has(toServer[j].ack)'
    BY <1>1, <1>2, <1>15 DEF Deltas
  <2>3. ASSUME NEW x \in OnWay', x.type = "snapshot" PROVE Sound(x)'
    <3>1. x \in OnWay /\ x.number > m.number /\ x.number \in Nat /\ x.lastframe \in Nat
      BY <1>1, <1>7, OnWayTypes, MessageTypes
    <3>2. Sound(x)
      BY <1>1, <2>3, <3>1 DEF Deltas
    <3>3. Framed(x.number, x.truth)'
      BY <1>2, <3>2 DEF Sound, Framed
    <3>4. CASE x.lastframe = 0
      BY <3>2, <3>3, <3>4 DEF Sound
    <3>5. CASE x.lastframe > 0
      <4>1. PICK b \in Int : b = x.number - x.lastframe
        BY <3>1
      <4>2. /\ x.truth.map = clServerId /\ x.lastframe < PACKET_BACKUP - 3 /\ Has(b)
            /\ \A g \in OnWay : g.type = "gamestate" => g.number > x.number
            /\ snapshots[Masked(b)].truth.map = x.truth.map
            /\ x.changes = Diff(snapshots[Masked(b)].truth.world, x.truth.world, x.truth.map)
        BY <3>2, <3>5, <4>1 DEF Sound
      <4>3. b \in 1 .. snap /\ m.number < b + PACKET_BACKUP
        <5>1. b \in 1 .. snap
          BY <4>2 DEF Has
        <5>2. PACKET_BACKUP \in Nat
          BY <1>1, Bounds
        <5>. QED
          BY <1>8, <3>1, <4>1, <4>2, <5>1, <5>2
      <4>4. snapshots'[Masked(b)] = snapshots[Masked(b)] /\ Has(b)'
        BY <1>14, <1>15, <4>2, <4>3
      <4>5. \A g \in OnWay' : g.type = "gamestate" => g.number > x.number
        BY <1>7, <4>2
      <4>. QED
        BY <1>6, <3>3, <3>5, <4>1, <4>2, <4>4, <4>5 DEF Sound
    <3>. QED
      BY <3>1, <3>4, <3>5
  <2>. QED
    BY <1>2, <2>1, <2>2, <2>3 DEF Deltas
<1>. QED
  BY <1>16, <1>17, <1>18, <1>19, <1>20, <1>21 DEF SnapshotsInv

\* A message of the server arrives.
LEMMA ParseKeeps ==
    ASSUME SnapshotsInv, CL_ParseServerMessage
    PROVE  SnapshotsInv'
<1>1. PICK i \in DOMAIN toClient :
        /\ toClient' = SubSeq(toClient, i + 1, Len(toClient))
        /\ serverMessageSequence' = toClient[i].number
        /\ \/ toClient[i].type = "gamestate" /\ CL_ParseGamestate(toClient[i])
           \/ toClient[i].type = "snapshot" /\ CL_ParseSnapshot(toClient[i])
  BY DEF CL_ParseServerMessage
<1>2. UNCHANGED <<serverVars, toServer>>
  BY DEF CL_ParseServerMessage
<1>. QED
  BY <1>1, <1>2, GamestateKeeps, SnapshotKeeps

\* The invariant holds at first,
LEMMA SnapshotsInitially ==
    ASSUME SnapshotsInit
    PROVE  SnapshotsInv
<1>1. /\ PACKET_BACKUP \in Nat /\ PACKET_BACKUP > 3 /\ MAX_SNAPSHOT_ENTITIES \in Nat
      /\ MaxServerId \in Nat /\ MaxServerId > 0 /\ MaxSequence \in Nat
  BY SnapshotsAssumption
<1>2. /\ toClient = <<>> /\ toServer = <<>> /\ queue = <<>> /\ clServerId = 0 /\ serverId = 1
      /\ state = "CS_CONNECTED" /\ deltaMessage = 0 /\ snap = 0 /\ serverMessageSequence = 0
      /\ outgoingSequence = 1 /\ ~dumped
      /\ snapshots = [s \in 0 .. PACKET_BACKUP - 1 |-> Invalid]
  BY DEF SnapshotsInit
<1>3. None \in [Entities -> Nat] /\ None \in [Entities -> Int]
  BY DEF None
<1>4. SnapshotsTypeOK
  <2>1. frames \in [0 .. PACKET_BACKUP - 1 -> [map : Nat, first : Nat, world : [Entities -> Nat]]]
    <3>1. [map |-> 0, first |-> 0, world |-> None]
            \in [map : Nat, first : Nat, world : [Entities -> Nat]]
      BY <1>3
    <3>. QED
      BY <3>1 DEF SnapshotsInit
  <2>2. /\ serverId \in 1 .. MaxServerId /\ outgoingSequence \in 1 .. MaxSequence + 1
        /\ clServerId \in 0 .. serverId /\ serverMessageSequence \in 0 .. outgoingSequence - 1
        /\ snap \in 0 .. serverMessageSequence
    BY <1>1, <1>2
  <2>3. toServer \in Seq(Packet) /\ DOMAIN snapshots = 0 .. PACKET_BACKUP - 1
    BY <1>2
  <2>. QED
    BY <2>1, <2>2, <2>3 DEF SnapshotsInit, SnapshotsTypeOK
<1>5. Types
  <2>1. Invalid \in SnapType
    BY <1>3 DEF Invalid, SnapType, Truth
  <2>2. queue \in Seq(ServerMessage) /\ toClient \in Seq(ServerMessage) /\ Len(queue) = 0
    BY <1>2
  <2>3. snapshots \in [0 .. PACKET_BACKUP - 1 -> SnapType]
    BY <1>2, <2>1
  <2>. QED
    BY <1>1, <1>2, <1>4, <2>2, <2>3 DEF Types
<1>6. OnWay = {}
  BY <1>2 DEF OnWay
<1>7. Ordered /\ Gamestates /\ Maps
  BY <1>2, <1>6 DEF Ordered, Gamestates, Maps
<1>8. Ring
  BY <1>2 DEF Ring, InRing, Invalid
<1>9. Deltas
  BY <1>2, <1>6 DEF Deltas
<1>. QED
  BY <1>5, <1>7, <1>8, <1>9 DEF SnapshotsInv

\* every step keeps it,
LEMMA SnapshotsKeep ==
    ASSUME SnapshotsInv, [SnapshotsNext]_snapshotsVars
    PROVE  SnapshotsInv'
<1>1. CASE SV_SendClientSnapshot
  BY <1>1, SendKeeps
<1>2. CASE SV_Netchan_TransmitNextFragment
  BY <1>2, TransmitKeeps
<1>3. CASE SV_ExecuteClientMessage
  BY <1>3, ExecuteKeeps
<1>4. CASE SV_SpawnServer
  BY <1>4, SpawnServerKeeps
<1>5. CASE CL_ParseServerMessage
  BY <1>5, ParseKeeps
<1>6. CASE CL_WritePacket
  BY <1>6, WritePacketKeeps
<1>7. CASE UNCHANGED snapshotsVars
  <2>1. /\ serverId' = serverId /\ nextSnapshotEntities' = nextSnapshotEntities /\ state' = state
        /\ gentity' = gentity /\ frames' = frames /\ outgoingSequence' = outgoingSequence
        /\ deltaMessage' = deltaMessage /\ gamestateMessageNum' = gamestateMessageNum
        /\ queue' = queue /\ toClient' = toClient /\ toServer' = toServer
        /\ serverMessageSequence' = serverMessageSequence /\ clServerId' = clServerId
        /\ snapshots' = snapshots /\ snap' = snap /\ parseEntitiesNum' = parseEntitiesNum
        /\ dumped' = dumped
    BY <1>7 DEF snapshotsVars, serverVars, clientVars
  <2>2. OnWay' = OnWay
    BY <2>1 DEF OnWay
  <2>3. Types' = Types
    BY <2>1 DEF Types, SnapshotsTypeOK
  <2>4. Ordered' = Ordered /\ Gamestates' = Gamestates /\ Maps' = Maps
    BY <2>1, <2>2 DEF Ordered, Gamestates, Maps
  <2>5. Ring' = Ring
    BY <2>1 DEF Ring, InRing, Held, Framed
  <2>6. Deltas' = Deltas
    BY <2>1, <2>2 DEF Deltas, Sound, Held, Has, Framed
  <2>. QED
    BY <2>3, <2>4, <2>5, <2>6 DEF SnapshotsInv
<1>. QED
  BY <1>1, <1>2, <1>3, <1>4, <1>5, <1>6, <1>7 DEF SnapshotsNext

\* and so it holds always.
LEMMA SnapshotsInvariance ==
    SnapshotsSpec => []SnapshotsInv
<1>1. SnapshotsInit => SnapshotsInv
  BY SnapshotsInitially
<1>2. SnapshotsInv /\ [SnapshotsNext]_snapshotsVars => SnapshotsInv'
  BY SnapshotsKeep
<1>. QED
  BY <1>1, <1>2, PTL DEF SnapshotsSpec

\* The state of the server, of its client and of the rings stays within its types
\* (server_t, client_t, clientActive_t).
THEOREM SnapshotsTypeCorrect ==
    SnapshotsSpec => []SnapshotsTypeOK
<1>1. SnapshotsInv => SnapshotsTypeOK
  BY DEF SnapshotsInv, Types
<1>. QED
  BY <1>1, SnapshotsInvariance, PTL

\* No snapshot is dumped by CL_ParseSnapshot: the base that the server chooses, knowing only
\* acknowledgements, is always still in both rings of the client.
THEOREM BasesAreThere ==
    SnapshotsSpec => []DeltasApply
<1>1. SnapshotsInv => DeltasApply
  BY DEF SnapshotsInv, Types, DeltasApply
<1>. QED
  BY <1>1, SnapshotsInvariance, PTL

\* The game of the client never gets another snapshot than it asks CL_GetSnapshot for, and
\* what it gets is what the server saw.
THEOREM SnapshotsCorrect ==
    SnapshotsSpec => []SnapshotsIntact
<1>1. ASSUME SnapshotsInv PROVE SnapshotsIntact
  <2>1. Types /\ Ring
    BY <1>1 DEF SnapshotsInv
  <2>2. SUFFICES ASSUME NEW n \in 1 .. snap, CL_GetSnapshot(n)
                 PROVE  LET s == snapshots[Masked(n)]
                        IN  s.number = n /\ (s.truth.map = clServerId => s.world = s.truth.world)
    BY DEF SnapshotsIntact
  <2>3. snap \in Nat /\ PACKET_BACKUP \in Nat /\ n \in Nat /\ n <= snap
    BY <2>1, Bounds
  <2>4. PICK slot \in 0 .. PACKET_BACKUP - 1 : slot = Masked(n)
    BY <2>3, MaskedRange
  <2>5. snap - n < PACKET_BACKUP /\ snapshots[slot].valid
    BY <2>2, <2>4 DEF CL_GetSnapshot
  <2>6. PICK k \in 1 .. snap :
          /\ k = snapshots[slot].number /\ snap < k + PACKET_BACKUP /\ Masked(k) = slot
          /\ snapshots[slot].truth.map = clServerId
               => snapshots[slot].world = snapshots[slot].truth.world
    BY <2>1, <2>5 DEF Ring, InRing
  <2>7. ~(k < n)
    <3>1. k < n => k \in Nat /\ n < k + PACKET_BACKUP
      BY <2>3, <2>6
    <3>. QED
      BY <2>3, <2>4, <2>6, <3>1, MaskedDistinct
  <2>8. ~(n < k)
    <3>1. n < k => k \in Nat /\ k < n + PACKET_BACKUP
      BY <2>3, <2>5, <2>6
    <3>. QED
      BY <2>3, <2>4, <2>6, <3>1, MaskedDistinct
  <2>9. k = n
    BY <2>3, <2>6, <2>7, <2>8
  <2>. QED
    BY <2>4, <2>6, <2>9
<1>2. SnapshotsInv => SnapshotsIntact
  BY <1>1
<1>. QED
  BY <1>2, SnapshotsInvariance, PTL
================================================================================
