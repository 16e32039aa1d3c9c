-------------------------- MODULE SpawnQueueProofs --------------------------
(***************************************************************************)
(* Proofs about SpawnQueue for any number of clients and teams, on a ring  *)
(* that has a cell more than there are clients.                            *)
(*                                                                         *)
(* A cell is spoken of by its place, how far it is behind the front.  The  *)
(* places below the length hold clients, none of them twice, and the       *)
(* others hold nobody (Ordered).  As there are more cells than clients,    *)
(* the ring is never full (RoomForOne), and so never taken for empty.      *)
(*                                                                         *)
(* What G_StopFromFollowing and respawn compute for one client after the   *)
(* other is reasoned about by an induction over sets (Induction); that     *)
(* nobody is lost from a queue rests on it, as nobody may start or stop to *)
(* play meanwhile (SamePlayers), and on the number of a client that does   *)
(* not follow being its own (Fitting).                                     *)
(***************************************************************************)
EXTENDS SpawnQueue, TLAPS, FiniteSetTheorems, SequenceTheorems, WellFoundedInduction

Places == 0 .. MAX_CLIENTS - 1

\* The invariant of a queue.
Ordered(sq) ==
  /\ sq \in QueueType
  /\ \A k \in Places : k < G_GetSpawnQueueLength(sq) => sq.clients[At(sq, k)] \in Client
  /\ \A k \in Places : k >= G_GetSpawnQueueLength(sq) => sq.clients[At(sq, k)] = None
  /\ \A j, k \in Places :
        /\ j < G_GetSpawnQueueLength(sq) /\ k < G_GetSpawnQueueLength(sq)
        /\ sq.clients[At(sq, j)] = sq.clients[At(sq, k)]
        => j = k

QueuesOrdered ==
  /\ queue \in [Team -> QueueType]
  /\ \A t \in Team : Ordered(queue[t])

-----------------------------------------------------------------------------
(* Cells, places and lengths. *)

\* Places and cells correspond to each other.
LEMMA PlaceOfCell ==
  ASSUME NEW sq \in QueueType
  PROVE  /\ \A k \in Places : At(sq, k) \in Cell /\ Place(sq, At(sq, k)) = k
         /\ \A i \in Cell : Place(sq, i) \in Places /\ At(sq, Place(sq, i)) = i
<1>1. sq.front \in Cell
  BY DEF QueueType
<1>. QED
  BY <1>1, SlotsAssumption DEF Cell, Places, At, Place

\* From a place to the next one.
LEMMA NextPlace ==
  ASSUME NEW sq \in QueueType, NEW k \in Places, k < MAX_CLIENTS - 1
  PROVE  /\ k + 1 \in Places
         /\ QUEUE_PLUS1(At(sq, k)) = At(sq, k + 1)
<1>1. sq.front \in Cell
  BY DEF QueueType
<1>. QED
  BY <1>1, SlotsAssumption DEF Cell, Places, At, QUEUE_PLUS1

\* Lengths of rings that share an end.
LEMMA Shorter ==
  ASSUME NEW sq \in QueueType, NEW new \in QueueType,
         G_GetSpawnQueueLength(sq) > 0,
         \/ new.front = sq.front /\ new.back = QUEUE_MINUS1(sq.back)
         \/ new.front = QUEUE_PLUS1(sq.front) /\ new.back = sq.back
  PROVE  G_GetSpawnQueueLength(new) = G_GetSpawnQueueLength(sq) - 1
<1>1. PICK f, b \in Int : f = sq.front /\ b = sq.back /\ f \in Cell /\ b \in Cell
  BY SlotsAssumption DEF QueueType, Cell
<1>2. PICK g, d \in Int : g = new.front /\ d = new.back
  BY SlotsAssumption DEF QueueType, Cell
<1>3. CASE g = f /\ d = QUEUE_MINUS1(b)
  BY <1>1, <1>2, <1>3, SlotsAssumption DEF G_GetSpawnQueueLength, QUEUE_MINUS1, Cell
<1>4. CASE g = QUEUE_PLUS1(f) /\ d = b
  BY <1>1, <1>2, <1>4, SlotsAssumption DEF G_GetSpawnQueueLength, QUEUE_PLUS1, Cell
<1>. QED
  BY <1>1, <1>2, <1>3, <1>4

\* The length is that of a ring with at least one cell free (G_GetSpawnQueueLength).
LEMMA LengthRange ==
  ASSUME NEW sq \in QueueType
  PROVE  G_GetSpawnQueueLength(sq) \in 0 .. MAX_CLIENTS - 1
<1>1. sq.front \in Cell /\ sq.back \in Cell
  BY DEF QueueType
<1>. QED
  BY <1>1, SlotsAssumption DEF Cell, G_GetSpawnQueueLength

\* The last client waits at the back.
LEMMA BackPlace ==
  ASSUME NEW sq \in QueueType
  PROVE  /\ QUEUE_PLUS1(sq.back) \in Cell
         /\ QUEUE_PLUS1(sq.back) = At(sq, G_GetSpawnQueueLength(sq))
<1>1. sq.front \in Cell /\ sq.back \in Cell
  BY DEF QueueType
<1>. QED
  BY <1>1, SlotsAssumption DEF Cell, G_GetSpawnQueueLength, QUEUE_PLUS1, At

\* The cells with clients are those that are found (G_SearchSpawnQueue).
LEMMA SearchPlaces ==
  ASSUME NEW sq, Ordered(sq), NEW c \in Client
  PROVE  G_SearchSpawnQueue(sq, c) <=>
           \E k \in Places : k < G_GetSpawnQueueLength(sq) /\ sq.clients[At(sq, k)] = c
<1>1. sq \in QueueType
  BY DEF Ordered
<1>2. c # None
  BY SlotsAssumption DEF Client, None
<1>3. G_GetSpawnQueueLength(sq) \in Int
  BY <1>1, LengthRange, SlotsAssumption
<1>. QED
  BY <1>1, <1>2, <1>3, PlaceOfCell DEF Ordered, G_SearchSpawnQueue, Places

\* The line has at each position the client at the place before it.
LEMMA LineAt ==
  ASSUME NEW sq \in QueueType
  PROVE  /\ Line(sq) = [k \in 1 .. G_GetSpawnQueueLength(sq) |-> sq.clients[At(sq, k - 1)]]
         /\ Line(sq) \in Seq(Client \cup {None})
         /\ Len(Line(sq)) = G_GetSpawnQueueLength(sq)
<1>1. G_GetSpawnQueueLength(sq) \in 0 .. MAX_CLIENTS - 1
  BY LengthRange
<1>3. Line(sq) = [k \in 1 .. G_GetSpawnQueueLength(sq) |-> sq.clients[At(sq, k - 1)]]
  BY DEF Line
<1>4. \A k \in 1 .. G_GetSpawnQueueLength(sq) : sq.clients[At(sq, k - 1)] \in Client \cup {None}
  <2>. SUFFICES ASSUME NEW k \in 1 .. G_GetSpawnQueueLength(sq)
                PROVE  sq.clients[At(sq, k - 1)] \in Client \cup {None}
    OBVIOUS
  <2>1. k - 1 \in Places
    BY <1>1, SlotsAssumption DEF Places
  <2>2. sq.clients \in [Cell -> Client \cup {None}]
    BY DEF QueueType
  <2>. QED
    BY <2>1, <2>2, PlaceOfCell
<1>5. G_GetSpawnQueueLength(sq) \in Nat
  BY <1>1
<1>. QED
  BY <1>3, <1>4, <1>5

\* No client twice among those that wait, and one that does not wait: there is room for it.
LEMMA RoomForOne ==
  ASSUME maxclients < MAX_CLIENTS,
         NEW sq, Ordered(sq), NEW c \in Client, ~G_SearchSpawnQueue(sq, c)
  PROVE  G_GetSpawnQueueLength(sq) < MAX_CLIENTS - 1
<1> DEFINE n == G_GetSpawnQueueLength(sq)
<1> DEFINE f == [k \in 0 .. n - 1 |-> sq.clients[At(sq, k)]]
<1>1. n \in 0 .. MAX_CLIENTS - 1
  BY LengthRange DEF Ordered
<1>2. SUFFICES ASSUME n >= MAX_CLIENTS - 1 PROVE FALSE
  BY <1>1, SlotsAssumption
<1>3. IsFiniteSet(0 .. n - 1) /\ Cardinality(0 .. n - 1) = n
  <2>1. n - 1 \in Int
    BY <1>1, SlotsAssumption
  <2>2. /\ IsFiniteSet(0 .. n - 1)
        /\ Cardinality(0 .. n - 1) = IF 0 > n - 1 THEN 0 ELSE (n - 1) - 0 + 1
    BY <2>1, FS_Interval
  <2>. QED
    BY <1>1, <1>2, <2>2, SlotsAssumption
<1>4. IsFiniteSet(Client) /\ Cardinality(Client) = maxclients
  <2>1. maxclients - 1 \in Int
    BY SlotsAssumption
  <2>2. /\ IsFiniteSet(0 .. maxclients - 1)
        /\ Cardinality(0 .. maxclients - 1) =
             IF 0 > maxclients - 1 THEN 0 ELSE (maxclients - 1) - 0 + 1
    BY <2>1, FS_Interval
  <2>. QED
    BY <2>2, SlotsAssumption DEF Client
<1>5. IsFiniteSet(Client \ {c}) /\ Cardinality(Client \ {c}) = maxclients - 1
  BY <1>4, FS_RemoveElement
<1>6. \A k \in 0 .. n - 1 : k \in Places /\ sq.clients[At(sq, k)] \in Client \ {c}
  <2>1. \A k \in 0 .. n - 1 : k \in Places /\ k < n
    BY <1>1, SlotsAssumption DEF Places
  <2>. QED
    BY <2>1, SearchPlaces DEF Ordered
<1>7. f \in [0 .. n - 1 -> Client \ {c}]
  BY <1>6
<1>8. Cardinality(Client \ {c}) < Cardinality(0 .. n - 1)
  BY <1>1, <1>2, <1>3, <1>5, SlotsAssumption
<1>9. PICK j, k \in 0 .. n - 1 : j # k /\ f[j] = f[k]
  <2>1. PICK S, T, g : S = 0 .. n - 1 /\ T = Client \ {c} /\ g = f
    OBVIOUS
  <2>2. /\ IsFiniteSet(S) /\ IsFiniteSet(T)
        /\ Cardinality(T) < Cardinality(S)
        /\ g \in [S -> T]
    BY <2>1, <1>3, <1>5, <1>7, <1>8
  <2>3. \E x, y \in S : x # y /\ g[x] = g[y]
    BY <2>2, FS_PigeonHole
  <2>. QED
    BY <2>1, <2>3
<1>10. sq.clients[At(sq, j)] = sq.clients[At(sq, k)] /\ j < n /\ k < n
  BY <1>1, <1>9, SlotsAssumption
<1>. QED
  BY <1>6, <1>9, <1>10 DEF Ordered

-----------------------------------------------------------------------------
(* What the operations do, place by place. *)

\* Who is at a place.
Held(sq, k) == sq.clients[At(sq, k)]

\* The new one is at the place after the last (G_PushSpawnQueue).
LEMMA PushPlaces ==
  ASSUME NEW sq, Ordered(sq), NEW c \in Client, ~G_SearchSpawnQueue(sq, c),
         G_GetSpawnQueueLength(sq) < MAX_CLIENTS - 1
  PROVE  LET new == G_PushSpawnQueue(sq, c)
             n == G_GetSpawnQueueLength(sq)
         IN  /\ new \in QueueType
             /\ G_GetSpawnQueueLength(new) = n + 1
             /\ \A k \in Places : Held(new, k) = IF k = n THEN c ELSE Held(sq, k)
<1>1. sq \in QueueType
  BY DEF Ordered
<1>2. sq.front \in Cell /\ sq.back \in Cell /\ sq.clients \in [Cell -> Client \cup {None}]
  BY <1>1 DEF QueueType
<1>3. PICK back : back = QUEUE_PLUS1(sq.back)
  OBVIOUS
<1>4. back \in Cell /\ back = At(sq, G_GetSpawnQueueLength(sq))
  BY <1>1, <1>3, BackPlace
<1>5. PICK new : new = G_PushSpawnQueue(sq, c)
  OBVIOUS
<1>6. new = [sq EXCEPT !.back = back, !.clients[back] = c]
  BY <1>3, <1>5 DEF G_PushSpawnQueue
<1>7. /\ new \in QueueType
      /\ new.front = sq.front /\ new.back = back
      /\ new.clients = [sq.clients EXCEPT ![back] = c]
  BY <1>1, <1>4, <1>6 DEF QueueType
<1>8. G_GetSpawnQueueLength(new) = G_GetSpawnQueueLength(sq) + 1
  BY <1>2, <1>3, <1>7, SlotsAssumption DEF G_GetSpawnQueueLength, QUEUE_PLUS1, Cell
<1>9. ASSUME NEW k \in Places
      PROVE  Held(new, k) = IF k = G_GetSpawnQueueLength(sq) THEN c ELSE Held(sq, k)
  <2>1. At(new, k) = At(sq, k) /\ At(sq, k) \in Cell
    BY <1>1, <1>7, PlaceOfCell DEF At
  <2>2. G_GetSpawnQueueLength(sq) \in Places
    BY <1>1, LengthRange DEF Places
  <2>3. At(sq, k) = back <=> k = G_GetSpawnQueueLength(sq)
    BY <1>1, <1>4, <2>2, PlaceOfCell
  <2>. QED
    BY <1>2, <1>7, <2>1, <2>3 DEF Held
<1>. QED
  BY <1>5, <1>7, <1>8, <1>9

\* Everybody is one place nearer to the front, which the first one has left (Popped).
LEMMA PopPlaces ==
  ASSUME NEW sq, Ordered(sq), G_GetSpawnQueueLength(sq) > 0
  PROVE  /\ Popped(sq) \in QueueType
         /\ G_GetSpawnQueueLength(Popped(sq)) = G_GetSpawnQueueLength(sq) - 1
         /\ \A k \in Places :
              Held(Popped(sq), k) = IF k = MAX_CLIENTS - 1 THEN None ELSE Held(sq, k + 1)
<1>1. sq \in QueueType
  BY DEF Ordered
<1>2. sq.front \in Cell /\ sq.back \in Cell /\ sq.clients \in [Cell -> Client \cup {None}]
  BY <1>1 DEF QueueType
<1>3. PICK new : new = Popped(sq)
  OBVIOUS
<1>4. QUEUE_PLUS1(sq.front) \in Cell
  BY <1>2, SlotsAssumption DEF QUEUE_PLUS1, Cell
<1>5. /\ new \in QueueType
      /\ new.front = QUEUE_PLUS1(sq.front) /\ new.back = sq.back
      /\ new.clients = [sq.clients EXCEPT ![sq.front] = None]
  BY <1>1, <1>2, <1>3, <1>4 DEF QueueType, Popped
<1>6. G_GetSpawnQueueLength(new) = G_GetSpawnQueueLength(sq) - 1
  BY <1>1, <1>5, Shorter
<1>7. ASSUME NEW k \in Places
      PROVE  Held(new, k) = IF k = MAX_CLIENTS - 1 THEN None ELSE Held(sq, k + 1)
  <2>1. CASE k = MAX_CLIENTS - 1
    <3>1. At(new, k) = sq.front
      BY <1>2, <1>5, <2>1, SlotsAssumption DEF At, QUEUE_PLUS1, Cell
    <3>. QED
      BY <1>2, <1>5, <2>1, <3>1 DEF Held
  <2>2. CASE k # MAX_CLIENTS - 1
    <3>1. k + 1 \in Places /\ k < MAX_CLIENTS - 1
      BY <2>2, SlotsAssumption DEF Places
    <3>2. At(sq, k + 1) \in Cell /\ Place(sq, At(sq, k + 1)) = k + 1
      BY <1>1, <3>1, PlaceOfCell
    <3>3. Place(sq, sq.front) = 0 /\ k + 1 # 0
      BY <1>2, SlotsAssumption DEF Place, Cell, Places
    <3>4. At(new, k) = At(sq, k + 1)
      <4>1. PICK f \in Int : f = sq.front /\ f \in Cell
        BY <1>2, SlotsAssumption DEF Cell
      <4>. QED
        BY <1>5, <3>1, <4>1, SlotsAssumption DEF At, QUEUE_PLUS1, Cell, Places
    <3>. QED
      BY <1>2, <1>5, <2>2, <3>2, <3>3, <3>4 DEF Held
  <2>. QED
    BY <2>1, <2>2
<1>. QED
  BY <1>3, <1>5, <1>6, <1>7

\* Those behind the client that leaves are one place nearer to the front, and nobody else moves
\* (G_RemoveFromSpawnQueue).
LEMMA RemovePlaces ==
  ASSUME NEW sq, Ordered(sq), NEW c, NEW p \in Places,
         p < G_GetSpawnQueueLength(sq), Held(sq, p) = c
  PROVE  LET new == G_RemoveFromSpawnQueue(sq, c)
             n == G_GetSpawnQueueLength(sq)
         IN  /\ new \in QueueType
             /\ G_GetSpawnQueueLength(new) = n - 1
             /\ \A k \in Places : Held(new, k) = IF p <= k /\ k < n THEN Held(sq, k + 1) ELSE Held(sq, k)
<1>1. sq \in QueueType
  BY DEF Ordered
<1>2. sq.front \in Cell /\ sq.back \in Cell /\ sq.clients \in [Cell -> Client \cup {None}]
  BY <1>1 DEF QueueType
<1> DEFINE n == G_GetSpawnQueueLength(sq)
<1>3. n \in 1 .. MAX_CLIENTS - 1
  BY <1>1, LengthRange, SlotsAssumption DEF Places
<1>4. PICK found : found = {i \in Waiting(sq) : sq.clients[i] = c}
  OBVIOUS
<1>5. found = {At(sq, p)}
  <2>1. At(sq, p) \in found
    BY <1>1, <1>4, PlaceOfCell DEF Waiting, Held
  <2>2. ASSUME NEW i \in found PROVE i = At(sq, p)
    <3>1. i \in Cell /\ Place(sq, i) \in Places /\ Place(sq, i) < n /\ sq.clients[i] = c
      BY <1>1, <1>4, PlaceOfCell DEF Waiting
    <3>2. At(sq, Place(sq, i)) = i
      BY <1>1, <3>1, PlaceOfCell
    <3>3. Place(sq, i) = p
      BY <3>1, <3>2 DEF Ordered, Held
    <3>. QED
      BY <3>2, <3>3
  <2>. QED
    BY <2>1, <2>2
<1>6. PICK moved : moved = {i \in Waiting(sq) : p <= Place(sq, i)}
  OBVIOUS
<1>7. PICK new : new = G_RemoveFromSpawnQueue(sq, c)
  OBVIOUS
<1>8. PICK clients :
        clients = [i \in Cell |-> IF i \in moved THEN sq.clients[QUEUE_PLUS1(i)] ELSE sq.clients[i]]
  OBVIOUS
<1>9. new = [sq EXCEPT !.back = QUEUE_MINUS1(sq.back), !.clients = clients]
  <2>1. Place(sq, At(sq, p)) = p
    BY <1>1, PlaceOfCell
  <2>2. moved = {i \in Waiting(sq) : \E f \in found : Place(sq, f) <= Place(sq, i)}
    BY <1>5, <1>6, <2>1
  <2>. QED
    BY <1>4, <1>5, <1>7, <1>8, <2>2 DEF G_RemoveFromSpawnQueue
<1>10. QUEUE_MINUS1(sq.back) \in Cell /\ \A i \in Cell : QUEUE_PLUS1(i) \in Cell
  BY <1>2, SlotsAssumption DEF QUEUE_MINUS1, QUEUE_PLUS1, Cell
<1>11. clients \in [Cell -> Client \cup {None}]
  BY <1>2, <1>8, <1>10
<1>12. /\ new \in QueueType
       /\ new.front = sq.front /\ new.back = QUEUE_MINUS1(sq.back)
       /\ new.clients = clients
  BY <1>1, <1>9, <1>10, <1>11 DEF QueueType
<1>13. G_GetSpawnQueueLength(new) = n - 1
  BY <1>1, <1>3, <1>12, Shorter
<1>14. ASSUME NEW k \in Places
       PROVE  Held(new, k) = IF p <= k /\ k < n THEN Held(sq, k + 1) ELSE Held(sq, k)
  <2>1. At(new, k) = At(sq, k) /\ At(sq, k) \in Cell /\ Place(sq, At(sq, k)) = k
    BY <1>1, <1>12, PlaceOfCell DEF At
  <2>2. At(sq, k) \in moved <=> p <= k /\ k < n
    BY <1>6, <2>1 DEF Waiting
  <2>3. k < n => QUEUE_PLUS1(At(sq, k)) = At(sq, k + 1)
    BY <1>1, <1>3, NextPlace, SlotsAssumption DEF Places
  <2>. QED
    BY <1>8, <1>12, <2>1, <2>2, <2>3 DEF Held
<1>. QED
  BY <1>7, <1>12, <1>13, <1>14

-----------------------------------------------------------------------------
(* The line after each operation. *)

\* In an ordered queue the line is made of clients, at each position the one held there.
LEMMA OrderedLine ==
  ASSUME NEW sq, Ordered(sq)
  PROVE  /\ Line(sq) \in Seq(Client)
         /\ Len(Line(sq)) = G_GetSpawnQueueLength(sq)
         /\ \A k \in 1 .. G_GetSpawnQueueLength(sq) :
              k - 1 \in Places /\ Line(sq)[k] = Held(sq, k - 1)
<1>1. sq \in QueueType
  BY DEF Ordered
<1>2. G_GetSpawnQueueLength(sq) \in 0 .. MAX_CLIENTS - 1
  BY <1>1, LengthRange
<1>3. PICK n \in Nat : n = G_GetSpawnQueueLength(sq) /\ n <= MAX_CLIENTS - 1
  BY <1>2, SlotsAssumption
<1>4. \A k \in 1 .. n : k - 1 \in Places /\ k - 1 < n
  BY <1>3, SlotsAssumption DEF Places
<1>5. Line(sq) = [k \in 1 .. n |-> Held(sq, k - 1)]
  BY <1>3 DEF Line, Held
<1>6. \A k \in 1 .. n : Held(sq, k - 1) \in Client
  BY <1>3, <1>4 DEF Ordered, Held
<1>7. Line(sq) \in Seq(Client) /\ Len(Line(sq)) = n
  BY <1>5, <1>6
<1>. QED
  BY <1>3, <1>4, <1>5, <1>7

\* Who is found in a queue stands in its line, and the other way round (G_SearchSpawnQueue).
LEMMA SearchLine ==
  ASSUME NEW sq, Ordered(sq), NEW c \in Client
  PROVE  G_SearchSpawnQueue(sq, c) <=> \E k \in DOMAIN Line(sq) : Line(sq)[k] = c
<1>1. G_GetSpawnQueueLength(sq) \in 0 .. MAX_CLIENTS - 1
  BY LengthRange DEF Ordered
<1>2. PICK n \in Nat : n = G_GetSpawnQueueLength(sq) /\ n <= MAX_CLIENTS - 1
  BY <1>1, SlotsAssumption
<1>3. DOMAIN Line(sq) = 1 .. n /\ \A k \in 1 .. n : Line(sq)[k] = Held(sq, k - 1)
  BY <1>2, OrderedLine
<1>4. G_SearchSpawnQueue(sq, c) <=> \E k \in Places : k < n /\ Held(sq, k) = c
  BY <1>2, SearchPlaces DEF Held
<1>5. ASSUME NEW k \in Places, k < n, Held(sq, k) = c
      PROVE  \E i \in 1 .. n : Line(sq)[i] = c
  <2>1. k + 1 \in 1 .. n /\ (k + 1) - 1 = k
    BY <1>5, <1>2, SlotsAssumption DEF Places
  <2>. QED
    BY <1>3, <1>5, <2>1
<1>6. ASSUME NEW i \in 1 .. n, Line(sq)[i] = c
      PROVE  \E k \in Places : k < n /\ Held(sq, k) = c
  <2>1. i - 1 \in Places /\ i - 1 < n
    BY <1>2, SlotsAssumption DEF Places
  <2>. QED
    BY <1>3, <1>6, <2>1
<1>. QED
  BY <1>3, <1>4, <1>5, <1>6

\* A client that is pushed joins the line at its end (G_PushSpawnQueue).
LEMMA PushLine ==
  ASSUME maxclients < MAX_CLIENTS,
         NEW sq, Ordered(sq), NEW c \in Client, ~G_SearchSpawnQueue(sq, c)
  PROVE  /\ Ordered(G_PushSpawnQueue(sq, c))
         /\ Line(G_PushSpawnQueue(sq, c)) = Append(Line(sq), c)
<1>1. PICK new : new = G_PushSpawnQueue(sq, c)
  OBVIOUS
<1>2. G_GetSpawnQueueLength(sq) < MAX_CLIENTS - 1
  BY RoomForOne
<1>3. sq \in QueueType
  BY DEF Ordered
<1>4. G_GetSpawnQueueLength(sq) \in 0 .. MAX_CLIENTS - 1
  BY <1>3, LengthRange
<1>5. PICK n \in Nat : n = G_GetSpawnQueueLength(sq) /\ n < MAX_CLIENTS - 1
  BY <1>2, <1>4, SlotsAssumption
<1>6. /\ new \in QueueType
      /\ G_GetSpawnQueueLength(new) = n + 1
      /\ \A k \in Places : Held(new, k) = IF k = n THEN c ELSE Held(sq, k)
  BY <1>1, <1>2, <1>5, PushPlaces
<1>7. /\ \A k \in Places : k < n => Held(sq, k) \in Client \ {c}
      /\ \A k \in Places : k >= n => Held(sq, k) = None
      /\ \A j, k \in Places : j < n /\ k < n /\ Held(sq, j) = Held(sq, k) => j = k
  BY <1>5, SearchPlaces DEF Ordered, Held
<1>8. \A k \in Places : k \in Int
  BY SlotsAssumption DEF Places
<1>9. Ordered(new)
  <2>1. \A k \in Places : k < n + 1 => Held(new, k) \in Client
    BY <1>6, <1>7, <1>8
  <2>2. \A k \in Places : k >= n + 1 => Held(new, k) = None
    BY <1>6, <1>7, <1>8
  <2>3. ASSUME NEW j \in Places, NEW k \in Places, j < n + 1, k < n + 1,
               Held(new, j) = Held(new, k)
        PROVE  j = k
    BY <1>6, <1>7, <1>8, <2>3
  <2>. QED
    BY <1>6, <2>1, <2>2, <2>3 DEF Ordered, Held
<1>10. Line(new) = Append(Line(sq), c)
  <2>1. PICK s, t : s = Line(new) /\ t = Append(Line(sq), c)
    OBVIOUS
  <2>2. /\ s \in Seq(Client) /\ Len(s) = n + 1
        /\ \A k \in 1 .. n + 1 : k - 1 \in Places /\ s[k] = Held(new, k - 1)
    BY <1>6, <1>9, <2>1, OrderedLine
  <2>3. /\ Line(sq) \in Seq(Client) /\ Len(Line(sq)) = n
        /\ \A k \in 1 .. n : Line(sq)[k] = Held(sq, k - 1)
    BY <1>5, OrderedLine
  <2>4. /\ t \in Seq(Client) /\ Len(t) = n + 1
        /\ \A k \in 1 .. n : t[k] = Held(sq, k - 1)
        /\ t[n + 1] = c
    BY <2>1, <2>3, AppendProperties
  <2>5. ASSUME NEW k \in 1 .. n + 1 PROVE s[k] = t[k]
    <3>1. CASE k = n + 1
      <4>1. k - 1 = n /\ n \in Places
        BY <1>5, <3>1, SlotsAssumption DEF Places
      <4>. QED
        BY <1>6, <2>2, <2>4, <3>1, <4>1
    <3>2. CASE k # n + 1
      <4>1. k \in 1 .. n /\ k - 1 # n
        BY <3>2
      <4>. QED
        BY <1>6, <2>2, <2>4, <4>1
    <3>. QED
      BY <3>1, <3>2
  <2>. QED
    BY <2>1, <2>2, <2>4, <2>5, SeqEqual
<1>. QED
  BY <1>1, <1>9, <1>10

\* When one place is given up and those behind it close up, one client has left the line.
LEMMA ClosedUp ==
  ASSUME NEW sq, Ordered(sq), NEW new \in QueueType,
         NEW p \in Places, p < G_GetSpawnQueueLength(sq),
         G_GetSpawnQueueLength(new) = G_GetSpawnQueueLength(sq) - 1,
         \A k \in Places : Held(new, k) =
           IF k < p THEN Held(sq, k)
           ELSE IF k < G_GetSpawnQueueLength(sq) - 1 THEN Held(sq, k + 1) ELSE None
  PROVE  /\ Ordered(new)
         /\ p + 1 \in DOMAIN Line(sq)
         /\ Line(sq)[p + 1] = Held(sq, p)
         /\ Line(new) = SL!RemoveAt(Line(sq), p + 1)
<1>1. G_GetSpawnQueueLength(sq) \in 0 .. MAX_CLIENTS - 1
  BY LengthRange DEF Ordered
<1>2. PICK n \in Nat : n = G_GetSpawnQueueLength(sq) /\ n <= MAX_CLIENTS - 1
  BY <1>1, SlotsAssumption
<1>3. p \in Nat /\ p < n /\ n - 1 \in Nat
  BY <1>2, SlotsAssumption DEF Places
<1>4. /\ G_GetSpawnQueueLength(new) = n - 1
      /\ \A k \in Places : Held(new, k) =
           IF k < p THEN Held(sq, k) ELSE IF k < n - 1 THEN Held(sq, k + 1) ELSE None
  BY <1>2
<1>5. /\ \A k \in Places : k < n => Held(sq, k) \in Client
      /\ \A j, k \in Places : j < n /\ k < n /\ Held(sq, j) = Held(sq, k) => j = k
  BY <1>2 DEF Ordered, Held
<1>6. \A k \in Places : k \in Int /\ (k < n - 1 => k + 1 \in Places)
  BY <1>2, SlotsAssumption DEF Places
<1>7. Ordered(new)
  <2>1. \A k \in Places : k < n - 1 => Held(new, k) \in Client
    BY <1>3, <1>4, <1>5, <1>6
  <2>2. \A k \in Places : k >= n - 1 => Held(new, k) = None
    BY <1>3, <1>4, <1>6
  <2>3. ASSUME NEW j \in Places, NEW k \in Places, j < n - 1, k < n - 1,
               Held(new, j) = Held(new, k)
        PROVE  j = k
    <3>1. CASE j < p /\ k < p
      BY <1>3, <1>4, <1>5, <1>6, <2>3, <3>1
    <3>2. CASE ~(j < p) /\ ~(k < p)
      <4>1. Held(sq, j + 1) = Held(sq, k + 1)
        BY <1>4, <2>3, <3>2
      <4>2. j + 1 = k + 1
        BY <1>5, <1>6, <2>3, <4>1
      <4>. QED
        BY <1>6, <4>2
    <3>3. CASE j < p /\ ~(k < p)
      <4>1. Held(sq, j) = Held(sq, k + 1)
        BY <1>4, <2>3, <3>3
      <4>2. j = k + 1
        BY <1>5, <1>6, <2>3, <4>1
      <4>. QED
        BY <1>3, <1>6, <3>3, <4>2
    <3>4. CASE ~(j < p) /\ k < p
      <4>1. Held(sq, j + 1) = Held(sq, k)
        BY <1>4, <2>3, <3>4
      <4>2. j + 1 = k
        BY <1>5, <1>6, <2>3, <4>1
      <4>. QED
        BY <1>3, <1>6, <3>4, <4>2
    <3>. QED
      BY <3>1, <3>2, <3>3, <3>4
  <2>. QED
    BY <1>4, <2>1, <2>2, <2>3 DEF Ordered, Held
<1>8. PICK s : s = Line(sq)
  OBVIOUS
<1>9. /\ s \in Seq(Client) /\ Len(s) = n
      /\ \A k \in 1 .. n : k - 1 \in Places /\ s[k] = Held(sq, k - 1)
  BY <1>2, <1>8, OrderedLine
<1>10. p + 1 \in 1 .. n /\ (p + 1) - 1 = p
  BY <1>3
<1>11. p + 1 \in DOMAIN s /\ s[p + 1] = Held(sq, p)
  BY <1>9, <1>10
<1>12. Line(new) = SL!RemoveAt(s, p + 1)
  <2>1. PICK t, before, behind :
          /\ t = Line(new)
          /\ before = SubSeq(s, 1, (p + 1) - 1)
          /\ behind = SubSeq(s, (p + 1) + 1, Len(s))
    OBVIOUS
  <2>2. /\ t \in Seq(Client) /\ Len(t) = n - 1
        /\ \A k \in 1 .. n - 1 : k - 1 \in Places /\ t[k] = Held(new, k - 1)
    BY <1>4, <1>7, <2>1, OrderedLine
  <2>3. /\ before \in Seq(Client) /\ Len(before) = p
        /\ \A i \in 1 .. p : before[i] = s[i]
    <3>1. before = SubSeq(s, 1, p) /\ 1 \in Int /\ p \in Int
      BY <1>3, <1>10, <2>1
    <3>2. \A i \in 1 .. p : s[i] \in Client
      BY <1>3, <1>9
    <3>3. /\ SubSeq(s, 1, p) \in Seq(Client)
          /\ Len(SubSeq(s, 1, p)) = IF 1 <= p THEN p - 1 + 1 ELSE 0
          /\ \A i \in 1 .. p - 1 + 1 : SubSeq(s, 1, p)[i] = s[1 + i - 1]
      BY <3>1, <3>2, SubSeqProperties
    <3>. QED
      BY <1>3, <3>1, <3>3
  <2>4. /\ behind \in Seq(Client) /\ Len(behind) = n - p - 1
        /\ \A i \in 1 .. n - p - 1 : behind[i] = s[p + 1 + i]
    <3>1. behind = SubSeq(s, p + 2, n) /\ p + 2 \in Int /\ n \in Int
      BY <1>3, <1>9, <2>1
    <3>2. \A i \in p + 2 .. n : s[i] \in Client
      BY <1>3, <1>9
    <3>3. /\ SubSeq(s, p + 2, n) \in Seq(Client)
          /\ Len(SubSeq(s, p + 2, n)) = IF p + 2 <= n THEN n - (p + 2) + 1 ELSE 0
          /\ \A i \in 1 .. n - (p + 2) + 1 : SubSeq(s, p + 2, n)[i] = s[(p + 2) + i - 1]
      BY <3>1, <3>2, SubSeqProperties
    <3>. QED
      BY <1>3, <3>1, <3>3
  <2>5. /\ before \o behind \in Seq(Client) /\ Len(before \o behind) = n - 1
        /\ \A k \in 1 .. n - 1 : (before \o behind)[k] =
             IF k <= p THEN before[k] ELSE behind[k - p]
    <3>1. /\ before \o behind \in Seq(Client)
          /\ Len(before \o behind) = Len(before) + Len(behind)
          /\ \A k \in 1 .. Len(before) + Len(behind) : (before \o behind)[k] =
               IF k <= Len(before) THEN before[k] ELSE behind[k - Len(before)]
      BY <2>3, <2>4, ConcatProperties
    <3>2. Len(before) + Len(behind) = n - 1
      BY <1>3, <2>3, <2>4
    <3>. QED
      BY <2>3, <3>1, <3>2
  <2>6. ASSUME NEW k \in 1 .. n - 1 PROVE t[k] = (before \o behind)[k]
    <3>1. k \in Nat /\ k - 1 \in Places /\ k \in 1 .. n
      <4>1. k \in Nat /\ k \in 1 .. n
        BY <1>3
      <4>. QED
        BY <2>2, <4>1
    <3>2. CASE k <= p
      <4>1. k - 1 < p /\ k \in 1 .. p
        BY <1>3, <3>1, <3>2
      <4>2. t[k] = Held(sq, k - 1)
        BY <1>4, <2>2, <3>1, <4>1
      <4>3. (before \o behind)[k] = s[k]
        BY <2>3, <2>5, <3>2, <4>1
      <4>. QED
        BY <1>9, <3>1, <4>2, <4>3
    <3>3. CASE ~(k <= p)
      <4>1. /\ ~(k - 1 < p) /\ k - 1 < n - 1 /\ (k - 1) + 1 = k
            /\ k - p \in 1 .. n - p - 1 /\ p + 1 + (k - p) = k + 1
            /\ k + 1 \in 1 .. n /\ (k + 1) - 1 = k
        BY <1>3, <3>1, <3>3
      <4>2. t[k] = Held(sq, k)
        BY <1>4, <2>2, <3>1, <4>1
      <4>3. (before \o behind)[k] = s[k + 1]
        BY <2>4, <2>5, <3>3, <4>1
      <4>. QED
        BY <1>9, <4>1, <4>2, <4>3
    <3>. QED
      BY <3>2, <3>3
  <2>7. t = before \o behind
    BY <2>2, <2>5, <2>6, SeqEqual
  <2>. QED
    BY <2>1, <2>7 DEF SL!RemoveAt
<1>. QED
  BY <1>7, <1>8, <1>11, <1>12

\* A pop serves the first in line (G_PopSpawnQueue, G_PeekSpawnQueue).
LEMMA PopLine ==
  ASSUME NEW sq, Ordered(sq), G_GetSpawnQueueLength(sq) > 0
  PROVE  /\ Ordered(Popped(sq))
         /\ G_PeekSpawnQueue(sq) \in Client
         /\ 1 \in DOMAIN Line(sq) /\ Line(sq)[1] = G_PeekSpawnQueue(sq)
         /\ Line(Popped(sq)) = SL!RemoveAt(Line(sq), 1)
<1>1. sq \in QueueType
  BY DEF Ordered
<1>2. G_GetSpawnQueueLength(sq) \in 0 .. MAX_CLIENTS - 1
  BY <1>1, LengthRange
<1>3. PICK n \in Nat : n = G_GetSpawnQueueLength(sq) /\ n <= MAX_CLIENTS - 1 /\ n > 0
  BY <1>2, SlotsAssumption
<1>4. PICK new : new = Popped(sq)
  OBVIOUS
<1>5. /\ new \in QueueType
      /\ G_GetSpawnQueueLength(new) = n - 1
      /\ \A k \in Places :
           Held(new, k) = IF k = MAX_CLIENTS - 1 THEN None ELSE Held(sq, k + 1)
  BY <1>3, <1>4, PopPlaces
<1>6. \A k \in Places : k >= n => Held(sq, k) = None
  BY <1>3 DEF Ordered, Held
<1>7. 0 \in Places /\ 0 + 1 = 1
  BY SlotsAssumption DEF Places
<1>8. ASSUME NEW k \in Places
      PROVE  Held(new, k) = IF k < 0 THEN Held(sq, k)
                            ELSE IF k < n - 1 THEN Held(sq, k + 1) ELSE None
  <2>1. k \in Nat /\ (k # MAX_CLIENTS - 1 => k + 1 \in Places) /\ k <= MAX_CLIENTS - 1
    BY SlotsAssumption DEF Places
  <2>2. CASE k < n - 1
    BY <1>3, <1>5, <2>1, <2>2, SlotsAssumption
  <2>3. CASE ~(k < n - 1)
    <3>1. k + 1 >= n
      BY <1>3, <2>1, <2>3
    <3>. QED
      BY <1>5, <1>6, <2>1, <2>3, <3>1
  <2>. QED
    BY <2>2, <2>3
<1>9. /\ Ordered(new)
      /\ 0 + 1 \in DOMAIN Line(sq) /\ Line(sq)[0 + 1] = Held(sq, 0)
      /\ Line(new) = SL!RemoveAt(Line(sq), 0 + 1)
  BY <1>3, <1>5, <1>7, <1>8, ClosedUp
<1>10. Held(sq, 0) = G_PeekSpawnQueue(sq)
  <2>1. At(sq, 0) = sq.front
    BY <1>1, SlotsAssumption DEF QueueType, Cell, At
  <2>. QED
    BY <2>1 DEF Held, G_PeekSpawnQueue
<1>11. Held(sq, 0) \in Client
  BY <1>3, <1>7 DEF Ordered, Held
<1>. QED
  BY <1>4, <1>7, <1>9, <1>10, <1>11

\* A client that is taken out leaves the line where it stood (G_RemoveFromSpawnQueue).
LEMMA RemoveLine ==
  ASSUME NEW sq, Ordered(sq), NEW c
  PROVE  LET new == G_RemoveFromSpawnQueue(sq, c)
         IN  /\ Ordered(new)
             /\ \/ new = sq
                \/ \E i \in DOMAIN Line(sq) :
                     Line(sq)[i] = c /\ Line(new) = SL!RemoveAt(Line(sq), i)
<1>1. sq \in QueueType
  BY DEF Ordered
<1>2. G_GetSpawnQueueLength(sq) \in 0 .. MAX_CLIENTS - 1
  BY <1>1, LengthRange
<1>3. PICK n \in Nat : n = G_GetSpawnQueueLength(sq) /\ n <= MAX_CLIENTS - 1
  BY <1>2, SlotsAssumption
<1>4. PICK new : new = G_RemoveFromSpawnQueue(sq, c)
  OBVIOUS
<1>5. CASE ~\E i \in Waiting(sq) : sq.clients[i] = c
  <2>1. new = sq
    BY <1>4, <1>5 DEF G_RemoveFromSpawnQueue
  <2>. QED
    BY <1>4, <2>1
<1>6. CASE \E i \in Waiting(sq) : sq.clients[i] = c
  <2>1. PICK i \in Cell : Place(sq, i) < n /\ sq.clients[i] = c
    BY <1>3, <1>6 DEF Waiting
  <2>2. PICK p \in Places : p = Place(sq, i) /\ At(sq, p) = i
    BY <1>1, PlaceOfCell
  <2>3. p < n /\ Held(sq, p) = c
    BY <2>1, <2>2 DEF Held
  <2>4. /\ new \in QueueType
        /\ G_GetSpawnQueueLength(new) = n - 1
        /\ \A k \in Places :
             Held(new, k) = IF p <= k /\ k < n THEN Held(sq, k + 1) ELSE Held(sq, k)
    BY <1>3, <1>4, <2>3, RemovePlaces
  <2>5. \A k \in Places : k >= n => Held(sq, k) = None
    BY <1>3 DEF Ordered, Held
  <2>6. n \in Places
    BY <1>3, SlotsAssumption DEF Places
  <2>7. ASSUME NEW k \in Places
        PROVE  Held(new, k) = IF k < p THEN Held(sq, k)
                              ELSE IF k < n - 1 THEN Held(sq, k + 1) ELSE None
    <3>1. k \in Nat /\ p \in Nat /\ k <= MAX_CLIENTS - 1
      BY SlotsAssumption DEF Places
    <3>2. CASE k < n - 1
      BY <1>3, <2>3, <2>4, <3>1, <3>2
    <3>3. CASE k = n - 1
      <4>1. p <= k /\ ~(k < p) /\ k < n /\ ~(k < n - 1) /\ k + 1 = n
        BY <2>3, <3>1, <3>3
      <4>2. Held(new, k) = Held(sq, n)
        BY <2>4, <4>1
      <4>. QED
        BY <2>5, <2>6, <4>1, <4>2
    <3>4. CASE k >= n
      BY <1>3, <2>3, <2>4, <2>5, <3>1, <3>4
    <3>. QED
      BY <1>3, <3>1, <3>2, <3>3, <3>4
  <2>8. /\ Ordered(new)
        /\ p + 1 \in DOMAIN Line(sq)
        /\ Line(sq)[p + 1] = Held(sq, p)
        /\ Line(new) = SL!RemoveAt(Line(sq), p + 1)
    BY <1>3, <2>3, <2>4, <2>7, ClosedUp
  <2>. QED
    BY <1>4, <2>3, <2>8
<1>. QED
  BY <1>5, <1>6

-----------------------------------------------------------------------------
(* The steps of the specification. *)

\* A queue stays, or one client joins or leaves its line.
Moved(sq, new) ==
  \/ new = sq
  \/ \E c \in Client : /\ ~\E k \in DOMAIN Line(sq) : Line(sq)[k] = c
                       /\ Line(new) = Append(Line(sq), c)
  \/ \E k \in DOMAIN Line(sq) : Line(new) = SL!RemoveAt(Line(sq), k)

\* A step puts an ordered queue for the queue of a team, or changes none.
Changed ==
  \/ queue' = queue
  \/ \E t \in Team, new \in QueueType :
       /\ Ordered(new) /\ Moved(queue[t], new)
       /\ queue' = [queue EXCEPT ![t] = new]

\* To take a client out of the queue of any team, or of none.
LEMMA RemoveChanges ==
  ASSUME QueuesOrdered, NEW t, NEW c,
         queue' = [queue EXCEPT ![t] = G_RemoveFromSpawnQueue(@, c)]
  PROVE  Changed
<1>1. CASE t \notin Team
  BY <1>1 DEF QueuesOrdered, Changed
<1>2. CASE t \in Team
  <2>1. Ordered(queue[t])
    BY <1>2 DEF QueuesOrdered
  <2>2. PICK sq, new : sq = queue[t] /\ new = G_RemoveFromSpawnQueue(sq, c)
    OBVIOUS
  <2>3. Ordered(new) /\ Moved(sq, new)
    BY <2>1, <2>2, RemoveLine DEF Moved
  <2>4. new \in QueueType
    BY <2>3 DEF Ordered
  <2>5. queue' = [queue EXCEPT ![t] = new]
    BY <2>2
  <2>. QED
    BY <1>2, <2>2, <2>3, <2>4, <2>5 DEF Changed
<1>. QED
  BY <1>1, <1>2

\* To push a client.
LEMMA PushChanges ==
  ASSUME maxclients < MAX_CLIENTS,
         QueuesOrdered, NEW t, NEW c \in Client,
         queue' = [queue EXCEPT ![t] = G_PushSpawnQueue(@, c)]
  PROVE  Changed
<1>1. CASE t \notin Team
  BY <1>1 DEF QueuesOrdered, Changed
<1>2. CASE t \in Team
  <2>1. Ordered(queue[t])
    BY <1>2 DEF QueuesOrdered
  <2>2. PICK sq, new : sq = queue[t] /\ new = G_PushSpawnQueue(sq, c)
    OBVIOUS
  <2>3. Ordered(new) /\ Moved(sq, new)
    <3>1. CASE G_SearchSpawnQueue(sq, c)
      <4>1. new = sq
        BY <2>2, <3>1 DEF G_PushSpawnQueue
      <4>. QED
        BY <2>1, <2>2, <4>1 DEF Moved
    <3>2. CASE ~G_SearchSpawnQueue(sq, c)
      <4>1. Ordered(new) /\ Line(new) = Append(Line(sq), c)
        BY <2>1, <2>2, <3>2, PushLine
      <4>2. ~\E k \in DOMAIN Line(sq) : Line(sq)[k] = c
        BY <2>1, <2>2, <3>2, SearchLine
      <4>. QED
        BY <4>1, <4>2 DEF Moved
    <3>. QED
      BY <3>1, <3>2
  <2>4. new \in QueueType
    BY <2>3 DEF Ordered
  <2>5. queue' = [queue EXCEPT ![t] = new]
    BY <2>2
  <2>. QED
    BY <1>2, <2>2, <2>3, <2>4, <2>5 DEF Changed
<1>. QED
  BY <1>1, <1>2

\* To serve the first in line.
LEMMA PopChanges ==
  ASSUME QueuesOrdered, NEW t \in Team, G_GetSpawnQueueLength(queue[t]) > 0,
         queue' = [queue EXCEPT ![t] = Popped(@)]
  PROVE  Changed
<1>1. PICK sq, new : sq = queue[t] /\ new = Popped(sq)
  OBVIOUS
<1>2. Ordered(sq) /\ G_GetSpawnQueueLength(sq) > 0
  BY <1>1 DEF QueuesOrdered
<1>3. Ordered(new) /\ Moved(sq, new)
  BY <1>1, <1>2, PopLine DEF Moved
<1>4. new \in QueueType
  BY <1>3 DEF Ordered
<1>5. queue' = [queue EXCEPT ![t] = new]
  BY <1>1
<1>. QED
  BY <1>1, <1>3, <1>4, <1>5 DEF Changed

\* All that happens to a queue is one of these.
LEMMA NextChanges ==
  ASSUME maxclients < MAX_CLIENTS, QueuesOrdered, [Next]_vars
  PROVE  Changed
<1>1. ASSUME NEW c \in Client, Connect(c) PROVE Changed
  BY <1>1 DEF Connect, Changed
<1>2. ASSUME NEW c \in Client, queue' = LeftQueue(c) PROVE Changed
  <2>1. CASE client[c].team = TEAM_NONE
    BY <1>2, <2>1 DEF LeftQueue, Changed
  <2>2. CASE client[c].team # TEAM_NONE
    BY <1>2, <2>2, RemoveChanges DEF LeftQueue
  <2>. QED
    BY <2>1, <2>2
<1>3. ASSUME NEW c \in Client, ClientDisconnect(c) PROVE Changed
  BY <1>2, <1>3 DEF ClientDisconnect
<1>4. ASSUME NEW c \in Client, NEW t \in Team \cup {TEAM_NONE}, G_ChangeTeam(c, t)
      PROVE  Changed
  BY <1>2, <1>4 DEF G_ChangeTeam
<1>5. ASSUME NEW c \in Client, NEW allowed \in BOOLEAN, Cmd_Class_f(c, allowed)
      PROVE  Changed
  <2>1. CASE ~allowed
    BY <1>5, <2>1 DEF Cmd_Class_f, Changed
  <2>2. CASE allowed
    BY <1>5, <2>2, PushChanges DEF Cmd_Class_f
  <2>. QED
    BY <2>1, <2>2
<1>6. ASSUME NEW c \in Client, SpectatorThink(c) PROVE Changed
  <2>1. CASE queue' = queue
    BY <2>1 DEF Changed
  <2>2. CASE queue' # queue
    BY <1>6, <2>2, RemoveChanges DEF SpectatorThink
  <2>. QED
    BY <2>1, <2>2
<1>7. ASSUME NEW c \in Client,
             \/ Cmd_Follow_f(c) \/ Cmd_FollowCycle_f(c)
             \/ SpectatorClientEndFrame(c) \/ respawn(c)
      PROVE  Changed
  BY <1>7 DEF Cmd_Follow_f, Cmd_FollowCycle_f, SpectatorClientEndFrame, respawn, Changed
<1>8. ASSUME NEW t \in Team, G_SpawnClients(t) PROVE Changed
  BY <1>8, PopChanges DEF G_SpawnClients
<1>9. CASE UNCHANGED vars
  BY <1>9 DEF vars, Changed
<1>. QED
  BY <1>1, <1>3, <1>4, <1>5, <1>6, <1>7, <1>8, <1>9 DEF Next

\* An empty queue is ordered, and its line is empty (G_InitSpawnQueue).
LEMMA InitOrdered ==
  /\ Ordered(G_InitSpawnQueue)
  /\ Line(G_InitSpawnQueue) = <<>>
<1>1. PICK sq : sq = G_InitSpawnQueue
  OBVIOUS
<1>2. /\ sq \in QueueType
      /\ sq.clients = [i \in Cell |-> None]
      /\ sq.front = 0 /\ sq.back = MAX_CLIENTS - 1
  BY <1>1, SlotsAssumption DEF G_InitSpawnQueue, QUEUE_MINUS1, QueueType, Cell
<1>3. G_GetSpawnQueueLength(sq) = 0
  BY <1>2, SlotsAssumption DEF G_GetSpawnQueueLength
<1>4. \A k \in Places : At(sq, k) \in Cell /\ sq.clients[At(sq, k)] = None /\ ~(k < 0)
  BY <1>2, PlaceOfCell, SlotsAssumption DEF Places
<1>5. Ordered(sq)
  BY <1>2, <1>3, <1>4 DEF Ordered
<1>6. Line(sq) \in Seq(Client) /\ Len(Line(sq)) = 0
  BY <1>3, <1>5, OrderedLine
<1>7. Line(sq) = <<>>
  BY <1>6, EmptySeq
<1>. QED
  BY <1>1, <1>5, <1>7

\* Every step leaves the queues ordered, and is one of the line's steps or none.
LEMMA ChangedOrdered ==
  ASSUME QueuesOrdered, Changed
  PROVE  /\ QueuesOrdered'
         /\ [SL!Next]_[t \in Team |-> Line(queue[t])]
<1>1. CASE queue' = queue
  BY <1>1 DEF QueuesOrdered
<1>2. ASSUME NEW t \in Team, NEW new \in QueueType,
             Ordered(new), Moved(queue[t], new), queue' = [queue EXCEPT ![t] = new]
      PROVE  QueuesOrdered' /\ [SL!Next]_[u \in Team |-> Line(queue[u])]
  <2>1. queue' \in [Team -> QueueType] /\ \A u \in Team : queue'[u] = IF u = t THEN new ELSE queue[u]
    BY <1>2 DEF QueuesOrdered
  <2>2. QueuesOrdered'
    BY <1>2, <2>1 DEF QueuesOrdered
  <2>3. PICK line : line = [u \in Team |-> Line(queue[u])]
    OBVIOUS
  <2>4. PICK after : after = [u \in Team |-> Line(queue'[u])]
    OBVIOUS
  <2>5. after = [line EXCEPT ![t] = Line(new)] /\ line[t] = Line(queue[t])
    BY <2>1, <2>3, <2>4
  <2>6. CASE new = queue[t]
    <3>1. queue \in [Team -> QueueType]
      BY DEF QueuesOrdered
    <3>2. queue' = queue
      BY <1>2, <2>6, <3>1
    <3>. QED
      BY <2>2, <3>2
  <2>7. ASSUME NEW c \in Client,
               ~\E k \in DOMAIN Line(queue[t]) : Line(queue[t])[k] = c,
               Line(new) = Append(Line(queue[t]), c)
        PROVE  SL!Next
    <3>1. Line(queue[t]) \in Seq(Client)
      BY OrderedLine DEF QueuesOrdered
    <3>2. c \notin SL!ToSet(line[t])
      BY <2>5, <2>7, <3>1 DEF SL!ToSet
    <3>3. after = [line EXCEPT ![t] = Append(@, c)]
      BY <2>5, <2>7
    <3>4. SL!Join(t, c)
      BY <2>3, <2>4, <3>2, <3>3 DEF SL!Join
    <3>. QED
      BY <3>4 DEF SL!Next
  <2>8. ASSUME NEW k \in DOMAIN Line(queue[t]),
               Line(new) = SL!RemoveAt(Line(queue[t]), k)
        PROVE  SL!Next
    <3>1. Line(queue[t]) \in Seq(Client)
      BY OrderedLine DEF QueuesOrdered
    <3>2. PICK c \in Client : c = line[t][k]
      BY <2>5, <3>1
    <3>3. after = [line EXCEPT ![t] = SL!RemoveAt(@, k)]
      BY <2>5, <2>8
    <3>4. SL!StepOut(t, c)
      BY <2>3, <2>4, <2>5, <3>2, <3>3 DEF SL!StepOut
    <3>. QED
      BY <3>4 DEF SL!Next
  <2>. QED
    BY <1>2, <2>2, <2>6, <2>7, <2>8 DEF Moved
<1>. QED
  BY <1>1, <1>2 DEF Changed

-----------------------------------------------------------------------------
(* Induction, and what is computed for one client after the other. *)

\* A set with 0 and with the successor of all it holds has every natural number.
LEMMA Induction ==
  ASSUME NEW S, 0 \in S, \A n \in Nat : n \in S => n + 1 \in S
  PROVE  Nat \subseteq S
<1>1. SUFFICES ASSUME Nat \ S # {} PROVE FALSE
  OBVIOUS
<1>2. IsWellFoundedOn(OpToRel(<, Nat), Nat)
  BY NatLessThanWellFounded
<1>3. PICK T : T = Nat \ S /\ T \subseteq Nat /\ T # {}
  BY <1>1
<1>4. PICK x \in T : \A y \in T : ~(<<y, x>> \in OpToRel(<, Nat))
  BY <1>2, <1>3, WFMin
<1>5. x \in Nat /\ x # 0 /\ x - 1 \in Nat /\ x - 1 < x /\ (x - 1) + 1 = x
  BY <1>3
<1>6. x - 1 \in S
  BY <1>3, <1>4, <1>5 DEF OpToRel
<1>. QED
  BY <1>3, <1>5, <1>6

\* A set of natural numbers has a smallest one.
LEMMA Smallest ==
  ASSUME NEW T, T \subseteq Nat, T # {}
  PROVE  \E x \in T : \A y \in T : x <= y
<1>1. IsWellFoundedOn(OpToRel(<, Nat), Nat)
  BY NatLessThanWellFounded
<1>2. PICK x \in T : \A y \in T : ~(<<y, x>> \in OpToRel(<, Nat))
  BY <1>1, WFMin
<1>3. \A y \in T : y \in Nat /\ x \in Nat /\ ~(y < x)
  BY <1>2 DEF OpToRel
<1>4. \A y \in T : x <= y
  BY <1>3
<1>. QED
  BY <1>4

\* Step n leads from a set of states, the one before, to its own; and what the steps make of one
\* another.
Keeps(step, N, X) == \A n \in 1 .. N : \A x \in X[n-1] : step[n][x] \in X[n]
Walks(f, step, N, X) == \A n \in 1 .. N : f[n-1] \in X[n-1] => f[n] = step[n][f[n-1]]

\* Steps 1 to N can be taken one after the other, each from what the last one left.
LEMMA OneByOne ==
  ASSUME NEW N \in Nat, NEW X, NEW x0 \in X[0], NEW step, Keeps(step, N, X)
  PROVE  \E f : /\ f = [n \in 0 .. N |-> f[n]]
                /\ \A n \in 0 .. N : f[n] \in X[n]
                /\ f[0] = x0 /\ Walks(f, step, N, X)
<1> DEFINE Done(n) == \E f : /\ f = [k \in 0 .. n |-> f[k]]
                             /\ \A k \in 0 .. n : f[k] \in X[k]
                             /\ f[0] = x0
                             /\ \A k \in 1 .. n : f[k] = step[k][f[k-1]]
<1>0. \A n \in 1 .. N : \A x \in X[n-1] : step[n][x] \in X[n]
  BY DEF Keeps
<1> DEFINE S == {n \in Nat : n <= N => Done(n)}
<1>1. 0 \in S
  <2>1. PICK f : f = [k \in 0 .. 0 |-> x0]
    OBVIOUS
  <2>2. /\ f = [k \in 0 .. 0 |-> f[k]] /\ f[0] = x0
        /\ \A k \in 0 .. 0 : f[k] \in X[k]
        /\ \A k \in 1 .. 0 : f[k] = step[k][f[k-1]]
    BY <2>1
  <2>. QED
    BY <2>2
<1>2. ASSUME NEW n \in Nat, n \in S PROVE n + 1 \in S
  <2>1. SUFFICES ASSUME n + 1 <= N PROVE Done(n + 1)
    OBVIOUS
  <2>2. PICK f : /\ \A k \in 0 .. n : f[k] \in X[k]
                 /\ f[0] = x0 /\ \A k \in 1 .. n : f[k] = step[k][f[k-1]]
    BY <1>2, <2>1
  <2>3. PICK x : x = step[n+1][f[n]] /\ x \in X[n+1]
    <3>1. f[n] \in X[n] /\ n + 1 \in 1 .. N /\ (n + 1) - 1 = n
      BY <2>1, <2>2
    <3>. QED
      BY <1>0, <3>1
  <2>4. PICK g : g = [k \in 0 .. n + 1 |-> IF k = n + 1 THEN x ELSE f[k]]
    OBVIOUS
  <2>5. \A k \in 0 .. n : k \in 0 .. n + 1 /\ k # n + 1
    OBVIOUS
  <2>6. \A k \in 0 .. n : g[k] = f[k]
    BY <2>4, <2>5
  <2>7. g = [k \in 0 .. n + 1 |-> g[k]] /\ g[n + 1] = x
    BY <2>4
  <2>8. ASSUME NEW k \in 0 .. n + 1 PROVE g[k] \in X[k]
    <3>1. k = n + 1 \/ k \in 0 .. n
      OBVIOUS
    <3>. QED
      BY <2>2, <2>3, <2>6, <2>7, <3>1
  <2>9. ASSUME NEW k \in 1 .. n + 1 PROVE g[k] = step[k][g[k-1]]
    <3>1. CASE k = n + 1
      <4>1. (n + 1) - 1 = n /\ n \in 0 .. n
        OBVIOUS
      <4>. QED
        BY <2>3, <2>6, <2>7, <3>1, <4>1
    <3>2. CASE k # n + 1
      <4>1. k \in 1 .. n /\ k \in 0 .. n /\ k - 1 \in 0 .. n
        BY <3>2
      <4>. QED
        BY <2>2, <2>6, <4>1
    <3>. QED
      BY <3>1, <3>2
  <2>10. g[0] = x0
    BY <2>2, <2>6
  <2>. QED
    BY <2>7, <2>8, <2>9, <2>10
<1>3. Nat \subseteq S
  <2> HIDE DEF S
  <2>. QED
    BY <1>1, <1>2, Induction
<1>. QED
  BY <1>3 DEF Walks

\* Whoever takes these steps from the first set gets to the others.
LEMMA Arrives ==
  ASSUME NEW N \in Nat, NEW X, NEW f, NEW step,
         Keeps(step, N, X), Walks(f, step, N, X), f[0] \in X[0]
  PROVE  \A n \in 0 .. N : f[n] \in X[n]
<1> DEFINE S == {n \in Nat : n <= N => f[n] \in X[n]}
<1>1. 0 \in S
  OBVIOUS
<1>2. ASSUME NEW n \in Nat, n \in S PROVE n + 1 \in S
  <2>1. SUFFICES ASSUME n + 1 <= N PROVE f[n + 1] \in X[n + 1]
    OBVIOUS
  <2>2. f[n] \in X[n] /\ n + 1 \in 1 .. N /\ (n + 1) - 1 = n
    BY <1>2, <2>1
  <2>. QED
    BY <2>2 DEF Keeps, Walks
<1>3. Nat \subseteq S
  <2> HIDE DEF S
  <2>. QED
    BY <1>1, <1>2, Induction
<1>. QED
  BY <1>3
-----------------------------------------------------------------------------
(* Following. *)

\* The entry of c: a follower follows somebody, who does not follow or play has its own number.
Fit(r, c) ==
  /\ r \in ClientType
  /\ r.spectatorState = "SPECTATOR_FOLLOW" => r.spectatorClient \in Client
  /\ r.spectatorState = "SPECTATOR_FREE" => r.clientNum = c

\* All entries of level.clients are.
Fitting(cl) ==
  /\ cl = [c \in Client |-> cl[c]]
  /\ \A c \in Client : Fit(cl[c], c)

\* Nobody starts or stops to play, and nothing else changes that a queue depends on.
SamePlayers(cl, new) ==
  \A c \in Client :
    /\ new[c].team = cl[c].team
    /\ new[c].connected = cl[c].connected
    /\ new[c].classSelection = cl[c].classSelection
    /\ new[c].spectatorState = "SPECTATOR_NOT" <=> cl[c].spectatorState = "SPECTATOR_NOT"

\* What following may make of level.clients.
Followed(cl) == {new \in [Client -> ClientType] : Fitting(new) /\ SamePlayers(cl, new)}

LEMMA FittingType ==
  ASSUME NEW cl, Fitting(cl)
  PROVE  cl \in [Client -> ClientType] /\ cl \in Followed(cl)
BY DEF Fitting, Fit, SamePlayers, Followed

\* One entry for another.
LEMMA EntryFits ==
  ASSUME NEW cl, Fitting(cl), NEW c \in Client, NEW r, Fit(r, c)
  PROVE  Fitting([cl EXCEPT ![c] = r])
BY DEF Fitting

\* One entry for another, of a client that does not play.
LEMMA EntryFollows ==
  ASSUME NEW cl, Fitting(cl), NEW new \in Followed(cl), NEW c \in Client, NEW r, Fit(r, c),
         r.team = new[c].team, r.connected = new[c].connected,
         r.classSelection = new[c].classSelection,
         new[c].spectatorState # "SPECTATOR_NOT", r.spectatorState # "SPECTATOR_NOT"
  PROVE  [new EXCEPT ![c] = r] \in Followed(cl)
<1>1. Fitting(new) /\ new \in [Client -> ClientType] /\ SamePlayers(cl, new)
  BY DEF Followed
<1>2. PICK last : last = [new EXCEPT ![c] = r]
  OBVIOUS
<1>3. Fitting(last)
  BY <1>1, <1>2, EntryFits
<1>4. \A d \in Client : last[d] = IF d = c THEN r ELSE new[d]
  BY <1>1, <1>2
<1>5. SamePlayers(cl, last)
  BY <1>1, <1>4 DEF SamePlayers
<1>. QED
  BY <1>2, <1>3, <1>5, FittingType DEF Followed

\* To stop (G_StopFollowing).
LEMMA StopFollowingFits ==
  ASSUME NEW cl, Fitting(cl), NEW new \in Followed(cl), NEW c \in Client,
         new[c].spectatorState # "SPECTATOR_NOT"
  PROVE  G_StopFollowing(new, c) \in Followed(cl)
<1>1. Fitting(new) /\ new \in [Client -> ClientType]
  BY DEF Followed
<1>2. PICK r : r = [new[c] EXCEPT !.spectatorState = "SPECTATOR_FREE",
                                  !.spectatorClient = None, !.clientNum = c]
  OBVIOUS
<1>3. new[c] \in ClientType
  BY <1>1
<1>4. /\ Fit(r, c) /\ r.team = new[c].team /\ r.connected = new[c].connected
      /\ r.classSelection = new[c].classSelection /\ r.spectatorState = "SPECTATOR_FREE"
  BY <1>2, <1>3 DEF ClientType, Fit
<1>5. G_StopFollowing(new, c) = [new EXCEPT ![c] = r]
  BY <1>1, <1>2 DEF G_StopFollowing
<1>. QED
  BY <1>4, <1>5, EntryFollows

\* To follow somebody (G_FollowNewClient, Cmd_Follow_f).
LEMMA FollowFits ==
  ASSUME NEW cl, Fitting(cl), NEW new \in Followed(cl), NEW c \in Client, NEW i \in Client,
         new[c].spectatorState # "SPECTATOR_NOT"
  PROVE  LET after == Follow(new, c, i)
         IN  /\ after \in Followed(cl)
             /\ after[c].spectatorState = "SPECTATOR_FOLLOW"
             /\ after[c].spectatorClient = i
<1>1. Fitting(new) /\ new \in [Client -> ClientType]
  BY DEF Followed
<1>2. PICK r : r = [new[c] EXCEPT !.spectatorState = "SPECTATOR_FOLLOW", !.spectatorClient = i]
  OBVIOUS
<1>3. new[c] \in ClientType
  BY <1>1
<1>4. /\ Fit(r, c) /\ r.team = new[c].team /\ r.connected = new[c].connected
      /\ r.classSelection = new[c].classSelection /\ r.spectatorState = "SPECTATOR_FOLLOW"
      /\ r.spectatorClient = i
  BY <1>2, <1>3 DEF ClientType, Fit
<1>5. PICK after : after = [new EXCEPT ![c] = r]
  OBVIOUS
<1>6. after[c] = r
  BY <1>1, <1>5
<1>7. after \in Followed(cl)
  BY <1>4, <1>5, EntryFollows
<1>8. after = Follow(new, c, i)
  BY <1>1, <1>2, <1>5 DEF Follow
<1>9. after[c].spectatorState = "SPECTATOR_FOLLOW" /\ after[c].spectatorClient = i
  BY <1>4, <1>6
<1>. QED
  BY <1>7, <1>8, <1>9

\* To see with the eyes of another (G_FollowLockView, SpectatorClientEndFrame).
LEMMA ViewFits ==
  ASSUME NEW cl, Fitting(cl), NEW new \in Followed(cl), NEW c \in Client, NEW i \in Client,
         new[c].spectatorState = "SPECTATOR_FOLLOW"
  PROVE  [new EXCEPT ![c].clientNum = i] \in Followed(cl)
<1>1. Fitting(new) /\ new \in [Client -> ClientType]
  BY DEF Followed
<1>2. PICK r : r = [new[c] EXCEPT !.clientNum = i]
  OBVIOUS
<1>3. new[c] \in ClientType /\ new[c].spectatorClient \in Client
  BY <1>1 DEF Fitting, Fit
<1>4. /\ Fit(r, c) /\ r.team = new[c].team /\ r.connected = new[c].connected
      /\ r.classSelection = new[c].classSelection /\ r.spectatorState = "SPECTATOR_FOLLOW"
  BY <1>2, <1>3 DEF ClientType, Fit
<1>5. [new EXCEPT ![c].clientNum = i] = [new EXCEPT ![c] = r]
  BY <1>1, <1>2
<1>. QED
  BY <1>4, <1>5, EntryFollows

\* The steps to a client, up or down, are a number of slots.
LEMMA StepsNat ==
  ASSUME NEW dir \in {-1, 1}, NEW i \in Client, NEW original \in Client
  PROVE  (dir * (i - original) - 1) % maxclients \in Nat
<1>1. maxclients \in Nat /\ maxclients > 0
  BY SlotsAssumption
<1>2. PICK d \in Int : d = dir * (i - original) - 1
  <2>1. i - original \in Int
    BY <1>1 DEF Client
  <2>2. CASE dir = 1
    BY <2>1, <2>2
  <2>3. CASE dir = -1
    BY <2>1, <2>3
  <2>. QED
    BY <2>2, <2>3
<1>3. d % maxclients \in Nat
  BY <1>1, <1>2
<1>. QED
  BY <1>2, <1>3

\* Of the targets the next is taken (G_FollowNewClient).
LEMMA FollowNewFits ==
  ASSUME NEW cl, Fitting(cl), NEW new \in Followed(cl), NEW c \in Client, NEW dir \in {-1, 1},
         new[c].spectatorState # "SPECTATOR_NOT"
  PROVE  G_FollowNewClient(new, c, dir) \in Followed(cl)
<1> DEFINE original == IF new[c].spectatorClient = None THEN 0 ELSE new[c].spectatorClient
<1> DEFINE steps(i) == (dir * (i - original) - 1) % maxclients
<1> DEFINE target == CHOOSE i \in Targets(new, c) :
                       \A j \in Targets(new, c) : steps(i) <= steps(j)
<1> DEFINE followed == Follow(new, c, target)
<1>1. CASE Targets(new, c) = {}
  BY <1>1 DEF G_FollowNewClient
<1>2. CASE Targets(new, c) # {}
  <2>1. original \in Client
    <3>1. new[c] \in ClientType
      BY DEF Followed
    <3>. QED
      BY <3>1, SlotsAssumption DEF ClientType, Client, None
  <2>2. target \in Client
    <3>1. Targets(new, c) \subseteq Client
      BY DEF Targets
    <3>2. \A i \in Targets(new, c) : steps(i) \in Nat
      BY <2>1, <3>1, StepsNat
    <3> HIDE DEF steps
    <3>3. PICK T : T = {steps(i) : i \in Targets(new, c)}
      OBVIOUS
    <3>4. T \subseteq Nat /\ T # {}
      BY <1>2, <3>2, <3>3
    <3>5. PICK x \in T : \A y \in T : x <= y
      BY <3>4, Smallest
    <3>6. \E i \in Targets(new, c) : \A j \in Targets(new, c) : steps(i) <= steps(j)
      BY <3>3, <3>5
    <3>7. target \in Targets(new, c)
      BY <3>6
    <3>. QED
      BY <3>1, <3>7
  <2> HIDE DEF target
  <2>3. /\ followed \in Followed(cl)
        /\ followed[c].spectatorState = "SPECTATOR_FOLLOW"
        /\ followed[c].spectatorClient = target
    BY <2>2, FollowFits
  <2>4. G_FollowLockView(followed, c) \in Followed(cl)
    BY <2>2, <2>3, ViewFits DEF G_FollowLockView
  <2>5. G_FollowNewClient(new, c, dir) \in {followed, G_FollowLockView(followed, c)}
    BY <1>2 DEF G_FollowNewClient, target
  <2>. QED
    BY <2>3, <2>4, <2>5
<1>. QED
  BY <1>1, <1>2

\* To follow somebody else, or nobody.
LEMMA FollowOtherFits ==
  ASSUME NEW cl, Fitting(cl), NEW new \in Followed(cl), NEW c \in Client,
         new[c].spectatorState # "SPECTATOR_NOT"
  PROVE  FollowOther(new, c) \in Followed(cl)
BY StopFollowingFits, FollowNewFits DEF FollowOther

\* To stop if one follows.
LEMMA StopOwnFits ==
  ASSUME NEW cl, Fitting(cl), NEW c \in Client
  PROVE  StopOwnFollowing(cl, c) \in Followed(cl)
BY StopFollowingFits, FittingType DEF StopOwnFollowing

\* Nobody but the follower changes.
LEMMA OnlyFollower ==
  ASSUME NEW cl \in [Client -> ClientType], NEW c \in Client, NEW d \in Client, d # c
  PROVE  FollowOther(cl, c)[d] = cl[d] /\ G_FollowLockView(cl, c)[d] = cl[d]
<1>1. \A r : [cl EXCEPT ![c] = r][d] = cl[d]
  OBVIOUS
<1>2. \A i : Follow(cl, c, i)[d] = cl[d] /\ G_FollowLockView(Follow(cl, c, i), c)[d] = cl[d]
  BY DEF Follow, G_FollowLockView
<1>3. G_StopFollowing(cl, c)[d] = cl[d]
  BY DEF G_StopFollowing
<1>4. G_FollowLockView(cl, c)[d] = cl[d]
  BY DEF G_FollowLockView
<1>5. \/ G_FollowNewClient(cl, c, 1) = cl
      \/ \E i : \/ G_FollowNewClient(cl, c, 1) = Follow(cl, c, i)
                \/ G_FollowNewClient(cl, c, 1) = G_FollowLockView(Follow(cl, c, i), c)
  BY DEF G_FollowNewClient
<1>. QED
  BY <1>2, <1>3, <1>4, <1>5 DEF FollowOther

\* Those who follow a client move on, one after the other (G_StopFromFollowing).
LEMMA StopFromFits ==
  ASSUME NEW cl, Fitting(cl), NEW self \in Client
  PROVE  G_StopFromFollowing(cl, self) \in Followed(cl)
<1> DEFINE next(x, n) == IF Follows(x, n - 1, x[self].clientNum) THEN FollowOther(x, n - 1) ELSE x
<1>1. maxclients \in Nat /\ \A n \in 1 .. maxclients : n - 1 \in Client
  BY SlotsAssumption DEF Client
<1>2. cl \in Followed(cl)
  BY FittingType
<1>3. ASSUME NEW n \in 1 .. maxclients, NEW x \in Followed(cl) PROVE next(x, n) \in Followed(cl)
  BY <1>1, FollowOtherFits DEF Follows
<1> HIDE DEF next
<1>4. PICK X : X = [n \in 0 .. maxclients |-> Followed(cl)]
  OBVIOUS
<1>5. PICK step : step = [n \in 1 .. maxclients |-> [x \in Followed(cl) |-> next(x, n)]]
  OBVIOUS
<1>6. /\ \A n \in 1 .. maxclients : n - 1 \in 0 .. maxclients /\ n \in 0 .. maxclients /\ n # 0
      /\ \A n \in 0 .. maxclients : n # 0 => n \in 1 .. maxclients
      /\ 0 \in 0 .. maxclients /\ maxclients \in 0 .. maxclients
  BY <1>1
<1>7. \A n \in 1 .. maxclients : \A x \in X[n-1] : step[n][x] = next(x, n)
  BY <1>4, <1>5, <1>6
<1>8. Keeps(step, maxclients, X)
  BY <1>3, <1>4, <1>6, <1>7 DEF Keeps
<1>9. cl \in X[0]
  BY <1>2, <1>4, <1>6
<1>10. PICK f : /\ f = [n \in 0 .. maxclients |-> f[n]]
                /\ \A n \in 0 .. maxclients : f[n] \in X[n]
                /\ f[0] = cl /\ Walks(f, step, maxclients, X)
  BY <1>1, <1>8, <1>9, OneByOne
<1>11. \A n \in 1 .. maxclients : f[n] = next(f[n-1], n)
  BY <1>6, <1>7, <1>10 DEF Walks
<1>12. f = [n \in 0 .. maxclients |-> IF n = 0 THEN cl ELSE next(f[n-1], n)]
  BY <1>6, <1>10, <1>11
<1> DEFINE after == CHOOSE g : g = [n \in 0 .. maxclients |-> IF n = 0 THEN cl ELSE next(g[n-1], n)]
<1>13. G_StopFromFollowing(cl, self) = after[maxclients]
  BY DEF G_StopFromFollowing, next
<1>14. after = [n \in 0 .. maxclients |-> IF n = 0 THEN cl ELSE next(after[n-1], n)]
  BY <1>12
<1> HIDE DEF after
<1>15. Walks(after, step, maxclients, X)
  BY <1>6, <1>7, <1>14 DEF Walks
<1>16. after[0] \in X[0]
  BY <1>6, <1>9, <1>14
<1>17. after[maxclients] \in X[maxclients]
  BY <1>1, <1>6, <1>8, <1>15, <1>16, Arrives
<1>. QED
  BY <1>4, <1>6, <1>13, <1>17

\* Those who followed a dead client move on, or see what is left of it (respawn).
LEMMA LeaveDeadFits ==
  ASSUME NEW cl, Fitting(cl), NEW c \in Client
  PROVE  LeaveDead(cl, c) \in Followed(cl)
<1> DEFINE next(x, n) == IF ~Follows(cl, n - 1, c) THEN x
                         ELSE IF n - 1 \in stickySpec THEN G_FollowLockView(x, n - 1)
                         ELSE FollowOther(x, n - 1)
<1> DEFINE Reached(n) == {x \in Followed(cl) : \A i \in Client : i >= n => x[i] = cl[i]}
<1>1. maxclients \in Nat /\ \A n \in 1 .. maxclients : n - 1 \in Client
  BY SlotsAssumption DEF Client
<1>2. cl \in Reached(0)
  BY FittingType
<1>3. ASSUME NEW n \in 1 .. maxclients, NEW x \in Reached(n - 1) PROVE next(x, n) \in Reached(n)
  <2>1. n - 1 \in Client /\ x \in Followed(cl) /\ x \in [Client -> ClientType]
    BY <1>1 DEF Followed
  <2>2. \A i \in Client : /\ i >= n => i >= n - 1 /\ i # n - 1
                          /\ i >= n - 1 => x[i] = cl[i]
    BY <1>1 DEF Client
  <2>3. n - 1 >= n - 1 /\ x[n-1] = cl[n-1]
    BY <1>1, <2>2
  <2>4. next(x, n) \in Followed(cl)
    <3>1. CASE Follows(cl, n - 1, c)
      <4>1. x[n-1].spectatorState = "SPECTATOR_FOLLOW" /\ x[n-1].spectatorClient = c
        BY <2>3, <3>1 DEF Follows
      <4>2. G_FollowLockView(x, n - 1) \in Followed(cl)
        BY <2>1, <4>1, ViewFits DEF G_FollowLockView
      <4>3. FollowOther(x, n - 1) \in Followed(cl)
        BY <2>1, <4>1, FollowOtherFits
      <4>. QED
        BY <4>2, <4>3, <2>1
    <3>. QED
      BY <2>1, <3>1
  <2>5. \A i \in Client : i # n - 1 => next(x, n)[i] = x[i]
    BY <2>1, OnlyFollower
  <2> HIDE DEF next
  <2>. QED
    BY <2>2, <2>4, <2>5
<1> HIDE DEF next, Reached
<1>4. PICK X : X = [n \in 0 .. maxclients |-> Reached(n)]
  OBVIOUS
<1>5. PICK step : step = [n \in 1 .. maxclients |-> [x \in Reached(n - 1) |-> next(x, n)]]
  OBVIOUS
<1>6. /\ \A n \in 1 .. maxclients : n - 1 \in 0 .. maxclients /\ n \in 0 .. maxclients /\ n # 0
      /\ \A n \in 0 .. maxclients : n # 0 => n \in 1 .. maxclients
      /\ 0 \in 0 .. maxclients /\ maxclients \in 0 .. maxclients
  BY <1>1
<1>7. \A n \in 1 .. maxclients : \A x \in X[n-1] : step[n][x] = next(x, n)
  BY <1>4, <1>5, <1>6
<1>8. Keeps(step, maxclients, X)
  BY <1>3, <1>4, <1>6, <1>7 DEF Keeps
<1>9. cl \in X[0]
  BY <1>2, <1>4, <1>6
<1>10. PICK f : /\ f = [n \in 0 .. maxclients |-> f[n]]
                /\ \A n \in 0 .. maxclients : f[n] \in X[n]
                /\ f[0] = cl /\ Walks(f, step, maxclients, X)
  BY <1>1, <1>8, <1>9, OneByOne
<1>11. \A n \in 1 .. maxclients : f[n] = next(f[n-1], n)
  BY <1>6, <1>7, <1>10 DEF Walks
<1>12. f = [n \in 0 .. maxclients |-> IF n = 0 THEN cl ELSE next(f[n-1], n)]
  BY <1>6, <1>10, <1>11
<1> DEFINE after == CHOOSE g : g = [n \in 0 .. maxclients |-> IF n = 0 THEN cl ELSE next(g[n-1], n)]
<1>13. LeaveDead(cl, c) = after[maxclients]
  BY DEF LeaveDead, next
<1>14. after = [n \in 0 .. maxclients |-> IF n = 0 THEN cl ELSE next(after[n-1], n)]
  BY <1>12
<1> HIDE DEF after
<1>15. Walks(after, step, maxclients, X)
  BY <1>6, <1>7, <1>14 DEF Walks
<1>16. after[0] \in X[0]
  BY <1>6, <1>9, <1>14
<1>17. after[maxclients] \in X[maxclients]
  BY <1>1, <1>6, <1>8, <1>15, <1>16, Arrives
<1>18. \A n : Reached(n) \subseteq Followed(cl)
  BY DEF Reached
<1>. QED
  BY <1>4, <1>6, <1>13, <1>17, <1>18
-----------------------------------------------------------------------------
(* Who waits, after each operation. *)

\* The one that is taken out waits no more, and all others as before (G_RemoveFromSpawnQueue).
LEMMA RemoveSearch ==
  ASSUME NEW sq, Ordered(sq), NEW c \in Client, NEW d \in Client
  PROVE  G_SearchSpawnQueue(G_RemoveFromSpawnQueue(sq, c), d)
           <=> G_SearchSpawnQueue(sq, d) /\ d # c
<1>1. PICK new : new = G_RemoveFromSpawnQueue(sq, c) /\ Ordered(new)
  BY RemoveLine
<1>2. sq \in QueueType
  BY DEF Ordered
<1>3. PICK n \in Nat : n = G_GetSpawnQueueLength(sq) /\ n <= MAX_CLIENTS - 1
  BY <1>2, LengthRange, SlotsAssumption
<1>4. CASE ~G_SearchSpawnQueue(sq, c)
  <2>1. new = sq
    BY <1>1, <1>4 DEF G_RemoveFromSpawnQueue, G_SearchSpawnQueue, Waiting
  <2>. QED
    BY <1>1, <1>4, <2>1
<1>5. CASE G_SearchSpawnQueue(sq, c)
  <2>1. PICK p \in Places : p < n /\ Held(sq, p) = c
    BY <1>3, <1>5, SearchPlaces DEF Held
  <2>2. /\ G_GetSpawnQueueLength(new) = n - 1
        /\ \A k \in Places : Held(new, k) = IF p <= k /\ k < n THEN Held(sq, k + 1) ELSE Held(sq, k)
    BY <1>1, <1>3, <2>1, RemovePlaces
  <2>3. G_SearchSpawnQueue(new, d) <=> \E k \in Places : k < n - 1 /\ Held(new, k) = d
    BY <1>1, <2>2, SearchPlaces DEF Held
  <2>4. G_SearchSpawnQueue(sq, d) <=> \E k \in Places : k < n /\ Held(sq, k) = d
    BY <1>3, SearchPlaces DEF Held
  <2>5. \A j, k \in Places : j < n /\ k < n /\ Held(sq, j) = Held(sq, k) => j = k
    BY <1>3 DEF Ordered, Held
  <2>6. \A k \in Places : /\ k \in Nat
                          /\ k < n => (k # 0 => k - 1 \in Places)
                          /\ k < n - 1 => k + 1 \in Places
    BY <1>3, SlotsAssumption DEF Places
  <2>7. ASSUME G_SearchSpawnQueue(new, d) PROVE G_SearchSpawnQueue(sq, d) /\ d # c
    <3>1. PICK k \in Places : k < n - 1 /\ Held(new, k) = d
      BY <2>3, <2>7
    <3>2. CASE p <= k
      <4>1. k + 1 \in Places /\ k + 1 < n /\ k < n /\ k + 1 # p
        BY <1>3, <2>6, <3>1, <3>2
      <4>2. Held(sq, k + 1) = d
        BY <2>2, <3>1, <3>2, <4>1
      <4>. QED
        BY <2>1, <2>4, <2>5, <4>1, <4>2
    <3>3. CASE ~(p <= k)
      <4>1. k < n /\ k # p
        BY <1>3, <2>6, <3>1, <3>3
      <4>2. Held(sq, k) = d
        BY <2>2, <3>1, <3>3
      <4>. QED
        BY <2>1, <2>4, <2>5, <4>1, <4>2
    <3>. QED
      BY <3>2, <3>3
  <2>8. ASSUME G_SearchSpawnQueue(sq, d), d # c PROVE G_SearchSpawnQueue(new, d)
    <3>1. PICK k \in Places : k < n /\ Held(sq, k) = d
      BY <2>4, <2>8
    <3>2. k # p
      BY <2>1, <2>8, <3>1
    <3>3. k \in Nat /\ p \in Nat /\ k < n /\ (k # 0 => k - 1 \in Places)
      BY <2>6, <3>1
    <3>4. k < p \/ p < k
      BY <3>2, <3>3
    <3>5. CASE k < p
      <4>1. k < n - 1 /\ ~(p <= k)
        BY <1>3, <2>1, <2>6, <3>5
      <4>2. Held(new, k) = d
        BY <2>2, <3>1, <4>1
      <4>. QED
        BY <2>3, <4>1, <4>2
    <3>6. CASE p < k
      <4>1. k - 1 \in Places /\ k - 1 < n - 1 /\ p <= k - 1 /\ k - 1 < n /\ (k - 1) + 1 = k
        BY <1>3, <3>6, <3>3
      <4>2. Held(new, k - 1) = d
        BY <2>2, <3>1, <4>1
      <4>. QED
        BY <2>3, <4>1, <4>2
    <3>. QED
      BY <3>5, <3>6, <3>4
  <2>. QED
    BY <1>1, <2>7, <2>8
<1>. QED
  BY <1>4, <1>5

\* The first waits no more when it has been served, and all others as before (G_PopSpawnQueue).
LEMMA PopSearch ==
  ASSUME NEW sq, Ordered(sq), G_GetSpawnQueueLength(sq) > 0, NEW d \in Client
  PROVE  G_SearchSpawnQueue(Popped(sq), d)
           <=> G_SearchSpawnQueue(sq, d) /\ d # G_PeekSpawnQueue(sq)
<1>1. PICK new : new = Popped(sq) /\ Ordered(new)
  BY PopLine
<1>2. sq \in QueueType
  BY DEF Ordered
<1>3. PICK n \in Nat : n = G_GetSpawnQueueLength(sq) /\ n <= MAX_CLIENTS - 1 /\ n > 0
  BY <1>2, LengthRange, SlotsAssumption
<1>4. /\ G_GetSpawnQueueLength(new) = n - 1
      /\ \A k \in Places : Held(new, k) = IF k = MAX_CLIENTS - 1 THEN None ELSE Held(sq, k + 1)
  BY <1>1, <1>3, PopPlaces
<1>5. G_SearchSpawnQueue(new, d) <=> \E k \in Places : k < n - 1 /\ Held(new, k) = d
  BY <1>1, <1>4, SearchPlaces DEF Held
<1>6. G_SearchSpawnQueue(sq, d) <=> \E k \in Places : k < n /\ Held(sq, k) = d
  BY <1>3, SearchPlaces DEF Held
<1>7. \A j, k \in Places : j < n /\ k < n /\ Held(sq, j) = Held(sq, k) => j = k
  BY <1>3 DEF Ordered, Held
<1>8. /\ 0 \in Places
      /\ \A k \in Places : /\ k \in Nat
                           /\ k < n => (k # 0 => k - 1 \in Places)
                           /\ k < n - 1 => k + 1 \in Places /\ k # MAX_CLIENTS - 1 /\ k + 1 # 0
  BY <1>3, SlotsAssumption DEF Places
<1>9. Held(sq, 0) = G_PeekSpawnQueue(sq)
  <2>1. At(sq, 0) = sq.front
    BY <1>2, SlotsAssumption DEF QueueType, Cell, At
  <2>. QED
    BY <2>1 DEF Held, G_PeekSpawnQueue
<1>10. ASSUME G_SearchSpawnQueue(new, d) PROVE G_SearchSpawnQueue(sq, d) /\ d # Held(sq, 0)
  <2>1. PICK k \in Places : k < n - 1 /\ Held(new, k) = d
    BY <1>5, <1>10
  <2>2. k + 1 \in Places /\ k + 1 < n /\ k + 1 # 0 /\ k # MAX_CLIENTS - 1 /\ 0 < n
    BY <1>3, <1>8, <2>1
  <2>3. Held(sq, k + 1) = d
    BY <1>4, <2>1, <2>2
  <2>. QED
    BY <1>6, <1>7, <1>8, <2>2, <2>3
<1>11. ASSUME G_SearchSpawnQueue(sq, d), d # Held(sq, 0) PROVE G_SearchSpawnQueue(new, d)
  <2>1. PICK k \in Places : k < n /\ Held(sq, k) = d
    BY <1>6, <1>11
  <2>2. k # 0
    BY <1>11, <2>1
  <2>3. /\ k - 1 \in Places /\ k - 1 < n - 1 /\ k - 1 # MAX_CLIENTS - 1 /\ (k - 1) + 1 = k
    BY <1>3, <1>8, <2>1, <2>2
  <2>4. Held(new, k - 1) = d
    BY <1>4, <2>1, <2>3
  <2>. QED
    BY <1>5, <2>3, <2>4
<1>. QED
  BY <1>1, <1>9, <1>10, <1>11

\* Who is pushed waits then, and all others as before (G_PushSpawnQueue).
LEMMA PushSearch ==
  ASSUME maxclients < MAX_CLIENTS,
         NEW sq, Ordered(sq), NEW c \in Client, NEW d \in Client
  PROVE  G_SearchSpawnQueue(G_PushSpawnQueue(sq, c), d)
           <=> G_SearchSpawnQueue(sq, d) \/ d = c
<1>1. CASE G_SearchSpawnQueue(sq, c)
  BY <1>1 DEF G_PushSpawnQueue
<1>2. CASE ~G_SearchSpawnQueue(sq, c)
  <2>1. PICK new : new = G_PushSpawnQueue(sq, c) /\ Ordered(new)
    BY <1>2, PushLine
  <2>2. sq \in QueueType
    BY DEF Ordered
  <2>3. G_GetSpawnQueueLength(sq) < MAX_CLIENTS - 1
    BY <1>2, RoomForOne
  <2>4. PICK n \in Nat : n = G_GetSpawnQueueLength(sq) /\ n < MAX_CLIENTS - 1
    BY <2>2, <2>3, LengthRange, SlotsAssumption
  <2>5. /\ G_GetSpawnQueueLength(new) = n + 1
        /\ \A k \in Places : Held(new, k) = IF k = n THEN c ELSE Held(sq, k)
    BY <1>2, <2>1, <2>3, <2>4, PushPlaces
  <2>6. G_SearchSpawnQueue(new, d) <=> \E k \in Places : k < n + 1 /\ Held(new, k) = d
    BY <2>1, <2>5, SearchPlaces DEF Held
  <2>7. G_SearchSpawnQueue(sq, d) <=> \E k \in Places : k < n /\ Held(sq, k) = d
    BY <2>4, SearchPlaces DEF Held
  <2>8. n \in Places /\ \A k \in Places : k \in Nat /\ (k < n + 1 <=> k < n \/ k = n)
    BY <2>4, SlotsAssumption DEF Places
  <2>9. \A k \in Places : k < n => k # n
    BY <2>4, <2>8
  <2>. QED
    BY <2>1, <2>5, <2>6, <2>7, <2>8, <2>9
<1>. QED
  BY <1>1, <1>2
-----------------------------------------------------------------------------
(* Who waits where it should, after each step. *)

\* In the queue of its team exactly while it has chosen a class and does not play.
Waits(q, cl, c) ==
  \A t \in Team :
    G_SearchSpawnQueue(q[t], c) <=>
      /\ cl[c].connected /\ cl[c].team = t /\ cl[c].classSelection
      /\ cl[c].spectatorState # "SPECTATOR_NOT"

\* The inductive invariant.
IInv ==
  /\ QueuesOrdered
  /\ Fitting(client)
  /\ wronged \subseteq Client
  /\ WaitsWhereItShould

\* What each step sees to: an entry fits, and nobody is out of order who was not, or is not noted.
Settles ==
  /\ Fitting(client')
  /\ \E new \in SUBSET Client :
       /\ Keep(new)
       /\ \A c \in Client \ (wronged \cup new) :
            Waits(queue, client, c) => Waits(queue', client', c)

\* It is enough.
LEMMA SettlesKeeps ==
  ASSUME IInv, Settles
  PROVE  /\ Fitting(client') /\ wronged' \subseteq Client
         /\ WaitsWhereItShould'
<1>1. /\ \A c : InOrder(c) <=> Waits(queue, client, c)
      /\ \A c : InOrder(c)' <=> Waits(queue', client', c)
  BY DEF InOrder, Waits
<1>2. PICK new \in SUBSET Client :
        /\ Keep(new)
        /\ \A c \in Client \ (wronged \cup new) :
             Waits(queue, client, c) => Waits(queue', client', c)
  BY DEF Settles
<1>3. wronged' = {c \in wronged \cup new : ~InOrder(c)'}
  BY <1>2 DEF Keep
<1>4. wronged' \subseteq Client
  BY <1>3 DEF IInv
<1>5. ASSUME NEW c \in Client, c \notin wronged' PROVE InOrder(c)'
  <2>1. CASE c \in wronged \cup new
    BY <1>3, <1>5, <2>1
  <2>2. CASE c \notin wronged \cup new
    <3>1. Waits(queue, client, c)
      BY <1>1, <2>2 DEF IInv, WaitsWhereItShould
    <3>. QED
      BY <1>1, <1>2, <2>2, <3>1
  <2>. QED
    BY <2>1, <2>2
<1>. QED
  BY <1>4, <1>5 DEF Settles, WaitsWhereItShould

\* Those who follow, or stop, are where they were.
LEMMA FollowingSettles ==
  ASSUME IInv, queue' = queue, client' \in Followed(client), Keep({})
  PROVE  Settles
<1>1. \A c \in Client : Waits(queue, client, c) => Waits(queue', client', c)
  BY DEF Waits, Followed, SamePlayers
<1>. QED
  BY <1>1 DEF Settles, Followed

\* Only the entry and the places of one client change, and it is as it should be, or noted.
LEMMA OneSettles ==
  ASSUME IInv, Fitting(client'), NEW c \in Client, NEW cl \in Followed(client),
         NEW new \in SUBSET Client, Keep(new),
         \A d \in Client \ {c} : client'[d] = cl[d],
         \A d \in Client \ ({c} \cup new), t \in Team :
           G_SearchSpawnQueue(queue'[t], d) <=> G_SearchSpawnQueue(queue[t], d),
         c \notin wronged \cup new /\ Waits(queue, client, c) => Waits(queue', client', c)
  PROVE  Settles
<1>1. ASSUME NEW d \in Client \ (wronged \cup new), Waits(queue, client, d)
      PROVE  Waits(queue', client', d)
  <2>1. CASE d = c
    BY <1>1, <2>1
  <2>2. CASE d # c
    <3>1. /\ client'[d].team = client[d].team
          /\ client'[d].connected = client[d].connected
          /\ client'[d].classSelection = client[d].classSelection
          /\ client'[d].spectatorState = "SPECTATOR_NOT" <=> client[d].spectatorState = "SPECTATOR_NOT"
      BY <2>2 DEF Followed, SamePlayers
    <3>2. \A t \in Team : G_SearchSpawnQueue(queue'[t], d) <=> G_SearchSpawnQueue(queue[t], d)
      BY <2>2
    <3>. QED
      BY <1>1, <3>1, <3>2 DEF Waits
  <2>. QED
    BY <2>1, <2>2
<1>. QED
  BY <1>1 DEF Settles

\* The queue of one team for another.
LEMMA QueueOf ==
  ASSUME QueuesOrdered, NEW t \in Team, NEW new, queue' = [queue EXCEPT ![t] = new]
  PROVE  \A u \in Team : queue'[u] = IF u = t THEN new ELSE queue[u]
BY DEF QueuesOrdered

\* What a spawn makes of an entry (ClientSpawn).
LEMMA SpawnFits ==
  ASSUME NEW cl, Fitting(cl), NEW c \in Client
  PROVE  LET new == ClientSpawn(cl, c)
         IN  /\ Fitting(new)
             /\ \A d \in Client \ {c} : new[d] = cl[d]
             /\ new[c].team = cl[c].team /\ new[c].connected = cl[c].connected
             /\ new[c].classSelection = cl[c].classSelection
             /\ new[c].spectatorState = "SPECTATOR_NOT" <=>
                  /\ cl[c].classSelection /\ cl[c].spectatorClient = None
                  /\ cl[c].spectatorState = "SPECTATOR_NOT"
<1>1. cl \in [Client -> ClientType] /\ cl[c] \in ClientType
  BY FittingType
<1>2. PICK s : s = IF /\ cl[c].classSelection /\ cl[c].spectatorClient = None
                      /\ cl[c].spectatorState = "SPECTATOR_NOT"
                   THEN "SPECTATOR_NOT" ELSE "SPECTATOR_FREE"
  OBVIOUS
<1>3. PICK r : r = [cl[c] EXCEPT !.spectatorState = s, !.spectatorClient = None, !.clientNum = c]
  OBVIOUS
<1>4. /\ Fit(r, c) /\ r.team = cl[c].team /\ r.connected = cl[c].connected
      /\ r.classSelection = cl[c].classSelection /\ r.spectatorState = s
  BY <1>1, <1>2, <1>3 DEF ClientType, Fit
<1>5. PICK new : new = [cl EXCEPT ![c] = r]
  OBVIOUS
<1>6. new = ClientSpawn(cl, c)
  BY <1>1, <1>2, <1>3, <1>5 DEF ClientSpawn
<1>7. Fitting(new) /\ new[c] = r /\ \A d \in Client \ {c} : new[d] = cl[d]
  BY <1>1, <1>4, <1>5, EntryFits
<1>. QED
  BY <1>2, <1>4, <1>6, <1>7

\* An entry that only other steps have an interest in (no number, no one followed).
LEMMA FieldsFit ==
  ASSUME NEW cl, Fitting(cl), NEW c \in Client, NEW team \in Team \cup {TEAM_NONE},
         NEW b \in BOOLEAN
  PROVE  /\ Fitting([cl EXCEPT ![c].team = team, ![c].classSelection = b])
         /\ Fitting([cl EXCEPT ![c].classSelection = b])
         /\ Fitting([cl EXCEPT ![c].connected = b, ![c].spectatorState = "SPECTATOR_NOT"])
         /\ Fitting([cl EXCEPT ![c].spectatorState = "SPECTATOR_NOT"])
<1>1. cl \in [Client -> ClientType] /\ cl[c] \in ClientType /\ Fit(cl[c], c)
  BY FittingType DEF Fitting
<1>2. /\ Fit([cl[c] EXCEPT !.team = team, !.classSelection = b], c)
      /\ Fit([cl[c] EXCEPT !.classSelection = b], c)
      /\ Fit([cl[c] EXCEPT !.connected = b, !.spectatorState = "SPECTATOR_NOT"], c)
      /\ Fit([cl[c] EXCEPT !.spectatorState = "SPECTATOR_NOT"], c)
  BY <1>1 DEF Fit, ClientType
<1>3. /\ [cl EXCEPT ![c].team = team, ![c].classSelection = b]
           = [cl EXCEPT ![c] = [cl[c] EXCEPT !.team = team, !.classSelection = b]]
      /\ [cl EXCEPT ![c].classSelection = b]
           = [cl EXCEPT ![c] = [cl[c] EXCEPT !.classSelection = b]]
      /\ [cl EXCEPT ![c].connected = b, ![c].spectatorState = "SPECTATOR_NOT"]
           = [cl EXCEPT ![c] = [cl[c] EXCEPT !.connected = b, !.spectatorState = "SPECTATOR_NOT"]]
      /\ [cl EXCEPT ![c].spectatorState = "SPECTATOR_NOT"]
           = [cl EXCEPT ![c] = [cl[c] EXCEPT !.spectatorState = "SPECTATOR_NOT"]]
  BY <1>1
<1>. QED
  BY <1>2, <1>3, EntryFits
\* To leave a team: those who follow go, and the one whose number it is leaves the queue
\* (G_LeaveTeam).
LEMMA LeaveSettles ==
  ASSUME IInv, NEW c \in Client, queue' = LeftQueue(c)
  PROVE  /\ G_LeaveTeam(c) \in Followed(client)
         /\ Misdirected(c) \in SUBSET Client
         /\ \A d \in Client \ ({c} \cup Misdirected(c)), t \in Team :
              G_SearchSpawnQueue(queue'[t], d) <=> G_SearchSpawnQueue(queue[t], d)
         /\ c \notin Misdirected(c) /\ Waits(queue, client, c) =>
              \A t \in Team : ~G_SearchSpawnQueue(queue'[t], c)
<1>1. Fitting(client) /\ QueuesOrdered
  BY DEF IInv
<1>2. client[c] \in ClientType /\ client[c].clientNum \in Client
  BY <1>1, FittingType DEF ClientType
<1>3. PICK num \in Client : num = client[c].clientNum
  BY <1>2
<1>4. G_LeaveTeam(c) \in Followed(client)
  BY <1>1, StopOwnFits, StopFromFits DEF G_LeaveTeam
<1>5. Misdirected(c) = IF num = c THEN {} ELSE {c, num}
  BY <1>3 DEF Misdirected
<1>6. ASSUME NEW d \in Client, NEW t \in Team
      PROVE  G_SearchSpawnQueue(queue'[t], d) <=>
               G_SearchSpawnQueue(queue[t], d) /\ ~(t = client[c].team /\ d = num)
  <2>1. CASE client[c].team = TEAM_NONE
    BY <2>1, TeamAssumption DEF LeftQueue
  <2>2. CASE client[c].team # TEAM_NONE
    <3>1. PICK u \in Team : u = client[c].team
      BY <1>2, <2>2 DEF ClientType
    <3>2. queue' = [queue EXCEPT ![u] = G_RemoveFromSpawnQueue(queue[u], num)]
      BY <1>3, <2>2, <3>1 DEF LeftQueue
    <3>3. queue'[t] = IF t = u THEN G_RemoveFromSpawnQueue(queue[u], num) ELSE queue[t]
      BY <1>1, <3>2, QueueOf
    <3>4. Ordered(queue[u])
      BY <1>1 DEF QueuesOrdered
    <3>5. G_SearchSpawnQueue(G_RemoveFromSpawnQueue(queue[u], num), d)
            <=> G_SearchSpawnQueue(queue[u], d) /\ d # num
      BY <3>4, RemoveSearch
    <3>. QED
      BY <3>1, <3>3, <3>5
  <2>. QED
    BY <2>1, <2>2
<1>7. \A d \in Client \ ({c} \cup Misdirected(c)) : d # num
  BY <1>5
<1>8. ASSUME c \notin Misdirected(c), Waits(queue, client, c), NEW t \in Team
      PROVE  ~G_SearchSpawnQueue(queue'[t], c)
  BY <1>5, <1>6, <1>8 DEF Waits
<1>. QED
  BY <1>3, <1>4, <1>5, <1>6, <1>7, <1>8

\* A client connects (ClientConnect).
LEMMA ConnectSettles ==
  ASSUME IInv, NEW c \in Client, Connect(c)
  PROVE  Settles
<1>1. Fitting(client) /\ client \in Followed(client) /\ client \in [Client -> ClientType]
  BY FittingType DEF IInv
<1>2. Fit(NewClient(c), c)
  BY DEF Fit, NewClient, ClientType
<1>3. PICK cl : cl = [client EXCEPT ![c] = NewClient(c)]
  OBVIOUS
<1>4. Fitting(cl) /\ cl[c] = NewClient(c) /\ \A d \in Client \ {c} : cl[d] = client[d]
  BY <1>1, <1>2, <1>3, EntryFits
<1>5. client' = ClientSpawn(cl, c) /\ queue' = queue /\ Keep({}) /\ ~client[c].connected
  BY <1>3 DEF Connect
<1>6. /\ Fitting(client')
      /\ \A d \in Client \ {c} : client'[d] = cl[d]
      /\ client'[c].classSelection = cl[c].classSelection
  BY <1>4, <1>5, SpawnFits
<1>7. \A d \in Client \ {c} : client'[d] = client[d]
  BY <1>4, <1>6
<1>8. ~client'[c].classSelection
  BY <1>4, <1>6 DEF NewClient
<1>9. Waits(queue, client, c) => Waits(queue', client', c)
  BY <1>5, <1>8 DEF Waits
<1>. QED
  BY <1>1, <1>5, <1>6, <1>7, <1>9, OneSettles

\* A client leaves the server (ClientDisconnect).
LEMMA DisconnectSettles ==
  ASSUME IInv, NEW c \in Client, ClientDisconnect(c)
  PROVE  Settles
<1>1. PICK left, new : left = G_LeaveTeam(c) /\ new = Misdirected(c)
  OBVIOUS
<1>2. queue' = LeftQueue(c) /\ Keep(new)
  BY <1>1 DEF ClientDisconnect
<1>3. /\ left \in Followed(client)
      /\ new \in SUBSET Client
      /\ \A d \in Client \ ({c} \cup new), t \in Team :
           G_SearchSpawnQueue(queue'[t], d) <=> G_SearchSpawnQueue(queue[t], d)
      /\ c \notin new /\ Waits(queue, client, c) =>
           \A t \in Team : ~G_SearchSpawnQueue(queue'[t], c)
  BY <1>1, <1>2, LeaveSettles
<1>4. Fitting(left) /\ left \in [Client -> ClientType]
  BY <1>3 DEF Followed
<1>5. client' = [left EXCEPT ![c].connected = FALSE, ![c].spectatorState = "SPECTATOR_NOT"]
  BY <1>1 DEF ClientDisconnect
<1>6. Fitting(client')
  BY <1>4, <1>5, FieldsFit
<1>7. (\A d \in Client \ {c} : client'[d] = left[d]) /\ client'[c].spectatorState = "SPECTATOR_NOT"
  BY <1>4, <1>5 DEF ClientType
<1>8. c \notin wronged \cup new /\ Waits(queue, client, c) => Waits(queue', client', c)
  BY <1>3, <1>7 DEF Waits
<1>. QED
  BY <1>2, <1>3, <1>6, <1>7, <1>8, OneSettles

\* A client goes to another team, or to none (G_ChangeTeam).
LEMMA ChangeTeamSettles ==
  ASSUME IInv, NEW c \in Client, NEW newTeam \in Team \cup {TEAM_NONE}, G_ChangeTeam(c, newTeam)
  PROVE  Settles
<1>1. PICK left, new : left = G_LeaveTeam(c) /\ new = Misdirected(c)
  OBVIOUS
<1>2. queue' = LeftQueue(c) /\ Keep(new)
  BY <1>1 DEF G_ChangeTeam
<1>3. /\ left \in Followed(client)
      /\ new \in SUBSET Client
      /\ \A d \in Client \ ({c} \cup new), t \in Team :
           G_SearchSpawnQueue(queue'[t], d) <=> G_SearchSpawnQueue(queue[t], d)
      /\ c \notin new /\ Waits(queue, client, c) =>
           \A t \in Team : ~G_SearchSpawnQueue(queue'[t], c)
  BY <1>1, <1>2, LeaveSettles
<1>4. Fitting(left) /\ left \in [Client -> ClientType]
  BY <1>3 DEF Followed
<1>5. PICK cl : cl = [left EXCEPT ![c].team = newTeam, ![c].classSelection = FALSE]
  OBVIOUS
<1>6. Fitting(cl)
  BY <1>4, <1>5, FieldsFit
<1>7. (\A d \in Client \ {c} : cl[d] = left[d]) /\ ~cl[c].classSelection
  BY <1>4, <1>5 DEF ClientType
<1>8. client' = ClientSpawn(cl, c)
  BY <1>1, <1>5 DEF G_ChangeTeam
<1>9. /\ Fitting(client') /\ (\A d \in Client \ {c} : client'[d] = cl[d])
      /\ client'[c].classSelection = cl[c].classSelection
  BY <1>6, <1>8, SpawnFits
<1>10. (\A d \in Client \ {c} : client'[d] = left[d]) /\ ~client'[c].classSelection
  BY <1>7, <1>9
<1>11. c \notin wronged \cup new /\ Waits(queue, client, c) => Waits(queue', client', c)
  BY <1>3, <1>10 DEF Waits
<1>. QED
  BY <1>2, <1>3, <1>9, <1>10, <1>11, OneSettles

\* A client that waits, or watches, chooses a class (Cmd_Class_f).
LEMMA ClassSettles ==
  ASSUME maxclients < MAX_CLIENTS,
         IInv, NEW c \in Client, NEW allowed \in BOOLEAN, Cmd_Class_f(c, allowed)
  PROVE  Settles
<1>1. QueuesOrdered /\ Fitting(client)
  BY DEF IInv
<1>2. PICK t \in Team : t = client[c].team
  BY <1>1, FittingType DEF Cmd_Class_f, ClientType
<1>3. PICK stopped \in Followed(client) : stopped = StopOwnFollowing(client, c)
  BY <1>1, StopOwnFits
<1>4. Ordered(queue[t])
  BY <1>1 DEF QueuesOrdered
<1>5. /\ queue' = IF allowed THEN [queue EXCEPT ![t] = G_PushSpawnQueue(queue[t], c)] ELSE queue
      /\ client' = IF allowed /\ ~G_SearchSpawnQueue(queue[t], c)
                   THEN [stopped EXCEPT ![c].classSelection = TRUE] ELSE stopped
      /\ Keep({}) /\ client[c].connected /\ client[c].spectatorState # "SPECTATOR_NOT"
  BY <1>2, <1>3 DEF Cmd_Class_f
<1>6. CASE ~(allowed /\ ~G_SearchSpawnQueue(queue[t], c))
  <2>1. client' = stopped
    BY <1>5, <1>6
  <2>2. queue' = queue
    <3>1. CASE ~allowed
      BY <1>5, <3>1
    <3>2. CASE G_SearchSpawnQueue(queue[t], c) /\ allowed
      <4>1. G_PushSpawnQueue(queue[t], c) = queue[t]
        BY <3>2 DEF G_PushSpawnQueue
      <4>2. queue \in [Team -> QueueType]
        BY <1>1 DEF QueuesOrdered
      <4>. QED
        BY <1>5, <3>2, <4>1, <4>2
    <3>. QED
      BY <1>6, <3>1, <3>2
  <2>. QED
    BY <1>5, <2>1, <2>2, FollowingSettles
<1>7. CASE allowed /\ ~G_SearchSpawnQueue(queue[t], c)
  <2>1. /\ queue' = [queue EXCEPT ![t] = G_PushSpawnQueue(queue[t], c)]
        /\ client' = [stopped EXCEPT ![c].classSelection = TRUE]
    BY <1>5, <1>7
  <2>2. Fitting(stopped) /\ stopped \in [Client -> ClientType] /\ SamePlayers(client, stopped)
    BY DEF Followed
  <2>3. Fitting(client')
    BY <2>1, <2>2, FieldsFit
  <2>4. /\ \A d \in Client \ {c} : client'[d] = stopped[d]
        /\ client'[c].connected = client[c].connected /\ client'[c].team = t
        /\ client'[c].classSelection /\ client'[c].spectatorState # "SPECTATOR_NOT"
    <3>1. PICK r : r = [stopped[c] EXCEPT !.classSelection = TRUE]
      OBVIOUS
    <3>2. client' = [stopped EXCEPT ![c] = r]
      BY <2>1, <2>2, <3>1
    <3>3. stopped[c] \in ClientType
      BY <2>2
    <3>4. /\ r.connected = stopped[c].connected /\ r.team = stopped[c].team /\ r.classSelection
          /\ r.spectatorState = stopped[c].spectatorState
      BY <3>1, <3>3 DEF ClientType
    <3>5. client'[c] = r /\ \A d \in Client \ {c} : client'[d] = stopped[d]
      BY <2>2, <3>2
    <3>6. /\ stopped[c].connected = client[c].connected /\ stopped[c].team = t
          /\ stopped[c].spectatorState # "SPECTATOR_NOT"
      BY <1>2, <1>5, <2>2 DEF SamePlayers
    <3>. QED
      BY <3>4, <3>5, <3>6
  <2>5. ASSUME NEW d \in Client, NEW u \in Team
        PROVE  G_SearchSpawnQueue(queue'[u], d)
                 <=> G_SearchSpawnQueue(queue[u], d) \/ (u = t /\ d = c)
    <3>1. queue'[u] = IF u = t THEN G_PushSpawnQueue(queue[t], c) ELSE queue[u]
      BY <1>1, <2>1, QueueOf
    <3>2. G_SearchSpawnQueue(G_PushSpawnQueue(queue[t], c), d)
            <=> G_SearchSpawnQueue(queue[t], d) \/ d = c
      BY <1>4, PushSearch
    <3>. QED
      BY <3>1, <3>2
  <2>6. Waits(queue, client, c) => Waits(queue', client', c)
    BY <1>2, <1>5, <2>4, <2>5 DEF Waits
  <2>7. \A d \in Client \ ({c} \cup {}), u \in Team :
          G_SearchSpawnQueue(queue'[u], d) <=> G_SearchSpawnQueue(queue[u], d)
    BY <2>5
  <2>. QED
    BY <1>5, <2>3, <2>4, <2>6, <2>7, OneSettles
<1>. QED
  BY <1>6, <1>7

\* A client that waits presses the button (SpectatorThink).
LEMMA ThinkSettles ==
  ASSUME IInv, NEW c \in Client, SpectatorThink(c)
  PROVE  Settles
<1>1. QueuesOrdered /\ Fitting(client) /\ Fit(client[c], c)
  BY DEF IInv, Fitting
<1>2. PICK t : t = client[c].team
  OBVIOUS
<1>3. PICK stopped \in Followed(client) : stopped = StopOwnFollowing(client, c)
  BY <1>1, StopOwnFits
<1>4. PICK queued \in BOOLEAN : queued <=> t # TEAM_NONE /\ G_SearchSpawnQueue(queue[t], c)
  OBVIOUS
<1>5. stopped[c].clientNum = c
  <2>1. client \in [Client -> ClientType] /\ client[c] \in ClientType
    BY <1>1, FittingType
  <2>2. CASE client[c].spectatorState = "SPECTATOR_FOLLOW"
    BY <1>3, <2>1, <2>2 DEF StopOwnFollowing, G_StopFollowing, ClientType
  <2>3. CASE client[c].spectatorState # "SPECTATOR_FOLLOW"
    BY <1>1, <1>3, <2>1, <2>3 DEF StopOwnFollowing, SpectatorThink, Fit, ClientType
  <2>. QED
    BY <2>2, <2>3
<1>6. /\ queue' = IF queued
                  THEN [queue EXCEPT ![t] = G_RemoveFromSpawnQueue(queue[t], c)] ELSE queue
      /\ client' = IF queued THEN [stopped EXCEPT ![c].classSelection = FALSE] ELSE stopped
      /\ Keep({})
  BY <1>2, <1>3, <1>4, <1>5 DEF SpectatorThink
<1>7. CASE ~queued
  BY <1>3, <1>6, <1>7, FollowingSettles
<1>8. CASE queued
  <2>1. t \in Team
    BY <1>1, <1>2, <1>4, <1>8 DEF Fit, ClientType
  <2>2. Fitting(stopped) /\ stopped \in [Client -> ClientType]
    BY DEF Followed
  <2>3. client' = [stopped EXCEPT ![c].classSelection = FALSE]
    BY <1>6, <1>8
  <2>4. Fitting(client')
    BY <2>2, <2>3, FieldsFit
  <2>5. (\A d \in Client \ {c} : client'[d] = stopped[d]) /\ ~client'[c].classSelection
    BY <2>2, <2>3 DEF ClientType
  <2>6. queue' = [queue EXCEPT ![t] = G_RemoveFromSpawnQueue(queue[t], c)]
    BY <1>6, <1>8
  <2>7. ASSUME NEW d \in Client, NEW u \in Team
        PROVE  G_SearchSpawnQueue(queue'[u], d)
                 <=> G_SearchSpawnQueue(queue[u], d) /\ ~(u = t /\ d = c)
    <3>1. queue'[u] = IF u = t THEN G_RemoveFromSpawnQueue(queue[t], c) ELSE queue[u]
      BY <1>1, <2>1, <2>6, QueueOf
    <3>2. Ordered(queue[t])
      BY <1>1, <2>1 DEF QueuesOrdered
    <3>3. G_SearchSpawnQueue(G_RemoveFromSpawnQueue(queue[t], c), d)
            <=> G_SearchSpawnQueue(queue[t], d) /\ d # c
      BY <3>2, RemoveSearch
    <3>. QED
      BY <3>1, <3>3
  <2>8. Waits(queue, client, c) => Waits(queue', client', c)
    BY <1>2, <2>5, <2>7 DEF Waits
  <2>9. \A d \in Client \ ({c} \cup {}), u \in Team :
          G_SearchSpawnQueue(queue'[u], d) <=> G_SearchSpawnQueue(queue[u], d)
    BY <2>7
  <2>. QED
    BY <1>6, <2>4, <2>5, <2>8, <2>9, OneSettles
<1>. QED
  BY <1>7, <1>8

\* A client follows another, the next, or stops, or sees what that one sees (Cmd_Follow_f,
\* Cmd_FollowCycle_f, SpectatorClientEndFrame).
LEMMA FollowSettles ==
  ASSUME IInv, NEW c \in Client,
         Cmd_Follow_f(c) \/ Cmd_FollowCycle_f(c) \/ SpectatorClientEndFrame(c)
  PROVE  Settles
<1>1. Fitting(client) /\ client \in Followed(client) /\ client \in [Client -> ClientType]
  BY FittingType DEF IInv
<1>2. queue' = queue /\ Keep({}) /\ client[c].spectatorState # "SPECTATOR_NOT"
  BY DEF Cmd_Follow_f, Cmd_FollowCycle_f, SpectatorClientEndFrame
<1>3. client' \in Followed(client)
  <2>1. CASE Cmd_Follow_f(c)
    <3>1. G_StopFollowing(client, c) \in Followed(client)
      BY <1>1, <1>2, StopFollowingFits
    <3>2. G_FollowNewClient(client, c, 1) \in Followed(client)
      BY <1>1, <1>2, FollowNewFits
    <3>3. \A i \in Client : Follow(client, c, i) \in Followed(client)
      BY <1>1, <1>2, FollowFits
    <3>. QED
      BY <2>1, <3>1, <3>2, <3>3 DEF Cmd_Follow_f
  <2>2. CASE Cmd_FollowCycle_f(c)
    BY <1>1, <1>2, <2>2, FollowNewFits DEF Cmd_FollowCycle_f
  <2>3. CASE SpectatorClientEndFrame(c)
    <3>1. Fit(client[c], c) /\ client[c].spectatorState = "SPECTATOR_FOLLOW"
      BY <1>1, <2>3 DEF SpectatorClientEndFrame, Fitting
    <3>2. client[client[c].spectatorClient].clientNum \in Client
      BY <1>1, <3>1 DEF Fit, ClientType
    <3>3. PICK num \in Client : num = client[client[c].spectatorClient].clientNum
      BY <3>2
    <3>4. client' = [client EXCEPT ![c].clientNum = num]
      BY <2>3, <3>3 DEF SpectatorClientEndFrame
    <3>. QED
      BY <1>1, <3>1, <3>4, ViewFits
  <2>. QED
    BY <2>1, <2>2, <2>3
<1>. QED
  BY <1>2, <1>3, FollowingSettles

\* A client dies, and chooses again (respawn).
LEMMA RespawnSettles ==
  ASSUME IInv, NEW c \in Client, respawn(c)
  PROVE  Settles
<1>1. Fitting(client) /\ client \in Followed(client) /\ client \in [Client -> ClientType]
  BY FittingType DEF IInv
<1>2. PICK chosen : chosen = [client EXCEPT ![c].classSelection = FALSE]
  OBVIOUS
<1>3. PICK dead : dead = ClientSpawn(chosen, c)
  OBVIOUS
<1>4. Fitting(chosen)
  BY <1>1, <1>2, FieldsFit
<1>5. (\A d \in Client \ {c} : chosen[d] = client[d]) /\ ~chosen[c].classSelection
  BY <1>1, <1>2 DEF ClientType
<1>6. /\ Fitting(dead) /\ (\A d \in Client \ {c} : dead[d] = chosen[d])
      /\ dead[c].classSelection = chosen[c].classSelection
  BY <1>3, <1>4, SpawnFits
<1>7. (\A d \in Client \ {c} : dead[d] = client[d]) /\ ~dead[c].classSelection
  BY <1>5, <1>6
<1>8. client' = LeaveDead(dead, c) /\ queue' = queue /\ Keep({})
      /\ client[c].spectatorState = "SPECTATOR_NOT"
  BY <1>2, <1>3 DEF respawn
<1>9. client' \in Followed(dead)
  BY <1>6, <1>8, LeaveDeadFits
<1>10. Fitting(client') /\ SamePlayers(dead, client')
  BY <1>9 DEF Followed
<1>11. ASSUME NEW d \in Client, Waits(queue, client, d) PROVE Waits(queue', client', d)
  <2>1. CASE d = c
    <3>1. ~client'[c].classSelection
      BY <1>7, <1>10 DEF SamePlayers
    <3>2. client[c].spectatorState = "SPECTATOR_NOT"
      BY <1>8
    <3>. QED
      BY <1>8, <1>11, <2>1, <3>1, <3>2 DEF Waits
  <2>2. CASE d # c
    <3>1. /\ client'[d].team = client[d].team
          /\ client'[d].connected = client[d].connected
          /\ client'[d].classSelection = client[d].classSelection
          /\ client'[d].spectatorState = "SPECTATOR_NOT" <=> client[d].spectatorState = "SPECTATOR_NOT"
      BY <1>7, <1>10, <2>2 DEF SamePlayers
    <3>. QED
      BY <1>8, <1>11, <3>1 DEF Waits
  <2>. QED
    BY <2>1, <2>2
<1>. QED
  BY <1>8, <1>10, <1>11 DEF Settles

\* The first in line spawns (G_SpawnClients).
LEMMA SpawnSettles ==
  ASSUME IInv, NEW t \in Team, G_SpawnClients(t)
  PROVE  Settles
<1>1. /\ QueuesOrdered /\ Fitting(client) /\ client \in Followed(client)
      /\ client \in [Client -> ClientType]
  BY FittingType DEF IInv
<1>2. Ordered(queue[t]) /\ G_GetSpawnQueueLength(queue[t]) > 0
  BY <1>1 DEF QueuesOrdered, G_SpawnClients
<1>3. PICK c \in Client : c = G_PeekSpawnQueue(queue[t])
  BY <1>2, PopLine
<1>4. PICK r : r = [client[c] EXCEPT !.spectatorState = "SPECTATOR_FREE",
                                     !.spectatorClient = None, !.clientNum = c]
  OBVIOUS
<1>5. PICK free : free = [client EXCEPT ![c] = r]
  OBVIOUS
<1>6. free = G_StopFollowing(client, c)
  BY <1>1, <1>4, <1>5 DEF G_StopFollowing
<1>7. client[c] \in ClientType
  BY <1>1
<1>8. /\ Fit(r, c) /\ r.team = client[c].team /\ r.connected = client[c].connected
      /\ r.classSelection = client[c].classSelection /\ r.spectatorClient = None
      /\ r = [r EXCEPT !.team = r.team]
  BY <1>4, <1>7 DEF ClientType, Fit
<1>9. Fitting(free) /\ free \in [Client -> ClientType]
  BY <1>1, <1>5, <1>8, EntryFits, FittingType
<1>10. PICK cl : cl = [free EXCEPT ![c].spectatorState = "SPECTATOR_NOT"]
  OBVIOUS
<1>11. Fitting(cl)
  BY <1>9, <1>10, FieldsFit
<1>12. free[c] = r /\ \A d \in Client \ {c} : free[d] = client[d]
  BY <1>1, <1>5
<1>13. PICK s : s = [r EXCEPT !.spectatorState = "SPECTATOR_NOT"]
  OBVIOUS
<1>14. cl = [free EXCEPT ![c] = s]
  BY <1>9, <1>10, <1>12, <1>13
<1>15. cl[c] = s /\ \A d \in Client \ {c} : cl[d] = client[d]
  BY <1>9, <1>12, <1>14
<1>16. /\ s.team = client[c].team /\ s.connected = client[c].connected
       /\ s.classSelection = client[c].classSelection /\ s.spectatorClient = None
       /\ s.spectatorState = "SPECTATOR_NOT"
  BY <1>8, <1>13 DEF Fit, ClientType
<1>17. /\ client' = ClientSpawn(cl, c) /\ Keep({})
       /\ queue' = [queue EXCEPT ![t] = Popped(queue[t])]
  BY <1>3, <1>6, <1>10 DEF G_SpawnClients
<1>18. /\ Fitting(client')
       /\ \A d \in Client \ {c} : client'[d] = cl[d]
       /\ client'[c].classSelection = cl[c].classSelection
       /\ client'[c].spectatorState = "SPECTATOR_NOT" <=>
            /\ cl[c].classSelection /\ cl[c].spectatorClient = None
            /\ cl[c].spectatorState = "SPECTATOR_NOT"
  BY <1>11, <1>17, SpawnFits
<1>19. /\ \A d \in Client \ {c} : client'[d] = client[d]
       /\ client'[c].classSelection => client'[c].spectatorState = "SPECTATOR_NOT"
  BY <1>15, <1>16, <1>18
<1>20. ASSUME NEW d \in Client, NEW u \in Team
       PROVE  G_SearchSpawnQueue(queue'[u], d)
                <=> G_SearchSpawnQueue(queue[u], d) /\ ~(u = t /\ d = c)
  <2>1. queue'[u] = IF u = t THEN Popped(queue[t]) ELSE queue[u]
    BY <1>1, <1>17, QueueOf
  <2>2. G_SearchSpawnQueue(Popped(queue[t]), d) <=> G_SearchSpawnQueue(queue[t], d) /\ d # c
    BY <1>2, <1>3, PopSearch
  <2>. QED
    BY <2>1, <2>2
<1>21. G_SearchSpawnQueue(queue[t], c)
  BY <1>2, <1>3 DEF Ordered, QueueType, G_PeekSpawnQueue, G_SearchSpawnQueue
<1>22. Waits(queue, client, c) => Waits(queue', client', c)
  BY <1>19, <1>20, <1>21 DEF Waits
<1>23. \A d \in Client \ ({c} \cup {}), u \in Team :
         G_SearchSpawnQueue(queue'[u], d) <=> G_SearchSpawnQueue(queue[u], d)
  BY <1>20
<1>24. Fitting(client') /\ Keep({}) /\ \A d \in Client \ {c} : client'[d] = client[d]
  BY <1>17, <1>18, <1>19
<1>25. client \in Followed(client)
  BY <1>1
<1>. QED
  BY <1>22, <1>23, <1>24, <1>25, OneSettles

\* Every step keeps the invariant.
LEMMA NextSettles ==
  ASSUME maxclients < MAX_CLIENTS, IInv, [Next]_vars
  PROVE  IInv'
<1>1. QueuesOrdered'
  BY NextChanges, ChangedOrdered DEF IInv
<1>2. CASE Next
  <2>1. Settles
    BY <1>2, ConnectSettles, DisconnectSettles, ChangeTeamSettles, ClassSettles, ThinkSettles,
       FollowSettles, RespawnSettles, SpawnSettles DEF Next
  <2>. QED
    BY <1>1, <2>1, SettlesKeeps DEF IInv
<1>3. CASE UNCHANGED vars
  BY <1>1, <1>3 DEF vars, IInv, WaitsWhereItShould, InOrder
<1>. QED
  BY <1>2, <1>3

\* It holds at the start.
LEMMA InitSettled ==
  Init => IInv
<1> SUFFICES ASSUME Init PROVE IInv
  OBVIOUS
<1>1. QueuesOrdered
  BY InitOrdered DEF Init, QueuesOrdered, Ordered
<1>2. ASSUME NEW c \in Client
      PROVE  Fit(client[c], c) /\ ~client[c].connected
  BY <1>2 DEF Init, NewClient, Fit, ClientType
<1>3. Fitting(client)
  <2>1. client = [c \in Client |-> client[c]]
    BY DEF Init
  <2>. QED
    BY <1>2, <2>1 DEF Fitting
<1>4. ASSUME NEW c \in Client, NEW t \in Team PROVE ~G_SearchSpawnQueue(queue[t], c)
  <2>1. queue[t] = G_InitSpawnQueue
    BY DEF Init
  <2>2. \A i \in Cell : queue[t].clients[i] = None
    BY <2>1 DEF G_InitSpawnQueue
  <2>3. c # None
    BY SlotsAssumption DEF Client, None
  <2>. QED
    BY <2>2, <2>3 DEF G_SearchSpawnQueue
<1>5. WaitsWhereItShould
  BY <1>2, <1>4 DEF WaitsWhereItShould, InOrder
<1>. QED
  BY <1>1, <1>3, <1>5 DEF IInv, Init
-----------------------------------------------------------------------------
(* Theorems. *)

\* The invariant of both queues, whatever the clients do.
THEOREM Invariance ==
  ASSUME maxclients < MAX_CLIENTS
  PROVE  Spec => []QueuesOrdered
<1>1. Init => QueuesOrdered
  BY InitOrdered DEF Init, QueuesOrdered, Ordered
<1>2. QueuesOrdered /\ [Next]_vars => QueuesOrdered'
  BY NextChanges, ChangedOrdered
<1>. QED
  BY <1>1, <1>2, PTL DEF Spec

\* The ring with its two indices is a line in which nobody stands twice: for any number of
\* clients, teams and cells, if a cell is left.
THEOREM Refinement ==
  ASSUME maxclients < MAX_CLIENTS
  PROVE  Spec => BehavesAsLine
<1>1. Init => SL!Init
  BY InitOrdered DEF Init, SL!Init
<1>2. QueuesOrdered /\ [Next]_vars => [SL!Next]_[t \in Team |-> Line(queue[t])]
  BY NextChanges, ChangedOrdered
<1>3. Spec => []QueuesOrdered
  BY Invariance
<1>. QED
  BY <1>1, <1>2, <1>3, PTL DEF Spec, BehavesAsLine, SL!Spec

\* The variables have their types, and who follows follows somebody, whatever the clients do.
THEOREM TypeCorrect ==
  ASSUME maxclients < MAX_CLIENTS
  PROVE  Spec => []TypeOK
<1>1. IInv => TypeOK
  BY FittingType DEF IInv, QueuesOrdered, Fitting, Fit, TypeOK
<1>. QED
  BY <1>1, InitSettled, NextSettles, PTL DEF Spec

\* A client is in the queue of its team exactly while it has chosen a class and does not play, but
\* for those that a misdirected G_LeaveTeam left behind: for any number of clients and teams.
THEOREM NobodyLost ==
  ASSUME maxclients < MAX_CLIENTS
  PROVE  Spec => []WaitsWhereItShould
<1>1. IInv => WaitsWhereItShould
  BY DEF IInv
<1>. QED
  BY <1>1, InitSettled, NextSettles, PTL DEF Spec
=============================================================================
