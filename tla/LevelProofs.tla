------------------------------ MODULE LevelProofs ------------------------------
(***************************************************************************)
(* Proofs about LevelEnd and MapRotation, for any number of clients, for    *)
(* every configuration and for all times and limits.                        *)
(*                                                                           *)
(* MapRotation.  Beyond the depth SkipDepth the walk does not leave its      *)
(* rotation: it goes from a node to the one after it, and with each step     *)
(* the next map comes nearer by one (Distances).  The depth and the distance *)
(* that is left thus never exceed StopDepth + 1 together (InReach).          *)
(*                                                                           *)
(* LevelEnd.  The rules run in the middle of every handler, several times in *)
(* a frame.  What the invariant says of a level and its clients, and what    *)
(* the properties promise of the end of a step, is therefore said of the     *)
(* states in between (Good); each rule and each change of a client keeps it, *)
(* and so does any sequence of them.                                         *)
(***************************************************************************)
EXTENDS LevelEnd, MapRotation, TLAPS, WellFoundedInduction


\* The next map is reached before the walk gives up.
InReach ==
    phase = "walk" /\ depth > SkipDepth =>
        \A d \in Distances(Nodes) : depth + d[nodeIndex] <= StopDepth + 1

\* The place that is kept of a rotation, but of the one that is walked.
Kept ==
    \A n \in Names :
        last[n] # 0 /\ (phase = "walk" => n # g_currentMapRotation)
        => g_mapRotationNodes[n] = G_NodeIndexAfter(rotations[n], last[n])

IInv == TypeOK /\ InReach /\ NeverGivesUp /\ (MapsInReach => Kept)

--------------------------------------------------------------------------------
(* The nodes of a rotation. *)

\* A configuration has nodes for each of its rotations.
LEMMA NodesType ==
    ASSUME NEW config \in Configs, NEW n \in Names
    PROVE  /\ config[n] \in Seq(Node)
           /\ Len(config[n]) \in Nat \ {0}
<1>1. config[n] \in Seq(Node) /\ config[n] # <<>>
  BY ConfigsAssumption
<1>. QED
  BY <1>1

\* The index after an index of a rotation is one (G_NodeIndexAfter).
LEMMA IndexAfter ==
    ASSUME NEW config \in Configs, NEW n \in Names, NEW i \in 1 .. Len(config[n])
    PROVE  G_NodeIndexAfter(config[n], i) \in 1 .. Len(config[n])
BY NodesType DEF G_NodeIndexAfter

\* What a distance is.
LEMMA DistanceStep ==
    ASSUME NEW config \in Configs, NEW n \in Names, NEW d \in Distances(config[n]),
           NEW i \in 1 .. Len(config[n])
    PROVE  /\ d[i] \in Nat
           /\ d[i] <= StopDepth - SkipDepth
           /\ ~IsMap(config[n][i]) => d[i] = d[G_NodeIndexAfter(config[n], i)] + 1
<1>1. d \in [1 .. Len(config[n]) -> 0 .. StopDepth - SkipDepth]
  BY DEF Distances
<1>2. d[i] \in 0 .. StopDepth - SkipDepth
  BY <1>1
<1>3. ~IsMap(config[n][i]) => d[i] = d[G_NodeIndexAfter(config[n], i)] + 1
  BY DEF Distances
<1>. QED
  BY <1>2, <1>3, ConfigsAssumption

\* Within the limits a distance does not reach beyond the depth at which the walk gives up.
LEMMA FromTheLimit ==
    ASSUME NEW config \in Configs, NEW n \in Names, NEW d \in Distances(config[n]),
           NEW i \in 1 .. Len(config[n]), NEW k \in Nat, k <= SkipDepth + 1
    PROVE  k + d[i] <= StopDepth + 1
BY DistanceStep, ConfigsAssumption

--------------------------------------------------------------------------------
(* The stack. *)

\* What is pushed is a rotation, and the stack keeps to its room.
LEMMA PushedType ==
    ASSUME g_currentMapRotation \in Names, NEW stack \in Seq(Names), Len(stack) <= MaxStack
    PROVE  Pushed(stack) \in Seq(Names) /\ Len(Pushed(stack)) <= MaxStack
<1>. DEFINE all  == <<g_currentMapRotation>> \o stack
            room == IF Len(stack) < MaxStack THEN Len(stack) + 1 ELSE MaxStack
<1>1. all \in Seq(Names) /\ Len(all) = Len(stack) + 1
  OBVIOUS
<1>2. room \in Nat /\ room <= MaxStack /\ room <= Len(all)
  BY <1>1, ConfigsAssumption
<1>. HIDE DEF all, room
<1>3. SubSeq(all, 1, room) \in Seq(Names) /\ Len(SubSeq(all, 1, room)) = room
  BY <1>1, <1>2
<1>. QED
  BY <1>2, <1>3 DEF Pushed, all, room

--------------------------------------------------------------------------------
(* The invariant. *)

\* What a step of the walk writes.
LEMMA Walking ==
    ASSUME TypeOK, phase = "walk"
    PROVE  /\ g_currentMapRotation \in Names
           /\ nodeIndex \in 1 .. Len(Nodes)
           /\ After \in 1 .. Len(Nodes)
           /\ After = G_NodeIndexAfter(rotations[g_currentMapRotation], nodeIndex)
           /\ \A n \in Names : Len(rotations[n]) \in Nat \ {0}
           /\ Left \in [Names -> Nat]
           /\ \A n \in Names : Left[n] \in 1 .. Len(rotations[n])
           /\ Ran \in [Names -> Nat]
           /\ \A n \in Names : Ran[n] \in 0 .. Len(rotations[n])
<1>1. g_currentMapRotation \in Names /\ nodeIndex \in 1 .. Len(Nodes) /\ rotations \in Configs
  BY DEF TypeOK
<1>2. After \in 1 .. Len(Nodes)
  BY <1>1, IndexAfter DEF After, Nodes
<1>3. After = G_NodeIndexAfter(rotations[g_currentMapRotation], nodeIndex)
  BY DEF After, Nodes
<1>4. \A n \in Names : Len(rotations[n]) \in Nat \ {0}
  BY <1>1, NodesType
<1>5. Left \in [Names -> Nat] /\ \A n \in Names : Left[n] \in 1 .. Len(rotations[n])
  BY <1>1, <1>2, <1>4 DEF TypeOK, Left, Nodes
<1>6. Ran \in [Names -> Nat] /\ \A n \in Names : Ran[n] \in 0 .. Len(rotations[n])
  BY <1>1, <1>4 DEF TypeOK, Ran, Nodes
<1>. QED
  BY <1>1, <1>2, <1>3, <1>4, <1>5, <1>6

\* Each step keeps the type.
LEMMA StepType ==
    ASSUME TypeOK, Next
    PROVE  TypeOK'
<1>1. CASE GiveUp
  BY <1>1, Walking DEF TypeOK, GiveUp, Nodes
<1>2. CASE PassBy
  BY <1>2, Walking DEF TypeOK, PassBy, NextNode, Nodes
<1>3. CASE G_IssueMapChange
  BY <1>3, Walking DEF TypeOK, G_IssueMapChange, Runs, Nodes
<1>4. CASE Return
  <2>1. phase = "walk"
    BY <1>4 DEF Return, Runs
  <2>2. Head(g_mapRotationStack) \in Names /\ Tail(g_mapRotationStack) \in Seq(Names)
        /\ Len(Tail(g_mapRotationStack)) <= MaxStack
    BY <1>4, ConfigsAssumption DEF Return, TypeOK
  <2>3. PICK n \in Names : n = Head(g_mapRotationStack)
    BY <2>2
  <2>4. g_currentMapRotation' = n /\ g_mapRotationNodes' = Left /\ nodeIndex' = Left[n]
        /\ rotations' = rotations
    BY <1>4, <2>3 DEF Return, G_AdvanceMapRotation
  <2>5. nodeIndex' \in 1 .. Len(Nodes')
    BY <2>1, <2>4, Walking DEF Nodes
  <2>6. g_mapRotationStack' = Tail(g_mapRotationStack) /\ last' = Ran /\ phase' = "walk"
        /\ depth' = depth + 1
    BY <1>4 DEF Return, G_AdvanceMapRotation
  <2>7. /\ Left \in [Names -> Nat]
        /\ \A m \in Names : Left[m] \in 1 .. Len(rotations[m])
        /\ Ran \in [Names -> Nat]
        /\ \A m \in Names : Ran[m] \in 0 .. Len(rotations[m])
    BY <2>1, Walking
  <2>. QED
    BY <2>2, <2>4, <2>5, <2>6, <2>7 DEF TypeOK
<1>5. CASE GotoRotation
  <2>1. phase = "walk" /\ node.name \in Names
    BY <1>5 DEF GotoRotation, Runs
  <2>2. Pushed(g_mapRotationStack) \in Seq(Names) /\ Len(Pushed(g_mapRotationStack)) <= MaxStack
    BY <2>1, PushedType DEF TypeOK
  <2>3. g_mapRotationNodes' \in [Names -> Nat]
        /\ \A n \in Names : g_mapRotationNodes'[n] \in 1 .. Len(rotations[n])
    <3>1. CASE g_mapRotationNodes' = [Left EXCEPT ![node.name] = 1]
      BY <2>1, <3>1, Walking
    <3>2. CASE g_mapRotationNodes' = Left
      BY <2>1, <3>2, Walking
    <3>. QED
      BY <1>5, <3>1, <3>2 DEF GotoRotation
  <2>4. last' \in [Names -> Nat] /\ \A n \in Names : last'[n] \in 0 .. Len(rotations[n])
    <3>1. CASE last' = [Ran EXCEPT ![node.name] = 0]
      BY <2>1, <3>1, Walking
    <3>2. CASE last' = Ran
      BY <2>1, <3>2, Walking
    <3>. QED
      BY <1>5, <3>1, <3>2 DEF GotoRotation
  <2>. QED
    BY <1>5, <2>1, <2>2, <2>3, <2>4, Walking DEF TypeOK, GotoRotation, G_AdvanceMapRotation, Nodes
<1>6. ASSUME NEW i \in 1 .. Len(Nodes), phase = "walk", Jump(i)
      PROVE  TypeOK'
  <2>1. g_currentMapRotation \in Names /\ i \in 1 .. Len(rotations[g_currentMapRotation]) /\ i \in Nat
    BY <1>6, Walking DEF Nodes
  <2>2. g_mapRotationNodes' = [g_mapRotationNodes EXCEPT ![g_currentMapRotation] = i]
    BY <1>6 DEF Jump
  <2>3. g_mapRotationNodes' \in [Names -> Nat]
        /\ \A n \in Names : g_mapRotationNodes'[n] \in 1 .. Len(rotations[n])
    BY <2>1, <2>2 DEF TypeOK
  <2>. QED
    BY <1>6, <2>3, Walking DEF TypeOK, Jump, G_AdvanceMapRotation, Nodes
<1>7. CASE GotoLabel
  <2>1. PICK i \in Named("NT_LABEL") : Jump(G_NodeIndexAfter(Nodes, i))
    BY <1>7 DEF GotoLabel
  <2>2. phase = "walk" /\ i \in 1 .. Len(Nodes)
    BY <1>7 DEF GotoLabel, Runs, Named
  <2>3. G_NodeIndexAfter(Nodes, i) \in 1 .. Len(Nodes)
    BY <2>2, IndexAfter DEF TypeOK, Nodes
  <2>. QED
    BY <1>6, <2>1, <2>2, <2>3
<1>8. CASE GotoMap
  BY <1>6, <1>8 DEF GotoMap, Runs, Named
<1>9. CASE GotoNowhere
  BY <1>9, Walking DEF TypeOK, GotoNowhere, Runs, Nodes
<1>10. CASE LevelOver
  BY <1>10 DEF TypeOK, LevelOver, G_AdvanceMapRotation, Nodes
<1>11. CASE G_InitMapRotations
  BY <1>11 DEF TypeOK, G_InitMapRotations, Nodes
<1>12. CASE \E n \in Names : Svcmd_MapRotation_f(n)
  <2>1. PICK n \in Names : Svcmd_MapRotation_f(n)
    BY <1>12
  <2>2. g_mapRotationStack' \in Seq(Names) /\ Len(g_mapRotationStack') <= MaxStack
    <3>1. CASE g_currentMapRotation = NOT_ROTATING
      BY <2>1, <3>1, ConfigsAssumption DEF Svcmd_MapRotation_f
    <3>2. CASE g_currentMapRotation # NOT_ROTATING
      <4>1. g_currentMapRotation \in Names /\ <<>> \in Seq(Names) /\ Len(<<>>) <= MaxStack
        BY <3>2, ConfigsAssumption DEF TypeOK
      <4>. QED
        BY <2>1, <3>2, <4>1, PushedType DEF Svcmd_MapRotation_f
    <3>. QED
      BY <3>1, <3>2
  <2>. QED
    BY <2>1, <2>2 DEF TypeOK, Svcmd_MapRotation_f, Nodes
<1>13. CASE G_StopMapRotation
  BY <1>13 DEF TypeOK, G_StopMapRotation, Nodes
<1>. QED
  BY <1>1, <1>2, <1>3, <1>4, <1>5, <1>7, <1>8, <1>9, <1>10, <1>11, <1>12, <1>13 DEF Next, Step

\* Each step keeps the next map in reach; jumps happen within the first nodes only.
LEMMA StepReach ==
    ASSUME TypeOK, TypeOK', InReach, Next
    PROVE  InReach'
<1>1. CASE phase' # "walk"
  BY <1>1 DEF InReach
<1>2. CASE phase' = "walk" /\ depth' \in Nat /\ depth' <= SkipDepth + 1
  <2>1. rotations' \in Configs /\ g_currentMapRotation' \in Names /\ nodeIndex' \in 1 .. Len(Nodes')
    BY <1>2 DEF TypeOK
  <2>. QED
    BY <1>2, <2>1, FromTheLimit DEF InReach, Nodes
<1>3. CASE PassBy /\ depth > SkipDepth
  <2>1. phase = "walk" /\ depth' = depth + 1 /\ nodeIndex' = After
        /\ Nodes' = Nodes /\ depth \in Nat
    BY <1>3 DEF PassBy, NextNode, TypeOK, Nodes
  <2>2. ~IsMap(node)
    <3>1. rotations[g_currentMapRotation] \in Seq(Node) /\ nodeIndex \in 1 .. Len(Nodes)
      BY <2>1, Walking, NodesType DEF TypeOK
    <3>2. node \in Node
      BY <3>1 DEF node, Nodes
    <3>. QED
      BY <1>3, <3>2 DEF PassBy, Deep, IsMap, Node
  <2>3. ASSUME NEW d \in Distances(Nodes)
        PROVE  depth + 1 + d[After] <= StopDepth + 1
    <3>1. /\ rotations \in Configs
          /\ g_currentMapRotation \in Names
          /\ nodeIndex \in 1 .. Len(Nodes)
          /\ After \in 1 .. Len(Nodes)
      BY <2>1, Walking DEF TypeOK
    <3>2. d[nodeIndex] = d[After] + 1 /\ d[After] \in Nat
      BY <2>2, <3>1, DistanceStep DEF Nodes, After, node
    <3>3. depth + d[nodeIndex] <= StopDepth + 1
      BY <1>3, <2>1 DEF InReach
    <3>. QED
      BY <2>1, <3>2, <3>3
  <2>. QED
    BY <2>1, <2>3 DEF InReach
<1>4. CASE PassBy /\ ~(depth > SkipDepth)
  BY <1>2, <1>4, ConfigsAssumption DEF PassBy, NextNode, TypeOK
<1>5. CASE Return \/ GotoRotation \/ GotoLabel \/ GotoMap \/ GotoNowhere
  <2>1. phase = "walk" /\ ~TooDeep /\ ~Deep /\ node.type # "NT_MAP"
    BY <1>5 DEF Return, GotoRotation, GotoLabel, GotoMap, GotoNowhere, Runs
  <2>2. depth \in Nat /\ depth <= SkipDepth
    BY <2>1, ConfigsAssumption DEF Deep, TypeOK
  <2>3. phase' = "walk" /\ depth' = depth + 1
    BY <1>5, <2>1 DEF Return, GotoRotation, GotoLabel, GotoMap, GotoNowhere, Jump,
                      G_AdvanceMapRotation
  <2>. QED
    BY <1>2, <2>2, <2>3, ConfigsAssumption
<1>6. CASE GiveUp \/ G_IssueMapChange \/ G_InitMapRotations
  BY <1>1, <1>6 DEF GiveUp, G_IssueMapChange, G_InitMapRotations
<1>7. CASE LevelOver
  BY <1>2, <1>7, ConfigsAssumption DEF LevelOver, G_AdvanceMapRotation
<1>8. CASE G_StopMapRotation \/ \E n \in Names : Svcmd_MapRotation_f(n)
  BY <1>1, <1>8 DEF G_StopMapRotation, Svcmd_MapRotation_f
<1>. QED
  BY <1>3, <1>4, <1>5, <1>6, <1>7, <1>8 DEF Next, Step

\* No step gives up.
LEMMA StepGoesOn ==
    ASSUME TypeOK, InReach, NeverGivesUp, Next
    PROVE  NeverGivesUp'
<1>1. CASE GiveUp /\ MapsInReach
  <2>1. /\ phase = "walk"
        /\ depth > StopDepth
        /\ ~IsMap(node)
        /\ depth \in Nat
    BY <1>1 DEF GiveUp, TooDeep, IsMap, TypeOK
  <2>2. /\ rotations \in Configs
        /\ g_currentMapRotation \in Names
        /\ nodeIndex \in 1 .. Len(Nodes)
        /\ After \in 1 .. Len(Nodes)
    BY <2>1, Walking DEF TypeOK
  <2>3. PICK d \in Distances(Nodes) : TRUE
    BY <1>1, <2>2 DEF MapsInReach, Nodes
  <2>4. d[nodeIndex] = d[After] + 1 /\ d[After] \in Nat
    BY <2>1, <2>2, DistanceStep DEF Nodes, After, node
  <2>5. depth + d[nodeIndex] <= StopDepth + 1
    BY <2>1, ConfigsAssumption DEF InReach
  <2>. QED
    BY <2>1, <2>4, <2>5, ConfigsAssumption
<1>2. CASE GiveUp /\ ~MapsInReach
  <2>1. rotations' = rotations
    BY <1>2 DEF GiveUp
  <2>. QED
    BY <1>2, <2>1 DEF NeverGivesUp, MapsInReach
<1>3. CASE PassBy
  <2>1. rotations' = rotations /\ phase' = phase
    BY <1>3 DEF PassBy, NextNode
  <2>. QED
    BY <2>1 DEF NeverGivesUp, MapsInReach
<1>4. CASE GotoNowhere
  BY <1>4 DEF GotoNowhere, Runs, NeverGivesUp
<1>5. CASE G_IssueMapChange \/ Return \/ GotoRotation \/ GotoLabel \/ GotoMap \/ LevelOver
  BY <1>5 DEF G_IssueMapChange, Return, GotoRotation, GotoLabel, GotoMap, LevelOver, Jump,
              G_AdvanceMapRotation, NeverGivesUp
<1>6. CASE G_InitMapRotations \/ G_StopMapRotation \/ \E n \in Names : Svcmd_MapRotation_f(n)
  BY <1>6 DEF G_InitMapRotations, G_StopMapRotation, Svcmd_MapRotation_f, NeverGivesUp
<1>. QED
  BY <1>1, <1>2, <1>3, <1>4, <1>5, <1>6 DEF Next, Step

\* Each step that does not give up keeps the places: a rotation that is left has been run last at
\* the node before its place.
LEMMA StepKeeps ==
    ASSUME TypeOK, Kept, Next, phase # "stopped", phase' # "stopped"
    PROVE  Kept'
<1>. DEFINE Place(n) == G_NodeIndexAfter(rotations[n], last[n])
<1>1. ASSUME NEW n \in Names, rotations' = rotations, last'[n] = last[n],
             g_mapRotationNodes'[n] = g_mapRotationNodes[n],
             last[n] # 0, phase = "walk" => n # g_currentMapRotation
      PROVE  g_mapRotationNodes'[n] = G_NodeIndexAfter(rotations[n], last[n])'
  BY <1>1 DEF Kept
<1>2. ASSUME phase = "walk", NEW n \in Names, n # g_currentMapRotation
      PROVE  Ran[n] = last[n] /\ Left[n] = g_mapRotationNodes[n]
  BY <1>2 DEF TypeOK, Ran, Left
<1>3. ASSUME phase = "walk"
      PROVE  Left[g_currentMapRotation] =
                 G_NodeIndexAfter(rotations[g_currentMapRotation], Ran[g_currentMapRotation])
  <2>1. Ran[g_currentMapRotation] = nodeIndex /\ Left[g_currentMapRotation] = After
    BY <1>3, Walking DEF TypeOK, Ran, Left
  <2>. QED
    BY <1>3, <2>1, Walking
<1>4. ASSUME phase = "walk", rotations' = rotations, NEW n \in Names,
             g_mapRotationNodes'[n] = Left[n], last'[n] = Ran[n], last'[n] # 0
      PROVE  g_mapRotationNodes'[n] = G_NodeIndexAfter(rotations[n], last[n])'
  <2>1. CASE n = g_currentMapRotation
    BY <1>3, <1>4, <2>1
  <2>2. CASE n # g_currentMapRotation
    BY <1>2, <1>4, <2>2 DEF Kept
  <2>. QED
    BY <2>1, <2>2
<1>5. CASE G_IssueMapChange \/ Return
  <2>1. phase = "walk" /\ rotations' = rotations /\ g_mapRotationNodes' = Left /\ last' = Ran
    BY <1>5 DEF G_IssueMapChange, Return, Runs
  <2>. QED
    BY <1>4, <2>1 DEF Kept
<1>6. CASE GotoRotation
  <2>1. phase = "walk" /\ rotations' = rotations /\ node.name \in Names
        /\ g_currentMapRotation' = node.name
    BY <1>6 DEF GotoRotation, Runs
  <2>2. PICK name \in Names : name = node.name
    BY <2>1
  <2>3. ASSUME NEW n \in Names, last'[n] # 0
        PROVE  g_mapRotationNodes'[n] = Left[n] /\ last'[n] = Ran[n]
    <3>1. CASE g_mapRotationNodes' = Left /\ last' = Ran
      BY <3>1
    <3>2. CASE /\ g_mapRotationNodes' = [Left EXCEPT ![name] = 1]
               /\ last' = [Ran EXCEPT ![name] = 0]
      <4>1. Left \in [Names -> Nat] /\ Ran \in [Names -> Nat]
        BY <2>1, Walking
      <4>. QED
        BY <2>3, <3>2, <4>1
    <3>. QED
      BY <1>6, <2>2, <3>1, <3>2 DEF GotoRotation
  <2>. QED
    BY <1>4, <2>1, <2>3 DEF Kept
<1>7. CASE PassBy \/ GotoLabel \/ GotoMap
  <2>1. /\ phase = "walk"
        /\ phase' = "walk"
        /\ rotations' = rotations
        /\ g_currentMapRotation' = g_currentMapRotation
        /\ g_currentMapRotation \in Names
        /\ last' = Ran
    BY <1>7, Walking DEF PassBy, NextNode, GotoLabel, GotoMap, Jump, Runs, G_AdvanceMapRotation
  <2>2. ASSUME NEW n \in Names, n # g_currentMapRotation
        PROVE  g_mapRotationNodes'[n] = g_mapRotationNodes[n]
    BY <1>7, <2>2 DEF PassBy, NextNode, GotoLabel, GotoMap, Jump, TypeOK
  <2>. QED
    BY <1>1, <1>2, <2>1, <2>2 DEF Kept
<1>8. CASE GotoNowhere
  <2>1. phase = "walk" /\ rotations' = rotations /\ g_mapRotationNodes' = Left /\ last' = Ran
    BY <1>8 DEF GotoNowhere, Runs
  <2>. QED
    BY <1>4, <2>1 DEF Kept
<1>9. CASE GiveUp
  BY <1>9 DEF GiveUp, Kept
<1>10. CASE \/ LevelOver /\ phase = "level"
            \/ G_InitMapRotations
            \/ G_StopMapRotation
            \/ \E n \in Names : Svcmd_MapRotation_f(n)
  <2>1. /\ phase \in {"level", "change"}
        /\ rotations' = rotations
        /\ g_mapRotationNodes' = g_mapRotationNodes
        /\ last' = last
    BY <1>10 DEF LevelOver, G_InitMapRotations, G_StopMapRotation, Svcmd_MapRotation_f
  <2>. QED
    BY <1>1, <2>1 DEF Kept
<1>. QED
  BY <1>5, <1>6, <1>7, <1>8, <1>9, <1>10 DEF Next, Step, LevelOver

\* No step changes the configuration.
LEMMA SameConfig ==
    ASSUME Next
    PROVE  rotations' = rotations
BY DEF Next, Step, GiveUp, PassBy, G_IssueMapChange, Return, GotoRotation, GotoLabel, GotoMap,
       GotoNowhere, Jump, LevelOver, G_InitMapRotations, Svcmd_MapRotation_f, G_StopMapRotation

--------------------------------------------------------------------------------
(* The theorems. *)

LEMMA Initially ==
    ASSUME Init
    PROVE  IInv
<1>1. \A n \in Names : Len(rotations[n]) \in Nat \ {0}
  BY NodesType DEF Init
<1>2. TypeOK
  BY <1>1, ConfigsAssumption DEF Init, TypeOK
<1>. QED
  BY <1>2 DEF Init, IInv, InReach, NeverGivesUp, Kept

LEMMA Stepwise ==
    ASSUME IInv, [Next]_vars
    PROVE  IInv'
<1>1. CASE Next
  <2>1. TypeOK'
    BY <1>1, StepType DEF IInv
  <2>2. InReach'
    BY <1>1, <2>1, StepReach DEF IInv
  <2>3. NeverGivesUp'
    BY <1>1, StepGoesOn DEF IInv
  <2>4. ASSUME MapsInReach'
        PROVE  Kept'
    <3>1. MapsInReach
      BY <1>1, <2>4, SameConfig DEF MapsInReach
    <3>2. Kept /\ phase # "stopped" /\ phase' # "stopped" /\ TypeOK
      BY <2>3, <2>4, <3>1 DEF IInv, NeverGivesUp
    <3>. QED
      BY <1>1, <3>2, StepKeeps
  <2>. QED
    BY <2>1, <2>2, <2>3, <2>4 DEF IInv
<1>2. CASE UNCHANGED vars
  <2>1. TypeOK'
    BY <1>2 DEF vars, IInv, TypeOK, Nodes
  <2>2. InReach'
    BY <1>2 DEF vars, IInv, InReach, Nodes
  <2>3. NeverGivesUp' /\ (MapsInReach => Kept)'
    BY <1>2 DEF vars, IInv, NeverGivesUp, MapsInReach, Kept
  <2>. QED
    BY <2>1, <2>2, <2>3 DEF IInv
<1>. QED
  BY <1>1, <1>2

\* The invariant holds in every state of the walk and between the walks.
THEOREM Invariance == Spec => []IInv
<1>1. Init => IInv
  BY Initially
<1>2. IInv /\ [Next]_vars => IInv'
  BY Stepwise
<1>. QED
  BY <1>1, <1>2, PTL DEF Spec

\* The indices that are kept are those of nodes, the rotations on the stack exist, and the stack
\* keeps to its room.
THEOREM TypeCorrect == Spec => []TypeOK
<1>1. IInv => TypeOK
  BY DEF IInv
<1>. QED
  BY <1>1, Invariance, PTL

\* For every configuration in which the maps of each rotation are in reach of each other no walk
\* gives up, whatever the rotations do with each other and the conditions say.
THEOREM AlwaysAMap == Spec => []NeverGivesUp
<1>1. IInv => NeverGivesUp
  BY DEF IInv
<1>. QED
  BY <1>1, Invariance, PTL

LEMMA StepResumes ==
    ASSUME IInv, Next, MapsInReach, phase' = "walk",
           phase # "walk" \/ g_mapRotationStack' # g_mapRotationStack,
           last'[g_currentMapRotation'] # 0
    PROVE  nodeIndex' = G_NodeIndexAfter(rotations[g_currentMapRotation'], last'[g_currentMapRotation'])
<1>1. TypeOK /\ Kept /\ phase # "stopped"
  BY DEF IInv, NeverGivesUp
<1>2. CASE LevelOver
  <2>1. /\ phase = "level"
        /\ g_currentMapRotation \in Names
        /\ g_currentMapRotation' = g_currentMapRotation
        /\ last' = last
        /\ nodeIndex' = g_mapRotationNodes[g_currentMapRotation]
    BY <1>1, <1>2 DEF LevelOver, G_AdvanceMapRotation, TypeOK
  <2>. QED
    BY <1>1, <2>1 DEF Kept
<1>3. CASE Return \/ GotoRotation
  <2>1. PICK r \in Names : r = g_currentMapRotation'
    <3>1. CASE Return
      BY <1>1, <3>1 DEF Return, TypeOK
    <3>2. CASE GotoRotation
      BY <3>2 DEF GotoRotation
    <3>. QED
      BY <1>3, <3>1, <3>2
  <2>2. phase = "walk" /\ nodeIndex' = g_mapRotationNodes'[r]
    BY <1>3, <2>1 DEF Return, GotoRotation, Runs, G_AdvanceMapRotation
  <2>3. Left \in [Names -> Nat] /\ Ran \in [Names -> Nat]
    BY <1>1, <2>2, Walking
  <2>4. g_mapRotationNodes'[r] = Left[r] /\ last'[r] = Ran[r]
    <3>1. CASE g_mapRotationNodes' = Left /\ last' = Ran
      BY <3>1
    <3>2. CASE last' = [Ran EXCEPT ![r] = 0]
      BY <2>1, <2>3, <3>2
    <3>. QED
      BY <1>3, <2>1, <3>1, <3>2 DEF Return, GotoRotation
  <2>5. Left[r] = G_NodeIndexAfter(rotations[r], Ran[r])
    <3>1. CASE r = g_currentMapRotation
      <4>1. Left[r] = After /\ Ran[r] = nodeIndex
        BY <1>1, <2>1, <3>1 DEF TypeOK, Left, Ran
      <4>. QED
        BY <1>1, <2>2, <3>1, <4>1, Walking
    <3>2. CASE r # g_currentMapRotation
      <4>1. Left[r] = g_mapRotationNodes[r] /\ Ran[r] = last[r]
        BY <1>1, <3>2 DEF TypeOK, Left, Ran
      <4>. QED
        BY <1>1, <2>1, <2>4, <3>2, <4>1 DEF Kept
    <3>. QED
      BY <3>1, <3>2
  <2>. QED
    BY <2>1, <2>2, <2>4, <2>5
<1>4. CASE PassBy \/ GotoLabel \/ GotoMap \/ GotoNowhere
  BY <1>4 DEF PassBy, NextNode, GotoLabel, GotoMap, GotoNowhere, Jump, Runs
<1>5. CASE GiveUp \/ G_IssueMapChange \/ G_InitMapRotations
  BY <1>5 DEF GiveUp, G_IssueMapChange, G_InitMapRotations
<1>6. CASE G_StopMapRotation \/ \E n \in Names : Svcmd_MapRotation_f(n)
  BY <1>6 DEF G_StopMapRotation, Svcmd_MapRotation_f
<1>. QED
  BY <1>2, <1>3, <1>4, <1>5, <1>6 DEF Next, Step

\* A rotation that is come back to goes on after the node that was run last in it.
THEOREM Resumes == Spec => GoesOn
<1>1. IInv /\ [Next]_vars =>
        [/\ MapsInReach
         /\ phase' = "walk"
         /\ phase # "walk" \/ g_mapRotationStack' # g_mapRotationStack
         /\ last'[g_currentMapRotation'] # 0
         => nodeIndex' = G_NodeIndexAfter(rotations[g_currentMapRotation'],
                                          last'[g_currentMapRotation'])]_vars
  BY StepResumes
<1>. QED
  BY <1>1, Invariance, PTL DEF Spec, GoesOn

--------------------------------------------------------------------------------
(* The invariant.  It is stated of a level l and its clients c, since it has to *)
(* hold in the middle of a handler too; r is since when a player is ready.      *)

\* An end that is decided is queued, or has become an intermission; no body lies about in an
\* intermission, and who is connecting has no team before the level is restarted.
Shape(l, c) ==
    /\ l \in Level /\ l.time # 0
    /\ c \in [Clients -> Client]
    /\ \A i \in Clients : c[i].body # "none" => c[i].team # "TEAM_NONE"
    /\ l.intermissionQueued # 0 \/ l.intermissiontime # 0 => l.exited
    /\ l.exited /\ ~l.restarted => l.intermissionQueued # 0 \/ l.intermissiontime # 0
    /\ l.intermissiontime # 0 => \A i \in Clients : c[i].body # "dead"
    /\ ~l.restarted =>
         \A i \in Clients : c[i].connected = "CON_CONNECTING" => c[i].team = "TEAM_NONE"

\* A timeout that runs has not begun before there was somebody ready.
Timed(l, r) ==
    l.readyToExit /\ ~l.restarted =>
        /\ l.intermissiontime # 0
        /\ r # 0 /\ r <= l.exitTime
        /\ l.time >= l.intermissiontime + MinIntermission

\* It is known since when somebody is ready.
Noted(l, c, r) == ReadyPlayers(c) # {} => r # 0 /\ r <= l.time

\* Nor does a timeout run when nobody is ready any more.
Settled(l, c) == l.readyToExit /\ ~l.restarted => ReadyPlayers(c) # {}

\* What was counted is not less than what there is, but for what was built since.
Counted(l) == \A t \in Teams : t \notin built => spawns[t] <= l.numSpawns[t]

LevelInv ==
    /\ Shape(level, clients)
    /\ Timed(level, readySince)
    /\ Noted(level, clients, readySince)
    /\ Settled(level, clients)
    /\ readySince \in Nat
    /\ readySince # 0 => ReadyPlayers(clients) # {}
    /\ spawns \in [Teams -> 0 .. MaxSpawns]
    /\ built \in SUBSET Teams
    /\ level.time > 1 => Counted(level)

\* What WinnerStands promises, in the middle of a step.
Stands(l) ==
    level.exited /\ ~level.restarted /\ ~l.restarted =>
        /\ l.exited
        /\ l.lastWin = level.lastWin
        /\ l.intermissionQueued \in {0, level.intermissionQueued}

\* What WaitsForPlayers asks of the end of an intermission.
MayExit(l, c) ==
    \/ Connected(c) = {}
    \/ l.time > level.intermissiontime + MaxIntermission
    \/ /\ l.time >= level.intermissiontime + MinIntermission
       /\ Unready(c) = {} \/ (readySince # 0 /\ l.time >= readySince + ReadyTimeout)

\* The intermission goes on, or it has ended as it may and nobody is in the game any more.
Waits(l, c) ==
    level.intermissiontime # 0 /\ ~level.restarted =>
        IF l.restarted
        THEN /\ MayExit(l, c)
             /\ \A i \in Clients : c[i].connected # "CON_CONNECTED" /\ c[i].body # "dead"
        ELSE l.intermissiontime = level.intermissiontime

\* What LoserIsBeaten promises; the spawns that the loser does not have are not counted either.
LostBy(l, c, t) ==
    /\ l.exited
    /\ l.lastWin \in Teams \ {t}
    /\ l.uncondWin # l.lastWin
    /\ t \notin built
    => spawns[t] = 0 /\ l.numSpawns[t] = 0 /\ Alive(c, t) = {}

Lost(l, c) == ~level.exited => \A t \in Teams : LostBy(l, c, t)

\* What holds in the middle of a step, for readySince as it was before.
Fine(l, c) ==
    /\ Shape(l, c)
    /\ Timed(l, readySince)
    /\ l.time > 1 + StartDelay => Counted(l)
    /\ Stands(l)
    /\ Waits(l, c)
    /\ Lost(l, c)

Good(l, c) == readySince \in Nat /\ Fine(l, c) /\ Noted(l, c, readySince)

\* What the rules leave as it is: time, what was counted, and teams.
SameLevel(l, m) == m.time = l.time /\ m.numSpawns = l.numSpawns /\ m.uncondWin = l.uncondWin
SameTeams(c, d) == \A i \in Clients : d[i].team = c[i].team

\* What becomes of l and c.
Follows(r, l, c) ==
    /\ r = State(r.level, r.clients)
    /\ Good(r.level, r.clients)
    /\ SameLevel(l, r.level)
    /\ SameTeams(c, r.clients)

--------------------------------------------------------------------------------
(* Clients. *)

\* A set of clients is empty if none is in it, and so with the others.
LEMMA Sets ==
    ASSUME NEW c
    PROVE  /\ Connected(c) = {} <=> \A i \in Clients : c[i].connected = "CON_DISCONNECTED"
           /\ Unready(c) = {} <=>
                \A i \in Clients : c[i].connected # "CON_DISCONNECTED" /\ c[i].team # "TEAM_NONE"
                                   => c[i].readyToExit
           /\ \A t : Alive(c, t) = {} <=>
                \A i \in Clients : ~(/\ c[i].connected = "CON_CONNECTED" /\ c[i].team # "TEAM_NONE"
                                     /\ c[i].team = t /\ c[i].body # "none")
           /\ ReadyPlayers(c) = {} <=>
                \A i \in Clients : c[i].connected = "CON_CONNECTED" /\ c[i].team # "TEAM_NONE"
                                   => ~c[i].readyToExit
BY DEF Connected, Unready, Alive, ReadyPlayers, Players

\* If every player is ready, so is everyone who is connected, until the level is restarted.
LEMMA AllReady ==
    ASSUME NEW l, NEW c, Shape(l, c), ~l.restarted, Players(c) = ReadyPlayers(c)
    PROVE  Unready(c) = {}
<1>1. ASSUME NEW i \in Clients, c[i].connected # "CON_DISCONNECTED", c[i].team # "TEAM_NONE"
      PROVE  c[i].readyToExit
  <2>1. c[i] \in Client /\ c[i].connected # "CON_CONNECTING"
    BY <1>1 DEF Shape
  <2>2. i \in Players(c)
    BY <1>1, <2>1 DEF Client, Players
  <2>. QED
    BY <2>2 DEF ReadyPlayers
<1>. QED
  BY <1>1, Sets

\* If no player is ready, while there are players who should be, nobody is.
LEMMA SomeReady ==
    ASSUME NEW s, ~NobodyWants(s), Players(s.clients) # ReadyPlayers(s.clients)
    PROVE  ReadyPlayers(s.clients) # {}
BY DEF NobodyWants, ReadyPlayers

--------------------------------------------------------------------------------
(* What the rules do. *)

\* A state with another level.
LEMMA OtherLevel ==
    ASSUME NEW l, NEW c, NEW s, s = State(l, c), NEW m
    PROVE  [s EXCEPT !.level = m] = State(m, c)
BY DEF State

\* The level is left: if an intermission goes on, it must be over (ExitLevel).
LEMMA ExitGood ==
    ASSUME NEW l, NEW c, Good(l, c),
           level.intermissiontime # 0 /\ ~level.restarted /\ ~l.restarted => MayExit(l, c)
    PROVE  /\ Follows(ExitLevel(State(l, c)), l, c)
           /\ ExitLevel(State(l, c)).level.restarted
<1>1. l \in Level /\ c \in [Clients -> Client]
  BY DEF Good, Fine, Shape
<1>2. PICK m : m = [l EXCEPT !.restarted = TRUE, !.intermissiontime = 0]
  OBVIOUS
<1>3. PICK d : d = [i \in Clients |-> IF c[i].connected = "CON_CONNECTED"
                                      THEN [c[i] EXCEPT !.connected = "CON_CONNECTING"] ELSE c[i]]
  OBVIOUS
<1>4. ExitLevel(State(l, c)) = State(m, d)
  BY <1>2, <1>3 DEF ExitLevel, State
<1>5. /\ m \in Level /\ m.restarted /\ m.intermissiontime = 0
      /\ m.time = l.time /\ m.numSpawns = l.numSpawns /\ m.uncondWin = l.uncondWin
      /\ m.exited = l.exited /\ m.lastWin = l.lastWin /\ m.readyToExit = l.readyToExit
      /\ m.intermissionQueued = l.intermissionQueued /\ m.exitTime = l.exitTime
  BY <1>1, <1>2 DEF Level
<1>6. ASSUME NEW i \in Clients
      PROVE  /\ d[i] \in Client
             /\ d[i].team = c[i].team /\ d[i].body = c[i].body /\ d[i].readyToExit = c[i].readyToExit
             /\ d[i].connected # "CON_CONNECTED"
             /\ d[i].connected = "CON_DISCONNECTED" <=> c[i].connected = "CON_DISCONNECTED"
  <2>1. c[i] \in Client
    BY <1>1
  <2>2. CASE c[i].connected = "CON_CONNECTED"
    <3>1. d[i] = [c[i] EXCEPT !.connected = "CON_CONNECTING"]
      BY <1>3, <2>2
    <3>. QED
      BY <2>1, <2>2, <3>1 DEF Client
  <2>3. CASE c[i].connected # "CON_CONNECTED"
    BY <1>3, <2>1, <2>3
  <2>. QED
    BY <2>2, <2>3
<1>7. d \in [Clients -> Client]
  BY <1>3, <1>6
<1>8. Shape(m, d)
  BY <1>5, <1>6, <1>7 DEF Good, Fine, Shape
<1>9. Timed(m, readySince) /\ Stands(m)
  BY <1>5 DEF Timed, Stands
<1>10. m.time > 1 + StartDelay => Counted(m)
  BY <1>5 DEF Good, Fine, Counted
<1>11. Waits(m, d)
  <2>1. SUFFICES ASSUME level.intermissiontime # 0, ~level.restarted
                 PROVE  /\ MayExit(m, d)
                        /\ \A i \in Clients : d[i].body # "dead"
    BY <1>5, <1>6 DEF Waits
  <2>2. MayExit(l, c)
    BY <2>1 DEF Good, Fine, Waits
  <2>3. Connected(c) = {} => Connected(d) = {}
    BY <1>6, Sets
  <2>4. Unready(c) = {} => Unready(d) = {}
    BY <1>6, Sets
  <2>5. MayExit(m, d)
    BY <1>5, <2>2, <2>3, <2>4 DEF MayExit
  <2>6. \A i \in Clients : c[i].body # "dead"
    BY <2>1 DEF Good, Fine, Waits, Shape
  <2>. QED
    BY <1>6, <2>5, <2>6
<1>12. Lost(m, d)
  <2>1. \A t : Alive(d, t) = {}
    BY <1>6, Sets
  <2>2. \A t \in Teams : LostBy(l, c, t) => LostBy(m, d, t)
    BY <1>5, <2>1 DEF LostBy
  <2>. QED
    BY <2>2 DEF Good, Fine, Lost
<1>13. ReadyPlayers(d) = {}
  BY <1>6, Sets
<1>14. Good(m, d)
  BY <1>8, <1>9, <1>10, <1>11, <1>12, <1>13 DEF Good, Fine, Noted
<1>15. SameLevel(l, m) /\ SameTeams(c, d)
  BY <1>5, <1>6 DEF SameLevel, SameTeams
<1>. QED
  BY <1>4, <1>5, <1>14, <1>15 DEF Follows, State

\* The intermission begins, and nobody lies dead (BeginIntermission).
LEMMA BeginGood ==
    ASSUME NEW l, NEW c, Good(l, c), l.intermissiontime = 0, l.intermissionQueued # 0
    PROVE  /\ Follows(BeginIntermission(State(l, c)), l, c)
           /\ Settled(BeginIntermission(State(l, c)).level, BeginIntermission(State(l, c)).clients)
<1>1. l \in Level /\ c \in [Clients -> Client] /\ l.time # 0
  BY DEF Good, Fine, Shape
<1>2. PICK m : m = [l EXCEPT !.intermissionQueued = 0, !.intermissiontime = l.time]
  OBVIOUS
<1>3. PICK d : d = [i \in Clients |-> IF c[i].body = "dead" THEN Spawned(c[i], "none") ELSE c[i]]
  OBVIOUS
<1>4. BeginIntermission(State(l, c)) = State(m, d)
  BY <1>2, <1>3 DEF BeginIntermission, State
<1>5. /\ m \in Level /\ m.restarted = l.restarted /\ m.intermissiontime = l.time
      /\ m.time = l.time /\ m.numSpawns = l.numSpawns /\ m.uncondWin = l.uncondWin
      /\ m.exited = l.exited /\ m.lastWin = l.lastWin /\ m.readyToExit = l.readyToExit
      /\ m.intermissionQueued = 0 /\ m.exitTime = l.exitTime
  BY <1>1, <1>2 DEF Level
<1>6. ASSUME NEW i \in Clients
      PROVE  /\ d[i] \in Client
             /\ d[i].team = c[i].team /\ d[i].connected = c[i].connected
             /\ d[i].body # "dead"
             /\ d[i].body # "none" => c[i].body # "none"
             /\ d[i].readyToExit => c[i].readyToExit
             /\ c[i].body # "dead" => d[i] = c[i]
  <2>1. c[i] \in Client
    BY <1>1
  <2>2. CASE c[i].body = "dead"
    <3>1. d[i] = [c[i] EXCEPT !.body = "none", !.readyToExit = FALSE]
      BY <1>3, <2>2 DEF Spawned
    <3>. QED
      BY <2>1, <2>2, <3>1 DEF Client
  <2>3. CASE c[i].body # "dead"
    BY <1>3, <2>1, <2>3
  <2>. QED
    BY <2>2, <2>3
<1>7. d \in [Clients -> Client] /\ l.exited
  BY <1>3, <1>6 DEF Good, Fine, Shape
<1>8. Shape(m, d)
  BY <1>1, <1>5, <1>6, <1>7 DEF Good, Fine, Shape
<1>9. ~(m.readyToExit /\ ~m.restarted)
  BY <1>5 DEF Good, Fine, Timed
<1>10. Timed(m, readySince) /\ Settled(m, d)
  BY <1>9 DEF Timed, Settled
<1>11. Stands(m)
  BY <1>5 DEF Good, Fine, Stands
<1>12. m.time > 1 + StartDelay => Counted(m)
  BY <1>5 DEF Good, Fine, Counted
<1>13. Waits(m, d)
  <2>1. SUFFICES ASSUME level.intermissiontime # 0, ~level.restarted
                 PROVE  /\ m.restarted /\ MayExit(m, d)
                        /\ \A i \in Clients : d[i].connected # "CON_CONNECTED" /\ d[i].body # "dead"
    BY DEF Waits
  <2>2. /\ l.restarted /\ MayExit(l, c)
        /\ \A i \in Clients : c[i].connected # "CON_CONNECTED" /\ c[i].body # "dead"
    BY <2>1 DEF Good, Fine, Waits
  <2>3. d = c
    BY <1>1, <1>3, <1>6, <2>2
  <2>. QED
    BY <1>5, <2>2, <2>3 DEF MayExit
<1>14. Lost(m, d)
  <2>1. ASSUME NEW t, Alive(c, t) = {} PROVE Alive(d, t) = {}
    <3>1. ASSUME NEW i \in Clients PROVE i \notin Alive(d, t)
      BY <1>6, <2>1, <3>1 DEF Alive, Players
    <3>. QED
      BY <3>1 DEF Alive, Players
  <2>2. \A t \in Teams : LostBy(l, c, t) => LostBy(m, d, t)
    BY <1>5, <2>1 DEF LostBy
  <2>. QED
    BY <2>2 DEF Good, Fine, Lost
<1>15. Noted(m, d, readySince)
  <2>1. ReadyPlayers(c) = {} => ReadyPlayers(d) = {}
    BY <1>6, Sets
  <2>. QED
    BY <1>5, <2>1 DEF Good, Noted
<1>16. Good(m, d)
  BY <1>8, <1>10, <1>11, <1>12, <1>13, <1>14, <1>15 DEF Good, Fine
<1>17. SameLevel(l, m) /\ SameTeams(c, d)
  BY <1>5, <1>6 DEF SameLevel, SameTeams
<1>. QED
  BY <1>4, <1>10, <1>16, <1>17 DEF Follows, State

\* The end is decided: whoever loses by the winner is beaten (LogExit).
LEMMA LogGood ==
    ASSUME NEW l, NEW c, Good(l, c), l.intermissiontime = 0, l.intermissionQueued = 0,
           NEW w \in {"TEAM_NONE"} \cup Teams,
           \A t \in Teams : /\ w \in Teams \ {t}
                            /\ l.uncondWin # w
                            /\ t \notin built
                            => spawns[t] = 0 /\ l.numSpawns[t] = 0 /\ Alive(c, t) = {}
    PROVE  /\ Follows(LogExit(State(l, c), w), l, c)
           /\ Settled(LogExit(State(l, c), w).level, LogExit(State(l, c), w).clients)
<1>1. l \in Level /\ c \in [Clients -> Client] /\ l.time # 0
  BY DEF Good, Fine, Shape
<1>2. PICK m : m = [l EXCEPT !.exited = TRUE, !.intermissionQueued = l.time, !.lastWin = w]
  OBVIOUS
<1>3. LogExit(State(l, c), w) = State(m, c)
  <2>1. PICK s : s = State(l, c)
    OBVIOUS
  <2>2. s.level = l
    BY <2>1 DEF State
  <2>3. LogExit(s, w) = [s EXCEPT !.level = [s.level EXCEPT !.exited = TRUE,
                                                            !.intermissionQueued = s.level.time,
                                                            !.lastWin = w]]
    BY DEF LogExit
  <2>. QED
    BY <1>2, <2>1, <2>2, <2>3, OtherLevel
<1>4. /\ m \in Level /\ m.restarted = l.restarted /\ m.intermissiontime = 0
      /\ m.time = l.time /\ m.numSpawns = l.numSpawns /\ m.uncondWin = l.uncondWin
      /\ m.exited = TRUE /\ m.lastWin = w /\ m.readyToExit = l.readyToExit
      /\ m.intermissionQueued = l.time /\ m.exitTime = l.exitTime
  BY <1>1, <1>2 DEF Level
<1>5. Shape(m, c)
  BY <1>1, <1>4 DEF Good, Fine, Shape
<1>6. ~(m.readyToExit /\ ~m.restarted)
  BY <1>4 DEF Good, Fine, Timed
<1>7. Timed(m, readySince) /\ Settled(m, c)
  BY <1>6 DEF Timed, Settled
<1>8. Stands(m)
  <2>1. ~(level.exited /\ ~level.restarted /\ ~l.restarted)
    BY DEF Good, Fine, Stands, Shape
  <2>. QED
    BY <1>4, <2>1 DEF Stands
<1>9. m.time > 1 + StartDelay => Counted(m)
  BY <1>4 DEF Good, Fine, Counted
<1>10. Waits(m, c)
  BY <1>4 DEF Good, Fine, Waits, MayExit
<1>11. Lost(m, c)
  BY <1>4 DEF Lost, LostBy
<1>12. Noted(m, c, readySince)
  BY <1>4 DEF Good, Noted
<1>13. Good(m, c)
  BY <1>5, <1>7, <1>8, <1>9, <1>10, <1>11, <1>12 DEF Good, Fine
<1>14. SameLevel(l, m) /\ SameTeams(c, c)
  BY <1>4 DEF SameLevel, SameTeams
<1>. QED
  BY <1>3, <1>7, <1>13, <1>14 DEF Follows, State

\* The timeout begins, if it has not, with somebody who is ready (StartTimeout).
LEMMA StartGood ==
    ASSUME NEW l, NEW c, Good(l, c), l.intermissiontime # 0,
           l.time >= l.intermissiontime + MinIntermission, ReadyPlayers(c) # {}
    PROVE  /\ Follows(StartTimeout(State(l, c)), l, c)
           /\ Settled(StartTimeout(State(l, c)).level, c)
           /\ StartTimeout(State(l, c)).clients = c
           /\ StartTimeout(State(l, c)).level.intermissiontime = l.intermissiontime
           /\ StartTimeout(State(l, c)).level.restarted = l.restarted
           /\ StartTimeout(State(l, c)).level.readyToExit
<1>1. l \in Level /\ c \in [Clients -> Client]
  BY DEF Good, Fine, Shape
<1>2. CASE l.readyToExit
  <2>1. StartTimeout(State(l, c)) = State(l, c)
    BY <1>2 DEF StartTimeout, State
  <2>2. Follows(State(l, c), l, c)
    BY DEF Follows, State, SameLevel, SameTeams
  <2>. QED
    BY <1>2, <2>1, <2>2 DEF Settled, State
<1>3. CASE ~l.readyToExit
  <2>1. PICK m : m = [l EXCEPT !.readyToExit = TRUE, !.exitTime = l.time]
    OBVIOUS
  <2>2. StartTimeout(State(l, c)) = State(m, c)
    BY <1>3, <2>1 DEF StartTimeout, State
  <2>3. /\ m \in Level /\ m.restarted = l.restarted /\ m.intermissiontime = l.intermissiontime
        /\ m.time = l.time /\ m.numSpawns = l.numSpawns /\ m.uncondWin = l.uncondWin
        /\ m.exited = l.exited /\ m.lastWin = l.lastWin /\ m.readyToExit = TRUE
        /\ m.intermissionQueued = l.intermissionQueued /\ m.exitTime = l.time
    BY <1>1, <2>1 DEF Level
  <2>4. Shape(m, c)
    BY <2>3 DEF Good, Fine, Shape
  <2>5. Timed(m, readySince)
    BY <2>3 DEF Timed, Good, Noted
  <2>6. Stands(m) /\ Lost(m, c) /\ Noted(m, c, readySince)
    BY <2>3 DEF Good, Fine, Stands, Lost, LostBy, Noted
  <2>7. m.time > 1 + StartDelay => Counted(m)
    BY <2>3 DEF Good, Fine, Counted
  <2>8. Waits(m, c)
    BY <2>3 DEF Good, Fine, Waits, MayExit
  <2>9. Good(m, c)
    BY <2>4, <2>5, <2>6, <2>7, <2>8 DEF Good, Fine
  <2>10. SameLevel(l, m) /\ SameTeams(c, c)
    BY <2>3 DEF SameLevel, SameTeams
  <2>. QED
    BY <2>2, <2>3, <2>9, <2>10 DEF Follows, State, Settled
<1>. QED
  BY <1>2, <1>3

\* "if nobody wants to go, clear timer"
LEMMA ClearGood ==
    ASSUME NEW l, NEW c, Good(l, c)
    PROVE  /\ Follows([State(l, c) EXCEPT !.level.readyToExit = FALSE], l, c)
           /\ Settled([State(l, c) EXCEPT !.level.readyToExit = FALSE].level, c)
           /\ [State(l, c) EXCEPT !.level.readyToExit = FALSE].clients = c
<1>1. l \in Level /\ c \in [Clients -> Client]
  BY DEF Good, Fine, Shape
<1>2. PICK m : m = [l EXCEPT !.readyToExit = FALSE]
  OBVIOUS
<1>3. [State(l, c) EXCEPT !.level.readyToExit = FALSE] = State(m, c)
  <2>1. PICK s : s = State(l, c)
    OBVIOUS
  <2>2. s.level = l
    BY <2>1 DEF State
  <2>3. [s EXCEPT !.level.readyToExit = FALSE] = [s EXCEPT !.level = [s.level EXCEPT !.readyToExit = FALSE]]
    OBVIOUS
  <2>4. [s EXCEPT !.level = m] = State(m, c)
    BY <2>1, OtherLevel
  <2>. QED
    BY <1>2, <2>1, <2>2, <2>3, <2>4
<1>4. /\ m \in Level /\ m.restarted = l.restarted /\ m.intermissiontime = l.intermissiontime
      /\ m.time = l.time /\ m.numSpawns = l.numSpawns /\ m.uncondWin = l.uncondWin
      /\ m.exited = l.exited /\ m.lastWin = l.lastWin /\ m.readyToExit = FALSE
      /\ m.intermissionQueued = l.intermissionQueued /\ m.exitTime = l.exitTime
  BY <1>1, <1>2 DEF Level
<1>5. Shape(m, c)
  BY <1>4 DEF Good, Fine, Shape
<1>6. Timed(m, readySince) /\ Settled(m, c)
  BY <1>4 DEF Timed, Settled
<1>7. Stands(m) /\ Lost(m, c) /\ Noted(m, c, readySince)
  BY <1>4 DEF Good, Fine, Stands, Lost, LostBy, Noted
<1>8. m.time > 1 + StartDelay => Counted(m)
  BY <1>4 DEF Good, Fine, Counted
<1>9. Waits(m, c)
  BY <1>4 DEF Good, Fine, Waits, MayExit
<1>10. Good(m, c)
  BY <1>5, <1>6, <1>7, <1>8, <1>9 DEF Good, Fine
<1>11. SameLevel(l, m) /\ SameTeams(c, c)
  BY <1>4 DEF SameLevel, SameTeams
<1>. QED
  BY <1>3, <1>6, <1>10, <1>11 DEF Follows, State

\* What follows from what follows.
LEMMA FollowsOn ==
    ASSUME NEW l, NEW c, NEW m, NEW d, NEW r,
           SameLevel(l, m), SameTeams(c, d), Follows(r, m, d)
    PROVE  Follows(r, l, c)
BY DEF SameLevel, SameTeams, Follows

\* Nothing follows from nothing.
LEMMA FollowsSame ==
    ASSUME NEW l, NEW c, Good(l, c)
    PROVE  Follows(State(l, c), l, c)
BY DEF Follows, State, SameLevel, SameTeams

\* The rules leave no timeout that nobody wants.
Ends(r, l, c) == Follows(r, l, c) /\ Settled(r.level, r.clients)

\* An intermission (CheckIntermissionExit).
LEMMA IntermissionGood ==
    ASSUME NEW l, NEW c, Good(l, c), l.intermissiontime # 0
    PROVE  Ends(CheckIntermissionExit(State(l, c)), l, c)
<1>1. PICK s : s = State(l, c)
  OBVIOUS
<1>2. s.level = l /\ s.clients = c
  BY <1>1 DEF State
<1>3. /\ l.time \in Nat /\ l.intermissiontime \in Nat /\ l.exitTime \in Nat
      /\ MinIntermission \in Nat /\ MaxIntermission \in Nat /\ ReadyTimeout \in Nat
      /\ readySince \in Nat
  BY LevelAssumption DEF Good, Fine, Shape, Level
<1>4. PICK r : r = CheckIntermissionExit(s)
  OBVIOUS
<1>5. level.intermissiontime # 0 /\ ~level.restarted /\ ~l.restarted
        => level.intermissiontime = l.intermissiontime
  BY DEF Good, Fine, Waits
<1> DEFINE early == l.time < l.intermissiontime + MinIntermission
<1>6. CASE Connected(c) = {} \/ (~early /\ (Overdue(s) \/ Players(c) = ReadyPlayers(c)))
  <2>1. CASE ~NobodyWants(s) \/ Overdue(s) \/ Connected(c) = {}
    <3>1. r = ExitLevel(s)
      BY <1>2, <1>4, <1>6, <2>1 DEF CheckIntermissionExit
    <3>2. ASSUME level.intermissiontime # 0, ~level.restarted, ~l.restarted PROVE MayExit(l, c)
      <4>1. CASE Connected(c) = {}
        BY <4>1 DEF MayExit
      <4>2. CASE ~early /\ Overdue(s)
        BY <1>2, <1>5, <3>2, <4>2 DEF Overdue, MayExit
      <4>3. CASE ~early /\ Players(c) = ReadyPlayers(c)
        <5>1. Unready(c) = {}
          BY <3>2, <4>3, AllReady DEF Good, Fine
        <5>2. l.time >= level.intermissiontime + MinIntermission
          BY <1>3, <1>5, <3>2, <4>3
        <5>. QED
          BY <5>1, <5>2 DEF MayExit
      <4>. QED
        BY <1>6, <4>1, <4>2, <4>3
    <3>3. Follows(r, l, c) /\ r.level.restarted
      BY <1>1, <3>1, <3>2, ExitGood
    <3>. QED
      BY <1>1, <1>4, <3>3 DEF Ends, Settled
  <2>2. CASE NobodyWants(s)
    BY <1>2, <1>6, <2>1, <2>2 DEF NobodyWants
  <2>. QED
    BY <2>1, <2>2
<1>7. CASE Connected(c) # {} /\ early
  <2>1. r = s
    BY <1>2, <1>4, <1>7 DEF CheckIntermissionExit
  <2>2. Settled(l, c)
    BY <1>3, <1>7 DEF Good, Fine, Timed, Settled
  <2>. QED
    BY <1>1, <1>2, <1>4, <2>1, <2>2, FollowsSame DEF Ends
<1>8. CASE Connected(c) # {} /\ ~early /\ ~Overdue(s) /\ NobodyWants(s)
  <2>1. r = [s EXCEPT !.level.readyToExit = FALSE]
    BY <1>2, <1>4, <1>8 DEF CheckIntermissionExit
  <2>. QED
    BY <1>1, <1>4, <2>1, ClearGood DEF Ends
<1>9. CASE /\ Connected(c) # {} /\ ~early /\ ~Overdue(s) /\ ~NobodyWants(s)
           /\ Players(c) # ReadyPlayers(c)
  <2>1. ReadyPlayers(c) # {}
    BY <1>2, <1>9, SomeReady
  <2>2. l.time >= l.intermissiontime + MinIntermission
    BY <1>3, <1>9
  <2>3. PICK m : StartTimeout(s) = State(m, c) /\ Good(m, c) /\ SameLevel(l, m) /\ Settled(m, c)
                 /\ m.intermissiontime = l.intermissiontime /\ m.restarted = l.restarted
                 /\ m.readyToExit
    BY <1>1, <2>1, <2>2, StartGood DEF Follows
  <2>4. State(m, c).level = m
    BY DEF State
  <2>5. SameTeams(c, c)
    BY DEF SameTeams
  <2>6. CASE l.time < m.exitTime + ReadyTimeout
    <3>1. r = State(m, c)
      BY <1>2, <1>4, <1>9, <2>3, <2>4, <2>6 DEF CheckIntermissionExit
    <3>2. Follows(State(m, c), m, c)
      BY <2>3, FollowsSame
    <3>3. r.level = m /\ r.clients = c
      BY <3>1 DEF State
    <3>. QED
      BY <1>1, <1>4, <2>3, <2>5, <3>1, <3>2, <3>3, FollowsOn DEF Ends
  <2>7. CASE ~(l.time < m.exitTime + ReadyTimeout)
    <3>1. r = ExitLevel(State(m, c))
      BY <1>2, <1>4, <1>9, <2>3, <2>4, <2>7 DEF CheckIntermissionExit
    <3>2. m.exitTime \in Nat /\ m.time = l.time
      BY <2>3 DEF Good, Fine, Shape, Level, SameLevel
    <3>3. ASSUME level.intermissiontime # 0, ~level.restarted, ~m.restarted PROVE MayExit(m, c)
      <4>1. readySince # 0 /\ readySince <= m.exitTime
        BY <2>3, <3>3 DEF Good, Fine, Timed
      <4>2. m.time >= readySince + ReadyTimeout
        BY <1>3, <2>7, <3>2, <4>1
      <4>3. m.time >= level.intermissiontime + MinIntermission
        BY <1>5, <2>2, <2>3, <3>2, <3>3
      <4>. QED
        BY <4>1, <4>2, <4>3 DEF MayExit
    <3>4. Follows(r, m, c) /\ r.level.restarted
      BY <2>3, <3>1, <3>3, ExitGood
    <3>. QED
      BY <1>1, <1>4, <2>3, <2>5, <3>4, FollowsOn DEF Ends, Settled
  <2>. QED
    BY <2>6, <2>7
<1>. QED
  BY <1>6, <1>7, <1>8, <1>9

\* Who is beaten has nothing: the spawns were counted since the level began.
LEMMA BeatenGood ==
    ASSUME NEW l, NEW c, Good(l, c), NEW t \in Teams, Beaten(State(l, c), t), t \notin built,
           spawns \in [Teams -> 0 .. MaxSpawns]
    PROVE  spawns[t] = 0 /\ l.numSpawns[t] = 0 /\ Alive(c, t) = {}
<1>1. l.time > 1 + StartDelay /\ l.numSpawns[t] = 0 /\ Alive(c, t) = {}
  BY DEF Beaten, State
<1>2. spawns[t] <= l.numSpawns[t] /\ spawns[t] \in Nat
  BY <1>1, LevelAssumption DEF Good, Fine, Counted
<1>. QED
  BY <1>1, <1>2

\* The rules, whatever they do (CheckExitRules).
LEMMA RulesGood ==
    ASSUME NEW l, NEW c, Good(l, c), spawns \in [Teams -> 0 .. MaxSpawns]
    PROVE  Ends(CheckExitRules(State(l, c)), l, c)
<1>1. PICK s : s = State(l, c)
  OBVIOUS
<1>2. s.level = l /\ s.clients = c
  BY <1>1 DEF State
<1>3. PICK r : r = CheckExitRules(s)
  OBVIOUS
<1>4. l.intermissiontime = 0 => Settled(l, c)
  BY DEF Good, Fine, Timed, Settled
<1>5. CASE l.intermissiontime # 0
  BY <1>1, <1>2, <1>5, IntermissionGood DEF CheckExitRules
<1>6. CASE l.intermissiontime = 0 /\ l.intermissionQueued # 0 /\ r # s
  BY <1>1, <1>2, <1>3, <1>6, BeginGood DEF CheckExitRules, Ends
<1>7. CASE r = s /\ l.intermissiontime = 0
  BY <1>1, <1>2, <1>3, <1>4, <1>7, FollowsSame DEF Ends
<1>8. CASE l.intermissiontime = 0 /\ l.intermissionQueued = 0 /\ r # s
  <2>1. ~("TEAM_NONE" \in Teams) /\ "TEAM_HUMANS" \in Teams /\ "TEAM_ALIENS" \in Teams
    BY DEF Teams
  <2>2. \/ r = LogExit(s, "TEAM_NONE")
        \/ r = LogExit(s, "TEAM_HUMANS") /\ HumansWin(s)
        \/ r = LogExit(s, "TEAM_ALIENS") /\ AliensWin(s)
    BY <1>2, <1>3, <1>8 DEF CheckExitRules
  <2>3. CASE r = LogExit(s, "TEAM_NONE")
    BY <1>1, <1>3, <1>8, <2>1, <2>3, LogGood DEF Ends
  <2>4. CASE r = LogExit(s, "TEAM_HUMANS") /\ HumansWin(s)
    <3>1. ASSUME NEW t \in Teams, "TEAM_HUMANS" \in Teams \ {t}, l.uncondWin # "TEAM_HUMANS",
                 t \notin built
          PROVE  spawns[t] = 0 /\ l.numSpawns[t] = 0 /\ Alive(c, t) = {}
      <4>1. t = "TEAM_ALIENS" /\ Beaten(s, t)
        BY <1>2, <2>4, <3>1 DEF Teams, HumansWin
      <4>. QED
        BY <1>1, <3>1, <4>1, BeatenGood
    <3>. QED
      BY <1>1, <1>3, <1>8, <2>1, <2>4, <3>1, LogGood DEF Ends
  <2>5. CASE r = LogExit(s, "TEAM_ALIENS") /\ AliensWin(s)
    <3>1. ASSUME NEW t \in Teams, "TEAM_ALIENS" \in Teams \ {t}, l.uncondWin # "TEAM_ALIENS",
                 t \notin built
          PROVE  spawns[t] = 0 /\ l.numSpawns[t] = 0 /\ Alive(c, t) = {}
      <4>1. t = "TEAM_HUMANS" /\ Beaten(s, t)
        BY <1>2, <2>5, <3>1 DEF Teams, AliensWin
      <4>. QED
        BY <1>1, <3>1, <4>1, BeatenGood
    <3>. QED
      BY <1>1, <1>3, <1>8, <2>1, <2>5, <3>1, LogGood DEF Ends
  <2>. QED
    BY <2>2, <2>3, <2>4, <2>5
<1>. QED
  BY <1>5, <1>6, <1>7, <1>8

--------------------------------------------------------------------------------
(* One client becomes another. *)

\* What is the same, or less, when one client is replaced.
LEMMA Replaced ==
    ASSUME NEW c, c \in [Clients -> Client], NEW i \in Clients, NEW x \in Client
    PROVE  /\ [c EXCEPT ![i] = x] \in [Clients -> Client]
           /\ [c EXCEPT ![i] = x][i] = x
           /\ \A j \in Clients : j # i => [c EXCEPT ![i] = x][j] = c[j]
OBVIOUS

\* A client that is not ready adds nobody to those who are.
LEMMA FewerReady ==
    ASSUME NEW c, c \in [Clients -> Client], NEW i \in Clients, NEW x \in Client,
           ~x.readyToExit, ReadyPlayers(c) = {}
    PROVE  ReadyPlayers([c EXCEPT ![i] = x]) = {}
<1>1. PICK d : d = [c EXCEPT ![i] = x]
  OBVIOUS
<1>2. d[i] = x /\ \A j \in Clients : j # i => d[j] = c[j]
  BY <1>1, Replaced
<1>3. ASSUME NEW j \in ReadyPlayers(d) PROVE FALSE
  <2>1. j \in Clients /\ j # i
    BY <1>2, <1>3 DEF ReadyPlayers, Players
  <2>2. j \in ReadyPlayers(c)
    BY <1>2, <1>3, <2>1 DEF ReadyPlayers, Players
  <2>. QED
    BY <2>2
<1>. QED
  BY <1>1, <1>3

\* What spawning sets.
LEMMA SpawnedIs ==
    ASSUME NEW x \in Client, NEW b \in {"none", "living"}
    PROVE  /\ Spawned(x, b) \in Client
           /\ Spawned(x, b).body = b
           /\ Spawned(x, b).readyToExit = FALSE
           /\ Spawned(x, b).team = x.team
           /\ Spawned(x, b).connected = x.connected
BY DEF Spawned, Client

\* The state at the beginning of a step.
LEMMA GoodNow ==
    ASSUME LevelInv
    PROVE  Good(level, clients)
<1>1. Shape(level, clients) /\ Timed(level, readySince) /\ Noted(level, clients, readySince)
      /\ readySince \in Nat /\ (level.time > 1 => Counted(level))
  BY DEF LevelInv
<1>2. level.time > 1 + StartDelay => Counted(level)
  BY <1>1, LevelAssumption DEF Shape, Level
<1>3. Stands(level)
  BY DEF Stands
<1>4. Waits(level, clients)
  BY DEF Waits
<1>5. Lost(level, clients)
  BY DEF Lost, LostBy
<1>. QED
  BY <1>1, <1>2, <1>3, <1>4, <1>5 DEF Good, Fine

\* A handler makes a client what it may be.
LEMMA HandlerGood ==
    ASSUME LevelInv, NEW i \in Clients, NEW x \in Client,
           x.body # "none" => x.team # "TEAM_NONE",
           x.body = "dead" => level.intermissiontime = 0,
           x.connected = "CON_CONNECTING" => x.team = "TEAM_NONE",
           ~x.readyToExit \/ ReadyPlayers(clients) # {}
    PROVE  Good(level, [clients EXCEPT ![i] = x])
<1>1. PICK d : d = [clients EXCEPT ![i] = x]
  OBVIOUS
<1>2. Good(level, clients)
  BY GoodNow
<1>3. clients \in [Clients -> Client]
  BY DEF LevelInv, Shape
<1>4. d \in [Clients -> Client] /\ d[i] = x /\ \A j \in Clients : j # i => d[j] = clients[j]
  BY <1>1, <1>3, Replaced
<1>5. Shape(level, d)
  BY <1>4 DEF LevelInv, Shape
<1>6. Waits(level, d)
  BY DEF Waits
<1>7. Lost(level, d)
  BY <1>5 DEF Lost, LostBy, Shape, Level
<1>8. Noted(level, d, readySince)
  <2>1. CASE ReadyPlayers(clients) # {}
    BY <2>1 DEF LevelInv, Noted
  <2>2. CASE ReadyPlayers(clients) = {}
    <3>1. ReadyPlayers(d) = {}
      BY <1>1, <1>3, <2>2, FewerReady
    <3>. QED
      BY <3>1 DEF Noted
  <2>. QED
    BY <2>1, <2>2
<1>. QED
  BY <1>1, <1>2, <1>5, <1>6, <1>7, <1>8 DEF Good, Fine

\* The clients are ranked anew, and the rules looked at (CalculateRanks).
LEMMA RankedGood ==
    ASSUME NEW l, NEW c, NEW i, NEW x, Good(l, [c EXCEPT ![i] = x]),
           spawns \in [Teams -> 0 .. MaxSpawns]
    PROVE  Ends(Ranked(State(l, c), i, x), l, [c EXCEPT ![i] = x])
<1>1. Ranked(State(l, c), i, x) = CheckExitRules(State(l, [c EXCEPT ![i] = x]))
  <2>1. [State(l, c) EXCEPT !.clients[i] = x] = State(l, [c EXCEPT ![i] = x])
    BY DEF State
  <2>. QED
    BY <2>1 DEF Ranked
<1>. QED
  BY <1>1, RulesGood

--------------------------------------------------------------------------------
(* A frame. *)

\* A client respawns without a body, in the game.
LEMMA RespawnGood ==
    ASSUME NEW l, NEW c, Good(l, c), NEW i \in Clients,
           level.intermissiontime = 0 \/ level.restarted
    PROVE  /\ Good(l, [c EXCEPT ![i] = Spawned(c[i], "none")])
           /\ SameTeams(c, [c EXCEPT ![i] = Spawned(c[i], "none")])
<1>1. PICK x : x = Spawned(c[i], "none")
  OBVIOUS
<1>2. PICK d : d = [c EXCEPT ![i] = x]
  OBVIOUS
<1>3. c \in [Clients -> Client] /\ c[i] \in Client
  BY DEF Good, Fine, Shape
<1>4. x \in Client /\ x.body = "none" /\ x.readyToExit = FALSE /\ x.team = c[i].team
      /\ x.connected = c[i].connected
  BY <1>1, <1>3, SpawnedIs
<1>5. d \in [Clients -> Client] /\ d[i] = x /\ \A j \in Clients : j # i => d[j] = c[j]
  BY <1>2, <1>3, <1>4, Replaced
<1>6. Shape(l, d)
  BY <1>4, <1>5 DEF Good, Fine, Shape
<1>7. Waits(l, d)
  BY DEF Waits
<1>8. Lost(l, d)
  <2>1. ASSUME NEW t, Alive(c, t) = {} PROVE Alive(d, t) = {}
    <3>1. ASSUME NEW j \in Clients PROVE j \notin Alive(d, t)
      BY <1>4, <1>5, <2>1, <3>1 DEF Alive, Players
    <3>. QED
      BY <3>1 DEF Alive, Players
  <2>2. \A t \in Teams : LostBy(l, c, t) => LostBy(l, d, t)
    BY <2>1 DEF LostBy
  <2>. QED
    BY <2>2 DEF Good, Fine, Lost
<1>9. Noted(l, d, readySince)
  <2>1. ReadyPlayers(c) = {} => ReadyPlayers(d) = {}
    BY <1>2, <1>3, <1>4, FewerReady
  <2>. QED
    BY <2>1 DEF Good, Noted
<1>10. SameTeams(c, d)
  BY <1>4, <1>5 DEF SameTeams
<1>. QED
  BY <1>1, <1>2, <1>6, <1>7, <1>8, <1>9, <1>10 DEF Good, Fine

\* A player comes out of a spawn of its team.
LEMMA SpawnGood ==
    ASSUME NEW l, NEW c, Good(l, c), NEW i \in Players(c), l.numSpawns[c[i].team] > 0
    PROVE  /\ Good(l, [c EXCEPT ![i] = Spawned(c[i], "living")])
           /\ SameTeams(c, [c EXCEPT ![i] = Spawned(c[i], "living")])
<1>1. PICK x : x = Spawned(c[i], "living")
  OBVIOUS
<1>2. PICK d : d = [c EXCEPT ![i] = x]
  OBVIOUS
<1>3. /\ i \in Clients /\ c \in [Clients -> Client] /\ c[i] \in Client
      /\ c[i].connected = "CON_CONNECTED" /\ c[i].team # "TEAM_NONE"
  BY DEF Good, Fine, Shape, Players
<1>4. x \in Client /\ x.body = "living" /\ x.readyToExit = FALSE /\ x.team = c[i].team
      /\ x.connected = c[i].connected
  BY <1>1, <1>3, SpawnedIs
<1>5. d \in [Clients -> Client] /\ d[i] = x /\ \A j \in Clients : j # i => d[j] = c[j]
  BY <1>2, <1>3, <1>4, Replaced
<1>6. Shape(l, d)
  BY <1>3, <1>4, <1>5 DEF Good, Fine, Shape
<1>7. Waits(l, d)
  BY <1>3 DEF Good, Fine, Waits
<1>8. Lost(l, d)
  <2>1. ASSUME NEW t, Alive(c, t) = {}, t # c[i].team PROVE Alive(d, t) = {}
    <3>1. ASSUME NEW j \in Clients PROVE j \notin Alive(d, t)
      BY <1>4, <1>5, <2>1, <3>1 DEF Alive, Players
    <3>. QED
      BY <3>1 DEF Alive, Players
  <2>2. \A t \in Teams : LostBy(l, c, t) => LostBy(l, d, t)
    BY <2>1 DEF LostBy
  <2>. QED
    BY <2>2 DEF Good, Fine, Lost
<1>9. Noted(l, d, readySince)
  <2>1. ReadyPlayers(c) = {} => ReadyPlayers(d) = {}
    BY <1>2, <1>3, <1>4, FewerReady
  <2>. QED
    BY <2>1 DEF Good, Noted
<1>10. SameTeams(c, d)
  BY <1>4, <1>5 DEF SameTeams
<1>. QED
  BY <1>1, <1>2, <1>6, <1>7, <1>8, <1>9, <1>10 DEF Good, Fine

--------------------------------------------------------------------------------
(* Induction, and what is computed for one client after the other. *)

\* A set with 0 and with the successor of all it holds has every natural number.
LEMMA Induction ==
  ASSUME NEW S, 0 \in S, \A n \in Nat : n \in S => n + 1 \in S
  PROVE  Nat \subseteq S
<1>1. SUFFICES ASSUME Nat \ S # {} PROVE FALSE
  OBVIOUS
<1>2. IsWellFoundedOn(OpToRel(<, Nat), Nat)
  BY NatLessThanWellFounded
<1>3. PICK T : T = Nat \ S /\ T \subseteq Nat /\ T # {}
  BY <1>1
<1>4. PICK x \in T : \A y \in T : ~(<<y, x>> \in OpToRel(<, Nat))
  BY <1>2, <1>3, WFMin
<1>5. x \in Nat /\ x # 0 /\ x - 1 \in Nat /\ x - 1 < x /\ (x - 1) + 1 = x
  BY <1>3
<1>6. x - 1 \in S
  BY <1>3, <1>4, <1>5 DEF OpToRel
<1>. QED
  BY <1>3, <1>5, <1>6

\* Step n leads from a set of states, the one before, to its own; and what the steps make of one
\* another.
Keeps(step, N, X) == \A n \in 1 .. N : \A x \in X[n-1] : step[n][x] \in X[n]
Walks(f, step, N, X) == \A n \in 1 .. N : f[n-1] \in X[n-1] => f[n] = step[n][f[n-1]]

\* Steps 1 to N can be taken one after the other, each from what the last one left.
LEMMA OneByOne ==
  ASSUME NEW N \in Nat, NEW X, NEW x0 \in X[0], NEW step, Keeps(step, N, X)
  PROVE  \E f : /\ f = [n \in 0 .. N |-> f[n]]
                /\ \A n \in 0 .. N : f[n] \in X[n]
                /\ f[0] = x0 /\ Walks(f, step, N, X)
<1> DEFINE Done(n) == \E f : /\ f = [k \in 0 .. n |-> f[k]]
                             /\ \A k \in 0 .. n : f[k] \in X[k]
                             /\ f[0] = x0
                             /\ \A k \in 1 .. n : f[k] = step[k][f[k-1]]
<1>0. \A n \in 1 .. N : \A x \in X[n-1] : step[n][x] \in X[n]
  BY DEF Keeps
<1> DEFINE S == {n \in Nat : n <= N => Done(n)}
<1>1. 0 \in S
  <2>1. PICK f : f = [k \in 0 .. 0 |-> x0]
    OBVIOUS
  <2>2. /\ f = [k \in 0 .. 0 |-> f[k]] /\ f[0] = x0
        /\ \A k \in 0 .. 0 : f[k] \in X[k]
        /\ \A k \in 1 .. 0 : f[k] = step[k][f[k-1]]
    BY <2>1
  <2>. QED
    BY <2>2
<1>2. ASSUME NEW n \in Nat, n \in S PROVE n + 1 \in S
  <2>1. SUFFICES ASSUME n + 1 <= N PROVE Done(n + 1)
    OBVIOUS
  <2>2. PICK f : /\ \A k \in 0 .. n : f[k] \in X[k]
                 /\ f[0] = x0 /\ \A k \in 1 .. n : f[k] = step[k][f[k-1]]
    BY <1>2, <2>1
  <2>3. PICK x : x = step[n+1][f[n]] /\ x \in X[n+1]
    <3>1. f[n] \in X[n] /\ n + 1 \in 1 .. N /\ (n + 1) - 1 = n
      BY <2>1, <2>2
    <3>. QED
      BY <1>0, <3>1
  <2>4. PICK g : g = [k \in 0 .. n + 1 |-> IF k = n + 1 THEN x ELSE f[k]]
    OBVIOUS
  <2>5. \A k \in 0 .. n : k \in 0 .. n + 1 /\ k # n + 1
    OBVIOUS
  <2>6. \A k \in 0 .. n : g[k] = f[k]
    BY <2>4, <2>5
  <2>7. g = [k \in 0 .. n + 1 |-> g[k]] /\ g[n + 1] = x
    BY <2>4
  <2>8. ASSUME NEW k \in 0 .. n + 1 PROVE g[k] \in X[k]
    <3>1. k = n + 1 \/ k \in 0 .. n
      OBVIOUS
    <3>. QED
      BY <2>2, <2>3, <2>6, <2>7, <3>1
  <2>9. ASSUME NEW k \in 1 .. n + 1 PROVE g[k] = step[k][g[k-1]]
    <3>1. CASE k = n + 1
      <4>1. (n + 1) - 1 = n /\ n \in 0 .. n
        OBVIOUS
      <4>. QED
        BY <2>3, <2>6, <2>7, <3>1, <4>1
    <3>2. CASE k # n + 1
      <4>1. k \in 1 .. n /\ k \in 0 .. n /\ k - 1 \in 0 .. n
        BY <3>2
      <4>. QED
        BY <2>2, <2>6, <4>1
    <3>. QED
      BY <3>1, <3>2
  <2>10. g[0] = x0
    BY <2>2, <2>6
  <2>. QED
    BY <2>7, <2>8, <2>9, <2>10
<1>3. Nat \subseteq S
  <2> HIDE DEF S
  <2>. QED
    BY <1>1, <1>2, Induction
<1>. QED
  BY <1>3 DEF Walks

\* Whoever takes these steps from the first set gets to the others.
LEMMA Arrives ==
  ASSUME NEW N \in Nat, NEW X, NEW f, NEW step,
         Keeps(step, N, X), Walks(f, step, N, X), f[0] \in X[0]
  PROVE  \A n \in 0 .. N : f[n] \in X[n]
<1> DEFINE S == {n \in Nat : n <= N => f[n] \in X[n]}
<1>1. 0 \in S
  OBVIOUS
<1>2. ASSUME NEW n \in Nat, n \in S PROVE n + 1 \in S
  <2>1. SUFFICES ASSUME n + 1 <= N PROVE f[n + 1] \in X[n + 1]
    OBVIOUS
  <2>2. f[n] \in X[n] /\ n + 1 \in 1 .. N /\ (n + 1) - 1 = n
    BY <1>2, <2>1
  <2>. QED
    BY <2>2 DEF Keeps, Walks
<1>3. Nat \subseteq S
  <2> HIDE DEF S
  <2>. QED
    BY <1>1, <1>2, Induction
<1>. QED
  BY <1>3

--------------------------------------------------------------------------------
(* The parts of a frame, one after the other. *)

\* What can follow from a level, with the clients in their teams.
Followers(l) ==
    {r \in [level : Level, clients : [Clients -> Client]] : Follows(r, l, clients)}

LEMMA FollowersAre ==
    ASSUME NEW l, NEW r
    PROVE  r \in Followers(l) <=> Follows(r, l, clients)
<1>1. ASSUME Follows(r, l, clients) PROVE r \in [level : Level, clients : [Clients -> Client]]
  BY <1>1 DEF Follows, Good, Fine, Shape, State
<1>. QED
  BY <1>1 DEF Followers

\* A client that is due respawns; in an intermission nobody is.
LEMMA EndFrameFollows ==
    ASSUME NEW l, NEW r \in Followers(l), NEW i \in Clients,
           level.intermissiontime = 0 \/ level.restarted, spawns \in [Teams -> 0 .. MaxSpawns]
    PROVE  Ranked(r, i, Spawned(r.clients[i], "none")) \in Followers(l)
<1>1. PICK m, c : m = r.level /\ c = r.clients
  OBVIOUS
<1>2. r = State(m, c) /\ Good(m, c) /\ SameLevel(l, m) /\ SameTeams(clients, c)
  BY <1>1, FollowersAre DEF Follows
<1>3. PICK d : d = [c EXCEPT ![i] = Spawned(c[i], "none")]
  OBVIOUS
<1>4. Good(m, d) /\ SameTeams(c, d)
  BY <1>2, <1>3, RespawnGood
<1>5. Follows(Ranked(r, i, Spawned(c[i], "none")), m, d)
  BY <1>2, <1>3, <1>4, RankedGood DEF Ends
<1>6. SameTeams(clients, d)
  BY <1>2, <1>4 DEF SameTeams
<1>. QED
  BY <1>1, <1>2, <1>5, <1>6, FollowsOn, FollowersAre

\* All clients in turn (ClientEndFrame).
LEMMA EndFramesFollow ==
    ASSUME NEW l, NEW s \in Followers(l), NEW due \in SUBSET Clients,
           due # {} => level.intermissiontime = 0 \/ level.restarted,
           spawns \in [Teams -> 0 .. MaxSpawns]
    PROVE  ClientEndFrames(s, due) \in Followers(l)
<1> DEFINE next(x, n) == IF n \in due /\ x.level.intermissiontime = 0
                         THEN Ranked(x, n, Spawned(x.clients[n], "none"))
                         ELSE x
<1>1. NumClients \in Nat /\ Clients = 1 .. NumClients
  BY LevelAssumption DEF Clients
<1>2. ASSUME NEW n \in 1 .. NumClients, NEW x \in Followers(l) PROVE next(x, n) \in Followers(l)
  BY <1>1, <1>2, EndFrameFollows
<1> HIDE DEF next
<1>3. PICK X : X = [n \in 0 .. NumClients |-> Followers(l)]
  OBVIOUS
<1>4. PICK f : f = [n \in 1 .. NumClients |-> [x \in Followers(l) |-> next(x, n)]]
  OBVIOUS
<1>5. /\ \A n \in 1 .. NumClients : n - 1 \in 0 .. NumClients /\ n \in 0 .. NumClients /\ n # 0
      /\ \A n \in 0 .. NumClients : n # 0 => n \in 1 .. NumClients
      /\ 0 \in 0 .. NumClients /\ NumClients \in 0 .. NumClients
  BY <1>1
<1>6. \A n \in 1 .. NumClients : \A x \in X[n-1] : f[n][x] = next(x, n)
  BY <1>3, <1>4, <1>5
<1>7. Keeps(f, NumClients, X)
  BY <1>2, <1>3, <1>5, <1>6 DEF Keeps
<1>8. s \in X[0]
  BY <1>3, <1>5
<1>9. PICK g : /\ g = [n \in 0 .. NumClients |-> g[n]]
               /\ \A n \in 0 .. NumClients : g[n] \in X[n]
               /\ g[0] = s /\ Walks(g, f, NumClients, X)
  BY <1>1, <1>7, <1>8, OneByOne
<1>10. \A n \in 1 .. NumClients : g[n] = next(g[n-1], n)
  BY <1>5, <1>6, <1>9 DEF Walks
<1>11. g = [n \in 0 .. NumClients |-> IF n = 0 THEN s ELSE next(g[n-1], n)]
  BY <1>5, <1>9, <1>10
<1> DEFINE after == CHOOSE h : h = [n \in 0 .. NumClients |-> IF n = 0 THEN s ELSE next(h[n-1], n)]
<1>12. ClientEndFrames(s, due) = after[NumClients]
  BY DEF ClientEndFrames, next
<1>13. after = [n \in 0 .. NumClients |-> IF n = 0 THEN s ELSE next(after[n-1], n)]
  BY <1>11
<1> HIDE DEF after
<1>14. Walks(after, f, NumClients, X)
  BY <1>5, <1>6, <1>13 DEF Walks
<1>15. after[0] \in X[0]
  BY <1>5, <1>8, <1>13
<1>16. after[NumClients] \in X[NumClients]
  BY <1>1, <1>5, <1>7, <1>14, <1>15, Arrives
<1>. QED
  BY <1>3, <1>5, <1>12, <1>16

\* The spawns are counted (G_CountSpawns).
LEMMA CountGood ==
    ASSUME NEW l, NEW c, Good(l, c), spawns \in [Teams -> 0 .. MaxSpawns]
    PROVE  \E m : /\ G_CountSpawns(State(l, c)) = State(m, c)
                  /\ Good(m, c)
                  /\ m.time = l.time /\ m.numSpawns = spawns
<1>1. l \in Level /\ spawns \in [Teams -> Nat]
  BY LevelAssumption DEF Good, Fine, Shape
<1>2. PICK m : m = [l EXCEPT !.numSpawns = spawns]
  OBVIOUS
<1>3. G_CountSpawns(State(l, c)) = State(m, c)
  <2>1. PICK s : s = State(l, c)
    OBVIOUS
  <2>2. s.level = l
    BY <2>1 DEF State
  <2>3. G_CountSpawns(s) = [s EXCEPT !.level = [s.level EXCEPT !.numSpawns = spawns]]
    BY DEF G_CountSpawns
  <2>4. [s EXCEPT !.level = m] = State(m, c)
    BY <2>1, OtherLevel
  <2>. QED
    BY <1>2, <2>1, <2>2, <2>3, <2>4
<1>4. /\ m \in Level /\ m.restarted = l.restarted /\ m.intermissiontime = l.intermissiontime
      /\ m.time = l.time /\ m.numSpawns = spawns /\ m.uncondWin = l.uncondWin
      /\ m.exited = l.exited /\ m.lastWin = l.lastWin /\ m.readyToExit = l.readyToExit
      /\ m.intermissionQueued = l.intermissionQueued /\ m.exitTime = l.exitTime
  BY <1>1, <1>2 DEF Level
<1>5. Shape(m, c)
  BY <1>4 DEF Good, Fine, Shape
<1>6. Timed(m, readySince) /\ Noted(m, c, readySince)
  BY <1>4 DEF Good, Fine, Timed, Noted
<1>7. Counted(m)
  <2>1. \A t \in Teams : spawns[t] \in Nat
    BY <1>1
  <2>2. \A t \in Teams : spawns[t] <= m.numSpawns[t]
    BY <1>4, <2>1
  <2>. QED
    BY <2>2 DEF Counted
<1>8. Stands(m)
  BY <1>4 DEF Good, Fine, Stands
<1>9. Waits(m, c)
  BY <1>4 DEF Good, Fine, Waits, MayExit
<1>10. Lost(m, c)
  <2>1. \A t \in Teams : LostBy(l, c, t) => LostBy(m, c, t)
    BY <1>4 DEF LostBy
  <2>. QED
    BY <2>1 DEF Good, Fine, Lost
<1>. QED
  BY <1>3, <1>4, <1>5, <1>6, <1>7, <1>8, <1>9, <1>10 DEF Good, Fine

\* At most one client of a team comes out of a spawn (G_SpawnClients).
LEMMA SpawnFollows ==
    ASSUME NEW l, NEW s \in Followers(l), NEW t \in Teams, NEW i \in {0} \cup Waiting(t),
           spawns \in [Teams -> 0 .. MaxSpawns]
    PROVE  G_SpawnClients(s, t, i) \in Followers(l)
<1>1. CASE i # 0 /\ s.level.numSpawns[t] > 0 /\ i \in Players(s.clients)
  <2>1. PICK m, c : m = s.level /\ c = s.clients
    OBVIOUS
  <2>2. s = State(m, c) /\ Good(m, c) /\ SameLevel(l, m) /\ SameTeams(clients, c)
    BY <2>1, FollowersAre DEF Follows
  <2>3. i \in Clients /\ clients[i].team = t
    BY <1>1 DEF Waiting, Players
  <2>4. c[i].team = t
    BY <2>2, <2>3 DEF SameTeams
  <2>5. PICK d : d = [c EXCEPT ![i] = Spawned(c[i], "living")]
    OBVIOUS
  <2>6. Good(m, d) /\ SameTeams(c, d)
    BY <1>1, <2>1, <2>2, <2>4, <2>5, SpawnGood
  <2>7. Follows(Ranked(s, i, Spawned(c[i], "living")), m, d)
    BY <2>2, <2>5, <2>6, RankedGood DEF Ends
  <2>8. SameTeams(clients, d)
    BY <2>2, <2>6 DEF SameTeams
  <2>9. G_SpawnClients(s, t, i) = Ranked(s, i, Spawned(c[i], "living"))
    BY <1>1, <2>1 DEF G_SpawnClients
  <2>. QED
    BY <2>2, <2>7, <2>8, <2>9, FollowsOn, FollowersAre
<1>2. CASE ~(i # 0 /\ s.level.numSpawns[t] > 0 /\ i \in Players(s.clients))
  BY <1>2 DEF G_SpawnClients
<1>. QED
  BY <1>1, <1>2

\* Time goes on.
LEMMA StartedGood ==
    ASSUME LevelInv, ~level.restarted
    PROVE  \E l : /\ [Now EXCEPT !.level.time = @ + 1] = State(l, clients)
                  /\ Good(l, clients) /\ l.time = level.time + 1
<1>1. level \in Level /\ level.time \in Nat /\ level.time # 0
  BY DEF LevelInv, Shape, Level
<1>2. PICK l : l = [level EXCEPT !.time = level.time + 1]
  OBVIOUS
<1>3. [Now EXCEPT !.level.time = @ + 1] = State(l, clients)
  <2>1. PICK s : s = Now
    OBVIOUS
  <2>2. s.level = level
    BY <2>1 DEF Now, State
  <2>3. [s EXCEPT !.level.time = @ + 1] = [s EXCEPT !.level = [s.level EXCEPT !.time = s.level.time + 1]]
    OBVIOUS
  <2>4. [s EXCEPT !.level = l] = State(l, clients)
    BY <2>1, OtherLevel DEF Now
  <2>. QED
    BY <1>2, <2>1, <2>2, <2>3, <2>4
<1>4. /\ l \in Level /\ l.restarted = level.restarted /\ l.intermissiontime = level.intermissiontime
      /\ l.time = level.time + 1 /\ l.numSpawns = level.numSpawns /\ l.uncondWin = level.uncondWin
      /\ l.exited = level.exited /\ l.lastWin = level.lastWin /\ l.readyToExit = level.readyToExit
      /\ l.intermissionQueued = level.intermissionQueued /\ l.exitTime = level.exitTime
  BY <1>1, <1>2 DEF Level
<1>5. Shape(l, clients)
  BY <1>1, <1>4 DEF LevelInv, Shape
<1>6. Timed(l, readySince)
  <2>1. level.readyToExit /\ ~level.restarted => level.time + 1 >= level.intermissiontime + MinIntermission
    BY <1>1, LevelAssumption DEF LevelInv, Timed, Level
  <2>. QED
    BY <1>4, <2>1 DEF LevelInv, Timed
<1>7. Noted(l, clients, readySince)
  <2>1. readySince \in Nat /\ (readySince <= level.time => readySince <= level.time + 1)
    BY <1>1 DEF LevelInv
  <2>. QED
    BY <1>4, <2>1 DEF LevelInv, Noted
<1>8. l.time > 1 + StartDelay => Counted(l)
  <2>1. l.time > 1 + StartDelay => level.time > 1
    BY <1>1, <1>4, LevelAssumption
  <2>. QED
    BY <1>4, <2>1 DEF LevelInv, Counted
<1>9. Stands(l)
  BY <1>4 DEF Stands
<1>10. Waits(l, clients)
  BY <1>4 DEF Waits
<1>11. Lost(l, clients)
  BY <1>4 DEF Lost, LostBy
<1>12. readySince \in Nat
  BY DEF LevelInv
<1>. QED
  BY <1>3, <1>4, <1>5, <1>6, <1>7, <1>8, <1>9, <1>10, <1>11, <1>12 DEF Good, Fine

\* The whole frame.
LEMMA RunFrameGood ==
    ASSUME LevelInv, ~level.restarted,
           NEW scored \in BOOLEAN,
           NEW due \in SUBSET {i \in Clients : clients[i].body = "dead"},
           NEW alien \in {0} \cup Waiting("TEAM_ALIENS"),
           NEW human \in {0} \cup Waiting("TEAM_HUMANS")
    PROVE  \E m, c : /\ Ends(G_RunFrame(scored, due, alien, human), m, c)
                     /\ m.numSpawns = spawns /\ m.time = level.time + 1
<1>1. PICK l : /\ [Now EXCEPT !.level.time = @ + 1] = State(l, clients)
               /\ Good(l, clients) /\ l.time = level.time + 1
  BY StartedGood
<1>2. spawns \in [Teams -> 0 .. MaxSpawns]
  BY DEF LevelInv
<1>3. PICK run : run = IF scored THEN CheckExitRules(State(l, clients)) ELSE State(l, clients)
  OBVIOUS
<1>4. run \in Followers(l)
  BY <1>1, <1>2, <1>3, RulesGood, FollowsSame, FollowersAre DEF Ends
<1>5. due # {} => level.intermissiontime = 0 \/ level.restarted
  BY DEF LevelInv, Shape
<1>6. PICK ended : ended = ClientEndFrames(run, due)
  OBVIOUS
<1>7. ended \in Followers(l)
  BY <1>2, <1>4, <1>5, <1>6, EndFramesFollow
<1>8. ended = State(ended.level, ended.clients) /\ Good(ended.level, ended.clients)
      /\ SameLevel(l, ended.level) /\ SameTeams(clients, ended.clients)
  BY <1>7, FollowersAre DEF Follows
<1>9. PICK m : /\ G_CountSpawns(ended) = State(m, ended.clients)
               /\ Good(m, ended.clients)
               /\ m.time = ended.level.time /\ m.numSpawns = spawns
  BY <1>2, <1>8, CountGood
<1>10. PICK counted : counted = G_CountSpawns(ended)
  OBVIOUS
<1>11. Follows(counted, m, ended.clients)
  BY <1>9, <1>10, FollowsSame
<1>12. counted.clients = ended.clients
  BY <1>9, <1>10 DEF State
<1>13. counted \in Followers(m)
  <2>1. Follows(counted, m, clients)
    BY <1>8, <1>11, <1>12 DEF Follows
  <2>. QED
    BY <2>1, FollowersAre
<1>14. PICK aliens : aliens = G_SpawnClients(counted, "TEAM_ALIENS", alien)
  OBVIOUS
<1>15. aliens \in Followers(m)
  BY <1>2, <1>13, <1>14, SpawnFollows DEF Teams
<1>16. PICK humans : humans = G_SpawnClients(aliens, "TEAM_HUMANS", human)
  OBVIOUS
<1>17. humans \in Followers(m)
  BY <1>2, <1>15, <1>16, SpawnFollows DEF Teams
<1>18. humans = State(humans.level, humans.clients) /\ Good(humans.level, humans.clients)
       /\ SameLevel(m, humans.level)
  BY <1>17, FollowersAre DEF Follows
<1>19. Ends(CheckExitRules(humans), humans.level, humans.clients)
  BY <1>2, <1>18, RulesGood
<1>20. G_RunFrame(scored, due, alien, human) = CheckExitRules(humans)
  BY <1>1, <1>3, <1>6, <1>10, <1>14, <1>16 DEF G_RunFrame
<1>21. humans.level.numSpawns = spawns /\ humans.level.time = level.time + 1
  BY <1>1, <1>8, <1>9, <1>18 DEF SameLevel
<1>. QED
  BY <1>19, <1>20, <1>21

--------------------------------------------------------------------------------
(* What a step may do. *)

MayLeave ==
    level.intermissiontime # 0 /\ level'.intermissiontime = 0 /\ ~level.restarted =>
        \/ Connected(clients') = {}
        \/ level'.time > level.intermissiontime + MaxIntermission
        \/ /\ level'.time >= level.intermissiontime + MinIntermission
           /\ \/ Unready(clients') = {}
              \/ readySince # 0 /\ level'.time >= readySince + ReadyTimeout

MayWin ==
    level.exited /\ ~level'.restarted /\ ~level.restarted =>
        /\ level'.lastWin = level.lastWin
        /\ level'.intermissionQueued \in {0, level.intermissionQueued}

MayLose ==
    \A t \in Teams :
        /\ ~level.exited /\ level'.exited
        /\ level'.lastWin \in Teams \ {t}
        /\ level'.uncondWin # level'.lastWin
        => t \in built \/ (spawns[t] = 0 /\ Alive(clients', t) = {})

Correct == LevelInv' /\ MayLeave /\ MayWin /\ MayLose

\* Whatever becomes of a state that is fine.
LEMMA Lands ==
    ASSUME LevelInv, NEW l, NEW c, Becomes(State(l, c)),
           Fine(l, c), Settled(l, c), l.time \in {level.time, level.time + 1},
           spawns' = spawns, built' \in SUBSET Teams,
           l.time > 1 => \A t \in Teams : t \notin built' => spawns[t] <= l.numSpawns[t]
    PROVE  Correct
<1>1. /\ level' = l /\ clients' = c
      /\ readySince' = IF ReadyPlayers(c) = {} THEN 0 ELSE IF readySince # 0 THEN readySince ELSE l.time
  <2>1. level' = State(l, c).level /\ clients' = State(l, c).clients
    BY DEF Becomes
  <2>2. level' = l /\ clients' = c
    BY <2>1 DEF State
  <2>. QED
    BY <2>2 DEF Becomes
<1>2. Shape(l, c)
  BY DEF Fine
<1>3. readySince \in Nat /\ level.time \in Nat /\ l.time \in Nat /\ l.time # 0
  BY <1>2 DEF LevelInv, Shape, Level
<1>4. readySince <= l.time
  <2>1. readySince <= level.time
    BY <1>3 DEF LevelInv, Noted
  <2>. QED
    BY <1>3, <2>1
<1>5. Timed(l, readySince')
  <2>1. l.readyToExit /\ ~l.restarted => readySince # 0 /\ ReadyPlayers(c) # {}
    BY DEF Fine, Timed, Settled
  <2>2. l.readyToExit /\ ~l.restarted => readySince' = readySince
    BY <1>1, <2>1
  <2>. QED
    BY <2>2 DEF Fine, Timed
<1>6. readySince' # 0 => ReadyPlayers(c) # {}
  BY <1>1
<1>7. Noted(l, c, readySince') /\ readySince' \in Nat
  BY <1>1, <1>3, <1>4 DEF Noted
<1>8. LevelInv'
  BY <1>1, <1>2, <1>5, <1>6, <1>7 DEF LevelInv, Counted
<1>9. MayLeave
  BY <1>1 DEF MayLeave, Fine, Waits, MayExit
<1>10. MayWin
  BY <1>1 DEF MayWin, Fine, Stands
<1>11. MayLose
  BY <1>1 DEF MayLose, Fine, Lost, LostBy
<1>. QED
  BY <1>8, <1>9, <1>10, <1>11 DEF Correct

\* Whatever the rules make of a handler's clients.
LEMMA HandlerLands ==
    ASSUME LevelInv, NEW s, NEW d, Ends(s, level, d), Becomes(s), UNCHANGED <<spawns, built>>
    PROVE  Correct
<1>1. /\ s = State(s.level, s.clients) /\ Fine(s.level, s.clients) /\ Settled(s.level, s.clients)
      /\ s.level.time = level.time /\ s.level.numSpawns = level.numSpawns
  BY DEF Ends, Follows, Good, SameLevel
<1>2. built' \in SUBSET Teams /\ spawns' = spawns
  BY DEF LevelInv
<1>3. s.level.time > 1 => \A t \in Teams : t \notin built' => spawns[t] <= s.level.numSpawns[t]
  BY <1>1 DEF LevelInv, Counted
<1>. QED
  BY <1>1, <1>2, <1>3, Lands

--------------------------------------------------------------------------------
(* The actions. *)

LEMMA ConnectKeeps ==
    ASSUME LevelInv, NEW i \in Clients, ClientConnect(i)
    PROVE  Correct
<1>1. PICK x : x = Connecting
  OBVIOUS
<1>2. x \in Client /\ x.body = "none" /\ x.team = "TEAM_NONE" /\ x.readyToExit = FALSE
  BY <1>1 DEF Connecting, Nobody, Client
<1>3. Good(level, [clients EXCEPT ![i] = x])
  BY <1>2, HandlerGood
<1>4. Ends(Ranked(Now, i, x), level, [clients EXCEPT ![i] = x])
  BY <1>3, RankedGood DEF Now, LevelInv
<1>. QED
  BY <1>1, <1>4, HandlerLands DEF ClientConnect

LEMMA DisconnectKeeps ==
    ASSUME LevelInv, NEW i \in Clients, ClientDisconnect(i)
    PROVE  Correct
<1>1. PICK x : x = Nobody
  OBVIOUS
<1>2. x \in Client /\ x.body = "none" /\ x.team = "TEAM_NONE" /\ x.readyToExit = FALSE
  BY <1>1 DEF Nobody, Client
<1>3. Good(level, [clients EXCEPT ![i] = x])
  BY <1>2, HandlerGood
<1>4. Ends(Ranked(Now, i, x), level, [clients EXCEPT ![i] = x])
  BY <1>3, RankedGood DEF Now, LevelInv
<1>. QED
  BY <1>1, <1>4, HandlerLands DEF ClientDisconnect

LEMMA BeginKeeps ==
    ASSUME LevelInv, NEW i \in Clients, ClientBegin(i)
    PROVE  Correct
<1>1. PICK y : y = [clients[i] EXCEPT !.connected = "CON_CONNECTED"]
  OBVIOUS
<1>2. PICK x : x = Spawned(y, "none")
  OBVIOUS
<1>3. clients[i] \in Client
  BY DEF LevelInv, Shape
<1>4. y \in Client /\ y.connected = "CON_CONNECTED"
  BY <1>1, <1>3 DEF Client
<1>5. x \in Client /\ x.body = "none" /\ x.readyToExit = FALSE /\ x.connected = "CON_CONNECTED"
  BY <1>2, <1>4, SpawnedIs
<1>6. Good(level, [clients EXCEPT ![i] = x])
  BY <1>5, HandlerGood
<1>7. PICK r : r = Ranked(Now, i, x)
  OBVIOUS
<1>8. Follows(r, level, [clients EXCEPT ![i] = x])
  BY <1>6, <1>7, RankedGood DEF Now, LevelInv, Ends
<1>9. r = State(r.level, r.clients) /\ Good(r.level, r.clients)
      /\ SameLevel(level, r.level) /\ SameTeams([clients EXCEPT ![i] = x], r.clients)
  BY <1>8 DEF Follows
<1>10. PICK s : s = CheckExitRules(r)
  OBVIOUS
<1>11. Ends(s, r.level, r.clients)
  BY <1>9, <1>10, RulesGood DEF LevelInv
<1>12. Ends(s, level, [clients EXCEPT ![i] = x])
  BY <1>9, <1>11, FollowsOn DEF Ends
<1>13. Becomes(s) /\ UNCHANGED <<spawns, built>>
  BY <1>1, <1>2, <1>7, <1>10 DEF ClientBegin
<1>. QED
  BY <1>12, <1>13, HandlerLands

LEMMA ChangeTeamKeeps ==
    ASSUME LevelInv, NEW i \in Clients, NEW t \in {"TEAM_NONE"} \cup Teams, G_ChangeTeam(i, t)
    PROVE  Correct
<1>1. PICK y : y = [clients[i] EXCEPT !.team = t]
  OBVIOUS
<1>2. PICK x : x = Spawned(y, "none")
  OBVIOUS
<1>3. clients[i] \in Client /\ clients[i].connected = "CON_CONNECTED"
  BY DEF LevelInv, Shape, G_ChangeTeam
<1>4. y \in Client /\ y.connected = "CON_CONNECTED"
  BY <1>1, <1>3 DEF Client
<1>5. x \in Client /\ x.body = "none" /\ x.readyToExit = FALSE /\ x.connected = "CON_CONNECTED"
  BY <1>2, <1>4, SpawnedIs
<1>6. Good(level, [clients EXCEPT ![i] = x])
  BY <1>5, HandlerGood
<1>7. Ends(Ranked(Now, i, x), level, [clients EXCEPT ![i] = x])
  BY <1>6, RankedGood DEF Now, LevelInv
<1>. QED
  BY <1>1, <1>2, <1>7, HandlerLands DEF G_ChangeTeam

LEMMA DieKeeps ==
    ASSUME LevelInv, NEW i \in Clients, Die(i)
    PROVE  Correct
<1>1. PICK x : x = [clients[i] EXCEPT !.body = "dead"]
  OBVIOUS
<1>2. /\ clients[i] \in Client /\ clients[i].connected = "CON_CONNECTED"
      /\ clients[i].team # "TEAM_NONE" /\ level.intermissiontime = 0
  BY DEF LevelInv, Shape, Die
<1>3. /\ x \in Client /\ x.body = "dead" /\ x.connected = "CON_CONNECTED"
      /\ x.team = clients[i].team /\ x.readyToExit = clients[i].readyToExit
  BY <1>1, <1>2 DEF Client
<1>4. ~x.readyToExit \/ ReadyPlayers(clients) # {}
  BY <1>2, <1>3 DEF ReadyPlayers, Players
<1>5. Good(level, [clients EXCEPT ![i] = x])
  BY <1>2, <1>3, <1>4, HandlerGood
<1>6. CASE Becomes([Now EXCEPT !.clients[i] = x]) /\ UNCHANGED <<spawns, built>>
  <2>1. [Now EXCEPT !.clients[i] = x] = State(level, [clients EXCEPT ![i] = x])
    BY DEF Now, State
  <2>2. PICK s : s = [Now EXCEPT !.clients[i] = x]
    OBVIOUS
  <2>3. PICK d : d = [clients EXCEPT ![i] = x]
    OBVIOUS
  <2>4. s = State(level, d) /\ Becomes(s) /\ UNCHANGED <<spawns, built>>
    BY <1>6, <2>1, <2>2, <2>3
  <2>5. Settled(level, d)
    BY <1>2 DEF Settled, LevelInv, Timed
  <2>6. Ends(State(level, d), level, d)
    BY <1>5, <2>3, <2>5, FollowsSame DEF Ends, State
  <2>. QED
    BY <2>4, <2>6, HandlerLands
<1>7. CASE Becomes(Ranked(Now, i, x)) /\ UNCHANGED <<spawns, built>>
  <2>1. Ends(Ranked(Now, i, x), level, [clients EXCEPT ![i] = x])
    BY <1>5, RankedGood DEF Now, LevelInv
  <2>. QED
    BY <1>7, <2>1, HandlerLands
<1>. QED
  BY <1>1, <1>6, <1>7 DEF Die

\* More clients become ready in an intermission.
LEMMA MoreReady ==
    ASSUME LevelInv, level.intermissiontime # 0, NEW c, c \in [Clients -> Client],
           \A i \in Clients : /\ c[i].connected = clients[i].connected
                              /\ c[i].team = clients[i].team
                              /\ c[i].body = clients[i].body
                              /\ clients[i].readyToExit => c[i].readyToExit,
           Becomes(State(level, c)), UNCHANGED <<spawns, built>>
    PROVE  Correct
<1>1. Shape(level, c)
  BY DEF LevelInv, Shape
<1>2. ReadyPlayers(clients) # {} => ReadyPlayers(c) # {}
  BY DEF ReadyPlayers, Players
<1>3. Settled(level, c)
  BY <1>2 DEF LevelInv, Settled
<1>4. Stands(level) /\ Timed(level, readySince) /\ (level.time > 1 + StartDelay => Counted(level))
  BY GoodNow DEF Good, Fine
<1>5. Waits(level, c)
  BY DEF Waits
<1>6. Lost(level, c)
  BY DEF Lost, LostBy
<1>7. Fine(level, c)
  BY <1>1, <1>4, <1>5, <1>6 DEF Fine
<1>8. /\ spawns' = spawns /\ built' = built /\ built' \in SUBSET Teams
      /\ level.time > 1 => \A t \in Teams : t \notin built => spawns[t] <= level.numSpawns[t]
      /\ level.time \in {level.time, level.time + 1}
  BY DEF LevelInv, Counted
<1>. QED
  BY <1>3, <1>7, <1>8, Lands

LEMMA ReadyKeeps ==
    ASSUME LevelInv, NEW i \in Clients, Ready(i)
    PROVE  Correct
<1>1. PICK c : c = [clients EXCEPT ![i].readyToExit = TRUE]
  OBVIOUS
<1>2. clients \in [Clients -> Client]
  BY DEF LevelInv, Shape
<1>3. PICK x : x = [clients[i] EXCEPT !.readyToExit = TRUE]
  OBVIOUS
<1>4. c = [clients EXCEPT ![i] = x]
  BY <1>1, <1>3
<1>5. /\ x \in Client /\ x.connected = clients[i].connected /\ x.team = clients[i].team
      /\ x.body = clients[i].body /\ x.readyToExit = TRUE
  BY <1>2, <1>3 DEF Client
<1>6. c \in [Clients -> Client] /\ c[i] = x /\ \A j \in Clients : j # i => c[j] = clients[j]
  BY <1>2, <1>4, <1>5, Replaced
<1>7. ASSUME NEW j \in Clients
      PROVE  /\ c[j].connected = clients[j].connected
             /\ c[j].team = clients[j].team
             /\ c[j].body = clients[j].body
             /\ clients[j].readyToExit => c[j].readyToExit
  BY <1>5, <1>6
<1>8. Becomes(State(level, c))
  <2>1. PICK s : s = Now
    OBVIOUS
  <2>2. s = [level |-> level, clients |-> clients]
    BY <2>1 DEF Now, State
  <2>3. [s EXCEPT !.clients[i].readyToExit = TRUE]
          = [s EXCEPT !.clients = [s.clients EXCEPT ![i].readyToExit = TRUE]]
    OBVIOUS
  <2>4. [s EXCEPT !.clients = c] = State(level, c)
    BY <2>2 DEF State
  <2>5. [s EXCEPT !.clients[i].readyToExit = TRUE] = State(level, c)
    BY <1>1, <2>2, <2>3, <2>4
  <2>6. Becomes([s EXCEPT !.clients[i].readyToExit = TRUE])
    BY <2>1 DEF Ready
  <2>. QED
    BY <2>5, <2>6
<1>. QED
  BY <1>6, <1>7, <1>8, MoreReady DEF Ready

LEMMA AllReadyKeeps ==
    ASSUME LevelInv, G_admin_allready
    PROVE  Correct
<1>1. PICK c : c = [i \in Clients |-> IF i \in Players(clients)
                                      THEN [clients[i] EXCEPT !.readyToExit = TRUE] ELSE clients[i]]
  OBVIOUS
<1>2. clients \in [Clients -> Client]
  BY DEF LevelInv, Shape
<1>3. ASSUME NEW j \in Clients
      PROVE  /\ c[j] \in Client
             /\ c[j].connected = clients[j].connected
             /\ c[j].team = clients[j].team
             /\ c[j].body = clients[j].body
             /\ clients[j].readyToExit => c[j].readyToExit
  <2>1. clients[j] \in Client
    BY <1>2
  <2>2. CASE j \in Players(clients)
    <3>1. c[j] = [clients[j] EXCEPT !.readyToExit = TRUE]
      BY <1>1, <2>2
    <3>. QED
      BY <2>1, <3>1 DEF Client
  <2>3. CASE j \notin Players(clients)
    BY <1>1, <2>1, <2>3
  <2>. QED
    BY <2>2, <2>3
<1>4. c \in [Clients -> Client]
  BY <1>1, <1>3
<1>5. level.intermissiontime # 0 /\ Becomes(State(level, c)) /\ UNCHANGED <<spawns, built>>
  BY <1>1 DEF G_admin_allready
<1>. QED
  BY <1>3, <1>4, <1>5, MoreReady

LEMMA EvacuationKeeps ==
    ASSUME LevelInv, Evacuation
    PROVE  Correct
<1>1. level.intermissiontime = 0 /\ level.intermissionQueued = 0
  BY DEF LevelInv, Shape, Evacuation, MayEvacuate
<1>2. \A t \in Teams : "TEAM_NONE" \notin Teams \ {t}
  BY DEF Teams
<1>3. Ends(LogExit(Now, "TEAM_NONE"), level, clients)
  BY <1>1, <1>2, GoodNow, LogGood DEF Ends, Now
<1>. QED
  BY <1>3, HandlerLands DEF Evacuation

\* What does not concern the end of the level.
LEMMA Quiet ==
    ASSUME level'.intermissiontime = level.intermissiontime, level'.exited = level.exited,
           level'.lastWin = level.lastWin, level'.intermissionQueued = level.intermissionQueued
    PROVE  MayLeave /\ MayWin /\ MayLose
BY DEF MayLeave, MayWin, MayLose

\* Only the level changes.
LEMMA LevelBecomes ==
    ASSUME LevelInv, NEW l, Becomes(State(l, clients))
    PROVE  level' = l /\ clients' = clients /\ readySince' = readySince
<1>1. level' = State(l, clients).level /\ clients' = State(l, clients).clients
  BY DEF Becomes
<1>2. level' = l /\ clients' = clients
  BY <1>1 DEF State
<1>3. CASE ReadyPlayers(clients) = {}
  BY <1>2, <1>3 DEF Becomes, LevelInv
<1>4. CASE ReadyPlayers(clients) # {}
  BY <1>2, <1>4 DEF Becomes, LevelInv, Noted
<1>. QED
  BY <1>2, <1>3, <1>4

LEMMA RestartKeeps ==
    ASSUME LevelInv, Restart
    PROVE  Correct
<1>1. PICK l : l = [level EXCEPT !.restarted = TRUE]
  OBVIOUS
<1>2. [Now EXCEPT !.level.restarted = TRUE] = State(l, clients)
  <2>1. PICK s : s = Now
    OBVIOUS
  <2>2. s.level = level
    BY <2>1 DEF Now, State
  <2>3. [s EXCEPT !.level.restarted = TRUE] = [s EXCEPT !.level = [s.level EXCEPT !.restarted = TRUE]]
    OBVIOUS
  <2>4. [s EXCEPT !.level = l] = State(l, clients)
    BY <2>1, OtherLevel DEF Now
  <2>. QED
    BY <1>1, <2>1, <2>2, <2>3, <2>4
<1>3. /\ level' = l /\ clients' = clients /\ readySince' = readySince
      /\ spawns' = spawns /\ built' = built
  BY <1>2, LevelBecomes DEF Restart
<1>4. level \in Level
  BY DEF LevelInv, Shape
<1>5. /\ l \in Level /\ l.restarted /\ l.intermissiontime = level.intermissiontime
      /\ l.time = level.time /\ l.numSpawns = level.numSpawns
      /\ l.exited = level.exited /\ l.lastWin = level.lastWin
      /\ l.intermissionQueued = level.intermissionQueued
  BY <1>1, <1>4 DEF Level
<1>6. Shape(l, clients)
  BY <1>5 DEF LevelInv, Shape
<1>7. Timed(l, readySince) /\ Settled(l, clients)
  BY <1>5 DEF Timed, Settled
<1>8. LevelInv'
  BY <1>3, <1>5, <1>6, <1>7 DEF LevelInv, Noted, Counted
<1>. QED
  BY <1>3, <1>5, <1>8, Quiet DEF Correct

LEMMA TargetWinKeeps ==
    ASSUME LevelInv, NEW t \in Teams, TargetWin(t)
    PROVE  Correct
<1>1. PICK l : l = [level EXCEPT !.uncondWin = t]
  OBVIOUS
<1>2. [Now EXCEPT !.level.uncondWin = t] = State(l, clients)
  <2>1. PICK s : s = Now
    OBVIOUS
  <2>2. s.level = level
    BY <2>1 DEF Now, State
  <2>3. [s EXCEPT !.level.uncondWin = t] = [s EXCEPT !.level = [s.level EXCEPT !.uncondWin = t]]
    OBVIOUS
  <2>4. [s EXCEPT !.level = l] = State(l, clients)
    BY <2>1, OtherLevel DEF Now
  <2>. QED
    BY <1>1, <2>1, <2>2, <2>3, <2>4
<1>3. /\ level' = l /\ clients' = clients /\ readySince' = readySince
      /\ spawns' = spawns /\ built' = built
  BY <1>2, LevelBecomes DEF TargetWin
<1>4. level \in Level
  BY DEF LevelInv, Shape
<1>5. /\ l \in Level /\ l.restarted = level.restarted /\ l.intermissiontime = level.intermissiontime
      /\ l.time = level.time /\ l.numSpawns = level.numSpawns
      /\ l.exited = level.exited /\ l.lastWin = level.lastWin
      /\ l.readyToExit = level.readyToExit /\ l.exitTime = level.exitTime
      /\ l.intermissionQueued = level.intermissionQueued
  BY <1>1, <1>4 DEF Level
<1>6. Shape(l, clients)
  BY <1>5 DEF LevelInv, Shape
<1>7. Timed(l, readySince) /\ Settled(l, clients)
  BY <1>5 DEF LevelInv, Timed, Settled
<1>8. LevelInv'
  BY <1>3, <1>5, <1>6, <1>7 DEF LevelInv, Noted, Counted
<1>. QED
  BY <1>3, <1>5, <1>8, Quiet DEF Correct

LEMMA BuildKeeps ==
    ASSUME LevelInv, NEW t \in Teams, Build(t)
    PROVE  Correct
<1>1. spawns \in [Teams -> 0 .. MaxSpawns] /\ built \in SUBSET Teams /\ MaxSpawns \in Nat
  BY LevelAssumption DEF LevelInv
<1>2. /\ spawns' = [spawns EXCEPT ![t] = spawns[t] + 1] /\ spawns[t] < MaxSpawns
      /\ built' = built \cup {t} /\ UNCHANGED <<clients, level, readySince>>
  BY DEF Build
<1>3. spawns[t] \in 0 .. MaxSpawns /\ spawns[t] + 1 \in 0 .. MaxSpawns
  BY <1>1, <1>2
<1>4. spawns' \in [Teams -> 0 .. MaxSpawns]
  BY <1>1, <1>2, <1>3
<1>5. \A u \in Teams : u \notin built' => u \notin built /\ spawns'[u] = spawns[u]
  BY <1>1, <1>2
<1>6. level'.time > 1 => Counted(level)'
  BY <1>2, <1>5 DEF LevelInv, Counted
<1>7. LevelInv'
  BY <1>1, <1>2, <1>4, <1>6 DEF LevelInv
<1>. QED
  BY <1>2, <1>7, Quiet DEF Correct

LEMMA LoseSpawnKeeps ==
    ASSUME LevelInv, NEW t \in Teams, LoseSpawn(t)
    PROVE  Correct
<1>1. spawns \in [Teams -> 0 .. MaxSpawns] /\ built \in SUBSET Teams /\ MaxSpawns \in Nat
  BY LevelAssumption DEF LevelInv
<1>2. /\ spawns' = [spawns EXCEPT ![t] = spawns[t] - 1] /\ spawns[t] > 0
      /\ UNCHANGED <<clients, level, readySince, built>>
  BY DEF LoseSpawn
<1>3. spawns[t] \in 0 .. MaxSpawns /\ spawns[t] - 1 \in 0 .. MaxSpawns
  BY <1>1, <1>2
<1>4. spawns' \in [Teams -> 0 .. MaxSpawns]
  BY <1>1, <1>2, <1>3
<1>5. \A u \in Teams : level.numSpawns[u] \in Nat
  BY DEF LevelInv, Shape, Level
<1>6. ASSUME NEW u \in Teams, spawns[u] <= level.numSpawns[u] PROVE spawns'[u] <= level.numSpawns[u]
  <2>1. CASE u = t
    <3>1. spawns'[u] = spawns[u] - 1
      BY <1>1, <1>2, <2>1
    <3>. QED
      BY <1>3, <1>5, <1>6, <2>1, <3>1
  <2>2. CASE u # t
    BY <1>1, <1>2, <1>6, <2>2
  <2>. QED
    BY <2>1, <2>2
<1>7. level'.time > 1 => Counted(level)'
  BY <1>2, <1>6 DEF LevelInv, Counted
<1>8. LevelInv'
  BY <1>1, <1>2, <1>4, <1>7 DEF LevelInv
<1>. QED
  BY <1>2, <1>8, Quiet DEF Correct

LEMMA FrameKeeps ==
    ASSUME LevelInv, Frame
    PROVE  Correct
<1>1. PICK scored \in BOOLEAN,
           due \in SUBSET {i \in Clients : clients[i].body = "dead"},
           alien \in {0} \cup Waiting("TEAM_ALIENS"),
           human \in {0} \cup Waiting("TEAM_HUMANS") :
             Becomes(G_RunFrame(scored, due, alien, human))
  BY DEF Frame
<1>2. PICK s : s = G_RunFrame(scored, due, alien, human)
  OBVIOUS
<1>3. PICK m, c : Ends(s, m, c) /\ m.numSpawns = spawns /\ m.time = level.time + 1
  BY <1>1, <1>2, RunFrameGood DEF Frame
<1>4. PICK l, d : l = s.level /\ d = s.clients
  OBVIOUS
<1>5. s = State(l, d) /\ Fine(l, d) /\ Settled(l, d)
      /\ l.numSpawns = spawns /\ l.time = level.time + 1
  BY <1>3, <1>4 DEF Ends, Follows, Good, SameLevel
<1>6. spawns' = spawns /\ built' = {}
  BY DEF Frame
<1>7. \A t \in Teams : spawns[t] \in Nat /\ spawns[t] <= l.numSpawns[t]
  BY <1>5, LevelAssumption DEF LevelInv
<1>. QED
  BY <1>1, <1>2, <1>5, <1>6, <1>7, Lands

\* The state in which a level begins.
LEMMA InitialShape ==
    ASSUME NEW c, c \in [Clients -> {Nobody, Connecting}]
    PROVE  /\ Shape(InitLevel, c)
           /\ \A r : Timed(InitLevel, r)
           /\ Settled(InitLevel, c)
           /\ ReadyPlayers(c) = {}
           /\ ~(InitLevel.time > 1)
           /\ InitLevel.intermissiontime = 0 /\ InitLevel.exited = FALSE
<1>1. PICK l : l = InitLevel
  OBVIOUS
<1>2. /\ l \in Level /\ l.time = 1 /\ l.intermissiontime = 0 /\ l.exited = FALSE
      /\ l.readyToExit = FALSE /\ l.intermissionQueued = 0 /\ l.restarted = FALSE
  BY <1>1 DEF InitLevel, Level
<1>3. ASSUME NEW x \in {Nobody, Connecting}
      PROVE  x \in Client /\ x.team = "TEAM_NONE" /\ x.body = "none" /\ x.readyToExit = FALSE
  <2>1. CASE x = Nobody
    BY <2>1 DEF Nobody, Client
  <2>2. CASE x = Connecting
    BY <2>2 DEF Nobody, Connecting, Client
  <2>. QED
    BY <2>1, <2>2
<1>4. Shape(l, c)
  BY <1>2, <1>3 DEF Shape
<1>5. ReadyPlayers(c) = {}
  BY <1>3 DEF ReadyPlayers, Players
<1>. QED
  BY <1>1, <1>2, <1>4, <1>5 DEF Timed, Settled

LEMMA InitGameKeeps ==
    ASSUME LevelInv, G_InitGame
    PROVE  Correct
<1>1. level' = InitLevel /\ readySince' = 0 /\ built' = {}
      /\ spawns' \in [Teams -> 0 .. MaxSpawns]
  BY DEF G_InitGame
<1>2. clients' \in [Clients -> {Nobody, Connecting}]
  BY DEF G_InitGame
<1>3. PICK l, c : l = InitLevel /\ c \in [Clients -> {Nobody, Connecting}] /\ c = clients'
  BY <1>2
<1>4. /\ Shape(l, c) /\ Timed(l, 0) /\ Settled(l, c) /\ ReadyPlayers(c) = {}
      /\ ~(l.time > 1) /\ l.exited = FALSE
  BY <1>3, InitialShape
<1>5. Noted(l, c, 0)
  BY <1>4 DEF Noted
<1>6. LevelInv'
  BY <1>1, <1>3, <1>4, <1>5 DEF LevelInv
<1>7. MayLeave /\ MayWin
  BY DEF G_InitGame, MayLeave, MayWin
<1>8. MayLose
  BY <1>1, <1>3, <1>4 DEF MayLose
<1>. QED
  BY <1>6, <1>7, <1>8 DEF Correct

--------------------------------------------------------------------------------
(* The theorems. *)

LEMMA LevelStep ==
    ASSUME LevelInv, LevelNext
    PROVE  Correct
<1>1. ASSUME NEW i \in Clients, \/ ClientConnect(i) \/ ClientBegin(i) \/ ClientDisconnect(i)
                                \/ \E t \in {"TEAM_NONE"} \cup Teams : G_ChangeTeam(i, t)
                                \/ Die(i) \/ Ready(i)
      PROVE  Correct
  BY <1>1, ConnectKeeps, BeginKeeps, DisconnectKeeps, ChangeTeamKeeps, DieKeeps, ReadyKeeps
<1>2. ASSUME NEW t \in Teams, TargetWin(t) \/ Build(t) \/ LoseSpawn(t)
      PROVE  Correct
  BY <1>2, TargetWinKeeps, BuildKeeps, LoseSpawnKeeps
<1>3. CASE G_admin_allready \/ Evacuation \/ Restart
  BY <1>3, AllReadyKeeps, EvacuationKeeps, RestartKeeps
<1>4. CASE Frame \/ G_InitGame
  BY <1>4, FrameKeeps, InitGameKeeps
<1>. QED
  BY <1>1, <1>2, <1>3, <1>4 DEF LevelNext

LEMMA LevelInitially ==
    ASSUME LevelInit
    PROVE  LevelInv
<1>1. level = InitLevel /\ readySince = 0 /\ built = {} /\ spawns \in [Teams -> 0 .. MaxSpawns]
  BY DEF LevelInit
<1>2. clients \in [Clients -> {Nobody, Connecting}]
  BY DEF LevelInit
<1>3. /\ Shape(level, clients) /\ Timed(level, 0) /\ Settled(level, clients)
      /\ ReadyPlayers(clients) = {} /\ ~(level.time > 1)
  BY <1>1, <1>2, InitialShape
<1>4. Noted(level, clients, 0)
  BY <1>3 DEF Noted
<1>. QED
  BY <1>1, <1>3, <1>4 DEF LevelInv

\* The inductive invariant that the others follow from.
THEOREM LevelInvariance == LevelSpec => []LevelInv
<1>1. LevelInit => LevelInv
  BY LevelInitially
<1>2. LevelInv /\ [LevelNext]_levelVars => LevelInv'
  <2>1. CASE LevelNext
    BY <2>1, LevelStep DEF Correct
  <2>2. CASE UNCHANGED levelVars
    BY <2>2 DEF levelVars, LevelInv, Counted
  <2>. QED
    BY <2>1, <2>2
<1>. QED
  BY <1>1, <1>2, PTL DEF LevelSpec

\* Levels and clients keep to their types, an intermission belongs to a level whose end is
\* decided, and nobody has a body without a team.
THEOREM LevelTypeCorrect == LevelSpec => []LevelTypeOK
<1>1. LevelInv => LevelTypeOK
  <2>1. SUFFICES ASSUME LevelInv PROVE readySince \in 0 .. level.time
    BY DEF LevelInv, LevelTypeOK, Shape
  <2>2. level.time \in Nat /\ readySince \in Nat
    BY <2>1 DEF LevelInv, Shape, Level
  <2>3. readySince <= level.time
    BY <2>1, <2>2 DEF LevelInv, Noted
  <2>. QED
    BY <2>2, <2>3
<1>. QED
  BY <1>1, LevelInvariance, PTL

\* An intermission is not cut short: CheckIntermissionExit leaves it early only when nobody is
\* left, when every player wants it, or when some player has wanted it for the whole timeout.
THEOREM PlayersWaitedFor == LevelSpec => WaitsForPlayers
<1>1. LevelInv /\ [LevelNext]_levelVars => [MayLeave]_levelVars
  BY LevelStep DEF Correct
<1>. QED
  BY <1>1, LevelInvariance, PTL DEF LevelSpec, WaitsForPlayers, MayLeave

\* A level ends once: CheckExitRules, which runs in the middle of every handler, does not decide
\* it a second time, and nor does a draw or an admin (Svcmd_Evacuation_f).
THEOREM EndsOnce == LevelSpec => WinnerStands
<1>1. LevelInv /\ [LevelNext]_levelVars => [MayWin]_levelVars
  BY LevelStep DEF Correct
<1>. QED
  BY <1>1, LevelInvariance, PTL DEF LevelSpec, WinnerStands, MayWin

\* Who loses has neither spawns nor anyone alive when CheckExitRules says so, though the spawns
\* are those of the last count.
THEOREM LosersAreBeaten == LevelSpec => LoserIsBeaten
<1>1. LevelInv /\ [LevelNext]_levelVars => [MayLose]_levelVars
  BY LevelStep DEF Correct
<1>. QED
  BY <1>1, LevelInvariance, PTL DEF LevelSpec, LoserIsBeaten, MayLose
================================================================================
