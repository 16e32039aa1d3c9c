------------------------------ MODULE MapRotation ------------------------------
(***************************************************************************)
(* The rotations of maps: lists of nodes that are walked, when a level      *)
(* ends, up to the next map.  The functions of the walk call each other in  *)
(* tail position only, so that it is a sequence of steps, one per node.     *)
(* Nodes are numbered from 1; a conditional node is one after any number of *)
(* "if", whose outcome may be random.                                       *)
(***************************************************************************)
EXTENDS Naturals, Sequences

CONSTANTS
    Names,          \* of rotations
    MapNames,
    Existing,       \* the maps that are there (G_MapExists)
    Labels,
    Configs,        \* the configurations: for each name of a rotation its nodes
    SkipDepth,      \* 32: beyond it only maps are looked for
    StopDepth,      \* 64: beyond it the walk gives up
    MaxStack        \* entries that g_mapRotationStack has room for

NOT_ROTATING == "none"

\* What a condition leads to is never a map or a label, but a goto to it.
Node ==
    {n \in [type : {"NT_MAP", "NT_GOTO", "NT_RESUME", "NT_LABEL", "NT_RETURN"},
            name : Names \cup MapNames \cup Labels \cup {""},
            conditional : BOOLEAN] :
        n.conditional => n.type \notin {"NT_MAP", "NT_LABEL"}}

G_NodeIndexAfter(nodes, i) == IF i = Len(nodes) THEN 1 ELSE i + 1

IsMap(node) == node.type = "NT_MAP" /\ node.name \in Existing

\* How far it is from each node to the next map, if that is never too far.
Distances(nodes) ==
    {d \in [1 .. Len(nodes) -> 0 .. StopDepth - SkipDepth] :
        \A i \in 1 .. Len(nodes) :
            IF IsMap(nodes[i]) THEN d[i] = 0 ELSE d[i] = d[G_NodeIndexAfter(nodes, i)] + 1}

ASSUME ConfigsAssumption ==
    /\ NOT_ROTATING \notin Names
    /\ SkipDepth \in Nat
    /\ StopDepth \in Nat
    /\ SkipDepth <= StopDepth
    /\ MaxStack \in Nat
    /\ \A config \in Configs : DOMAIN config = Names
    /\ \A config \in Configs : \A n \in Names :
          /\ config[n] \in Seq(Node)
          /\ config[n] # <<>>

VARIABLES
    rotations,              \* as read from maprotation.cfg
    g_currentMapRotation,
    g_mapRotationNodes,     \* for each rotation the node to go on with
    g_mapRotationStack,
    phase,                  \* the level runs, a rotation is walked, the map changes, or it
                            \* does not and the level is over all the same
    nodeIndex,
    depth,
    \* history
    last                    \* for each rotation the node that was run last since the rotation
                            \* was started anew, 0 for none

vars == <<rotations, g_currentMapRotation, g_mapRotationNodes, g_mapRotationStack,
          phase, nodeIndex, depth, last>>

\* g_initialMapRotation need not be set.
Init ==
    /\ rotations \in Configs
    /\ g_currentMapRotation \in {NOT_ROTATING} \cup Names
    /\ g_mapRotationNodes = [n \in Names |-> 1]
    /\ g_mapRotationStack = <<>>
    /\ phase = "level"
    /\ nodeIndex = 1
    /\ depth = 0
    /\ last = [n \in Names |-> 0]

--------------------------------------------------------------------------------
Nodes == rotations[g_currentMapRotation]
node  == Nodes[nodeIndex]
After == G_NodeIndexAfter(Nodes, nodeIndex)

\* The loop of G_AdvanceMapRotation goes on with the next node.
NextNode ==
    /\ nodeIndex' = After
    /\ depth' = depth + 1
    /\ UNCHANGED <<g_currentMapRotation, g_mapRotationNodes, g_mapRotationStack, phase>>

\* Mutant: the nodes are not counted across rotations.
AdvanceAnew(d) ==
    /\ phase' = "walk"
    /\ nodeIndex' = g_mapRotationNodes'[g_currentMapRotation']
    /\ depth' = 1

\* It begins, at the node that the current rotation is to go on with.
G_AdvanceMapRotation(d) ==
    /\ phase' = "walk"
    /\ nodeIndex' = g_mapRotationNodes'[g_currentMapRotation']
    /\ depth' = d

\* The oldest entry is cut off when there is no room.
Pushed(stack) ==
    SubSeq(<<g_currentMapRotation>> \o stack, 1,
           IF Len(stack) < MaxStack THEN Len(stack) + 1 ELSE MaxStack)

\* Mutant: the place of a rotation is not kept.
Forgotten == g_mapRotationNodes

\* Where the rotation goes on when it is come back to.
Left == [g_mapRotationNodes EXCEPT ![g_currentMapRotation] = After]

Ran == [last EXCEPT ![g_currentMapRotation] = nodeIndex]

\* Mutant: nodes are not skipped before the walk gives up.
NeverDeep == FALSE

\* "guard against inifinite loop in conditional code"
Deep == depth > SkipDepth /\ node.type # "NT_MAP"

TooDeep == depth > StopDepth /\ node.type # "NT_MAP"

--------------------------------------------------------------------------------
(* The walk: G_StepMapRotation, a node at a time. *)

GiveUp ==
    /\ phase = "walk"
    /\ TooDeep
    /\ phase' = "stopped"
    /\ last' = Ran
    /\ UNCHANGED <<rotations, g_currentMapRotation, g_mapRotationNodes, g_mapRotationStack,
                   nodeIndex, depth>>

\* A node whose condition does not hold, a label, a map that is missing or, beyond the limit,
\* any node but a map.
PassBy ==
    /\ phase = "walk"
    /\ ~TooDeep
    /\ \/ Deep
       \/ node.conditional
       \/ node.type = "NT_LABEL"
       \/ node.type = "NT_MAP" /\ ~IsMap(node)
       \/ node.type = "NT_RETURN" /\ g_mapRotationStack = <<>>
    /\ NextNode
    /\ last' = Ran
    /\ UNCHANGED rotations

\* A node that is run and is of a type.
Runs(types) ==
    /\ phase = "walk"
    /\ ~TooDeep
    /\ ~Deep
    /\ node.type \in types

G_IssueMapChange ==
    /\ Runs({"NT_MAP"})
    /\ IsMap(node)
    /\ g_mapRotationNodes' = Left
    /\ phase' = "change"
    /\ last' = Ran
    /\ UNCHANGED <<rotations, g_currentMapRotation, g_mapRotationStack, nodeIndex, depth>>

Return ==
    /\ Runs({"NT_RETURN"})
    /\ g_mapRotationStack # <<>>
    /\ g_mapRotationStack' = Tail(g_mapRotationStack)
    /\ g_mapRotationNodes' = Left
    /\ g_currentMapRotation' = Head(g_mapRotationStack)
    /\ G_AdvanceMapRotation(depth + 1)
    /\ last' = Ran
    /\ UNCHANGED rotations

\* G_GotoLabel looks for a rotation, then for a label, then for a map after the node.
GotoRotation ==
    /\ Runs({"NT_GOTO", "NT_RESUME"})
    /\ node.name \in Names
    /\ g_mapRotationStack' = Pushed(g_mapRotationStack)
    /\ g_currentMapRotation' = node.name
    /\ \/ /\ node.type = "NT_GOTO"
          /\ g_mapRotationNodes' = [Left EXCEPT ![node.name] = 1]
          /\ last' = [Ran EXCEPT ![node.name] = 0]
       \/ /\ node.type = "NT_RESUME"
          /\ g_mapRotationNodes' = Left
          /\ last' = Ran
    /\ G_AdvanceMapRotation(depth + 1)
    /\ UNCHANGED rotations

Named(type) == {i \in 1 .. Len(Nodes) : Nodes[i].type = type /\ Nodes[i].name = node.name}

\* The walk goes on at a node of the same rotation.
Jump(i) ==
    /\ g_mapRotationNodes' = [g_mapRotationNodes EXCEPT ![g_currentMapRotation] = i]
    /\ UNCHANGED <<rotations, g_currentMapRotation, g_mapRotationStack>>
    /\ G_AdvanceMapRotation(depth + 1)
    /\ last' = Ran

GotoLabel ==
    /\ Runs({"NT_GOTO", "NT_RESUME"})
    /\ node.name \notin Names
    /\ \E i \in Named("NT_LABEL") :
          /\ \A j \in Named("NT_LABEL") : i <= j
          /\ Jump(G_NodeIndexAfter(Nodes, i))

\* Going round the rotation from the current node, i comes before j.
ComesBefore(i, j) ==
    IF i > nodeIndex THEN j > nodeIndex => i <= j ELSE j <= nodeIndex /\ i <= j

GotoMap ==
    /\ Runs({"NT_GOTO", "NT_RESUME"})
    /\ node.name \notin Names
    /\ Named("NT_LABEL") = {}
    /\ \E i \in Named("NT_MAP") :
          /\ \A j \in Named("NT_MAP") : ComesBefore(i, j)
          /\ Jump(i)

GotoNowhere ==
    /\ Runs({"NT_GOTO", "NT_RESUME"})
    /\ node.name \notin Names
    /\ Named("NT_LABEL") = {}
    /\ Named("NT_MAP") = {}
    /\ g_mapRotationNodes' = Left
    /\ nodeIndex' = After
    /\ depth' = depth + 1
    /\ last' = Ran
    /\ UNCHANGED <<rotations, g_currentMapRotation, g_mapRotationStack, phase>>

Step ==
    \/ GiveUp
    \/ PassBy
    \/ G_IssueMapChange
    \/ Return
    \/ GotoRotation
    \/ GotoLabel
    \/ GotoMap
    \/ GotoNowhere

--------------------------------------------------------------------------------
(* What happens between the walks. *)

\* ExitLevel at the end of a level, or the command of the console.
LevelOver ==
    /\ phase \in {"level", "stopped"}
    /\ g_currentMapRotation # NOT_ROTATING
    /\ UNCHANGED <<rotations, g_currentMapRotation, g_mapRotationNodes, g_mapRotationStack, last>>
    /\ G_AdvanceMapRotation(1)

\* The new level: the configuration is read again and is the same.
G_InitMapRotations ==
    /\ phase = "change"
    /\ phase' = "level"
    /\ UNCHANGED <<rotations, g_currentMapRotation, g_mapRotationNodes, g_mapRotationStack,
                   nodeIndex, depth, last>>

Svcmd_MapRotation_f(n) ==
    /\ phase = "level"
    /\ g_mapRotationStack' = IF g_currentMapRotation = NOT_ROTATING THEN <<>> ELSE Pushed(<<>>)
    /\ g_currentMapRotation' = n
    /\ UNCHANGED <<rotations, g_mapRotationNodes, phase, nodeIndex, depth, last>>

G_StopMapRotation ==
    /\ phase = "level"
    /\ g_currentMapRotation' = NOT_ROTATING
    /\ UNCHANGED <<rotations, g_mapRotationNodes, g_mapRotationStack, phase, nodeIndex, depth, last>>

Next ==
    \/ Step
    \/ LevelOver
    \/ G_InitMapRotations
    \/ \E n \in Names : Svcmd_MapRotation_f(n)
    \/ G_StopMapRotation

Spec == Init /\ [][Next]_vars

\* The walk is one call.
FairSpec == Spec /\ WF_vars(Step)

--------------------------------------------------------------------------------
(* Properties. *)

\* Between two maps of a rotation, one behind the other, there are no more other nodes than the
\* guard against loops allows.
MapsInReach == \A n \in Names : Distances(rotations[n]) # {}

TypeOK ==
    /\ rotations \in Configs
    /\ g_currentMapRotation \in {NOT_ROTATING} \cup Names
    /\ g_mapRotationNodes \in [Names -> Nat]
    /\ \A n \in Names : g_mapRotationNodes[n] \in 1 .. Len(rotations[n])
    /\ g_mapRotationStack \in Seq(Names)
    /\ Len(g_mapRotationStack) <= MaxStack
    /\ phase \in {"level", "walk", "change", "stopped"}
    /\ depth \in Nat
    /\ phase = "walk" => g_currentMapRotation \in Names /\ nodeIndex \in 1 .. Len(Nodes)
    /\ last \in [Names -> Nat]
    /\ \A n \in Names : last[n] \in 0 .. Len(rotations[n])

\* However the rotations start, resume and return to each other, a walk does not give up, which
\* would leave the server in a level that is over (G_StepMapRotation).
NeverGivesUp == MapsInReach => phase # "stopped"

\* A walk ends, with a change of the map when it can be reached, whatever the conditions say.
WalkEnds ==
    /\ phase = "walk" ~> phase # "walk"
    /\ phase = "walk" /\ MapsInReach ~> phase = "change"

\* A rotation that is come back to, in the same walk or after levels of others, goes on after the
\* node that was run last in it, unless it was started anew (g_mapRotationNodes).  A walk that
\* gives up keeps no place.
GoesOn ==
    [][/\ MapsInReach
       /\ phase' = "walk"
       /\ phase # "walk" \/ g_mapRotationStack' # g_mapRotationStack
       /\ last'[g_currentMapRotation'] # 0
       => nodeIndex' = G_NodeIndexAfter(rotations[g_currentMapRotation'], last'[g_currentMapRotation'])]_vars
================================================================================
