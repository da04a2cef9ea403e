------------------------------ MODULE LayerView ------------------------------
(***************************************************************************)
(* What a program that draws into a layer may rely on: the picture shows   *)
(* what it has committed last or still what was shown before, never a      *)
(* half-made edit, and never anything older than what was shown already.   *)
(***************************************************************************)
CONSTANTS
  Layers,
  Pictures,  \* the finished contents of a layer
  Blank      \* the contents of a new layer

VARIABLES
  committed,  \* what the last finished edit has left in a layer
  shown       \* what the picture shows of a layer

vars == <<committed, shown>>

Init ==
  /\ committed = [l \in Layers |-> Blank]
  /\ shown = [l \in Layers |-> Blank]

\* The layers S go, and others may have their names later.
Forget(S) ==
  /\ committed' = [l \in Layers |-> IF l \in S THEN Blank ELSE committed[l]]
  /\ shown' = [l \in Layers |-> IF l \in S THEN Blank ELSE shown[l]]

Commit(l) ==
  /\ \E p \in Pictures : committed' = [committed EXCEPT ![l] = p]
  /\ UNCHANGED shown

\* A layer under edit, or no longer in the picture, keeps its old contents.
Draw ==
  /\ DOMAIN shown' = Layers
  /\ \A l \in Layers : shown'[l] \in {shown[l], committed[l]}
  /\ UNCHANGED committed

Next ==
  \/ Draw
  \/ \E l \in Layers : Commit(l)
  \/ \E S \in SUBSET Layers : Forget(S)

Spec == Init /\ [][Next]_vars
=============================================================================
