----------------------------- MODULE MCComposer -----------------------------
(***************************************************************************)
(* Instances of Composer for TLC: one or two user tasks with their windows.*)
(***************************************************************************)
EXTENDS Composer, TLC

\* Users and addresses are interchangeable.
Symmetry == Permutations(Users) \union Permutations(Addresses)

\* No action reads order, and only its type is an invariant of the run with this view.
WithoutOrder ==
  <<layer, layers, layers_dirty, windows, places, back, moved, behind, history>>
=============================================================================
