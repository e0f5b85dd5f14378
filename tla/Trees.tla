------------------------------- MODULE Trees -------------------------------
(***************************************************************************)
(* Trees as functions from places: <<>> is the root, and the children of   *)
(* the node at `at` are at Append(at, i), in the order of i.  Numbers may  *)
(* be missing.                                                             *)
(***************************************************************************)
EXTENDS SequencesExt

IsTree(places) ==
  /\ IsFiniteSet(places)
  /\ <<>> \in places
  /\ \A at \in places \ {<<>>} : at \in Seq(Nat \ {0}) /\ Front(at) \in places

Children(tree, at) == {child \in DOMAIN tree : child # <<>> /\ Front(child) = at}
=============================================================================
