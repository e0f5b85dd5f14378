---------------------------- MODULE MCTraverser ----------------------------
(***************************************************************************)
(* Traverser on small documents: two names below the top level, one of     *)
(* them no XML name, as "Language_(IETF_BCP_47)" of the table in get() is. *)
(***************************************************************************)
EXTENDS Traverser

MCInnerNames == {"Tracks", "Language_(IETF_BCP_47)"}
MCOddNames   == {"Language_(IETF_BCP_47)"}
MCTwoNames   == {"Tracks", "Track"}
MCOneName    == {"Tracks"}
=============================================================================
