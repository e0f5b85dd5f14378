----------------------------- MODULE Transcript -----------------------------
(***************************************************************************)
(* What traverse() promises of its text: a document written depth first.   *)
(* Every element is written inside exactly the elements it lies in, and    *)
(* the writing does not end but with every element closed and a text that  *)
(* parses, which no text does before.  When and by whom tags are closed is *)
(* not said.                                                               *)
(***************************************************************************)
EXTENDS Naturals, Sequences

CONSTANTS Names, Root

VARIABLES
  around,    \* the elements around the place where writing goes on
  last,      \* the element written last, as the path that leads to it
  ended,     \* no more is written
  complete   \* the text is a whole document, as a parser sees it

vars == <<around, last, ended, complete>>

Init ==
  /\ around = <<>>
  /\ last = <<Root>>
  /\ ended = FALSE
  /\ complete = FALSE

(* Write an element with content, and go on inside it.                     *)
Descend(name) ==
  /\ ~ended
  /\ around' = Append(around, name)
  /\ last' = <<Root>> \o around'
  /\ UNCHANGED <<ended, complete>>

(* Write an element that holds a value.                                    *)
WriteValue(name) ==
  /\ ~ended
  /\ last' = <<Root>> \o Append(around, name)
  /\ UNCHANGED <<around, ended, complete>>

(* Go on after the end of the innermost element.                           *)
Ascend ==
  /\ ~ended
  /\ around # <<>>
  /\ around' = SubSeq(around, 1, Len(around) - 1)
  /\ UNCHANGED <<last, ended, complete>>

(* There is no other end.                                                  *)
Complete ==
  /\ ~ended
  /\ around = <<>>
  /\ ended' = TRUE
  /\ complete' = TRUE
  /\ UNCHANGED <<around, last>>

Next ==
  \/ \E name \in Names : Descend(name) \/ WriteValue(name)
  \/ Ascend
  \/ Complete

Spec == Init /\ [][Next]_vars
=============================================================================
