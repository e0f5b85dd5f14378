--------------------------- MODULE ReadOneElement ---------------------------
(***************************************************************************)
(* read_one_element (src/KaxFile.cpp): the level 1 elements of one Segment *)
(* after the other, each read with the semantics that find_ebml_callbacks  *)
(* has for its ID, and the upper level element that libebml may hand back  *)
(* with it.                                                                *)
(*                                                                         *)
(* An element is a tree.  In the file each node has an ID and a value, and *)
(* as it is read a class, too.                                             *)
(***************************************************************************)
EXTENDS EbmlCallbacks, Trees

CONSTANT Files   \* the Segments to read: sequences of level 1 elements

Void    == "EbmlVoid"
Crc32   == "EbmlCrc32"
Cluster == "KaxCluster"
Dummy   == "EbmlDummy"

ASSUME ElementsAssumption ==
  /\ {Void, Crc32} \subseteq DOMAIN Id \ Classes
  /\ Cluster \in Classes
  /\ \A segment \in Files :
       /\ segment \in Seq(Range(segment))
       /\ \A raw \in Range(segment) : IsTree(DOMAIN raw) /\ raw[<<>>].id \in Ids

VARIABLES
  file,        \* the level 1 elements not yet read
  shown,       \* the elements shown so far, as they were read
  reached,     \* a Cluster has ended the Segment
  delivered,   \* history: what the file holds of the elements shown
  heap         \* history: the upper level element of the last Read

reading == <<file, shown, reached, delivered>>
readVars == <<reading, heap, s_cache>>

-----------------------------------------------------------------------------
(* libebml                                                                 *)

IsMaster(element, at) == Children(element, at) # {}

ClassOf(id, context) ==
  LET known == {class \in (IF context \in Classes THEN Range(Context[context]) ELSE {})
                            \cup {Void, Crc32} : Id[class] = id}
  IN  IF known = {} THEN Dummy ELSE CHOOSE class \in known : TRUE

(* The children of an element are known by the given semantics, theirs by  *)
(* their own.                                                              *)
ClassAt(raw, callbacks, at, class) ==
  ClassOf(raw[at].id, CASE at = <<>>    -> Base
                        [] Len(at) = 1 -> callbacks
                        [] Len(at) > 1 -> class[Front(at)])

ClassesIn(raw, callbacks) ==
  LET class[at \in DOMAIN raw] == ClassAt(raw, callbacks, at, class) IN class

(* An element as it is read: one of no known class has no children.        *)
Read(raw, callbacks) ==
  LET class == ClassesIn(raw, callbacks)
      HasParents(at) == \A n \in 0 .. Len(at) - 1 : class[SubSeq(at, 1, n)] # Dummy
  IN  [at \in {at \in DOMAIN raw : HasParents(at)} |->
         [class |-> class[at], id |-> raw[at].id, value |-> raw[at].value]]

(* A pointer to an element is its place in the tree Read has built.        *)
Nullptr == <<0>>
Fresh   == <<0, 0>>   \* an element outside the tree

(* The upper level element Read may hand back: any of the tree, or one it  *)
(* has left outside.  If there is none, l2 says nothing.                   *)
UpperElements(l1) ==
  {[upper_lvl_el |-> 1, l2 |-> l2] : l2 \in {Nullptr, Fresh} \cup DOMAIN l1}
  \cup {[upper_lvl_el |-> 0, l2 |-> l2] : l2 \in {Nullptr, <<>>}}

-----------------------------------------------------------------------------
(* Mutant: only the element and its children are compared.                 *)
found_amongChildren(l1, needle) ==
  needle # Nullptr /\ needle \in {<<>>} \cup Children(l1, <<>>)

found_in(l1, needle) ==
  LET found[haystack \in DOMAIN l1] ==
        \/ needle = haystack
        \/ \E child \in Children(l1, haystack) :
             needle = child \/ (IsMaster(l1, child) /\ found[child])
  IN  needle # Nullptr /\ found[<<>>]

Deletes(l1, upper) ==
  upper.upper_lvl_el # 0 /\ ~found_in(l1, upper.l2) /\ upper.l2 # Nullptr

(* With the element found.  Read may throw, which loses it: the reader     *)
(* takes up again at some later element, or at none.  Else it is shown,    *)
(* and a Cluster is the last.                                              *)
ReadElement(raw) ==
  LET callbacks == s_cache'[raw[<<>>].id]
      l1 == Read(raw, IF callbacks = NoCallbacks THEN Base ELSE callbacks)
  IN
  /\ heap' \in {[owned   |-> upper.l2 \in DOMAIN l1,
                 fresh   |-> upper.l2 = Fresh,
                 deleted |-> Deletes(l1, upper)] : upper \in UpperElements(l1)}
  /\ \/ /\ \E n \in 1 .. Len(file) : file' = SubSeq(file, n + 1, Len(file))
        /\ UNCHANGED <<shown, reached, delivered>>
     \/ /\ l1[<<>>].class = Cluster
        /\ reached' = TRUE
        /\ UNCHANGED <<file, shown, delivered>>
     \/ /\ l1[<<>>].class # Cluster
        /\ shown' = Append(shown, l1)
        /\ delivered' = Append(delivered, raw)
        /\ file' = Tail(file)
        /\ UNCHANGED reached

read_one_element ==
  /\ ~reached
  /\ file # <<>>
  /\ find_ebml_callbacks(Base, Head(file)[<<>>].id)
  /\ ReadElement(Head(file))

-----------------------------------------------------------------------------
(* A file is opened and closed again; the table stays.                     *)

NoUpper == [owned |-> FALSE, fresh |-> FALSE, deleted |-> FALSE]

OpenSegment(segment) ==
  /\ file' = segment
  /\ shown' = <<>>
  /\ delivered' = <<>>
  /\ reached' = FALSE
  /\ UNCHANGED <<heap, s_cache>>

CloseSegment ==
  /\ heap' = NoUpper
  /\ UNCHANGED <<reading, s_cache>>

ReadInit ==
  /\ file = <<>>
  /\ shown = <<>>
  /\ delivered = <<>>
  /\ reached = FALSE
  /\ heap = NoUpper
  /\ LookupInit

ReadNext ==
  \/ \E segment \in Files : OpenSegment(segment)
  \/ read_one_element
  \/ CloseSegment

ReadSpec == ReadInit /\ [][ReadNext]_readVars

-----------------------------------------------------------------------------
(* Properties                                                              *)

(* The upper level element that Read hands back is deleted if and only if  *)
(* it lies in no tree, at whatever depth of the element read it may lie:   *)
(* nothing is deleted twice and nothing is lost.                           *)
DeletesWhatNobodyOwns ==
  /\ heap.deleted => ~heap.owned
  /\ heap.fresh => heap.deleted
=============================================================================
