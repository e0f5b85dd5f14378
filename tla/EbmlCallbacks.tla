--------------------------- MODULE EbmlCallbacks ---------------------------
(***************************************************************************)
(* find_ebml_callbacks and do_find_ebml_callbacks (src/KaxFile.cpp): with  *)
(* which semantics an element is read, found by its ID among everything    *)
(* that may lie below `base`, and kept in a table that is as old as the    *)
(* process.                                                                *)
(*                                                                         *)
(* The table knows the ID only.  What it answers is right as long as every *)
(* search began at the same base, as the ones of read_one_element do.      *)
(***************************************************************************)
EXTENDS SequencesExt

CONSTANTS
  Classes,      \* the EbmlCallbacks of libmatroska, one for each element class
  Id,           \* EBML_INFO_ID of each
  Context,      \* EBML_INFO_CONTEXT of each: what may lie in such an element
  Base,         \* the class every search begins at: KaxSegment
  NoCallbacks   \* nullptr

ASSUME ClassesAssumption ==
  /\ Base \in Classes
  /\ NoCallbacks \notin Classes
  /\ Context \in [Classes -> Seq(Classes)]
  /\ Classes \subseteq DOMAIN Id

(* Besides in itself no class may lie in one that lies, at any depth, in   *)
(* it: the search ends because of that, and so does the code's.  (Of some  *)
(* classes there is always one that has no other one of them in it.)       *)
ASSUME SemanticsAssumption ==
  /\ IsFiniteSet(Classes)
  /\ \A some \in (SUBSET Classes) \ {{}} :
       \E class \in some : \A child \in Range(Context[class]) :
         child = class \/ child \notin some

Ids == {Id[class] : class \in DOMAIN Id}

VARIABLE s_cache   \* what was found so far: from IDs to classes or nullptr

-----------------------------------------------------------------------------
(* Mutant: what lies two levels below is not looked at.                    *)
NeverBelow(class, child) == FALSE

(* EBML_SEM_CONTEXT of a child is another one: a context belongs to one    *)
(* class, so only a class that may lie in itself meets its own.            *)
OtherContext(class, child) == child # class

(* The element itself, then what lies directly in it, then what is found   *)
(* below the first of those that leads to something.                       *)
do_find_ebml_callbacks(base, id) ==
  LET found[class \in Classes] ==
        LET children == Context[class]
            direct == SelectInSeq(children, LAMBDA child : Id[child] = id)
            below == SelectInSeq(children, LAMBDA child :
                       OtherContext(class, child) /\ found[child] # NoCallbacks)
        IN  CASE Id[class] = id -> class
              [] Id[class] # id /\ direct # 0 -> children[direct]
              [] Id[class] # id /\ direct = 0 /\ below # 0 -> found[children[below]]
              [] OTHER -> NoCallbacks
  IN  found[base]

(* Mutant: instead of nullptr the table gets what the caller falls back to. *)
FoundOrBase(base, id) ==
  IF do_find_ebml_callbacks(base, id) = NoCallbacks THEN base
  ELSE do_find_ebml_callbacks(base, id)

Found(base, id) == do_find_ebml_callbacks(base, id)

(* The answer is s_cache'[id].                                             *)
find_ebml_callbacks(base, id) ==
  s_cache' = [known \in DOMAIN s_cache \cup {id} |->
                IF known \in DOMAIN s_cache THEN s_cache[known] ELSE Found(base, id)]

-----------------------------------------------------------------------------
LookupInit == s_cache = [id \in {} |-> NoCallbacks]

LookupNext == \E id \in Ids : find_ebml_callbacks(Base, id)

LookupSpec == LookupInit /\ [][LookupNext]_s_cache

-----------------------------------------------------------------------------
(* Properties                                                              *)

(* However many elements of however many files were looked up before, the  *)
(* table answers what a search from Base would find now, null included.    *)
CacheIsTransparent ==
  /\ DOMAIN s_cache \subseteq Ids
  /\ \A id \in DOMAIN s_cache : s_cache[id] = do_find_ebml_callbacks(Base, id)

(* Everything that may lie in Base, at any depth.                          *)
Below ==
  LET Deeper(classes) == classes \cup UNION {Range(Context[class]) : class \in classes}
      reach[n \in 0 .. Cardinality(Classes)] ==
        IF n = 0 THEN {Base} ELSE Deeper(reach[n - 1])
  IN  reach[Cardinality(Classes)]

(* What is found has the ID asked for and may lie in a Segment, and what   *)
(* may lie there is found, at any depth, although the search passes over   *)
(* classes that may lie in themselves.                                     *)
FindsWhatIsBelow ==
  \A id \in DOMAIN s_cache :
    IF \E class \in Below : Id[class] = id
    THEN s_cache[id] \in {class \in Below : Id[class] = id}
    ELSE s_cache[id] = NoCallbacks
=============================================================================
