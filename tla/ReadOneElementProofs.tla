------------------------ MODULE ReadOneElementProofs ------------------------
(***************************************************************************)
(* The table of find_ebml_callbacks, for every set of classes and every    *)
(* semantics of them, and read_one_element on top of it, for all elements  *)
(* and all files.                                                          *)
(***************************************************************************)
EXTENDS ReadOneElement, RecursionLemmas, SequenceTheorems, FiniteSetTheorems, TLAPS

-----------------------------------------------------------------------------
(* The table.                                                              *)

(* The table is empty when the process begins.                             *)
LEMMA InitTransparent == LookupInit => CacheIsTransparent
  BY DEF LookupInit, CacheIsTransparent

(* A lookup adds at most the ID it was asked for, with what a search from  *)
(* the common base finds.                                                  *)
LEMMA LookupEffect ==
  ASSUME NEW id \in Ids, find_ebml_callbacks(Base, id)
  PROVE  /\ DOMAIN s_cache' = DOMAIN s_cache \cup {id}
         /\ \A known \in DOMAIN s_cache : s_cache'[known] = s_cache[known]
         /\ id \notin DOMAIN s_cache => s_cache'[id] = do_find_ebml_callbacks(Base, id)
  BY DEF find_ebml_callbacks, Found

(* No lookup makes an answer wrong.                                        *)
LEMMA NextTransparent == CacheIsTransparent /\ [LookupNext]_s_cache => CacheIsTransparent'
  <1> SUFFICES ASSUME CacheIsTransparent, [LookupNext]_s_cache
               PROVE  CacheIsTransparent'
    OBVIOUS
  <1>1. ASSUME NEW id \in Ids, find_ebml_callbacks(Base, id)
        PROVE  CacheIsTransparent'
    <2>1. DOMAIN s_cache' \subseteq Ids
      BY <1>1, LookupEffect DEF CacheIsTransparent
    <2>2. ASSUME NEW known \in DOMAIN s_cache'
          PROVE  s_cache'[known] = do_find_ebml_callbacks(Base, known)
      BY <1>1, <2>2, LookupEffect DEF CacheIsTransparent
    <2> QED
      BY <2>1, <2>2 DEF CacheIsTransparent, Ids
  <1>2. CASE UNCHANGED s_cache
    BY <1>2 DEF CacheIsTransparent
  <1> QED
    BY <1>1, <1>2 DEF LookupNext

(* Whatever was looked up before, in this call of info() or in one long    *)
(* ago, the table answers what a search would, because every search begins *)
(* at the same base: the table is keyed by the ID alone.                   *)
THEOREM TableNeverStale == LookupSpec => []CacheIsTransparent
  BY InitTransparent, NextTransparent, PTL DEF LookupSpec


-----------------------------------------------------------------------------
(* What the search finds, as a function of the class it begins at.         *)
Direct(class, id) == SelectInSeq(Context[class], LAMBDA child : Id[child] = id)

Onward(class, found) ==
  SelectInSeq(Context[class], LAMBDA child :
    OtherContext(class, child) /\ found[child] # NoCallbacks)

Finds(class, id, found) ==
  CASE Id[class] = id -> class
    [] Id[class] # id /\ Direct(class, id) # 0 -> Context[class][Direct(class, id)]
    [] Id[class] # id /\ Direct(class, id) = 0 /\ Onward(class, found) # 0 ->
         found[Context[class][Onward(class, found)]]
    [] OTHER -> NoCallbacks

Searched(id) == CHOOSE found : found = [class \in Classes |-> Finds(class, id, found)]

(* The function is the one of do_find_ebml_callbacks.                      *)
LEMMA SearchIs ==
  ASSUME NEW base, NEW id
  PROVE  do_find_ebml_callbacks(base, id) = Searched(id)[base]
  BY DEF do_find_ebml_callbacks, Searched, Finds, Direct, Onward

(* The least of a set of positions is one of them.                         *)
LEMMA MinIs ==
  ASSUME NEW I \in SUBSET Nat, I # {}
  PROVE  Min(I) \in I
  <1>1. \E m \in I : \A n \in I : m <= n
    BY LeastNatural
  <1> QED
    BY <1>1 DEF Min

(* What the children of a class are.                                       *)
LEMMA ChildrenAre ==
  ASSUME NEW class \in Classes
  PROVE  /\ Context[class] \in Seq(Classes)
         /\ Range(Context[class]) \subseteq Classes
         /\ \A i \in 1 .. Len(Context[class]) : Context[class][i] \in Range(Context[class])
         /\ \A child \in Range(Context[class]) :
              \E i \in 1 .. Len(Context[class]) : child = Context[class][i]
  <1>1. Context[class] \in Seq(Classes)
    BY ClassesAssumption
  <1>2. PICK s \in Seq(Classes) : s = Context[class]
    BY <1>1
  <1>3. /\ Range(s) \subseteq Classes
        /\ \A i \in 1 .. Len(s) : s[i] \in Range(s)
        /\ \A child \in Range(s) : \E i \in 1 .. Len(s) : child = s[i]
    BY DEF Range
  <1> QED
    BY <1>1, <1>2, <1>3

(* A child with the ID, if there is one.                                   *)
LEMMA DirectIs ==
  ASSUME NEW class \in Classes, NEW id
  PROVE  \/ /\ Direct(class, id) = 0
            /\ \A child \in Range(Context[class]) : Id[child] # id
         \/ /\ Direct(class, id) # 0
            /\ Context[class][Direct(class, id)] \in Range(Context[class])
            /\ Id[Context[class][Direct(class, id)]] = id
  <1> DEFINE s == Context[class]
             I == {i \in 1 .. Len(s) : Id[s[i]] = id}
  <1>1. Direct(class, id) = IF I # {} THEN Min(I) ELSE 0
    BY DEF Direct, SelectInSeq
  <1>2. Len(s) \in Nat
    BY ChildrenAre
  <1>3. CASE I = {}
    <2>1. Direct(class, id) = 0
      BY <1>1, <1>3
    <2>2. \A i \in 1 .. Len(s) : Id[s[i]] # id
      BY <1>3
    <2>3. ASSUME NEW child \in Range(s) PROVE Id[child] # id
      <3>1. PICK i \in 1 .. Len(s) : child = s[i]
        BY ChildrenAre
      <3> QED
        BY <2>2, <3>1
    <2> QED
      BY <2>1, <2>3
  <1>4. CASE I # {}
    <2>1. I \in SUBSET Nat
      BY <1>2
    <2>2. PICK m : m = Direct(class, id) /\ m \in I
      <3> HIDE DEF I
      <3> QED
        BY <1>1, <1>4, <2>1, MinIs
    <2>3. m \in 1 .. Len(s) /\ m # 0 /\ Id[s[m]] = id
      BY <1>2, <2>2
    <2> QED
      BY <2>2, <2>3, ChildrenAre
  <1> QED
    BY <1>3, <1>4

(* A child that leads to something and is not the class itself, if there   *)
(* is one.                                                                 *)
LEMMA OnwardIs ==
  ASSUME NEW class \in Classes, NEW found
  PROVE  \/ /\ Onward(class, found) = 0
            /\ \A child \in Range(Context[class]) :
                 child # class => found[child] = NoCallbacks
         \/ /\ Onward(class, found) # 0
            /\ Context[class][Onward(class, found)] \in Range(Context[class])
            /\ Context[class][Onward(class, found)] # class
            /\ found[Context[class][Onward(class, found)]] # NoCallbacks
  <1> DEFINE s == Context[class]
             I == {i \in 1 .. Len(s) : s[i] # class /\ found[s[i]] # NoCallbacks}
  <1>1. Onward(class, found) = IF I # {} THEN Min(I) ELSE 0
    BY DEF Onward, SelectInSeq, OtherContext
  <1>2. Len(s) \in Nat
    BY ChildrenAre
  <1>3. CASE I = {}
    <2>1. Onward(class, found) = 0
      BY <1>1, <1>3
    <2>2. \A i \in 1 .. Len(s) : s[i] = class \/ found[s[i]] = NoCallbacks
      BY <1>3
    <2>3. ASSUME NEW child \in Range(s), child # class PROVE found[child] = NoCallbacks
      <3>1. PICK i \in 1 .. Len(s) : child = s[i]
        BY ChildrenAre
      <3> QED
        BY <2>2, <2>3, <3>1
    <2> QED
      BY <2>1, <2>3
  <1>4. CASE I # {}
    <2>1. I \in SUBSET Nat
      BY <1>2
    <2>2. PICK m : m = Onward(class, found) /\ m \in I
      <3> HIDE DEF I
      <3> QED
        BY <1>1, <1>4, <2>1, MinIs
    <2>3. m \in 1 .. Len(s) /\ m # 0 /\ s[m] # class /\ found[s[m]] # NoCallbacks
      BY <1>2, <2>2
    <2> QED
      BY <2>2, <2>3, ChildrenAre
  <1> QED
    BY <1>3, <1>4

(* The search from a class looks at the searches from its other children   *)
(* only.                                                                   *)
LEMMA FindsLooksBelow ==
  ASSUME NEW class \in Classes, NEW id, NEW f, NEW g,
         \A child \in Range(Context[class]) : child # class => f[child] = g[child]
  PROVE  Finds(class, id, f) = Finds(class, id, g)
  <1> DEFINE s == Context[class]
             I(found) == {i \in 1 .. Len(s) : s[i] # class /\ found[s[i]] # NoCallbacks}
  <1>1. \A found : Onward(class, found) = IF I(found) # {} THEN Min(I(found)) ELSE 0
    BY DEF Onward, SelectInSeq, OtherContext
  <1>2. I(f) = I(g)
    BY ChildrenAre
  <1>3. Onward(class, f) = Onward(class, g)
    <2> HIDE DEF I
    <2> QED
      BY <1>1, <1>2
  <1>4. Onward(class, f) # 0 =>
          f[Context[class][Onward(class, f)]] = g[Context[class][Onward(class, g)]]
    BY <1>3, OnwardIs
  <1> QED
    BY <1>3, <1>4 DEF Finds

(* What it finds is a class or nothing.                                    *)
LEMMA FindsType ==
  ASSUME NEW class \in Classes, NEW id, NEW found \in [Classes -> Classes \cup {NoCallbacks}]
  PROVE  Finds(class, id, found) \in Classes \cup {NoCallbacks}
  <1>1. CASE Id[class] = id
    BY <1>1 DEF Finds
  <1>2. CASE Id[class] # id /\ Direct(class, id) # 0
    BY <1>2, DirectIs, ChildrenAre DEF Finds
  <1>3. CASE Id[class] # id /\ Direct(class, id) = 0 /\ Onward(class, found) # 0
    <2>1. Context[class][Onward(class, found)] \in Classes
      BY <1>3, OnwardIs, ChildrenAre
    <2>2. Finds(class, id, found) = found[Context[class][Onward(class, found)]]
      BY <1>3 DEF Finds
    <2> QED
      BY <2>1, <2>2
  <1>4. CASE Id[class] # id /\ Direct(class, id) = 0 /\ Onward(class, found) = 0
    BY <1>4 DEF Finds
  <1> QED
    BY <1>1, <1>2, <1>3, <1>4


-----------------------------------------------------------------------------
(* The search ends: it can be done for more and more classes, each time    *)
(* for one all other children of which have been done.                     *)
IsDone(some, id, found) ==
  /\ \A class \in some : \A child \in Range(Context[class]) : child = class \/ child \in some
  /\ \A class \in some : found[class] = Finds(class, id, found)

(* Where not all is done, there is a class that can be done next.          *)
LEMMA OneMoreDone ==
  ASSUME NEW some \in SUBSET Classes, some # Classes, NEW id,
         NEW found \in [Classes -> Classes \cup {NoCallbacks}], IsDone(some, id, found)
  PROVE  \E class \in Classes \ some, more \in [Classes -> Classes \cup {NoCallbacks}] :
           IsDone(some \cup {class}, id, more)
  <1>1. PICK class \in Classes \ some : \A child \in Range(Context[class]) :
               child = class \/ child \notin Classes \ some
    <2>1. Classes \ some \in (SUBSET Classes) \ {{}}
      OBVIOUS
    <2> QED
      BY <2>1, SemanticsAssumption
  <1>2. PICK more : more = [found EXCEPT ![class] = Finds(class, id, found)]
    OBVIOUS
  <1>3. more \in [Classes -> Classes \cup {NoCallbacks}]
    BY <1>1, <1>2, FindsType
  <1>4. /\ more[class] = Finds(class, id, found)
        /\ \A other \in Classes : other # class => more[other] = found[other]
    BY <1>1, <1>2
  <1>5. \A child \in Range(Context[class]) : child = class \/ child \in some
    BY <1>1, ChildrenAre
  <1>6. \A parent \in some \cup {class} : \A child \in Range(Context[parent]) :
          child = parent \/ child \in some
    BY <1>5 DEF IsDone
  <1>7. ASSUME NEW parent \in some \cup {class}
        PROVE  more[parent] = Finds(parent, id, more)
    <2>1. \A child \in Range(Context[parent]) : child # parent => found[child] = more[child]
      BY <1>1, <1>4, <1>6
    <2>2. parent \in Classes
      BY <1>1
    <2>3. Finds(parent, id, found) = Finds(parent, id, more)
      BY <2>1, <2>2, FindsLooksBelow
    <2>4. more[parent] = Finds(parent, id, found)
      BY <1>1, <1>4, <2>2 DEF IsDone
    <2> QED
      BY <2>3, <2>4
  <1> QED
    BY <1>1, <1>3, <1>6, <1>7 DEF IsDone

(* So the function does what its definition says.                          *)
LEMMA SearchEquation ==
  ASSUME NEW id
  PROVE  \A class \in Classes : Searched(id)[class] = Finds(class, id, Searched(id))
  <1> DEFINE T == Classes \cup {NoCallbacks}
             Done(some) == \E found \in [Classes -> T] : IsDone(some, id, found)
             Solves(found) == found = [class \in Classes |-> Finds(class, id, found)]
             A == {n \in Nat : \E some \in SUBSET Classes : Cardinality(some) = n /\ Done(some)}
  <1>1. IsFiniteSet(Classes)
    BY SemanticsAssumption
  <1>2. Done(Classes)
    <2> SUFFICES ASSUME ~Done(Classes) PROVE FALSE
      OBVIOUS
    <2>1. 0 \in A
      <3>1. Cardinality({}) = 0
        BY FS_EmptySet
      <3>2. Done({})
        <4>1. [class \in Classes |-> NoCallbacks] \in [Classes -> T]
          OBVIOUS
        <4>2. IsDone({}, id, [class \in Classes |-> NoCallbacks])
          BY DEF IsDone
        <4> QED
          BY <4>1, <4>2
      <3> HIDE DEF Done
      <3> QED
        BY <3>1, <3>2
    <2>2. ASSUME NEW n \in Nat, n \in A PROVE n + 1 \in A
      <3>1. PICK some \in SUBSET Classes : Cardinality(some) = n /\ Done(some)
        BY <2>2
      <3>2. PICK found \in [Classes -> T] : IsDone(some, id, found)
        BY <3>1
      <3>3. some # Classes
        BY <3>1
      <3>4. PICK class \in Classes \ some : Done(some \cup {class})
        BY <3>2, <3>3, OneMoreDone
      <3>5. IsFiniteSet(some)
        BY <1>1, FS_Subset
      <3>6. Cardinality(some \cup {class}) = n + 1
        BY <3>1, <3>4, <3>5, FS_AddElement
      <3>7. some \cup {class} \in SUBSET Classes
        OBVIOUS
      <3> HIDE DEF Done
      <3> QED
        BY <3>4, <3>6, <3>7
    <2>3. Nat \subseteq A
      <3> HIDE DEF A
      <3> QED
        BY <2>1, <2>2, Induction
    <2>4. Cardinality(Classes) \in Nat
      BY <1>1, FS_CardinalityType
    <2>5. Cardinality(Classes) + 1 \in A
      BY <2>3, <2>4
    <2>6. PICK some \in SUBSET Classes : Cardinality(some) = Cardinality(Classes) + 1
      BY <2>5
    <2>7. Cardinality(some) <= Cardinality(Classes)
      BY <1>1, FS_Subset
    <2> QED
      BY <2>4, <2>6, <2>7
  <1>3. PICK found \in [Classes -> T] : IsDone(Classes, id, found)
    BY <1>2
  <1>4. Solves(found)
    BY <1>3 DEF IsDone
  <1>5. Solves(Searched(id))
    <2>1. Searched(id) = CHOOSE f : Solves(f)
      BY DEF Searched
    <2> HIDE DEF Solves
    <2> QED
      BY <1>4, <2>1
  <1> QED
    BY <1>5

(* What the search from a class finds has the ID and lies where the class  *)
(* does: in every set of classes that has what may lie in its members.     *)
HoldsChildren(some) == \A class \in some : Range(Context[class]) \subseteq some

(* So with what is found from a member of such a set.                      *)
LEMMA SearchFindsInside ==
  ASSUME NEW id, NEW inside \in SUBSET Classes, HoldsChildren(inside), NEW class \in inside,
         Searched(id)[class] # NoCallbacks
  PROVE  Searched(id)[class] \in inside /\ Id[Searched(id)[class]] = id
  <1> DEFINE Right(c) == Searched(id)[c] # NoCallbacks =>
                           Searched(id)[c] \in inside /\ Id[Searched(id)[c]] = id
             wrong == {c \in inside : ~Right(c)}
  <1>1. ASSUME wrong # {} PROVE FALSE
    <2>1. PICK c \in wrong : \A child \in Range(Context[c]) : child = c \/ child \notin wrong
      <3>1. wrong \in (SUBSET Classes) \ {{}}
        BY <1>1
      <3> HIDE DEF wrong
      <3> QED
        BY <3>1, SemanticsAssumption
    <2>2. c \in inside /\ c \in Classes /\ ~Right(c)
      BY <2>1
    <2>3. \A child \in Range(Context[c]) : child \in inside /\ (child # c => Right(child))
      BY <2>1, <2>2 DEF HoldsChildren
    <2>4. PICK found : found = Searched(id) /\ found[c] = Finds(c, id, found)
      BY <2>2, SearchEquation
    <2>5. CASE Id[c] = id
      <3>1. found[c] = c
        BY <2>4, <2>5 DEF Finds
      <3> QED
        BY <2>2, <2>4, <2>5, <3>1
    <2>6. CASE Id[c] # id /\ Direct(c, id) # 0
      <3>1. found[c] = Context[c][Direct(c, id)]
        BY <2>4, <2>6 DEF Finds
      <3>2. found[c] \in Range(Context[c]) /\ Id[found[c]] = id
        BY <2>2, <2>6, <3>1, DirectIs
      <3> QED
        BY <2>2, <2>3, <2>4, <3>2
    <2>7. CASE Id[c] # id /\ Direct(c, id) = 0 /\ Onward(c, found) # 0
      <3>1. found[c] = found[Context[c][Onward(c, found)]]
        BY <2>4, <2>7 DEF Finds
      <3>2. PICK child \in Range(Context[c]) :
              child # c /\ child = Context[c][Onward(c, found)]
        BY <2>2, <2>7, OnwardIs
      <3>3. Right(child) /\ Searched(id)[c] = Searched(id)[child]
        BY <2>3, <2>4, <3>1, <3>2
      <3> QED
        BY <2>2, <3>3
    <2>8. CASE Id[c] # id /\ Direct(c, id) = 0 /\ Onward(c, found) = 0
      <3>1. found[c] = NoCallbacks
        BY <2>4, <2>8 DEF Finds
      <3> QED
        BY <2>2, <2>4, <3>1
    <2> QED
      BY <2>5, <2>6, <2>7, <2>8
  <1>2. Right(class)
    BY <1>1
  <1> QED
    BY <1>2


(* A search that finds nothing has looked at everything below.             *)
LEMMA SearchOverlooksNothing ==
  ASSUME NEW id, NEW class \in Classes, Searched(id)[class] = NoCallbacks
  PROVE  /\ Id[class] # id
         /\ \A child \in Range(Context[class]) : Searched(id)[child] = NoCallbacks
  <1>1. PICK found : found = Searched(id) /\ found[class] = Finds(class, id, found)
    BY SearchEquation
  <1>2. Id[class] # id
    BY <1>1, ClassesAssumption DEF Finds
  <1>3. Direct(class, id) = 0
    <2> SUFFICES ASSUME Direct(class, id) # 0 PROVE FALSE
      OBVIOUS
    <2>1. found[class] = Context[class][Direct(class, id)]
      BY <1>1, <1>2 DEF Finds
    <2>2. found[class] \in Classes
      BY <2>1, DirectIs, ChildrenAre
    <2> QED
      BY <1>1, <2>2, ClassesAssumption
  <1>4. Onward(class, found) = 0
    <2> SUFFICES ASSUME Onward(class, found) # 0 PROVE FALSE
      OBVIOUS
    <2>1. found[class] = found[Context[class][Onward(class, found)]]
      BY <1>1, <1>2, <1>3 DEF Finds
    <2> QED
      BY <1>1, <2>1, OnwardIs
  <1>5. \A child \in Range(Context[class]) : child # class => found[child] = NoCallbacks
    BY <1>4, OnwardIs
  <1> QED
    BY <1>1, <1>2, <1>5

-----------------------------------------------------------------------------
(* What may lie in Base at any depth, by the depth it is looked at.        *)
Deeper(classes) == classes \cup UNION {Range(Context[class]) : class \in classes}

Reached ==
  CHOOSE reach : reach = [n \in 0 .. Cardinality(Classes) |->
                            IF n = 0 THEN {Base} ELSE Deeper(reach[n - 1])]

(* It is Base and, step by step, what may lie in what is reached.          *)
LEMMA ReachedEquation ==
  /\ Below = Reached[Cardinality(Classes)]
  /\ Cardinality(Classes) \in Nat
  /\ Reached[0] = {Base}
  /\ \A n \in 1 .. Cardinality(Classes) : Reached[n] = Deeper(Reached[n - 1])
  /\ \A n \in 0 .. Cardinality(Classes) : Reached[n] \in SUBSET Classes
  <1>1. PICK N \in Nat : N = Cardinality(Classes)
    BY SemanticsAssumption, FS_CardinalityType
  <1> DEFINE Solves(reach) ==
               reach = [n \in 0 .. N |-> IF n = 0 THEN {Base} ELSE Deeper(reach[n - 1])]
             T == SUBSET Classes
             step == [n \in 1 .. N |-> [classes \in T |-> Deeper(classes)]]
  <1>2. \A classes \in T : Deeper(classes) \in T
    <2> TAKE classes \in T
    <2>1. \A class \in classes : Range(Context[class]) \subseteq Classes
      BY ChildrenAre
    <2> QED
      BY <2>1 DEF Deeper
  <1>3. PICK f \in [0 .. N -> T] : Iterates(f, N, {Base}, step)
    <2>1. {Base} \in T
      BY ClassesAssumption
    <2>2. step \in [1 .. N -> [T -> T]]
      BY <1>2
    <2>3. PICK U, s : U = T /\ s = step
      OBVIOUS
    <2> HIDE DEF T, step
    <2>4. \E f \in [0 .. N -> U] : Iterates(f, N, {Base}, s)
      BY <2>1, <2>2, <2>3, PrimitiveRecursion
    <2> QED
      BY <2>3, <2>4
  <1>4. Solves(f)
    <2>1. f[0] = {Base} /\ \A n \in 1 .. N : f[n] = Deeper(f[n - 1])
      <3>1. f[0] = {Base} /\ \A n \in 1 .. N : f[n] = step[n][f[n - 1]]
        BY <1>3, Zenon DEF Iterates
      <3>2. ASSUME NEW n \in 1 .. N PROVE f[n] = Deeper(f[n - 1])
        <4>1. n - 1 \in 0 .. N
          OBVIOUS
        <4>2. f[n - 1] \in T
          BY <1>3, <4>1
        <4>3. step[n][f[n - 1]] = Deeper(f[n - 1])
          BY <4>2
        <4> QED
          BY <3>1, <4>3
      <3> QED
        BY <3>1, <3>2
    <2>2. \A n \in 0 .. N : f[n] = IF n = 0 THEN {Base} ELSE Deeper(f[n - 1])
      BY <2>1
    <2> QED
      BY <2>2
  <1>5. Below = Reached[N] /\ Reached = CHOOSE reach : Solves(reach)
    BY <1>1 DEF Below, Reached, Deeper
  <1>6. PICK r : r = Reached
    OBVIOUS
  <1>7. Solves(r)
    <2> HIDE DEF Solves
    <2> QED
      BY <1>4, <1>5, <1>6
  <1>8. r[0] = {Base} /\ \A n \in 1 .. N : r[n] = Deeper(r[n - 1])
    <2>1. \A n \in 0 .. N : r[n] = IF n = 0 THEN {Base} ELSE Deeper(r[n - 1])
      BY <1>7, Zenon
    <2>2. 0 \in 0 .. N /\ \A n \in 1 .. N : n \in 0 .. N /\ n # 0
      OBVIOUS
    <2> QED
      BY <2>1, <2>2
  <1> DEFINE S == {n \in Nat : n <= N => r[n] \in T}
  <1>9. 0 \in S
    BY <1>8, ClassesAssumption
  <1>10. ASSUME NEW n \in Nat, n \in S PROVE n + 1 \in S
    <2>1. CASE n + 1 <= N
      <3>1. n + 1 \in 1 .. N /\ (n + 1) - 1 = n
        BY <2>1
      <3>2. r[n + 1] = Deeper(r[n])
        BY <1>8, <3>1
      <3>3. r[n] \in T
        BY <1>10, <2>1
      <3> HIDE DEF T
      <3> QED
        BY <1>2, <3>2, <3>3
    <2> QED
      BY <2>1
  <1>11. Nat \subseteq S
    <2> HIDE DEF S
    <2> QED
      BY <1>9, <1>10, Induction
  <1>12. ASSUME NEW n \in 0 .. N PROVE r[n] \in SUBSET Classes
    <2>1. n \in S /\ n <= N
      BY <1>11
    <2> QED
      BY <2>1
  <1> QED
    BY <1>1, <1>5, <1>6, <1>8, <1>12

(* As many steps as there are classes reach everything: a step that adds   *)
(* nothing is the last.                                                    *)
LEMMA BelowIsAll ==
  /\ Below \in SUBSET Classes
  /\ Base \in Below
  /\ HoldsChildren(Below)
  /\ \A some : Base \in some /\ HoldsChildren(some) => Below \subseteq some
  <1>1. PICK N \in Nat : N = Cardinality(Classes)
    BY ReachedEquation
  <1>2. PICK r : r = Reached
    OBVIOUS
  <1>3. /\ Below = r[N] /\ r[0] = {Base}
        /\ \A n \in 1 .. N : r[n] = Deeper(r[n - 1])
        /\ \A n \in 0 .. N : r[n] \in SUBSET Classes
    BY <1>1, <1>2, ReachedEquation
  <1>4. \A n \in Nat : n + 1 <= N => r[n + 1] = Deeper(r[n])
    <2> TAKE n \in Nat
    <2> HAVE n + 1 <= N
    <2>1. n + 1 \in 1 .. N /\ (n + 1) - 1 = n
      OBVIOUS
    <2> QED
      BY <1>3, <2>1
  <1>5. \A classes : classes \subseteq Deeper(classes)
                     /\ (Deeper(classes) = classes => HoldsChildren(classes))
    BY DEF Deeper, HoldsChildren
  <1>6. \A n \in 0 .. N : IsFiniteSet(r[n]) /\ Cardinality(r[n]) \in Nat
                          /\ Cardinality(r[n]) <= N
    <2> TAKE n \in 0 .. N
    <2>1. PICK some \in SUBSET Classes : some = r[n]
      BY <1>3
    <2>2. IsFiniteSet(some) /\ Cardinality(some) <= Cardinality(Classes)
      BY SemanticsAssumption, FS_Subset
    <2>3. Cardinality(some) \in Nat
      BY <2>2, FS_CardinalityType
    <2> QED
      BY <1>1, <2>1, <2>2, <2>3
  <1> DEFINE S == {n \in Nat : n <= N => Base \in r[n] /\ (HoldsChildren(r[n]) \/ Cardinality(r[n]) > n)}
  <1>7. 0 \in S
    <2>1. r[0] # {} /\ Base \in r[0]
      BY <1>3
    <2>2. 0 \in 0 .. N
      OBVIOUS
    <2>3. Cardinality(r[0]) # 0
      BY <1>6, <2>1, <2>2, FS_EmptySet
    <2>4. Cardinality(r[0]) > 0
      BY <1>6, <2>2, <2>3
    <2> QED
      BY <2>1, <2>4
  <1>8. ASSUME NEW n \in Nat, n \in S PROVE n + 1 \in S
    <2> SUFFICES ASSUME n + 1 <= N
                 PROVE  Base \in r[n + 1] /\ (HoldsChildren(r[n + 1]) \/ Cardinality(r[n + 1]) > n + 1)
      OBVIOUS
    <2>1. r[n + 1] = Deeper(r[n]) /\ r[n] \subseteq r[n + 1]
      BY <1>4, <1>5
    <2>2. Base \in r[n] /\ (HoldsChildren(r[n]) \/ Cardinality(r[n]) > n)
      BY <1>8
    <2>3. CASE HoldsChildren(r[n])
      <3>1. Deeper(r[n]) = r[n]
        BY <2>3 DEF Deeper, HoldsChildren
      <3> QED
        BY <2>1, <2>2, <2>3, <3>1
    <2>4. CASE ~HoldsChildren(r[n])
      <3>1. r[n] # r[n + 1]
        BY <1>5, <2>1, <2>4
      <3>2. n \in 0 .. N /\ n + 1 \in 0 .. N
        OBVIOUS
      <3>3. Cardinality(r[n]) # Cardinality(r[n + 1]) /\ Cardinality(r[n]) <= Cardinality(r[n + 1])
        <4>1. PICK big, small : big = r[n + 1] /\ small = r[n] /\ small \in SUBSET big
          BY <2>1
        <4>2. IsFiniteSet(big)
          BY <1>6, <3>2, <4>1
        <4>3. Cardinality(small) <= Cardinality(big) /\ (Cardinality(big) = Cardinality(small) => big = small)
          BY <4>1, <4>2, FS_Subset
        <4> QED
          BY <3>1, <4>1, <4>3
      <3>4. Cardinality(r[n]) \in Nat /\ Cardinality(r[n + 1]) \in Nat
        BY <1>6, <3>2
      <3>5. Cardinality(r[n + 1]) > n + 1
        BY <2>2, <2>4, <3>3, <3>4
      <3> QED
        BY <2>1, <2>2, <3>5
    <2> QED
      BY <2>3, <2>4
  <1>9. Nat \subseteq S
    <2> HIDE DEF S
    <2> QED
      BY <1>7, <1>8, Induction
  <1>10. Base \in r[N] /\ HoldsChildren(r[N]) /\ r[N] \in SUBSET Classes
    <2>1. N \in S /\ N \in 0 .. N
      BY <1>9
    <2>2. Cardinality(r[N]) \in Nat /\ Cardinality(r[N]) <= N
      BY <1>6, <2>1
    <2> QED
      BY <1>3, <2>1, <2>2
  <1>11. ASSUME NEW some, Base \in some, HoldsChildren(some) PROVE r[N] \subseteq some
    <2> DEFINE I == {n \in Nat : n <= N => r[n] \subseteq some}
    <2>1. 0 \in I
      BY <1>3, <1>11
    <2>2. ASSUME NEW n \in Nat, n \in I PROVE n + 1 \in I
      <3> SUFFICES ASSUME n + 1 <= N PROVE r[n + 1] \subseteq some
        OBVIOUS
      <3>1. r[n + 1] = Deeper(r[n]) /\ r[n] \subseteq some
        BY <1>4, <2>2
      <3> QED
        BY <1>11, <3>1 DEF Deeper, HoldsChildren
    <2>3. Nat \subseteq I
      <3> HIDE DEF I
      <3> QED
        BY <2>1, <2>2, Induction
    <2> QED
      BY <2>3
  <1> QED
    BY <1>3, <1>10, <1>11

(* A search from Base answers with a class that has the ID and may lie in  *)
(* Base at some depth, and with nothing only when there is none.           *)
LEMMA SearchIsRight ==
  ASSUME NEW id
  PROVE  IF \E class \in Below : Id[class] = id
         THEN do_find_ebml_callbacks(Base, id) \in {class \in Below : Id[class] = id}
         ELSE do_find_ebml_callbacks(Base, id) = NoCallbacks
  <1>1. PICK found : found = do_find_ebml_callbacks(Base, id) /\ found = Searched(id)[Base]
    BY SearchIs
  <1>2. PICK inside \in SUBSET Classes : inside = Below /\ Base \in inside /\ HoldsChildren(inside)
    BY BelowIsAll
  <1>3. found # NoCallbacks => found \in inside /\ Id[found] = id
    BY <1>1, <1>2, SearchFindsInside
  <1>4. ASSUME found = NoCallbacks PROVE ~\E class \in Below : Id[class] = id
    <2> DEFINE fails == {class \in Classes : Searched(id)[class] = NoCallbacks}
    <2>1. Base \in fails
      BY <1>1, <1>4, ClassesAssumption
    <2>2. HoldsChildren(fails)
      BY SearchOverlooksNothing, ChildrenAre DEF HoldsChildren
    <2>3. Below \subseteq fails
      <3> HIDE DEF fails
      <3> QED
        BY <2>1, <2>2, BelowIsAll
    <2> QED
      BY <2>3, SearchOverlooksNothing
  <1> QED
    BY <1>1, <1>2, <1>3, <1>4

(* What the table answers has the ID asked for and may lie in a Segment,   *)
(* and whatever may lie there is found, at any depth and although the      *)
(* search does not go into a class that lies in itself.                    *)
THEOREM TableFindsWhatIsBelow == LookupSpec => []FindsWhatIsBelow
  <1>1. CacheIsTransparent => FindsWhatIsBelow
    BY SearchIsRight DEF CacheIsTransparent, FindsWhatIsBelow
  <1> QED
    BY <1>1, TableNeverStale, PTL

-----------------------------------------------------------------------------
(* The step of found_in at one element, as a function of what is found at  *)
(* the others.                                                             *)
FoundAt(l1, needle, haystack, found) ==
  \/ needle = haystack
  \/ \E child \in Children(l1, haystack) :
       needle = child \/ (IsMaster(l1, child) /\ found[child])

Searching(l1, needle) ==
  CHOOSE found : found = [haystack \in DOMAIN l1 |-> FoundAt(l1, needle, haystack, found)]

(* So the recursion of found_in has an end.                                *)
LEMMA SearchingEquation ==
  ASSUME NEW l1, IsTree(DOMAIN l1), NEW needle
  PROVE  \A at \in DOMAIN l1 : Searching(l1, needle)[at] = FoundAt(l1, needle, at, Searching(l1, needle))
  <1> DEFINE D == DOMAIN l1
             rank == [at \in D |-> Cardinality(FurtherIn(l1, at))]
             step == [at \in D |-> [found \in [D -> BOOLEAN] |-> FoundAt(l1, needle, at, found)]]
             Solves(found) == found = [at \in D |-> FoundAt(l1, needle, at, found)]
  <1>2. \A at \in D : Cardinality(FurtherIn(l1, at)) \in Nat
    BY DeeperThanChild
  <1>3. ASSUME NEW at \in D, NEW child \in Children(l1, at)
        PROVE  child \in D /\ rank[child] < rank[at]
    BY DeeperThanChild
  <1>4. LooksLower(D, BOOLEAN, rank, step)
    <2>1. rank \in [D -> Nat]
      BY <1>2
    <2>2. step \in [D -> [[D -> BOOLEAN] -> BOOLEAN]]
      BY DEF FoundAt
    <2>3. ASSUME NEW at \in D, NEW f \in [D -> BOOLEAN], NEW g \in [D -> BOOLEAN],
                 \A e \in D : rank[e] < rank[at] => f[e] = g[e]
          PROVE  step[at][f] = step[at][g]
      <3>1. \A child \in Children(l1, at) : f[child] = g[child]
        BY <1>3, <2>3
      <3>2. FoundAt(l1, needle, at, f) = FoundAt(l1, needle, at, g)
        BY <3>1 DEF FoundAt
      <3> QED
        BY <3>2
    <2> HIDE DEF D, rank, step
    <2> QED
      BY <2>1, <2>2, <2>3 DEF LooksLower
  <1>5. \E found : Solves(found)
    <2>1. PICK found \in [D -> BOOLEAN] : \A at \in D : found[at] = step[at][found]
      <3>1. PICK E, B : E = D /\ B = BOOLEAN
        OBVIOUS
      <3> HIDE DEF rank, step, D
      <3>2. LooksLower(E, B, rank, step) /\ B # {}
        BY <1>4, <3>1
      <3>3. \E found \in [E -> B] : \A at \in E : found[at] = step[at][found]
        BY <3>2, RecursionByRank
      <3> QED
        BY <3>1, <3>3
    <2>2. Solves(found)
      BY <2>1
    <2> QED
      BY <2>2
  <1>6. Solves(Searching(l1, needle))
    <2>1. Searching(l1, needle) = CHOOSE found : Solves(found)
      BY DEF Searching
    <2> HIDE DEF Solves
    <2> QED
      BY <1>5, <2>1
  <1> QED
    BY <1>6

(* Nothing is found but an element of the tree.                            *)
LEMMA FoundIsInTree ==
  ASSUME NEW l1, IsTree(DOMAIN l1), NEW needle, needle \notin DOMAIN l1, NEW at \in DOMAIN l1
  PROVE  ~Searching(l1, needle)[at]
  <1> DEFINE D == DOMAIN l1
             S == {n \in Nat : \A where \in D :
                     Cardinality(FurtherIn(l1, where)) < n => ~Searching(l1, needle)[where]}
  <1>1. \A where \in D : Cardinality(FurtherIn(l1, where)) \in Nat
    BY DeeperThanChild
  <1>2. 0 \in S
    BY <1>1
  <1>3. ASSUME NEW n \in Nat, n \in S PROVE n + 1 \in S
    <2> SUFFICES ASSUME NEW where \in D, Cardinality(FurtherIn(l1, where)) < n + 1
                 PROVE  ~Searching(l1, needle)[where]
      OBVIOUS
    <2>1. \A child \in Children(l1, where) :
            child \in D /\ Cardinality(FurtherIn(l1, child)) < Cardinality(FurtherIn(l1, where))
      BY DeeperThanChild
    <2>2. \A child \in Children(l1, where) : ~Searching(l1, needle)[child]
      BY <1>1, <1>3, <2>1
    <2>3. Searching(l1, needle)[where] = FoundAt(l1, needle, where, Searching(l1, needle))
      BY SearchingEquation
    <2> QED
      BY <2>1, <2>2, <2>3 DEF FoundAt
  <1>4. Nat \subseteq S
    <2> HIDE DEF S
    <2> QED
      BY <1>2, <1>3, Induction
  <1>5. PICK n \in Nat : n = Cardinality(FurtherIn(l1, at)) + 1 /\ Cardinality(FurtherIn(l1, at)) < n
    BY <1>1
  <1> QED
    BY <1>4, <1>5

(* An element of the tree is found from each element it lies in, the root  *)
(* at last.                                                                *)
LEMMA FoundFromTheRoot ==
  ASSUME NEW l1, IsTree(DOMAIN l1), NEW needle \in DOMAIN l1
  PROVE  Searching(l1, needle)[<<>>]
  <1>0. PICK N : N = Nat \ {0}
    OBVIOUS
  <1>1. needle \in Seq(N)
    <2>1. <<>> \in Seq(N)
      OBVIOUS
    <2> QED
      BY <1>0, <2>1 DEF IsTree
  <1>2. PICK m \in Nat : m = Len(needle)
    BY <1>1
  <1> DEFINE D == DOMAIN l1
             Around(k) == SubSeq(needle, 1, k)
             S == {n \in Nat : n <= m => Searching(l1, needle)[Around(m - n)]}
  <1>3. ASSUME NEW k \in 0 .. m
        PROVE  /\ Around(k) \in D
               /\ k > 0 => Around(k) \in Children(l1, Around(k - 1))
               /\ k < m => IsMaster(l1, Around(k))
    <2>1. \A n \in 0 .. m : Around(n) \in D /\ Len(Around(n)) = n
                              /\ (n > 0 => Front(Around(n)) = Around(n - 1))
      BY <1>1, <1>2, AroundInTree, PlacesAround
    <2>2. \A n \in 1 .. m : Around(n) # <<>>
      <3>1. Len(<<>>) = 0
        OBVIOUS
      <3> HIDE DEF Around
      <3>2. ASSUME NEW n \in 1 .. m PROVE Around(n) # <<>>
        <4>1. Len(Around(n)) = n /\ n # 0
          BY <2>1
        <4> QED
          BY <3>1, <4>1
      <3> QED
        BY <3>2
    <2> HIDE DEF Around, D
    <2>3. \A n \in 1 .. m : Around(n) \in Children(l1, Around(n - 1))
      BY <2>1, <2>2 DEF Children, D
    <2>4. k < m => Around(k + 1) \in Children(l1, Around(k))
      <3> HAVE k < m
      <3>1. PICK n \in 1 .. m : n = k + 1 /\ n - 1 = k
        BY <1>2
      <3> QED
        BY <2>3, <3>1
    <2>5. k > 0 => k \in 1 .. m
      BY <1>2
    <2> QED
      BY <2>1, <2>3, <2>4, <2>5 DEF IsMaster
  <1>4. 0 \in S
    <2>1. Around(m - 0) = needle
      BY <1>1, <1>2, PlacesAround
    <2>2. Searching(l1, needle)[needle] = FoundAt(l1, needle, needle, Searching(l1, needle))
      BY SearchingEquation
    <2> QED
      BY <2>1, <2>2 DEF FoundAt
  <1>5. ASSUME NEW n \in Nat, n \in S PROVE n + 1 \in S
    <2> SUFFICES ASSUME n + 1 <= m PROVE Searching(l1, needle)[Around(m - (n + 1))]
      OBVIOUS
    <2>1. PICK k \in 1 .. m : k = m - n /\ k - 1 = m - (n + 1)
      BY <1>2
    <2>2. Searching(l1, needle)[Around(k)]
      BY <1>5, <2>1
    <2>3. k \in 0 .. m /\ k - 1 \in 0 .. m /\ k > 0
      OBVIOUS
    <2>4. k = m => needle = Around(k)
      BY <1>1, <1>2, PlacesAround
    <2> HIDE DEF Around, S
    <2>5. Around(k - 1) \in D /\ Around(k) \in Children(l1, Around(k - 1))
          /\ (k < m => IsMaster(l1, Around(k)))
      BY <1>3, <2>3
    <2>6. FoundAt(l1, needle, Around(k - 1), Searching(l1, needle))
      BY <2>2, <2>4, <2>5 DEF FoundAt
    <2>7. Searching(l1, needle)[Around(k - 1)]
      BY <2>5, <2>6, SearchingEquation
    <2> QED
      BY <2>1, <2>7
  <1>6. Nat \subseteq S
    <2> HIDE DEF S
    <2> QED
      BY <1>4, <1>5, Induction
  <1>7. m - m = 0 /\ m <= m /\ Around(0) = <<>>
    BY <1>1, <1>2, PlacesAround
  <1> QED
    BY <1>2, <1>6, <1>7

(* found_in says of every pointer whether it points into the tree.         *)
LEMMA FoundIfOwned ==
  ASSUME NEW l1, IsTree(DOMAIN l1), NEW needle
  PROVE  found_in(l1, needle) <=> needle # Nullptr /\ needle \in DOMAIN l1
  <1>1. found_in(l1, needle) <=> needle # Nullptr /\ Searching(l1, needle)[<<>>]
    BY DEF found_in, Searching, FoundAt
  <1>2. <<>> \in DOMAIN l1
    BY DEF IsTree
  <1> QED
    BY <1>1, <1>2, FoundIsInTree, FoundFromTheRoot

(* What Read builds from a tree is a tree again.                           *)
LEMMA ReadIsTree ==
  ASSUME NEW raw, IsTree(DOMAIN raw), NEW callbacks
  PROVE  IsTree(DOMAIN Read(raw, callbacks))
  <1>1. PICK class : DOMAIN Read(raw, callbacks)
          = {at \in DOMAIN raw : \A n \in 0 .. Len(at) - 1 : class[SubSeq(at, 1, n)] # Dummy}
    BY DEF Read
  <1> DEFINE D == DOMAIN raw
             Kept(at) == \A n \in 0 .. Len(at) - 1 : class[SubSeq(at, 1, n)] # Dummy
             T == {at \in D : Kept(at)}
  <1>0. PICK N : N = Nat \ {0}
    OBVIOUS
  <1>2. <<>> \in T
    BY DEF IsTree
  <1>3. IsFiniteSet(T)
    BY FS_Subset DEF IsTree
  <1>4. ASSUME NEW at \in T \ {<<>>}
        PROVE  at \in Seq(Nat \ {0}) /\ Front(at) \in T
    <2>1. at \in Seq(N) /\ at \in D /\ Front(at) \in D
      BY <1>0 DEF IsTree
    <2>2. PICK m \in Nat : m = Len(at) /\ m > 0
      BY <2>1
    <2>3. Front(at) = SubSeq(at, 1, m - 1)
      BY <2>2 DEF Front
    <2>4. Front(at) \in Seq(N) /\ Len(Front(at)) = m - 1
          /\ \A n \in 0 .. m - 1 : SubSeq(Front(at), 1, n) = SubSeq(at, 1, n)
      BY <2>1, <2>2, <2>3, PlacesAround
    <2>5. \A n \in 0 .. m - 1 : class[SubSeq(at, 1, n)] # Dummy
      BY <2>2
    <2>6. Kept(Front(at))
      <3>1. PICK f : f = Front(at)
        OBVIOUS
      <3>2. 0 .. Len(f) - 1 \subseteq 0 .. m - 1
        BY <2>2, <2>4, <3>1
      <3>3. \A n \in 0 .. Len(f) - 1 : class[SubSeq(f, 1, n)] # Dummy
        BY <2>4, <2>5, <3>1, <3>2
      <3> QED
        BY <3>1, <3>3
    <2> HIDE DEF Kept
    <2> QED
      BY <1>0, <2>1, <2>6
  <1> HIDE DEF T
  <1>5. IsTree(T)
    BY <1>2, <1>3, <1>4 DEF IsTree
  <1> QED
    BY <1>1, <1>5 DEF T

-----------------------------------------------------------------------------
(* The level 1 elements of the files.                                      *)
Raws == UNION {Range(segment) : segment \in Files}

(* Whatever is left to read comes of a file.                               *)
FileInv == file \in Seq(Raws)

(* Each of them is a tree with a known ID.                                 *)
LEMMA RawsAre == \A raw \in Raws : IsTree(DOMAIN raw) /\ raw[<<>>].id \in Ids
  BY ElementsAssumption DEF Raws

(* At first there is nothing to read.                                      *)
LEMMA FileInitially == ReadInit => FileInv
  BY DEF ReadInit, FileInv

(* Reading leaves of the file what it had behind the element read, or      *)
(* behind one further on.                                                  *)
LEMMA FileKept == FileInv /\ [ReadNext]_readVars => FileInv'
  <1> SUFFICES ASSUME FileInv, [ReadNext]_readVars PROVE FileInv'
    OBVIOUS
  <1>1. ASSUME NEW segment \in Files, OpenSegment(segment) PROVE FileInv'
    <2>1. PICK S : S = Range(segment)
      OBVIOUS
    <2>2. segment \in Seq(S) /\ S \subseteq Raws
      BY <2>1, ElementsAssumption DEF Raws
    <2>3. segment \in Seq(Raws)
      BY <2>2
    <2> QED
      BY <1>1, <2>3 DEF OpenSegment, FileInv
  <1>2. CASE read_one_element
    <2>1. file # <<>> /\ file \in Seq(Raws)
      BY <1>2 DEF read_one_element, FileInv
    <2>2. CASE \E n \in 1 .. Len(file) : file' = SubSeq(file, n + 1, Len(file))
      <3>1. PICK n \in 1 .. Len(file) : file' = SubSeq(file, n + 1, Len(file))
        BY <2>2
      <3>2. \A i \in n + 1 .. Len(file) : file[i] \in Raws
        BY <2>1
      <3>3. SubSeq(file, n + 1, Len(file)) \in Seq(Raws)
        BY <2>1, <3>2
      <3> QED
        BY <3>1, <3>3 DEF FileInv
    <2>3. CASE file' = file \/ file' = Tail(file)
      BY <2>1, <2>3 DEF FileInv
    <2> QED
      BY <1>2, <2>2, <2>3 DEF read_one_element, ReadElement
  <1>3. CASE CloseSegment \/ UNCHANGED readVars
    BY <1>3 DEF CloseSegment, readVars, reading, FileInv
  <1> QED
    BY <1>1, <1>2, <1>3 DEF ReadNext

(* The element at the head of the file.                                    *)
LEMMA HeadIs ==
  ASSUME FileInv, file # <<>>
  PROVE  Head(file) \in Raws /\ IsTree(DOMAIN Head(file)) /\ Head(file)[<<>>].id \in Ids
  <1>1. Head(file) \in Raws
    BY DEF FileInv
  <1> QED
    BY <1>1, RawsAre

(* read_one_element uses the table as it is meant to be used: every lookup *)
(* is for one of the Ids, below the same base; nothing else, not even the  *)
(* end of a file, changes the table.                                       *)
LEMMA LookupStep == FileInv /\ [ReadNext]_readVars => [LookupNext]_s_cache
  <1> SUFFICES ASSUME FileInv, [ReadNext]_readVars PROVE [LookupNext]_s_cache
    OBVIOUS
  <1>1. CASE read_one_element
    <2>1. find_ebml_callbacks(Base, Head(file)[<<>>].id) /\ Head(file)[<<>>].id \in Ids
      BY <1>1, HeadIs DEF read_one_element
    <2>2. LookupNext
      BY <2>1 DEF LookupNext
    <2> QED
      BY <2>2
  <1>2. CASE (\E segment \in Files : OpenSegment(segment)) \/ CloseSegment \/ UNCHANGED readVars
    BY <1>2 DEF OpenSegment, CloseSegment, readVars
  <1> QED
    BY <1>1, <1>2 DEF ReadNext

(* Every step of the reading is a lookup from the same base, or none: what *)
(* is proved of such a caller of find_ebml_callbacks holds here.           *)
LEMMA ReadingImplementsLookup == ReadSpec => LookupSpec
  <1>1. ReadInit => LookupInit
    BY DEF ReadInit
  <1> QED
    BY <1>1, FileInitially, FileKept, LookupStep, PTL DEF ReadSpec, LookupSpec

(* So the table is never stale however many files were read before, and    *)
(* what may lie in a Segment is found.                                     *)
THEOREM TableServesReading == ReadSpec => [](CacheIsTransparent /\ FindsWhatIsBelow)
  BY ReadingImplementsLookup, TableNeverStale, TableFindsWhatIsBelow, PTL

-----------------------------------------------------------------------------
(* Which upper level element is deleted: the step of one Read.             *)
LEMMA DeletesUnowned ==
  ASSUME NEW l1, IsTree(DOMAIN l1), NEW upper \in UpperElements(l1)
  PROVE  /\ Deletes(l1, upper) => upper.l2 \notin DOMAIN l1
         /\ upper.l2 = Fresh => Deletes(l1, upper)
  <1>2. Fresh \notin DOMAIN l1 /\ Fresh # Nullptr
    <2>1. Fresh \in Seq(Nat) /\ Fresh # <<>> /\ Fresh[1] = 0 /\ Len(Fresh) = 2
      BY DEF Fresh
    <2>2. Fresh # Nullptr
      BY DEF Fresh, Nullptr
    <2>3. Fresh \notin Seq(Nat \ {0})
      BY <2>1
    <2>4. Fresh \notin DOMAIN l1
      BY <2>1, <2>3 DEF IsTree
    <2> QED
      BY <2>2, <2>4
  <1>3. Nullptr # <<>> /\ Fresh # <<>>
    BY DEF Nullptr, Fresh
  <1>4. upper.l2 = Fresh => upper.upper_lvl_el # 0
    BY <1>2, <1>3 DEF UpperElements
  <1>5. found_in(l1, upper.l2) <=> upper.l2 # Nullptr /\ upper.l2 \in DOMAIN l1
    BY FoundIfOwned
  <1> QED
    BY <1>2, <1>4, <1>5 DEF Deletes

(* An upper level element is deleted if and only if it lies in no tree, at *)
(* whatever depth libebml has put it, in files of any elements.            *)
THEOREM OwnershipRespected == ReadSpec => []DeletesWhatNobodyOwns
  <1>1. ReadInit => DeletesWhatNobodyOwns
    BY DEF ReadInit, NoUpper, DeletesWhatNobodyOwns
  <1>2. FileInv /\ DeletesWhatNobodyOwns /\ [ReadNext]_readVars => DeletesWhatNobodyOwns'
    <2> SUFFICES ASSUME FileInv, DeletesWhatNobodyOwns, [ReadNext]_readVars
                 PROVE  DeletesWhatNobodyOwns'
      OBVIOUS
    <2>1. CASE read_one_element
      <3>1. file # <<>> /\ ReadElement(Head(file))
        BY <2>1 DEF read_one_element
      <3>2. PICK callbacks :
              \E upper \in UpperElements(Read(Head(file), callbacks)) :
                heap' = [owned   |-> upper.l2 \in DOMAIN Read(Head(file), callbacks),
                         fresh   |-> upper.l2 = Fresh,
                         deleted |-> Deletes(Read(Head(file), callbacks), upper)]
        BY <3>1 DEF ReadElement
      <3>3. PICK l1 : l1 = Read(Head(file), callbacks)
        OBVIOUS
      <3>4. IsTree(DOMAIN l1)
        BY <3>1, <3>3, HeadIs, ReadIsTree
      <3>5. PICK upper \in UpperElements(l1) :
              heap' = [owned   |-> upper.l2 \in DOMAIN l1,
                       fresh   |-> upper.l2 = Fresh,
                       deleted |-> Deletes(l1, upper)]
        BY <3>2, <3>3
      <3>6. /\ heap'.owned = (upper.l2 \in DOMAIN l1)
            /\ heap'.fresh = (upper.l2 = Fresh)
            /\ heap'.deleted = Deletes(l1, upper)
        BY <3>5
      <3> QED
        BY <3>4, <3>6, DeletesUnowned DEF DeletesWhatNobodyOwns
    <2>2. CASE CloseSegment
      BY <2>2 DEF CloseSegment, NoUpper, DeletesWhatNobodyOwns
    <2>3. CASE (\E segment \in Files : OpenSegment(segment)) \/ UNCHANGED readVars
      BY <2>3 DEF OpenSegment, readVars, DeletesWhatNobodyOwns
    <2> QED
      BY <2>1, <2>2, <2>3 DEF ReadNext
  <1> QED
    BY <1>1, <1>2, FileInitially, FileKept, PTL DEF ReadSpec

-----------------------------------------------------------------------------
(* An element as a process would read it that has read nothing before.     *)
Semantics(id) == do_find_ebml_callbacks(Base, id)

ReadAlone(raw) ==
  Read(raw, IF Semantics(raw[<<>>].id) = NoCallbacks THEN Base ELSE Semantics(raw[<<>>].id))

(* Every element shown is read as if it were the first the process reads:  *)
(* what it holds does not depend on the elements, files and failures       *)
(* before it, although all of them have left their traces in the table.    *)
ReadsAlike ==
  /\ delivered \in Seq(Raws)
  /\ shown = [i \in DOMAIN delivered |-> ReadAlone(delivered[i])]

(* One more element is read alike.                                         *)
LEMMA OneMoreAlike ==
  ASSUME NEW raw \in Raws, ReadsAlike,
         shown' = Append(shown, ReadAlone(raw)), delivered' = Append(delivered, raw)
  PROVE  ReadsAlike'
  <1>1. PICK S : S = {ReadAlone(one) : one \in Raws}
    OBVIOUS
  <1>2. PICK n \in Nat : n = Len(delivered) /\ DOMAIN delivered = 1 .. n
    BY DEF ReadsAlike
  <1>3. /\ delivered \in Seq(Raws)
        /\ \A i \in 1 .. n : delivered[i] \in Raws
        /\ shown = [i \in 1 .. n |-> ReadAlone(delivered[i])]
    BY <1>2 DEF ReadsAlike
  <1>4. \A one \in Raws : ReadAlone(one) \in S
    BY <1>1
  <1>5. shown \in Seq(S) /\ Len(shown) = n
    BY <1>3, <1>4
  <1>6. PICK d \in Seq(Raws) : /\ d = Append(delivered, raw) /\ Len(d) = n + 1
                               /\ \A i \in 1 .. n : d[i] = delivered[i]
                               /\ d[n + 1] = raw
    <2>1. /\ Append(delivered, raw) \in Seq(Raws) /\ Len(Append(delivered, raw)) = n + 1
          /\ \A i \in 1 .. n : Append(delivered, raw)[i] = delivered[i]
          /\ Append(delivered, raw)[n + 1] = raw
      BY <1>2, <1>3, AppendProperties
    <2> QED
      BY <2>1
  <1>7. PICK x \in S : x = ReadAlone(raw)
    BY <1>4
  <1>8. PICK s \in Seq(S) : /\ s = Append(shown, x) /\ Len(s) = n + 1
                            /\ \A i \in 1 .. n : s[i] = shown[i]
                            /\ s[n + 1] = x
    <2>1. /\ Append(shown, x) \in Seq(S) /\ Len(Append(shown, x)) = n + 1
          /\ \A i \in 1 .. n : Append(shown, x)[i] = shown[i]
          /\ Append(shown, x)[n + 1] = x
      BY <1>5, AppendProperties
    <2> QED
      BY <2>1
  <1>9. \A i \in 1 .. n + 1 : s[i] = ReadAlone(d[i])
    <2>1. \A i \in 1 .. n : s[i] = ReadAlone(d[i])
      BY <1>3, <1>6, <1>8
    <2>2. s[n + 1] = ReadAlone(d[n + 1])
      BY <1>6, <1>7, <1>8
    <2>3. \A i \in 1 .. n + 1 : i \in 1 .. n \/ i = n + 1
      OBVIOUS
    <2> QED
      BY <2>1, <2>2, <2>3
  <1>10. DOMAIN d = 1 .. n + 1 /\ s = [i \in 1 .. n + 1 |-> s[i]]
    <2>1. d \in [1 .. Len(d) -> Raws] /\ s \in [1 .. Len(s) -> S]
      BY LenProperties
    <2>2. Len(d) = n + 1 /\ Len(s) = n + 1
      BY <1>6, <1>8
    <2>3. d \in [1 .. n + 1 -> Raws] /\ s \in [1 .. n + 1 -> S]
      BY <2>1, <2>2, Zenon
    <2> QED
      BY <2>3, Zenon
  <1>11. s = [i \in DOMAIN d |-> ReadAlone(d[i])]
    BY <1>9, <1>10
  <1>12. s = shown' /\ d = delivered'
    BY <1>6, <1>7, <1>8
  <1> QED
    BY <1>11, <1>12 DEF ReadsAlike

(* Whatever was read before, an element is read as it would be alone.      *)
THEOREM ReadingForgets == ReadSpec => []ReadsAlike
  <1>1. ReadInit => ReadsAlike
    BY DEF ReadInit, ReadsAlike
  <1>2. FileInv /\ CacheIsTransparent' /\ ReadsAlike /\ [ReadNext]_readVars => ReadsAlike'
    <2> SUFFICES ASSUME FileInv, CacheIsTransparent', ReadsAlike, [ReadNext]_readVars
                 PROVE  ReadsAlike'
      OBVIOUS
    <2>1. CASE read_one_element
      <3>1. PICK raw : raw = Head(file)
        OBVIOUS
      <3>2. raw \in Raws /\ find_ebml_callbacks(Base, raw[<<>>].id) /\ ReadElement(raw)
        BY <2>1, <3>1, HeadIs DEF read_one_element
      <3>3. s_cache'[raw[<<>>].id] = Semantics(raw[<<>>].id)
        <4>1. raw[<<>>].id \in DOMAIN s_cache'
          BY <3>2 DEF find_ebml_callbacks
        <4> QED
          BY <4>1 DEF CacheIsTransparent, Semantics
      <3>4. CASE shown' = Append(shown, ReadAlone(raw)) /\ delivered' = Append(delivered, raw)
        BY <3>2, <3>4, OneMoreAlike
      <3>5. CASE UNCHANGED <<shown, delivered>>
        BY <3>5 DEF ReadsAlike
      <3> QED
        BY <3>2, <3>3, <3>4, <3>5 DEF ReadElement, ReadAlone
    <2>2. CASE \E segment \in Files : OpenSegment(segment)
      BY <2>2 DEF OpenSegment, ReadsAlike
    <2>3. CASE CloseSegment \/ UNCHANGED readVars
      BY <2>3 DEF CloseSegment, readVars, reading, ReadsAlike
    <2> QED
      BY <2>1, <2>2, <2>3 DEF ReadNext
  <1> QED
    BY <1>1, <1>2, FileInitially, FileKept, TableServesReading, PTL DEF ReadSpec
=============================================================================
