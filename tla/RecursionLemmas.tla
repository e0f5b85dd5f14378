-------------------------- MODULE RecursionLemmas --------------------------
(***************************************************************************)
(* Induction and recursion over the natural numbers and over trees, stated *)
(* with sets and functions only, so that every step can be instantiated: a *)
(* recursive function stands for a CHOOSE, and to unfold it a solution of  *)
(* its equation has to exist.                                              *)
(***************************************************************************)
EXTENDS Integers, Trees, WellFoundedInduction, SequenceTheorems, FiniteSetTheorems, TLAPS

(* A set of natural numbers has a least element.                           *)
LEMMA LeastNatural ==
  ASSUME NEW S \in SUBSET Nat, S # {}
  PROVE  \E m \in S : \A n \in S : m <= n
  <1> DEFINE Less == OpToRel(<, Nat)
  <1>1. IsWellFoundedOn(Less, Nat)
    BY NatLessThanWellFounded
  <1>2. \A x, y \in Nat : x < y => <<x, y>> \in Less
    BY DEF OpToRel
  <1> HIDE DEF Less
  <1>3. PICK m \in S : \A n \in S : <<n, m>> \notin Less
    BY <1>1, WFMin, Zenon
  <1>4. \A n \in S : ~(n < m)
    BY <1>2, <1>3
  <1> QED
    BY <1>4

(* Induction, for the numbers a property holds of as a set.                *)
LEMMA Induction ==
  ASSUME NEW S, 0 \in S, \A n \in Nat : n \in S => n + 1 \in S
  PROVE  Nat \subseteq S
  <1> SUFFICES ASSUME Nat \ S # {} PROVE FALSE
    OBVIOUS
  <1>1. PICK m \in Nat \ S : \A n \in Nat \ S : m <= n
    BY LeastNatural
  <1>2. m - 1 \in Nat /\ m - 1 \in S
    BY <1>1
  <1> QED
    BY <1>2, <1>1

(* What stands at the right of the equation of a recursive function, as a  *)
(* function of the argument and of the whole function, looks at it only    *)
(* where the rank is lower.                                                *)
LooksLower(D, T, rank, step) ==
  /\ rank \in [D -> Nat]
  /\ step \in [D -> [[D -> T] -> T]]
  /\ \A d \in D : \A f, g \in [D -> T] :
       (\A e \in D : rank[e] < rank[d] => f[e] = g[e]) => step[d][f] = step[d][g]

(* A function whose value at d depends on its values at arguments of a     *)
(* lower rank only exists: its equation, with `step` for what stands on    *)
(* the right, has a solution.                                              *)
LEMMA RecursionByRank ==
  ASSUME NEW D, NEW T, T # {}, NEW rank, NEW step, LooksLower(D, T, rank, step)
  PROVE  \E f \in [D -> T] : \A d \in D : f[d] = step[d][f]
  <1> USE DEF LooksLower
  <1> DEFINE Solves(f, n) == \A d \in D : rank[d] < n => f[d] = step[d][f]
  <1>1. ASSUME NEW n \in Nat, NEW f \in [D -> T], Solves(f, n)
        PROVE  [d \in D |-> step[d][f]] \in [D -> T] /\ Solves([d \in D |-> step[d][f]], n + 1)
    <2> DEFINE g == [d \in D |-> step[d][f]]
    <2>1. g \in [D -> T]
      OBVIOUS
    <2>2. \A e \in D : rank[e] < n => g[e] = f[e]
      BY <1>1
    <2>3. ASSUME NEW d \in D, rank[d] < n + 1 PROVE g[d] = step[d][g]
      <3>1. \A e \in D : rank[e] < rank[d] => rank[e] < n
        BY <2>3
      <3>2. \A e \in D : rank[e] < rank[d] => f[e] = g[e]
        BY <2>2, <3>1
      <3>3. g[d] = step[d][f]
        OBVIOUS
      <3> HIDE DEF g
      <3> QED
        BY <2>1, <3>2, <3>3
    <2> QED
      BY <2>1, <2>3
  <1> DEFINE Solved == {n \in Nat : \E f \in [D -> T] : Solves(f, n)}
  <1>2. Nat \subseteq Solved
    <2>1. 0 \in Solved
      <3>1. PICK t \in T : TRUE
        OBVIOUS
      <3>2. [d \in D |-> t] \in [D -> T] /\ Solves([d \in D |-> t], 0)
        OBVIOUS
      <3> HIDE DEF Solves
      <3> QED
        BY <3>2
    <2>2. ASSUME NEW n \in Nat, n \in Solved PROVE n + 1 \in Solved
      <3> DEFINE NextOf(f) == [d \in D |-> step[d][f]]
      <3>1. \A f \in [D -> T] : Solves(f, n) =>
              NextOf(f) \in [D -> T] /\ Solves(NextOf(f), n + 1)
        BY <1>1, Zenon
      <3> HIDE DEF Solves, NextOf
      <3>2. PICK f \in [D -> T] : Solves(f, n)
        BY <2>2
      <3>3. n + 1 \in Nat
        OBVIOUS
      <3> QED
        BY <3>1, <3>2, <3>3
    <2> HIDE DEF Solved
    <2> QED
      BY <2>1, <2>2, Induction
  <1> DEFINE Same(n) == \A f, g \in [D -> T] : Solves(f, n) /\ Solves(g, n) =>
                          \A d \in D : rank[d] < n => f[d] = g[d]
             Determined == {n \in Nat : Same(n)}
  <1>3. Nat \subseteq Determined
    <2>1. 0 \in Determined
      OBVIOUS
    <2>2. ASSUME NEW n \in Nat, Same(n) PROVE Same(n + 1)
      <3> SUFFICES ASSUME NEW f \in [D -> T], NEW g \in [D -> T],
                          Solves(f, n + 1), Solves(g, n + 1),
                          NEW d \in D, rank[d] < n + 1
                   PROVE  f[d] = g[d]
        OBVIOUS
      <3>1. Solves(f, n) /\ Solves(g, n)
        OBVIOUS
      <3>2. \A e \in D : rank[e] < n => f[e] = g[e]
        <4> HIDE DEF Solves
        <4> QED
          BY <2>2, <3>1
      <3>3. \A e \in D : rank[e] < rank[d] => f[e] = g[e]
        BY <3>2
      <3>4. step[d][f] = step[d][g]
        BY <3>3
      <3> QED
        BY <3>4
    <2> HIDE DEF Same
    <2>3. \A n \in Nat : n \in Determined => n + 1 \in Determined
      BY <2>2
    <2> HIDE DEF Determined
    <2> QED
      BY <2>1, <2>3, Induction
  <1> DEFINE Approx(n) == CHOOSE f \in [D -> T] : Solves(f, n)
             limit == [d \in D |-> Approx(rank[d] + 1)[d]]
  <1>4. \A n \in Nat : Approx(n) \in [D -> T] /\ Solves(Approx(n), n)
    <2> HIDE DEF Solves
    <2> QED
      BY <1>2
  <1>5. limit \in [D -> T]
    <2>1. \A d \in D : rank[d] + 1 \in Nat
      OBVIOUS
    <2> HIDE DEF Approx, Solves
    <2> QED
      BY <1>4, <2>1
  <1>6. ASSUME NEW n \in Nat, NEW e \in D, rank[e] < n PROVE limit[e] = Approx(n)[e]
    <2>1. Solves(Approx(n), rank[e] + 1)
      <3>1. Solves(Approx(n), n) /\ rank[e] \in Nat
        BY <1>4
      <3> HIDE DEF Approx
      <3> QED
        BY <1>6, <3>1
    <2>2. rank[e] + 1 \in Nat /\ rank[e] < rank[e] + 1
      OBVIOUS
    <2>3. Same(rank[e] + 1)
      <3> HIDE DEF Same
      <3> QED
        BY <1>3, <2>2
    <2>4. limit[e] = Approx(rank[e] + 1)[e]
      OBVIOUS
    <2> HIDE DEF Approx, Solves, limit
    <2> QED
      BY <1>4, <2>1, <2>2, <2>3, <2>4
  <1>7. ASSUME NEW d \in D PROVE limit[d] = step[d][limit]
    <2> DEFINE n == rank[d] + 1
    <2>1. n \in Nat /\ rank[d] < n /\ \A e \in D : rank[e] < rank[d] => rank[e] < n
      OBVIOUS
    <2>2. Approx(n) \in [D -> T] /\ Approx(n)[d] = step[d][Approx(n)]
      <3>1. Approx(n) \in [D -> T] /\ Solves(Approx(n), n)
        <4> HIDE DEF Approx, Solves
        <4> QED
          BY <1>4, <2>1
      <3> HIDE DEF Approx, n
      <3> QED
        BY <2>1, <3>1
    <2>3. limit[d] = Approx(n)[d] /\ \A e \in D : rank[e] < rank[d] => limit[e] = Approx(n)[e]
      <3> HIDE DEF limit, Approx, n
      <3> QED
        BY <1>6, <2>1
    <2> HIDE DEF limit, Approx, n
    <2>4. step[d][limit] = step[d][Approx(n)]
      BY <1>5, <2>2, <2>3
    <2> QED
      BY <2>2, <2>3, <2>4
  <1> HIDE DEF limit
  <1> QED
    BY <1>5, <1>7

(* The same for a sequence of values, each made of the one before.         *)
Iterates(f, n, first, step) ==
  f[0] = first /\ \A i \in 1 .. n : f[i] = step[i][f[i - 1]]

(* Such a sequence exists.                                                 *)
LEMMA PrimitiveRecursion ==
  ASSUME NEW n \in Nat, NEW T, NEW first \in T, NEW step \in [1 .. n -> [T -> T]]
  PROVE  \E f \in [0 .. n -> T] : Iterates(f, n, first, step)
  <1> DEFINE D == 0 .. n
             rank == [i \in D |-> i]
             whole == [i \in D |-> [f \in [D -> T] |->
                         IF i = 0 THEN first ELSE step[i][f[i - 1]]]]
  <1>1. \A i \in D : i # 0 => i \in 1 .. n /\ i - 1 \in D /\ i - 1 < i
    OBVIOUS
  <1>2. whole \in [D -> [[D -> T] -> T]]
    <2> HIDE DEF D
    <2>1. \A i \in D : \A f \in [D -> T] :
            (IF i = 0 THEN first ELSE step[i][f[i - 1]]) \in T
      BY <1>1
    <2> QED
      BY <2>1
  <1>3. \A i \in D : \A f, g \in [D -> T] :
          (\A e \in D : rank[e] < rank[i] => f[e] = g[e]) => whole[i][f] = whole[i][g]
    <2> HIDE DEF D
    <2> SUFFICES ASSUME NEW i \in D, NEW f \in [D -> T], NEW g \in [D -> T],
                        \A e \in D : rank[e] < rank[i] => f[e] = g[e]
                 PROVE  whole[i][f] = whole[i][g]
      OBVIOUS
    <2>1. i # 0 => f[i - 1] = g[i - 1]
      BY <1>1
    <2> QED
      BY <2>1
  <1>4. LooksLower(D, T, rank, whole)
    BY <1>2, <1>3 DEF LooksLower
  <1>5. PICK f \in [D -> T] : \A i \in D : f[i] = whole[i][f]
    <2> HIDE DEF D, rank, whole
    <2> QED
      BY <1>4, RecursionByRank
  <1>6. Iterates(f, n, first, step)
    BY <1>5 DEF Iterates
  <1> QED
    BY <1>5, <1>6

-----------------------------------------------------------------------------
(* Trees                                                                   *)

(* Where the place of a child's parent, and of what is around it, is.      *)
LEMMA PlacesAround ==
  ASSUME NEW S, NEW at \in Seq(S), NEW k \in 0 .. Len(at)
  PROVE  /\ SubSeq(at, 1, k) \in Seq(S)
         /\ Len(SubSeq(at, 1, k)) = k
         /\ k > 0 => Front(SubSeq(at, 1, k)) = SubSeq(at, 1, k - 1)
         /\ \A n \in 0 .. k : SubSeq(SubSeq(at, 1, k), 1, n) = SubSeq(at, 1, n)
         /\ k = 0 => SubSeq(at, 1, k) = <<>>
         /\ k = Len(at) => SubSeq(at, 1, k) = at
  <1>1. Len(at) \in Nat /\ \A i \in 1 .. Len(at) : at[i] \in S
    OBVIOUS
  <1>2. \A n \in 0 .. Len(at) :
          SubSeq(at, 1, n) \in Seq(S) /\ SubSeq(at, 1, n) = [i \in 1 .. n |-> at[i]]
           /\ Len(SubSeq(at, 1, n)) = n
    BY <1>1
  <1>3. ASSUME NEW n \in 0 .. k PROVE SubSeq(SubSeq(at, 1, k), 1, n) = SubSeq(at, 1, n)
    <2>1. PICK s \in Seq(S) : s = SubSeq(at, 1, k) /\ Len(s) = k /\ s = [i \in 1 .. k |-> at[i]]
      BY <1>2
    <2>2. SubSeq(s, 1, n) = [i \in 1 .. n |-> s[i]]
      BY <2>1
    <2>3. \A i \in 1 .. n : s[i] = at[i]
      BY <2>1
    <2>4. n \in 0 .. Len(at)
      BY <1>1
    <2> QED
      BY <1>2, <2>1, <2>2, <2>3, <2>4
  <1>4. k > 0 => Front(SubSeq(at, 1, k)) = SubSeq(at, 1, k - 1)
    <2> HAVE k > 0
    <2>1. k - 1 \in 0 .. k
      BY <1>1
    <2> QED
      BY <1>2, <1>3, <2>1 DEF Front
  <1>5. k = Len(at) => SubSeq(at, 1, k) = at
    BY <1>1, <1>2
  <1>6. k = 0 => SubSeq(at, 1, k) = <<>>
    BY <1>2
  <1> QED
    BY <1>2, <1>3, <1>4, <1>5, <1>6

(* All elements around one are in the tree.                                *)
LEMMA AroundInTree ==
  ASSUME NEW D, IsTree(D), NEW at \in D, NEW k \in 0 .. Len(at)
  PROVE  at \in Seq(Nat \ {0}) /\ SubSeq(at, 1, k) \in D
  <1>0. PICK N : N = Nat \ {0}
    OBVIOUS
  <1>1. at \in Seq(N)
    <2>1. <<>> \in Seq(N)
      OBVIOUS
    <2> QED
      BY <1>0, <2>1 DEF IsTree
  <1>2. PICK m \in Nat : m = Len(at)
    BY <1>1
  <1> DEFINE S == {n \in Nat : n <= m => SubSeq(at, 1, m - n) \in D}
  <1>3. 0 \in S
    <2>1. SubSeq(at, 1, m) = at
      BY <1>1, <1>2, PlacesAround
    <2>2. m - 0 = m
      OBVIOUS
    <2> QED
      BY <2>1, <2>2
  <1>4. ASSUME NEW n \in Nat, n \in S PROVE n + 1 \in S
    <2> SUFFICES ASSUME n + 1 <= m PROVE SubSeq(at, 1, m - (n + 1)) \in D
      OBVIOUS
    <2>1. PICK p \in 1 .. m : p = m - n /\ p - 1 = m - (n + 1)
      BY <1>2
    <2>2. SubSeq(at, 1, p) \in D
      BY <1>4, <2>1
    <2>3. Len(SubSeq(at, 1, p)) = p /\ Front(SubSeq(at, 1, p)) = SubSeq(at, 1, p - 1)
      BY <1>1, <1>2, PlacesAround
    <2>4. SubSeq(at, 1, p) # <<>>
      <3>1. PICK q : q = SubSeq(at, 1, p)
        OBVIOUS
      <3>2. Len(q) = p /\ p # 0
        BY <2>3, <3>1
      <3>3. q # <<>>
        BY <3>2
      <3> QED
        BY <3>1, <3>3
    <2> QED
      BY <2>1, <2>2, <2>3, <2>4 DEF IsTree
  <1>5. Nat \subseteq S
    <2> HIDE DEF S
    <2> QED
      BY <1>3, <1>4, Induction
  <1>6. m - k \in Nat /\ m - k <= m /\ m - (m - k) = k
    BY <1>2
  <1> QED
    BY <1>0, <1>1, <1>5, <1>6

(* A child lies one place further down than its parent.                    *)
LEMMA ChildIs ==
  ASSUME NEW tree, IsTree(DOMAIN tree), NEW at \in DOMAIN tree, NEW child \in Children(tree, at)
  PROVE  child \in DOMAIN tree /\ Len(at) \in Nat /\ Len(child) = Len(at) + 1
  <1>0. PICK N : N = Nat \ {0}
    OBVIOUS
  <1>1. child \in DOMAIN tree /\ child # <<>> /\ Front(child) = at
    BY DEF Children
  <1>2. child \in Seq(N)
    BY <1>0, <1>1 DEF IsTree
  <1>3. Len(child) \in Nat /\ Len(child) # 0
    BY <1>1, <1>2
  <1>4. PICK m \in 1 .. Len(child) : m = Len(child)
    BY <1>3
  <1>5. Len(SubSeq(child, 1, m - 1)) = m - 1
    BY <1>2, <1>3, <1>4, PlacesAround
  <1>6. Len(at) = m - 1
    BY <1>1, <1>4, <1>5 DEF Front
  <1> QED
    BY <1>1, <1>3, <1>4, <1>6

(* Below a child there are less elements further down than below its       *)
(* parent.                                                                 *)
FurtherIn(tree, at) == {other \in DOMAIN tree : Len(other) > Len(at)}

LEMMA DeeperThanChild ==
  ASSUME NEW tree, IsTree(DOMAIN tree), NEW at \in DOMAIN tree
  PROVE  /\ Cardinality(FurtherIn(tree, at)) \in Nat
         /\ \A child \in Children(tree, at) :
              child \in DOMAIN tree /\ Cardinality(FurtherIn(tree, child)) < Cardinality(FurtherIn(tree, at))
  <1>1. \A place \in DOMAIN tree :
          IsFiniteSet(FurtherIn(tree, place)) /\ Cardinality(FurtherIn(tree, place)) \in Nat
    BY FS_Subset, FS_CardinalityType DEF IsTree, FurtherIn
  <1>2. ASSUME NEW child \in Children(tree, at)
        PROVE  child \in DOMAIN tree /\ Cardinality(FurtherIn(tree, child)) < Cardinality(FurtherIn(tree, at))
    <2>1. child \in DOMAIN tree /\ Len(at) \in Nat /\ Len(child) = Len(at) + 1
      BY ChildIs
    <2>2. \A other \in DOMAIN tree : Len(other) \in Nat
      <3>1. <<>> \in Seq(Nat)
        OBVIOUS
      <3>2. \A other \in DOMAIN tree : other \in Seq(Nat \ {0}) \/ other = <<>>
        BY DEF IsTree
      <3> QED
        BY <3>1, <3>2
    <2>3. PICK E, F : E = FurtherIn(tree, child) /\ F = FurtherIn(tree, at)
      OBVIOUS
    <2>4. E \subseteq F /\ child \in F \ E
      BY <2>1, <2>2, <2>3 DEF FurtherIn
    <2>5. IsFiniteSet(F) /\ E \in SUBSET F /\ E # F
      BY <1>1, <2>3, <2>4
    <2>6. Cardinality(E) <= Cardinality(F) /\ Cardinality(E) # Cardinality(F)
      BY <2>5, FS_Subset
    <2>7. Cardinality(E) \in Nat /\ Cardinality(F) \in Nat
      BY <1>1, <2>1, <2>3
    <2> QED
      BY <2>1, <2>3, <2>6, <2>7
  <1> QED
    BY <1>1, <1>2

(* The place of a child, and its parent's.                                 *)
LEMMA FrontOfAppend ==
  ASSUME NEW S, NEW f \in Seq(S), NEW i \in S
  PROVE  /\ Append(f, i) \in Seq(S)
         /\ Len(Append(f, i)) = Len(f) + 1
         /\ Front(Append(f, i)) = f
  <1>1. PICK s \in Seq(S) : s = Append(f, i) /\ Len(s) = Len(f) + 1
                             /\ \A j \in 1 .. Len(f) : s[j] = f[j]
    <2>1. Append(f, i) \in Seq(S) /\ Len(Append(f, i)) = Len(f) + 1
      BY AppendProperties
    <2>2. \A j \in 1 .. Len(f) : Append(f, i)[j] = f[j]
      BY AppendProperties
    <2> QED
      BY <2>1, <2>2
  <1>2. PICK m \in Nat : m = Len(f)
    OBVIOUS
  <1>3. SubSeq(s, 1, m) = [j \in 1 .. m |-> s[j]] /\ f = [j \in 1 .. m |-> f[j]]
    BY <1>1, <1>2
  <1>4. Front(s) = f
    BY <1>1, <1>2, <1>3 DEF Front
  <1> QED
    BY <1>1, <1>4

(* Induction over a tree, from the leaves up.                              *)
LEMMA TreeInduction ==
  ASSUME NEW tree, IsTree(DOMAIN tree), NEW S,
         \A at \in DOMAIN tree : (\A child \in Children(tree, at) : child \in S) => at \in S
  PROVE  DOMAIN tree \subseteq S
  <1> DEFINE Rank(at) == Cardinality(FurtherIn(tree, at))
             Known == {n \in Nat : \A at \in DOMAIN tree : Rank(at) < n => at \in S}
  <1>1. \A at \in DOMAIN tree :
          /\ Rank(at) \in Nat
          /\ \A child \in Children(tree, at) : child \in DOMAIN tree /\ Rank(child) < Rank(at)
    BY DeeperThanChild
  <1> HIDE DEF Rank
  <1>2. 0 \in Known
    BY <1>1
  <1>3. ASSUME NEW n \in Nat, n \in Known PROVE n + 1 \in Known
    <2>1. ASSUME NEW at \in DOMAIN tree, Rank(at) < n + 1 PROVE at \in S
      <3>1. ASSUME NEW child \in Children(tree, at) PROVE child \in S
        <4>1. child \in DOMAIN tree /\ Rank(child) \in Nat /\ Rank(child) < Rank(at) /\ Rank(at) \in Nat
          BY <1>1
        <4>2. Rank(child) < n
          BY <2>1, <4>1
        <4> QED
          BY <1>3, <4>1, <4>2
      <3> QED
        BY <3>1
    <2> QED
      BY <2>1
  <1>4. Nat \subseteq Known
    <2> HIDE DEF Known
    <2> QED
      BY <1>2, <1>3, Induction
  <1>5. ASSUME NEW at \in DOMAIN tree PROVE at \in S
    <2>1. Rank(at) + 1 \in Nat /\ Rank(at) < Rank(at) + 1
      BY <1>1
    <2> QED
      BY <1>4, <2>1
  <1> QED
    BY <1>5
=============================================================================
