--------------------------- MODULE XmlJsonProofs ---------------------------
(***************************************************************************)
(* Proofs about xmlToJsonObject and recursiveIteration, for all documents  *)
(* whose texts are in nodes without children.                              *)
(***************************************************************************)
EXTENDS XmlJson, RecursionLemmas

IsDocument(xml) ==
  /\ IsTree(DOMAIN xml)
  /\ \A at \in DOMAIN xml : xml[at].text # NoText => Children(xml, at) = {}

-----------------------------------------------------------------------------
(* Ways                                                                    *)

(* What is in front of the last of a sequence, and the last.               *)
LEMMA FrontAndLast ==
  ASSUME NEW S, NEW s \in Seq(S), s # <<>>
  PROVE  /\ Len(s) \in Nat \ {0}
         /\ Front(s) \in Seq(S)
         /\ Len(Front(s)) = Len(s) - 1
         /\ \A k \in 1 .. Len(s) - 1 : Front(s)[k] = s[k]
         /\ Last(s) \in S
         /\ s = Append(Front(s), Last(s))
  <1>1. Len(s) \in Nat \ {0}
    BY EmptySeq
  <1>2. PICK m \in Nat : m + 1 = Len(s) /\ m = Len(s) - 1
    <2>1. Len(s) - 1 \in Nat /\ (Len(s) - 1) + 1 = Len(s)
      BY <1>1
    <2> QED
      BY <2>1
  <1>3. PICK last \in S : last = Last(s)
    <2>1. Len(s) \in 1 .. Len(s)
      BY <1>1
    <2> QED
      BY <2>1, ElementOfSeq DEF Last
  <1>4. PICK f \in Seq(S) : f = SubSeq(s, 1, m) /\ Len(f) = m /\ \A k \in 1 .. m : f[k] = s[k]
    <2>1. \A k \in 1 .. m : s[k] \in S
      BY <1>1, <1>2, ElementOfSeq
    <2>2. SubSeq(s, 1, m) \in Seq(S) /\ Len(SubSeq(s, 1, m)) = m
      BY <1>2, <2>1, SubSeqProperties
    <2>3. \A k \in 1 .. m : SubSeq(s, 1, m)[k] = s[k]
      BY <1>2, <2>1, SubSeqProperties
    <2> QED
      BY <2>2, <2>3
  <1>5. PICK a \in Seq(S) : a = Append(f, last) /\ Len(a) = m + 1 /\ a[m + 1] = last
                             /\ \A k \in 1 .. m : a[k] = f[k]
    <2>1. Append(f, last) \in Seq(S) /\ Len(Append(f, last)) = Len(f) + 1
      BY AppendProperties
    <2>2. Append(f, last)[Len(f) + 1] = last /\ \A k \in 1 .. Len(f) : Append(f, last)[k] = f[k]
      BY AppendProperties
    <2> QED
      BY <1>4, <2>1, <2>2
  <1>6. \A k \in 1 .. Len(s) : s[k] = a[k]
    <2>1. \A k \in 1 .. m + 1 : k \in 1 .. m \/ k = m + 1
      OBVIOUS
    <2> QED
      BY <1>2, <1>3, <1>4, <1>5, <2>1 DEF Last
  <1>7. s = a
    BY <1>2, <1>5, <1>6, SeqEqual
  <1>8. Front(s) = f
    BY <1>2, <1>4 DEF Front
  <1> QED
    BY <1>1, <1>2, <1>3, <1>4, <1>5, <1>7, <1>8

(* And the other way round.                                                *)
LEMMA AppendIs ==
  ASSUME NEW S, NEW f \in Seq(S), NEW e \in S
  PROVE  /\ Append(f, e) \in Seq(S)
         /\ Append(f, e) # <<>>
         /\ Len(Append(f, e)) = Len(f) + 1
         /\ Front(Append(f, e)) = f
         /\ Last(Append(f, e)) = e
  <1>1. PICK n \in Nat : n = Len(f)
    BY LenProperties
  <1>2. PICK a \in Seq(S) : a = Append(f, e) /\ Len(a) = n + 1 /\ a[n + 1] = e
    <2>1. Append(f, e) \in Seq(S) /\ Len(Append(f, e)) = Len(f) + 1
      BY AppendProperties
    <2>2. Append(f, e)[Len(f) + 1] = e
      BY AppendProperties
    <2> QED
      BY <1>1, <2>1, <2>2
  <1>3. a # <<>>
    BY <1>2
  <1>4. Front(a) = f
    BY <1>2, FrontOfAppend
  <1> QED
    BY <1>1, <1>2, <1>3, <1>4 DEF Last

(* Keys with numbers, whatever the number.                                 *)
AreSteps(S) ==
  \A s \in S : s = <<s[1], s[2]>> /\ \A i \in Nat : <<s[1], i>> \in S

(* What Item changes.                                                      *)
LEMMA ItemIs ==
  ASSUME NEW S, AreSteps(S), NEW way \in Seq(S), way # <<>>, NEW i \in Nat
  PROVE  /\ Item(way, i) \in Seq(S)
         /\ Len(Item(way, i)) = Len(way)
         /\ Item(way, i) # <<>>
         /\ Front(Item(way, i)) = Front(way)
         /\ Last(Item(way, i)) = <<Last(way)[1], i>>
         /\ \A j \in Nat : Item(Item(way, i), j) = Item(way, j)
         /\ Last(way)[2] = i => Item(way, i) = way
  <1>1. PICK f \in Seq(S), s \in S : /\ f = Front(way) /\ s = Last(way)
                                     /\ way = Append(f, s) /\ Len(way) = Len(f) + 1
    <2>1. Front(way) \in Seq(S) /\ Last(way) \in S /\ way = Append(Front(way), Last(way))
      BY FrontAndLast
    <2>2. Len(way) \in Nat /\ Len(Front(way)) = Len(way) - 1
      BY FrontAndLast
    <2> QED
      BY <2>1, <2>2
  <1>2. s = <<s[1], s[2]>> /\ \A j \in Nat : <<s[1], j>> \in S
    BY DEF AreSteps
  <1>3. Item(way, i) = Append(f, <<s[1], i>>)
    BY <1>1 DEF Item
  <1>4. /\ Item(way, i) \in Seq(S) /\ Item(way, i) # <<>> /\ Len(Item(way, i)) = Len(way)
        /\ Front(Item(way, i)) = f /\ Last(Item(way, i)) = <<s[1], i>>
    BY <1>1, <1>2, <1>3, AppendIs
  <1>5. ASSUME NEW j \in Nat PROVE Item(Item(way, i), j) = Item(way, j)
    <2>1. <<s[1], i>>[1] = s[1]
      OBVIOUS
    <2> QED
      BY <1>1, <1>4, <2>1 DEF Item
  <1>6. s[2] = i => Item(way, i) = way
    BY <1>1, <1>2, <1>3
  <1> QED
    BY <1>1, <1>4, <1>5, <1>6

(* A step more at the front.                                               *)
Under(s, way) == <<s>> \o way

(* What it changes.                                                        *)
LEMMA PrependIs ==
  ASSUME NEW S, AreSteps(S), NEW s \in S, NEW way \in Seq(S)
  PROVE  /\ Under(s, way) \in Seq(S)
         /\ Len(Under(s, way)) = Len(way) + 1
         /\ Under(s, way) # <<>>
         /\ Under(s, way)[1] = s
         /\ \A k \in 1 .. Len(way) : Under(s, way)[k + 1] = way[k]
         /\ Tail(Under(s, way)) = way
  <1>1. PICK n \in Nat : n = Len(way)
    BY LenProperties
  <1>2. ASSUME NEW w \in Seq(S)
        PROVE  /\ Under(s, w) \in Seq(S)
               /\ Len(Under(s, w)) = Len(w) + 1
               /\ Under(s, w)[1] = s
               /\ \A k \in 1 .. Len(w) : Under(s, w)[k + 1] = w[k]
               /\ Under(s, w) # <<>>
    <2>1. PICK o : o = <<s>> /\ Under(s, w) = o \o w
      BY DEF Under
    <2>2. o \in Seq(S) /\ Len(o) = 1 /\ o[1] = s
      BY <2>1
    <2>3. Len(w) \in Nat
      BY LenProperties
    <2>4. o \o w \in Seq(S) /\ Len(o \o w) = 1 + Len(w)
      <3>1. o \o w \in Seq(S) /\ Len(o \o w) = Len(o) + Len(w)
        BY <2>2, ConcatProperties
      <3> QED
        BY <2>2, <3>1
    <2>5. \A i \in 1 .. 1 + Len(w) : (o \o w)[i] = IF i <= 1 THEN o[i] ELSE w[i - 1]
      <3>1. \A i \in 1 .. Len(o) + Len(w) :
              (o \o w)[i] = IF i <= Len(o) THEN o[i] ELSE w[i - Len(o)]
        BY <2>2, ConcatProperties
      <3> QED
        BY <2>2, <3>1
    <2>6. (o \o w)[1] = s
      BY <2>2, <2>3, <2>5
    <2>7. \A k \in 1 .. Len(w) : (o \o w)[k + 1] = w[k]
      <3> TAKE k \in 1 .. Len(w)
      <3>1. k + 1 \in 1 .. 1 + Len(w) /\ ~(k + 1 <= 1) /\ (k + 1) - 1 = k
        BY <2>3
      <3> QED
        BY <2>5, <3>1
    <2>8. PICK v \in Seq(S) : v = o \o w /\ Len(v) = 1 + Len(w)
      BY <2>4
    <2>9. v # <<>>
      BY <2>3, <2>8
    <2> QED
      BY <2>1, <2>3, <2>4, <2>6, <2>7, <2>8, <2>9
  <1>3. PICK v \in Seq(S) : v = Under(s, way) /\ Len(v) = n + 1 /\ v # <<>> /\ v[1] = s
                             /\ \A k \in 1 .. n : v[k + 1] = way[k]
    BY <1>1, <1>2
  <1>4. Tail(v) = way
    <2>1. Tail(v) \in Seq(S) /\ Len(Tail(v)) = n
      BY <1>1, <1>3, HeadTailProperties
    <2>2. \A k \in 1 .. n : Tail(v)[k] = v[k + 1]
      BY <1>1, <1>3, HeadTailProperties
    <2> QED
      BY <1>1, <1>3, <2>1, <2>2, SeqEqual
  <1> QED
    BY <1>1, <1>2, <1>3, <1>4

(* Item does not look at it.                                               *)
LEMMA PrependItem ==
  ASSUME NEW S, AreSteps(S), NEW s \in S, NEW way \in Seq(S), way # <<>>, NEW i \in Nat
  PROVE  Item(Under(s, way), i) = Under(s, Item(way, i))
  <1>1. PICK n \in Nat : n = Len(way)
    BY LenProperties
  <1>2. ASSUME NEW w \in Seq(S)
        PROVE  /\ Under(s, w) \in Seq(S) /\ Len(Under(s, w)) = Len(w) + 1
               /\ Under(s, w) # <<>> /\ Under(s, w)[1] = s
               /\ \A k \in 1 .. Len(w) : Under(s, w)[k + 1] = w[k]
    BY PrependIs
  <1>3. PICK v \in Seq(S) : v = Under(s, way) /\ Len(v) = n + 1 /\ v # <<>> /\ v[1] = s
                             /\ \A k \in 1 .. n : v[k + 1] = way[k]
    BY <1>1, <1>2
  <1>4. /\ Item(way, i) \in Seq(S) /\ Len(Item(way, i)) = n
        /\ Front(Item(way, i)) = Front(way) /\ Last(Item(way, i)) = <<Last(way)[1], i>>
    BY <1>1, ItemIs
  <1>5. /\ Item(v, i) \in Seq(S) /\ Len(Item(v, i)) = n + 1
        /\ Front(Item(v, i)) = Front(v) /\ Last(Item(v, i)) = <<Last(v)[1], i>>
    BY <1>3, ItemIs
  <1>6. n # 0
    BY <1>1, EmptySeq
  <1>7. ASSUME NEW u \in Seq(S), NEW t \in Seq(S), NEW m \in Nat \ {0},
               Len(u) = m, Len(t) = m, Front(u) = Front(t)
        PROVE  \A k \in 1 .. m - 1 : u[k] = t[k]
    <2>1. u # <<>> /\ t # <<>>
      BY <1>7, EmptySeq
    <2>2. \A k \in 1 .. Len(u) - 1 : Front(u)[k] = u[k]
      BY <2>1, FrontAndLast
    <2>3. \A k \in 1 .. Len(t) - 1 : Front(t)[k] = t[k]
      BY <2>1, FrontAndLast
    <2> QED
      BY <1>7, <2>2, <2>3
  <1>8. \A k \in 1 .. n - 1 : Item(way, i)[k] = way[k]
    BY <1>1, <1>4, <1>6, <1>7
  <1>9. \A k \in 1 .. n : Item(v, i)[k] = v[k]
    <2>1. PICK m \in Nat \ {0} : m = n + 1 /\ m - 1 = n
      BY n + 1 \in Nat \ {0}
    <2>2. PICK u \in Seq(S) : u = Item(v, i) /\ Len(u) = m /\ Front(u) = Front(v)
      BY <1>5, <2>1
    <2>3. Len(v) = m
      BY <1>3, <2>1
    <2>4. \A k \in 1 .. m - 1 : u[k] = v[k]
      BY <1>7, <2>2, <2>3
    <2> QED
      BY <2>1, <2>2, <2>4
  <1>10. Item(way, i)[n] = <<way[n][1], i>> /\ Item(v, i)[n + 1] = <<v[n + 1][1], i>>
    BY <1>1, <1>3, <1>4, <1>5 DEF Last
  <1>11. PICK r \in Seq(S) : /\ r = Under(s, Item(way, i)) /\ Len(r) = n + 1 /\ r[1] = s
                            /\ \A k \in 1 .. n : r[k + 1] = Item(way, i)[k]
    BY <1>2, <1>4
  <1>12. \A k \in 1 .. n + 1 : Item(v, i)[k] = r[k]
    <2> TAKE k \in 1 .. n + 1
    <2>1. CASE k = 1
      BY <1>3, <1>6, <1>9, <1>11, <2>1
    <2>2. CASE k = n + 1
      <3>1. n \in 1 .. n
        BY <1>6
      <3> QED
        BY <1>3, <1>10, <1>11, <2>2, <3>1
    <2>3. CASE k # 1 /\ k # n + 1
      <3>1. PICK j \in 1 .. n - 1 : j + 1 = k /\ j \in 1 .. n
        <4>1. k - 1 \in 1 .. n - 1 /\ (k - 1) + 1 = k /\ k - 1 \in 1 .. n
          BY <2>3
        <4> QED
          BY <4>1
      <3>2. k \in 1 .. n
        BY <2>3
      <3> QED
        BY <1>3, <1>8, <1>9, <1>11, <3>1, <3>2
    <2> QED
      BY <2>1, <2>2, <2>3
  <1> QED
    BY <1>3, <1>5, <1>11, <1>12, SeqEqual

-----------------------------------------------------------------------------
(* The numbers of children                                                 *)

(* Max is the greatest of a finite set of natural numbers.                 *)
LEMMA MaxOfNaturals ==
  ASSUME NEW S \in SUBSET Nat, IsFiniteSet(S), S # {}
  PROVE  Max(S) \in S /\ \A n \in S : n <= Max(S)
  <1> DEFINE Above(m) == {n \in S : n > m}
             counts == {Cardinality(Above(m)) : m \in S}
  <1>1. \A m \in S : IsFiniteSet(Above(m)) /\ Cardinality(Above(m)) \in Nat
    BY FS_Subset, FS_CardinalityType
  <1>2. PICK c \in counts : \A d \in counts : c <= d
    <2>1. counts \in SUBSET Nat /\ counts # {}
      BY <1>1
    <2> HIDE DEF counts
    <2> QED
      BY <2>1, LeastNatural
  <1>3. PICK m \in S : c = Cardinality(Above(m))
    OBVIOUS
  <1>4. ASSUME NEW n \in S, ~(n <= m) PROVE FALSE
    <2>1. Above(n) \in SUBSET Above(m) /\ n \in Above(m) /\ n \notin Above(n)
      <3>1. n \in Nat /\ m \in Nat /\ n > m
        BY <1>4
      <3>2. \A k \in S : k > n => k > m
        BY <3>1
      <3>3. ~(n > n)
        BY <3>1
      <3> QED
        BY <3>1, <3>2, <3>3
    <2>2. Cardinality(Above(n)) <= Cardinality(Above(m)) /\ Cardinality(Above(n)) # Cardinality(Above(m))
      <3>1. IsFiniteSet(Above(m))
        BY <1>1
      <3> HIDE DEF Above
      <3> QED
        BY <2>1, <3>1, FS_Subset
    <2>3. Cardinality(Above(m)) <= Cardinality(Above(n))
      BY <1>2, <1>3
    <2>4. Cardinality(Above(m)) \in Nat /\ Cardinality(Above(n)) \in Nat
      BY <1>1
    <2> HIDE DEF Above
    <2> QED
      BY <2>2, <2>3, <2>4
  <1>5. \A n \in S : m >= n
    BY <1>4
  <1>6. Max(S) \in S /\ \A n \in S : Max(S) >= n
    BY <1>5 DEF Max
  <1> QED
    BY <1>6

(* A node that is not the root is a child.                                 *)
LEMMA PlaceIs ==
  ASSUME NEW tree, IsTree(DOMAIN tree), NEW at \in DOMAIN tree, at # <<>>
  PROVE  /\ at \in Seq(Nat \ {0})
         /\ Len(at) \in Nat \ {0}
         /\ Front(at) \in DOMAIN tree
         /\ Len(Front(at)) = Len(at) - 1
         /\ Last(at) \in Nat \ {0}
         /\ at = Append(Front(at), Last(at))
         /\ at \in Children(tree, Front(at))
  <1>1. at \in Seq(Nat \ {0}) /\ Front(at) \in DOMAIN tree
    BY DEF IsTree
  <1>2. PICK N : N = Nat \ {0}
    OBVIOUS
  <1>3. at \in Seq(N)
    BY <1>1, <1>2
  <1>4. Len(at) \in Nat \ {0} /\ Len(Front(at)) = Len(at) - 1
    BY <1>3, FrontAndLast
  <1>5. Last(at) \in N /\ at = Append(Front(at), Last(at))
    BY <1>3, FrontAndLast
  <1> QED
    BY <1>1, <1>2, <1>4, <1>5 DEF Children

(* What is appended is the child of that number.                           *)
LEMMA ChildAt ==
  ASSUME NEW tree, IsTree(DOMAIN tree), NEW at \in DOMAIN tree, NEW n \in Nat \ {0}
  PROVE  /\ at \in Seq(Nat \ {0})
         /\ Append(at, n) # <<>>
         /\ Len(at) \in Nat
         /\ Len(Append(at, n)) = Len(at) + 1
         /\ Front(Append(at, n)) = at
         /\ Last(Append(at, n)) = n
         /\ Append(at, n) \in DOMAIN tree <=> Append(at, n) \in Children(tree, at)
  <1>1. PICK N : N = Nat \ {0}
    OBVIOUS
  <1>2. at \in Seq(N)
    <2>1. <<>> \in Seq(N)
      OBVIOUS
    <2> QED
      BY <1>1, <2>1 DEF IsTree
  <1>3. /\ Append(at, n) # <<>> /\ Len(Append(at, n)) = Len(at) + 1
        /\ Front(Append(at, n)) = at /\ Last(Append(at, n)) = n
    BY <1>1, <1>2, AppendIs
  <1>4. Len(at) \in Nat
    BY <1>2, LenProperties
  <1> QED
    BY <1>1, <1>2, <1>3, <1>4 DEF Children

(* No child has a number beyond the breadth.                               *)
LEMMA BreadthIs ==
  ASSUME NEW xml, IsTree(DOMAIN xml)
  PROVE  /\ Breadth(xml) \in Nat
         /\ \A at \in DOMAIN xml \ {<<>>} : Last(at) \in 1 .. Breadth(xml)
  <1> DEFINE D == DOMAIN xml \ {<<>>}
             numbers == {Last(at) : at \in D}
  <1>1. IsFiniteSet(numbers)
    <2>1. IsFiniteSet(D)
      BY FS_Subset DEF IsTree
    <2>2. PICK last : last = [at \in D |-> Last(at)]
      OBVIOUS
    <2>3. last \in Surjection(D, numbers)
      BY <2>2 DEF Surjection
    <2> HIDE DEF D, numbers
    <2> QED
      BY <2>1, <2>3, FS_Surjection
  <1>2. numbers \in SUBSET (Nat \ {0})
    BY PlaceIs
  <1>3. IsFiniteSet({0} \cup numbers) /\ {0} \cup numbers \in SUBSET Nat
    <2> HIDE DEF numbers
    <2>1. IsFiniteSet(numbers \cup {0}) /\ numbers \cup {0} = {0} \cup numbers
      BY <1>1, FS_AddElement
    <2> QED
      BY <1>2, <2>1
  <1>4. PICK S : S = {0} \cup numbers
    OBVIOUS
  <1>5. Max(S) \in S /\ \A n \in S : n <= Max(S)
    BY <1>3, <1>4, MaxOfNaturals
  <1>6. Breadth(xml) = Max(S)
    BY <1>4 DEF Breadth
  <1>7. \A at \in D : Last(at) \in S /\ Last(at) \in Nat \ {0}
    BY <1>2, <1>4
  <1> QED
    BY <1>3, <1>4, <1>5, <1>6, <1>7


(* The children of the same parent and of the same name.                   *)
Alike(xml, at) ==
  {sibling \in Children(xml, Front(at)) : xml[sibling].name = xml[at].name}

(* Among its namesakes a node has a number of its own.                     *)
LEMMA NumberIs ==
  ASSUME NEW xml, IsTree(DOMAIN xml), NEW at \in DOMAIN xml, at # <<>>
  PROVE  /\ IsFiniteSet(Alike(xml, at))
         /\ Cardinality(Alike(xml, at)) \in Nat
         /\ Cardinality(Namesakes(xml, at)) \in 1 .. Cardinality(Alike(xml, at))
         /\ at \in Alike(xml, at)
         /\ \A b \in Alike(xml, at) :
              /\ b \in DOMAIN xml /\ b # <<>> /\ Front(b) = Front(at)
              /\ Alike(xml, b) = Alike(xml, at)
              /\ Cardinality(Namesakes(xml, b)) = Cardinality(Namesakes(xml, at)) => b = at
  <1> DEFINE A == Alike(xml, at)
  <1>1. IsFiniteSet(A) /\ Cardinality(A) \in Nat
    BY FS_Subset, FS_CardinalityType DEF IsTree, Alike, Children
  <1>2. at \in A
    BY PlaceIs DEF Alike
  <1>3. ASSUME NEW b \in A
        PROVE  /\ b \in DOMAIN xml /\ b # <<>> /\ Front(b) = Front(at)
               /\ Alike(xml, b) = A
               /\ Last(b) \in Nat \ {0} /\ b = Append(Front(at), Last(b))
               /\ Namesakes(xml, b) = {s \in A : Last(s) <= Last(b)}
    <2>1. b \in DOMAIN xml /\ b # <<>> /\ Front(b) = Front(at) /\ xml[b].name = xml[at].name
      BY DEF Alike, Children
    <2>2. Last(b) \in Nat \ {0} /\ b = Append(Front(b), Last(b))
      BY <2>1, PlaceIs
    <2> QED
      BY <2>1, <2>2 DEF Alike, Namesakes
  <1> HIDE DEF A
  <1>4. ASSUME NEW b \in A
        PROVE  /\ Namesakes(xml, b) \in SUBSET A /\ b \in Namesakes(xml, b)
               /\ IsFiniteSet(Namesakes(xml, b))
               /\ Cardinality(Namesakes(xml, b)) \in 1 .. Cardinality(A)
    <2>1. Namesakes(xml, b) \in SUBSET A /\ b \in Namesakes(xml, b)
      BY <1>3
    <2>2. IsFiniteSet(Namesakes(xml, b)) /\ Cardinality(Namesakes(xml, b)) <= Cardinality(A)
      BY <1>1, <2>1, FS_Subset
    <2>3. Cardinality(Namesakes(xml, b)) \in Nat /\ Cardinality(Namesakes(xml, b)) # 0
      BY <2>1, <2>2, FS_CardinalityType, FS_EmptySet
    <2> QED
      BY <1>1, <2>1, <2>2, <2>3
  <1>5. ASSUME NEW b \in A, NEW c \in A, Last(b) < Last(c)
        PROVE  Cardinality(Namesakes(xml, b)) # Cardinality(Namesakes(xml, c))
    <2>1. PICK B, C : B = Namesakes(xml, b) /\ C = Namesakes(xml, c)
      OBVIOUS
    <2>2. B = {s \in A : Last(s) <= Last(b)} /\ C = {s \in A : Last(s) <= Last(c)}
      BY <1>3, <2>1
    <2>3. \A s \in A : Last(s) \in Nat
      BY <1>3
    <2>4. B \in SUBSET C /\ c \in C /\ c \notin B
      BY <1>5, <2>2, <2>3
    <2>5. IsFiniteSet(C) /\ B # C
      BY <1>4, <2>1, <2>4
    <2> QED
      BY <2>1, <2>4, <2>5, FS_Subset
  <1>6. ASSUME NEW b \in A, Cardinality(Namesakes(xml, b)) = Cardinality(Namesakes(xml, at))
        PROVE  b = at
    <2>1. Last(b) \in Nat /\ Last(at) \in Nat
      BY <1>2, <1>3
    <2>2. Last(b) = Last(at)
      BY <1>2, <1>5, <1>6, <2>1
    <2> QED
      BY <1>2, <1>3, <2>2
  <1> QED
    BY <1>1, <1>2, <1>3, <1>4, <1>6 DEF A

(* And every number is that of one.                                        *)
LEMMA EveryNumber ==
  ASSUME NEW xml, IsTree(DOMAIN xml), NEW at \in DOMAIN xml, at # <<>>,
         NEW i \in 1 .. Cardinality(Alike(xml, at))
  PROVE  \E b \in Alike(xml, at) : Cardinality(Namesakes(xml, b)) = i
  <1>1. PICK A : A = Alike(xml, at)
    OBVIOUS
  <1>2. IsFiniteSet(A) /\ Cardinality(A) \in Nat
    BY <1>1, NumberIs
  <1>3. PICK m \in Nat : m = Cardinality(A)
    BY <1>2
  <1>4. PICK number : number = [b \in A |-> Cardinality(Namesakes(xml, b))]
    OBVIOUS
  <1>5. ASSUME NEW b \in A
        PROVE  /\ number[b] \in 1 .. m
               /\ \A c \in A : number[c] = number[b] => c = b
    <2>1. b \in DOMAIN xml /\ b # <<>> /\ Alike(xml, b) = A
      BY <1>1, NumberIs
    <2> QED
      BY <1>3, <1>4, <2>1, NumberIs
  <1>6. PICK T : T = 1 .. m
    OBVIOUS
  <1>7. number \in Injection(A, T)
    <2>1. number \in [A -> T]
      BY <1>4, <1>5, <1>6
    <2> QED
      BY <1>5, <2>1 DEF Injection, IsInjective
  <1>8. IsFiniteSet(T) /\ Cardinality(T) = m
    <2>1. 1 \in Int /\ m \in Int
      OBVIOUS
    <2>2. IsFiniteSet(1 .. m) /\ Cardinality(1 .. m) = IF 1 > m THEN 0 ELSE m - 1 + 1
      BY <2>1, FS_Interval
    <2>3. (IF 1 > m THEN 0 ELSE m - 1 + 1) = m
      OBVIOUS
    <2> QED
      BY <1>6, <2>2, <2>3
  <1>9. number \in Surjection(A, T)
    BY <1>3, <1>7, <1>8, FS_Injection
  <1>10. i \in T
    BY <1>1, <1>3, <1>6
  <1> QED
    BY <1>1, <1>4, <1>9, <1>10 DEF Surjection

-----------------------------------------------------------------------------
(* Ways from a node of depth p on                                          *)

Step(xml, at) == <<xml[at].name, Cardinality(Namesakes(xml, at))>>

Steps(xml) == {<<xml[at].name, i>> : at \in DOMAIN xml, i \in Nat}

WayFrom(xml, p, at) == [k \in 1 .. Len(at) - p |-> Step(xml, SubSeq(at, 1, p + k))]

LEMMA StepsAre ==
  ASSUME NEW xml, IsTree(DOMAIN xml)
  PROVE  /\ AreSteps(Steps(xml))
         /\ \A at \in DOMAIN xml \ {<<>>} : Step(xml, at) \in Steps(xml)
  <1>1. ASSUME NEW s \in Steps(xml)
        PROVE  s = <<s[1], s[2]>> /\ \A i \in Nat : <<s[1], i>> \in Steps(xml)
    <2>1. PICK at \in DOMAIN xml, n \in Nat : s = <<xml[at].name, n>>
      BY DEF Steps
    <2>2. s[1] = xml[at].name /\ s[2] = n
      BY <2>1
    <2> QED
      BY <2>1, <2>2 DEF Steps
  <1>2. ASSUME NEW at \in DOMAIN xml \ {<<>>} PROVE Step(xml, at) \in Steps(xml)
    <2>1. Cardinality(Namesakes(xml, at)) \in Nat
      BY NumberIs
    <2> QED
      BY <2>1 DEF Step, Steps
  <1> QED
    BY <1>1, <1>2 DEF AreSteps


(* A place is a sequence of numbers.                                       *)
LEMMA PlaceType ==
  ASSUME NEW xml, IsTree(DOMAIN xml), NEW at \in DOMAIN xml
  PROVE  at \in Seq(Nat \ {0}) /\ Len(at) \in Nat
  <1>1. PICK N : N = Nat \ {0}
    OBVIOUS
  <1>2. <<>> \in Seq(N)
    OBVIOUS
  <1>3. at \in Seq(N)
    BY <1>1, <1>2 DEF IsTree
  <1> QED
    BY <1>1, <1>3, LenProperties

(* What is around a node, from depth p on.                                 *)
LEMMA AroundFrom ==
  ASSUME NEW xml, IsTree(DOMAIN xml), NEW at \in DOMAIN xml, NEW p \in 0 .. Len(at)
  PROVE  /\ Len(at) \in Nat
         /\ SubSeq(at, 1, p) \in DOMAIN xml
         /\ Len(SubSeq(at, 1, p)) = p
         /\ p = Len(at) => SubSeq(at, 1, p) = at
         /\ p = 0 => SubSeq(at, 1, p) = <<>>
         /\ \A n \in 0 .. p : SubSeq(SubSeq(at, 1, p), 1, n) = SubSeq(at, 1, n)
  <1>1. PICK N : N = Nat \ {0}
    OBVIOUS
  <1>2. at \in Seq(N) /\ SubSeq(at, 1, p) \in DOMAIN xml
    BY <1>1, AroundInTree
  <1>3. Len(at) \in Nat
    BY <1>2, LenProperties
  <1>4. PICK s \in Seq(N) : s = SubSeq(at, 1, p) /\ Len(s) = p
    <2>1. SubSeq(at, 1, p) \in Seq(N) /\ Len(SubSeq(at, 1, p)) = p
      BY <1>2, PlacesAround
    <2> QED
      BY <2>1
  <1>5. /\ p = Len(at) => SubSeq(at, 1, p) = at
        /\ p = 0 => SubSeq(at, 1, p) = <<>>
        /\ \A n \in 0 .. p : SubSeq(SubSeq(at, 1, p), 1, n) = SubSeq(at, 1, n)
    BY <1>2, PlacesAround
  <1> QED
    BY <1>2, <1>3, <1>4, <1>5

(* The same of a node on the way.                                          *)
LEMMA AroundChild ==
  ASSUME NEW xml, IsTree(DOMAIN xml), NEW at \in DOMAIN xml, NEW p \in 1 .. Len(at)
  PROVE  /\ SubSeq(at, 1, p) \in DOMAIN xml
         /\ SubSeq(at, 1, p) # <<>>
         /\ Front(SubSeq(at, 1, p)) = SubSeq(at, 1, p - 1)
  <1>1. PICK N : N = Nat \ {0}
    OBVIOUS
  <1>2. at \in Seq(N)
    BY <1>1, PlaceType
  <1>3. Len(at) \in Nat
    BY PlaceType
  <1>4. PICK q \in 0 .. Len(at) : q = p /\ q > 0
    BY <1>3
  <1>5. at \in Seq(N) /\ SubSeq(at, 1, q) \in DOMAIN xml
    BY <1>2, AroundInTree
  <1>6. PICK s \in Seq(N) : s = SubSeq(at, 1, q) /\ Len(s) = q
    <2>1. SubSeq(at, 1, q) \in Seq(N) /\ Len(SubSeq(at, 1, q)) = q
      BY <1>5, PlacesAround
    <2> QED
      BY <2>1
  <1>7. s # <<>>
    BY <1>4, <1>6
  <1>8. Front(SubSeq(at, 1, q)) = SubSeq(at, 1, q - 1)
    BY <1>4, <1>5, PlacesAround
  <1> QED
    BY <1>4, <1>5, <1>6, <1>7, <1>8

(* A way has a step for every node on it.                                  *)
LEMMA WayFromIs ==
  ASSUME NEW xml, IsTree(DOMAIN xml), NEW at \in DOMAIN xml, NEW p \in 0 .. Len(at)
  PROVE  /\ WayFrom(xml, p, at) \in Seq(Steps(xml))
         /\ Len(WayFrom(xml, p, at)) = Len(at) - p
         /\ \A k \in 1 .. Len(at) - p :
              /\ WayFrom(xml, p, at)[k] = Step(xml, SubSeq(at, 1, p + k))
              /\ SubSeq(at, 1, p + k) \in DOMAIN xml \ {<<>>}
         /\ p = Len(at) <=> WayFrom(xml, p, at) = <<>>
         /\ p = 0 => WayFrom(xml, p, at) = WayTo(xml, at)
  <1>1. PICK n \in Nat : n = Len(at) - p
    <2>1. Len(at) \in Nat
      BY AroundFrom
    <2> QED
      BY <2>1
  <1>2. PICK S : S = Steps(xml)
    OBVIOUS
  <1>3. \A k \in 1 .. n : SubSeq(at, 1, p + k) \in DOMAIN xml \ {<<>>}
    <2> TAKE k \in 1 .. n
    <2>1. PICK q \in 1 .. Len(at) : q = p + k
      <3>1. Len(at) \in Nat
        BY AroundFrom
      <3> QED
        BY <1>1, <3>1
    <2>2. SubSeq(at, 1, q) \in DOMAIN xml /\ SubSeq(at, 1, q) # <<>>
      BY AroundChild
    <2> QED
      BY <2>1, <2>2
  <1>4. PICK w : w = WayFrom(xml, p, at)
    OBVIOUS
  <1>5. w = [k \in 1 .. n |-> Step(xml, SubSeq(at, 1, p + k))]
    BY <1>1, <1>4 DEF WayFrom
  <1>6. \A k \in 1 .. n : Step(xml, SubSeq(at, 1, p + k)) \in S
    BY <1>2, <1>3, StepsAre
  <1>7. w \in Seq(S) /\ Len(w) = n
    <2>1. w \in [1 .. n -> S]
      BY <1>5, <1>6
    <2> QED
      BY <2>1
  <1>8. n = 0 <=> w = <<>>
    BY <1>7
  <1>9. p = 0 => w = WayTo(xml, at)
    <2> HAVE p = 0
    <2>1. w = [k \in 1 .. Len(at) |-> Step(xml, SubSeq(at, 1, k))]
      <3>1. Len(at) = n
        <4>1. Len(at) \in Nat
          BY AroundFrom
        <4> QED
          BY <1>1, <4>1
      <3>2. \A k \in 1 .. n : p + k = k
        OBVIOUS
      <3> QED
        BY <1>5, <3>1, <3>2
    <2> QED
      BY <2>1 DEF WayTo, Step
  <1>10. p = Len(at) <=> n = 0
    <2>1. Len(at) \in Nat
      BY AroundFrom
    <2> QED
      BY <1>1, <2>1
  <1>11. \A k \in 1 .. n : w[k] = Step(xml, SubSeq(at, 1, p + k))
    BY <1>5
  <1> QED
    BY <1>1, <1>2, <1>3, <1>4, <1>7, <1>8, <1>9, <1>10, <1>11

(* The first step of a way, the last, and the rest.                        *)
LEMMA WayFromParts ==
  ASSUME NEW xml, IsTree(DOMAIN xml), NEW at \in DOMAIN xml, NEW p \in 0 .. Len(at), p # Len(at)
  PROVE  /\ WayFrom(xml, p, at) # <<>>
         /\ WayFrom(xml, p, at) = Under(Step(xml, SubSeq(at, 1, p + 1)), WayFrom(xml, p + 1, at))
         /\ p \in 0 .. Len(Front(at))
         /\ Front(WayFrom(xml, p, at)) = WayFrom(xml, p, Front(at))
         /\ Last(WayFrom(xml, p, at)) = Step(xml, at)
  <1>0. Len(at) \in Nat
    BY AroundFrom
  <1>1. PICK n \in Nat : n + 1 = Len(at) - p /\ p + (n + 1) = Len(at)
    <2>1. Len(at) - p - 1 \in Nat /\ (Len(at) - p - 1) + 1 = Len(at) - p
          /\ p + ((Len(at) - p - 1) + 1) = Len(at)
      BY <1>0
    <2> QED
      BY <2>1
  <1>2. PICK S : S = Steps(xml)
    OBVIOUS
  <1>3. PICK q \in 0 .. Len(at) : q = p + 1
    BY <1>0
  <1>4. PICK w \in Seq(S) : /\ w = WayFrom(xml, p, at) /\ Len(w) = n + 1
                            /\ \A k \in 1 .. n + 1 : w[k] = Step(xml, SubSeq(at, 1, p + k))
    <2>1. WayFrom(xml, p, at) \in Seq(S) /\ Len(WayFrom(xml, p, at)) = Len(at) - p
      BY <1>2, WayFromIs
    <2>2. \A k \in 1 .. Len(at) - p : WayFrom(xml, p, at)[k] = Step(xml, SubSeq(at, 1, p + k))
      BY WayFromIs
    <2> QED
      BY <1>1, <2>1, <2>2
  <1>5. PICK v \in Seq(S) : /\ v = WayFrom(xml, q, at) /\ Len(v) = n
                            /\ \A k \in 1 .. n : v[k] = Step(xml, SubSeq(at, 1, q + k))
    <2>1. WayFrom(xml, q, at) \in Seq(S) /\ Len(WayFrom(xml, q, at)) = Len(at) - q
      BY <1>2, WayFromIs
    <2>2. \A k \in 1 .. Len(at) - q : WayFrom(xml, q, at)[k] = Step(xml, SubSeq(at, 1, q + k))
      BY WayFromIs
    <2>3. Len(at) - q = n
      BY <1>0, <1>1, <1>3
    <2> QED
      BY <2>1, <2>2, <2>3
  <1>6. PICK s \in S : s = Step(xml, SubSeq(at, 1, p + 1)) /\ s = w[1]
    <2>1. 1 \in 1 .. n + 1
      OBVIOUS
    <2> QED
      BY <1>4, <2>1, ElementOfSeq
  <1>7. w = Under(s, v)
    <2>1. PICK u \in Seq(S) : /\ u = Under(s, v) /\ Len(u) = n + 1 /\ u[1] = s
                              /\ \A k \in 1 .. n : u[k + 1] = v[k]
      <3>1. AreSteps(S)
        BY <1>2, StepsAre
      <3>2. Under(s, v) \in Seq(S) /\ Len(Under(s, v)) = Len(v) + 1 /\ Under(s, v)[1] = s
        BY <3>1, PrependIs
      <3>3. \A k \in 1 .. Len(v) : Under(s, v)[k + 1] = v[k]
        BY <3>1, PrependIs
      <3> QED
        BY <1>5, <3>2, <3>3
    <2>2. \A k \in 1 .. n + 1 : w[k] = u[k]
      <3> TAKE k \in 1 .. n + 1
      <3>1. CASE k = 1
        BY <1>6, <2>1, <3>1
      <3>2. CASE k # 1
        <4>1. PICK j \in 1 .. n : j + 1 = k /\ q + j = p + k
          <5>1. k - 1 \in 1 .. n /\ (k - 1) + 1 = k /\ q + (k - 1) = p + k
            BY <1>3, <3>2
          <5> QED
            BY <5>1
        <4> QED
          BY <1>4, <1>5, <2>1, <4>1
      <3> QED
        BY <3>1, <3>2
    <2> QED
      BY <1>4, <2>1, <2>2, SeqEqual
  <1>8. w # <<>>
    BY <1>4
  <1>9. at # <<>>
    <2>1. Len(at) # 0
      BY <1>0, <1>1
    <2> QED
      BY <2>1
  <1>10. PICK f : f = Front(at) /\ f \in DOMAIN xml /\ Len(f) = p + n /\ p \in 0 .. Len(f)
    <2>1. Front(at) \in DOMAIN xml /\ Len(Front(at)) = Len(at) - 1
      BY <1>9, PlaceIs
    <2>2. Len(at) - 1 = p + n
      BY <1>0, <1>1
    <2> QED
      BY <2>1, <2>2
  <1>11. \A k \in 1 .. n : SubSeq(f, 1, p + k) = SubSeq(at, 1, p + k)
    <2>1. PICK m \in 0 .. Len(at) : m = Len(at) - 1 /\ m = p + n /\ m + 1 = Len(at)
      BY <1>0, <1>1
    <2>2. f = SubSeq(at, 1, m)
      BY <1>10, <2>1 DEF Front
    <2>3. \A k \in 1 .. n : p + k \in 0 .. m
      BY <2>1
    <2>4. \A k \in 0 .. m : SubSeq(SubSeq(at, 1, m), 1, k) = SubSeq(at, 1, k)
      BY AroundFrom
    <2> QED
      BY <2>2, <2>3, <2>4
  <1>12. Front(w) = WayFrom(xml, p, f)
    <2>1. PICK g \in Seq(S) : g = Front(w) /\ Len(g) = n /\ \A k \in 1 .. n : g[k] = w[k]
      <3>1. Front(w) \in Seq(S) /\ Len(Front(w)) = Len(w) - 1
        BY <1>8, FrontAndLast
      <3>2. \A k \in 1 .. Len(w) - 1 : Front(w)[k] = w[k]
        BY <1>8, FrontAndLast
      <3>3. Len(w) - 1 = n
        BY <1>4
      <3> QED
        BY <3>1, <3>2, <3>3
    <2>2. f \in DOMAIN xml /\ p \in 0 .. Len(f) /\ Len(f) - p = n
      BY <1>10
    <2>3. WayFrom(xml, p, f) \in Seq(S) /\ Len(WayFrom(xml, p, f)) = n
      BY <1>2, <2>2, WayFromIs
    <2>4. \A k \in 1 .. n : WayFrom(xml, p, f)[k] = Step(xml, SubSeq(f, 1, p + k))
      <3>1. \A k \in 1 .. Len(f) - p : WayFrom(xml, p, f)[k] = Step(xml, SubSeq(f, 1, p + k))
        <4>1. f \in DOMAIN xml /\ p \in 0 .. Len(f)
          BY <1>10
        <4> QED
          BY <4>1, WayFromIs
      <3> QED
        BY <2>2, <3>1
    <2>5. \A k \in 1 .. n : g[k] = WayFrom(xml, p, f)[k]
      <3> TAKE k \in 1 .. n
      <3>1. g[k] = Step(xml, SubSeq(at, 1, p + k))
        <4>1. k \in 1 .. n + 1
          OBVIOUS
        <4> QED
          BY <1>4, <2>1, <4>1
      <3>2. WayFrom(xml, p, f)[k] = Step(xml, SubSeq(at, 1, p + k))
        BY <1>11, <2>4
      <3> QED
        BY <3>1, <3>2
    <2> QED
      BY <2>1, <2>3, <2>5, SeqEqual
  <1>13. Last(w) = Step(xml, at)
    <2>1. Last(w) = w[n + 1] /\ n + 1 \in 1 .. n + 1
      BY <1>4 DEF Last
    <2>2. SubSeq(at, 1, p + (n + 1)) = at
      <3>1. Len(at) \in 0 .. Len(at)
        BY <1>0
      <3> QED
        BY <1>1, <3>1, AroundFrom
    <2> QED
      BY <1>4, <2>1, <2>2
  <1> QED
    BY <1>3, <1>4, <1>5, <1>6, <1>7, <1>8, <1>10, <1>12, <1>13

(* From one node no two others are reached the same way.                   *)
LEMMA WayFromOnce ==
  ASSUME NEW xml, IsTree(DOMAIN xml), NEW a \in DOMAIN xml, NEW b \in DOMAIN xml,
         NEW p \in 0 .. Len(a), p \in 0 .. Len(b), SubSeq(a, 1, p) = SubSeq(b, 1, p),
         WayFrom(xml, p, a) = WayFrom(xml, p, b)
  PROVE  a = b
  <1>0. Len(a) \in Nat /\ Len(b) \in Nat
    BY AroundFrom
  <1>1. PICK n \in Nat : n = Len(a) - p /\ n = Len(b) - p /\ p + n = Len(a) /\ p + n = Len(b)
    <2>1. Len(WayFrom(xml, p, a)) = Len(a) - p
      BY WayFromIs
    <2>2. Len(WayFrom(xml, p, b)) = Len(b) - p
      BY WayFromIs
    <2>3. PICK l, m \in Nat : l = Len(a) /\ m = Len(b)
      BY <1>0
    <2>4. l - p = m - p /\ p <= l /\ p \in Nat
      BY <2>1, <2>2, <2>3
    <2>5. l - p \in Nat /\ l = m /\ p + (l - p) = l
      BY <2>4
    <2> QED
      BY <2>3, <2>5
  <1> DEFINE S == {k \in Nat : k <= n => SubSeq(a, 1, p + k) = SubSeq(b, 1, p + k)}
  <1>2. 0 \in S
    <2>1. p + 0 = p
      OBVIOUS
    <2> QED
      BY <2>1
  <1>3. ASSUME NEW k \in Nat, k \in S PROVE k + 1 \in S
    <2> SUFFICES ASSUME k + 1 <= n PROVE SubSeq(a, 1, p + (k + 1)) = SubSeq(b, 1, p + (k + 1))
      OBVIOUS
    <2>1. SubSeq(a, 1, p + k) = SubSeq(b, 1, p + k)
      BY <1>3
    <2>2. PICK q \in 1 .. Len(a) : q = p + (k + 1) /\ q - 1 = p + k /\ q \in 1 .. Len(b)
      BY <1>0, <1>1
    <2>3. PICK j \in 1 .. n : j = k + 1
      OBVIOUS
    <2>4. PICK x : /\ x = SubSeq(a, 1, q) /\ x \in DOMAIN xml /\ x # <<>>
                   /\ Front(x) = SubSeq(a, 1, p + k)
      <3>1. /\ SubSeq(a, 1, q) \in DOMAIN xml /\ SubSeq(a, 1, q) # <<>>
            /\ Front(SubSeq(a, 1, q)) = SubSeq(a, 1, q - 1)
        BY <2>2, AroundChild
      <3> QED
        BY <2>2, <3>1
    <2>5. PICK y : /\ y = SubSeq(b, 1, q) /\ y \in DOMAIN xml /\ y # <<>>
                   /\ Front(y) = SubSeq(b, 1, p + k)
      <3>1. /\ SubSeq(b, 1, q) \in DOMAIN xml /\ SubSeq(b, 1, q) # <<>>
            /\ Front(SubSeq(b, 1, q)) = SubSeq(b, 1, q - 1)
        BY <2>2, AroundChild
      <3> QED
        BY <2>2, <3>1
    <2>6. Step(xml, x) = Step(xml, y)
      <3>1. \A i \in 1 .. Len(a) - p : WayFrom(xml, p, a)[i] = Step(xml, SubSeq(a, 1, p + i))
        BY WayFromIs
      <3>2. \A i \in 1 .. Len(b) - p : WayFrom(xml, p, b)[i] = Step(xml, SubSeq(b, 1, p + i))
        BY WayFromIs
      <3> QED
        BY <1>1, <2>2, <2>3, <2>4, <2>5, <3>1, <3>2
    <2>7. /\ xml[x].name = xml[y].name
          /\ Cardinality(Namesakes(xml, x)) = Cardinality(Namesakes(xml, y))
      BY <2>6 DEF Step
    <2>8. y \in Alike(xml, x)
      BY <2>1, <2>4, <2>5, <2>7 DEF Alike, Children
    <2>9. y = x
      BY <2>4, <2>7, <2>8, NumberIs
    <2> QED
      BY <2>2, <2>4, <2>5, <2>9
  <1>4. Nat \subseteq S
    <2> HIDE DEF S
    <2> QED
      BY <1>2, <1>3, Induction
  <1>5. SubSeq(a, 1, p + n) = SubSeq(b, 1, p + n)
    BY <1>4
  <1>6. SubSeq(a, 1, Len(a)) = a /\ SubSeq(b, 1, Len(b)) = b
    <2>1. Len(a) \in 0 .. Len(a) /\ Len(b) \in 0 .. Len(b)
      BY <1>0
    <2> QED
      BY <2>1, AroundFrom
  <1> QED
    BY <1>1, <1>5, <1>6


-----------------------------------------------------------------------------
(* What lies below a node, in its children up to number n                  *)

LiesBelow(xml, node, n) ==
  {at \in DOMAIN xml :
     Len(at) > Len(node) /\ SubSeq(at, 1, Len(node)) = node /\ at[Len(node) + 1] <= n}

(* The child of a node in which another one lies.                          *)
Branch(at, node) == SubSeq(at, 1, Len(node) + 1)

LEMMA BelowIs ==
  ASSUME NEW xml, IsTree(DOMAIN xml), NEW node \in DOMAIN xml, NEW n, NEW at \in LiesBelow(xml, node, n)
  PROVE  /\ at \in DOMAIN xml /\ at # <<>> /\ Len(at) \in Nat
         /\ Len(node) \in 0 .. Len(at) /\ Len(node) # Len(at) /\ Len(node) + 1 \in 1 .. Len(at)
         /\ SubSeq(at, 1, Len(node)) = node
         /\ Branch(at, node) \in Children(xml, node)
         /\ Last(Branch(at, node)) = at[Len(node) + 1]
         /\ Front(at) = node <=> Len(at) = Len(node) + 1
         /\ Front(at) = node <=> Branch(at, node) = at
  <1>1. at \in DOMAIN xml /\ Len(at) > Len(node) /\ SubSeq(at, 1, Len(node)) = node
    BY DEF LiesBelow
  <1>2. Len(at) \in Nat /\ Len(node) \in Nat
    BY <1>1, PlaceType
  <1>3. PICK p \in Nat : p = Len(node)
    BY <1>2
  <1>4. PICK q \in 1 .. Len(at) : q = p + 1 /\ q - 1 = p /\ q \in 0 .. Len(at)
    BY <1>1, <1>2, <1>3
  <1>5. /\ SubSeq(at, 1, q) \in DOMAIN xml /\ SubSeq(at, 1, q) # <<>>
        /\ Front(SubSeq(at, 1, q)) = SubSeq(at, 1, q - 1)
    BY <1>1, AroundChild
  <1>6. Branch(at, node) \in Children(xml, node)
    BY <1>1, <1>3, <1>4, <1>5 DEF Branch, Children
  <1>7. Last(Branch(at, node)) = at[p + 1]
    <2>1. PICK N : N = Nat \ {0}
      OBVIOUS
    <2>2. at \in Seq(N)
      BY <1>1, <1>4, <2>1, AroundInTree
    <2>3. Len(SubSeq(at, 1, q)) = q /\ SubSeq(at, 1, q)[q] = at[q]
      <3>1. \A i \in 1 .. q : at[i] \in N
        BY <1>4, <2>2, ElementOfSeq
      <3>2. Len(SubSeq(at, 1, q)) = q
        BY <1>1, <1>4, AroundFrom
      <3>3. \A i \in 1 .. q - 1 + 1 : SubSeq(at, 1, q)[i] = at[1 + i - 1]
        BY <3>1, SubSeqProperties
      <3>4. q \in 1 .. q - 1 + 1 /\ 1 + q - 1 = q
        OBVIOUS
      <3> QED
        BY <3>2, <3>3, <3>4
    <2> QED
      BY <1>3, <1>4, <2>3 DEF Branch, Last
  <1>8. at # <<>>
    <2>1. Len(at) # 0
      BY <1>1, <1>2
    <2> QED
      BY <2>1
  <1>9. Len(at) = p + 1 => Branch(at, node) = at
    BY <1>1, <1>3, <1>4, AroundFrom DEF Branch
  <1>10. Branch(at, node) = at => Front(at) = node
    BY <1>6 DEF Children
  <1>11. Front(at) = node => Len(at) = p + 1
    <2>1. Len(Front(at)) = Len(at) - 1
      BY <1>1, <1>8, PlaceIs
    <2> QED
      BY <1>2, <1>3, <2>1
  <1>12. Len(node) \in 0 .. Len(at) /\ Len(node) # Len(at) /\ Len(node) + 1 \in 1 .. Len(at)
    BY <1>1, <1>2
  <1> QED
    BY <1>1, <1>2, <1>3, <1>6, <1>7, <1>8, <1>9, <1>10, <1>11, <1>12

(* A child is below its parent, and is its own branch.                     *)
LEMMA ChildBelow ==
  ASSUME NEW xml, IsTree(DOMAIN xml), NEW node \in DOMAIN xml, NEW n,
         NEW c \in Children(xml, node), Last(c) <= n
  PROVE  /\ c \in LiesBelow(xml, node, n)
         /\ c \in DOMAIN xml /\ c # <<>> /\ Front(c) = node
         /\ Len(node) \in Nat /\ Len(c) = Len(node) + 1
         /\ Branch(c, node) = c
         /\ Last(c) = c[Len(node) + 1]
         /\ SubSeq(c, 1, Len(node)) = node
  <1>1. c \in DOMAIN xml /\ c # <<>> /\ Front(c) = node
    BY DEF Children
  <1>2. Len(node) \in Nat /\ Len(c) = Len(node) + 1
    BY ChildIs
  <1>3. SubSeq(c, 1, Len(node)) = node
    <2>1. Len(c) - 1 = Len(node)
      BY <1>2
    <2> QED
      BY <1>1, <2>1 DEF Front
  <1>4. Last(c) = c[Len(node) + 1]
    BY <1>2 DEF Last
  <1>5. c \in LiesBelow(xml, node, n)
    <2>1. Len(c) > Len(node)
      BY <1>2
    <2> QED
      BY <1>1, <1>3, <1>4, <2>1 DEF LiesBelow
  <1> QED
    BY <1>1, <1>2, <1>3, <1>4, <1>5, BelowIs

(* Nothing lies below number 0, and all but the root below its breadth.    *)
LEMMA BelowEnds ==
  ASSUME NEW xml, IsTree(DOMAIN xml), NEW node \in DOMAIN xml
  PROVE  /\ LiesBelow(xml, node, 0) = {}
         /\ LiesBelow(xml, <<>>, Breadth(xml)) = DOMAIN xml \ {<<>>}
         /\ \A n : \A at \in LiesBelow(xml, node, n) : at[Len(node) + 1] \in 1 .. Breadth(xml)
  <1>1. ASSUME NEW n, NEW at \in LiesBelow(xml, node, n)
        PROVE  at[Len(node) + 1] \in 1 .. Breadth(xml) /\ at[Len(node) + 1] <= n
    <2>1. Branch(at, node) \in DOMAIN xml \ {<<>>}
      BY BelowIs DEF Children
    <2>2. Last(Branch(at, node)) = at[Len(node) + 1]
      BY BelowIs
    <2> QED
      BY <2>1, <2>2, BreadthIs DEF LiesBelow
  <1>2. LiesBelow(xml, node, 0) = {}
    <2> SUFFICES ASSUME NEW at \in LiesBelow(xml, node, 0) PROVE FALSE
      OBVIOUS
    <2>1. PICK i : i = at[Len(node) + 1] /\ i \in 1 .. Breadth(xml) /\ i <= 0
      BY <1>1
    <2> QED
      BY <2>1, BreadthIs
  <1>3. ASSUME NEW at \in DOMAIN xml \ {<<>>} PROVE at \in LiesBelow(xml, <<>>, Breadth(xml))
    <2>1. Len(at) \in Nat \ {0}
      BY PlaceIs
    <2>2. Len(<<>>) = 0
      OBVIOUS
    <2>3. 1 \in 1 .. Len(at) /\ 0 \in 0 .. Len(at) /\ 1 \in 0 .. Len(at) /\ 1 # 0 /\ 1 - 1 = 0
      BY <2>1
    <2>4. SubSeq(at, 1, 0) = <<>>
      BY <2>3, AroundFrom
    <2>5. /\ SubSeq(at, 1, 1) \in DOMAIN xml /\ SubSeq(at, 1, 1) # <<>>
          /\ Front(SubSeq(at, 1, 1)) = SubSeq(at, 1, 1 - 1)
      BY <2>3, AroundChild
    <2>6. PICK c : c = SubSeq(at, 1, 1) /\ c \in Children(xml, <<>>)
      BY <2>3, <2>4, <2>5 DEF Children
    <2>7. <<>> \in DOMAIN xml
      BY DEF IsTree
    <2>8. Last(c) \in 1 .. Breadth(xml)
      BY <2>5, <2>6, BreadthIs
    <2>9. Last(c) = c[1] /\ c[1] = at[1]
      <3>1. Len(c) = 1
        BY <2>3, <2>6, AroundFrom
      <3>2. at \in Seq(Nat \ {0})
        BY PlaceIs
      <3>3. at[1] \in Nat \ {0}
        BY <2>3, <3>2, ElementOfSeq
      <3>4. PICK N : N = Nat \ {0}
        OBVIOUS
      <3>5. \A i \in 1 .. 1 : at[i] \in N
        BY <3>3, <3>4
      <3>6. \A i \in 1 .. 1 - 1 + 1 : SubSeq(at, 1, 1)[i] = at[1 + i - 1]
        BY <3>5, SubSeqProperties
      <3>7. 1 \in 1 .. 1 - 1 + 1 /\ 1 + 1 - 1 = 1
        OBVIOUS
      <3> QED
        BY <2>6, <3>1, <3>6, <3>7 DEF Last
    <2>10. at[1] <= Breadth(xml)
      BY <2>8, <2>9, BreadthIs
    <2> QED
      BY <2>1, <2>2, <2>4, <2>10 DEF LiesBelow
  <1>4. ASSUME NEW at \in LiesBelow(xml, <<>>, Breadth(xml)) PROVE at \in DOMAIN xml \ {<<>>}
    <2>1. <<>> \in DOMAIN xml
      BY DEF IsTree
    <2> QED
      BY <2>1, BelowIs
  <1> QED
    BY <1>1, <1>2, <1>3, <1>4


(* What lies below a node has its children there, and its parent unless it *)
(* is a child.                                                             *)
LEMMA BelowAround ==
  ASSUME NEW xml, IsTree(DOMAIN xml), NEW node \in DOMAIN xml, NEW n, NEW at \in LiesBelow(xml, node, n)
  PROVE  /\ Front(at) # node => Front(at) \in LiesBelow(xml, node, n)
         /\ \A c \in Children(xml, at) : c \in LiesBelow(xml, node, n) /\ Front(c) # node
         /\ \A b \in Alike(xml, at) : Front(at) # node => b \in LiesBelow(xml, node, n)
  <1>1. PICK p \in Nat : p = Len(node)
    BY PlaceType
  <1>2. ASSUME NEW a \in LiesBelow(xml, node, n), NEW b \in DOMAIN xml, NEW m \in Nat,
               Len(a) = m, Len(b) = m + 1, SubSeq(b, 1, m) = a
        PROVE  b \in LiesBelow(xml, node, n) /\ Front(b) # node
    <2>1. m \in 0 .. Len(b) /\ p \in 0 .. m /\ p + 1 \in 0 .. m /\ p + 1 \in 1 .. m /\ Len(b) > p
      <3>1. p + 1 \in 1 .. Len(a)
        BY <1>1, BelowIs
      <3> QED
        BY <1>2, <3>1
    <2>2. \A k \in 0 .. m : SubSeq(SubSeq(b, 1, m), 1, k) = SubSeq(b, 1, k)
      BY <2>1, AroundFrom
    <2>3. SubSeq(b, 1, p) = SubSeq(a, 1, p)
      BY <1>2, <2>1, <2>2
    <2>4. b[p + 1] = a[p + 1]
      <3>1. PICK N : N = Nat \ {0}
        OBVIOUS
      <3>2. b \in Seq(N)
        BY <2>1, <3>1, AroundInTree
      <3>3. \A k \in 1 .. m : b[k] \in N
        BY <1>2, <3>2, ElementOfSeq
      <3>4. \A k \in 1 .. m - 1 + 1 : SubSeq(b, 1, m)[k] = b[1 + k - 1]
        BY <3>3, SubSeqProperties
      <3>5. p + 1 \in 1 .. m - 1 + 1 /\ 1 + (p + 1) - 1 = p + 1
        BY <2>1
      <3> QED
        BY <1>2, <3>4, <3>5
    <2>5. b \in LiesBelow(xml, node, n)
      BY <1>1, <2>1, <2>3, <2>4 DEF LiesBelow
    <2>6. Front(b) # node
      <3>1. Front(b) = node => Len(b) = p + 1
        BY <1>1, <2>5, BelowIs
      <3>2. Len(b) # p + 1
        BY <1>2, <2>1
      <3> QED
        BY <3>1, <3>2
    <2> QED
      BY <2>5, <2>6
  <1>3. ASSUME NEW a \in LiesBelow(xml, node, n), NEW c \in Children(xml, a)
        PROVE  c \in LiesBelow(xml, node, n) /\ Front(c) # node
    <2>1. a \in DOMAIN xml
      BY BelowIs
    <2>2. c \in DOMAIN xml /\ Len(a) \in Nat /\ Len(c) = Len(a) + 1
      BY <2>1, ChildIs
    <2>3. SubSeq(c, 1, Len(a)) = a
      <3>1. Len(c) - 1 = Len(a) /\ Front(c) = a
        BY <2>2 DEF Children
      <3> QED
        BY <3>1 DEF Front
    <2> QED
      BY <1>2, <2>2, <2>3
  <1>4. ASSUME Front(at) # node PROVE Front(at) \in LiesBelow(xml, node, n)
    <2>1. PICK f : f = Front(at)
      OBVIOUS
    <2>2. at \in DOMAIN xml /\ at # <<>> /\ Len(at) \in Nat /\ p + 1 \in 1 .. Len(at)
      BY <1>1, BelowIs
    <2>3. f \in DOMAIN xml /\ Len(f) = Len(at) - 1
      BY <2>1, <2>2, PlaceIs
    <2>4. Len(at) # p + 1
      <3>1. Len(at) = p + 1 => Front(at) = node
        BY <1>1, BelowIs
      <3> QED
        BY <1>4, <3>1
    <2>5. PICK m \in 0 .. Len(at) : m = Len(f) /\ m = Len(at) - 1 /\ p + 1 \in 1 .. m
      <3>1. Len(at) - 1 \in 0 .. Len(at) /\ p + 1 \in 1 .. Len(at) - 1
        BY <2>2, <2>4
      <3> QED
        BY <2>3, <3>1
    <2>6. f = SubSeq(at, 1, m)
      BY <2>1, <2>5 DEF Front
    <2>7. SubSeq(f, 1, p) = SubSeq(at, 1, p)
      <3>1. \A k \in 0 .. m : SubSeq(SubSeq(at, 1, m), 1, k) = SubSeq(at, 1, k)
        BY <2>2, AroundFrom
      <3>2. p \in 0 .. m
        BY <2>5
      <3> QED
        BY <2>6, <3>1, <3>2
    <2>8. f[p + 1] = at[p + 1]
      <3>1. PICK N : N = Nat \ {0}
        OBVIOUS
      <3>2. at \in Seq(N)
        BY <2>2, <2>5, <3>1, AroundInTree
      <3>3. \A k \in 1 .. m : at[k] \in N
        BY <2>2, <2>5, <3>2, ElementOfSeq
      <3>4. \A k \in 1 .. m - 1 + 1 : SubSeq(at, 1, m)[k] = at[1 + k - 1]
        BY <3>3, SubSeqProperties
      <3>5. p + 1 \in 1 .. m - 1 + 1 /\ 1 + (p + 1) - 1 = p + 1
        BY <2>5
      <3> QED
        BY <2>6, <3>4, <3>5
    <2>9. Len(f) > p
      BY <2>5
    <2> QED
      BY <1>1, <2>1, <2>3, <2>7, <2>8, <2>9 DEF LiesBelow
  <1>5. ASSUME NEW b \in Alike(xml, at), Front(at) # node PROVE b \in LiesBelow(xml, node, n)
    <2>1. b \in Children(xml, Front(at))
      BY DEF Alike
    <2> QED
      BY <1>3, <1>4, <1>5, <2>1
  <1> QED
    BY <1>3, <1>4, <1>5

(* What the child of one more number adds.                                 *)
LEMMA BelowOneMore ==
  ASSUME NEW xml, IsTree(DOMAIN xml), NEW node \in DOMAIN xml, NEW n \in Nat \ {0}
  PROVE  LET c == Append(node, n) IN
         /\ c \notin DOMAIN xml => LiesBelow(xml, node, n) = LiesBelow(xml, node, n - 1)
         /\ c \in DOMAIN xml =>
              /\ c \in Children(xml, node) /\ Last(c) = n
              /\ LiesBelow(xml, node, n) = LiesBelow(xml, node, n - 1) \cup {c} \cup LiesBelow(xml, c, Breadth(xml))
              /\ \A at \in LiesBelow(xml, node, n - 1) : Branch(at, node) # c
              /\ \A at \in LiesBelow(xml, c, Breadth(xml)) : Branch(at, node) = c /\ Front(at) # node
  <1> DEFINE B == Breadth(xml)
  <1>0. PICK c : c = Append(node, n)
    OBVIOUS
  <1>1. /\ Len(node) \in Nat /\ Len(c) = Len(node) + 1 /\ Last(c) = n
        /\ c \in DOMAIN xml => c \in Children(xml, node)
    BY <1>0, ChildAt
  <1>2. PICK p \in Nat : p = Len(node)
    BY <1>1
  <1>3. ASSUME NEW at \in LiesBelow(xml, node, n) PROVE at \in LiesBelow(xml, node, n - 1) \/ Branch(at, node) = c
    <2>1. PICK i : i = at[p + 1] /\ i \in 1 .. B /\ i <= n
      <3>1. at[p + 1] \in 1 .. B
        BY <1>2, BelowEnds
      <3> QED
        BY <1>2, <3>1 DEF LiesBelow
    <2>2. CASE i <= n - 1
      BY <1>2, <2>1, <2>2 DEF LiesBelow
    <2>3. CASE ~(i <= n - 1)
      <3>1. i = n
        BY <2>1, <2>3, BreadthIs
      <3>2. PICK b : b = Branch(at, node) /\ b \in Children(xml, node) /\ Last(b) = n
        <4>1. Branch(at, node) \in Children(xml, node) /\ Last(Branch(at, node)) = at[p + 1]
          BY <1>2, BelowIs
        <4> QED
          BY <2>1, <3>1, <4>1
      <3>3. b \in DOMAIN xml /\ b # <<>> /\ Front(b) = node
        BY <3>2 DEF Children
      <3>4. b = Append(Front(b), Last(b))
        BY <3>3, PlaceIs
      <3> QED
        BY <1>0, <3>2, <3>3, <3>4
    <2> QED
      BY <2>2, <2>3
  <1>4. ASSUME NEW at \in LiesBelow(xml, node, n - 1) PROVE at \in LiesBelow(xml, node, n) /\ Branch(at, node) # c
    <2>1. PICK i : i = at[p + 1] /\ i \in 1 .. B /\ i <= n - 1
      <3>1. at[p + 1] \in 1 .. B
        BY <1>2, BelowEnds
      <3> QED
        BY <1>2, <3>1 DEF LiesBelow
    <2>2. i <= n /\ i # n
      BY <2>1, BreadthIs
    <2>3. at \in LiesBelow(xml, node, n)
      BY <1>2, <2>1, <2>2 DEF LiesBelow
    <2>4. Last(Branch(at, node)) = i
      BY <1>2, <2>1, BelowIs
    <2> QED
      BY <1>1, <2>2, <2>3, <2>4
  <1>5. ASSUME c \notin DOMAIN xml PROVE LiesBelow(xml, node, n) = LiesBelow(xml, node, n - 1)
    <2>1. \A at \in LiesBelow(xml, node, n) : Branch(at, node) \in DOMAIN xml
      BY BelowIs DEF Children
    <2> QED
      BY <1>3, <1>4, <1>5, <2>1
  <1>6. ASSUME c \in DOMAIN xml
        PROVE  /\ LiesBelow(xml, node, n) = LiesBelow(xml, node, n - 1) \cup {c} \cup LiesBelow(xml, c, B)
               /\ \A at \in LiesBelow(xml, c, B) : Branch(at, node) = c /\ Front(at) # node
    <2>1. c \in Children(xml, node) /\ n <= n
      BY <1>1, <1>6
    <2>2. c \in LiesBelow(xml, node, n) /\ SubSeq(c, 1, p) = node /\ c[p + 1] = n
      BY <1>1, <1>2, <2>1, ChildBelow
    <2>3. ASSUME NEW at \in LiesBelow(xml, node, n), Branch(at, node) = c
          PROVE  at = c \/ at \in LiesBelow(xml, c, B)
      <3>1. /\ at \in DOMAIN xml /\ Len(at) \in Nat /\ p + 1 \in 1 .. Len(at)
            /\ Len(at) = p + 1 => at = c
        BY <1>2, <2>3, BelowIs
      <3>2. CASE Len(at) = p + 1
        BY <3>1, <3>2
      <3>3. CASE Len(at) # p + 1
        <4>1. Len(at) > Len(c)
          BY <1>1, <1>2, <3>1, <3>3
        <4>2. SubSeq(at, 1, Len(c)) = c
          BY <1>1, <1>2, <2>3 DEF Branch
        <4>3. PICK m : m = at[Len(c) + 1]
          OBVIOUS
        <4>4. Len(c) + 1 \in 1 .. Len(at)
          BY <1>1, <3>1, <4>1
        <4>5. m \in Nat
          <5>1. at \in Seq(Nat \ {0})
            <6>1. Len(at) \in 0 .. Len(at)
              BY <3>1
            <6> QED
              BY <3>1, <6>1, AroundInTree
          <5> QED
            BY <4>3, <4>4, <5>1, ElementOfSeq
        <4>6. at \in LiesBelow(xml, c, m)
          BY <3>1, <4>1, <4>2, <4>3, <4>5 DEF LiesBelow
        <4>7. m \in 1 .. B
          BY <1>6, <4>3, <4>6, BelowEnds
        <4>8. m <= B
          BY <4>7, BreadthIs
        <4> QED
          BY <3>1, <4>1, <4>2, <4>3, <4>8 DEF LiesBelow
      <3> QED
        BY <3>2, <3>3
    <2>4. ASSUME NEW at \in LiesBelow(xml, c, B)
          PROVE  at \in LiesBelow(xml, node, n) /\ Branch(at, node) = c /\ Front(at) # node
      <3>1. /\ at \in DOMAIN xml /\ Len(at) \in Nat /\ Len(c) \in 0 .. Len(at) /\ Len(c) # Len(at)
            /\ SubSeq(at, 1, Len(c)) = c
        BY <1>6, BelowIs
      <3>2. PICK q \in 0 .. Len(at) : q = p + 1 /\ q = Len(c) /\ p \in 0 .. q
        BY <1>1, <1>2, <3>1
      <3>3. SubSeq(at, 1, p) = node
        <4>1. \A k \in 0 .. q : SubSeq(SubSeq(at, 1, q), 1, k) = SubSeq(at, 1, k)
          BY <3>1, AroundFrom
        <4> QED
          BY <2>2, <3>1, <3>2, <4>1
      <3>4. at[p + 1] = n
        <4>1. PICK N : N = Nat \ {0}
          OBVIOUS
        <4>2. at \in Seq(N)
          BY <3>1, <3>2, <4>1, AroundInTree
        <4>3. \A k \in 1 .. q : at[k] \in N
          BY <3>1, <3>2, <4>2, ElementOfSeq
        <4>4. \A k \in 1 .. q - 1 + 1 : SubSeq(at, 1, q)[k] = at[1 + k - 1]
          BY <4>3, SubSeqProperties
        <4>5. q \in 1 .. q - 1 + 1 /\ 1 + q - 1 = q
          BY <3>2
        <4> QED
          BY <2>2, <3>1, <3>2, <4>4, <4>5
      <3>5. at \in LiesBelow(xml, node, n)
        <4>1. Len(at) > p /\ n <= n
          BY <3>1, <3>2
        <4> QED
          BY <1>2, <3>1, <3>3, <3>4, <4>1 DEF LiesBelow
      <3>6. Branch(at, node) = c
        BY <1>2, <3>1, <3>2 DEF Branch
      <3>7. Front(at) # node
        <4>1. Front(at) = node => Len(at) = Len(node) + 1
          BY <3>5, BelowIs
        <4> QED
          BY <1>1, <3>1, <4>1
      <3> QED
        BY <3>5, <3>6, <3>7
    <2>5. \A at \in LiesBelow(xml, node, n) : at \in LiesBelow(xml, node, n - 1) \cup {c} \cup LiesBelow(xml, c, B)
      BY <1>3, <2>3
    <2>6. \A at \in LiesBelow(xml, node, n - 1) \cup {c} \cup LiesBelow(xml, c, B) : at \in LiesBelow(xml, node, n)
      BY <1>4, <2>2, <2>4
    <2> QED
      BY <2>4, <2>5, <2>6
  <1> QED
    BY <1>0, <1>1, <1>4, <1>5, <1>6


ListOf(key) == <<<<key, 0>>>>

(* The ways to what lies below, and to the lists around it.                *)
LEMMA WaysBelow ==
  ASSUME NEW xml, IsTree(DOMAIN xml), NEW node \in DOMAIN xml, NEW n, NEW at \in LiesBelow(xml, node, n)
  PROVE  LET way == WayFrom(xml, Len(node), at)
             rest == WayFrom(xml, Len(node) + 1, at)
             s == Step(xml, Branch(at, node))
         IN  /\ s \in Steps(xml) /\ s[1] = xml[Branch(at, node)].name /\ s[2] \in Nat \ {0}
             /\ way \in Seq(Steps(xml)) /\ rest \in Seq(Steps(xml))
             /\ way = Under(s, rest) /\ way # <<>> /\ way[1] = s
             /\ Last(way)[2] # 0 /\ Last(way) = Step(xml, at)
             /\ Item(way, 0) \in Seq(Steps(xml)) /\ Item(way, 0) # <<>>
             /\ Last(Item(way, 0))[2] = 0
             /\ Front(at) = node => /\ rest = <<>> /\ s = Step(xml, at)
                                    /\ Item(way, 0) = ListOf(xml[at].name)
             /\ Front(at) # node => /\ rest # <<>> /\ Item(way, 0) = Under(s, Item(rest, 0))
                                    /\ Item(way, 0)[1] = s
  <1>1. PICK S : S = Steps(xml) /\ AreSteps(S)
    BY StepsAre
  <1>2. PICK p \in 0 .. Len(at) : p = Len(node) /\ p # Len(at)
    BY BelowIs
  <1>3. PICK q \in 0 .. Len(at) : q = p + 1 /\ q = Len(node) + 1 /\ (Front(at) = node <=> q = Len(at))
    <2>1. Len(node) + 1 \in 1 .. Len(at) /\ (Front(at) = node <=> Len(at) = Len(node) + 1)
      BY BelowIs
    <2>2. Len(node) + 1 \in 0 .. Len(at)
      BY <2>1
    <2> QED
      BY <1>2, <2>1, <2>2
  <1>4. PICK b : b = Branch(at, node) /\ b \in DOMAIN xml /\ b # <<>> /\ b = SubSeq(at, 1, p + 1)
    <2>1. Branch(at, node) \in Children(xml, node)
      BY BelowIs
    <2> QED
      BY <1>2, <2>1 DEF Branch, Children
  <1>5. at \in DOMAIN xml /\ at # <<>>
    BY BelowIs
  <1>6. PICK s \in S : s = Step(xml, b)
    BY <1>1, <1>4, StepsAre
  <1>7. s[1] = xml[b].name /\ s[2] \in Nat \ {0}
    <2>1. Cardinality(Namesakes(xml, b)) \in Nat \ {0}
      <3>1. /\ Cardinality(Alike(xml, b)) \in Nat
            /\ Cardinality(Namesakes(xml, b)) \in 1 .. Cardinality(Alike(xml, b))
        BY <1>4, NumberIs
      <3> QED
        BY <3>1
    <2> QED
      BY <1>6, <2>1 DEF Step
  <1>8. PICK way \in Seq(S) : way = WayFrom(xml, p, at)
    BY <1>1, <1>5, WayFromIs
  <1>9. PICK rest \in Seq(S) : rest = WayFrom(xml, q, at) /\ (q = Len(at) <=> rest = <<>>)
    <2>1. WayFrom(xml, q, at) \in Seq(S) /\ (q = Len(at) <=> WayFrom(xml, q, at) = <<>>)
      BY <1>1, <1>5, WayFromIs
    <2> QED
      BY <2>1
  <1>10. /\ way # <<>> /\ way = Under(s, rest) /\ Last(way) = Step(xml, at)
         /\ Front(way) = WayFrom(xml, p, Front(at))
    <2>1. /\ WayFrom(xml, p, at) # <<>>
          /\ WayFrom(xml, p, at) = Under(Step(xml, SubSeq(at, 1, p + 1)), WayFrom(xml, p + 1, at))
          /\ Front(WayFrom(xml, p, at)) = WayFrom(xml, p, Front(at))
          /\ Last(WayFrom(xml, p, at)) = Step(xml, at)
      BY <1>2, <1>5, WayFromParts
    <2> QED
      BY <1>3, <1>4, <1>6, <1>8, <1>9, <2>1
  <1>11. way[1] = s
    <2>1. Under(s, rest)[1] = s
      BY <1>1, PrependIs
    <2> QED
      BY <1>10, <2>1
  <1>12. Step(xml, at)[1] = xml[at].name /\ Step(xml, at)[2] # 0
    <2>1. Cardinality(Namesakes(xml, at)) # 0
      <3>1. /\ Cardinality(Alike(xml, at)) \in Nat
            /\ Cardinality(Namesakes(xml, at)) \in 1 .. Cardinality(Alike(xml, at))
        BY <1>5, NumberIs
      <3> QED
        BY <3>1
    <2> QED
      BY <2>1 DEF Step
  <1>13. /\ Item(way, 0) \in Seq(S) /\ Item(way, 0) # <<>> /\ Front(Item(way, 0)) = Front(way)
         /\ Last(Item(way, 0)) = <<xml[at].name, 0>>
    <2>1. 0 \in Nat
      OBVIOUS
    <2>2. /\ Item(way, 0) \in Seq(S) /\ Item(way, 0) # <<>> /\ Front(Item(way, 0)) = Front(way)
          /\ Last(Item(way, 0)) = <<Last(way)[1], 0>>
      BY <1>1, <1>10, <2>1, ItemIs
    <2> QED
      BY <1>10, <1>12, <2>2
  <1>14. Last(Item(way, 0))[2] = 0
    BY <1>13
  <1>15. ASSUME Front(at) = node
         PROVE  rest = <<>> /\ s = Step(xml, at) /\ Item(way, 0) = ListOf(xml[at].name)
    <2>1. rest = <<>>
      BY <1>3, <1>9, <1>15
    <2>2. s = Step(xml, at)
      <3>1. Branch(at, node) = at
        BY <1>15, BelowIs
      <3> QED
        BY <1>4, <1>6, <3>1
    <2>3. Front(way) = <<>>
      <3>1. p \in 0 .. Len(node) /\ p = Len(node)
        BY <1>2
      <3>2. WayFrom(xml, p, node) = <<>>
        BY <3>1, WayFromIs
      <3> QED
        BY <1>10, <1>15, <3>2
    <2>4. Item(way, 0) = Append(<<>>, <<xml[at].name, 0>>)
      BY <1>10, <1>12, <2>3 DEF Item
    <2> QED
      BY <2>1, <2>2, <2>4 DEF ListOf
  <1>16. ASSUME Front(at) # node
         PROVE  rest # <<>> /\ Item(way, 0) = Under(s, Item(rest, 0)) /\ Item(way, 0)[1] = s
    <2>1. rest # <<>>
      BY <1>3, <1>9, <1>16
    <2>2. 0 \in Nat
      OBVIOUS
    <2>3. Item(Under(s, rest), 0) = Under(s, Item(rest, 0))
      BY <1>1, <2>1, <2>2, PrependItem
    <2>4. Item(rest, 0) \in Seq(S)
      BY <1>1, <2>1, <2>2, ItemIs
    <2>5. Under(s, Item(rest, 0))[1] = s
      BY <1>1, <2>4, PrependIs
    <2> QED
      BY <1>10, <2>1, <2>3, <2>5
  <1>17. Last(way)[2] # 0
    BY <1>10, <1>12
  <1> QED
    BY <1>1, <1>2, <1>3, <1>4, <1>6, <1>7, <1>8, <1>9, <1>10, <1>11, <1>13, <1>14, <1>15, <1>16, <1>17

-----------------------------------------------------------------------------
(* What the first pass makes of a node                                     *)

Ways(xml, node, n) ==
  {<<>>} \cup {WayFrom(xml, Len(node), at) : at \in LiesBelow(xml, node, n)}
         \cup {Item(WayFrom(xml, Len(node), at), 0) : at \in LiesBelow(xml, node, n)}

Kind(xml, at) ==
  IF xml[at].text # NoText THEN Json("string", xml[at].text, 0)
  ELSE IF Children(xml, at) = {} THEN Json("null", NoText, 0)
  ELSE Object

Size(xml, node, n, at) ==
  Cardinality({sibling \in Alike(xml, at) : Front(at) = node => Last(sibling) <= n})

IsFunction(f) == f = [x \in DOMAIN f |-> f[x]]

(* jsonObj, with the children of a node up to number n.                    *)
IsPart(json, xml, node, n) ==
  /\ IsFunction(json)
  /\ DOMAIN json = Ways(xml, node, n)
  /\ json[<<>>] = IF LiesBelow(xml, node, n) = {} THEN Json("null", NoText, 0) ELSE Object
  /\ \A at \in LiesBelow(xml, node, n) :
       LET way == WayFrom(xml, Len(node), at) IN
       json[way] = Kind(xml, at) /\ json[Item(way, 0)] = Array(Size(xml, node, n, at))

(* What is pushed for a child.                                             *)
IsValue(json, xml, node) ==
  /\ DOMAIN json = Ways(xml, node, Breadth(xml))
  /\ json[<<>>] = Kind(xml, node)
  /\ \A at \in LiesBelow(xml, node, Breadth(xml)) :
       LET way == WayFrom(xml, Len(node), at) IN
       json[way] = Kind(xml, at) /\ json[Item(way, 0)] = Array(Cardinality(Alike(xml, at)))

(* There is one such value only.                                           *)
LEMMA PartOnce ==
  ASSUME NEW xml, NEW node, NEW n, NEW f, NEW g, IsPart(f, xml, node, n), IsPart(g, xml, node, n)
  PROVE  f = g
  <1>1. DOMAIN f = DOMAIN g /\ IsFunction(f) /\ IsFunction(g)
    BY DEF IsPart
  <1>2. ASSUME NEW way \in DOMAIN f PROVE f[way] = g[way]
    <2>1. way \in Ways(xml, node, n)
      BY DEF IsPart
    <2> QED
      BY <2>1 DEF IsPart, Ways
  <1> QED
    BY <1>1, <1>2 DEF IsFunction

(* A way begins with a step, and what follows it.                          *)
Begins(s, way) == Under(s, way) # <<>> /\ Under(s, way)[1] = s /\ Tail(Under(s, way)) = way

(* How many items a list has with the next one.                            *)
NextSize(json, list) == IF list \in DOMAIN json THEN json[list].size + 1 ELSE 1

(* push_back adds the way to the list, and those to and in the new item.   *)
IsPushed(after, json, list, s, value) ==
  LET pushed == {Under(s, way) : way \in DOMAIN value} IN
  /\ IsFunction(after)
  /\ DOMAIN after = DOMAIN json \cup {list} \cup pushed
  /\ after[<<>>] = Object
  /\ after[list] = Array(s[2])
  /\ \A way \in DOMAIN value : after[Under(s, way)] = value[way]
  /\ \A way \in DOMAIN json : way # <<>> /\ way # list /\ way \notin pushed => after[way] = json[way]

LEMMA PushBackIs ==
  ASSUME NEW json, NEW key, NEW value, NEW size, NEW list,
         <<>> \in DOMAIN json, list = ListOf(key), size = NextSize(json, list), size # 0,
         \A way \in DOMAIN value : Begins(<<key, size>>, way)
  PROVE  IsPushed(push_back(json, key, value), json, list, <<key, size>>, value)
  <1> DEFINE pushed == {Under(<<key, size>>, way) : way \in DOMAIN value}
             after == push_back(json, key, value)
             At(way) == CASE way = <<>>                          -> Object
                          [] way = list                          -> Array(size)
                          [] way \in pushed                      -> value[Tail(way)]
                          [] way \notin {<<>>, list} \cup pushed -> json[way]
  <1>1. after = [way \in DOMAIN json \cup {list} \cup pushed |-> At(way)]
    BY DEF push_back, ListOf, Under, NextSize
  <1>2. list # <<>> /\ list[1] = <<key, 0>>
    BY DEF ListOf
  <1>3. \A way \in pushed : way # <<>> /\ way # list
    <2>1. <<key, 0>> # <<key, size>>
      OBVIOUS
    <2> QED
      BY <1>2, <2>1 DEF Begins
  <1>a. \A way \in DOMAIN value : Tail(Under(<<key, size>>, way)) = way
    BY DEF Begins
  <1> HIDE DEF pushed
  <1>4. At(<<>>) = Object /\ At(list) = Array(size)
    BY <1>2, <1>3
  <1>5. \A way \in pushed : At(way) = value[Tail(way)]
    BY <1>3
  <1>6. \A way : way \notin {<<>>, list} \cup pushed => At(way) = json[way]
    OBVIOUS
  <1> HIDE DEF At
  <1>7. \A way \in DOMAIN value :
          Under(<<key, size>>, way) \in pushed /\ after[Under(<<key, size>>, way)] = value[way]
    BY <1>1, <1>5, <1>a DEF pushed
  <1>8. /\ IsFunction(after) /\ DOMAIN after = DOMAIN json \cup {list} \cup pushed
        /\ after[<<>>] = Object /\ after[list] = Array(size)
    BY <1>1, <1>4 DEF IsFunction
  <1>9. \A way \in DOMAIN json : way # <<>> /\ way # list /\ way \notin pushed => after[way] = json[way]
    BY <1>1, <1>6
  <1> QED
    BY <1>7, <1>8, <1>9 DEF pushed, IsPushed


(* The lists of a node are those of the names of its children, and no way  *)
(* to a node is the way to a list.                                         *)
LEMMA ListAt ==
  ASSUME NEW xml, IsTree(DOMAIN xml), NEW node \in DOMAIN xml, NEW n,
         NEW at \in LiesBelow(xml, node, n), NEW name
  PROVE  /\ WayFrom(xml, Len(node), at) # ListOf(name)
         /\ Item(WayFrom(xml, Len(node), at), 0) = ListOf(name)
              <=> Front(at) = node /\ xml[at].name = name
  <1>1. PICK list : list = ListOf(name)
    OBVIOUS
  <1>2. Last(list) = <<name, 0>> /\ list[1] = <<name, 0>>
    BY <1>1 DEF Last, ListOf
  <1>3. Last(list)[2] = 0 /\ list[1][2] = 0 /\ list[1][1] = name
    BY <1>2
  <1>4. PICK way, lst : way = WayFrom(xml, Len(node), at) /\ lst = Item(way, 0)
    OBVIOUS
  <1>5. way # list
    <2>1. Last(WayFrom(xml, Len(node), at))[2] # 0
      BY WaysBelow
    <2> QED
      BY <1>3, <1>4, <2>1
  <1>6. CASE Front(at) = node
    <2>1. Item(WayFrom(xml, Len(node), at), 0) = ListOf(xml[at].name)
      BY <1>6, WaysBelow
    <2>2. lst = ListOf(xml[at].name)
      BY <1>4, <2>1
    <2>3. lst[1][1] = xml[at].name
      BY <2>2 DEF ListOf
    <2> QED
      BY <1>1, <1>3, <1>4, <1>5, <1>6, <2>2, <2>3
  <1>7. CASE Front(at) # node
    <2>1. /\ Item(WayFrom(xml, Len(node), at), 0)[1] = Step(xml, Branch(at, node))
          /\ Step(xml, Branch(at, node))[2] \in Nat \ {0}
      BY <1>7, WaysBelow
    <2>2. lst[1] = Step(xml, Branch(at, node)) /\ Step(xml, Branch(at, node))[2] # 0
      BY <1>4, <2>1
    <2>3. lst # list
      BY <1>3, <2>2
    <2> QED
      BY <1>1, <1>4, <1>5, <1>7, <2>3
  <1> QED
    BY <1>6, <1>7

(* A list is there when there was a child of the name.                     *)
LEMMA ListThere ==
  ASSUME NEW xml, IsTree(DOMAIN xml), NEW node \in DOMAIN xml, NEW n, NEW name,
         ListOf(name) \in Ways(xml, node, n)
  PROVE  \E at \in LiesBelow(xml, node, n) : Front(at) = node /\ xml[at].name = name
  <1>1. ListOf(name) # <<>>
    BY DEF ListOf
  <1>2. PICK at \in LiesBelow(xml, node, n) : \/ ListOf(name) = WayFrom(xml, Len(node), at)
                                         \/ ListOf(name) = Item(WayFrom(xml, Len(node), at), 0)
    BY <1>1 DEF Ways
  <1> QED
    BY <1>2, ListAt

(* push_back gives the next child the number it has among its namesakes.   *)
ItemCounted(xml, node, n, c, json) ==
  /\ NextSize(json, ListOf(xml[c].name)) = Cardinality(Namesakes(xml, c))
  /\ \A at \in LiesBelow(xml, node, n) :
       Front(at) = node /\ xml[at].name = xml[c].name =>
         Size(xml, node, n, at) = Cardinality(Namesakes(xml, c))

LEMMA Counted ==
  ASSUME NEW xml, IsTree(DOMAIN xml), NEW node \in DOMAIN xml, NEW n \in Nat \ {0},
         NEW c \in DOMAIN xml, c = Append(node, n),
         NEW json, IsPart(json, xml, node, n - 1)
  PROVE  ItemCounted(xml, node, n, c, json)
  <1>a. PICK list : list = ListOf(xml[c].name)
    OBVIOUS
  <1> DEFINE E(m) == {s \in Alike(xml, c) : Last(s) <= m}
  <1>1. c \in Children(xml, node) /\ c # <<>> /\ Front(c) = node /\ Last(c) = n
    BY ChildAt
  <1>2. IsFiniteSet(Alike(xml, c)) /\ c \in Alike(xml, c)
    BY <1>1, NumberIs
  <1>3. ASSUME NEW s \in Alike(xml, c)
        PROVE  /\ s \in DOMAIN xml /\ s # <<>> /\ Front(s) = node /\ Alike(xml, s) = Alike(xml, c)
               /\ s \in Children(xml, node) /\ xml[s].name = xml[c].name
               /\ Last(s) \in Nat \ {0} /\ s = Append(node, Last(s))
    <2>1. s \in DOMAIN xml /\ s # <<>> /\ Front(s) = node /\ Alike(xml, s) = Alike(xml, c)
      BY <1>1, NumberIs
    <2>2. s \in Children(xml, node) /\ xml[s].name = xml[c].name
      BY <1>1 DEF Alike
    <2>3. Last(s) \in Nat \ {0} /\ s = Append(Front(s), Last(s))
      BY <2>1, PlaceIs
    <2> QED
      BY <2>1, <2>2, <2>3
  <1>4. Namesakes(xml, c) = E(n)
    BY <1>1 DEF Namesakes, Alike
  <1>5. E(n) = E(n - 1) \cup {c} /\ c \notin E(n - 1)
    <2>1. ASSUME NEW s \in Alike(xml, c)
          PROVE  Last(s) <= n <=> Last(s) <= n - 1 \/ s = c
      <3>1. PICK k \in Nat : k = Last(s) /\ s = Append(node, k)
        BY <1>3
      <3>2. k <= n <=> k <= n - 1 \/ k = n
        OBVIOUS
      <3>3. k = n <=> s = c
        BY <1>1, <3>1
      <3> QED
        BY <3>1, <3>2, <3>3
    <2>2. ~(n <= n - 1)
      OBVIOUS
    <2> QED
      BY <1>1, <1>2, <2>1, <2>2
  <1>6. IsFiniteSet(E(n - 1)) /\ Cardinality(E(n - 1)) \in Nat
    BY <1>2, FS_Subset, FS_CardinalityType
  <1>7. Cardinality(E(n)) = Cardinality(E(n - 1)) + 1
    <2> HIDE DEF E
    <2> QED
      BY <1>5, <1>6, FS_AddElement
  <1>8. ASSUME NEW m, NEW at \in LiesBelow(xml, node, m), Front(at) = node, xml[at].name = xml[c].name
        PROVE  Size(xml, node, m, at) = Cardinality(E(m)) /\ at \in E(m)
    <2>1. at \in DOMAIN xml /\ at # <<>>
      BY BelowIs
    <2>2. at \in Alike(xml, c)
      BY <1>1, <1>8, <2>1 DEF Alike, Children
    <2>3. Last(at) <= m
      <3>1. Branch(at, node) = at /\ Last(Branch(at, node)) = at[Len(node) + 1]
        BY <1>8, BelowIs
      <3> QED
        BY <3>1 DEF LiesBelow
    <2>4. Alike(xml, at) = Alike(xml, c)
      BY <1>3, <2>2
    <2> QED
      BY <1>8, <2>2, <2>3, <2>4 DEF Size
  <1>9. ASSUME NEW at \in LiesBelow(xml, node, n), Front(at) = node, xml[at].name = xml[c].name
        PROVE  Size(xml, node, n, at) = Cardinality(Namesakes(xml, c))
    BY <1>4, <1>8, <1>9
  <1>10. ASSUME NEW m, NEW at \in LiesBelow(xml, node, m), Front(at) = node, xml[at].name = xml[c].name
         PROVE  Item(WayFrom(xml, Len(node), at), 0) = list
    BY <1>a, <1>10, ListAt
  <1>11. ASSUME list \in DOMAIN json PROVE NextSize(json, list) = Cardinality(Namesakes(xml, c))
    <2>1. PICK at \in LiesBelow(xml, node, n - 1) : Front(at) = node /\ xml[at].name = xml[c].name
      BY <1>a, <1>11, ListThere DEF IsPart
    <2>2. Item(WayFrom(xml, Len(node), at), 0) = list
      BY <1>10, <2>1
    <2>3. json[list] = Array(Size(xml, node, n - 1, at))
      BY <2>2 DEF IsPart
    <2>4. json[list].size = Size(xml, node, n - 1, at)
      BY <2>3 DEF Array, Json
    <2>5. Size(xml, node, n - 1, at) = Cardinality(E(n - 1))
      BY <1>8, <2>1
    <2> QED
      BY <1>4, <1>7, <1>11, <2>4, <2>5 DEF NextSize
  <1>12. ASSUME list \notin DOMAIN json PROVE NextSize(json, list) = Cardinality(Namesakes(xml, c))
    <2>1. E(n - 1) = {}
      <3> SUFFICES ASSUME NEW s \in E(n - 1) PROVE FALSE
        OBVIOUS
      <3>1. s \in Children(xml, node) /\ Last(s) <= n - 1 /\ xml[s].name = xml[c].name /\ Front(s) = node
        BY <1>3
      <3>2. s \in LiesBelow(xml, node, n - 1)
        BY <3>1, ChildBelow
      <3>3. Item(WayFrom(xml, Len(node), s), 0) = list
        BY <1>10, <3>1, <3>2
      <3>4. list \in Ways(xml, node, n - 1)
        BY <3>2, <3>3 DEF Ways
      <3> QED
        BY <1>12, <3>4 DEF IsPart
    <2>2. Cardinality(E(n - 1)) = 0
      BY <2>1, FS_EmptySet
    <2> QED
      BY <1>4, <1>7, <1>12, <2>2 DEF NextSize
  <1> QED
    BY <1>a, <1>9, <1>11, <1>12 DEF ItemCounted


(* No other child is reached by the same step.                             *)
LEMMA BranchStep ==
  ASSUME NEW xml, IsTree(DOMAIN xml), NEW node \in DOMAIN xml,
         NEW a \in Children(xml, node), NEW b \in Children(xml, node), Step(xml, a) = Step(xml, b)
  PROVE  a = b
  <1>1. a \in DOMAIN xml /\ a # <<>> /\ Front(a) = node
    BY DEF Children
  <1>2. xml[a].name = xml[b].name /\ Cardinality(Namesakes(xml, a)) = Cardinality(Namesakes(xml, b))
    BY DEF Step
  <1>3. b \in Alike(xml, a)
    BY <1>1, <1>2 DEF Alike
  <1> QED
    BY <1>1, <1>2, <1>3, NumberIs

(* All ways are sequences of steps.                                        *)
LEMMA WaysType ==
  ASSUME NEW xml, IsTree(DOMAIN xml), NEW node \in DOMAIN xml, NEW n, NEW way \in Ways(xml, node, n)
  PROVE  way \in Seq(Steps(xml))
  <1>1. CASE way = <<>>
    BY <1>1
  <1>2. ASSUME NEW at \in LiesBelow(xml, node, n), way = WayFrom(xml, Len(node), at)
        PROVE  way \in Seq(Steps(xml))
    BY <1>2, WaysBelow
  <1>3. ASSUME NEW at \in LiesBelow(xml, node, n), way = Item(WayFrom(xml, Len(node), at), 0)
        PROVE  way \in Seq(Steps(xml))
    BY <1>3, WaysBelow
  <1> QED
    BY <1>1, <1>2, <1>3 DEF Ways

(* Where what is pushed for the next child comes to lie.                   *)
ItemAt(xml, node, c, value) ==
  LET s == Step(xml, c) IN
  /\ s = <<xml[c].name, Cardinality(Namesakes(xml, c))>>
  /\ Cardinality(Namesakes(xml, c)) \in Nat \ {0}
  /\ \A way \in DOMAIN value : Begins(s, way)
  /\ <<>> \in DOMAIN value /\ WayFrom(xml, Len(node), c) = Under(s, <<>>)
  /\ value[<<>>] = Kind(xml, c)
  /\ \A at \in LiesBelow(xml, c, Breadth(xml)) :
       LET way == WayFrom(xml, Len(c), at) IN
       /\ way \in DOMAIN value /\ Item(way, 0) \in DOMAIN value
       /\ WayFrom(xml, Len(node), at) = Under(s, way)
       /\ Item(WayFrom(xml, Len(node), at), 0) = Under(s, Item(way, 0))
       /\ value[way] = Kind(xml, at)
       /\ value[Item(way, 0)] = Array(Cardinality(Alike(xml, at)))
  /\ \A way \in DOMAIN value :
       \/ way = <<>>
       \/ \E at \in LiesBelow(xml, c, Breadth(xml)) :
            way = WayFrom(xml, Len(c), at) \/ way = Item(WayFrom(xml, Len(c), at), 0)

LEMMA PushedAt ==
  ASSUME NEW xml, IsTree(DOMAIN xml), NEW node \in DOMAIN xml, NEW n \in Nat \ {0},
         NEW c \in DOMAIN xml, c = Append(node, n), NEW value, IsValue(value, xml, c)
  PROVE  ItemAt(xml, node, c, value)
  <1>0. PICK s, p : s = Step(xml, c) /\ p = Len(node)
    OBVIOUS
  <1>1. c \in Children(xml, node) /\ Last(c) = n /\ Front(c) = node /\ Len(c) = p + 1 /\ c # <<>>
    BY <1>0, ChildAt
  <1>2. s = <<xml[c].name, Cardinality(Namesakes(xml, c))>>
    BY <1>0 DEF Step
  <1>3. Cardinality(Namesakes(xml, c)) \in Nat \ {0}
    <2>1. PICK k, l : k = Cardinality(Namesakes(xml, c)) /\ l = Cardinality(Alike(xml, c))
      OBVIOUS
    <2>2. k \in 1 .. l /\ l \in Nat
      BY <1>1, <2>1, NumberIs
    <2> QED
      BY <2>1, <2>2
  <1>4. PICK S : S = Steps(xml) /\ AreSteps(S) /\ s \in S
    BY <1>0, <1>1, StepsAre
  <1>5. ASSUME NEW way \in DOMAIN value
        PROVE  Begins(s, way)
    <2>1. way \in Seq(S)
      BY <1>4, WaysType DEF IsValue
    <2>2. AreSteps(S) /\ s \in S
      BY <1>4
    <2>3. \A r \in S : Under(r, way) # <<>> /\ Under(r, way)[1] = r /\ Tail(Under(r, way)) = way
      BY <2>1, <2>2, PrependIs
    <2> QED
      BY <2>2, <2>3 DEF Begins
  <1>6. <<>> \in DOMAIN value /\ value[<<>>] = Kind(xml, c)
    BY DEF IsValue, Ways
  <1>7. \A at \in LiesBelow(xml, node, n) :
          /\ WayFrom(xml, p, at) = Under(Step(xml, Branch(at, node)), WayFrom(xml, p + 1, at))
          /\ Front(at) = node => WayFrom(xml, p + 1, at) = <<>>
          /\ Front(at) # node => Item(WayFrom(xml, p, at), 0)
                                   = Under(Step(xml, Branch(at, node)), Item(WayFrom(xml, p + 1, at), 0))
    BY <1>0, WaysBelow
  <1>8. c \in LiesBelow(xml, node, n) /\ Branch(c, node) = c
    <2>1. Last(c) <= n
      BY <1>1
    <2>2. c \in Children(xml, node)
      BY <1>1
    <2> HIDE <1>1, <1>7
    <2> QED
      BY <2>1, <2>2, ChildBelow
  <1>9. \A at \in LiesBelow(xml, c, Breadth(xml)) :
          at \in LiesBelow(xml, node, n) /\ Branch(at, node) = c /\ Front(at) # node
    BY BelowOneMore
  <1>10. WayFrom(xml, p, c) = Under(s, <<>>)
    BY <1>0, <1>1, <1>7, <1>8
  <1>11. ASSUME NEW at \in LiesBelow(xml, c, Breadth(xml))
         PROVE  LET way == WayFrom(xml, Len(c), at) IN
                /\ way \in DOMAIN value /\ Item(way, 0) \in DOMAIN value
                /\ WayFrom(xml, p, at) = Under(s, way)
                /\ Item(WayFrom(xml, p, at), 0) = Under(s, Item(way, 0))
                /\ value[way] = Kind(xml, at)
                /\ value[Item(way, 0)] = Array(Cardinality(Alike(xml, at)))
    <2>1. PICK way : way = WayFrom(xml, Len(c), at)
      OBVIOUS
    <2>2. way = WayFrom(xml, p + 1, at)
      BY <1>1, <2>1
    <2>3. WayFrom(xml, p, at) = Under(s, way) /\ Item(WayFrom(xml, p, at), 0) = Under(s, Item(way, 0))
      BY <1>0, <1>7, <1>9, <2>2
    <2>4. way \in DOMAIN value /\ Item(way, 0) \in DOMAIN value
      BY <2>1 DEF IsValue, Ways
    <2>5. value[way] = Kind(xml, at) /\ value[Item(way, 0)] = Array(Cardinality(Alike(xml, at)))
      BY <2>1 DEF IsValue
    <2> QED
      BY <2>1, <2>3, <2>4, <2>5, Zenon
  <1>12. \A way \in DOMAIN value :
              \/ way = <<>>
              \/ \E at \in LiesBelow(xml, c, Breadth(xml)) :
                   way = WayFrom(xml, Len(c), at) \/ way = Item(WayFrom(xml, Len(c), at), 0)
    BY DEF IsValue, Ways
  <1> QED
    BY <1>0, <1>2, <1>3, <1>5, <1>6, <1>10, <1>11, <1>12 DEF ItemAt

(* It is where nothing was before.                                         *)
LEMMA PushedBeside ==
  ASSUME NEW xml, IsTree(DOMAIN xml), NEW node \in DOMAIN xml, NEW n \in Nat \ {0},
         NEW c \in DOMAIN xml, c = Append(node, n), Step(xml, c)[2] # 0,
         NEW at \in LiesBelow(xml, node, n - 1)
  PROVE  LET way == WayFrom(xml, Len(node), at) IN
         /\ way # <<>> /\ way[1] # Step(xml, c)
         /\ Item(way, 0) # <<>> /\ Item(way, 0)[1] # Step(xml, c)
  <1>1. Branch(at, node) # c
    BY BelowOneMore
  <1>2. Branch(at, node) \in Children(xml, node) /\ c \in Children(xml, node)
    BY BelowIs, ChildAt
  <1>3. Step(xml, Branch(at, node)) # Step(xml, c)
    BY <1>1, <1>2, BranchStep
  <1>4. PICK way, list : way = WayFrom(xml, Len(node), at) /\ list = Item(way, 0)
    OBVIOUS
  <1>5. way # <<>> /\ way[1] = Step(xml, Branch(at, node)) /\ list # <<>>
    BY <1>4, WaysBelow
  <1>6. Front(at) # node => list[1] = Step(xml, Branch(at, node))
    BY <1>4, WaysBelow
  <1>7. Front(at) = node => list = ListOf(xml[at].name)
    BY <1>4, WaysBelow
  <1>8. Front(at) = node => list[1][2] = 0
    BY <1>7 DEF ListOf
  <1> QED
    BY <1>3, <1>4, <1>5, <1>6, <1>8

(* Further in, all siblings are counted.                                   *)
LEMMA SizeFurtherIn ==
  ASSUME NEW xml, NEW node, NEW n, NEW at, Front(at) # node
  PROVE  Size(xml, node, n, at) = Cardinality(Alike(xml, at))
  <1>1. {sibling \in Alike(xml, at) : Front(at) = node => Last(sibling) <= n} = Alike(xml, at)
    OBVIOUS
  <1> QED
    BY <1>1 DEF Size

(* A child of another name does not count.                                 *)
LEMMA SizeOfOthers ==
  ASSUME NEW xml, IsTree(DOMAIN xml), NEW node \in DOMAIN xml, NEW n \in Nat \ {0},
         NEW at \in LiesBelow(xml, node, n - 1), Front(at) = node,
         Append(node, n) \in DOMAIN xml => xml[Append(node, n)].name # xml[at].name
  PROVE  Size(xml, node, n, at) = Size(xml, node, n - 1, at)
  <1>1. at \in DOMAIN xml /\ at # <<>>
    BY BelowIs
  <1>2. ASSUME NEW sibling \in Alike(xml, at) PROVE Last(sibling) <= n <=> Last(sibling) <= n - 1
    <2>1. sibling \in DOMAIN xml /\ sibling # <<>> /\ Front(sibling) = node
      BY <1>1, NumberIs
    <2>2. Last(sibling) \in Nat \ {0} /\ sibling = Append(node, Last(sibling))
      BY <2>1, PlaceIs
    <2>3. xml[sibling].name = xml[at].name
      BY DEF Alike
    <2>4. Last(sibling) # n
      BY <2>1, <2>2, <2>3
    <2>5. PICK k \in Nat : k = Last(sibling) /\ k # n
      BY <2>2, <2>4
    <2>6. k <= n <=> k <= n - 1
      BY <2>5
    <2> QED
      BY <2>5, <2>6
  <1>3. {sibling \in Alike(xml, at) : Front(at) = node => Last(sibling) <= n}
          = {sibling \in Alike(xml, at) : Front(at) = node => Last(sibling) <= n - 1}
    BY <1>2
  <1> QED
    BY <1>3 DEF Size

(* All the numbers of what push_back does.                                 *)
LEMMA PushedFacts ==
  ASSUME NEW xml, IsTree(DOMAIN xml), NEW node \in DOMAIN xml, NEW n \in Nat \ {0},
         NEW c \in DOMAIN xml, c = Append(node, n),
         NEW json, IsPart(json, xml, node, n - 1), NEW value, IsValue(value, xml, c)
  PROVE  /\ IsPushed(push_back(json, xml[c].name, value), json, ListOf(xml[c].name), Step(xml, c), value)
         /\ \A way \in DOMAIN value : Begins(Step(xml, c), way)
         /\ Step(xml, c)[2] # 0
         /\ \A at \in LiesBelow(xml, node, n) : Front(at) = node /\ xml[at].name = xml[c].name =>
                                              Size(xml, node, n, at) = Step(xml, c)[2]
  <1>1. <<>> \in DOMAIN json
    BY DEF IsPart, Ways
  <1>2. PICK name, list, size : name = xml[c].name /\ list = ListOf(xml[c].name) /\ size = NextSize(json, list)
    OBVIOUS
  <1>3. /\ size = Cardinality(Namesakes(xml, c))
        /\ \A at \in LiesBelow(xml, node, n) :
             Front(at) = node /\ xml[at].name = xml[c].name => Size(xml, node, n, at) = size
    <2>1. ItemCounted(xml, node, n, c, json)
      BY Counted
    <2> QED
      BY <1>2, <2>1 DEF ItemCounted
  <1>4. PICK s : s = Step(xml, c)
    OBVIOUS
  <1>5. /\ s = <<xml[c].name, Cardinality(Namesakes(xml, c))>>
        /\ Cardinality(Namesakes(xml, c)) \in Nat \ {0}
        /\ \A way \in DOMAIN value : Begins(s, way)
    <2>1. ItemAt(xml, node, c, value)
      BY PushedAt
    <2> QED
      BY <1>4, <2>1 DEF ItemAt
  <1>6. s = <<name, size>> /\ size # 0 /\ s[2] # 0 /\ s[2] = size
    BY <1>2, <1>3, <1>5
  <1>7. \A way \in DOMAIN value : Begins(<<name, size>>, way)
    BY <1>5, <1>6
  <1>8. IsPushed(push_back(json, name, value), json, list, <<name, size>>, value)
    <2>1. list = ListOf(name) /\ size # 0 /\ size = NextSize(json, list)
      BY <1>2, <1>6
    <2> QED
      BY <1>1, <1>7, <2>1, PushBackIs
  <1> QED
    BY <1>2, <1>3, <1>4, <1>5, <1>6, <1>8

(* push_back of the next child.                                            *)
LEMMA Pushed ==
  ASSUME NEW xml, IsTree(DOMAIN xml), NEW node \in DOMAIN xml, NEW n \in Nat \ {0},
         NEW c \in DOMAIN xml, c = Append(node, n),
         NEW json, IsPart(json, xml, node, n - 1), NEW value, IsValue(value, xml, c)
  PROVE  IsPart(push_back(json, xml[c].name, value), xml, node, n)
  <1> DEFINE Way(at) == WayFrom(xml, Len(node), at)
             List(at) == Item(WayFrom(xml, Len(node), at), 0)
             WayIn(at) == WayFrom(xml, Len(c), at)
             ListIn(at) == Item(WayFrom(xml, Len(c), at), 0)
             Early == LiesBelow(xml, node, n - 1)
             Late == LiesBelow(xml, c, Breadth(xml))
  <1>1. /\ IsPushed(push_back(json, xml[c].name, value), json, ListOf(xml[c].name), Step(xml, c), value)
        /\ \A way \in DOMAIN value : Begins(Step(xml, c), way)
        /\ Step(xml, c)[2] # 0
        /\ \A at \in LiesBelow(xml, node, n) : Front(at) = node /\ xml[at].name = xml[c].name =>
                                             Size(xml, node, n, at) = Step(xml, c)[2]
    BY PushedFacts
  <1>2. PICK name, list, s, after, pushed :
          /\ name = xml[c].name /\ list = ListOf(xml[c].name) /\ s = Step(xml, c)
          /\ after = push_back(json, xml[c].name, value)
          /\ pushed = {Under(s, way) : way \in DOMAIN value}
    OBVIOUS
  <1>3. /\ IsFunction(after)
        /\ DOMAIN after = DOMAIN json \cup {list} \cup pushed
        /\ after[<<>>] = Object
        /\ after[list] = Array(s[2])
        /\ \A way \in DOMAIN value : after[Under(s, way)] = value[way]
        /\ \A way \in DOMAIN json : way # <<>> /\ way # list /\ way \notin pushed => after[way] = json[way]
    BY <1>1, <1>2 DEF IsPushed
  <1>4. s[2] # 0 /\ \A way \in pushed : way[1] = s
    BY <1>1, <1>2 DEF Begins
  <1>5. \A at \in LiesBelow(xml, node, n) : Front(at) = node /\ xml[at].name = name =>
                                          Size(xml, node, n, at) = s[2]
    BY <1>1, <1>2
  <1>6. /\ c \in Children(xml, node) /\ Last(c) = n /\ Front(c) = node /\ c # <<>>
        /\ LiesBelow(xml, node, n) = Early \cup {c} \cup Late
        /\ \A at \in Late : Front(at) # node
    BY ChildAt, BelowOneMore
  <1>7. /\ <<>> \in DOMAIN value /\ Way(c) = Under(s, <<>>) /\ value[<<>>] = Kind(xml, c)
        /\ \A at \in Late : /\ WayIn(at) \in DOMAIN value /\ ListIn(at) \in DOMAIN value
                            /\ Way(at) = Under(s, WayIn(at)) /\ List(at) = Under(s, ListIn(at))
                            /\ value[WayIn(at)] = Kind(xml, at)
                            /\ value[ListIn(at)] = Array(Cardinality(Alike(xml, at)))
    <2>0. ItemAt(xml, node, c, value)
      BY PushedAt
    <2>1. /\ <<>> \in DOMAIN value /\ value[<<>>] = Kind(xml, c)
          /\ WayFrom(xml, Len(node), c) = Under(Step(xml, c), <<>>)
      BY <2>0 DEF ItemAt
    <2>2. ASSUME NEW at \in Late
          PROVE  /\ WayIn(at) \in DOMAIN value /\ ListIn(at) \in DOMAIN value
                 /\ WayFrom(xml, Len(node), at) = Under(Step(xml, c), WayIn(at))
                 /\ Item(WayFrom(xml, Len(node), at), 0) = Under(Step(xml, c), ListIn(at))
                 /\ value[WayIn(at)] = Kind(xml, at)
                 /\ value[ListIn(at)] = Array(Cardinality(Alike(xml, at)))
      BY <2>0 DEF ItemAt
    <2> HIDE DEF Late, WayIn, ListIn
    <2> QED
      BY <1>2, <2>1, <2>2
  <1>8. \A way \in DOMAIN value : way = <<>> \/ \E at \in Late : way = WayIn(at) \/ way = ListIn(at)
    BY DEF IsValue, Ways
  <1>9. List(c) = list /\ c \in LiesBelow(xml, node, n)
    <2>1. c \in LiesBelow(xml, node, n)
      BY <1>6
    <2>2. \A at \in LiesBelow(xml, node, n) :
            Front(at) = node => Item(WayFrom(xml, Len(node), at), 0) = ListOf(xml[at].name)
      BY WaysBelow
    <2> QED
      BY <1>2, <1>6, <2>1, <2>2
  <1>10. ASSUME NEW at \in Early
         PROVE  /\ Way(at) # <<>> /\ Way(at) # list /\ Way(at) \notin pushed
                /\ List(at) # <<>> /\ List(at) \notin pushed
                /\ List(at) = list <=> Front(at) = node /\ xml[at].name = name
    <2>1. Way(at) # <<>> /\ Way(at)[1] # Step(xml, c) /\ List(at) # <<>> /\ List(at)[1] # Step(xml, c)
      BY <1>1, PushedBeside
    <2>2. Way(at)[1] # s /\ List(at)[1] # s
      BY <1>2, <2>1
    <2>3. Way(at) # list /\ (List(at) = list <=> Front(at) = node /\ xml[at].name = name)
      BY <1>2, ListAt
    <2> QED
      BY <1>4, <2>1, <2>2, <2>3
  <1>11. DOMAIN json = {<<>>} \cup {Way(at) : at \in Early} \cup {List(at) : at \in Early}
    BY DEF IsPart, Ways
  <1>12. pushed = {Way(c)} \cup {Way(at) : at \in Late} \cup {List(at) : at \in Late}
    <2> HIDE DEF Early, Late, Way, List, WayIn, ListIn
    <2>1. ASSUME NEW way \in DOMAIN value
          PROVE  Under(s, way) \in {Way(c)} \cup {Way(at) : at \in Late} \cup {List(at) : at \in Late}
      BY <1>7, <1>8
    <2>2. /\ Way(c) \in pushed
          /\ \A at \in Late : Way(at) \in pushed /\ List(at) \in pushed
      BY <1>2, <1>7
    <2> QED
      BY <1>2, <2>1, <2>2
  <1>13. DOMAIN after = Ways(xml, node, n)
    <2>1. Ways(xml, node, n) = {<<>>} \cup {Way(at) : at \in LiesBelow(xml, node, n)}
                                      \cup {List(at) : at \in LiesBelow(xml, node, n)}
      BY DEF Ways
    <2> HIDE DEF Early, Late, Way, List
    <2> QED
      BY <1>3, <1>6, <1>9, <1>11, <1>12, <2>1
  <1>14. after[<<>>] = IF LiesBelow(xml, node, n) = {} THEN Json("null", NoText, 0) ELSE Object
    BY <1>3, <1>9
  <1>15. after[Way(c)] = Kind(xml, c) /\ after[List(c)] = Array(Size(xml, node, n, c))
    <2>1. Size(xml, node, n, c) = s[2]
      BY <1>2, <1>5, <1>6, <1>9
    <2> QED
      BY <1>3, <1>7, <1>9, <2>1
  <1>16. ASSUME NEW at \in Late
         PROVE  after[Way(at)] = Kind(xml, at) /\ after[List(at)] = Array(Size(xml, node, n, at))
    <2>1. Size(xml, node, n, at) = Cardinality(Alike(xml, at))
      BY <1>6, SizeFurtherIn
    <2> HIDE DEF Late, Way, List, WayIn, ListIn
    <2> QED
      BY <1>3, <1>7, <2>1
  <1>17. ASSUME NEW at \in Early
         PROVE  after[Way(at)] = Kind(xml, at) /\ after[List(at)] = Array(Size(xml, node, n, at))
    <2>1. /\ json[Way(at)] = Kind(xml, at) /\ json[List(at)] = Array(Size(xml, node, n - 1, at))
          /\ Way(at) \in DOMAIN json /\ List(at) \in DOMAIN json
      BY <1>11 DEF IsPart
    <2>2. after[Way(at)] = Kind(xml, at)
      BY <1>3, <1>10, <2>1
    <2>3. CASE List(at) = list
      <3>1. Front(at) = node /\ xml[at].name = name
        BY <1>10, <2>3
      <3>2. Size(xml, node, n, at) = s[2]
        BY <1>5, <1>6, <3>1
      <3> QED
        BY <1>3, <2>2, <2>3, <3>2
    <2>4. CASE List(at) # list
      <3>1. after[List(at)] = json[List(at)]
        BY <1>3, <1>10, <2>1, <2>4
      <3>2. Size(xml, node, n, at) = Size(xml, node, n - 1, at)
        <4>1. CASE Front(at) = node
          <5>1. xml[Append(node, n)].name # xml[at].name
            BY <1>2, <1>10, <2>4, <4>1
          <5> QED
            BY <4>1, <5>1, SizeOfOthers
        <4>2. CASE Front(at) # node
          BY <4>2, SizeFurtherIn
        <4> QED
          BY <4>1, <4>2
      <3> QED
        BY <2>1, <2>2, <3>1, <3>2
    <2> QED
      BY <2>3, <2>4
  <1>18. \A at \in LiesBelow(xml, node, n) :
           after[Way(at)] = Kind(xml, at) /\ after[List(at)] = Array(Size(xml, node, n, at))
    BY <1>6, <1>15, <1>16, <1>17
  <1>19. IsPart(after, xml, node, n)
    BY <1>3, <1>13, <1>14, <1>18 DEF IsPart
  <1> QED
    BY <1>2, <1>19

(* A number without a child changes nothing.                               *)
LEMMA NotPushed ==
  ASSUME NEW xml, IsTree(DOMAIN xml), NEW node \in DOMAIN xml, NEW n \in Nat \ {0},
         Append(node, n) \notin DOMAIN xml, NEW json, IsPart(json, xml, node, n - 1)
  PROVE  IsPart(json, xml, node, n)
  <1>1. LiesBelow(xml, node, n) = LiesBelow(xml, node, n - 1)
    BY BelowOneMore
  <1>2. ASSUME NEW at \in LiesBelow(xml, node, n - 1)
        PROVE  Size(xml, node, n, at) = Size(xml, node, n - 1, at)
    <2>1. CASE Front(at) = node
      BY <2>1, SizeOfOthers
    <2>2. CASE Front(at) # node
      BY <2>2, SizeFurtherIn
    <2> QED
      BY <2>1, <2>2
  <1>3. Ways(xml, node, n) = Ways(xml, node, n - 1)
    BY <1>1 DEF Ways
  <1> QED
    BY <1>1, <1>2, <1>3 DEF IsPart

(* Nothing is null.                                                        *)
LEMMA NothingPushed ==
  ASSUME NEW xml, IsTree(DOMAIN xml), NEW node \in DOMAIN xml
  PROVE  IsPart(Null, xml, node, 0)
  <1>1. LiesBelow(xml, node, 0) = {}
    BY BelowEnds
  <1> QED
    BY <1>1 DEF IsPart, Ways, Null, IsFunction

(* What is below a node is below its children.                             *)
LEMMA NothingBelow ==
  ASSUME NEW xml, IsTree(DOMAIN xml), NEW node \in DOMAIN xml
  PROVE  LiesBelow(xml, node, Breadth(xml)) = {} <=> Children(xml, node) = {}
  <1>1. ASSUME NEW at \in LiesBelow(xml, node, Breadth(xml)) PROVE Children(xml, node) # {}
    BY BelowIs
  <1>2. ASSUME NEW child \in Children(xml, node) PROVE LiesBelow(xml, node, Breadth(xml)) # {}
    <2>1. child \in DOMAIN xml \ {<<>>}
      BY DEF Children
    <2>2. Last(child) <= Breadth(xml)
      BY <2>1, BreadthIs
    <2> QED
      BY <2>2, ChildBelow
  <1> QED
    BY <1>1, <1>2

(* With all its children, it is what is pushed for a node without text.    *)
LEMMA PartIsValue ==
  ASSUME NEW xml, IsTree(DOMAIN xml), NEW node \in DOMAIN xml, xml[node].text = NoText,
         NEW json, IsPart(json, xml, node, Breadth(xml))
  PROVE  IsValue(json, xml, node)
  <1>1. json[<<>>] = Kind(xml, node)
    BY NothingBelow DEF IsPart, Kind
  <1>2. ASSUME NEW at \in LiesBelow(xml, node, Breadth(xml))
        PROVE  Size(xml, node, Breadth(xml), at) = Cardinality(Alike(xml, at))
    <2>1. at \in DOMAIN xml /\ at # <<>>
      BY BelowIs
    <2>2. ASSUME NEW sibling \in Alike(xml, at) PROVE Last(sibling) <= Breadth(xml)
      <3>1. sibling \in DOMAIN xml \ {<<>>}
        BY <2>1, NumberIs
      <3> QED
        BY <3>1, BreadthIs
    <2>3. {sibling \in Alike(xml, at) : Front(at) = node => Last(sibling) <= Breadth(xml)}
            = Alike(xml, at)
      BY <2>2
    <2> QED
      BY <2>3 DEF Size
  <1> QED
    BY <1>1, <1>2 DEF IsPart, IsValue

(* A text is pushed as a string.                                           *)
LEMMA TextIsValue ==
  ASSUME NEW xml, IsDocument(xml), NEW node \in DOMAIN xml, xml[node].text # NoText
  PROVE  IsValue(String(xml[node].text), xml, node)
  <1>1. IsTree(DOMAIN xml) /\ Children(xml, node) = {}
    BY DEF IsDocument
  <1>2. LiesBelow(xml, node, Breadth(xml)) = {}
    BY <1>1, NothingBelow
  <1> QED
    BY <1>2 DEF IsValue, Ways, String, Kind

-----------------------------------------------------------------------------
(* The recursion                                                           *)

ChildJson(xml, json, child) ==
  IF xml[child].text # NoText THEN String(xml[child].text) ELSE json[child]

NextObj(xml, json, node, obj, n) ==
  IF n = 0 THEN Null
  ELSE IF Append(node, n) \in DOMAIN xml
  THEN push_back(obj[n - 1], xml[Append(node, n)].name, ChildJson(xml, json, Append(node, n)))
  ELSE obj[n - 1]

Objects(xml, json, node) ==
  CHOOSE obj : obj = [n \in 0 .. Breadth(xml) |-> NextObj(xml, json, node, obj, n)]

Whole(xml) ==
  CHOOSE json : json = [node \in DOMAIN xml |-> Objects(xml, json, node)[Breadth(xml)]]

(* So it is written.                                                       *)
LEMMA WholeIs ==
  ASSUME NEW xml
  PROVE  xmlToJsonObject(xml) = Whole(xml)[<<>>]
  BY DEF xmlToJsonObject, Whole, Objects, NextObj, ChildJson

(* What is pushed for a child, when the recursion has done its part.       *)
LEMMA ChildValue ==
  ASSUME NEW xml, IsDocument(xml), NEW json, NEW child \in DOMAIN xml,
         IsPart(json[child], xml, child, Breadth(xml))
  PROVE  IsValue(ChildJson(xml, json, child), xml, child)
  <1>1. IsTree(DOMAIN xml)
    BY DEF IsDocument
  <1>2. CASE xml[child].text # NoText
    BY <1>2, TextIsValue DEF ChildJson
  <1>3. CASE xml[child].text = NoText
    BY <1>1, <1>3, PartIsValue DEF ChildJson
  <1> QED
    BY <1>2, <1>3

(* The children are done.                                                  *)
ChildrenDone(xml, json, node) ==
  \A child \in Children(xml, node) : IsPart(json[child], xml, child, Breadth(xml))

(* One number more.                                                        *)
LEMMA NextObjIs ==
  ASSUME NEW xml, IsDocument(xml), NEW json, NEW node \in DOMAIN xml, ChildrenDone(xml, json, node),
         NEW n \in Nat \ {0}, NEW obj, IsPart(obj[n - 1], xml, node, n - 1)
  PROVE  IsPart(NextObj(xml, json, node, obj, n), xml, node, n)
  <1>1. IsTree(DOMAIN xml)
    BY DEF IsDocument
  <1>2. PICK before : before = obj[n - 1]
    OBVIOUS
  <1>3. IsPart(before, xml, node, n - 1)
    BY <1>2
  <1>4. CASE Append(node, n) \in DOMAIN xml
    <2>1. PICK c \in DOMAIN xml : c = Append(node, n)
      BY <1>4
    <2>2. c \in Children(xml, node)
      BY <1>1, <2>1, ChildAt
    <2>3. PICK value : value = ChildJson(xml, json, c)
      OBVIOUS
    <2>4. IsValue(value, xml, c)
      BY <2>2, <2>3, ChildValue DEF ChildrenDone
    <2>5. IsPart(push_back(before, xml[c].name, value), xml, node, n)
      BY <1>1, <1>3, <2>1, <2>4, Pushed
    <2>6. NextObj(xml, json, node, obj, n) = push_back(before, xml[c].name, value)
      BY <1>2, <1>4, <2>1, <2>3 DEF NextObj
    <2> QED
      BY <2>5, <2>6
  <1>5. CASE Append(node, n) \notin DOMAIN xml
    <2>1. IsPart(before, xml, node, n)
      BY <1>1, <1>3, <1>5, NotPushed
    <2>2. NextObj(xml, json, node, obj, n) = before
      BY <1>2, <1>5 DEF NextObj
    <2> QED
      BY <2>1, <2>2
  <1> QED
    BY <1>4, <1>5

(* There is such a value, for every node and number.                       *)
LEMMA PartsExist ==
  ASSUME NEW xml, IsDocument(xml), NEW json, NEW node \in DOMAIN xml, ChildrenDone(xml, json, node),
         NEW n \in Nat
  PROVE  \E f : IsPart(f, xml, node, n)
  <1> DEFINE S == {m \in Nat : \E f : IsPart(f, xml, node, m)}
  <1>1. 0 \in S
    BY NothingPushed DEF IsDocument
  <1>2. ASSUME NEW m \in Nat, m \in S PROVE m + 1 \in S
    <2>1. PICK f : IsPart(f, xml, node, m)
      BY <1>2
    <2>2. PICK obj : obj[m] = f
      <3>1. [k \in {m} |-> f][m] = f
        OBVIOUS
      <3> QED
        BY <3>1
    <2>3. PICK k \in Nat \ {0} : k = m + 1 /\ k - 1 = m
      OBVIOUS
    <2>4. IsPart(obj[k - 1], xml, node, k - 1)
      BY <2>1, <2>2, <2>3
    <2>5. IsPart(NextObj(xml, json, node, obj, k), xml, node, k)
      BY <2>4, NextObjIs
    <2> QED
      BY <2>3, <2>5
  <1>3. Nat \subseteq S
    <2> HIDE DEF S
    <2> QED
      BY <1>1, <1>2, Induction
  <1> QED
    BY <1>3

Part(xml, node, n) == CHOOSE f : IsPart(f, xml, node, n)

(* So the inner recursion has a solution, and every solution is this one.  *)
LEMMA ObjectsIs ==
  ASSUME NEW xml, IsDocument(xml), NEW json, NEW node \in DOMAIN xml, ChildrenDone(xml, json, node)
  PROVE  IsPart(Objects(xml, json, node)[Breadth(xml)], xml, node, Breadth(xml))
  <1>1. IsTree(DOMAIN xml)
    BY DEF IsDocument
  <1>2. PICK B \in Nat : B = Breadth(xml)
    BY <1>1, BreadthIs
  <1>3. \A n \in Nat : IsPart(Part(xml, node, n), xml, node, n)
    BY PartsExist DEF Part
  <1> DEFINE Solves(obj) == obj = [n \in 0 .. B |-> NextObj(xml, json, node, obj, n)]
  <1>4. \E obj : Solves(obj)
    <2>1. PICK obj : obj = [n \in 0 .. B |-> Part(xml, node, n)]
      OBVIOUS
    <2>2. ASSUME NEW n \in 0 .. B PROVE Part(xml, node, n) = NextObj(xml, json, node, obj, n)
      <3>1. CASE n = 0
        <4>1. IsPart(Null, xml, node, 0)
          BY <1>1, NothingPushed
        <4>2. IsPart(Part(xml, node, 0), xml, node, 0)
          BY <1>3
        <4>3. Part(xml, node, 0) = Null
          BY <4>1, <4>2, PartOnce
        <4> QED
          BY <3>1, <4>3 DEF NextObj
      <3>2. CASE n # 0
        <4>1. n \in Nat \ {0} /\ n - 1 \in 0 .. B /\ n - 1 \in Nat
          BY <3>2
        <4>2. IsPart(obj[n - 1], xml, node, n - 1)
          BY <1>3, <2>1, <4>1
        <4>3. IsPart(NextObj(xml, json, node, obj, n), xml, node, n)
          BY <4>1, <4>2, NextObjIs
        <4>4. IsPart(Part(xml, node, n), xml, node, n)
          BY <1>3, <4>1
        <4> QED
          BY <4>3, <4>4, PartOnce
      <3> QED
        BY <3>1, <3>2
    <2>3. Solves(obj)
      BY <2>1, <2>2
    <2> QED
      BY <2>3
  <1>5. PICK obj : obj = Objects(xml, json, node)
    OBVIOUS
  <1>6. Solves(obj)
    <2>1. obj = CHOOSE f : Solves(f)
      BY <1>2, <1>5 DEF Objects
    <2> HIDE DEF Solves
    <2> QED
      BY <1>4, <2>1
  <1>7. \A n \in 0 .. B : obj[n] = NextObj(xml, json, node, obj, n)
    BY <1>6
  <1> DEFINE S == {n \in Nat : n <= B => IsPart(obj[n], xml, node, n)}
  <1>8. 0 \in S
    <2>1. 0 \in 0 .. B
      OBVIOUS
    <2>2. obj[0] = Null
      BY <1>7, <2>1 DEF NextObj
    <2> QED
      BY <1>1, <2>2, NothingPushed
  <1>9. ASSUME NEW n \in Nat, n \in S PROVE n + 1 \in S
    <2> SUFFICES ASSUME n + 1 <= B PROVE IsPart(obj[n + 1], xml, node, n + 1)
      OBVIOUS
    <2>1. PICK k \in Nat \ {0} : k = n + 1 /\ k - 1 = n /\ k \in 0 .. B
      OBVIOUS
    <2>2. IsPart(obj[k - 1], xml, node, k - 1)
      BY <1>9, <2>1
    <2>3. IsPart(NextObj(xml, json, node, obj, k), xml, node, k)
      BY <2>2, NextObjIs
    <2> QED
      BY <1>7, <2>1, <2>3
  <1>10. Nat \subseteq S
    <2> HIDE DEF S
    <2> QED
      BY <1>8, <1>9, Induction
  <1>11. IsPart(obj[B], xml, node, B)
    BY <1>10
  <1> QED
    BY <1>2, <1>5, <1>11

(* And so has the outer one.                                               *)
LEMMA EveryPart ==
  ASSUME NEW xml, IsDocument(xml), NEW node \in DOMAIN xml
  PROVE  \E f : IsPart(f, xml, node, Breadth(xml))
  <1>1. IsTree(DOMAIN xml)
    BY DEF IsDocument
  <1>2. Breadth(xml) \in Nat
    BY <1>1, BreadthIs
  <1> DEFINE S == {at \in DOMAIN xml : \E f : IsPart(f, xml, at, Breadth(xml))}
  <1>3. ASSUME NEW at \in DOMAIN xml, \A child \in Children(xml, at) : child \in S PROVE at \in S
    <2>1. PICK json : json = [child \in Children(xml, at) |-> Part(xml, child, Breadth(xml))]
      OBVIOUS
    <2>2. ChildrenDone(xml, json, at)
      BY <1>3, <2>1 DEF ChildrenDone, Part
    <2> QED
      BY <1>2, <2>2, PartsExist
  <1>4. DOMAIN xml \subseteq S
    <2> HIDE DEF S
    <2> QED
      BY <1>1, <1>3, TreeInduction
  <1> QED
    BY <1>4

LEMMA WholeSolves ==
  ASSUME NEW xml, IsDocument(xml)
  PROVE  \A node \in DOMAIN xml : Whole(xml)[node] = Objects(xml, Whole(xml), node)[Breadth(xml)]
  <1> DEFINE Solves(json) == json = [node \in DOMAIN xml |-> Objects(xml, json, node)[Breadth(xml)]]
  <1>1. IsTree(DOMAIN xml)
    BY DEF IsDocument
  <1>2. \A node \in DOMAIN xml : IsPart(Part(xml, node, Breadth(xml)), xml, node, Breadth(xml))
    BY EveryPart DEF Part
  <1>3. PICK json : json = [node \in DOMAIN xml |-> Part(xml, node, Breadth(xml))]
    OBVIOUS
  <1>4. ASSUME NEW node \in DOMAIN xml
        PROVE  Part(xml, node, Breadth(xml)) = Objects(xml, json, node)[Breadth(xml)]
    <2>1. ChildrenDone(xml, json, node)
      BY <1>2, <1>3 DEF ChildrenDone, Children
    <2>2. IsPart(Objects(xml, json, node)[Breadth(xml)], xml, node, Breadth(xml))
      BY <2>1, ObjectsIs
    <2>3. IsPart(Part(xml, node, Breadth(xml)), xml, node, Breadth(xml))
      BY <1>2
    <2> QED
      BY <2>2, <2>3, PartOnce
  <1>5. Solves(json)
    BY <1>3, <1>4
  <1>6. Solves(Whole(xml))
    <2>1. Whole(xml) = CHOOSE f : Solves(f)
      BY DEF Whole
    <2> HIDE DEF Solves
    <2> QED
      BY <1>5, <2>1
  <1> QED
    BY <1>6

(* What xmlToJsonObject makes of a document, in closed form.               *)
LEMMA WholeIsPart ==
  ASSUME NEW xml, IsDocument(xml)
  PROVE  IsPart(xmlToJsonObject(xml), xml, <<>>, Breadth(xml))
  <1>1. IsTree(DOMAIN xml)
    BY DEF IsDocument
  <1>2. PICK json : json = Whole(xml)
    OBVIOUS
  <1>3. \A node \in DOMAIN xml : json[node] = Objects(xml, json, node)[Breadth(xml)]
    BY <1>2, WholeSolves
  <1> DEFINE S == {at \in DOMAIN xml : IsPart(json[at], xml, at, Breadth(xml))}
  <1>4. ASSUME NEW at \in DOMAIN xml, \A child \in Children(xml, at) : child \in S PROVE at \in S
    <2>1. ChildrenDone(xml, json, at)
      BY <1>4 DEF ChildrenDone
    <2>2. IsPart(Objects(xml, json, at)[Breadth(xml)], xml, at, Breadth(xml))
      BY <2>1, ObjectsIs
    <2> QED
      BY <1>3, <2>2
  <1>5. DOMAIN xml \subseteq S
    <2> HIDE DEF S
    <2> QED
      BY <1>1, <1>4, TreeInduction
  <1>6. <<>> \in DOMAIN xml
    BY <1>1 DEF IsTree
  <1> QED
    BY <1>2, <1>5, <1>6, WholeIs

-----------------------------------------------------------------------------
(* What both passes make of a document                                     *)

(* The elements, and those whose text takes the place of its list.         *)
Elements(xml) == DOMAIN xml \ {<<>>}

Lone(xml) == {at \in Elements(xml) : Cardinality(Alike(xml, at)) = 1 /\ xml[at].text # NoText}

ListAround(xml, at) == Item(WayTo(xml, at), 0)

(* The fields of what is found at the way to a node.                       *)
LEMMA KindIs ==
  ASSUME NEW xml, IsDocument(xml), NEW at \in DOMAIN xml
  PROVE  /\ Kind(xml, at).text = xml[at].text
         /\ Kind(xml, at).type \in {"null", "string"} <=> Children(xml, at) = {}
         /\ Kind(xml, at).type = "string" <=> xml[at].text # NoText
         /\ Kind(xml, at).type # "array"
         /\ Children(xml, at) # {} => Kind(xml, at) = Object /\ xml[at].text = NoText
  BY DEF IsDocument, Kind, Object, Json

LEMMA FieldsAre ==
  /\ Object.type = "object"
  /\ \A n : Array(n).type = "array" /\ Array(n).size = n
  BY DEF Object, Array, Json

(* The ways from the root.                                                 *)
LEMMA WayToIs ==
  ASSUME NEW xml, IsTree(DOMAIN xml), NEW at \in Elements(xml)
  PROVE  /\ WayTo(xml, at) \in Seq(Steps(xml)) /\ WayTo(xml, at) # <<>>
         /\ Front(at) \in DOMAIN xml /\ at \in Children(xml, Front(at))
         /\ Front(WayTo(xml, at)) = WayTo(xml, Front(at))
         /\ Last(WayTo(xml, at)) = <<xml[at].name, Cardinality(Namesakes(xml, at))>>
         /\ Cardinality(Namesakes(xml, at)) \in Nat \ {0}
         /\ Cardinality(Alike(xml, at)) \in Nat
         /\ Cardinality(Namesakes(xml, at)) \in 1 .. Cardinality(Alike(xml, at))
  <1>1. at \in DOMAIN xml /\ at # <<>>
    BY DEF Elements
  <1>2. /\ Front(at) \in DOMAIN xml /\ at \in Children(xml, Front(at))
        /\ Len(at) \in Nat \ {0} /\ Len(Front(at)) = Len(at) - 1
    BY <1>1, PlaceIs
  <1>3. 0 \in 0 .. Len(at) /\ 0 # Len(at) /\ 0 \in 0 .. Len(Front(at))
    BY <1>2
  <1>4. WayFrom(xml, 0, at) \in Seq(Steps(xml)) /\ WayFrom(xml, 0, at) = WayTo(xml, at)
    BY <1>1, <1>3, WayFromIs
  <1>5. WayFrom(xml, 0, Front(at)) = WayTo(xml, Front(at))
    BY <1>2, <1>3, WayFromIs
  <1>6. /\ WayFrom(xml, 0, at) # <<>>
        /\ Front(WayFrom(xml, 0, at)) = WayFrom(xml, 0, Front(at))
        /\ Last(WayFrom(xml, 0, at)) = Step(xml, at)
    BY <1>1, <1>3, WayFromParts
  <1>7. PICK k, l : k = Cardinality(Namesakes(xml, at)) /\ l = Cardinality(Alike(xml, at))
    OBVIOUS
  <1>8. l \in Nat /\ k \in 1 .. l
    BY <1>1, <1>7, NumberIs
  <1>9. k \in Nat \ {0}
    BY <1>8
  <1> QED
    BY <1>2, <1>4, <1>5, <1>6, <1>7, <1>8, <1>9 DEF Step

(* Each leads to one node only.                                            *)
LEMMA WayToOnce ==
  ASSUME NEW xml, IsTree(DOMAIN xml)
  PROVE  /\ WayTo(xml, <<>>) = <<>>
         /\ \A a, b \in DOMAIN xml : WayTo(xml, a) = WayTo(xml, b) => a = b
  <1>1. WayTo(xml, <<>>) = <<>>
    BY DEF WayTo
  <1>2. ASSUME NEW a \in DOMAIN xml, NEW b \in DOMAIN xml, WayTo(xml, a) = WayTo(xml, b)
        PROVE  a = b
    <2>1. Len(a) \in Nat /\ Len(b) \in Nat
      BY PlaceType
    <2>2. 0 \in 0 .. Len(a) /\ 0 \in 0 .. Len(b)
      BY <2>1
    <2>3. SubSeq(a, 1, 0) = <<>> /\ SubSeq(b, 1, 0) = <<>>
      BY <2>2, AroundFrom
    <2>4. WayFrom(xml, 0, a) = WayTo(xml, a) /\ WayFrom(xml, 0, b) = WayTo(xml, b)
      BY <2>2, WayFromIs
    <2>5. SubSeq(a, 1, 0) = SubSeq(b, 1, 0) /\ WayFrom(xml, 0, a) = WayFrom(xml, 0, b)
      BY <1>2, <2>3, <2>4
    <2> QED
      BY <2>2, <2>5, WayFromOnce
  <1> QED
    BY <1>1, <1>2

(* The lists.                                                              *)
ListIsAt(xml, at, list) ==
  /\ list # <<>> /\ Front(list) = WayTo(xml, Front(at)) /\ Last(list) = <<xml[at].name, 0>>
  /\ \A i \in Nat : /\ Item(list, i) # <<>>
                    /\ Front(Item(list, i)) = WayTo(xml, Front(at))
                    /\ Last(Item(list, i)) = <<xml[at].name, i>>
  /\ Item(list, 0) = list
  /\ Item(list, Cardinality(Namesakes(xml, at))) = WayTo(xml, at)

LEMMA ListIs ==
  ASSUME NEW xml, IsTree(DOMAIN xml), NEW at \in Elements(xml)
  PROVE  ListIsAt(xml, at, ListAround(xml, at))
  <1>1. PICK S : S = Steps(xml)
    OBVIOUS
  <1>2. PICK way, list, k : /\ way = WayTo(xml, at) /\ list = Item(way, 0)
                            /\ k = Cardinality(Namesakes(xml, at))
    OBVIOUS
  <1>3. AreSteps(S) /\ way \in Seq(S) /\ way # <<>> /\ k \in Nat
    BY <1>1, <1>2, StepsAre, WayToIs
  <1>4. Front(way) = WayTo(xml, Front(at)) /\ Last(way) = <<xml[at].name, k>>
    BY <1>2, WayToIs
  <1>5. ASSUME NEW i \in Nat
        PROVE  /\ Item(way, i) \in Seq(S) /\ Item(way, i) # <<>> /\ Front(Item(way, i)) = Front(way)
               /\ Last(Item(way, i)) = <<Last(way)[1], i>>
               /\ \A j \in Nat : Item(Item(way, i), j) = Item(way, j)
               /\ Last(way)[2] = i => Item(way, i) = way
    BY <1>3, ItemIs
  <1>6. Last(way)[1] = xml[at].name /\ Last(way)[2] = k
    BY <1>4
  <1>7. /\ list # <<>> /\ Front(list) = WayTo(xml, Front(at)) /\ Last(list) = <<xml[at].name, 0>>
        /\ \A j \in Nat : Item(list, j) = Item(way, j)
    BY <1>2, <1>4, <1>5, <1>6
  <1>8. \A i \in Nat : /\ Item(list, i) # <<>>
                       /\ Front(Item(list, i)) = WayTo(xml, Front(at))
                       /\ Last(Item(list, i)) = <<xml[at].name, i>>
    BY <1>4, <1>5, <1>6, <1>7
  <1>9. Item(list, 0) = list /\ Item(list, k) = way
    BY <1>2, <1>3, <1>5, <1>6, <1>7
  <1> QED
    BY <1>2, <1>7, <1>8, <1>9 DEF ListIsAt, ListAround

(* Two lists are the same when they hold the same nodes.                   *)
LEMMA SameList ==
  ASSUME NEW xml, IsTree(DOMAIN xml), NEW a \in Elements(xml), NEW b \in Elements(xml)
  PROVE  ListAround(xml, a) = ListAround(xml, b) <=> b \in Alike(xml, a)
  <1>1. PICK l, m : l = ListAround(xml, a) /\ m = ListAround(xml, b)
    OBVIOUS
  <1>2. ListIsAt(xml, a, l) /\ ListIsAt(xml, b, m)
    BY <1>1, ListIs
  <1>3. Front(a) \in DOMAIN xml /\ Front(b) \in DOMAIN xml /\ b \in Children(xml, Front(b))
    BY WayToIs
  <1>4. ASSUME l = m PROVE b \in Alike(xml, a)
    <2>1. WayTo(xml, Front(a)) = WayTo(xml, Front(b)) /\ xml[a].name = xml[b].name
      <3>1. <<xml[a].name, 0>> = <<xml[b].name, 0>>
        BY <1>2, <1>4 DEF ListIsAt
      <3> QED
        BY <1>2, <1>4, <3>1 DEF ListIsAt
    <2>2. Front(a) = Front(b)
      BY <1>3, <2>1, WayToOnce
    <2> QED
      BY <1>3, <2>1, <2>2 DEF Alike
  <1>5. ASSUME b \in Alike(xml, a) PROVE l = m
    <2>1. xml[a].name = xml[b].name /\ Front(a) = Front(b)
      BY <1>5 DEF Alike, Children
    <2>2. Item(WayTo(xml, a), 0) = Append(Front(WayTo(xml, a)), <<Last(WayTo(xml, a))[1], 0>>)
      BY DEF Item
    <2>3. Item(WayTo(xml, b), 0) = Append(Front(WayTo(xml, b)), <<Last(WayTo(xml, b))[1], 0>>)
      BY DEF Item
    <2>4. Front(WayTo(xml, a)) = WayTo(xml, Front(a)) /\ Front(WayTo(xml, b)) = WayTo(xml, Front(b))
      BY WayToIs
    <2>5. /\ Last(WayTo(xml, a)) = <<xml[a].name, Cardinality(Namesakes(xml, a))>>
          /\ Last(WayTo(xml, b)) = <<xml[b].name, Cardinality(Namesakes(xml, b))>>
      BY WayToIs
    <2>6. Last(WayTo(xml, a))[1] = xml[a].name /\ Last(WayTo(xml, b))[1] = xml[b].name
      BY <2>5
    <2> QED
      BY <1>1, <2>1, <2>2, <2>3, <2>4, <2>6 DEF ListAround
  <1> QED
    BY <1>1, <1>4, <1>5

(* Every item up to the number of namesakes is one of them.                *)
LEMMA ItemsAre ==
  ASSUME NEW xml, IsTree(DOMAIN xml), NEW at \in Elements(xml),
         NEW i \in 1 .. Cardinality(Alike(xml, at))
  PROVE  \E b \in Alike(xml, at) : b \in Elements(xml) /\ Item(ListAround(xml, at), i) = WayTo(xml, b)
  <1>1. at \in DOMAIN xml /\ at # <<>>
    BY DEF Elements
  <1>2. PICK b \in Alike(xml, at) : Cardinality(Namesakes(xml, b)) = i
    BY <1>1, EveryNumber
  <1>3. b \in Elements(xml)
    BY <1>1, NumberIs DEF Elements
  <1>4. ListAround(xml, at) = ListAround(xml, b)
    BY <1>3, SameList
  <1>5. Item(ListAround(xml, b), Cardinality(Namesakes(xml, b))) = WayTo(xml, b)
    BY <1>3, ListIs DEF ListIsAt
  <1> QED
    BY <1>2, <1>3, <1>4, <1>5

(* The first pass.                                                         *)
IsWhole(json, xml) ==
  /\ DOMAIN json = {<<>>} \cup {WayTo(xml, at) : at \in Elements(xml)}
                          \cup {ListAround(xml, at) : at \in Elements(xml)}
  /\ Elements(xml) # {} => json[<<>>] = Object
  /\ Elements(xml) = {} => json[<<>>] = Json("null", NoText, 0)
  /\ \A at \in Elements(xml) :
       /\ json[WayTo(xml, at)] = Kind(xml, at)
       /\ json[ListAround(xml, at)] = Array(Cardinality(Alike(xml, at)))

LEMMA FirstPass ==
  ASSUME NEW xml, IsDocument(xml)
  PROVE  IsWhole(xmlToJsonObject(xml), xml)
  <1>1. PICK json, B : json = xmlToJsonObject(xml) /\ B = Breadth(xml)
    OBVIOUS
  <1>2. IsPart(json, xml, <<>>, B)
    BY <1>1, WholeIsPart
  <1>3. IsTree(DOMAIN xml) /\ <<>> \in DOMAIN xml
    BY DEF IsDocument, IsTree
  <1>4. LiesBelow(xml, <<>>, B) = Elements(xml)
    BY <1>1, <1>3, BelowEnds DEF Elements
  <1>5. ASSUME NEW at \in Elements(xml)
        PROVE  /\ WayFrom(xml, Len(<<>>), at) = WayTo(xml, at)
               /\ Item(WayFrom(xml, Len(<<>>), at), 0) = ListAround(xml, at)
    <2>1. at \in DOMAIN xml /\ Len(at) \in Nat
      BY <1>3, PlaceType DEF Elements
    <2>2. 0 \in 0 .. Len(at) /\ Len(<<>>) = 0
      BY <2>1
    <2>3. WayFrom(xml, 0, at) = WayTo(xml, at)
      BY <1>3, <2>1, <2>2, WayFromIs
    <2> QED
      BY <2>2, <2>3 DEF ListAround
  <1>6. ASSUME NEW at \in Elements(xml)
        PROVE  Size(xml, <<>>, B, at) = Cardinality(Alike(xml, at))
    <2>1. at \in DOMAIN xml /\ at # <<>>
      BY DEF Elements
    <2>2. ASSUME NEW sibling \in Alike(xml, at) PROVE Last(sibling) <= B
      <3>1. sibling \in DOMAIN xml \ {<<>>}
        BY <1>3, <2>1, NumberIs
      <3> QED
        BY <1>1, <1>3, <3>1, BreadthIs
    <2>3. {sibling \in Alike(xml, at) : Front(at) = <<>> => Last(sibling) <= B} = Alike(xml, at)
      BY <2>2
    <2> QED
      BY <2>3 DEF Size
  <1>7. DOMAIN json = {<<>>} \cup {WayTo(xml, at) : at \in Elements(xml)}
                             \cup {ListAround(xml, at) : at \in Elements(xml)}
    BY <1>2, <1>4, <1>5 DEF IsPart, Ways
  <1>8. \A at \in Elements(xml) :
          json[WayTo(xml, at)] = Kind(xml, at) /\ json[ListAround(xml, at)] = Array(Cardinality(Alike(xml, at)))
    BY <1>2, <1>4, <1>5, <1>6 DEF IsPart
  <1>9. json[<<>>] = IF Elements(xml) = {} THEN Json("null", NoText, 0) ELSE Object
    BY <1>2, <1>4 DEF IsPart
  <1> QED
    BY <1>1, <1>7, <1>8, <1>9 DEF IsWhole

(* An only child of its name with a text.                                  *)
LEMMA LoneIs ==
  ASSUME NEW xml, IsDocument(xml), NEW at \in Lone(xml)
  PROVE  /\ at \in Elements(xml) /\ xml[at].text # NoText
         /\ Item(ListAround(xml, at), 1) = WayTo(xml, at)
         /\ \A b \in Elements(xml) : ListAround(xml, b) = ListAround(xml, at) => b = at
  <1>1. at \in Elements(xml) /\ Cardinality(Alike(xml, at)) = 1 /\ xml[at].text # NoText
    BY DEF Lone
  <1>2. IsTree(DOMAIN xml) /\ at \in DOMAIN xml /\ at # <<>>
    BY <1>1 DEF IsDocument, Elements
  <1>3. Item(ListAround(xml, at), 1) = WayTo(xml, at)
    <2>1. Cardinality(Namesakes(xml, at)) \in 1 .. 1
      BY <1>1, <1>2, NumberIs
    <2>2. Cardinality(Namesakes(xml, at)) = 1
      BY <2>1
    <2>3. Item(ListAround(xml, at), Cardinality(Namesakes(xml, at))) = WayTo(xml, at)
      BY <1>1, <1>2, ListIs DEF ListIsAt
    <2> QED
      BY <2>2, <2>3
  <1>4. ASSUME NEW b \in Elements(xml), ListAround(xml, b) = ListAround(xml, at) PROVE b = at
    <2>1. b \in Alike(xml, at)
      BY <1>1, <1>2, <1>4, SameList
    <2>2. at \in Alike(xml, at) /\ IsFiniteSet(Alike(xml, at))
      BY <1>2, NumberIs
    <2>3. PICK A : A = Alike(xml, at)
      OBVIOUS
    <2>4. \E x : A = {x}
      BY <1>1, <2>2, <2>3, FS_Singleton
    <2> QED
      BY <2>1, <2>2, <2>3, <2>4
  <1> QED
    BY <1>1, <1>3, <1>4

(* Which lists the second pass shortens.                                   *)
LEMMA ShortenedAre ==
  ASSUME NEW xml, IsDocument(xml), NEW json, IsWhole(json, xml)
  PROVE  {list \in DOMAIN json : SingleText(json, list)} = {ListAround(xml, at) : at \in Lone(xml)}
  <1>1. IsTree(DOMAIN xml)
    BY DEF IsDocument
  <1>2. ASSUME NEW at \in Lone(xml)
        PROVE  ListAround(xml, at) \in DOMAIN json /\ SingleText(json, ListAround(xml, at))
    <2>1. /\ at \in Elements(xml) /\ xml[at].text # NoText
          /\ Item(ListAround(xml, at), 1) = WayTo(xml, at)
      BY LoneIs
    <2>2. Cardinality(Alike(xml, at)) = 1
      BY DEF Lone
    <2>3. Kind(xml, at).type = "string"
      BY <2>1, KindIs DEF Elements
    <2>4. /\ ListAround(xml, at) \in DOMAIN json
          /\ json[ListAround(xml, at)] = Array(1) /\ json[WayTo(xml, at)] = Kind(xml, at)
      BY <2>1, <2>2 DEF IsWhole
    <2> QED
      BY <2>1, <2>3, <2>4, FieldsAre DEF SingleText
  <1>3. ASSUME NEW list \in DOMAIN json, SingleText(json, list)
        PROVE  \E at \in Lone(xml) : list = ListAround(xml, at)
    <2>1. json[list].type = "array" /\ json[list].size = 1 /\ json[Item(list, 1)].type = "string"
      BY <1>3 DEF SingleText
    <2>2. list # <<>>
      BY <2>1, FieldsAre DEF IsWhole, Json
    <2>3. \A at \in Elements(xml) : list # WayTo(xml, at)
      <3>1. \A at \in Elements(xml) : Kind(xml, at).type # "array"
        BY KindIs DEF Elements
      <3> QED
        BY <2>1, <3>1 DEF IsWhole
    <2>4. PICK at \in Elements(xml) : list = ListAround(xml, at)
      BY <2>2, <2>3 DEF IsWhole
    <2>5. Cardinality(Alike(xml, at)) = 1
      BY <2>1, <2>4, FieldsAre DEF IsWhole
    <2>6. PICK b \in Alike(xml, at) : b \in Elements(xml) /\ Item(list, 1) = WayTo(xml, b)
      <3>1. 1 \in 1 .. Cardinality(Alike(xml, at))
        BY <2>5
      <3> QED
        BY <1>1, <2>4, <3>1, ItemsAre
    <2>7. xml[b].text # NoText
      <3>1. json[WayTo(xml, b)] = Kind(xml, b)
        BY <2>6 DEF IsWhole
      <3>2. Kind(xml, b).type = "string"
        BY <2>1, <2>6, <3>1
      <3> QED
        BY <2>6, <3>2, KindIs DEF Elements
    <2>8. Alike(xml, b) = Alike(xml, at)
      BY <1>1, <2>6, NumberIs DEF Elements
    <2>9. b \in Lone(xml)
      BY <2>5, <2>6, <2>7, <2>8 DEF Lone
    <2>10. ListAround(xml, at) = ListAround(xml, b)
      BY <1>1, <2>6, SameList
    <2> QED
      BY <2>4, <2>9, <2>10
  <1> QED
    BY <1>2, <1>3

(* Both passes.                                                            *)
IsShort(json, xml) ==
  /\ DOMAIN json = {<<>>} \cup {WayTo(xml, at) : at \in Elements(xml) \ Lone(xml)}
                          \cup {ListAround(xml, at) : at \in Elements(xml)}
  /\ Elements(xml) # {} => json[<<>>] = Object
  /\ Elements(xml) = {} => json[<<>>] = Json("null", NoText, 0)
  /\ \A at \in Lone(xml) : json[ListAround(xml, at)] = Kind(xml, at)
  /\ \A at \in Elements(xml) \ Lone(xml) :
       /\ json[WayTo(xml, at)] = Kind(xml, at)
       /\ json[ListAround(xml, at)] = Array(Cardinality(Alike(xml, at)))

LEMMA SecondPass ==
  ASSUME NEW xml, IsDocument(xml)
  PROVE  IsShort(recursiveIteration(xmlToJsonObject(xml)), xml)
  <1>1. PICK json, short : json = xmlToJsonObject(xml) /\ short = recursiveIteration(xmlToJsonObject(xml))
    OBVIOUS
  <1>2. IsWhole(json, xml)
    BY <1>1, FirstPass
  <1>3. IsTree(DOMAIN xml)
    BY DEF IsDocument
  <1>4. PICK texts : texts = {ListAround(xml, at) : at \in Lone(xml)}
    OBVIOUS
  <1>5. short = [way \in DOMAIN json \ {Item(list, 1) : list \in texts} |->
                   IF way \in texts THEN json[Item(way, 1)] ELSE json[way]]
    BY <1>1, <1>2, <1>4, ShortenedAre DEF recursiveIteration
  <1>6. Lone(xml) \subseteq Elements(xml)
    BY DEF Lone
  <1>7. PICK taken : taken = {WayTo(xml, at) : at \in Lone(xml)}
    OBVIOUS
  <1>8. {Item(list, 1) : list \in texts} = taken
    <2>1. \A at \in Lone(xml) : Item(ListAround(xml, at), 1) = WayTo(xml, at)
      BY LoneIs
    <2> QED
      BY <1>4, <1>7, <2>1
  <1>9. \A at \in Elements(xml) : /\ WayTo(xml, at) # <<>> /\ ListAround(xml, at) # <<>>
                                  /\ Last(WayTo(xml, at))[2] # 0 /\ Last(ListAround(xml, at))[2] = 0
    <2>1. ASSUME NEW at \in Elements(xml)
          PROVE  WayTo(xml, at) # <<>> /\ Last(WayTo(xml, at))[2] # 0
      BY <1>3, WayToIs
    <2>2. ASSUME NEW at \in Elements(xml)
          PROVE  ListAround(xml, at) # <<>> /\ Last(ListAround(xml, at))[2] = 0
      <3>1. Last(ListAround(xml, at)) = <<xml[at].name, 0>>
        BY <1>3, ListIs DEF ListIsAt
      <3> QED
        BY <1>3, <3>1, ListIs DEF ListIsAt
    <2> QED
      BY <2>1, <2>2
  <1>10. \A at \in Elements(xml) : WayTo(xml, at) \in taken <=> at \in Lone(xml)
    <2>1. \A a, b \in Elements(xml) : WayTo(xml, a) = WayTo(xml, b) => a = b
      BY <1>3, WayToOnce DEF Elements
    <2> QED
      BY <1>6, <1>7, <2>1
  <1>11. \A at \in Elements(xml) : ListAround(xml, at) \in texts <=> at \in Lone(xml)
    BY <1>4, LoneIs
  <1>12. \A a, b \in Elements(xml) : WayTo(xml, a) # ListAround(xml, b)
    BY <1>9
  <1>13. /\ <<>> \notin taken /\ <<>> \notin texts
         /\ \A at \in Elements(xml) : WayTo(xml, at) \notin texts /\ ListAround(xml, at) \notin taken
    BY <1>4, <1>6, <1>7, <1>9, <1>12
  <1>14. DOMAIN short = DOMAIN json \ taken
    BY <1>5, <1>8
  <1>15. DOMAIN short = {<<>>} \cup {WayTo(xml, at) : at \in Elements(xml) \ Lone(xml)}
                               \cup {ListAround(xml, at) : at \in Elements(xml)}
    BY <1>2, <1>10, <1>13, <1>14 DEF IsWhole
  <1>16. \A way \in DOMAIN short : way \notin texts => short[way] = json[way]
    BY <1>5, <1>8
  <1>17. \A at \in Lone(xml) : short[ListAround(xml, at)] = Kind(xml, at)
    <2> SUFFICES ASSUME NEW at \in Lone(xml) PROVE short[ListAround(xml, at)] = Kind(xml, at)
      OBVIOUS
    <2>1. ListAround(xml, at) \in texts /\ ListAround(xml, at) \in DOMAIN short
      BY <1>6, <1>11, <1>15
    <2>2. short[ListAround(xml, at)] = json[Item(ListAround(xml, at), 1)]
      BY <1>5, <2>1
    <2>3. Item(ListAround(xml, at), 1) = WayTo(xml, at)
      BY LoneIs
    <2> QED
      BY <1>2, <1>6, <2>2, <2>3 DEF IsWhole
  <1>18. \A at \in Elements(xml) \ Lone(xml) :
           /\ short[WayTo(xml, at)] = Kind(xml, at)
           /\ short[ListAround(xml, at)] = Array(Cardinality(Alike(xml, at)))
    BY <1>2, <1>11, <1>13, <1>15, <1>16 DEF IsWhole
  <1>19. short[<<>>] = json[<<>>]
    BY <1>13, <1>15, <1>16
  <1> QED
    BY <1>1, <1>2, <1>15, <1>17, <1>18, <1>19 DEF IsShort, IsWhole

-----------------------------------------------------------------------------
(* What the passes are to do                                               *)

(* A node around another one holds no text, and its list is no text.       *)
LEMMA FrontIs ==
  ASSUME NEW xml, IsDocument(xml), NEW json, IsShort(json, xml), NEW at \in Elements(xml)
  PROVE  WayTo(xml, Front(at)) \in DOMAIN json /\ json[WayTo(xml, Front(at))].type = "object"
  <1>1. IsTree(DOMAIN xml)
    BY DEF IsDocument
  <1>2. Front(at) \in DOMAIN xml /\ Children(xml, Front(at)) # {}
    BY <1>1, WayToIs
  <1>3. CASE Front(at) = <<>>
    <2>1. WayTo(xml, <<>>) = <<>>
      BY <1>1, WayToOnce
    <2>2. json[<<>>] = Object /\ <<>> \in DOMAIN json
      BY DEF IsShort
    <2> QED
      BY <1>3, <2>1, <2>2, FieldsAre
  <1>4. CASE Front(at) # <<>>
    <2>1. Kind(xml, Front(at)) = Object /\ xml[Front(at)].text = NoText
      BY <1>2, KindIs
    <2>2. Front(at) \in Elements(xml) \ Lone(xml)
      BY <1>2, <1>4, <2>1 DEF Elements, Lone
    <2> QED
      BY <2>1, <2>2, FieldsAre DEF IsShort
  <1> QED
    BY <1>3, <1>4

LEMMA ShortIsJson ==
  ASSUME NEW xml, IsDocument(xml), NEW json, IsShort(json, xml)
  PROVE  IsJson(json)
  <1>1. IsTree(DOMAIN xml) /\ Lone(xml) \subseteq Elements(xml)
    BY DEF IsDocument, Lone
  <1>2. ASSUME NEW at \in Elements(xml)
        PROVE  /\ Front(WayTo(xml, at)) = WayTo(xml, Front(at))
               /\ Front(ListAround(xml, at)) = WayTo(xml, Front(at))
               /\ Last(ListAround(xml, at))[2] = 0
               /\ Item(WayTo(xml, at), 0) = ListAround(xml, at)
               /\ Last(WayTo(xml, at))[2] \in 1 .. Cardinality(Alike(xml, at))
    <2>1. Front(WayTo(xml, at)) = WayTo(xml, Front(at))
      BY <1>1, WayToIs
    <2>2. ListIsAt(xml, at, ListAround(xml, at))
      BY <1>1, ListIs
    <2>3. PICK k, l : k = Cardinality(Namesakes(xml, at)) /\ l = Cardinality(Alike(xml, at))
      OBVIOUS
    <2>4. k \in 1 .. l /\ Last(WayTo(xml, at)) = <<xml[at].name, k>>
      BY <1>1, <2>3, WayToIs
    <2>5. Last(WayTo(xml, at))[2] \in 1 .. l
      BY <2>4
    <2>6. Last(ListAround(xml, at))[2] = 0
      BY <2>2 DEF ListIsAt
    <2> QED
      BY <2>1, <2>2, <2>3, <2>5, <2>6 DEF ListIsAt, ListAround
  <1>3. ASSUME NEW at \in Elements(xml) \ Lone(xml)
        PROVE  LET way == WayTo(xml, at) IN
               /\ Front(way) \in DOMAIN json /\ json[Front(way)].type = "object"
               /\ Item(way, 0) \in DOMAIN json /\ json[Item(way, 0)].type = "array"
               /\ Last(way)[2] \in 1 .. json[Item(way, 0)].size
               /\ json[way].type # "array"
    <2>1. WayTo(xml, Front(at)) \in DOMAIN json /\ json[WayTo(xml, Front(at))].type = "object"
      BY FrontIs
    <2>2. /\ ListAround(xml, at) \in DOMAIN json
          /\ json[ListAround(xml, at)] = Array(Cardinality(Alike(xml, at)))
          /\ json[WayTo(xml, at)] = Kind(xml, at)
      BY DEF IsShort
    <2>3. Kind(xml, at).type # "array"
      BY KindIs DEF Elements
    <2> QED
      BY <1>2, <2>1, <2>2, <2>3, FieldsAre
  <1>4. ASSUME NEW at \in Elements(xml)
        PROVE  LET list == ListAround(xml, at) IN
               /\ Front(list) \in DOMAIN json /\ json[Front(list)].type = "object"
               /\ Last(list)[2] = 0
               /\ json[list].type = "array" => \A i \in 1 .. json[list].size : Item(list, i) \in DOMAIN json
    <2>1. WayTo(xml, Front(at)) \in DOMAIN json /\ json[WayTo(xml, Front(at))].type = "object"
      BY FrontIs
    <2>2. CASE at \in Lone(xml)
      <3>1. json[ListAround(xml, at)] = Kind(xml, at)
        BY <2>2 DEF IsShort
      <3>2. Kind(xml, at).type # "array"
        BY KindIs DEF Elements
      <3> QED
        BY <1>2, <2>1, <3>1, <3>2
    <2>3. CASE at \notin Lone(xml)
      <3>1. json[ListAround(xml, at)] = Array(Cardinality(Alike(xml, at)))
        BY <2>3 DEF IsShort
      <3>2. ASSUME NEW i \in 1 .. Cardinality(Alike(xml, at)) PROVE Item(ListAround(xml, at), i) \in DOMAIN json
        <4>1. PICK b \in Alike(xml, at) : b \in Elements(xml) /\ Item(ListAround(xml, at), i) = WayTo(xml, b)
          BY <1>1, ItemsAre
        <4>2. ListAround(xml, at) = ListAround(xml, b)
          BY <1>1, <4>1, SameList
        <4>3. b \notin Lone(xml)
          BY <2>3, <4>2, LoneIs
        <4> QED
          BY <4>1, <4>3 DEF IsShort
      <3> QED
        BY <1>2, <2>1, <3>1, <3>2, FieldsAre
    <2> QED
      BY <2>2, <2>3
  <1>5. ASSUME NEW way \in DOMAIN json \ {<<>>}
        PROVE  /\ Front(way) \in DOMAIN json /\ json[Front(way)].type = "object"
               /\ Last(way)[2] # 0 =>
                    /\ Item(way, 0) \in DOMAIN json /\ json[Item(way, 0)].type = "array"
                    /\ Last(way)[2] \in 1 .. json[Item(way, 0)].size
               /\ json[way].type = "array" => \A i \in 1 .. json[way].size : Item(way, i) \in DOMAIN json
    <2>1. CASE \E at \in Elements(xml) \ Lone(xml) : way = WayTo(xml, at)
      BY <1>3, <2>1
    <2>2. CASE \E at \in Elements(xml) : way = ListAround(xml, at)
      BY <1>4, <2>2
    <2> QED
      BY <2>1, <2>2 DEF IsShort
  <1> QED
    BY <1>5 DEF IsJson

LEMMA ShortHasValues ==
  ASSUME NEW xml, IsDocument(xml), NEW json, IsShort(json, xml)
  PROVE  Leaves(json) = Values(xml)
  <1>1. IsTree(DOMAIN xml) /\ Lone(xml) \subseteq Elements(xml)
    BY DEF IsDocument, Lone
  <1> DEFINE Full(way) == IF Last(way)[2] = 0 THEN Item(way, 1) ELSE way
             IsLeaf(way) == json[way].type \in {"null", "string"}
  <1>2. ASSUME NEW at \in Elements(xml) \ Lone(xml)
        PROVE  LET way == WayTo(xml, at) IN
               /\ way \in DOMAIN json \ {<<>>} /\ Full(way) = way /\ json[way].text = xml[at].text
               /\ IsLeaf(way) <=> Children(xml, at) = {}
    <2>1. WayTo(xml, at) # <<>> /\ Last(WayTo(xml, at))[2] # 0
      BY <1>1, WayToIs
    <2>2. WayTo(xml, at) \in DOMAIN json /\ json[WayTo(xml, at)] = Kind(xml, at)
      BY DEF IsShort
    <2>3. Kind(xml, at).text = xml[at].text /\ (Kind(xml, at).type \in {"null", "string"} <=> Children(xml, at) = {})
      BY KindIs DEF Elements
    <2> QED
      BY <2>1, <2>2, <2>3
  <1>3. ASSUME NEW at \in Lone(xml)
        PROVE  LET way == ListAround(xml, at) IN
               /\ way \in DOMAIN json \ {<<>>} /\ Full(way) = WayTo(xml, at)
               /\ json[way].text = xml[at].text
               /\ IsLeaf(way) /\ Children(xml, at) = {}
    <2>1. /\ at \in Elements(xml) /\ xml[at].text # NoText
          /\ Item(ListAround(xml, at), 1) = WayTo(xml, at)
      BY LoneIs
    <2>2. ListIsAt(xml, at, ListAround(xml, at))
      BY <1>1, <2>1, ListIs
    <2>3. ListAround(xml, at) # <<>> /\ Last(ListAround(xml, at))[2] = 0
      BY <2>2 DEF ListIsAt
    <2>4. ListAround(xml, at) \in DOMAIN json /\ json[ListAround(xml, at)] = Kind(xml, at)
      BY <2>1 DEF IsShort
    <2>5. Kind(xml, at).text = xml[at].text /\ Kind(xml, at).type = "string" /\ Children(xml, at) = {}
      BY <2>1, KindIs DEF Elements
    <2> QED
      BY <2>1, <2>3, <2>4, <2>5
  <1>4. ASSUME NEW at \in Elements(xml) \ Lone(xml) PROVE ~IsLeaf(ListAround(xml, at))
    <2>1. json[ListAround(xml, at)] = Array(Cardinality(Alike(xml, at)))
      BY DEF IsShort
    <2> QED
      BY <2>1, FieldsAre
  <1>5. \A way \in DOMAIN json \ {<<>>} : \/ \E at \in Elements(xml) \ Lone(xml) : way = WayTo(xml, at)
                                         \/ \E at \in Elements(xml) : way = ListAround(xml, at)
    BY DEF IsShort
  <1>6. Leaves(json) = {<<Full(way), json[way].text>> : way \in {way \in DOMAIN json \ {<<>>} : IsLeaf(way)}}
    BY DEF Leaves
  <1>7. Values(xml) = {<<WayTo(xml, at), xml[at].text>> :
                         at \in {at \in Elements(xml) : Children(xml, at) = {}}}
    BY DEF Values, Elements
  <1> HIDE DEF Full, IsLeaf
  <1>8. ASSUME NEW way \in DOMAIN json \ {<<>>}, IsLeaf(way)
        PROVE  \E at \in Elements(xml) : /\ Children(xml, at) = {}
                                         /\ Full(way) = WayTo(xml, at) /\ json[way].text = xml[at].text
    BY <1>1, <1>2, <1>3, <1>4, <1>5, <1>8
  <1>9. ASSUME NEW at \in Elements(xml), Children(xml, at) = {}
        PROVE  \E way \in DOMAIN json \ {<<>>} : /\ IsLeaf(way) /\ Full(way) = WayTo(xml, at)
                                                 /\ json[way].text = xml[at].text
    BY <1>2, <1>3, <1>9
  <1> QED
    BY <1>6, <1>7, <1>8, <1>9

(* xmlToJsonObject and recursiveIteration, for all documents: every value  *)
(* of the document is found under the names of the nodes around it, in its *)
(* order among its namesakes, and nothing else is; and the objects and     *)
(* arrays are complete.                                                    *)
THEOREM NoValueIsLost ==
  ASSUME NEW xml, IsDocument(xml)
  PROVE  LET json == recursiveIteration(xmlToJsonObject(xml))
         IN  IsJson(json) /\ Leaves(json) = Values(xml)
  <1>1. PICK json : json = recursiveIteration(xmlToJsonObject(xml))
    OBVIOUS
  <1>2. IsShort(json, xml)
    BY <1>1, SecondPass
  <1>3. IsJson(json) /\ Leaves(json) = Values(xml)
    BY <1>2, ShortIsJson, ShortHasValues
  <1> QED
    BY <1>1, <1>3
=============================================================================
