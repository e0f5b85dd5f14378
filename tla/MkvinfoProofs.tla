--------------------------- MODULE MkvinfoProofs ---------------------------
(***************************************************************************)
(* Proofs about info(), for all semantics of elements, all names and all   *)
(* files without quirks.                                                   *)
(***************************************************************************)
EXTENDS Mkvinfo, ReadOneElementProofs, XmlJsonProofs

-----------------------------------------------------------------------------
(* Where the elements of a Segment lie in the document                     *)

InElement(i, at) == <<2, i>> \o at

PlaceInElement(place, i, at) ==
  /\ place \in Seq(Nat \ {0})
  /\ Len(place) = Len(at) + 2
  /\ place[1] = 2
  /\ place[2] = i
  /\ SubSeq(place, 3, Len(place)) = at
  /\ at = <<>> => Front(place) = <<2>>
  /\ at # <<>> => Front(place) = InElement(i, Front(at))

LEMMA InElementIs ==
  ASSUME NEW i \in Nat \ {0}, NEW at \in Seq(Nat \ {0})
  PROVE  PlaceInElement(InElement(i, at), i, at)
  <1>0. PICK N : N = Nat \ {0}
    OBVIOUS
  <1>1. PICK head \in Seq(N) : head = <<2, i>> /\ Len(head) = 2 /\ head[1] = 2 /\ head[2] = i
    <2>1. 2 \in N /\ i \in N
      BY <1>0
    <2>2. <<2, i>> \in Seq(N) /\ Len(<<2, i>>) = 2
      BY <2>1
    <2> QED
      BY <2>2
  <1>2. ASSUME NEW w \in Seq(N)
        PROVE  /\ head \o w \in Seq(N) /\ Len(head \o w) = 2 + Len(w) /\ Len(w) \in Nat
               /\ (head \o w)[1] = 2 /\ (head \o w)[2] = i
               /\ \A k \in 1 .. Len(w) : (head \o w)[k + 2] = w[k]
    <2>1. /\ head \o w \in Seq(N) /\ Len(head \o w) = Len(head) + Len(w) /\ Len(w) \in Nat
          /\ \A k \in 1 .. Len(head) + Len(w) :
               (head \o w)[k] = IF k <= Len(head) THEN head[k] ELSE w[k - Len(head)]
      BY ConcatProperties, LenProperties
    <2>2. Len(head \o w) = 2 + Len(w)
          /\ \A k \in 1 .. 2 + Len(w) : (head \o w)[k] = IF k <= 2 THEN head[k] ELSE w[k - 2]
      BY <1>1, <2>1
    <2>3. ASSUME NEW k \in 1 .. Len(w) PROVE (head \o w)[k + 2] = w[k]
      <3>1. k + 2 \in 1 .. 2 + Len(w) /\ ~(k + 2 <= 2) /\ (k + 2) - 2 = k
        BY <2>1
      <3> QED
        BY <2>2, <3>1
    <2>4. (head \o w)[1] = 2 /\ (head \o w)[2] = i
      BY <1>1, <2>1, <2>2
    <2> QED
      BY <2>1, <2>2, <2>3, <2>4
  <1>3. PICK n \in Nat : n = Len(at)
    BY LenProperties
  <1>4. PICK p \in Seq(N) : /\ p = head \o at /\ Len(p) = n + 2 /\ p[1] = 2 /\ p[2] = i
                            /\ \A k \in 1 .. n : p[k + 2] = at[k]
    <2>1. PICK w \in Seq(N) : w = at /\ Len(w) = n
      BY <1>0, <1>3
    <2>2. /\ head \o w \in Seq(N) /\ Len(head \o w) = 2 + Len(w)
          /\ (head \o w)[1] = 2 /\ (head \o w)[2] = i
          /\ \A k \in 1 .. Len(w) : (head \o w)[k + 2] = w[k]
      BY <1>2
    <2>3. PICK q \in Seq(N) : q = head \o w /\ Len(q) = 2 + Len(w) /\ q[1] = 2 /\ q[2] = i
                              /\ \A k \in 1 .. Len(w) : q[k + 2] = w[k]
      BY <2>2
    <2>4. Len(q) = n + 2 /\ \A k \in 1 .. n : q[k + 2] = at[k]
      BY <2>1, <2>3
    <2> QED
      BY <2>1, <2>3, <2>4
  <1>5. SubSeq(p, 3, n + 2) = at
    <2>1. /\ SubSeq(p, 3, n + 2) \in Seq(N) /\ Len(SubSeq(p, 3, n + 2)) = n
          /\ \A k \in 1 .. n : SubSeq(p, 3, n + 2)[k] = p[3 + k - 1]
      <3>1. \A k \in 3 .. n + 2 : p[k] \in N
        <4>1. Len(p) = n + 2
          BY <1>4
        <4>2. \A k \in 1 .. Len(p) : p[k] \in N
          OBVIOUS
        <4> QED
          BY <4>1, <4>2
      <3>2. n + 2 - 3 + 1 = n
        OBVIOUS
      <3> QED
        BY <1>4, <3>1, <3>2
    <2>2. \A k \in 1 .. n : 3 + k - 1 = k + 2
      OBVIOUS
    <2>3. \A k \in 1 .. n : SubSeq(p, 3, n + 2)[k] = at[k]
      BY <1>4, <2>1, <2>2
    <2> QED
      BY <1>0, <1>3, <2>1, <2>3, SeqEqual
  <1>6. CASE at = <<>>
    <2>1. n = 0 /\ p = head
      <3>1. n = 0
        BY <1>3, <1>6
      <3>2. Len(p) = 2 /\ Len(head) = 2 /\ p[1] = head[1] /\ p[2] = head[2]
        BY <1>1, <1>4, <3>1
      <3>3. p = head
        BY <3>2, SMTT(30)
      <3> QED
        BY <3>1, <3>3
    <2>2. Front(head) = <<2>>
      <3>1. Front(head) = SubSeq(head, 1, 1)
        BY <1>1 DEF Front
      <3>2. PICK q \in Seq(N) : q = SubSeq(head, 1, 1) /\ Len(q) = 1 /\ q[1] = 2
        <4>1. SubSeq(head, 1, 1) \in Seq(N) /\ Len(SubSeq(head, 1, 1)) = 1
              /\ SubSeq(head, 1, 1)[1] = head[1]
          BY <1>1
        <4> QED
          BY <1>1, <4>1
      <3>3. PICK o \in Seq(N) : o = <<2>> /\ Len(o) = 1 /\ o[1] = 2
        <4>1. 2 \in N
          BY <1>0
        <4>2. <<2>> \in Seq(N) /\ Len(<<2>>) = 1 /\ <<2>>[1] = 2
          BY <4>1
        <4> QED
          BY <4>2
      <3>4. \A k \in 1 .. 1 : k = 1
        OBVIOUS
      <3>5. q = o
        <4>1. Len(q) = Len(o) /\ \A k \in 1 .. Len(q) : q[k] = o[k]
          BY <3>2, <3>3, <3>4
        <4> QED
          BY <4>1, SeqEqual
      <3> QED
        BY <3>1, <3>2, <3>3, <3>5
    <2> QED
      BY <1>0, <1>1, <1>3, <1>4, <1>5, <1>6, <2>1, <2>2 DEF InElement, PlaceInElement
  <1>7. CASE at # <<>>
    <2>1. PICK f \in Seq(N) : f = Front(at) /\ Len(f) = n - 1 /\ n > 0
                              /\ \A k \in 1 .. n - 1 : f[k] = at[k]
      <3>1. PICK w \in Seq(N) : w = at /\ w # <<>> /\ Len(w) = n
        BY <1>0, <1>3, <1>7
      <3>2. /\ Len(w) \in Nat \ {0} /\ Front(w) \in Seq(N) /\ Len(Front(w)) = Len(w) - 1
            /\ \A k \in 1 .. Len(w) - 1 : Front(w)[k] = w[k]
        <4>1. w # <<>>
          BY <3>1
        <4> QED
          BY <4>1, FrontAndLast
      <3>3. n > 0 /\ Len(Front(w)) = n - 1 /\ \A k \in 1 .. n - 1 : Front(w)[k] = at[k]
        BY <3>1, <3>2
      <3> QED
        BY <3>1, <3>2, <3>3
    <2>2. PICK q \in Seq(N) : /\ q = head \o f /\ Len(q) = n + 1 /\ q[1] = 2 /\ q[2] = i
                              /\ \A k \in 1 .. n - 1 : q[k + 2] = f[k]
      <3>1. /\ head \o f \in Seq(N) /\ Len(head \o f) = 2 + Len(f)
            /\ (head \o f)[1] = 2 /\ (head \o f)[2] = i
            /\ \A k \in 1 .. Len(f) : (head \o f)[k + 2] = f[k]
        BY <1>2
      <3>2. Len(f) = n - 1 /\ n > 0
        BY <2>1
      <3>3. Len(head \o f) = n + 1 /\ \A k \in 1 .. n - 1 : (head \o f)[k + 2] = f[k]
        BY <3>1, <3>2
      <3> QED
        BY <3>1, <3>3
    <2>3. /\ Front(p) \in Seq(N) /\ Len(Front(p)) = n + 1
          /\ \A k \in 1 .. n + 1 : Front(p)[k] = p[k]
      <3>1. p # <<>>
        BY <1>4
      <3>2. Front(p) \in Seq(N) /\ Len(Front(p)) = Len(p) - 1
            /\ \A k \in 1 .. Len(p) - 1 : Front(p)[k] = p[k]
        BY <3>1, FrontAndLast
      <3>3. Len(p) - 1 = n + 1
        BY <1>4
      <3> QED
        BY <3>2, <3>3
    <2>4. \A k \in 1 .. n + 1 : p[k] = q[k]
      <3> TAKE k \in 1 .. n + 1
      <3>1. CASE k = 1 \/ k = 2
        BY <1>4, <2>2, <3>1
      <3>2. CASE k > 2
        <4>1. PICK j \in 1 .. n - 1 : k = j + 2
          <5>1. k - 2 \in 1 .. n - 1 /\ k = (k - 2) + 2
            BY <3>2
          <5> QED
            BY <5>1
        <4>2. j \in 1 .. n
          OBVIOUS
        <4> QED
          BY <1>4, <2>1, <2>2, <4>1, <4>2
      <3> QED
        BY <3>1, <3>2
    <2>5. Front(p) = q
      <3>1. PICK g \in Seq(N) : g = Front(p) /\ Len(g) = n + 1 /\ \A k \in 1 .. n + 1 : g[k] = p[k]
        BY <2>3
      <3>2. Len(g) = Len(q) /\ \A k \in 1 .. Len(g) : g[k] = q[k]
        BY <2>2, <2>4, <3>1
      <3>3. g = q
        BY <3>2, SeqEqual
      <3> QED
        BY <3>1, <3>3
    <2> QED
      BY <1>0, <1>1, <1>3, <1>4, <1>5, <1>7, <2>1, <2>2, <2>5 DEF InElement, PlaceInElement
  <1> QED
    BY <1>6, <1>7

(* No two elements lie at the same place.                                  *)
LEMMA InElementOnce ==
  ASSUME NEW i \in Nat \ {0}, NEW a \in Seq(Nat \ {0}), NEW j \in Nat \ {0}, NEW b \in Seq(Nat \ {0}),
         InElement(i, a) = InElement(j, b)
  PROVE  i = j /\ a = b
  <1>1. PICK p : p = InElement(i, a) /\ p = InElement(j, b)
    OBVIOUS
  <1>2. PlaceInElement(p, i, a) /\ PlaceInElement(p, j, b)
    BY <1>1, InElementIs
  <1> QED
    BY <1>2 DEF PlaceInElement


-----------------------------------------------------------------------------
(* What is in the document                                                 *)

(* What read_one_element has shown.                                        *)
AreTrees(elements) ==
  \E n \in Nat : DOMAIN elements = 1 .. n /\ \A i \in 1 .. n : IsTree(DOMAIN elements[i])

ShownIn(element) == {at \in DOMAIN element : Shown(element, at)}

NodeOf(element, at) == Node(NameOf[element[at].id], Text(element, at))

LEMMA FrameIs ==
  /\ DOMAIN Frame = {<<>>, <<1>>, <<1, 1>>, <<2>>}
  /\ Frame[<<>>] = Node("root", NoText)
  /\ Frame[<<1>>] = Node("EBML_head", NoText)
  /\ Frame[<<1, 1>>] = Node("Document_type", "matroska")
  /\ Frame[<<2>>] = Node("Segment", NoText)
  <1>1. <<1>> # <<2>> /\ <<1, 1>> # <<1>> /\ <<1, 1>> # <<2>>
        /\ <<>> # <<1>> /\ <<>> # <<2>> /\ <<>> # <<1, 1>>
    OBVIOUS
  <1> QED
    BY <1>1 DEF Frame

(* None of the places in an element is one of the frame.                   *)
LEMMA BesideFrame ==
  ASSUME NEW i \in Nat \ {0}, NEW at \in Seq(Nat \ {0})
  PROVE  InElement(i, at) \notin DOMAIN Frame
  <1>1. PICK place : place = InElement(i, at) /\ PlaceInElement(place, i, at)
    BY InElementIs
  <1>2. Len(at) \in Nat
    BY LenProperties
  <1>3. Len(place) # 0 /\ Len(place) # 1 /\ place[1] = 2
    <2>1. Len(place) = Len(at) + 2 /\ place[1] = 2
      BY <1>1 DEF PlaceInElement
    <2> QED
      BY <1>2, <2>1
  <1>4. Len(<<>>) = 0 /\ Len(<<1>>) = 1 /\ Len(<<2>>) = 1 /\ <<1, 1>>[1] = 1
    OBVIOUS
  <1>5. place # <<>> /\ place # <<1>> /\ place # <<2>> /\ place # <<1, 1>>
    <2>1. ASSUME place = <<>> \/ place = << 1 >> \/ place = << 2 >> PROVE FALSE
      <3>1. Len(place) = 0 \/ Len(place) = 1
        BY <1>4, <2>1, Zenon
      <3> QED
        BY <1>3, <3>1
    <2>2. ASSUME place = <<1, 1>> PROVE FALSE
      <3>1. place[1] = 1
        BY <1>4, <2>2, Zenon
      <3> QED
        BY <1>3, <3>1
    <2> QED
      BY <2>1, <2>2
  <1> QED
    BY <1>1, <1>5, FrameIs

IsShownAs(xml, elements) ==
  /\ DOMAIN xml = DOMAIN Frame \cup UNION {{InElement(i, at) : at \in ShownIn(elements[i])}
                                             : i \in DOMAIN elements}
  /\ \A place \in DOMAIN Frame : place \in DOMAIN xml /\ xml[place] = Frame[place]
  /\ \A i \in DOMAIN elements : \A at \in ShownIn(elements[i]) :
       /\ InElement(i, at) \in DOMAIN xml
       /\ xml[InElement(i, at)] = NodeOf(elements[i], at)
  /\ \A place \in DOMAIN xml :
       place \in DOMAIN Frame
         \/ \E i \in DOMAIN elements : \E at \in ShownIn(elements[i]) : place = InElement(i, at)

(* Places in elements are sequences of numbers.                            *)
LEMMA PlacesIn ==
  ASSUME NEW elements, AreTrees(elements), NEW i \in DOMAIN elements
  PROVE  /\ i \in Nat \ {0}
         /\ IsTree(DOMAIN elements[i])
         /\ \A at \in DOMAIN elements[i] : at \in Seq(Nat \ {0})
  <1>1. i \in Nat \ {0} /\ IsTree(DOMAIN elements[i])
    BY DEF AreTrees
  <1>2. \A at \in DOMAIN elements[i] : at \in Seq(Nat \ {0})
    BY <1>1, PlaceType
  <1> QED
    BY <1>1, <1>2

LEMMA DocumentIs ==
  ASSUME NEW elements, AreTrees(elements)
  PROVE  IsShownAs(Document(elements), elements)
  <1> DEFINE within == UNION {{InElement(i, at) : at \in ShownIn(elements[i])} : i \in DOMAIN elements}
             At(place) == IF place \in DOMAIN Frame THEN Frame[place]
                          ELSE NodeOf(elements[place[2]], SubSeq(place, 3, Len(place)))
  <1>1. Document(elements) = [place \in DOMAIN Frame \cup within |-> At(place)]
    BY DEF Document, InElement, ShownIn, NodeOf
  <1>2. ASSUME NEW i \in DOMAIN elements, NEW at \in ShownIn(elements[i])
        PROVE  InElement(i, at) \in within /\ At(InElement(i, at)) = NodeOf(elements[i], at)
    <2>1. i \in Nat \ {0} /\ at \in Seq(Nat \ {0})
      BY PlacesIn DEF ShownIn
    <2>2. PICK place : place = InElement(i, at)
      OBVIOUS
    <2>3. place \notin DOMAIN Frame /\ PlaceInElement(place, i, at)
      BY <2>1, <2>2, BesideFrame, InElementIs
    <2>4. At(place) = NodeOf(elements[i], at)
      BY <2>3 DEF PlaceInElement
    <2>5. InElement(i, at) \in within
      OBVIOUS
    <2> QED
      BY <2>2, <2>4, <2>5
  <1>3. PICK xml : xml = Document(elements)
    OBVIOUS
  <1>4. \A place \in within : \E i \in DOMAIN elements : \E at \in ShownIn(elements[i]) :
           place = InElement(i, at)
    OBVIOUS
  <1>5. DOMAIN xml = DOMAIN Frame \cup within /\ \A place \in DOMAIN xml : xml[place] = At(place)
    BY <1>1, <1>3
  <1>6. \A place \in DOMAIN Frame : place \in DOMAIN xml /\ xml[place] = Frame[place]
    BY <1>5
  <1>7. \A i \in DOMAIN elements : \A at \in ShownIn(elements[i]) :
          InElement(i, at) \in DOMAIN xml /\ xml[InElement(i, at)] = NodeOf(elements[i], at)
    <2> HIDE DEF within, At
    <2> QED
      BY <1>2, <1>5
  <1>8. \A place \in DOMAIN xml :
          place \in DOMAIN Frame
            \/ \E i \in DOMAIN elements : \E at \in ShownIn(elements[i]) : place = InElement(i, at)
    <2> HIDE DEF within, At
    <2> QED
      BY <1>4, <1>5
  <1>9. DOMAIN xml = DOMAIN Frame \cup UNION {{InElement(i, at) : at \in ShownIn(elements[i])}
                                             : i \in DOMAIN elements}
    BY <1>5
  <1> QED
    BY <1>3, <1>6, <1>7, <1>8, <1>9 DEF IsShownAs

(* What is around an element that is shown is shown.                       *)
LEMMA ShownAround ==
  ASSUME NEW element, IsTree(DOMAIN element), NEW at \in ShownIn(element), at # <<>>
  PROVE  Front(at) \in ShownIn(element)
  <1>1. /\ at \in Seq(Nat \ {0}) /\ Len(at) \in Nat \ {0}
        /\ Front(at) \in DOMAIN element /\ Len(Front(at)) = Len(at) - 1
    BY PlaceIs DEF ShownIn
  <1>2. PICK m \in Nat \ {0} : m = Len(at)
    BY <1>1
  <1>3. PICK front : front = Front(at) /\ Len(front) = m - 1
    BY <1>1, <1>2
  <1>4. front = SubSeq(at, 1, m - 1)
    BY <1>2, <1>3 DEF Front
  <1>5. \A n \in 0 .. m - 1 : SubSeq(front, 1, n) = SubSeq(at, 1, n)
    <2>1. m - 1 \in 0 .. Len(at)
      BY <1>2
    <2>2. at \in Seq(Nat \ {0})
      BY <1>1
    <2>3. \A n \in 0 .. m - 1 : SubSeq(SubSeq(at, 1, m - 1), 1, n) = SubSeq(at, 1, n)
      BY <2>1, <2>2, PlacesAround
    <2> QED
      BY <1>4, <2>3
  <1> DEFINE Visible(node) == node.class \notin {Dummy, Void} /\ NameOf[node.id] # ""
  <1>6. \A s : Shown(element, s) <=> \A n \in 0 .. Len(s) : Visible(element[SubSeq(s, 1, n)])
    BY DEF Shown
  <1> HIDE DEF Visible
  <1>7. \A n \in 0 .. m : Visible(element[SubSeq(at, 1, n)])
    BY <1>2, <1>6 DEF ShownIn
  <1>8. Shown(element, front)
    <2>1. \A n \in 0 .. m - 1 : n \in 0 .. m
      BY <1>2
    <2>2. \A n \in 0 .. m - 1 : Visible(element[SubSeq(front, 1, n)])
      BY <1>5, <1>7, <2>1
    <2> QED
      BY <1>3, <1>6, <2>2
  <1> QED
    BY <1>1, <1>3, <1>8 DEF ShownIn


(* As many places as are shown, and those of the frame.                    *)
LEMMA ImageIsFinite ==
  ASSUME NEW S, IsFiniteSet(S), NEW f
  PROVE  IsFiniteSet({f[x] : x \in S})
  <1>1. PICK T : T = {f[x] : x \in S}
    OBVIOUS
  <1>2. [x \in S |-> f[x]] \in Surjection(S, T)
    BY <1>1 DEF Surjection
  <1>3. IsFiniteSet(T)
    BY <1>2, FS_Surjection
  <1> QED
    BY <1>1, <1>3

LEMMA DocumentIsFinite ==
  ASSUME NEW elements, AreTrees(elements), NEW xml, IsShownAs(xml, elements)
  PROVE  IsFiniteSet(DOMAIN xml)
  <1> DEFINE Places(i) == {InElement(i, at) : at \in ShownIn(elements[i])}
             all == {Places(i) : i \in DOMAIN elements}
  <1>1. ASSUME NEW i \in DOMAIN elements PROVE IsFiniteSet(Places(i))
    <2>1. PICK f : f = [at \in ShownIn(elements[i]) |-> InElement(i, at)]
      OBVIOUS
    <2>2. PICK S : S = ShownIn(elements[i])
      OBVIOUS
    <2>3. IsFiniteSet(S)
      <3>1. IsFiniteSet(DOMAIN elements[i])
        BY PlacesIn DEF IsTree
      <3>2. S \in SUBSET DOMAIN elements[i]
        BY <2>2 DEF ShownIn
      <3> QED
        BY <3>1, <3>2, FS_Subset
    <2>4. IsFiniteSet({f[x] : x \in S})
      BY <2>3, ImageIsFinite
    <2>5. {f[x] : x \in S} = Places(i)
      BY <2>1, <2>2
    <2> QED
      BY <2>4, <2>5
  <1>2. IsFiniteSet(all)
    <2>1. PICK n \in Nat : DOMAIN elements = 1 .. n
      BY DEF AreTrees
    <2>2. IsFiniteSet(DOMAIN elements)
      BY <2>1, FS_Interval
    <2>3. PICK D, f : D = DOMAIN elements /\ f = [i \in DOMAIN elements |-> Places(i)]
      OBVIOUS
    <2>4. IsFiniteSet({f[i] : i \in D})
      <3>1. IsFiniteSet(D)
        BY <2>2, <2>3
      <3> QED
        BY <3>1, ImageIsFinite
    <2>5. {f[i] : i \in D} = all
      <3> HIDE DEF Places
      <3> QED
        BY <2>3
    <2> QED
      BY <2>4, <2>5
  <1>3. IsFiniteSet(UNION all)
    <2> HIDE DEF Places
    <2>1. \A T \in all : IsFiniteSet(T)
      BY <1>1
    <2> HIDE DEF all
    <2> QED
      BY <1>2, <2>1, FS_UNION
  <1>4. IsFiniteSet(DOMAIN Frame)
    <2>1. IsFiniteSet({}) /\ \A S, x : IsFiniteSet(S) => IsFiniteSet(S \cup {x})
      BY FS_EmptySet, FS_AddElement
    <2>2. \A a, b, c, d : IsFiniteSet({} \cup {a} \cup {b} \cup {c} \cup {d})
      BY <2>1
    <2>3. \E a, b, c, d : DOMAIN Frame = {a, b, c, d}
      BY FrameIs, Zenon
    <2>4. PICK a, b, c, d : DOMAIN Frame = {} \cup {a} \cup {b} \cup {c} \cup {d}
      BY <2>3
    <2>5. IsFiniteSet({} \cup {a} \cup {b} \cup {c} \cup {d})
      BY <2>2
    <2> QED
      BY <2>4, <2>5
  <1>5. IsFiniteSet(DOMAIN Frame \cup UNION all)
    BY <1>3, <1>4, FS_Union
  <1> QED
    BY <1>5 DEF IsShownAs

(* Every node lies in another.                                             *)
FrontAt(xml, elements, place) ==
  /\ place \in Seq(Nat \ {0})
  /\ Front(place) \in DOMAIN xml
  /\ place \in DOMAIN Frame => /\ place \in {<<1>>, <<1, 1>>, <<2>>}
                               /\ Front(place) = <<>> \/ Front(place) = <<1>>
                               /\ Front(place) = <<>> <=> place # <<1, 1>>
  /\ \A i \in DOMAIN elements : \A at \in ShownIn(elements[i]) :
       place = InElement(i, at) =>
         /\ at = <<>> => Front(place) = <<2>>
         /\ at # <<>> => Front(at) \in ShownIn(elements[i]) /\ Front(place) = InElement(i, Front(at))

LEMMA FrameFront ==
  /\ <<1>> \in Seq(Nat \ {0}) /\ Front(<<1>>) = <<>>
  /\ <<2>> \in Seq(Nat \ {0}) /\ Front(<<2>>) = <<>>
  /\ <<1, 1>> \in Seq(Nat \ {0}) /\ Front(<<1, 1>>) = <<1>>
  <1>0. PICK N : N = Nat \ {0}
    OBVIOUS
  <1>1. PICK e : e = <<>> /\ e \in Seq(N)
    <2>1. <<>> \in Seq(N)
      OBVIOUS
    <2> QED
      BY <2>1
  <1>2. 1 \in N /\ 2 \in N
    BY <1>0
  <1>3. Append(e, 1) = <<1>> /\ Append(e, 2) = <<2>>
    BY <1>1
  <1>4. PICK one \in Seq(N) : one = <<1>> /\ Front(one) = e
    BY <1>1, <1>2, <1>3, AppendIs
  <1>5. PICK two \in Seq(N) : two = <<2>> /\ Front(two) = e
    BY <1>1, <1>2, <1>3, AppendIs
  <1>6. Append(one, 1) = <<1, 1>>
    <2>1. PICK o \in Seq(N) : o = <<1, 1>> /\ Len(o) = 2 /\ o[1] = 1 /\ o[2] = 1
      <3>1. <<1, 1>> \in Seq(N) /\ Len(<<1, 1>>) = 2
        BY <1>2
      <3> QED
        BY <3>1
    <2>2. Len(one) = 1 /\ one[1] = 1
      BY <1>4
    <2>3. PICK q \in Seq(N) : q = Append(one, 1) /\ Len(q) = Len(one) + 1 /\ q[Len(one) + 1] = 1
                              /\ \A k \in 1 .. Len(one) : q[k] = one[k]
      <3>1. 1 \in N
        BY <1>2
      <3>2. /\ Append(one, 1) \in Seq(N) /\ Len(Append(one, 1)) = Len(one) + 1
            /\ \A k \in 1 .. Len(one) : Append(one, 1)[k] = one[k]
            /\ Append(one, 1)[Len(one) + 1] = 1
        BY <3>1, AppendProperties
      <3> QED
        BY <3>2
    <2>4. Len(q) = 2 /\ q[1] = 1 /\ q[2] = 1
      BY <2>2, <2>3
    <2>5. \A k \in 1 .. 2 : k = 1 \/ k = 2
      OBVIOUS
    <2>6. q = o
      <3>1. Len(q) = Len(o) /\ \A k \in 1 .. Len(q) : q[k] = o[k]
        BY <2>1, <2>4, <2>5
      <3> QED
        BY <3>1, SeqEqual
    <2> QED
      BY <2>1, <2>3, <2>6
  <1>7. PICK both \in Seq(N) : both = <<1, 1>> /\ Front(both) = one
    BY <1>2, <1>6, AppendIs
  <1> QED
    BY <1>0, <1>1, <1>4, <1>5, <1>7

LEMMA FrontInDocument ==
  ASSUME NEW elements, AreTrees(elements), NEW xml, IsShownAs(xml, elements),
         NEW place \in DOMAIN xml, place # <<>>
  PROVE  FrontAt(xml, elements, place)
  <1>1. CASE place \in DOMAIN Frame
    <2>1. place \in {<<1>>, <<1, 1>>, <<2>>}
      BY <1>1, FrameIs
    <2>2. <<>> \in DOMAIN xml /\ <<1>> \in DOMAIN xml
      BY FrameIs DEF IsShownAs
    <2>3. <<>> # <<1>>
      OBVIOUS
    <2>4. \A i \in DOMAIN elements : \A at \in ShownIn(elements[i]) : place # InElement(i, at)
      BY <1>1, PlacesIn, BesideFrame DEF ShownIn
    <2>5. <<1>> # <<1, 1>> /\ <<2>> # <<1, 1>>
      OBVIOUS
    <2> QED
      BY <2>1, <2>2, <2>3, <2>4, <2>5, FrameFront DEF FrontAt
  <1>2. CASE place \notin DOMAIN Frame
    <2>0. PICK i \in DOMAIN elements : \E at \in ShownIn(elements[i]) : place = InElement(i, at)
      BY <1>2 DEF IsShownAs
    <2>1. PICK at \in ShownIn(elements[i]) : place = InElement(i, at)
      BY <2>0
    <2>2. i \in Nat \ {0} /\ IsTree(DOMAIN elements[i]) /\ at \in DOMAIN elements[i]
          /\ at \in Seq(Nat \ {0})
      BY PlacesIn DEF ShownIn
    <2>3. PlaceInElement(place, i, at)
      BY <2>1, <2>2, InElementIs
    <2>4. \A j \in DOMAIN elements : \A b \in ShownIn(elements[j]) :
            place = InElement(j, b) => j = i /\ b = at
      <3> SUFFICES ASSUME NEW j \in DOMAIN elements, NEW b \in ShownIn(elements[j]),
                          place = InElement(j, b)
                   PROVE  j = i /\ b = at
        OBVIOUS
      <3>1. j \in Nat \ {0} /\ b \in Seq(Nat \ {0})
        BY PlacesIn DEF ShownIn
      <3>2. InElement(i, at) = InElement(j, b)
        BY <2>1
      <3>3. i = j /\ at = b
        <4>1. i \in Nat \ {0} /\ at \in Seq(Nat \ {0})
          BY <2>2
        <4> QED
          BY <3>1, <3>2, <4>1, InElementOnce
      <3> QED
        BY <3>3
    <2>5. at # <<>> => Front(at) \in ShownIn(elements[i])
      BY <2>2, ShownAround
    <2>6. at = <<>> => Front(place) = <<2>>
      BY <2>3 DEF PlaceInElement
    <2>7. at # <<>> => Front(place) = InElement(i, Front(at))
      BY <2>3 DEF PlaceInElement
    <2>8. Front(place) \in DOMAIN xml
      <3>1. <<2>> \in DOMAIN xml
        BY FrameIs DEF IsShownAs
      <3>2. at # <<>> => InElement(i, Front(at)) \in DOMAIN xml
        BY <2>5 DEF IsShownAs
      <3> QED
        BY <2>6, <2>7, <3>1, <3>2
    <2>9. place \in Seq(Nat \ {0})
      BY <2>3 DEF PlaceInElement
    <2> QED
      BY <1>2, <2>4, <2>5, <2>6, <2>7, <2>8, <2>9 DEF FrontAt
  <1> QED
    BY <1>1, <1>2


(* What an element has shown in it lies in its node.                       *)
ShownChildren(element, at) == Children(element, at) \cap ShownIn(element)

LEMMA ChildrenInDocument ==
  ASSUME NEW elements, AreTrees(elements), NEW xml, IsShownAs(xml, elements),
         NEW i \in DOMAIN elements, NEW at \in ShownIn(elements[i])
  PROVE  Children(xml, InElement(i, at)) = {InElement(i, child) : child \in ShownChildren(elements[i], at)}
  <1>1. i \in Nat \ {0} /\ IsTree(DOMAIN elements[i]) /\ at \in Seq(Nat \ {0})
    BY PlacesIn DEF ShownIn
  <1>2. PICK place : place = InElement(i, at)
    OBVIOUS
  <1>3. place \notin DOMAIN Frame /\ <<>> \in DOMAIN Frame /\ <<1>> \in DOMAIN Frame /\ <<2>> \in DOMAIN Frame
    BY <1>1, <1>2, BesideFrame, FrameIs
  <1>4. ASSUME NEW c \in Children(xml, place)
        PROVE  \E child \in ShownChildren(elements[i], at) : c = InElement(i, child)
    <2>1. c \in DOMAIN xml /\ c # <<>> /\ Front(c) = place
      BY DEF Children
    <2>2. FrontAt(xml, elements, c)
      BY <2>1, FrontInDocument
    <2>3. c \notin DOMAIN Frame
      BY <1>3, <2>1, <2>2 DEF FrontAt
    <2>4. PICK j \in DOMAIN elements : \E b \in ShownIn(elements[j]) : c = InElement(j, b)
      BY <2>1, <2>3 DEF IsShownAs
    <2>5. PICK b \in ShownIn(elements[j]) : c = InElement(j, b)
      BY <2>4
    <2>6. b # <<>> /\ Front(b) \in ShownIn(elements[j]) /\ place = InElement(j, Front(b))
      BY <1>3, <2>1, <2>2, <2>5 DEF FrontAt
    <2>7. PICK f : f = Front(b)
      OBVIOUS
    <2>8. j \in Nat \ {0} /\ f \in Seq(Nat \ {0})
      BY <2>6, <2>7, PlacesIn DEF ShownIn
    <2>9. InElement(i, at) = InElement(j, f)
      BY <1>2, <2>6, <2>7
    <2>10. i = j /\ at = f
      BY <1>1, <2>8, <2>9, InElementOnce
    <2>11. b \in ShownChildren(elements[i], at)
      BY <2>6, <2>7, <2>10 DEF ShownChildren, Children, ShownIn
    <2> QED
      BY <2>5, <2>10, <2>11
  <1>5. ASSUME NEW child \in ShownChildren(elements[i], at)
        PROVE  InElement(i, child) \in Children(xml, place)
    <2>1. child \in ShownIn(elements[i]) /\ child # <<>> /\ Front(child) = at
      BY DEF ShownChildren, Children
    <2>2. PICK c : c = InElement(i, child)
      OBVIOUS
    <2>3. child \in Seq(Nat \ {0})
      BY <2>1, PlacesIn DEF ShownIn
    <2>4. PlaceInElement(c, i, child) /\ c \notin DOMAIN Frame
      BY <1>1, <2>2, <2>3, InElementIs, BesideFrame
    <2>5. Front(c) = place
      BY <1>2, <2>1, <2>4 DEF PlaceInElement
    <2>6. c \in DOMAIN xml
      BY <2>1, <2>2 DEF IsShownAs
    <2>7. c # <<>>
      BY <1>3, <2>4
    <2> QED
      BY <2>2, <2>5, <2>6, <2>7 DEF Children
  <1> QED
    BY <1>2, <1>4, <1>5

(* The elements of level 1 lie in the Segment.                             *)
LEMMA LevelOne ==
  ASSUME NEW elements, AreTrees(elements), NEW xml, IsShownAs(xml, elements),
         NEW place \in DOMAIN xml, place # <<>>
  PROVE  /\ Front(place) = <<>> => place = <<1>> \/ place = <<2>>
         /\ Front(place) = <<2>> => \E i \in DOMAIN elements :
              <<>> \in ShownIn(elements[i]) /\ place = InElement(i, <<>>)
         /\ Front(place) # <<1, 1>>
  <1>1. FrontAt(xml, elements, place)
    BY FrontInDocument
  <1>2. <<1>> # <<2>> /\ <<>> # <<2>> /\ <<1, 1>> # <<2>> /\ <<1, 1>> # <<1>> /\ <<1, 1>> # <<>>
    OBVIOUS
  <1>3. CASE place \in DOMAIN Frame
    BY <1>1, <1>2, <1>3 DEF FrontAt
  <1>4. CASE place \notin DOMAIN Frame
    <2>1. PICK i \in DOMAIN elements : \E at \in ShownIn(elements[i]) : place = InElement(i, at)
      BY <1>4 DEF IsShownAs
    <2>2. PICK at \in ShownIn(elements[i]) : place = InElement(i, at)
      BY <2>1
    <2>3. i \in Nat \ {0}
      BY PlacesIn
    <2>4. CASE at = <<>>
      <3>1. Front(place) = <<2>>
        BY <1>1, <2>2, <2>4 DEF FrontAt
      <3> QED
        BY <1>2, <2>2, <2>4, <3>1
    <2>5. CASE at # <<>>
      <3>1. PICK f \in ShownIn(elements[i]) : Front(place) = InElement(i, f)
        BY <1>1, <2>2, <2>5 DEF FrontAt
      <3>2. f \in Seq(Nat \ {0})
        BY PlacesIn DEF ShownIn
      <3>3. Front(place) \notin DOMAIN Frame
        BY <2>3, <3>1, <3>2, BesideFrame
      <3> QED
        BY <3>3, FrameIs
    <2> QED
      BY <2>4, <2>5
  <1> QED
    BY <1>3, <1>4

(* Text is written for the elements that are no masters only.              *)
LEMMA ElementsMakeDocument ==
  ASSUME NEW elements, AreTrees(elements), NEW xml, IsShownAs(xml, elements)
  PROVE  IsDocument(xml)
  <1>1. IsTree(DOMAIN xml)
    <2>1. <<>> \in DOMAIN xml
      BY FrameIs DEF IsShownAs
    <2>2. \A place \in DOMAIN xml \ {<<>>} : place \in Seq(Nat \ {0}) /\ Front(place) \in DOMAIN xml
      BY FrontInDocument DEF FrontAt
    <2> QED
      BY <2>1, <2>2, DocumentIsFinite DEF IsTree
  <1>2. ASSUME NEW place \in DOMAIN xml, xml[place].text # NoText
        PROVE  Children(xml, place) = {}
    <2>1. CASE place \in DOMAIN Frame
      <3>1. \A name, text : Node(name, text).text = text
        BY DEF Node
      <3>2. xml[place] = Frame[place]
        BY <2>1 DEF IsShownAs
      <3>3. place = <<1, 1>>
        BY <1>2, <2>1, <3>1, <3>2, FrameIs
      <3>4. \A c \in DOMAIN xml : c # <<>> => Front(c) # place
        BY <3>3, LevelOne
      <3> QED
        BY <3>4 DEF Children
    <2>2. CASE place \notin DOMAIN Frame
      <3>1. PICK i \in DOMAIN elements : \E at \in ShownIn(elements[i]) : place = InElement(i, at)
        BY <2>2 DEF IsShownAs
      <3>2. PICK at \in ShownIn(elements[i]) : place = InElement(i, at)
        BY <3>1
      <3>3. xml[place].text = Text(elements[i], at)
        <4>1. xml[place] = NodeOf(elements[i], at)
          BY <3>2 DEF IsShownAs
        <4>2. NodeOf(elements[i], at).text = Text(elements[i], at)
          BY DEF NodeOf, Node
        <4> QED
          BY <4>1, <4>2
      <3>4. Children(elements[i], at) = {}
        BY <1>2, <3>3 DEF Text, IsMaster
      <3>5. ShownChildren(elements[i], at) = {}
        BY <3>4 DEF ShownChildren
      <3>6. Children(xml, place) = {InElement(i, child) : child \in ShownChildren(elements[i], at)}
        BY <3>2, ChildrenInDocument
      <3> QED
        BY <3>5, <3>6
    <2> QED
      BY <2>1, <2>2
  <1> QED
    BY <1>1, <1>2 DEF IsDocument


-----------------------------------------------------------------------------
(* An element alone is read as what it is                                  *)

(* Only what is shown is in the document.                                  *)
LEMMA SameDocument ==
  ASSUME NEW a, AreTrees(a), NEW b, AreTrees(b), DOMAIN a = DOMAIN b,
         \A i \in DOMAIN a : a[i] = b[i] \/ (ShownIn(a[i]) = {} /\ ShownIn(b[i]) = {})
  PROVE  Document(a) = Document(b)
  <1>1. PICK f, g : f = Document(a) /\ g = Document(b) /\ IsShownAs(f, a) /\ IsShownAs(g, b)
    BY DocumentIs
  <1>2. \A i \in DOMAIN a : ShownIn(a[i]) = ShownIn(b[i])
    OBVIOUS
  <1>3. DOMAIN f = DOMAIN g
    <2>1. \A place : (\E i \in DOMAIN a : \E at \in ShownIn(a[i]) : place = InElement(i, at))
                       <=> (\E i \in DOMAIN b : \E at \in ShownIn(b[i]) : place = InElement(i, at))
      BY <1>2
    <2> QED
      BY <1>1, <2>1 DEF IsShownAs
  <1>4. ASSUME NEW place \in DOMAIN f PROVE f[place] = g[place]
    <2>1. CASE place \in DOMAIN Frame
      BY <1>1, <2>1 DEF IsShownAs
    <2>2. CASE place \notin DOMAIN Frame
      <3>1. PICK i \in DOMAIN a : \E at \in ShownIn(a[i]) : place = InElement(i, at)
        BY <1>1, <2>2 DEF IsShownAs
      <3>2. PICK at \in ShownIn(a[i]) : place = InElement(i, at)
        BY <3>1
      <3>3. a[i] = b[i] /\ at \in ShownIn(b[i]) /\ i \in DOMAIN b
        BY <3>2
      <3>4. f[place] = NodeOf(a[i], at) /\ g[place] = NodeOf(b[i], at)
        BY <1>1, <3>2, <3>3 DEF IsShownAs
      <3> QED
        BY <3>3, <3>4
    <2> QED
      BY <2>1, <2>2
  <1>5. IsFunction(f) /\ IsFunction(g)
    BY <1>1, Zenon DEF Document, IsFunction
  <1> QED
    BY <1>1, <1>3, <1>4, <1>5 DEF IsFunction

(* An element gets a class that may lie where it lies, or none.            *)
LEMMA ClassOfType ==
  ASSUME NEW id, NEW context
  PROVE  /\ ClassOf(id, context) \in Classes \cup {Void, Crc32, Dummy}
         /\ ClassOf(id, context) = Dummy
              \/ /\ Id[ClassOf(id, context)] = id
                 /\ \/ ClassOf(id, context) \in {Void, Crc32}
                    \/ context \in Classes /\ ClassOf(id, context) \in Range(Context[context])
  <1> DEFINE all == (IF context \in Classes THEN Range(Context[context]) ELSE {}) \cup {Void, Crc32}
             known == {class \in all : Id[class] = id}
  <1>1. all \subseteq Classes \cup {Void, Crc32}
    BY ChildrenAre
  <1>2. ClassOf(id, context) = IF known = {} THEN Dummy ELSE CHOOSE class \in known : TRUE
    BY DEF ClassOf
  <1>3. ClassOf(id, context) = Dummy \/ ClassOf(id, context) \in known
    <2> HIDE DEF known
    <2> QED
      BY <1>2
  <1> HIDE DEF all
  <1>4. ClassOf(id, context) = Dummy
          \/ (ClassOf(id, context) \in all /\ Id[ClassOf(id, context)] = id)
    BY <1>3
  <1> QED
    BY <1>1, <1>4 DEF all

(* So the recursion of Read has an end.                                    *)
LEMMA ClassesEquation ==
  ASSUME NEW raw, IsTree(DOMAIN raw), NEW callbacks
  PROVE  LET class == ClassesIn(raw, callbacks) IN
         \A at \in DOMAIN raw : class[at] = ClassAt(raw, callbacks, at, class)
  <1> DEFINE D == DOMAIN raw
             T == Classes \cup {Void, Crc32, Dummy}
             rank == [at \in D |-> Len(at)]
             step == [at \in D |-> [class \in [D -> T] |-> ClassAt(raw, callbacks, at, class)]]
             Solves(class) == class = [at \in D |-> ClassAt(raw, callbacks, at, class)]
  <1>1. \A at \in D : Len(at) \in Nat
    BY PlaceType
  <1>2. \A at \in D : Len(at) > 1 => Front(at) \in D /\ Len(Front(at)) < Len(at)
    <2> SUFFICES ASSUME NEW at \in D, Len(at) > 1 PROVE Front(at) \in D /\ Len(Front(at)) < Len(at)
      OBVIOUS
    <2>1. at # <<>>
      OBVIOUS
    <2>2. Len(at) \in Nat \ {0} /\ Front(at) \in D /\ Len(Front(at)) = Len(at) - 1
      BY <2>1, PlaceIs
    <2> QED
      BY <2>2
  <1>3. LooksLower(D, T, rank, step)
    <2>1. rank \in [D -> Nat]
      BY <1>1
    <2>2. step \in [D -> [[D -> T] -> T]]
      <3> HIDE DEF D
      <3>1. \A at \in D : \A class \in [D -> T] : ClassAt(raw, callbacks, at, class) \in T
        BY ClassOfType DEF ClassAt
      <3> QED
        BY <3>1
    <2>3. ASSUME NEW at \in D, NEW f \in [D -> T], NEW g \in [D -> T],
                 \A e \in D : rank[e] < rank[at] => f[e] = g[e]
          PROVE  step[at][f] = step[at][g]
      <3>1. Len(at) > 1 => f[Front(at)] = g[Front(at)]
        BY <1>2, <2>3
      <3>2. ClassAt(raw, callbacks, at, f) = ClassAt(raw, callbacks, at, g)
        <4>1. CASE Len(at) > 1
          <5>1. f[Front(at)] = g[Front(at)]
            BY <3>1, <4>1
          <5> QED
            BY <5>1 DEF ClassAt
        <4>2. CASE ~(Len(at) > 1)
          <5>1. Len(at) \in Nat /\ (Len(at) = 0 => at = <<>>) /\ (Len(at) = 0 \/ Len(at) = 1)
            <6>1. PICK N : N = Nat \ {0}
              OBVIOUS
            <6>2. at \in Seq(N) /\ Len(at) \in Nat
              BY <6>1, PlaceType
            <6>3. Len(at) = 0 => at = <<>>
              BY <6>2, EmptySeq
            <6>4. Len(at) = 0 \/ Len(at) = 1
              <7>1. PICK m \in Nat : m = Len(at)
                BY <6>2
              <7>2. ~(m > 1)
                BY <4>2, <7>1
              <7>3. m = 0 \/ m = 1
                BY <7>2
              <7> QED
                BY <7>1, <7>3
            <6> QED
              BY <6>2, <6>3, <6>4
          <5>2. CASE at = <<>>
            BY <4>2, <5>2 DEF ClassAt
          <5>3. CASE at # <<>>
            BY <4>2, <5>1, <5>3 DEF ClassAt
          <5> QED
            BY <5>2, <5>3
        <4> QED
          BY <4>1, <4>2
      <3> QED
        BY <3>2
    <2> HIDE DEF D, T, rank, step
    <2> QED
      BY <2>1, <2>2, <2>3 DEF LooksLower
  <1>4. \E class : Solves(class)
    <2>1. PICK class \in [D -> T] : \A at \in D : class[at] = step[at][class]
      <3>1. PICK E, B : E = D /\ B = T
        OBVIOUS
      <3>2. T # {}
        OBVIOUS
      <3> HIDE DEF rank, step, D, T
      <3>3. LooksLower(E, B, rank, step) /\ B # {}
        BY <1>3, <3>1, <3>2
      <3>4. \E class \in [E -> B] : \A at \in E : class[at] = step[at][class]
        BY <3>3, RecursionByRank
      <3> QED
        BY <3>1, <3>4
    <2>2. Solves(class)
      BY <2>1
    <2> QED
      BY <2>2
  <1>5. Solves(ClassesIn(raw, callbacks))
    <2>1. ClassesIn(raw, callbacks) = CHOOSE class : Solves(class)
      BY DEF ClassesIn
    <2> HIDE DEF Solves
    <2> QED
      BY <1>4, <2>1
  <1> QED
    BY <1>5


(* The element itself is read with the semantics of the Segment.           *)
LEMMA ReadRoot ==
  ASSUME NEW raw, IsTree(DOMAIN raw), NEW callbacks
  PROVE  /\ DOMAIN Read(raw, callbacks) \subseteq DOMAIN raw
         /\ <<>> \in DOMAIN Read(raw, callbacks)
         /\ Read(raw, callbacks)[<<>>].class = ClassOf(raw[<<>>].id, Base)
  <1> DEFINE class == ClassesIn(raw, callbacks)
             Kept == {at \in DOMAIN raw : \A n \in 0 .. Len(at) - 1 : class[SubSeq(at, 1, n)] # Dummy}
             At(at) == [class |-> class[at], id |-> raw[at].id, value |-> raw[at].value]
  <1>1. Read(raw, callbacks) = [at \in Kept |-> At(at)]
    BY Zenon DEF Read
  <1>2. class[<<>>] = ClassOf(raw[<<>>].id, Base)
    <2>1. <<>> \in DOMAIN raw
      BY DEF IsTree
    <2>2. class[<<>>] = ClassAt(raw, callbacks, <<>>, class)
      BY <2>1, ClassesEquation
    <2>3. Len(<<>>) = 0
      OBVIOUS
    <2> HIDE DEF class
    <2> QED
      BY <2>2, <2>3 DEF ClassAt
  <1>3. <<>> \in Kept
    <2>1. <<>> \in DOMAIN raw /\ 0 .. Len(<<>>) - 1 = {}
      BY DEF IsTree
    <2> QED
      BY <2>1
  <1>4. At(<<>>).class = class[<<>>]
    OBVIOUS
  <1> HIDE DEF class, At
  <1>5. Read(raw, callbacks)[<<>>] = At(<<>>) /\ DOMAIN Read(raw, callbacks) = Kept
    BY <1>1, <1>3
  <1> QED
    BY <1>2, <1>3, <1>4, <1>5

(* Nothing is shown in an element that is passed over.                     *)
LEMMA DummyShowsNothing ==
  ASSUME NEW element, <<>> \in DOMAIN element, element[<<>>].class = Dummy,
         \A at \in DOMAIN element : at \in Seq(Nat \ {0})
  PROVE  ShownIn(element) = {}
  <1> SUFFICES ASSUME NEW at \in ShownIn(element) PROVE FALSE
    OBVIOUS
  <1>1. at \in Seq(Nat \ {0}) /\ Len(at) \in Nat /\ Shown(element, at)
    BY LenProperties DEF ShownIn
  <1>2. 0 \in 0 .. Len(at) /\ SubSeq(at, 1, 0) = <<>>
    <2>1. 0 \in 0 .. Len(at)
      BY <1>1
    <2>2. SubSeq(at, 1, 0) = <<>>
      BY <1>1, <2>1, PlacesAround
    <2> QED
      BY <2>1, <2>2
  <1> DEFINE Visible(node) == node.class \notin {Dummy, Void} /\ NameOf[node.id] # ""
  <1>3. \A s : Shown(element, s) <=> \A n \in 0 .. Len(s) : Visible(element[SubSeq(s, 1, n)])
    BY DEF Shown
  <1>4. ~Visible(element[<<>>])
    OBVIOUS
  <1> HIDE DEF Visible
  <1>5. Visible(element[SubSeq(at, 1, 0)])
    BY <1>1, <1>2, <1>3
  <1> QED
    BY <1>2, <1>4, <1>5

(* The semantics found for an element of the Segment are those of its      *)
(* class, and an element of another one is passed over.                    *)
LEMMA OwnSemantics ==
  ASSUME NEW id, ClassOf(id, Base) # Dummy
  PROVE  Semantics(id) = IF ClassOf(id, Base) \in Classes THEN ClassOf(id, Base) ELSE NoCallbacks
  <1>1. PICK class : class = ClassOf(id, Base)
    OBVIOUS
  <1>2. /\ class \in Classes \cup {Void, Crc32, Dummy}
        /\ Id[class] = id
        /\ class \in {Void, Crc32} \/ (Base \in Classes /\ class \in Range(Context[Base]))
    BY <1>1, ClassOfType
  <1>3. Below \in SUBSET Classes /\ Base \in Below /\ HoldsChildren(Below)
    BY BelowIsAll
  <1>4. Classes \subseteq DOMAIN Id /\ {Void, Crc32} \subseteq DOMAIN Id \ Classes
    BY ClassesAssumption, ElementsAssumption
  <1>5. class \in DOMAIN Id
    BY <1>2, <1>4, ChildrenAre, ClassesAssumption
  <1>6. \A other \in Below : Id[other] = id => other = class
    BY <1>2, <1>3, <1>4, <1>5, IdsAssumption
  <1>7. CASE class \in Classes
    <2>1. class \in Below
      <3>1. class \in Range(Context[Base])
        BY <1>2, <1>4, <1>7
      <3> QED
        BY <1>3, <3>1 DEF HoldsChildren
    <2>2. \E other \in Below : Id[other] = id
      BY <1>2, <2>1
    <2>3. do_find_ebml_callbacks(Base, id) \in {other \in Below : Id[other] = id}
      BY <2>2, SearchIsRight
    <2>4. Semantics(id) = class
      BY <1>6, <2>3 DEF Semantics
    <2> QED
      BY <1>1, <1>7, <2>4
  <1>8. CASE class \notin Classes
    <2>1. ~ \E other \in Below : Id[other] = id
      BY <1>3, <1>6, <1>8
    <2>2. do_find_ebml_callbacks(Base, id) = NoCallbacks
      BY <2>1, SearchIsRight
    <2> QED
      BY <1>1, <1>8, <2>2 DEF Semantics
  <1> QED
    BY <1>7, <1>8

LEMMA ReadAloneAsItself ==
  ASSUME NEW raw \in Raws
  PROVE  /\ IsTree(DOMAIN ReadAlone(raw)) /\ IsTree(DOMAIN ReadAsItself(raw))
         /\ \/ ReadAlone(raw) = ReadAsItself(raw)
            \/ ShownIn(ReadAlone(raw)) = {} /\ ShownIn(ReadAsItself(raw)) = {}
  <1>1. IsTree(DOMAIN raw)
    BY RawsAre
  <1>2. \A at \in DOMAIN raw : at \in Seq(Nat \ {0})
    BY <1>1, PlaceType
  <1> DEFINE alone == IF Semantics(raw[<<>>].id) = NoCallbacks THEN Base ELSE Semantics(raw[<<>>].id)
             class == ClassOf(raw[<<>>].id, Base)
             own == IF class \in Classes THEN class ELSE Base
  <1>3. ReadAlone(raw) = Read(raw, alone) /\ ReadAsItself(raw) = Read(raw, own)
    BY DEF ReadAlone, ReadAsItself
  <1>4. IsTree(DOMAIN Read(raw, alone)) /\ IsTree(DOMAIN Read(raw, own))
    BY <1>1, ReadIsTree
  <1>5. CASE class = Dummy
    <2> HIDE DEF alone, own
    <2>1. ASSUME NEW callbacks PROVE ShownIn(Read(raw, callbacks)) = {}
      <3>1. PICK element : element = Read(raw, callbacks)
        OBVIOUS
      <3>2. /\ DOMAIN element \subseteq DOMAIN raw /\ <<>> \in DOMAIN element
            /\ element[<<>>].class = Dummy
        BY <1>1, <1>5, <3>1, ReadRoot
      <3>3. \A at \in DOMAIN element : at \in Seq(Nat \ {0})
        BY <1>2, <3>2
      <3> QED
        BY <3>1, <3>2, <3>3, DummyShowsNothing
    <2> QED
      BY <1>3, <1>4, <2>1
  <1>6. CASE class # Dummy
    <2>1. Semantics(raw[<<>>].id) = IF class \in Classes THEN class ELSE NoCallbacks
      BY <1>6, OwnSemantics
    <2>2. alone = own
      BY <2>1, ClassesAssumption
    <2> QED
      BY <1>3, <1>4, <2>2
  <1> QED
    BY <1>5, <1>6

(* What is shown makes the document of the elements as they are.           *)
LEMMA ShownAsTheyAre ==
  ASSUME ReadsAlike
  PROVE  LET alike == [i \in DOMAIN delivered |-> ReadAsItself(delivered[i])]
         IN  AreTrees(alike) /\ Document(shown) = Document(alike)
  <1>1. PICK alike : alike = [i \in DOMAIN delivered |-> ReadAsItself(delivered[i])]
    OBVIOUS
  <1>2. PICK alone : alone = shown /\ alone = [i \in DOMAIN delivered |-> ReadAlone(delivered[i])]
    BY DEF ReadsAlike
  <1>3. PICK n \in Nat : DOMAIN delivered = 1 .. n /\ \A i \in 1 .. n : delivered[i] \in Raws
    BY DEF ReadsAlike
  <1>4. \A i \in 1 .. n : alike[i] = ReadAsItself(delivered[i]) /\ alone[i] = ReadAlone(delivered[i])
    BY <1>1, <1>2, <1>3
  <1>5. DOMAIN alike = 1 .. n /\ DOMAIN alone = 1 .. n
    BY <1>1, <1>2, <1>3
  <1>6. ASSUME NEW i \in 1 .. n
        PROVE  /\ IsTree(DOMAIN alike[i]) /\ IsTree(DOMAIN alone[i])
               /\ alone[i] = alike[i] \/ (ShownIn(alone[i]) = {} /\ ShownIn(alike[i]) = {})
    <2>1. PICK raw \in Raws : raw = delivered[i]
      BY <1>3
    <2>2. alike[i] = ReadAsItself(raw) /\ alone[i] = ReadAlone(raw)
      BY <1>4, <2>1
    <2> QED
      BY <2>2, ReadAloneAsItself
  <1>7. AreTrees(alike) /\ AreTrees(alone)
    BY <1>5, <1>6 DEF AreTrees
  <1>8. Document(alone) = Document(alike)
    <2>1. DOMAIN alone = DOMAIN alike
          /\ \A i \in DOMAIN alone : alone[i] = alike[i] \/ (ShownIn(alone[i]) = {} /\ ShownIn(alike[i]) = {})
      BY <1>5, <1>6
    <2> QED
      BY <1>7, <2>1, SameDocument
  <1> QED
    BY <1>1, <1>2, <1>7, <1>8


-----------------------------------------------------------------------------
(* info() reads elements                                                   *)

LEMMA ReadingStep == [Next]_vars => [ReadNext]_readVars
  <1> SUFFICES ASSUME [Next]_vars PROVE [ReadNext]_readVars
    OBVIOUS
  <1>1. CASE \E segment \in Files : Call(segment)
    BY <1>1 DEF Call, ReadNext
  <1>2. CASE NextElement
    BY <1>2 DEF NextElement, ReadNext
  <1>3. CASE LeaveSegment
    BY <1>3 DEF LeaveSegment, readVars
  <1>4. CASE Answer
    BY <1>4 DEF Answer, ReadNext
  <1>5. CASE UNCHANGED vars
    BY <1>5 DEF vars, readVars
  <1> QED
    BY <1>1, <1>2, <1>3, <1>4, <1>5 DEF Next

(* Whatever is proved of reading elements holds in info().                 *)
THEOREM InfoImplementsReading == Spec => ReadSpec
  <1>1. Init => ReadInit
    BY DEF Init
  <1> QED
    BY <1>1, ReadingStep, PTL DEF Spec, ReadSpec

(* In info(), too, the table of semantics answers what a search would      *)
(* find, and no element is deleted twice or lost.                          *)
THEOREM InfoKeepsTableAndHeap ==
  Spec => [](CacheIsTransparent /\ FindsWhatIsBelow /\ DeletesWhatNobodyOwns)
  BY InfoImplementsReading, TableServesReading, OwnershipRespected, PTL

-----------------------------------------------------------------------------
(* What info() answers                                                     *)

(* An answer is about the elements shown as long as it stands.             *)
AnswerInv ==
  /\ pc # "idle" => answer = NoAnswer
  /\ answer.kind = "json" => answer.json = recursiveIteration(xmlToJsonObject(Document(shown)))

LEMMA NoAnswerIs == NoAnswer.kind # "json"
  BY DEF NoAnswer

LEMMA AnswerInitially == Init => AnswerInv
  BY NoAnswerIs DEF Init, AnswerInv

LEMMA AnswerKept == AnswerInv /\ [Next]_vars => AnswerInv'
  <1> SUFFICES ASSUME AnswerInv, [Next]_vars PROVE AnswerInv'
    OBVIOUS
  <1>1. CASE \E segment \in Files : Call(segment)
    BY <1>1, NoAnswerIs DEF Call, AnswerInv
  <1>2. CASE NextElement
    <2>1. answer' = NoAnswer
      BY <1>2 DEF NextElement, AnswerInv
    <2> QED
      BY <2>1, NoAnswerIs DEF AnswerInv
  <1>3. CASE LeaveSegment
    <2>1. answer' = NoAnswer
      BY <1>3 DEF LeaveSegment, AnswerInv
    <2> QED
      BY <2>1, NoAnswerIs DEF AnswerInv
  <1>4. CASE Answer
    <2>1. pc' = "idle" /\ shown' = shown
      BY <1>4 DEF Answer, CloseSegment, reading
    <2>2. PICK json : json = recursiveIteration(xmlToJsonObject(Document(shown)))
      OBVIOUS
    <2>3. answer'.kind = "json" => answer'.json = json
      <3>1. \/ answer' = [kind |-> "empty"]
            \/ answer' = [kind |-> "raised"]
            \/ answer' = [kind |-> "json", json |-> json]
        BY <1>4, <2>2 DEF Answer
      <3> QED
        BY <3>1
    <2> QED
      BY <2>1, <2>2, <2>3 DEF AnswerInv
  <1>5. CASE UNCHANGED vars
    BY <1>5 DEF vars, reading, AnswerInv
  <1> QED
    BY <1>1, <1>2, <1>3, <1>4, <1>5 DEF Next

(* So it is about the elements of the file, as they are.                   *)
LEMMA AnswerIs ==
  ASSUME AnswerInv, ReadsAlike, answer.kind = "json"
  PROVE  LET alike == [i \in DOMAIN delivered |-> ReadAsItself(delivered[i])]
         IN  /\ AreTrees(alike)
             /\ answer.json = recursiveIteration(xmlToJsonObject(Document(alike)))
  BY ShownAsTheyAre DEF AnswerInv

LEMMA AnswerHasValues == AnswerInv /\ ReadsAlike => EveryValueInPlace
  <1> SUFFICES ASSUME AnswerInv, ReadsAlike, answer.kind = "json"
               PROVE  /\ IsJson(answer.json)
                      /\ Leaves(answer.json)
                           = Values(Document([i \in DOMAIN delivered |-> ReadAsItself(delivered[i])]))
    BY DEF EveryValueInPlace
  <1>1. PICK alike : alike = [i \in DOMAIN delivered |-> ReadAsItself(delivered[i])]
    OBVIOUS
  <1>2. AreTrees(alike) /\ answer.json = recursiveIteration(xmlToJsonObject(Document(alike)))
    BY <1>1, AnswerIs
  <1>3. PICK xml : xml = Document(alike)
    OBVIOUS
  <1>4. IsDocument(xml)
    BY <1>2, <1>3, DocumentIs, ElementsMakeDocument
  <1>5. IsJson(recursiveIteration(xmlToJsonObject(xml)))
        /\ Leaves(recursiveIteration(xmlToJsonObject(xml))) = Values(xml)
    BY <1>4, NoValueIsLost
  <1> QED
    BY <1>1, <1>2, <1>3, <1>5

(* However often info() was called before, with whatever files, and        *)
(* whatever the names: every value of the elements shown is in the JSON,   *)
(* in its place, and nothing else is.                                      *)
THEOREM AnswerTellsAll == Spec => []EveryValueInPlace
  BY AnswerInitially, AnswerKept, AnswerHasValues, InfoImplementsReading, ReadingForgets, PTL DEF Spec


-----------------------------------------------------------------------------
(* What test.py finds in the answer                                        *)

(* What is appended, and to what.                                          *)
LEMMA AppendOnce ==
  ASSUME NEW S, NEW f \in Seq(S), NEW g \in Seq(S), NEW x, NEW y, Append(f, x) = Append(g, y)
  PROVE  f = g /\ x = y
  <1>1. PICK T : T = S \cup {x, y}
    OBVIOUS
  <1>2. f \in Seq(T) /\ g \in Seq(T) /\ x \in T /\ y \in T
    BY <1>1
  <1>3. Front(Append(f, x)) = f /\ Last(Append(f, x)) = x
    BY <1>2, AppendIs
  <1>4. Front(Append(g, y)) = g /\ Last(Append(g, y)) = y
    BY <1>2, AppendIs
  <1> QED
    BY <1>3, <1>4

LEMMA NotEmpty ==
  ASSUME NEW S, NEW f \in Seq(S), NEW x
  PROVE  Append(f, x) # <<>>
  <1>1. PICK T : T = S \cup {x}
    OBVIOUS
  <1>2. f \in Seq(T) /\ x \in T
    BY <1>1
  <1> QED
    BY <1>2, AppendIs

(* The member of a node of a name, and its items.                          *)
Member(xml, node, name, i) == Append(WayTo(xml, node), <<name, i>>)

NamedIn(xml, node, name) == {c \in Children(xml, node) : xml[c].name = name}

LEMMA WayType ==
  ASSUME NEW xml, IsDocument(xml), NEW node \in DOMAIN xml
  PROVE  WayTo(xml, node) \in Seq(Steps(xml))
  <1>1. IsTree(DOMAIN xml)
    BY DEF IsDocument
  <1>2. CASE node = <<>>
    <2>1. WayTo(xml, <<>>) = <<>>
      BY <1>1, WayToOnce
    <2>2. <<>> \in Seq(Steps(xml))
      OBVIOUS
    <2> QED
      BY <1>2, <2>1, <2>2
  <1>3. CASE node # <<>>
    BY <1>1, <1>3, WayToIs DEF Elements
  <1> QED
    BY <1>2, <1>3

(* Ways to elements and lists are ways to members.                         *)
LEMMA MemberWays ==
  ASSUME NEW xml, IsDocument(xml), NEW at \in Elements(xml)
  PROVE  /\ Front(at) \in DOMAIN xml
         /\ at \in NamedIn(xml, Front(at), xml[at].name)
         /\ ListAround(xml, at) = Member(xml, Front(at), xml[at].name, 0)
         /\ \A i : Item(ListAround(xml, at), i) = Member(xml, Front(at), xml[at].name, i)
         /\ WayTo(xml, at) = Member(xml, Front(at), xml[at].name, Cardinality(Namesakes(xml, at)))
         /\ Cardinality(Namesakes(xml, at)) \in Nat \ {0}
  <1>1. IsTree(DOMAIN xml)
    BY DEF IsDocument
  <1>2. PICK name, number, way : /\ name = xml[at].name /\ number = Cardinality(Namesakes(xml, at))
                                 /\ way = WayTo(xml, at)
    OBVIOUS
  <1>3. /\ way \in Seq(Steps(xml)) /\ way # <<>>
        /\ Front(at) \in DOMAIN xml /\ at \in Children(xml, Front(at))
        /\ Front(way) = WayTo(xml, Front(at))
        /\ Last(way) = <<name, number>>
        /\ number \in Nat \ {0}
    BY <1>1, <1>2, WayToIs
  <1>4. way = Append(WayTo(xml, Front(at)), <<name, number>>)
    <2>1. way = Append(Front(way), Last(way))
      BY <1>3, FrontAndLast
    <2> QED
      BY <1>3, <2>1
  <1>5. PICK list : /\ list = ListAround(xml, at) /\ Front(list) = WayTo(xml, Front(at))
                    /\ Last(list) = <<name, 0>>
    BY <1>1, <1>2, ListIs DEF ListIsAt
  <1>6. Last(way)[1] = name /\ Last(list)[1] = name
    BY <1>3, <1>5
  <1>7. list = Append(WayTo(xml, Front(at)), <<name, 0>>)
    <2>1. list = Append(Front(way), <<Last(way)[1], 0>>)
      BY <1>2, <1>5 DEF ListAround, Item
    <2> QED
      BY <1>3, <1>6, <2>1
  <1>8. \A i : Item(list, i) = Append(WayTo(xml, Front(at)), <<name, i>>)
    BY <1>5, <1>6 DEF Item
  <1>9. at \in NamedIn(xml, Front(at), name)
    BY <1>2, <1>3 DEF NamedIn
  <1> QED
    BY <1>2, <1>3, <1>4, <1>5, <1>7, <1>8, <1>9 DEF Member

(* A way leads to one member.                                              *)
LEMMA MemberOnce ==
  ASSUME NEW xml, IsDocument(xml), NEW a \in DOMAIN xml, NEW b \in DOMAIN xml,
         NEW m, NEW n, NEW i, NEW j, Member(xml, a, m, i) = Member(xml, b, n, j)
  PROVE  a = b /\ m = n /\ i = j
  <1>1. WayTo(xml, a) \in Seq(Steps(xml)) /\ WayTo(xml, b) \in Seq(Steps(xml))
    BY WayType
  <1>2. PICK x, y : x = <<m, i>> /\ y = <<n, j>>
    OBVIOUS
  <1>3. Append(WayTo(xml, a), x) = Append(WayTo(xml, b), y)
    BY <1>2 DEF Member
  <1>4. WayTo(xml, a) = WayTo(xml, b) /\ x = y
    BY <1>1, <1>3, AppendOnce
  <1>5. a = b
    BY <1>4, WayToOnce DEF IsDocument
  <1>6. m = n /\ i = j
    BY <1>2, <1>4
  <1> QED
    BY <1>5, <1>6

(* The children of a name, all in one list.                                *)
LEMMA NamedAre ==
  ASSUME NEW xml, IsDocument(xml), NEW node \in DOMAIN xml, NEW name, NEW c \in NamedIn(xml, node, name)
  PROVE  /\ c \in Elements(xml) /\ Front(c) = node /\ xml[c].name = name
         /\ Alike(xml, c) = NamedIn(xml, node, name)
  <1>1. c \in Elements(xml) /\ Front(c) = node /\ xml[c].name = name
    BY DEF NamedIn, Children, Elements
  <1> QED
    BY <1>1 DEF Alike, NamedIn


(* Several of a name, or one that is no text, are a list, of one at least, *)
(* in an object.                                                           *)
IsListOf(json, xml, node, name) ==
  /\ WayTo(xml, node) \in DOMAIN json /\ json[WayTo(xml, node)].type = "object"
  /\ Member(xml, node, name, 0) \in DOMAIN json
  /\ json[Member(xml, node, name, 0)].type = "array"
  /\ 1 \in 1 .. json[Member(xml, node, name, 0)].size
  /\ \A i \in 1 .. json[Member(xml, node, name, 0)].size :
       \E b \in NamedIn(xml, node, name) : Member(xml, node, name, i) = WayTo(xml, b)

LEMMA NamedMakeList ==
  ASSUME NEW xml, IsDocument(xml), NEW json, IsShort(json, xml), NEW node \in DOMAIN xml, NEW name,
         NEW c \in NamedIn(xml, node, name), xml[c].text = NoText
  PROVE  IsListOf(json, xml, node, name)
  <1>1. /\ c \in Elements(xml) /\ Front(c) = node /\ xml[c].name = name
        /\ Alike(xml, c) = NamedIn(xml, node, name)
    BY NamedAre
  <1>2. c \notin Lone(xml)
    BY DEF Lone
  <1>3. PICK list, size : list = ListAround(xml, c) /\ size = Cardinality(Alike(xml, c))
    OBVIOUS
  <1>4. list = Member(xml, node, name, 0) /\ \A i : Item(list, i) = Member(xml, node, name, i)
    BY <1>1, <1>3, MemberWays
  <1>5. list \in DOMAIN json /\ json[list] = Array(size)
    BY <1>1, <1>2, <1>3 DEF IsShort
  <1>6. json[list].type = "array" /\ json[list].size = size
    BY <1>5, FieldsAre
  <1>7. ASSUME NEW i \in 1 .. size
        PROVE  \E b \in NamedIn(xml, node, name) : Member(xml, node, name, i) = WayTo(xml, b)
    <2>1. i \in 1 .. Cardinality(Alike(xml, c)) /\ IsTree(DOMAIN xml)
      BY <1>3 DEF IsDocument
    <2>2. \E b \in Alike(xml, c) : b \in Elements(xml) /\ Item(ListAround(xml, c), i) = WayTo(xml, b)
      BY <1>1, <2>1, ItemsAre
    <2> QED
      BY <1>1, <1>3, <1>4, <2>2
  <1>8. 1 \in 1 .. size
    <2>1. Cardinality(Namesakes(xml, c)) \in 1 .. size /\ size \in Nat
      <3>1. IsTree(DOMAIN xml) /\ c \in DOMAIN xml /\ c # <<>>
        BY <1>1 DEF IsDocument, Elements
      <3> QED
        BY <1>3, <3>1, NumberIs
    <2>2. PICK k \in 1 .. size : TRUE
      BY <2>1
    <2> QED
      BY <2>1, <2>2
  <1>9. WayTo(xml, node) \in DOMAIN json /\ json[WayTo(xml, node)].type = "object"
    BY <1>1, FrontIs
  <1> QED
    BY <1>4, <1>5, <1>6, <1>7, <1>8, <1>9 DEF IsListOf

(* One text is that text.                                                  *)
LEMMA NamedMakeText ==
  ASSUME NEW xml, IsDocument(xml), NEW json, IsShort(json, xml), NEW node \in DOMAIN xml, NEW name,
         NEW c, NamedIn(xml, node, name) = {c}, xml[c].text # NoText
  PROVE  /\ Member(xml, node, name, 0) \in DOMAIN json
         /\ json[Member(xml, node, name, 0)].type = "string"
  <1>1. /\ c \in Elements(xml) /\ Front(c) = node /\ xml[c].name = name
        /\ Alike(xml, c) = {c}
    BY NamedAre
  <1>2. Cardinality({c}) = 1
    BY FS_Singleton
  <1>3. c \in Lone(xml)
    BY <1>1, <1>2 DEF Lone
  <1>4. ListAround(xml, c) = Member(xml, node, name, 0)
    BY <1>1, MemberWays
  <1>5. ListAround(xml, c) \in DOMAIN json /\ json[ListAround(xml, c)] = Kind(xml, c)
    BY <1>1, <1>3 DEF IsShort
  <1>6. Kind(xml, c).type = "string"
    BY <1>1, KindIs DEF Elements
  <1> QED
    BY <1>4, <1>5, <1>6

(* There is no list of a name that no child has.                           *)
LEMMA ListedAreThere ==
  ASSUME NEW xml, IsDocument(xml), NEW json, IsShort(json, xml), NEW node \in DOMAIN xml, NEW name,
         Member(xml, node, name, 0) \in DOMAIN json
  PROVE  NamedIn(xml, node, name) # {}
  <1>1. PICK way : way = Member(xml, node, name, 0)
    OBVIOUS
  <1>2. way # <<>>
    BY <1>1, WayType, NotEmpty DEF Member
  <1>3. \/ \E at \in Elements(xml) : way = WayTo(xml, at)
        \/ \E at \in Elements(xml) : way = ListAround(xml, at)
    BY <1>1, <1>2 DEF IsShort
  <1>4. ASSUME NEW at \in Elements(xml), way = WayTo(xml, at) PROVE FALSE
    <2>1. PICK n \in Nat \ {0} : way = Member(xml, Front(at), xml[at].name, n) /\ Front(at) \in DOMAIN xml
      BY <1>4, MemberWays
    <2>2. Member(xml, node, name, 0) = Member(xml, Front(at), xml[at].name, n)
      BY <1>1, <2>1
    <2>3. 0 = n
      BY <2>1, <2>2, MemberOnce
    <2> QED
      BY <2>3
  <1>5. ASSUME NEW at \in Elements(xml), way = ListAround(xml, at) PROVE at \in NamedIn(xml, node, name)
    <2>1. /\ way = Member(xml, Front(at), xml[at].name, 0) /\ Front(at) \in DOMAIN xml
          /\ at \in NamedIn(xml, Front(at), xml[at].name)
      BY <1>5, MemberWays
    <2>2. Member(xml, node, name, 0) = Member(xml, Front(at), xml[at].name, 0)
      BY <1>1, <2>1
    <2>3. node = Front(at) /\ name = xml[at].name
      BY <2>1, <2>2, MemberOnce
    <2> QED
      BY <2>1, <2>3
  <1> QED
    BY <1>3, <1>4, <1>5

(* The way to the tracks, step by step.                                    *)
LEMMA OneIs ==
  ASSUME NEW x
  PROVE  Append(<<>>, x) = <<x>>
  OBVIOUS

LEMMA SegmentWay ==
  ASSUME NEW elements, AreTrees(elements), NEW xml, IsShownAs(xml, elements)
  PROVE  /\ << 2 >> \in NamedIn(xml, <<>>, "Segment") /\ xml[<< 2 >>].text = NoText
         /\ WayTo(xml, <<>>) = <<>>
         /\ WayTo(xml, << 2 >>) = <<<<"Segment", 1>>>>
         /\ \A name, i : Member(xml, << 2 >>, name, i) = Append(<<<<"Segment", 1>>>>, <<name, i>>)
  <1>1. IsDocument(xml)
    BY ElementsMakeDocument
  <1>2. PICK segment : segment = <<2>>
    OBVIOUS
  <1>3. segment \in DOMAIN xml /\ segment # <<>> /\ Front(segment) = <<>>
        /\ xml[segment].name = "Segment" /\ xml[segment].text = NoText
    <2>1. <<2>> \in DOMAIN xml /\ xml[<<2>>] = Node("Segment", NoText) /\ <<2>> # <<>>
      BY FrameIs DEF IsShownAs
    <2>2. xml[<<2>>].name = "Segment" /\ xml[<<2>>].text = NoText
      BY <2>1 DEF Node
    <2> QED
      BY <1>2, <2>1, <2>2, FrameFront
  <1>4. xml[<<1>>].name # "Segment"
    <2>1. xml[<<1>>] = Node("EBML_head", NoText)
      BY FrameIs DEF IsShownAs
    <2> QED
      BY <2>1 DEF Node
  <1>5. \A c \in Children(xml, <<>>) : c = <<1>> \/ c = segment
    <2>1. \A c \in DOMAIN xml : c # <<>> /\ Front(c) = <<>> => c = <<1>> \/ c = segment
      BY <1>2, LevelOne
    <2> QED
      BY <2>1 DEF Children
  <1>6. Namesakes(xml, segment) \subseteq {segment}
    BY <1>3, <1>4, <1>5 DEF Namesakes
  <1>7. Cardinality(Namesakes(xml, segment)) = 1
    <2>1. Cardinality(Namesakes(xml, segment)) # 0
      BY <1>1, <1>3, MemberWays DEF Elements
    <2>2. Cardinality({}) = 0 /\ Cardinality({segment}) = 1
      BY FS_EmptySet, FS_Singleton
    <2>3. Namesakes(xml, segment) = {} \/ Namesakes(xml, segment) = {segment}
      BY <1>6
    <2> QED
      BY <2>1, <2>2, <2>3
  <1>8. WayTo(xml, segment) = <<<<"Segment", 1>>>> /\ WayTo(xml, <<>>) = <<>>
    <2>1. WayTo(xml, segment) = Member(xml, <<>>, "Segment", 1)
      BY <1>1, <1>3, <1>7, MemberWays DEF Elements
    <2>2. WayTo(xml, <<>>) = <<>>
      BY <1>1, WayToOnce DEF IsDocument
    <2>3. WayTo(xml, segment) = Append(<<>>, <<"Segment", 1>>)
      BY <2>1, <2>2 DEF Member
    <2> QED
      BY <2>2, <2>3, OneIs
  <1>9. segment \in NamedIn(xml, <<>>, "Segment")
    <2>1. segment \in NamedIn(xml, Front(segment), xml[segment].name)
      BY <1>1, <1>3, MemberWays DEF Elements
    <2> QED
      BY <1>3, <2>1
  <1>10. \A name, i : Member(xml, segment, name, i) = Append(<<<<"Segment", 1>>>>, <<name, i>>)
    BY <1>8 DEF Member
  <1> QED
    BY <1>2, <1>3, <1>8, <1>9, <1>10

(* The children of a name that an element shows.                           *)
LEMMA NamedAreShown ==
  ASSUME NEW elements, AreTrees(elements), NEW xml, IsShownAs(xml, elements),
         NEW i \in DOMAIN elements, NEW at \in ShownIn(elements[i]), NEW name
  PROVE  /\ NamedIn(xml, InElement(i, at), name)
              = {InElement(i, child) : child \in ShownNamed(elements[i], at, name)}
         /\ ShownNamed(elements[i], at, name) \subseteq ShownIn(elements[i])
  <1>1. Children(xml, InElement(i, at)) = {InElement(i, child) : child \in ShownChildren(elements[i], at)}
    BY ChildrenInDocument
  <1>2. \A child \in ShownIn(elements[i]) :
          xml[InElement(i, child)].name = NameOf[elements[i][child].id]
    <2>1. \A child \in ShownIn(elements[i]) : xml[InElement(i, child)] = NodeOf(elements[i], child)
      BY DEF IsShownAs
    <2>2. \A child : NodeOf(elements[i], child).name = NameOf[elements[i][child].id]
      BY DEF NodeOf, Node
    <2> QED
      BY <2>1, <2>2
  <1>3. ShownNamed(elements[i], at, name)
          = {child \in ShownChildren(elements[i], at) : NameOf[elements[i][child].id] = name}
    BY DEF ShownNamed, ShownChildren, ShownIn, Children
  <1>4. ShownChildren(elements[i], at) \subseteq ShownIn(elements[i])
    BY DEF ShownChildren
  <1> QED
    BY <1>1, <1>2, <1>3, <1>4 DEF NamedIn


(* What lies in an element that is shown: the text, none for a master.     *)
LEMMA TextsAre ==
  ASSUME NEW elements, NEW xml, IsShownAs(xml, elements),
         NEW i \in DOMAIN elements, NEW at \in ShownIn(elements[i])
  PROVE  /\ InElement(i, at) \in DOMAIN xml
         /\ xml[InElement(i, at)].text = Text(elements[i], at)
         /\ IsMaster(elements[i], at) => xml[InElement(i, at)].text = NoText
  <1>1. InElement(i, at) \in DOMAIN xml /\ xml[InElement(i, at)] = NodeOf(elements[i], at)
    BY DEF IsShownAs
  <1>2. NodeOf(elements[i], at).text = Text(elements[i], at)
    BY DEF NodeOf, Node
  <1>3. IsMaster(elements[i], at) => Text(elements[i], at) = NoText
    BY DEF Text
  <1> QED
    BY <1>1, <1>2, <1>3

(* A regular track.                                                        *)
IsRegularTrack(element, track) ==
  /\ \A name \in {"Track_type", "Track_number"} : HasOneText(element, track, name)
  /\ \A name \in {"Video_track", "Audio_track"} : HasOnlyMasters(element, track, name)

IsTrackOf(json, xml, b) ==
  /\ WayTo(xml, b) \in DOMAIN json /\ json[WayTo(xml, b)].type = "object"
  /\ \A name \in {"Track_type", "Track_number"} :
       /\ Member(xml, b, name, 0) \in DOMAIN json
       /\ json[Member(xml, b, name, 0)].type = "string"
  /\ \A name \in {"Video_track", "Audio_track"} :
       Member(xml, b, name, 0) \in DOMAIN json => json[Member(xml, b, name, 0)].type = "array"

(* One text in an element is a text in an object; masters are lists.       *)
LEMMA OneTextIs ==
  ASSUME NEW elements, AreTrees(elements), NEW xml, IsShownAs(xml, elements),
         NEW json, IsShort(json, xml),
         NEW i \in DOMAIN elements, NEW at \in ShownIn(elements[i]), NEW name,
         HasOneText(elements[i], at, name)
  PROVE  LET b == InElement(i, at) IN
         /\ WayTo(xml, b) \in DOMAIN json /\ json[WayTo(xml, b)].type = "object"
         /\ Member(xml, b, name, 0) \in DOMAIN json
         /\ json[Member(xml, b, name, 0)].type = "string"
  <1>1. IsDocument(xml)
    BY ElementsMakeDocument
  <1>2. PICK b : b = InElement(i, at) /\ b \in DOMAIN xml
    BY TextsAre
  <1>3. PICK child : ShownNamed(elements[i], at, name) = {child} /\ Text(elements[i], child) # NoText
    BY DEF HasOneText
  <1>4. PICK c : c = InElement(i, child) /\ NamedIn(xml, b, name) = {c} /\ xml[c].text # NoText
    <2>1. /\ NamedIn(xml, b, name) = {InElement(i, x) : x \in ShownNamed(elements[i], at, name)}
          /\ ShownNamed(elements[i], at, name) \subseteq ShownIn(elements[i])
      BY <1>2, NamedAreShown
    <2>2. xml[InElement(i, child)].text = Text(elements[i], child)
      BY <1>3, <2>1, TextsAre
    <2>3. NamedIn(xml, b, name) = {InElement(i, child)}
      BY <1>3, <2>1
    <2> QED
      BY <1>3, <2>2, <2>3
  <1>5. /\ Member(xml, b, name, 0) \in DOMAIN json
        /\ json[Member(xml, b, name, 0)].type = "string"
    BY <1>1, <1>2, <1>4, NamedMakeText
  <1>6. WayTo(xml, b) \in DOMAIN json /\ json[WayTo(xml, b)].type = "object"
    <2>1. c \in NamedIn(xml, b, name)
      BY <1>4
    <2>2. c \in Elements(xml) /\ Front(c) = b
      BY <1>1, <1>2, <2>1, NamedAre
    <2>3. WayTo(xml, Front(c)) \in DOMAIN json /\ json[WayTo(xml, Front(c))].type = "object"
      BY <1>1, <2>2, FrontIs
    <2> QED
      BY <2>2, <2>3
  <1> QED
    BY <1>2, <1>5, <1>6

LEMMA MastersAre ==
  ASSUME NEW elements, AreTrees(elements), NEW xml, IsShownAs(xml, elements),
         NEW json, IsShort(json, xml),
         NEW i \in DOMAIN elements, NEW at \in ShownIn(elements[i]), NEW name,
         HasOnlyMasters(elements[i], at, name),
         NEW b, b = InElement(i, at), Member(xml, b, name, 0) \in DOMAIN json
  PROVE  json[Member(xml, b, name, 0)].type = "array"
  <1>1. IsDocument(xml) /\ b \in DOMAIN xml
    BY ElementsMakeDocument, TextsAre
  <1>2. /\ NamedIn(xml, b, name) = {InElement(i, x) : x \in ShownNamed(elements[i], at, name)}
        /\ ShownNamed(elements[i], at, name) \subseteq ShownIn(elements[i])
    BY NamedAreShown
  <1>3. NamedIn(xml, b, name) # {}
    BY <1>1, ListedAreThere
  <1>4. PICK child \in ShownNamed(elements[i], at, name) : InElement(i, child) \in NamedIn(xml, b, name)
    BY <1>2, <1>3
  <1>5. IsMaster(elements[i], child) /\ child \in ShownIn(elements[i])
    BY <1>2 DEF HasOnlyMasters
  <1>6. PICK c : c = InElement(i, child) /\ c \in NamedIn(xml, b, name) /\ xml[c].text = NoText
    BY <1>4, <1>5, TextsAre
  <1>7. IsListOf(json, xml, b, name)
    BY <1>1, <1>6, NamedMakeList
  <1> QED
    BY <1>7 DEF IsListOf

LEMMA TrackIs ==
  ASSUME NEW elements, AreTrees(elements), NEW xml, IsShownAs(xml, elements),
         NEW json, IsShort(json, xml),
         NEW i \in DOMAIN elements, NEW track \in ShownIn(elements[i]),
         IsRegularTrack(elements[i], track)
  PROVE  IsTrackOf(json, xml, InElement(i, track))
  <1>1. PICK b : b = InElement(i, track)
    OBVIOUS
  <1>2. ASSUME NEW name \in {"Track_type", "Track_number"}
        PROVE  /\ WayTo(xml, b) \in DOMAIN json /\ json[WayTo(xml, b)].type = "object"
               /\ Member(xml, b, name, 0) \in DOMAIN json
               /\ json[Member(xml, b, name, 0)].type = "string"
    <2>1. HasOneText(elements[i], track, name)
      BY DEF IsRegularTrack
    <2> QED
      BY <1>1, <2>1, OneTextIs
  <1>3. ASSUME NEW name \in {"Video_track", "Audio_track"}, Member(xml, b, name, 0) \in DOMAIN json
        PROVE  json[Member(xml, b, name, 0)].type = "array"
    <2>1. HasOnlyMasters(elements[i], track, name)
      BY DEF IsRegularTrack
    <2> QED
      BY <1>1, <1>3, <2>1, MastersAre
  <1>4. "Track_type" \in {"Track_type", "Track_number"}
    OBVIOUS
  <1> QED
    BY <1>1, <1>2, <1>3, <1>4 DEF IsTrackOf

(* All tracks of one element.                                              *)
IsTracksOf(json, xml, t) ==
  /\ IsListOf(json, xml, t, "Track")
  /\ \A b \in NamedIn(xml, t, "Track") : b \in DOMAIN xml /\ IsTrackOf(json, xml, b)

LEMMA TracksAre ==
  ASSUME NEW elements, AreTrees(elements), NEW xml, IsShownAs(xml, elements),
         NEW json, IsShort(json, xml),
         NEW n \in DOMAIN elements, HasRegularTracks(elements[n]), IsTracks(elements[n])
  PROVE  IsTracksOf(json, xml, InElement(n, <<>>)) /\ IsMaster(elements[n], <<>>)
  <1>1. PICK top : top = <<>>
    OBVIOUS
  <1>2. top \in ShownIn(elements[n])
    <2>1. top \in DOMAIN elements[n]
      BY <1>1, PlacesIn DEF AreTrees, IsTree
    <2> QED
      BY <1>1, <2>1 DEF ShownIn, IsTracks
  <1>3. PICK t : t = InElement(n, top) /\ t \in DOMAIN xml
    BY <1>2, TextsAre
  <1>4. IsDocument(xml)
    BY ElementsMakeDocument
  <1>5. /\ ShownNamed(elements[n], top, "Track") # {}
        /\ \A track \in ShownNamed(elements[n], top, "Track") : IsRegularTrack(elements[n], track)
    BY <1>1 DEF HasRegularTracks, IsRegularTrack
  <1>6. /\ NamedIn(xml, t, "Track") = {InElement(n, track) : track \in ShownNamed(elements[n], top, "Track")}
        /\ ShownNamed(elements[n], top, "Track") \subseteq ShownIn(elements[n])
    BY <1>2, <1>3, NamedAreShown
  <1>7. ASSUME NEW b \in NamedIn(xml, t, "Track") PROVE b \in DOMAIN xml /\ IsTrackOf(json, xml, b)
    <2>1. PICK track \in ShownNamed(elements[n], top, "Track") : b = InElement(n, track)
      BY <1>6
    <2>2. track \in ShownIn(elements[n]) /\ IsRegularTrack(elements[n], track)
      BY <1>5, <1>6
    <2>3. IsTrackOf(json, xml, InElement(n, track))
      BY <2>2, TrackIs
    <2>4. b \in DOMAIN xml
      BY DEF NamedIn, Children
    <2> QED
      BY <2>1, <2>3, <2>4
  <1>8. PICK track \in ShownNamed(elements[n], top, "Track") :
          track \in ShownIn(elements[n]) /\ InElement(n, track) \in NamedIn(xml, t, "Track")
    BY <1>5, <1>6
  <1>9. IsListOf(json, xml, t, "Track")
    <2>1. HasOneText(elements[n], track, "Track_type")
      BY <1>5 DEF IsRegularTrack
    <2>2. IsMaster(elements[n], track)
      BY <2>1 DEF HasOneText, IsMaster
    <2>3. PICK b : b \in NamedIn(xml, t, "Track") /\ xml[b].text = NoText
      BY <1>8, <2>2, TextsAre
    <2> QED
      BY <1>3, <1>4, <2>3, NamedMakeList
  <1>10. IsMaster(elements[n], top)
    BY <1>8 DEF ShownNamed, IsMaster
  <1> QED
    BY <1>1, <1>3, <1>7, <1>9, <1>10 DEF IsTracksOf

LEMMA TracksAreFound ==
  ASSUME NEW elements, AreTrees(elements), NEW xml, IsShownAs(xml, elements),
         NEW json, IsShort(json, xml),
         \A i \in DOMAIN elements : HasRegularTracks(elements[i]),
         NEW n \in DOMAIN elements, IsTracks(elements[n])
  PROVE  /\ IsListOf(json, xml, <<>>, "Segment")
         /\ IsListOf(json, xml, << 2 >>, "Tracks")
         /\ \E t \in DOMAIN xml : WayTo(xml, t) = Member(xml, << 2 >>, "Tracks", 1) /\ IsTracksOf(json, xml, t)
  <1>1. PICK segment, top : segment = <<2>> /\ top = <<>>
    OBVIOUS
  <1>2. IsDocument(xml) /\ segment \in NamedIn(xml, top, "Segment") /\ xml[segment].text = NoText
    BY <1>1, ElementsMakeDocument, SegmentWay
  <1>3. segment \in DOMAIN xml /\ top \in DOMAIN xml
    <2>1. segment \in DOMAIN xml
      BY <1>2 DEF NamedIn, Children
    <2>2. top \in DOMAIN xml
      BY <1>1, <1>2 DEF IsDocument, IsTree
    <2> QED
      BY <2>1, <2>2
  <1>4. IsListOf(json, xml, top, "Segment")
    BY <1>2, <1>3, NamedMakeList
  <1>5. ASSUME NEW t \in NamedIn(xml, segment, "Tracks")
        PROVE  t \in DOMAIN xml /\ IsTracksOf(json, xml, t)
    <2>1. t \in DOMAIN xml /\ t # <<>> /\ Front(t) = segment /\ xml[t].name = "Tracks"
      BY DEF NamedIn, Children
    <2>2. PICK i \in DOMAIN elements : top \in ShownIn(elements[i]) /\ t = InElement(i, top)
      BY <1>1, <2>1, LevelOne
    <2>3. IsTracks(elements[i])
      <3>1. xml[t] = NodeOf(elements[i], top)
        BY <2>2 DEF IsShownAs
      <3>2. xml[t].name = NameOf[elements[i][top].id]
        BY <3>1 DEF NodeOf, Node
      <3> QED
        BY <1>1, <2>1, <2>2, <3>2 DEF ShownIn, IsTracks
    <2> QED
      BY <1>1, <2>1, <2>2, <2>3, TracksAre
  <1>6. PICK s : s \in NamedIn(xml, segment, "Tracks") /\ xml[s].text = NoText
    <2>1. IsMaster(elements[n], top) /\ top \in ShownIn(elements[n])
      <3>1. top \in DOMAIN elements[n]
        BY <1>1, PlacesIn DEF AreTrees, IsTree
      <3> QED
        BY <1>1, <3>1, TracksAre DEF ShownIn, IsTracks
    <2>2. PICK s : s = InElement(n, top) /\ s \in DOMAIN xml /\ xml[s].text = NoText
      BY <2>1, TextsAre
    <2>3. xml[s].name = "Tracks"
      <3>1. xml[s] = NodeOf(elements[n], top)
        BY <2>1, <2>2 DEF IsShownAs
      <3> QED
        BY <1>1, <3>1 DEF NodeOf, Node, IsTracks
    <2>4. s # <<>> /\ Front(s) = segment
      <3>1. n \in Nat \ {0} /\ top \in Seq(Nat \ {0})
        BY <2>1, PlacesIn DEF ShownIn
      <3>2. PlaceInElement(s, n, top)
        BY <2>2, <3>1, InElementIs
      <3>3. Front(s) = segment
        BY <1>1, <3>2 DEF PlaceInElement
      <3>4. s[1] = 2 /\ Len(s) = Len(top) + 2
        BY <3>2 DEF PlaceInElement
      <3>5. Len(top) = 0 /\ Len(<<>>) = 0
        BY <1>1
      <3>6. s # <<>>
        BY <3>4, <3>5
      <3> QED
        BY <3>3, <3>6
    <2> QED
      BY <2>2, <2>3, <2>4 DEF NamedIn, Children
  <1>7. IsListOf(json, xml, segment, "Tracks")
    BY <1>2, <1>3, <1>6, NamedMakeList
  <1>8. PICK t \in NamedIn(xml, segment, "Tracks") : Member(xml, segment, "Tracks", 1) = WayTo(xml, t)
    BY <1>7 DEF IsListOf
  <1> QED
    BY <1>1, <1>4, <1>5, <1>7, <1>8


(* Of regular tracks the answer has what the script asks for.              *)
LEMMA ScriptIsServed ==
  ASSUME TracksAreRegular, AnswerInv, ReadsAlike
  PROVE  ScriptFindsTracks
  <1> DEFINE segments == <<<<"Segment", 0>>>>
             segment == <<<<"Segment", 1>>>>
             tracks == Append(segment, <<"Tracks", 1>>)
             lists == Append(segment, <<"Tracks", 0>>)
             list == Append(tracks, <<"Track", 0>>)
             IsA(type, way) == way \in DOMAIN answer.json /\ answer.json[way].type = type
             track(i) == Append(tracks, <<"Track", i>>)
             field(i, name) == Append(track(i), <<name, 0>>)
  <1> SUFFICES ASSUME answer.kind = "json",
                      NEW n \in DOMAIN delivered, IsTracks(ReadAsItself(delivered[n]))
               PROVE  /\ IsA("array", segments) /\ IsA("object", segment)
                      /\ IsA("array", lists) /\ IsA("object", tracks)
                      /\ IsA("array", list)
                      /\ \A i \in 1 .. answer.json[list].size :
                           /\ IsA("object", track(i))
                           /\ \A name \in {"Track_type", "Track_number"} : IsA("string", field(i, name))
                           /\ \A name \in {"Video_track", "Audio_track"} :
                                field(i, name) \in DOMAIN answer.json => IsA("array", field(i, name))
    BY DEF ScriptFindsTracks
  <1>1. PICK alike : alike = [i \in DOMAIN delivered |-> ReadAsItself(delivered[i])]
    OBVIOUS
  <1>2. AreTrees(alike) /\ answer.json = recursiveIteration(xmlToJsonObject(Document(alike)))
    BY <1>1, AnswerIs
  <1>3. PICK xml, json : xml = Document(alike) /\ json = answer.json
    OBVIOUS
  <1>4. IsShownAs(xml, alike)
    BY <1>2, <1>3, DocumentIs
  <1>5. IsShort(json, xml)
    <2>1. IsDocument(xml)
      BY <1>2, <1>4, ElementsMakeDocument
    <2>2. IsShort(recursiveIteration(xmlToJsonObject(xml)), xml)
      BY <2>1, SecondPass
    <2> QED
      BY <1>2, <1>3, <2>2
  <1>6. \A i \in DOMAIN alike : HasRegularTracks(alike[i])
    <2>1. \A i \in DOMAIN delivered : delivered[i] \in Raws
      BY DEF ReadsAlike
    <2>2. \A raw \in Raws : HasRegularTracks(ReadAsItself(raw))
      BY DEF TracksAreRegular, Raws
    <2> QED
      BY <1>1, <2>1, <2>2
  <1>7. n \in DOMAIN alike /\ IsTracks(alike[n])
    BY <1>1
  <1>8. /\ IsListOf(json, xml, <<>>, "Segment") /\ IsListOf(json, xml, <<2>>, "Tracks")
        /\ \E t \in DOMAIN xml : WayTo(xml, t) = Member(xml, <<2>>, "Tracks", 1) /\ IsTracksOf(json, xml, t)
    BY <1>2, <1>4, <1>5, <1>6, <1>7, TracksAreFound
  <1>9. /\ WayTo(xml, <<>>) = <<>> /\ WayTo(xml, <<2>>) = segment
        /\ \A name, i : Member(xml, <<2>>, name, i) = Append(segment, <<name, i>>)
    BY <1>2, <1>4, SegmentWay
  <1>10. IsA("array", segments)
    <2>1. Member(xml, <<>>, "Segment", 0) = segments
      BY <1>9, OneIs DEF Member
    <2> QED
      BY <1>3, <1>8, <2>1 DEF IsListOf
  <1>11. IsA("object", segment) /\ IsA("array", lists)
    <2>1. /\ WayTo(xml, <<2>>) \in DOMAIN json /\ json[WayTo(xml, <<2>>)].type = "object"
          /\ Member(xml, <<2>>, "Tracks", 0) \in DOMAIN json
          /\ json[Member(xml, <<2>>, "Tracks", 0)].type = "array"
      BY <1>8 DEF IsListOf
    <2>2. WayTo(xml, <<2>>) = segment /\ Member(xml, <<2>>, "Tracks", 0) = lists
      BY <1>9
    <2> HIDE DEF segment, lists
    <2> QED
      BY <1>3, <2>1, <2>2
  <1>12. PICK t \in DOMAIN xml : WayTo(xml, t) = tracks /\ IsTracksOf(json, xml, t)
    BY <1>8, <1>9
  <1>13. \A i : Member(xml, t, "Track", i) = track(i)
    BY <1>12 DEF Member
  <1> HIDE DEF tracks, segment, segments, lists
  <1>14. IsListOf(json, xml, t, "Track")
    BY <1>12 DEF IsTracksOf
  <1>15. IsA("object", tracks) /\ IsA("array", list)
    BY <1>3, <1>12, <1>13, <1>14 DEF IsListOf
  <1>16. ASSUME NEW i \in 1 .. json[list].size
         PROVE  /\ IsA("object", track(i))
                /\ \A name \in {"Track_type", "Track_number"} : IsA("string", field(i, name))
                /\ \A name \in {"Video_track", "Audio_track"} :
                     field(i, name) \in DOMAIN answer.json => IsA("array", field(i, name))
    <2>1. PICK b \in NamedIn(xml, t, "Track") : track(i) = WayTo(xml, b)
      BY <1>13, <1>14 DEF IsListOf
    <2>2. IsTrackOf(json, xml, b)
      BY <1>12 DEF IsTracksOf
    <2>3. \A name : field(i, name) = Member(xml, b, name, 0)
      BY <2>1 DEF Member
    <2> HIDE DEF track, field
    <2> QED
      BY <1>3, <2>1, <2>2, <2>3 DEF IsTrackOf
  <1> QED
    BY <1>3, <1>10, <1>11, <1>15, <1>16

(* Of every file whose Tracks are regular, in whatever way it is read and  *)
(* whatever else is in it: where its Tracks are read and there is an       *)
(* answer in JSON, test.py finds everything it indexes.                    *)
THEOREM ScriptAlwaysServed == TracksAreRegular => (Spec => []ScriptFindsTracks)
  <1> SUFFICES ASSUME TracksAreRegular PROVE Spec => []ScriptFindsTracks
    OBVIOUS
  <1>1. AnswerInv /\ ReadsAlike => ScriptFindsTracks
    BY ScriptIsServed
  <1> QED
    BY <1>1, AnswerInitially, AnswerKept, InfoImplementsReading, ReadingForgets, PTL DEF Spec
=============================================================================
