--------------------------- MODULE TraverserProofs ---------------------------
(***************************************************************************)
(* Proofs about Traverser, for every set of names, every class of          *)
(* documents and every length of a document.                               *)
(***************************************************************************)
EXTENDS Traverser, TLAPS, SequenceTheorems

(* A sequence and a prefix of it.                                          *)
LEMMA PrefixProperties ==
  ASSUME NEW S, NEW s \in Seq(S), NEW n \in 0 .. Len(s)
  PROVE  /\ SubSeq(s, 1, n) \in Seq(S)
         /\ Len(SubSeq(s, 1, n)) = n
         /\ \A i \in 1 .. n : SubSeq(s, 1, n)[i] = s[i]
<1>1. Len(s) \in Nat /\ \A i \in 1 .. n : s[i] \in S
  BY LenProperties, ElementOfSeq
<1> QED
  BY <1>1, SubSeqProperties

(* The longest prefix.                                                     *)
LEMMA WholePrefix ==
  ASSUME NEW S, NEW s \in Seq(S)
  PROVE  SubSeq(s, 1, Len(s)) = s
<1> DEFINE p == SubSeq(s, 1, Len(s))
<1>1. Len(s) \in Nat /\ Len(s) \in 0 .. Len(s)
  BY LenProperties
<1>2. p \in Seq(S) /\ Len(p) = Len(s) /\ \A i \in 1 .. Len(s) : p[i] = s[i]
  BY <1>1, PrefixProperties
<1> HIDE DEF p
<1>3. p = s
  BY <1>2, SeqEqual
<1> QED
  BY <1>3 DEF p

(* A prefix of a prefix is a prefix.                                       *)
LEMMA PrefixOfPrefix ==
  ASSUME NEW S, NEW s \in Seq(S), NEW n \in 0 .. Len(s), NEW m \in 0 .. n
  PROVE  SubSeq(SubSeq(s, 1, n), 1, m) = SubSeq(s, 1, m)
<1> DEFINE p == SubSeq(s, 1, n)
           q == SubSeq(p, 1, m)
           r == SubSeq(s, 1, m)
<1>1. Len(s) \in Nat /\ m \in 0 .. Len(s) /\ m \in Nat
  BY LenProperties
<1>2. p \in Seq(S) /\ Len(p) = n /\ \A i \in 1 .. n : p[i] = s[i]
  BY PrefixProperties
<1>3. r \in Seq(S) /\ Len(r) = m /\ \A i \in 1 .. m : r[i] = s[i]
  BY <1>1, PrefixProperties
<1> HIDE DEF p
<1>4. q \in Seq(S) /\ Len(q) = m /\ \A i \in 1 .. m : q[i] = p[i]
  BY <1>2, PrefixProperties
<1> HIDE DEF q, r
<1>5. \A i \in 1 .. m : q[i] = r[i]
  BY <1>1, <1>2, <1>3, <1>4
<1>6. q = r
  BY <1>3, <1>4, <1>5, SeqEqual
<1> QED
  BY <1>6 DEF p, q, r

(* A sequence with one more element in front.                              *)
LEMMA ConsProperties ==
  ASSUME NEW S, NEW r \in S, NEW s \in Seq(S)
  PROVE  /\ <<r>> \o s \in Seq(S)
         /\ Len(<<r>> \o s) = Len(s) + 1
         /\ (<<r>> \o s)[1] = r
         /\ \A i \in 1 .. Len(s) : (<<r>> \o s)[i + 1] = s[i]
<1>1. <<r>> \in Seq(S) /\ Len(<<r>>) = 1 /\ <<r>>[1] = r /\ Len(s) \in Nat
  BY LenProperties
<1>2. /\ <<r>> \o s \in Seq(S)
      /\ Len(<<r>> \o s) = Len(<<r>>) + Len(s)
      /\ \A i \in 1 .. Len(<<r>>) + Len(s) :
           (<<r>> \o s)[i] = IF i <= Len(<<r>>) THEN <<r>>[i] ELSE s[i - Len(<<r>>)]
  BY <1>1, ConcatProperties
<1>3. 1 \in 1 .. 1 + Len(s) /\ \A i \in 1 .. Len(s) : i + 1 \in 1 .. 1 + Len(s)
  BY <1>1
<1> QED
  BY <1>1, <1>2, <1>3

(* Taking n elements off both sequences leaves the element in front.       *)
LEMMA ConsPrefix ==
  ASSUME NEW S, NEW r \in S, NEW s \in Seq(S), NEW n \in 0 .. Len(s)
  PROVE  SubSeq(<<r>> \o s, 1, n + 1) = <<r>> \o SubSeq(s, 1, n)
<1> DEFINE t == <<r>> \o s
           low == SubSeq(t, 1, n + 1)
           left == SubSeq(s, 1, n)
           u == <<r>> \o left
<1>0. Len(s) \in Nat /\ n \in Nat
  BY LenProperties
<1>1. t \in Seq(S) /\ Len(t) = Len(s) + 1 /\ t[1] = r
      /\ \A i \in 1 .. Len(s) : t[i + 1] = s[i]
  BY ConsProperties
<1>2. left \in Seq(S) /\ Len(left) = n /\ \A i \in 1 .. n : left[i] = s[i]
  BY PrefixProperties
<1> HIDE DEF t, left
<1>3. u \in Seq(S) /\ Len(u) = n + 1 /\ u[1] = r /\ \A i \in 1 .. n : u[i + 1] = left[i]
  BY <1>2, ConsProperties
<1>4. low \in Seq(S) /\ Len(low) = n + 1 /\ \A i \in 1 .. n + 1 : low[i] = t[i]
  <2>1. n + 1 \in 0 .. Len(t)
    BY <1>0, <1>1
  <2> QED
    BY <1>1, <2>1, PrefixProperties
<1> HIDE DEF low, u
<1>5. \A i \in 1 .. n + 1 : low[i] = u[i]
  <2> TAKE i \in 1 .. n + 1
  <2>1. CASE i = 1
    BY <2>1, <1>0, <1>1, <1>3, <1>4
  <2>2. CASE i # 1
    <3>1. PICK j \in 1 .. n : i = j + 1
      <4>1. i - 1 \in 1 .. n /\ i = (i - 1) + 1
        BY <2>2, <1>0
      <4> QED
        BY <4>1
    <3>2. j \in 1 .. Len(s)
      BY <1>0
    <3> QED
      BY <3>1, <3>2, <1>0, <1>1, <1>2, <1>3, <1>4
  <2> QED
    BY <2>1, <2>2
<1>6. low = u
  BY <1>3, <1>4, <1>5, SeqEqual
<1> QED
  BY <1>6 DEF t, low, left, u

(* The last n elements do not depend on the one in front.                  *)
LEMMA ConsSuffix ==
  ASSUME NEW S, NEW r \in S, NEW s \in Seq(S), NEW m \in 1 .. Len(s) + 1
  PROVE  SubSeq(<<r>> \o s, m + 1, Len(s) + 1) = SubSeq(s, m, Len(s))
<1> DEFINE t == <<r>> \o s
           a == SubSeq(t, m + 1, Len(s) + 1)
           b == SubSeq(s, m, Len(s))
<1>0. Len(s) \in Nat /\ m \in Nat /\ m >= 1 /\ \A i \in 1 .. Len(s) : s[i] \in S
  BY LenProperties, ElementOfSeq
<1>1. t \in Seq(S) /\ Len(t) = Len(s) + 1 /\ \A i \in 1 .. Len(s) : t[i + 1] = s[i]
  BY ConsProperties
<1> HIDE DEF t
<1>2. \A i \in m + 1 .. Len(s) + 1 : t[i] \in S
  BY <1>0, <1>1, ElementOfSeq
<1>3. /\ a \in Seq(S)
      /\ Len(a) = Len(s) + 1 - m
      /\ \A i \in 1 .. Len(s) + 1 - m : a[i] = t[m + i]
  <2>1. /\ a \in Seq(S)
        /\ Len(a) = IF m + 1 <= Len(s) + 1 THEN (Len(s) + 1) - (m + 1) + 1 ELSE 0
        /\ \A i \in 1 .. (Len(s) + 1) - (m + 1) + 1 : a[i] = t[(m + 1) + i - 1]
    BY <1>0, <1>2, SubSeqProperties
  <2> HIDE DEF a
  <2> QED
    BY <2>1, <1>0
<1>4. /\ b \in Seq(S)
      /\ Len(b) = Len(s) + 1 - m
      /\ \A i \in 1 .. Len(s) + 1 - m : b[i] = s[m + i - 1]
  <2>1. \A i \in m .. Len(s) : s[i] \in S
    BY <1>0
  <2>2. /\ b \in Seq(S)
        /\ Len(b) = IF m <= Len(s) THEN Len(s) - m + 1 ELSE 0
        /\ \A i \in 1 .. Len(s) - m + 1 : b[i] = s[m + i - 1]
    BY <1>0, <2>1, SubSeqProperties
  <2> HIDE DEF b
  <2> QED
    BY <2>2, <1>0
<1> HIDE DEF a, b
<1>5. \A i \in 1 .. Len(a) : a[i] = b[i]
  <2> TAKE i \in 1 .. Len(a)
  <2>1. m + i - 1 \in 1 .. Len(s) /\ m + i = (m + i - 1) + 1 /\ i \in 1 .. Len(s) + 1 - m
    BY <1>0, <1>3
  <2>2. t[(m + i - 1) + 1] = s[m + i - 1]
    BY <2>1, <1>1
  <2> QED
    BY <2>1, <2>2, <1>3, <1>4
<1>6. a = b
  BY <1>3, <1>4, <1>5, SeqEqual
<1> QED
  BY <1>6 DEF t, a, b

-----------------------------------------------------------------------------
(* Closing the n tags on top of a stack that is what the text left open    *)
(* closes exactly these: WithClosed never meets another tag.               *)
Text == [open : Seq(Names \cup {Root}), last : Seq(Names \cup {Root}),
         sound : BOOLEAN]

(* The text closes the last n of what is open, and the rest stays open.    *)
LEMMA ClosingMatches ==
  ASSUME NEW text \in Text, NEW ks \in Seq(Names), text.open = <<Root>> \o ks,
         NEW n \in 0 .. Len(ks)
  PROVE  WithClosed(text, SubSeq(ks, Len(ks) - n + 1, Len(ks)))
           = [text EXCEPT !.open = <<Root>> \o SubSeq(ks, 1, Len(ks) - n)]
<1> DEFINE N == Names \cup {Root}
           tags == SubSeq(ks, Len(ks) - n + 1, Len(ks))
           kept == Len(text.open) - Len(tags)
<1>1. ks \in Seq(N) /\ Root \in N /\ Len(ks) \in Nat /\ n \in Nat
  <2>1. Names \subseteq N
    OBVIOUS
  <2> QED
    BY <2>1, SeqMonotonic, LenProperties
<1>2. Len(tags) = n
  <2>1. \A i \in Len(ks) - n + 1 .. Len(ks) : ks[i] \in N
    BY <1>1, ElementOfSeq
  <2>2. Len(tags) = IF Len(ks) - n + 1 <= Len(ks)
                    THEN Len(ks) - (Len(ks) - n + 1) + 1 ELSE 0
    BY <1>1, <2>1, SubSeqProperties
  <2> HIDE DEF tags
  <2> QED
    BY <1>1, <2>2
<1> HIDE DEF N
<1>3. Len(text.open) = Len(ks) + 1
  BY <1>1, ConsProperties
<1>4. kept = Len(ks) - n + 1 /\ kept >= 0
  <2> HIDE DEF tags
  <2> QED
    BY <1>1, <1>2, <1>3
<1>5. SubSeq(text.open, kept + 1, Len(text.open)) = tags
  <2>1. Len(ks) - n + 1 \in 1 .. Len(ks) + 1
    BY <1>1
  <2>2. SubSeq(<<Root>> \o ks, (Len(ks) - n + 1) + 1, Len(ks) + 1) = tags
    BY <1>1, <2>1, ConsSuffix
  <2> HIDE DEF tags, kept
  <2> QED
    BY <2>2, <1>3, <1>4
<1>6. SubSeq(text.open, 1, kept) = <<Root>> \o SubSeq(ks, 1, Len(ks) - n)
  <2>1. Len(ks) - n \in 0 .. Len(ks)
    BY <1>1
  <2>2. SubSeq(<<Root>> \o ks, 1, (Len(ks) - n) + 1) = <<Root>> \o SubSeq(ks, 1, Len(ks) - n)
    BY <1>1, <2>1, ConsPrefix
  <2> HIDE DEF kept
  <2> QED
    BY <2>2, <1>4
<1>7. WithClosed(text, tags) = [text EXCEPT !.open = SubSeq(text.open, 1, kept)]
  BY <1>4, <1>5 DEF WithClosed
<1> QED
  BY <1>6, <1>7

(* What the pops of ui_show_element leave.                                 *)
LEMMA PopsLeave ==
  ASSUME TypeOK, Pops <= Len(key_stack), result.open = <<Root>> \o key_stack
  PROVE  /\ Pops \in Nat
         /\ StackLeft \in Seq(Names)
         /\ Len(StackLeft) = Len(key_stack) - Pops
         /\ TextClosed = [result EXCEPT !.open = <<Root>> \o StackLeft]
         /\ TextClosed \in Text
<1>0. /\ key_stack \in Seq(Names)
      /\ level \in Nat
      /\ prev_level \in Nat
      /\ result \in Text
  BY DEF TypeOK, Text
<1>1. Pops \in Nat /\ Len(key_stack) \in Nat
  BY <1>0, LenProperties DEF Pops
<1>2. Pops \in 0 .. Len(key_stack) /\ Len(key_stack) - Pops \in 0 .. Len(key_stack)
  BY <1>1
<1>3. StackLeft \in Seq(Names) /\ Len(StackLeft) = Len(key_stack) - Pops
  BY <1>0, <1>2, PrefixProperties DEF StackLeft
<1>4. TextClosed = [result EXCEPT !.open = <<Root>> \o StackLeft]
  BY <1>0, <1>2, ClosingMatches, ZenonT(30) DEF TextClosed, TagsPopped, StackLeft
<1>5. <<Root>> \o StackLeft \in Seq(Names \cup {Root})
  <2>1. StackLeft \in Seq(Names \cup {Root})
    BY <1>3, SeqMonotonic, Names \subseteq Names \cup {Root}
  <2> QED
    BY <2>1, ConsProperties
<1> QED
  BY <1>0, <1>1, <1>3, <1>4, <1>5 DEF Text

(* Appending to the second of two sequences appends to both.               *)
LEMMA AppendToConcat ==
  ASSUME NEW S, NEW s \in Seq(S), NEW t \in Seq(S), NEW x \in S
  PROVE  s \o Append(t, x) = Append(s \o t, x)
<1>1. <<x>> \in Seq(S) /\ s \o t \in Seq(S)
  BY ConcatProperties
<1>2. Append(t, x) = t \o <<x>> /\ Append(s \o t, x) = (s \o t) \o <<x>>
  BY <1>1, AppendIsConcat
<1> QED
  BY <1>1, <1>2, ConcatAssociative

(* Going into a master prolongs the path of the elements around.           *)
LEMMA AroundInner ==
  ASSUME TypeOK, InSegment' <=> InSegment,
         NEW name \in Names \cup {NoName}, frames' = Append(frames, name)
  PROVE  Around' = Append(Around, name)
<1> DEFINE N == Names \cup {NoName}
           top == IF InSegment THEN <<Segment>> ELSE <<>>
<1>1. frames \in Seq(N) /\ Segment \in N
  BY DEF TypeOK, Names
<1>2. top \in Seq(N)
  <2>1. <<Segment>> \in Seq(N) /\ <<>> \in Seq(N)
    BY <1>1
  <2> QED
    BY <2>1, Zenon
<1>3. Around = top \o frames /\ Around' = top \o frames'
  BY DEF Around
<1> HIDE DEF top, N
<1>4. name \in N
  BY DEF N
<1> QED
  BY <1>1, <1>2, <1>3, <1>4, AppendToConcat

(* A name appended to what is open below the root.                         *)
LEMMA AppendBehindRoot ==
  ASSUME NEW s \in Seq(Names), NEW name \in Names
  PROVE  /\ Append(<<Root>> \o s, name) = <<Root>> \o Append(s, name)
         /\ Append(s, name) \in Seq(Names)
         /\ <<Root>> \o Append(s, name) \in Seq(Names \cup {Root})
<1> DEFINE N == Names \cup {Root}
<1>1. /\ s \in Seq(N)
      /\ <<Root>> \in Seq(N)
      /\ <<name>> \in Seq(N)
      /\ name \in N
      /\ Root \in N
  <2>1. Names \subseteq N
    OBVIOUS
  <2> QED
    BY <2>1, SeqMonotonic
<1> HIDE DEF N
<1>2. Append(s, name) \in Seq(Names)
  BY AppendProperties
<1>3. /\ Append(s, name) = s \o <<name>>
      /\ <<Root>> \o s \in Seq(N)
      /\ Append(<<Root>> \o s, name) = (<<Root>> \o s) \o <<name>>
  BY <1>1, AppendIsConcat, ConcatProperties
<1>4. (<<Root>> \o s) \o <<name>> = <<Root>> \o (s \o <<name>>)
  BY <1>1, ConcatAssociative
<1>5. <<Root>> \o Append(s, name) \in Seq(N)
  BY <1>1, <1>3, AppendProperties, ConcatProperties
<1> QED
  BY <1>2, <1>3, <1>4, <1>5 DEF N

(* The texts an element can have.                                          *)
Named(e) == e.class # "dummy" /\ e.text \in Names

(* The texts of an element tell what is shown of it, and its quirks are    *)
(* quirks.                                                                 *)
LEMMA ElementTexts ==
  /\ {Void, Cluster, NoName} \cap Names = {}
  /\ \A e \in Element :
       /\ e.text \in Names \cup {NoName, Void, Cluster}
       /\ e.class = "master" => e.text \in Names \cup {NoName}
       /\ Named(e) <=> ~Hidden(e) /\ ~WritesNothing(e)
       /\ QuirksOf(e) \subseteq Quirk
       /\ e.class # "dummy" => e.text # Cluster
<1>1. {Void, Cluster, NoName} \cap Names = {}
  BY NamesAssumption DEF Names, Void, Cluster, NoName, HeadTag, Segment, Root
<1>2. ASSUME NEW e \in Element
      PROVE  /\ e.text \in Names \cup {NoName, Void, Cluster}
             /\ e.class = "master" => e.text \in Names \cup {NoName}
             /\ e.class # "dummy" => e.text \in Names \cup {NoName, Void}
  BY DEF Element
<1>3. ASSUME NEW e \in Element
      PROVE  QuirksOf(e) \subseteq Quirk
  BY DEF QuirksOf, Quirk
<1>4. ASSUME NEW e \in Element
      PROVE  e.class # "dummy" => e.text # Cluster
  BY <1>1, <1>2 DEF Void, Cluster, NoName
<1> QED
  BY <1>1, <1>2, <1>3, <1>4 DEF Named, Hidden, WritesNothing

(* ui_show_element keeps the stack and the open tags the same thing, and   *)
(* writes a named element behind the entries the pops leave.               *)
LEMMA ShowEffect ==
  ASSUME TypeOK, result.open = <<Root>> \o key_stack,
         NEW e \in Element \cup {Master(Cluster)}, ui_show_element(e)
  PROVE  /\ key_stack' \in Seq(Names)
         /\ prev_level' \in Nat
         /\ result' \in Text
         /\ result'.open = <<Root>> \o key_stack'
         /\ result.sound /\ QuirksOf(e) \cap {"odd_name", "markup"} = {}
              => result'.sound
         /\ e.text = Void => UNCHANGED <<prev_level, key_stack, result>>
         /\ e.text # Void =>
              /\ Pops <= Len(key_stack)
              /\ prev_level' = IF e.text = Cluster THEN prev_level ELSE level
              /\ key_stack' \in {StackLeft, Append(StackLeft, e.text)}
              /\ Named(e) => result'.last = <<Root>> \o Append(StackLeft, e.text)
              /\ Named(e) /\ format_element_value(e) = "empty"
                   => key_stack' = Append(StackLeft, e.text)
              /\ Named(e) /\ format_element_value(e) # "empty"
                   => key_stack' = StackLeft
              /\ ~Named(e) => key_stack' = StackLeft /\ result'.last = result.last
<1>1. /\ key_stack \in Seq(Names)
      /\ level \in Nat
      /\ prev_level \in Nat
      /\ result \in Text
  BY DEF TypeOK, Text
<1>2. CASE e.text = Void
  <2>1. UNCHANGED <<prev_level, key_stack, result>>
    BY <1>2 DEF ui_show_element
  <2> QED
    BY <1>1, <1>2, <2>1
<1>3. CASE e.text # Void
  <2>1. /\ Pops <= Len(key_stack)
        /\ prev_level' = IF e.text = Cluster THEN prev_level ELSE level
    BY <1>3 DEF ui_show_element
  <2>2. /\ StackLeft \in Seq(Names)
        /\ TextClosed = [result EXCEPT !.open = <<Root>> \o StackLeft]
        /\ TextClosed \in Text
    BY <2>1, PopsLeave
  <2>3. /\ TextClosed.open = <<Root>> \o StackLeft
        /\ TextClosed.last = result.last
        /\ TextClosed.sound = result.sound
    BY <1>1, <2>2 DEF Text
  <2>4. e.text = Cluster \/ WritesNothing(e) <=> ~Named(e)
    <3>1. CASE e \in Element
      BY <3>1, <1>3, ElementTexts DEF Hidden
    <3>2. CASE e = Master(Cluster)
      BY <3>2, ElementTexts DEF Named, Master
    <3> QED
      BY <3>1, <3>2
  <2>5. CASE ~Named(e)
    <3>1. key_stack' = StackLeft /\ result' = TextClosed
      BY <1>3, <2>4, <2>5 DEF ui_show_element
    <3> QED
      BY <1>1, <1>3, <2>1, <2>2, <2>3, <2>5, <3>1
  <2>6. CASE Named(e)
    <3>1. e.text \in Names
      BY <2>6 DEF Named
    <3>2. /\ Append(<<Root>> \o StackLeft, e.text) = <<Root>> \o Append(StackLeft, e.text)
          /\ Append(StackLeft, e.text) \in Seq(Names)
          /\ <<Root>> \o Append(StackLeft, e.text) \in Seq(Names \cup {Root})
      BY <2>2, <3>1, AppendBehindRoot
    <3>3. CASE format_element_value(e) # "empty"
      <4>1. /\ key_stack' = StackLeft
            /\ result' = WithLeaf(TextClosed, e.text, format_element_value(e))
        BY <1>3, <2>4, <2>6, <3>3 DEF ui_show_element
      <4>2. /\ result' \in Text
            /\ result'.open = <<Root>> \o StackLeft
            /\ result'.last = <<Root>> \o Append(StackLeft, e.text)
            /\ result'.sound <=> /\ result.sound
                                 /\ e.text \notin OddNames
                                 /\ format_element_value(e) # "markup"
        BY <4>1, <2>2, <2>3, <3>2 DEF WithLeaf, Text
      <4>3. QuirksOf(e) \cap {"odd_name", "markup"} = {}
              => e.text \notin OddNames /\ format_element_value(e) # "markup"
        <5>1. e.class # "dummy" /\ (e.class = "leaf" \/ e.class = "master")
          BY <2>6 DEF Named, Element, Master
        <5> QED
          BY <5>1 DEF QuirksOf, format_element_value
      <4> QED
        BY <1>1, <1>3, <2>1, <2>2, <2>6, <3>3, <4>1, <4>2, <4>3
    <3>4. CASE format_element_value(e) = "empty"
      <4>1. /\ key_stack' = Append(StackLeft, e.text)
            /\ result' = WithOpen(TextClosed, e.text)
        BY <1>3, <2>4, <2>6, <3>4 DEF ui_show_element
      <4>2. /\ result' \in Text
            /\ result'.open = <<Root>> \o Append(StackLeft, e.text)
            /\ result'.last = <<Root>> \o Append(StackLeft, e.text)
            /\ result'.sound <=> result.sound /\ e.text \notin OddNames
        BY <4>1, <2>2, <2>3, <3>2 DEF WithOpen, Text
      <4>3. QuirksOf(e) \cap {"odd_name", "markup"} = {} => e.text \notin OddNames
        BY <2>6 DEF Named, QuirksOf
      <4> QED
        BY <1>1, <1>3, <2>1, <2>2, <2>6, <3>2, <3>4, <4>1, <4>2, <4>3
    <3> QED
      BY <3>3, <3>4
  <2> QED
    BY <2>5, <2>6
<1> QED
  BY <1>2, <1>3

-----------------------------------------------------------------------------
(* Steps that show no element, and steps that end in an abort.             *)

(* What kinds of quirks there are, and which of them misplace or abort.    *)
LEMMA QuirkFacts ==
  /\ Perilous \subseteq Misplacing
  /\ Misplacing \subseteq Quirk
  /\ {"odd_name", "markup", "no_cluster"} \subseteq Quirk
  /\ {"no_head", "unnamed_master", "cluster_name", "no_segment", "more_top"}
       \subseteq Perilous
  /\ {"childless", "empty_value"} \subseteq Misplacing
BY DEF Perilous, Misplacing, Quirk

(* What Deliver adds to the history keeps its type and loses no quirk.     *)
LEMMA DeliverEffect ==
  ASSUME TypeOK, NEW e \in Element, NEW more \in SUBSET Quirk, Deliver(e, more)
  PROVE  /\ Around \in Seq(Names \cup {NoName})
         /\ unread' \in Nat
         /\ quirks' \in SUBSET Quirk
         /\ quirks \subseteq quirks'
         /\ QuirksOf(e) \subseteq quirks'
         /\ more \subseteq quirks'
         /\ bare' \in BOOLEAN
         /\ bare' = IF Hidden(e) THEN bare ELSE e.class = "master"
         /\ seen' \in Seq(Names \cup {Root, NoName})
         /\ seen' = IF Named(e) THEN <<Root>> \o Append(Around, e.text) ELSE seen
<1> DEFINE N == Names \cup {Root, NoName}
<1>1. Around \in Seq(Names \cup {NoName})
  <2>1. frames \in Seq(Names \cup {NoName}) /\ Segment \in Names
    BY DEF TypeOK, Names
  <2>2. <<Segment>> \in Seq(Names \cup {NoName}) /\ <<>> \in Seq(Names \cup {NoName})
    BY <2>1, EmptySeq
  <2> QED
    BY <2>1, <2>2, ConcatProperties DEF Around
<1>2. seen' = IF Named(e) THEN <<Root>> \o Append(Around, e.text) ELSE seen
  BY DEF Deliver, Named
<1>3. seen' \in Seq(N)
  <2>1. CASE Named(e)
    <3>1. e.text \in N /\ Root \in N
      BY <2>1 DEF Named
    <3>2. Around \in Seq(N)
      BY <1>1, SeqMonotonic, Names \cup {NoName} \subseteq N
    <3>3. Append(Around, e.text) \in Seq(N)
      BY <3>1, <3>2, AppendProperties
    <3> HIDE DEF N
    <3> QED
      BY <3>1, <3>3, <2>1, <1>2, ConsProperties
  <2>2. CASE ~Named(e)
    BY <2>2, <1>2 DEF TypeOK
  <2> QED
    BY <2>1, <2>2
<1>4. QuirksOf(e) \in SUBSET Quirk
  BY ElementTexts
<1>5. /\ unread' \in Nat
      /\ quirks' \in SUBSET Quirk
      /\ quirks \subseteq quirks'
      /\ QuirksOf(e) \subseteq quirks'
      /\ more \subseteq quirks'
  BY <1>4 DEF Deliver, TypeOK
<1>6. bare' = IF Hidden(e) THEN bare ELSE e.class = "master"
  BY DEF Deliver
<1>7. bare' \in BOOLEAN
  BY <1>6 DEF TypeOK
<1> QED
  BY <1>1, <1>2, <1>3, <1>5, <1>6, <1>7, Zenon

(* An abort is only reached with a quirk that gives cause.                 *)
LEMMA AbortStep ==
  ASSUME IInv, pc # "done", Abort,
         unread' \in Nat, quirks' \in SUBSET Quirk, quirks \subseteq quirks',
         bare' \in BOOLEAN, seen' \in Seq(Names \cup {Root, NoName}),
         quirks' \cap Perilous # {}
  PROVE  IInv'
<1>1. pc' = "undefined" /\ UNCHANGED <<level, prev_level, key_stack, frames, result>>
  BY DEF Abort, walk
<1>2. TypeOK'
  BY <1>1 DEF IInv, TypeOK
<1>3. quirks' \cap Misplacing # {}
  BY QuirkFacts
<1>4. LevelCountsFrames' /\ StackCoversLevels' /\ StackIsPath'
  BY <1>1 DEF LevelCountsFrames, StackCoversLevels, StackIsPath, Walking
<1>5. StackIsOpenTags'
  BY <1>1 DEF IInv, StackIsOpenTags
<1>6. DefinedBehaviour' /\ TextIsTranscript' /\ RegularTextParses'
  BY <1>1, <1>3 DEF DefinedBehaviour, TextIsTranscript, RegularTextParses
<1> QED
  BY <1>2, <1>4, <1>5, <1>6 DEF IInv

(* Before the Segment is left there are enough entries on the stack.       *)
LEMMA EnoughToPop ==
  ASSUME IInv, Walking, pc # "rest", quirks \cap Perilous = {}
  PROVE  /\ Pops <= Len(key_stack)
         /\ Len(StackLeft) >= level
         /\ \A e : ~PopsEmptyStack(e)
<1>1. key_stack \in Seq(Names) /\ level \in Nat /\ prev_level \in Nat
  BY DEF IInv, TypeOK
<1>2. Len(key_stack) \in Nat /\ Len(key_stack) >= level /\ Len(key_stack) >= prev_level
  BY <1>1, LenProperties DEF IInv, StackCoversLevels
<1>3. Pops \in 0 .. Len(key_stack) /\ Len(key_stack) - Pops >= level
  BY <1>1, <1>2 DEF Pops
<1>4. Len(key_stack) - Pops \in 0 .. Len(key_stack)
  BY <1>2, <1>3
<1>5. Len(StackLeft) = Len(key_stack) - Pops
  BY <1>1, <1>4, PrefixProperties DEF StackLeft
<1> QED
  BY <1>2, <1>3, <1>5 DEF PopsEmptyStack

-----------------------------------------------------------------------------
(* Entering handle_elements_generic, before the Segment is left.           *)
LEMMA HandleStep ==
  ASSUME IInv, NEW e \in Element, NEW more \in SUBSET Quirk,
         Deliver(e, more), handle_elements_generic(e),
         \/ pc \in {"head", "segment"} /\ pc' = pc
         \/ pc = "start" /\ pc' = "head"
         \/ pc = "top" /\ pc' = pc /\ e.class = "dummy"
  PROVE  IInv'
<1> DEFINE N == Names \cup {NoName}
<1>1. /\ TypeOK
      /\ key_stack \in Seq(Names)
      /\ level \in Nat
      /\ prev_level \in Nat
      /\ frames \in Seq(N)
      /\ Len(frames) \in Nat
      /\ result.open = <<Root>> \o key_stack
      /\ result.sound \/ quirks \cap {"odd_name", "markup"} # {}
      /\ Walking /\ pc # "rest"
      /\ Walking' /\ pc' # "rest"
      /\ InSegment' <=> InSegment
      /\ pc' \notin {"done", "undefined", "rest", "start"}
  BY LenProperties DEF IInv, TypeOK, StackIsOpenTags, Walking, InSegment
<1>2. ui_show_element(e)
  BY DEF handle_elements_generic
<1>3. /\ key_stack' \in Seq(Names)
      /\ prev_level' \in Nat
      /\ result' \in Text
      /\ result'.open = <<Root>> \o key_stack'
      /\ result.sound /\ QuirksOf(e) \cap {"odd_name", "markup"} = {} => result'.sound
      /\ e.text = Void => UNCHANGED <<prev_level, key_stack, result>>
      /\ e.text # Void =>
           /\ Pops <= Len(key_stack)
           /\ prev_level' = IF e.text = Cluster THEN prev_level ELSE level
           /\ key_stack' \in {StackLeft, Append(StackLeft, e.text)}
           /\ Named(e) => result'.last = <<Root>> \o Append(StackLeft, e.text)
           /\ Named(e) /\ format_element_value(e) = "empty"
                => key_stack' = Append(StackLeft, e.text)
           /\ Named(e) /\ format_element_value(e) # "empty" => key_stack' = StackLeft
           /\ ~Named(e) => key_stack' = StackLeft /\ result'.last = result.last
  BY <1>1, <1>2, ShowEffect
<1>4. /\ Around \in Seq(N)
      /\ unread' \in Nat
      /\ quirks' \in SUBSET Quirk
      /\ quirks \subseteq quirks'
      /\ QuirksOf(e) \subseteq quirks'
      /\ bare' \in BOOLEAN
      /\ bare' = IF Hidden(e) THEN bare ELSE e.class = "master"
      /\ seen' \in Seq(Names \cup {Root, NoName})
      /\ seen' = IF Named(e) THEN <<Root>> \o Append(Around, e.text) ELSE seen
  BY <1>1, DeliverEffect
<1>5. /\ level' \in Nat
      /\ frames' \in Seq(N)
      /\ Len(frames') - level' = Len(frames) - level
      /\ Len(frames') \in Nat
      /\ e.class = "master" => /\ level' = level + 1
                               /\ frames' = Append(frames, e.text)
                               /\ ~Hidden(e)
                               /\ e.text \in N
      /\ e.class # "master" => UNCHANGED <<level, frames>>
  <2>1. CASE e.class = "master"
    <3>1. /\ level' = level + 1
          /\ frames' = Append(frames, e.text)
          /\ e.text \in N
          /\ ~Hidden(e)
      BY <2>1, ElementTexts DEF handle_elements_generic, Hidden, Void, Cluster, NoName
    <3>2. frames' \in Seq(N) /\ Len(frames') = Len(frames) + 1
      BY <1>1, <3>1, AppendProperties
    <3> QED
      BY <1>1, <2>1, <3>1, <3>2
  <2>2. CASE e.class # "master"
    BY <1>1, <2>2 DEF handle_elements_generic
  <2> QED
    BY <2>1, <2>2
<1>6. TypeOK'
  BY <1>1, <1>3, <1>4, <1>5 DEF TypeOK, Text, Walking
<1>7. LevelCountsFrames'
  BY <1>1, <1>5 DEF IInv, LevelCountsFrames
<1>8. StackIsOpenTags'
  <2>1. QuirksOf(e) \cap {"odd_name", "markup"} # {} => quirks' \cap {"odd_name", "markup"} # {}
    BY <1>4
  <2>2. quirks \cap {"odd_name", "markup"} # {} => quirks' \cap {"odd_name", "markup"} # {}
    BY <1>4
  <2> QED
    BY <1>1, <1>3, <2>1, <2>2 DEF StackIsOpenTags
<1>9. ASSUME quirks' \cap Perilous = {}
      PROVE  Len(key_stack') >= level' /\ Len(key_stack') >= prev_level'
  <2>1. quirks \cap Perilous = {} /\ {"cluster_name", "unnamed_master"} \cap QuirksOf(e) = {}
    BY <1>4, <1>9, QuirkFacts
  <2>2. e.text # Cluster /\ (e.class = "master" => e.text # NoName)
    BY <2>1 DEF QuirksOf
  <2>3. Len(StackLeft) >= level /\ Pops <= Len(key_stack)
    BY <1>1, <2>1, EnoughToPop
  <2>4. StackLeft \in Seq(Names)
    BY <1>1, <2>3, PopsLeave
  <2>5. CASE e.class = "master"
    <3>1. Named(e) /\ format_element_value(e) = "empty" /\ e.text # Void
      BY <1>5, <2>2, <2>5 DEF Named, format_element_value, Hidden
    <3>2. key_stack' = Append(StackLeft, e.text) /\ prev_level' = level
      BY <1>3, <2>2, <3>1
    <3>3. Len(key_stack') = Len(StackLeft) + 1 /\ Len(StackLeft) \in Nat
      BY <2>4, <3>1, <3>2, AppendProperties, LenProperties DEF Named
    <3> QED
      BY <1>1, <1>5, <2>3, <2>5, <3>2, <3>3
  <2>6. CASE e.class # "master" /\ e.text # Void
    <3>1. prev_level' = level /\ level' = level
      BY <1>3, <1>5, <2>2, <2>6
    <3>2. Len(key_stack') >= Len(StackLeft)
      <4>1. CASE key_stack' = StackLeft
        BY <4>1, <2>4, LenProperties
      <4>2. CASE Named(e) /\ key_stack' = Append(StackLeft, e.text)
        BY <4>2, <2>4, AppendProperties, LenProperties DEF Named
      <4> QED
        BY <4>1, <4>2, <1>3, <2>6
    <3> QED
      BY <1>1, <2>3, <2>4, <3>1, <3>2, <1>3, LenProperties
  <2>7. CASE e.class # "master" /\ e.text = Void
    BY <1>1, <1>3, <1>5, <2>1, <2>7 DEF IInv, StackCoversLevels
  <2> QED
    BY <2>5, <2>6, <2>7
<1>10. StackCoversLevels'
  BY <1>9 DEF StackCoversLevels
<1>11. ASSUME quirks' \cap Misplacing = {}
       PROVE  /\ StackLeft' = Around'
              /\ prev_level' = level' - 1 \/ prev_level' >= level'
              /\ prev_level' < level' <=> bare'
              /\ result'.last = seen'
  <2>1. /\ quirks' \cap Perilous = {}
        /\ quirks \cap Misplacing = {}
        /\ {"cluster_name", "unnamed_master", "empty_value"} \cap QuirksOf(e) = {}
    BY <1>4, <1>11, QuirkFacts
  <2>2. /\ e.text # Cluster
        /\ e.class = "master" => e.text # NoName
        /\ e.class = "leaf" => e.content # "empty"
    BY <2>1 DEF QuirksOf
  <2>3. /\ StackLeft = Around
        /\ prev_level = level - 1 \/ prev_level >= level
        /\ prev_level < level <=> bare
        /\ result.last = seen
    BY <1>1, <2>1 DEF IInv, StackIsPath, TextIsTranscript
  <2>4. CASE e.text = Void
    <3>1. UNCHANGED <<prev_level, key_stack, result, level, frames, bare, seen>>
      BY <1>3, <1>4, <1>5, <2>4, ElementTexts DEF Hidden, Named
    <3>2. StackLeft' = StackLeft /\ Around' = Around
      BY <3>1, <1>1 DEF StackLeft, Pops, Around
    <3> QED
      BY <2>3, <3>1, <3>2
  <2>5. CASE e.text # Void
    <3>1. prev_level' = level /\ ~Hidden(e) /\ (bare' <=> e.class = "master")
      BY <1>3, <1>4, <2>2, <2>5 DEF Hidden
    <3>2. ~(prev_level' > level')
      <4>1. level' = level \/ level' = level + 1
        BY <1>5
      <4> QED
        BY <1>1, <3>1, <4>1
    <3>3. StackLeft' = key_stack'
      <4>1. Pops' = 0
        BY <3>2 DEF Pops
      <4>2. SubSeq(key_stack', 1, Len(key_stack')) = key_stack'
        BY <1>3, WholePrefix
      <4>3. Len(key_stack') - 0 = Len(key_stack')
        BY <1>3, LenProperties
      <4> QED
        BY <4>1, <4>2, <4>3 DEF StackLeft
    <3>4. CASE e.class = "master"
      <4>1. Named(e) /\ format_element_value(e) = "empty"
        BY <1>5, <2>2, <2>5, <3>4 DEF Named, format_element_value
      <4>2. key_stack' = Append(Around, e.text)
        BY <1>3, <2>3, <2>5, <4>1
      <4>3. Around' = Append(Around, e.text)
        <5>1. frames' = Append(frames, e.text) /\ e.text \in N
          BY <1>5, <3>4
        <5> QED
          BY <1>1, <5>1, AroundInner
      <4>4. result'.last = seen'
        BY <1>3, <1>4, <2>3, <2>5, <4>1
      <4>5. level' = level + 1 /\ bare' = TRUE
        BY <1>5, <3>1, <3>4
      <4> QED
        BY <1>1, <3>1, <3>3, <4>2, <4>3, <4>4, <4>5
    <3>5. CASE e.class # "master"
      <4>1. Around' = Around /\ level' = level
        BY <1>1, <1>5, <3>5 DEF Around
      <4>2. Named(e) => format_element_value(e) # "empty"
        BY <2>2, <3>5 DEF Named, format_element_value, Element
      <4>3. key_stack' = StackLeft
        BY <1>3, <2>5, <4>2
      <4>4. result'.last = seen'
        BY <1>3, <1>4, <2>3, <2>5
      <4> QED
        BY <1>1, <2>3, <3>1, <3>3, <3>5, <4>1, <4>3, <4>4
    <3> QED
      BY <3>4, <3>5
  <2> QED
    BY <2>4, <2>5
<1>12. StackIsPath' /\ TextIsTranscript'
  BY <1>1, <1>11 DEF StackIsPath, TextIsTranscript
<1>13. DefinedBehaviour' /\ RegularTextParses'
  BY <1>1 DEF DefinedBehaviour, RegularTextParses
<1> QED
  BY <1>6, <1>7, <1>8, <1>10, <1>12, <1>13 DEF IInv

-----------------------------------------------------------------------------
(* After the Segment, an element that is shown is a quirk itself.          *)
LEMMA TrailingStep ==
  ASSUME IInv, pc = "rest", NEW e \in Element, Deliver(e, {"more_top"}),
         ui_show_element(e), level' = 1, UNCHANGED frames,
         pc' \in {"rest", "segment"}
  PROVE  IInv'
<1>1. /\ TypeOK
      /\ result.open = <<Root>> \o key_stack
      /\ result.sound \/ quirks \cap {"odd_name", "markup"} # {}
      /\ frames = <<>> /\ Len(frames) = 0
      /\ {"more_top"} \in SUBSET Quirk
  BY QuirkFacts DEF IInv, StackIsOpenTags, LevelCountsFrames, Perilous, Misplacing
<1>2. /\ key_stack' \in Seq(Names)
      /\ prev_level' \in Nat
      /\ result' \in Text
      /\ result'.open = <<Root>> \o key_stack'
      /\ result.sound /\ QuirksOf(e) \cap {"odd_name", "markup"} = {} => result'.sound
  BY <1>1, ShowEffect
<1>3. /\ unread' \in Nat
      /\ quirks' \in SUBSET Quirk
      /\ quirks \subseteq quirks'
      /\ QuirksOf(e) \subseteq quirks'
      /\ {"more_top"} \subseteq quirks'
      /\ bare' \in BOOLEAN
      /\ seen' \in Seq(Names \cup {Root, NoName})
  BY <1>1, DeliverEffect
<1>4. TypeOK'
  BY <1>1, <1>2, <1>3 DEF TypeOK, Text
<1>5. LevelCountsFrames'
  BY <1>1 DEF LevelCountsFrames, Walking
<1>6. StackIsOpenTags'
  <2>1. QuirksOf(e) \cap {"odd_name", "markup"} # {} => quirks' \cap {"odd_name", "markup"} # {}
    BY <1>3
  <2>2. quirks \cap {"odd_name", "markup"} # {} => quirks' \cap {"odd_name", "markup"} # {}
    BY <1>3
  <2> QED
    BY <1>1, <1>2, <2>1, <2>2 DEF StackIsOpenTags
<1>7. quirks' \cap Perilous # {} /\ quirks' \cap Misplacing # {}
  BY <1>3, QuirkFacts
<1>8. StackCoversLevels' /\ StackIsPath' /\ DefinedBehaviour' /\ TextIsTranscript'
  BY <1>7 DEF StackCoversLevels, StackIsPath, DefinedBehaviour, TextIsTranscript
<1>9. RegularTextParses'
  BY DEF RegularTextParses
<1> QED
  BY <1>4, <1>5, <1>6, <1>8, <1>9 DEF IInv

(* Steps that leave stack and text alone keep what is said of them.        *)
LEMMA QuietStackIsOpenTags ==
  ASSUME StackIsOpenTags, pc # "done", UNCHANGED <<key_stack, result>>,
         quirks \subseteq quirks'
  PROVE  StackIsOpenTags'
BY DEF StackIsOpenTags

(* An element that is not shown changes nothing.                           *)
LEMMA HiddenStep ==
  ASSUME IInv, pc \in {"top", "rest"}, NEW e \in Element, Deliver(e, {}),
         e.text = Void, UNCHANGED <<pc, walk>>
  PROVE  IInv'
<1>1. ~Named(e) /\ Hidden(e)
  BY ElementTexts DEF Hidden, Named
<1>2. /\ unread' \in Nat
      /\ quirks' \in SUBSET Quirk
      /\ quirks \subseteq quirks'
      /\ bare' = bare
      /\ seen' = seen
  BY <1>1, DeliverEffect DEF IInv
<1>3. UNCHANGED <<pc, level, prev_level, key_stack, frames, result>>
  BY DEF walk
<1>4. TypeOK' /\ LevelCountsFrames'
  BY <1>2, <1>3 DEF IInv, TypeOK, LevelCountsFrames, Walking
<1>5. StackIsOpenTags'
  BY <1>2, <1>3, QuietStackIsOpenTags DEF IInv
<1>6. quirks \cap Perilous # {} => quirks' \cap Perilous # {}
  BY <1>2
<1>7. quirks \cap Misplacing # {} => quirks' \cap Misplacing # {}
  BY <1>2
<1>8. StackCoversLevels' /\ DefinedBehaviour'
  BY <1>3, <1>6 DEF IInv, StackCoversLevels, DefinedBehaviour, Walking
<1>9. TextIsTranscript'
  BY <1>2, <1>3, <1>7 DEF IInv, TextIsTranscript
<1>10. StackIsPath'
  <2>1. StackLeft' = StackLeft /\ Around' = Around
    BY <1>3 DEF StackLeft, Pops, Around, InSegment
  <2>2. quirks' \cap Misplacing = {} => quirks \cap Misplacing = {}
    BY <1>7
  <2>3. "no_cluster" \notin quirks' => "no_cluster" \notin quirks
    BY <1>2
  <2> QED
    BY <1>2, <1>3, <2>1, <2>2, <2>3 DEF IInv, StackIsPath, Walking
<1>11. RegularTextParses'
  BY <1>3 DEF RegularTextParses
<1> QED
  BY <1>4, <1>5, <1>8, <1>9, <1>10, <1>11 DEF IInv

-----------------------------------------------------------------------------
(* At the end of its children a master is no longer around what follows.   *)
LEMMA AroundOuter ==
  ASSUME TypeOK, EndChildren
  PROVE  Around # <<>> /\ Around' = SubSeq(Around, 1, Len(Around) - 1)
<1> DEFINE N == Names \cup {NoName}
           n == Len(frames)
<1>1. frames \in Seq(N) /\ n \in Nat /\ n >= 1
  <2>1. frames \in Seq(N) /\ frames # <<>>
    BY DEF TypeOK, EndChildren
  <2> QED
    BY <2>1, EmptySeq, LenProperties
<1>2. /\ frames' = SubSeq(frames, 1, n - 1)
      /\ pc' = IF pc = "head" /\ n = 1 THEN "top" ELSE pc
      /\ pc \in {"head", "segment"}
  BY DEF EndChildren
<1>3. Segment \in N /\ n - 1 \in 0 .. n /\ (n - 1) + 1 = n
  BY <1>1 DEF Names
<1>4. frames' \in Seq(N)
  BY <1>1, <1>2, <1>3, PrefixProperties
<1>5. CASE pc = "segment"
  <2>1. Around = <<Segment>> \o frames /\ Around' = <<Segment>> \o SubSeq(frames, 1, n - 1)
    BY <1>5, <1>2 DEF Around, InSegment
  <2>2. Around \in Seq(N) /\ Len(Around) = n + 1
    BY <1>1, <1>3, <2>1, ConsProperties
  <2>3. SubSeq(<<Segment>> \o frames, 1, (n - 1) + 1) = <<Segment>> \o SubSeq(frames, 1, n - 1)
    BY <1>1, <1>3, ConsPrefix
  <2>4. Len(Around) - 1 = (n - 1) + 1 /\ Len(Around) # 0
    BY <1>1, <2>2
  <2> QED
    BY <2>1, <2>2, <2>3, <2>4, EmptySeq
<1>6. CASE pc # "segment"
  <2>1. InSegment = FALSE /\ InSegment' = FALSE
    BY <1>6, <1>2 DEF InSegment
  <2>2. Around = <<>> \o frames /\ Around' = <<>> \o frames'
    BY <2>1 DEF Around
  <2>3. Around = frames /\ Around' = frames'
    BY <2>2, <1>1, <1>4, ConcatEmptySeq
  <2> QED
    BY <2>3, <1>1, <1>2, EmptySeq
<1> QED
  BY <1>5, <1>6

(* The end of a loop over children.                                        *)
LEMMA EndChildrenStep ==
  ASSUME IInv, EndChildren
  PROVE  IInv'
<1> DEFINE N == Names \cup {NoName}
           n == Len(frames)
<1>1. /\ key_stack \in Seq(Names)
      /\ level \in Nat
      /\ prev_level \in Nat
      /\ frames \in Seq(N)
      /\ n \in Nat
      /\ n >= 1
      /\ pc \in {"head", "segment"}
      /\ level = n + IF pc = "segment" THEN 1 ELSE 0
  <2>1. frames \in Seq(N) /\ frames # <<>> /\ pc \in {"head", "segment"}
    BY DEF IInv, TypeOK, EndChildren
  <2>2. Len(frames) \in Nat /\ Len(frames) # 0
    BY <2>1, EmptySeq
  <2> QED
    BY <2>1, <2>2 DEF IInv, TypeOK, LevelCountsFrames, Walking
<1>2. /\ level' = level - 1
      /\ frames' = SubSeq(frames, 1, n - 1)
      /\ pc' = IF pc = "head" /\ n = 1 THEN "top" ELSE pc
      /\ quirks' = IF bare THEN quirks \cup {"childless"} ELSE quirks
      /\ bare' = FALSE
      /\ UNCHANGED <<prev_level, key_stack, result, unread, seen>>
  BY DEF EndChildren
<1>3. frames' \in Seq(N) /\ Len(frames') = n - 1 /\ (n = 1 => frames' = <<>>)
  <2>1. n - 1 \in 0 .. n
    BY <1>1
  <2>2. frames' \in Seq(N) /\ Len(frames') = n - 1
    BY <1>1, <1>2, <2>1, PrefixProperties
  <2> QED
    BY <2>2, EmptySeq
<1>4. level' \in Nat
  BY <1>1, <1>2
<1>5. quirks \subseteq quirks' /\ quirks' \subseteq Quirk
  BY <1>2, QuirkFacts DEF IInv, TypeOK
<1>6. TypeOK'
  BY <1>1, <1>2, <1>3, <1>4, <1>5 DEF IInv, TypeOK
<1>7. LevelCountsFrames'
  <2>1. CASE pc = "segment" \/ n # 1
    <3>1. pc' = pc
      BY <2>1, <1>1, <1>2
    <3>2. level' = Len(frames') + IF pc = "segment" THEN 1 ELSE 0
      <4>1. level' = level - 1 /\ Len(frames') = n - 1
        BY <1>2, <1>3
      <4> HIDE DEF n
      <4> QED
        BY <4>1, <1>1
    <3> QED
      BY <1>1, <3>1, <3>2 DEF LevelCountsFrames
  <2>2. CASE pc = "head" /\ n = 1
    <3>1. pc' = "top" /\ level' = 0 /\ frames' = <<>> /\ Len(frames') = 0
      BY <2>2, <1>1, <1>2, <1>3
    <3> QED
      BY <3>1 DEF LevelCountsFrames
  <2> QED
    BY <1>1, <2>1, <2>2
<1>8. StackIsOpenTags'
  BY <1>1, <1>2, <1>5, QuietStackIsOpenTags DEF IInv
<1>9. StackCoversLevels'
  <2>1. quirks' \cap Perilous = {} => quirks \cap Perilous = {}
    BY <1>5
  <2>2. Len(key_stack) \in Nat
    BY <1>1, LenProperties
  <2> QED
    BY <1>1, <1>2, <2>1, <2>2 DEF IInv, StackCoversLevels, Walking
<1>10. ASSUME quirks' \cap Misplacing = {}
       PROVE  /\ StackLeft' = Around'
              /\ prev_level' >= level'
              /\ ~bare'
              /\ TextIsTranscript'
  <2>1. quirks \cap Misplacing = {} /\ quirks \cap Perilous = {} /\ ~bare
    BY <1>2, <1>10, <1>5, QuirkFacts
  <2>2. StackLeft = Around /\ prev_level >= level /\ result.last = seen
    BY <1>1, <2>1 DEF IInv, StackIsPath, TextIsTranscript, Walking
  <2>3. Len(StackLeft) >= level /\ Pops <= Len(key_stack)
    BY <1>1, <2>1, EnoughToPop DEF Walking
  <2>4. Pops = prev_level - level /\ Pops' = (prev_level - level) + 1
    <3>1. level' = level - 1 /\ prev_level' = prev_level
      BY <1>2
    <3>2. level \in Nat /\ prev_level \in Nat /\ prev_level >= level
      BY <1>1, <2>2
    <3>3. Pops = prev_level - level
      BY <3>2 DEF Pops
    <3>4. Pops' = prev_level - (level - 1)
      BY <3>1, <3>2 DEF Pops
    <3> QED
      BY <3>2, <3>3, <3>4
  <2> DEFINE k == Len(key_stack) - Pops
  <2>5. /\ StackLeft = SubSeq(key_stack, 1, k)
        /\ Len(StackLeft) = k
        /\ k \in 0 .. Len(key_stack)
        /\ k >= 1
        /\ StackLeft \in Seq(Names)
    <3>1. Len(key_stack) \in Nat /\ Pops \in Nat
      BY <1>1, <2>2, <2>4, LenProperties
    <3>2. k \in 0 .. Len(key_stack)
      BY <2>3, <3>1
    <3>3. Len(StackLeft) = k /\ StackLeft \in Seq(Names)
      BY <1>1, <3>2, PrefixProperties DEF StackLeft
    <3> HIDE DEF k
    <3> QED
      BY <1>1, <2>3, <3>2, <3>3 DEF StackLeft, k
  <2>6. StackLeft' = SubSeq(StackLeft, 1, k - 1)
    <3>1. k - 1 \in 0 .. k /\ Len(key_stack) - Pops' = k - 1
      BY <1>1, <2>2, <2>4, <2>5, LenProperties
    <3>2. StackLeft' = SubSeq(key_stack, 1, k - 1)
      BY <1>2, <3>1 DEF StackLeft
    <3> HIDE DEF k
    <3> QED
      BY <1>1, <2>5, <3>1, <3>2, PrefixOfPrefix
  <2>7. Around' = SubSeq(Around, 1, Len(Around) - 1)
    BY AroundOuter DEF IInv
  <2>8. StackLeft' = Around'
    <3> HIDE DEF k
    <3> QED
      BY <2>2, <2>5, <2>6, <2>7
  <2> QED
    BY <1>1, <1>2, <2>2, <2>8 DEF TextIsTranscript
<1>11. StackIsPath' /\ TextIsTranscript'
  BY <1>1, <1>2, <1>4, <1>10 DEF StackIsPath, TextIsTranscript
<1>12. DefinedBehaviour' /\ RegularTextParses'
  BY <1>1, <1>2 DEF DefinedBehaviour, RegularTextParses
<1> QED
  BY <1>6, <1>7, <1>8, <1>9, <1>11, <1>12 DEF IInv

-----------------------------------------------------------------------------
(* The first Segment is shown, and the level set to 1.                     *)
LEMMA FirstSegmentStep ==
  ASSUME IInv, pc = "top", Deliver(Master(Segment), {}),
         ui_show_element(Master(Segment)), level' = 1, pc' = "segment",
         UNCHANGED frames
  PROVE  IInv'
<1> DEFINE e == Master(Segment)
<1>0. /\ e \in Element
      /\ Named(e)
      /\ ~Hidden(e)
      /\ e.text = Segment
      /\ e.class = "master"
      /\ e.text # Void
      /\ e.text # Cluster
      /\ format_element_value(e) = "empty"
  <2>1. e \in Element /\ e.text = Segment /\ e.class = "master" /\ Segment \in Names
    BY DEF Element, Master, Names
  <2> HIDE DEF e
  <2>2. Named(e) /\ format_element_value(e) = "empty"
    BY <2>1 DEF Named, format_element_value
  <2> QED
    BY <2>1, <2>2, ElementTexts DEF Hidden
<1>1. /\ TypeOK
      /\ level = 0
      /\ frames = <<>>
      /\ Len(frames) = 0
      /\ key_stack \in Seq(Names)
      /\ prev_level \in Nat
      /\ result.open = <<Root>> \o key_stack
      /\ result.sound \/ quirks \cap {"odd_name", "markup"} # {}
      /\ {} \in SUBSET Quirk
      /\ Walking
  BY DEF IInv, TypeOK, StackIsOpenTags, LevelCountsFrames, Walking
<1> HIDE DEF e
<1>2. /\ key_stack' \in Seq(Names)
      /\ result' \in Text
      /\ result'.open = <<Root>> \o key_stack'
      /\ result.sound /\ QuirksOf(e) \cap {"odd_name", "markup"} = {} => result'.sound
      /\ Pops <= Len(key_stack)
      /\ prev_level' = 0
      /\ result'.last = <<Root>> \o Append(StackLeft, Segment)
      /\ key_stack' = Append(StackLeft, Segment)
  BY <1>0, <1>1, ShowEffect DEF e
<1>3. /\ unread' \in Nat
      /\ quirks' \in SUBSET Quirk
      /\ quirks \subseteq quirks'
      /\ QuirksOf(e) \subseteq quirks'
      /\ bare' = TRUE
      /\ seen' \in Seq(Names \cup {Root, NoName})
      /\ seen' = <<Root>> \o Append(Around, Segment)
  BY <1>0, <1>1, DeliverEffect DEF e
<1>4. TypeOK'
  BY <1>1, <1>2, <1>3 DEF TypeOK, Text
<1>5. LevelCountsFrames'
  BY <1>1 DEF LevelCountsFrames, Walking
<1>6. StackIsOpenTags'
  <2>1. QuirksOf(e) \cap {"odd_name", "markup"} # {} => quirks' \cap {"odd_name", "markup"} # {}
    BY <1>3
  <2>2. quirks \cap {"odd_name", "markup"} # {} => quirks' \cap {"odd_name", "markup"} # {}
    BY <1>3
  <2> QED
    BY <1>1, <1>2, <2>1, <2>2 DEF StackIsOpenTags
<1>7. StackLeft \in Seq(Names) /\ Segment \in Names
  BY <1>1, <1>2, PopsLeave DEF Names
<1>8. Len(key_stack') >= 1
  BY <1>2, <1>7, AppendProperties, LenProperties
<1>9. StackCoversLevels'
  BY <1>2, <1>8 DEF StackCoversLevels
<1>10. ASSUME quirks' \cap Misplacing = {}
       PROVE  StackLeft' = Around' /\ result'.last = seen'
  <2>1. quirks \cap Misplacing = {}
    BY <1>3, <1>10
  <2>2. StackLeft = Around
    BY <1>1, <2>1 DEF IInv, StackIsPath
  <2>3. Around = <<>> /\ Around' = <<Segment>>
    <3>1. Around = <<>> \o <<>> /\ Around' = <<Segment>> \o <<>>
      BY <1>1 DEF Around, InSegment
    <3>2. <<>> \in Seq(Names) /\ <<Segment>> \in Seq(Names)
      BY <1>7
    <3> QED
      BY <3>1, <3>2, ConcatEmptySeq
  <2>4. key_stack' = <<Segment>>
    BY <1>2, <2>2, <2>3
  <2>5. StackLeft' = SubSeq(key_stack', 1, Len(key_stack'))
    <3>1. Pops' = 0
      BY <1>2 DEF Pops
    <3>2. Len(key_stack') - 0 = Len(key_stack')
      BY <1>2, LenProperties
    <3> QED
      BY <3>1, <3>2 DEF StackLeft
  <2> QED
    BY <1>2, <1>3, <2>2, <2>3, <2>4, <2>5, WholePrefix
<1>11. StackIsPath' /\ TextIsTranscript'
  BY <1>2, <1>3, <1>10 DEF StackIsPath, TextIsTranscript
<1>12. DefinedBehaviour' /\ RegularTextParses'
  BY DEF DefinedBehaviour, RegularTextParses
<1> QED
  BY <1>4, <1>5, <1>6, <1>9, <1>11, <1>12 DEF IInv

(* The Cluster is shown: tags are closed, and prev_level is left behind.   *)
LEMMA ClusterStep ==
  ASSUME IInv, pc = "segment", frames = <<>>, pc' = "rest",
         ui_show_element(Master(Cluster)), unread' \in Nat,
         UNCHANGED <<level, frames, quirks, bare, seen>>
  PROVE  IInv'
<1> DEFINE e == Master(Cluster)
<1>0. /\ e.text = Cluster
      /\ ~Named(e)
      /\ e.text # Void
      /\ QuirksOf(e) \cap {"odd_name", "markup"} = {}
  <2>1. e.text = Cluster /\ e.class = "master" /\ Cluster # Void /\ Cluster \notin Names
    BY ElementTexts DEF Master, Cluster, Void
  <2>2. Cluster \notin OddNames
    BY <2>1, NamesAssumption DEF Names
  <2> HIDE DEF e
  <2> QED
    BY <2>1, <2>2 DEF Named, QuirksOf
<1>1. /\ TypeOK
      /\ level = 1
      /\ Len(frames) = 0
      /\ key_stack \in Seq(Names)
      /\ prev_level \in Nat
      /\ result.open = <<Root>> \o key_stack
      /\ result.sound \/ quirks \cap {"odd_name", "markup"} # {}
      /\ Walking
  BY DEF IInv, TypeOK, StackIsOpenTags, LevelCountsFrames, Walking
<1> HIDE DEF e
<1>2. /\ key_stack' \in Seq(Names)
      /\ prev_level' = prev_level
      /\ result' \in Text
      /\ result'.open = <<Root>> \o key_stack'
      /\ result.sound => result'.sound
      /\ key_stack' = StackLeft
      /\ result'.last = result.last
  BY <1>0, <1>1, ShowEffect DEF e
<1>3. TypeOK' /\ LevelCountsFrames'
  BY <1>1, <1>2 DEF TypeOK, Text, LevelCountsFrames, Walking
<1>4. StackIsOpenTags'
  BY <1>1, <1>2 DEF StackIsOpenTags
<1>5. StackCoversLevels'
  <2>1. quirks \cap Perilous = {} => Len(StackLeft) >= level
    BY <1>1, EnoughToPop
  <2> QED
    BY <1>2, <2>1 DEF StackCoversLevels
<1>6. ASSUME quirks \cap Misplacing = {}
      PROVE  key_stack' = <<Segment>>
  <2>1. StackLeft = Around
    BY <1>1, <1>6 DEF IInv, StackIsPath
  <2>2. Around = <<Segment>> \o <<>> /\ <<Segment>> \in Seq(Names)
    BY DEF Around, InSegment, Names
  <2> QED
    BY <1>2, <2>1, <2>2, ConcatEmptySeq
<1>7. StackIsPath'
  BY <1>6 DEF StackIsPath
<1>8. TextIsTranscript'
  BY <1>2 DEF IInv, TextIsTranscript
<1>9. DefinedBehaviour' /\ RegularTextParses'
  BY DEF DefinedBehaviour, RegularTextParses
<1> QED
  BY <1>3, <1>4, <1>5, <1>7, <1>8, <1>9 DEF IInv

(* The loop of handle_segment ends without a Cluster.                      *)
LEMMA LeaveSegmentStep ==
  ASSUME IInv, LeaveSegment
  PROVE  IInv'
<1>1. /\ pc = "segment" /\ pc' = "rest" /\ frames = <<>>
      /\ quirks' = quirks \cup {"no_cluster"}
      /\ UNCHANGED <<level, prev_level, key_stack, frames, result, unread, bare, seen>>
  BY DEF LeaveSegment, walk
<1>2. quirks' \subseteq Quirk /\ quirks \subseteq quirks' /\ "no_cluster" \in quirks'
  BY <1>1, QuirkFacts DEF IInv, TypeOK
<1>3. TypeOK' /\ LevelCountsFrames'
  BY <1>1, <1>2 DEF IInv, TypeOK, LevelCountsFrames, Walking
<1>4. StackIsOpenTags'
  BY <1>1, <1>2, QuietStackIsOpenTags DEF IInv
<1>5. quirks \cap Perilous # {} => quirks' \cap Perilous # {}
  BY <1>2
<1>6. quirks \cap Misplacing # {} => quirks' \cap Misplacing # {}
  BY <1>2
<1>7. StackCoversLevels' /\ DefinedBehaviour'
  BY <1>1, <1>5 DEF IInv, StackCoversLevels, DefinedBehaviour, Walking
<1>8. StackIsPath' /\ TextIsTranscript'
  BY <1>1, <1>2, <1>6 DEF IInv, StackIsPath, TextIsTranscript
<1>9. RegularTextParses'
  BY <1>1 DEF RegularTextParses
<1> QED
  BY <1>3, <1>4, <1>7, <1>8, <1>9 DEF IInv

-----------------------------------------------------------------------------
(* The end of traverse.                                                    *)

(* Whatever is closed, the text remains a text.                            *)
LEMMA ClosedIsText ==
  ASSUME NEW S, NEW text \in Text, NEW tags \in Seq(S)
  PROVE  WithClosed(text, tags) \in Text /\ WithClosed(text, tags).last = text.last
<1> DEFINE kept == Len(text.open) - Len(tags)
           N == Names \cup {Root}
<1>1. text.open \in Seq(N) /\ Len(text.open) \in Nat /\ Len(tags) \in Nat
  BY LenProperties DEF Text
<1>2. CASE kept >= 0 /\ SubSeq(text.open, kept + 1, Len(text.open)) = tags
  <2>1. kept \in 0 .. Len(text.open)
    BY <1>1, <1>2
  <2>2. SubSeq(text.open, 1, kept) \in Seq(N)
    BY <1>1, <2>1, PrefixProperties
  <2>3. WithClosed(text, tags) = [text EXCEPT !.open = SubSeq(text.open, 1, kept)]
    BY <1>2 DEF WithClosed
  <2> HIDE DEF kept
  <2> QED
    BY <2>2, <2>3 DEF Text
<1>3. CASE ~(kept >= 0 /\ SubSeq(text.open, kept + 1, Len(text.open)) = tags)
  <2>1. WithClosed(text, tags) = [text EXCEPT !.sound = FALSE]
    BY <1>3 DEF WithClosed
  <2> HIDE DEF kept
  <2> QED
    BY <2>1 DEF Text
<1> QED
  BY <1>2, <1>3

(* Closing everything that is open below the root, and the root.           *)
LEMMA ClosingAll ==
  ASSUME NEW text \in Text, text.open = <<Root>> \o <<Segment>>, text.sound
  PROVE  /\ WithClosed(WithClosed(text, <<Segment>>), <<Root>>).open = <<>>
         /\ WithClosed(WithClosed(text, <<Segment>>), <<Root>>).sound
<1> DEFINE ks == <<Segment>>
           inner == WithClosed(text, ks)
           N == Names \cup {Root}
<1>1. ks \in Seq(Names) /\ Len(ks) = 1 /\ SubSeq(ks, 1, 1) = ks /\ SubSeq(ks, 1, 0) = <<>>
  <2>1. ks \in Seq(Names) /\ Len(ks) = 1
    BY DEF Names
  <2>2. SubSeq(ks, 1, 0) \in Seq(Names) /\ Len(SubSeq(ks, 1, 0)) = 0
    BY <2>1, PrefixProperties
  <2> HIDE DEF ks
  <2> QED
    BY <2>1, <2>2, WholePrefix, EmptySeq
<1>2. inner = [text EXCEPT !.open = <<Root>> \o <<>>]
  <2>1. 1 \in 0 .. Len(ks) /\ (Len(ks) - 1) + 1 = 1 /\ Len(ks) - 1 = 0
    BY <1>1
  <2>2. text.open = <<Root>> \o ks
    OBVIOUS
  <2> HIDE DEF ks
  <2>3. \A n \in 0 .. Len(ks) :
          WithClosed(text, SubSeq(ks, Len(ks) - n + 1, Len(ks)))
            = [text EXCEPT !.open = <<Root>> \o SubSeq(ks, 1, Len(ks) - n)]
    BY <1>1, <2>2, ClosingMatches
  <2>4. WithClosed(text, SubSeq(ks, Len(ks) - 1 + 1, Len(ks)))
          = [text EXCEPT !.open = <<Root>> \o SubSeq(ks, 1, Len(ks) - 1)]
    <3>1. 1 \in 0 .. Len(ks)
      BY <2>1
    <3> QED
      BY <3>1, <2>3, Zenon
  <2>5. /\ SubSeq(ks, Len(ks) - 1 + 1, Len(ks)) = ks
        /\ SubSeq(ks, 1, Len(ks) - 1) = <<>>
    BY <1>1, <2>1
  <2> QED
    BY <2>4, <2>5, Zenon
<1>3. <<Root>> \o <<>> = <<Root>> /\ <<Root>> \in Seq(N)
  <2>1. <<Root>> \in Seq(N)
    OBVIOUS
  <2> QED
    BY <2>1, ConcatEmptySeq
<1>4. inner.open = <<Root>> /\ inner.sound
  <2> HIDE DEF inner
  <2> QED
    BY <1>2, <1>3 DEF Text
<1>5. Len(inner.open) = 1 /\ SubSeq(inner.open, 1, 1) = <<Root>> /\ SubSeq(inner.open, 1, 0) = <<>>
  <2>1. Len(<<Root>>) = 1
    OBVIOUS
  <2>2. SubSeq(<<Root>>, 1, 1) = <<Root>>
    BY <1>3, <2>1, WholePrefix
  <2>3. SubSeq(<<Root>>, 1, 0) \in Seq(N) /\ Len(SubSeq(<<Root>>, 1, 0)) = 0
    BY <1>3, <2>1, PrefixProperties
  <2> HIDE DEF inner
  <2> QED
    BY <1>4, <2>1, <2>2, <2>3, EmptySeq
<1>6. WithClosed(inner, <<Root>>) = [inner EXCEPT !.open = <<>>]
  <2>1. Len(<<Root>>) = 1
    OBVIOUS
  <2> HIDE DEF inner
  <2> QED
    BY <1>5, <2>1 DEF WithClosed
<1>7. inner \in Text
  <2>1. <<Root>> \in Seq(N)
    BY <1>3
  <2> HIDE DEF inner
  <2> QED
    BY <1>2, <1>3 DEF Text
<1> HIDE DEF inner
<1>8. WithClosed(inner, <<Root>>).open = <<>> /\ WithClosed(inner, <<Root>>).sound
  BY <1>4, <1>6, <1>7 DEF Text
<1> QED
  BY <1>8 DEF inner

(* The end of the document keeps the invariant.                            *)
LEMMA FinishStep ==
  ASSUME IInv, Finish
  PROVE  IInv'
<1>1. /\ pc \in {"top", "rest"}
      /\ quirks' = IF pc = "top" THEN quirks \cup {"no_segment"} ELSE quirks
      /\ UNCHANGED <<unread, bare, seen>>
      /\ key_stack \in Seq(Names)
      /\ result \in Text
  BY DEF Finish, IInv, TypeOK, Text
<1>2. quirks' \in SUBSET Quirk /\ quirks \subseteq quirks'
  BY <1>1, QuirkFacts DEF IInv, TypeOK, Misplacing
<1>3. CASE key_stack = <<>> /\ Abort
  <2>1. quirks' \cap Perilous # {}
    <3>1. CASE pc = "top"
      <4>1. "no_segment" \in quirks'
        BY <1>1, <3>1
      <4> QED
        BY <4>1, QuirkFacts
    <3>2. CASE pc = "rest"
      <4>1. level = 1 /\ Len(key_stack) = 0
        BY <1>3, <3>2 DEF IInv, LevelCountsFrames, Walking
      <4>2. quirks \cap Perilous # {}
        BY <3>2, <4>1 DEF IInv, StackCoversLevels, Walking
      <4> QED
        BY <4>2, <1>2
    <3> QED
      BY <1>1, <3>1, <3>2
  <2> QED
    BY <1>1, <1>2, <1>3, <2>1, AbortStep DEF IInv, TypeOK
<1>4. CASE /\ key_stack # <<>>
           /\ key_stack' = SubSeq(key_stack, 1, Len(key_stack) - 1)
           /\ result' = WithClosed(WithClosed(result, <<key_stack[Len(key_stack)]>>),
                                   <<Root>>)
           /\ pc' = "done"
           /\ UNCHANGED <<level, prev_level, frames>>
  <2>1. key_stack' \in Seq(Names)
    <3>1. Len(key_stack) \in Nat /\ Len(key_stack) # 0
      BY <1>1, <1>4, EmptySeq, LenProperties
    <3>2. Len(key_stack) - 1 \in 0 .. Len(key_stack)
      BY <3>1
    <3> QED
      BY <1>1, <1>4, <3>2, PrefixProperties
  <2>2. result' \in Text /\ result'.last = result.last
    <3> DEFINE inner == WithClosed(result, <<key_stack[Len(key_stack)]>>)
    <3>1. /\ <<key_stack[Len(key_stack)]>> \in Seq({key_stack[Len(key_stack)]})
          /\ <<Root>> \in Seq({Root})
      OBVIOUS
    <3>2. inner \in Text /\ inner.last = result.last
      BY <1>1, <3>1, ClosedIsText
    <3> HIDE DEF inner
    <3>3. result' = WithClosed(inner, <<Root>>)
      BY <1>4 DEF inner
    <3> QED
      BY <3>1, <3>2, <3>3, ClosedIsText
  <2>3. TypeOK'
    BY <1>1, <1>2, <1>4, <2>1, <2>2 DEF IInv, TypeOK, Text
  <2>4. /\ LevelCountsFrames'
        /\ StackIsOpenTags'
        /\ StackCoversLevels'
        /\ StackIsPath'
        /\ DefinedBehaviour'
    BY <1>4 DEF LevelCountsFrames, StackIsOpenTags, StackCoversLevels, StackIsPath,
                DefinedBehaviour, Walking
  <2>5. TextIsTranscript'
    <3>1. quirks' \cap Misplacing = {} => quirks \cap Misplacing = {}
      BY <1>2
    <3> QED
      BY <1>1, <2>2, <3>1 DEF IInv, TextIsTranscript
  <2>6. RegularTextParses'
    <3>1. SUFFICES ASSUME quirks' = {} PROVE Parses'
      BY DEF RegularTextParses
    <3>2. pc = "rest" /\ quirks = {}
      BY <1>1, <3>1
    <3>3. key_stack = <<Segment>> /\ result.open = <<Root>> \o <<Segment>> /\ result.sound
      BY <3>2 DEF IInv, StackIsPath, StackIsOpenTags
    <3>4. result' = WithClosed(WithClosed(result, <<Segment>>), <<Root>>)
      BY <1>4, <3>3
    <3> QED
      BY <1>1, <3>3, <3>4, ClosingAll DEF Parses
  <2> QED
    BY <2>3, <2>4, <2>5, <2>6 DEF IInv
<1> QED
  BY <1>3, <1>4 DEF Finish

-----------------------------------------------------------------------------
(* The inductive invariant.                                                *)

(* It holds when the walk begins,                                          *)
LEMMA InitIInv == Init => IInv
<1> SUFFICES ASSUME Init PROVE IInv
  OBVIOUS
<1>1. result.open = <<Root>> /\ result.last = <<Root>> /\ result.sound = TRUE
  BY DEF Init, EmptyText
<1>2. TypeOK
  <2>1. /\ <<Root>> \in Seq(Names \cup {Root})
        /\ <<Root>> \in Seq(Names \cup {Root, NoName})
        /\ <<>> \in Seq(Names)
        /\ <<>> \in Seq(Names \cup {NoName})
    OBVIOUS
  <2> QED
    BY <2>1, BoundAssumption DEF Init, EmptyText, TypeOK
<1>3. Len(<<>>) = 0
  OBVIOUS
<1>4. LevelCountsFrames
  BY <1>3 DEF Init, LevelCountsFrames
<1>5. StackIsOpenTags
  <2>1. <<Root>> \o <<>> = <<Root>>
    BY <<Root>> \in Seq({Root}), ConcatEmptySeq
  <2> QED
    BY <1>1, <2>1 DEF Init, StackIsOpenTags
<1>6. StackCoversLevels
  BY <1>3 DEF Init, StackCoversLevels
<1>7. StackIsPath
  <2>1. Pops = 0
    BY DEF Init, Pops
  <2>2. StackLeft = <<>>
    <3>1. SubSeq(<<>>, 1, 0) = <<>>
      BY <<>> \in Seq(Names), <1>3, WholePrefix
    <3> QED
      BY <2>1, <3>1, <1>3 DEF Init, StackLeft
  <2>3. Around = <<>>
    <3>1. <<>> \o <<>> = <<>>
      BY <<>> \in Seq(Names), ConcatEmptySeq
    <3> QED
      BY <3>1 DEF Init, Around, InSegment
  <2> QED
    BY <2>2, <2>3 DEF Init, StackIsPath
<1>8. DefinedBehaviour /\ TextIsTranscript /\ RegularTextParses
  BY <1>1 DEF Init, DefinedBehaviour, TextIsTranscript, RegularTextParses
<1> QED
  BY <1>2, <1>4, <1>5, <1>6, <1>7, <1>8 DEF IInv

(* and every step of the walk keeps it.                                    *)
LEMMA NextIInv == IInv /\ [Next]_vars => IInv'
<1> SUFFICES ASSUME IInv, [Next]_vars PROVE IInv'
  OBVIOUS
<1> USE QuirkFacts
<1>1. CASE NoHead
  <2>1. /\ pc = "start" /\ Abort
        /\ quirks' = quirks \cup {"no_head"}
        /\ UNCHANGED <<unread, bare, seen>>
    BY <1>1 DEF NoHead
  <2> QED
    BY <2>1, AbortStep DEF IInv, TypeOK
<1>2. CASE ReturnEarly \/ RaiseInHead
  <2>1. /\ pc = "start" /\ pc' \in {"returned", "raised"}
        /\ quirks' = quirks \cup {"no_head"}
        /\ UNCHANGED <<level, prev_level, key_stack, frames, result, unread, bare, seen>>
    BY <1>2 DEF ReturnEarly, RaiseInHead, walk
  <2>2. quirks' \cap Perilous # {} /\ quirks' \cap Misplacing # {}
        /\ quirks' \subseteq Quirk /\ quirks \subseteq quirks'
    BY <2>1 DEF IInv, TypeOK
  <2>3. TypeOK'
    BY <2>1, <2>2 DEF IInv, TypeOK
  <2>4. StackIsOpenTags'
    BY <2>1, <2>2, QuietStackIsOpenTags DEF IInv
  <2>5. /\ LevelCountsFrames'
        /\ StackCoversLevels'
        /\ StackIsPath'
        /\ DefinedBehaviour'
        /\ TextIsTranscript'
        /\ RegularTextParses'
    BY <2>1, <2>2 DEF LevelCountsFrames, StackCoversLevels, StackIsPath,
                      DefinedBehaviour, TextIsTranscript, RegularTextParses, Walking
  <2> QED
    BY <2>3, <2>4, <2>5 DEF IInv
<1>3. CASE ReadHead
  <2>1. HeadTag \in Names /\ Master(HeadTag) \in Element
    BY DEF Names, Element, Master
  <2>2. pc = "start" /\ pc' = "head" /\ Deliver(Master(HeadTag), {})
        /\ handle_elements_generic(Master(HeadTag))
    BY <1>3 DEF ReadHead
  <2> QED
    BY <2>1, <2>2, HandleStep, {} \in SUBSET Quirk
<1>4. ASSUME NEW e \in Element, NextElement(e)
      PROVE  IInv'
  <2>1. pc \in {"head", "segment"} /\ Deliver(e, {}) /\ {} \in SUBSET Quirk
    BY <1>4 DEF NextElement
  <2>2. CASE handle_elements_generic(e) /\ pc' = pc
    BY <2>1, <2>2, HandleStep
  <2>3. CASE PopsEmptyStack(e) /\ Abort
    <3>1. quirks \cap Perilous # {}
      BY <2>1, <2>3, EnoughToPop DEF Walking
    <3> QED
      BY <2>1, <2>3, <3>1, DeliverEffect, AbortStep DEF IInv
  <2> QED
    BY <1>4, <2>2, <2>3 DEF NextElement
<1>5. CASE EndChildren
  BY <1>5, EndChildrenStep
<1>6. CASE EnterSegment
  <2>1. Segment \in Names /\ Master(Segment) \in Element
    BY DEF Names, Element, Master
  <2>2. CASE pc = "top"
    <3>1. Deliver(Master(Segment), {}) /\ {} \in SUBSET Quirk
      BY <1>6, <2>2 DEF EnterSegment
    <3>2. CASE PopsEmptyStack(Master(Segment)) /\ Abort
      <4>1. quirks \cap Perilous # {}
        BY <2>2, <3>2, EnoughToPop DEF Walking
      <4> QED
        BY <2>1, <2>2, <3>1, <3>2, <4>1, DeliverEffect, AbortStep DEF IInv
    <3> QED
      BY <1>6, <2>2, <3>1, <3>2, FirstSegmentStep DEF EnterSegment
  <2>3. CASE pc = "rest"
    <3>1. Deliver(Master(Segment), {"more_top"}) /\ {"more_top"} \in SUBSET Quirk
      BY <1>6, <2>3 DEF EnterSegment
    <3>2. CASE Abort
      BY <2>1, <2>3, <3>1, <3>2, DeliverEffect, AbortStep DEF IInv
    <3> QED
      BY <1>6, <2>1, <2>3, <3>1, <3>2, TrailingStep DEF EnterSegment
  <2> QED
    BY <1>6, <2>2, <2>3 DEF EnterSegment
<1>7. CASE ReachCluster
  <2>1. /\ pc = "segment" /\ frames = <<>>
        /\ unread' \in Nat
        /\ UNCHANGED <<quirks, bare, seen>>
    BY <1>7 DEF ReachCluster, IInv, TypeOK
  <2>2. CASE PopsEmptyStack(Master(Cluster)) /\ Abort
    <3>1. quirks \cap Perilous # {}
      BY <2>1, <2>2, EnoughToPop DEF Walking
    <3> QED
      BY <2>1, <2>2, <3>1, AbortStep DEF IInv, TypeOK
  <2>3. CASE ui_show_element(Master(Cluster)) /\ pc' = "rest" /\ UNCHANGED <<level, frames>>
    BY <2>1, <2>3, ClusterStep
  <2> QED
    BY <1>7, <2>2, <2>3 DEF ReachCluster
<1>8. CASE LeaveSegment
  BY <1>8, LeaveSegmentStep
<1>9. ASSUME NEW e \in Element, SkipTopElement(e)
      PROVE  IInv'
  <2>1. pc \in {"top", "rest"} /\ e.class = "dummy"
    BY <1>9 DEF SkipTopElement
  <2>2. CASE pc = "rest" /\ e.text # Void
    <3>1. Deliver(e, {"more_top"}) /\ {"more_top"} \in SUBSET Quirk
      BY <1>9, <2>2 DEF SkipTopElement, Misplacing
    <3>2. CASE Abort
      BY <2>2, <3>1, <3>2, DeliverEffect, AbortStep DEF IInv
    <3>3. CASE handle_elements_generic(e) /\ pc' = pc
      <4>1. ui_show_element(e) /\ UNCHANGED <<level, frames>>
        BY <2>1, <3>3 DEF handle_elements_generic
      <4>2. frames = <<>> /\ level = 1
        BY <2>2 DEF IInv, LevelCountsFrames, Walking
      <4> QED
        BY <2>2, <3>1, <3>3, <4>1, <4>2, TrailingStep
    <3> QED
      BY <1>9, <3>2, <3>3 DEF SkipTopElement
  <2>3. CASE ~(pc = "rest" /\ e.text # Void)
    <3>1. Deliver(e, {}) /\ {} \in SUBSET Quirk
      BY <1>9, <2>3 DEF SkipTopElement
    <3>2. CASE PopsEmptyStack(e) /\ Abort
      <4>1. quirks \cap Perilous # {}
        BY <2>1, <2>3, <3>2, EnoughToPop DEF Walking, PopsEmptyStack
      <4> QED
        BY <2>1, <3>1, <3>2, <4>1, DeliverEffect, AbortStep DEF IInv
    <3>3. CASE handle_elements_generic(e) /\ pc' = pc /\ pc = "top"
      BY <2>1, <3>1, <3>3, HandleStep
    <3>4. CASE handle_elements_generic(e) /\ pc' = pc /\ e.text = Void
      <4>1. ui_show_element(e) /\ UNCHANGED <<level, frames>>
        BY <2>1, <3>4 DEF handle_elements_generic
      <4>2. UNCHANGED <<pc, walk>>
        BY <3>4, <4>1 DEF ui_show_element, walk
      <4> QED
        BY <2>1, <3>1, <3>4, <4>2, HiddenStep
    <3> QED
      BY <1>9, <2>1, <2>3, <3>2, <3>3, <3>4 DEF SkipTopElement
  <2> QED
    BY <2>2, <2>3
<1>10. CASE Finish
  BY <1>10, FinishStep
<1>11. CASE UNCHANGED vars
  <2>1. UNCHANGED <<pc, level, prev_level, key_stack, frames, result,
                    unread, quirks, bare, seen>>
    BY <1>11 DEF vars, walk, history
  <2>2. StackLeft' = StackLeft /\ Around' = Around
    BY <2>1 DEF StackLeft, Pops, Around, InSegment
  <2>3. TypeOK' /\ LevelCountsFrames' /\ StackIsOpenTags' /\ StackCoversLevels'
    BY <2>1 DEF IInv, TypeOK, LevelCountsFrames, StackIsOpenTags, StackCoversLevels,
                Walking
  <2>4. StackIsPath' /\ DefinedBehaviour' /\ TextIsTranscript' /\ RegularTextParses'
    BY <2>1, <2>2 DEF IInv, StackIsPath, DefinedBehaviour, TextIsTranscript,
                      RegularTextParses, Parses, Walking
  <2> QED
    BY <2>3, <2>4 DEF IInv
<1> QED
  BY <1>1, <1>2, <1>3, <1>4, <1>5, <1>6, <1>7, <1>8, <1>9, <1>10, <1>11
  DEF Next, Step, Child

(* IInv holds in every reachable state.                                    *)
THEOREM Invariance == Spec => []IInv
<1>1. Init => IInv
  BY InitIInv
<1>2. IInv /\ [Next]_vars => IInv'
  BY NextIInv
<1> QED
  BY <1>1, <1>2, PTL DEF Spec

(* Every variable keeps its type.                                          *)
THEOREM TypeCorrectness == Spec => []TypeOK
<1>1. IInv => TypeOK
  BY DEF IInv
<1> QED
  BY <1>1, Invariance, PTL

(* Until the last step, key_stack is what the text has open, in every      *)
(* document whatsoever.                                                    *)
THEOREM StackMirrorsText == Spec => []StackIsOpenTags
<1>1. IInv => StackIsOpenTags
  BY DEF IInv
<1> QED
  BY <1>1, Invariance, PTL

(* The empty stack is never popped without a quirk that gives cause.       *)
THEOREM NoUndefinedBehaviour == Spec => []DefinedBehaviour
<1>1. IInv => DefinedBehaviour
  BY DEF IInv
<1> QED
  BY <1>1, Invariance, PTL

(* Elements are written where they lie in the document.                    *)
THEOREM FaithfulTranscript == Spec => []TextIsTranscript
<1>1. IInv => TextIsTranscript
  BY DEF IInv
<1> QED
  BY <1>1, Invariance, PTL

(* The text of a document without quirks is complete, and parses.          *)
THEOREM RegularAnswer == Spec => []RegularTextParses
<1>1. IInv => RegularTextParses
  BY DEF IInv
<1> QED
  BY <1>1, Invariance, PTL

-----------------------------------------------------------------------------
(* The walk implements Transcript, on documents without quirks: however    *)
(* late tags are closed, the text is the document written depth first.     *)
(*                                                                         *)
(* The abstract `last` is what the text wrote last.  The invariant equates *)
(* it with `seen`, the last named element the document held, so each step  *)
(* is mapped by what it did to the document.                               *)

NoQuirk == quirks = {}

(* An element delivered without a quirk.                                   *)
LEMMA RegularDelivery ==
  ASSUME IInv, NoQuirk', NEW e \in Element, NEW more \in SUBSET Quirk, Deliver(e, more)
  PROVE  /\ more = {}
         /\ e.class = "master" => Named(e)
         /\ seen' = IF Named(e) THEN <<Root>> \o Append(Around, e.text) ELSE seen
  <1>1. QuirksOf(e) = {} /\ more = {}
    BY DeliverEffect DEF IInv, NoQuirk
  <1>2. e.class = "master" => e.text \in Names
    BY <1>1, ElementTexts DEF QuirksOf
  <1> QED
    BY <1>1, <1>2, DeliverEffect DEF IInv, Named

(* A text with the root open is not complete.                              *)
LEMMA RootIsOpen ==
  ASSUME NEW ks \in Seq(Names)
  PROVE  <<Root>> \o ks # <<>>
<1>1. ks \in Seq(Names \cup {Root})
  BY SeqMonotonic, Names \subseteq Names \cup {Root}
<1>2. Len(<<Root>> \o ks) = Len(ks) + 1 /\ Len(ks) \in Nat
  BY <1>1, ConsProperties, LenProperties
<1>3. Len(<<Root>> \o ks) # 0
  BY <1>2
<1> QED
  BY <1>3

(* No text parses while the walk goes on.                                  *)
LEMMA WalkingIsOpen ==
  /\ IInv /\ Walking => ~Parses
  /\ IInv' /\ Walking' => ~Parses'
<1>1. IInv /\ Walking => result.open = <<Root>> \o key_stack /\ key_stack \in Seq(Names)
  BY DEF IInv, TypeOK, StackIsOpenTags, Walking
<1>2. IInv' /\ Walking' => result'.open = <<Root>> \o key_stack' /\ key_stack' \in Seq(Names)
  BY DEF IInv, TypeOK, StackIsOpenTags, Walking
<1> QED
  BY <1>1, <1>2, RootIsOpen DEF Parses

(* Where writing goes on in Transcript.                                    *)
Place == IF pc \in {"rest", "done"} THEN <<>> ELSE Around

(* A step from which the walk goes on changes neither flag of Transcript.  *)
LEMMA FlagsStay ==
  ASSUME IInv, IInv', Walking, Walking'
  PROVE  ~(~Walking) /\ (~Walking)' = (~Walking) /\ Parses' = Parses
<1>1. ~Parses /\ ~Parses'
  BY WalkingIsOpen, Zenon
<1>2. Parses = FALSE /\ Parses' = FALSE
  BY <1>1 DEF Parses
<1>3. (~Walking) = FALSE /\ (~Walking)' = FALSE
  BY Zenon
<1> QED
  BY <1>2, <1>3, Zenon

(* Such a step is one of Transcript's where it does to `around` and `last` *)
(* what that one does.                                                     *)
LEMMA GoesOn ==
  ASSUME IInv, IInv', Walking, Walking', NEW name \in Names
  PROVE  /\ Place' = Append(Place, name) /\ result'.last = <<Root>> \o Place'
              => Abstract!Descend(name)
         /\ result'.last = <<Root>> \o Append(Place, name) /\ Place' = Place
              => Abstract!WriteValue(name)
         /\ Place # <<>> /\ Place' = SubSeq(Place, 1, Len(Place) - 1)
              /\ result'.last = result.last => Abstract!Ascend
         /\ Place' = Place /\ result'.last = result.last => UNCHANGED Abstract!vars
<1>1. ~(~Walking) /\ (~Walking)' = (~Walking) /\ Parses' = Parses
  BY FlagsStay
<1>2. /\ Place = IF pc \in {"rest", "done"} THEN <<>> ELSE Around
      /\ Place' = IF pc' \in {"rest", "done"} THEN <<>> ELSE Around'
  BY DEF Place
<1> QED
  BY <1>1, <1>2, Zenon
  DEF Abstract!Descend, Abstract!WriteValue, Abstract!Ascend, Abstract!vars, Place

(* The text of an element is one of a master's or of a leaf's, or nothing  *)
(* is written.                                                             *)
LEMMA HandledElement ==
  ASSUME IInv, IInv', NoQuirk, NoQuirk', NEW e \in Element, Deliver(e, {}),
         handle_elements_generic(e), InSegment' <=> InSegment,
         Walking, Walking', pc # "rest", pc' # "rest"
  PROVE  \/ \E name \in Names : Abstract!Descend(name)
         \/ \E name \in Names : Abstract!WriteValue(name)
         \/ UNCHANGED Abstract!vars
  <1>1. /\ e.class = "master" => Named(e)
        /\ seen' = IF Named(e) THEN <<Root>> \o Append(Around, e.text) ELSE seen
    BY RegularDelivery
  <1>2. /\ result.last = seen /\ result'.last = seen'
        /\ Place = Around /\ Place' = Around'
    BY DEF IInv, NoQuirk, TextIsTranscript, Walking, Place
  <1>3. CASE e.class = "master"
    <2>1. Named(e) /\ e.text \in Names /\ frames' = Append(frames, e.text)
      BY <1>1, <1>3 DEF Named, handle_elements_generic
    <2>2. Around' = Append(Around, e.text)
      BY <2>1, AroundInner DEF IInv
    <2>3. Abstract!Descend(e.text)
      BY <1>1, <1>2, <2>1, <2>2, GoesOn
    <2> QED
      BY <2>1, <2>3
  <1>4. CASE e.class # "master"
    <2>1. Around' = Around
      BY <1>4 DEF handle_elements_generic, Around
    <2>2. CASE Named(e)
      <3>1. Abstract!WriteValue(e.text) /\ e.text \in Names
        BY <1>1, <1>2, <2>1, <2>2, GoesOn DEF Named
      <3> QED
        BY <3>1
    <2>3. CASE ~Named(e)
      BY <1>1, <1>2, <2>1, <2>3, Segment \in Names, GoesOn DEF Names
    <2> QED
      BY <2>2, <2>3
  <1> QED
    BY <1>3, <1>4

(* Every step is a step of Transcript or changes nothing there.            *)
LEMMA StepIsAbstract ==
  ASSUME IInv, IInv', NoQuirk, NoQuirk', [Next]_vars
  PROVE  [Abstract!Next]_(Abstract!vars)
  <1> USE DEF Abstract!Next
  <1>1. /\ TypeOK
        /\ result.last = seen
        /\ result'.last = seen'
        /\ pc' # "undefined"
        /\ pc' = "done" => Parses'
        /\ frames \in Seq(Names \cup {NoName})
        /\ Segment \in Names
    BY DEF Names, IInv, NoQuirk, TypeOK, TextIsTranscript, DefinedBehaviour, RegularTextParses
  <1>2. ~NoHead /\ ~ReturnEarly /\ ~RaiseInHead /\ ~LeaveSegment
    BY DEF NoHead, ReturnEarly, RaiseInHead, LeaveSegment, NoQuirk
  <1>3. CASE ReadHead
    <2>1. /\ Deliver(Master(HeadTag), {})
          /\ handle_elements_generic(Master(HeadTag))
          /\ pc = "start" /\ pc' = "head"
      BY <1>3 DEF ReadHead
    <2>2. Master(HeadTag) \in Element
      BY DEF Master, Element, Names
    <2> QED
      BY <2>1, <2>2, HandledElement DEF InSegment, Walking
  <1>4. CASE \E e \in Child : NextElement(e)
    <2>1. PICK e \in Element : NextElement(e)
      BY <1>4 DEF Child
    <2>2. /\ Deliver(e, {})
          /\ handle_elements_generic(e)
          /\ pc \in {"head", "segment"} /\ pc' = pc
      BY <1>1, <2>1 DEF NextElement, Abort
    <2> QED
      BY <2>2, HandledElement DEF InSegment, Walking
  <1>5. CASE EndChildren
    <2>1. /\ pc \notin {"rest", "done"} /\ pc' \notin {"rest", "done"}
          /\ Walking /\ Walking'
          /\ seen' = seen
      BY <1>5 DEF EndChildren, Walking
    <2>2. Around # <<>> /\ Around' = SubSeq(Around, 1, Len(Around) - 1)
      BY <1>1, <1>5, AroundOuter
    <2>3. Abstract!Ascend
      BY <1>1, <2>1, <2>2, GoesOn DEF Place
    <2> QED
      BY <2>3
  <1>6. CASE EnterSegment
    <2>1. /\ Deliver(Master(Segment), IF pc = "rest" THEN {"more_top"} ELSE {})
          /\ pc \in {"top", "rest"} /\ pc' = "segment"
          /\ Walking /\ Walking'
          /\ UNCHANGED frames
      BY <1>1, <1>6 DEF EnterSegment, Abort, Walking
    <2>2. /\ Master(Segment) \in Element
          /\ Master(Segment).class = "master" /\ Master(Segment).text = Segment
          /\ Segment \in Names
      BY DEF Master, Element, Names
    <2>3. {"more_top"} \in SUBSET Quirk /\ {} \in SUBSET Quirk
      BY DEF Quirk
    <2>4. pc = "top" /\ seen' = <<Root>> \o Append(Around, Segment)
      BY <2>1, <2>2, <2>3, RegularDelivery
    <2>5. Around = <<>> /\ Around' = <<Segment>>
      <3>1. frames = <<>> /\ frames' = <<>>
        BY <2>1, <2>4 DEF IInv, LevelCountsFrames
      <3> QED
        BY <2>1, <2>4, <3>1 DEF Around, InSegment
    <2>6. Abstract!Descend(Segment)
      BY <1>1, <2>1, <2>4, <2>5, GoesOn DEF Place
    <2> QED
      BY <2>2, <2>6
  <1>7. CASE ReachCluster
    <2>1. /\ pc = "segment" /\ frames = <<>> /\ pc' = "rest" /\ seen' = seen
          /\ Walking /\ Walking'
      BY <1>1, <1>7 DEF ReachCluster, Abort, Walking
    <2>2. Around = <<Segment>>
      BY <2>1 DEF Around, InSegment
    <2>3. SubSeq(<<Segment>>, 1, Len(<<Segment>>) - 1) = <<>> /\ <<Segment>> # <<>>
      OBVIOUS
    <2>4. Abstract!Ascend
      BY <1>1, <2>1, <2>2, <2>3, GoesOn DEF Place
    <2> QED
      BY <2>4
  <1>8. CASE \E e \in Element : SkipTopElement(e)
    <2>1. PICK e \in Element : SkipTopElement(e)
      BY <1>8
    <2>2. /\ \E more \in SUBSET Quirk : Deliver(e, more)
          /\ handle_elements_generic(e)
          /\ e.class = "dummy" /\ pc \in {"top", "rest"} /\ pc' = pc
      BY <1>1, <2>1 DEF SkipTopElement, Abort, Quirk
    <2>3. seen' = seen /\ frames' = frames
      BY <2>2, RegularDelivery DEF handle_elements_generic, Named
    <2>4. Walking /\ Walking' /\ Place' = Place
      BY <2>2, <2>3 DEF Walking, Place, Around, InSegment
    <2> QED
      BY <1>1, <2>2, <2>3, <2>4, GoesOn
  <1>9. CASE Finish
    <2>1. pc = "rest" /\ pc' = "done" /\ seen' = seen
      BY <1>1, <1>9 DEF Finish, Abort, NoQuirk
    <2>2. Walking /\ ~Walking'
      BY <2>1 DEF Walking
    <2>3. Abstract!Complete
      BY <1>1, <2>1, <2>2 DEF Abstract!Complete
    <2> QED
      BY <2>3
  <1>10. CASE UNCHANGED vars
    BY <1>10 DEF vars, walk, history, Abstract!vars, Around, InSegment, Parses, Walking
  <1> QED
    BY <1>2, <1>3, <1>4, <1>5, <1>6, <1>7, <1>8, <1>9, <1>10 DEF Next, Step

(* The walk begins where Transcript does.                                  *)
LEMMA InitIsAbstract == Init => Abstract!Init
  <1>1. <<>> \o <<>> = <<>> /\ <<Root>> # <<>>
    OBVIOUS
  <1> QED
    BY <1>1 DEF Init, Abstract!Init, Around, InSegment, EmptyText, Parses, Walking

(* As long as the document shows no quirk, the walk writes it depth first, *)
(* each element inside exactly the ones it lies in, and does not end, in   *)
(* whatever way, but with a text that parses, which no text did before.    *)
THEOREM WalkImplementsTranscript == Spec /\ []NoQuirk => WritesTranscript
  <1>1. IInv /\ IInv' /\ NoQuirk /\ NoQuirk' /\ [Next]_vars
          => [Abstract!Next]_(Abstract!vars)
    BY StepIsAbstract
  <1> QED
    BY <1>1, InitIsAbstract, Invariance, PTL DEF Spec, WritesTranscript, Abstract!Spec

(* Where no quirk is admitted none occurs.                                 *)
THEOREM RegularDocumentsTranscribed ==
  ASSUME Admitted = {}
  PROVE  Spec => WritesTranscript
  <1>1. Init => NoQuirk
    BY DEF Init, NoQuirk
  <1>2. NoQuirk /\ [Next]_vars => NoQuirk'
    BY DEF NoQuirk, Next, vars, history
  <1> QED
    BY <1>1, <1>2, WalkImplementsTranscript, PTL DEF Spec
=============================================================================
