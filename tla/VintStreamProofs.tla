--------------------------- MODULE VintStreamProofs ---------------------------
(***************************************************************************)
(* What a read of any file gives, for every width of a byte: the           *)
(* properties of VintStream are theorems of its specification.             *)
(***************************************************************************)
EXTENDS VintStream, VintProofs

(* A vint as a read gives one.                                             *)
IsVint(v) ==
  v = NoVint \/
  /\ v.is_set
  /\ v.coded_size \in 1 .. ByteBits + 1
  /\ v.value \in -Power2[Word - 1] .. Power2[Word - 1] - 1

(* A read has one outcome; the file is the same but for its pointer, which *)
(* goes no further than the end.                                           *)
LEMMA ReadOutcome ==
  ASSUME NEW f \in File, f.fp <= Len(f.bytes), NEW mode \in Mode
  PROVE  \E v, g : /\ read(f, mode) = {[vint |-> v, file |-> g]}
                   /\ IsVint(v)
                   /\ g \in File /\ g.open = f.open /\ g.bytes = f.bytes
                   /\ g.fp \in f.fp .. Len(f.bytes)
  <1>0. f.fp \in Nat /\ f.bytes \in Seq(Byte) /\ Len(f.bytes) \in Nat
    BY DEF File
  <1>1. CASE Refused(f, mode)
    <2>1. PICK g : /\ \/ g = f
                      \/ f.fp < get_size(f) /\ g = MovedOn(f, 1)
                   /\ read(f, mode) = {[vint |-> NoVint, file |-> g]}
      BY <1>1, ReadRefused
    <2>2. IsVint(NoVint)
      BY DEF IsVint
    <2>3. g \in File /\ g.open = f.open /\ g.bytes = f.bytes /\ g.fp \in f.fp .. Len(f.bytes)
      <3>1. CASE g = f
        BY <1>0, <3>1
      <3>2. CASE f.fp < get_size(f) /\ g = MovedOn(f, 1)
        <4>1. get_size(f) = Len(f.bytes)
          BY <3>2, ReadByteIs
        <4>2. g \in File /\ g.open = f.open /\ g.bytes = f.bytes /\ g.fp = f.fp + 1
          BY <3>2, MovedOnIs
        <4> QED
          BY <1>0, <3>2, <4>1, <4>2
      <3> QED
        BY <2>1, <3>1, <3>2
    <2> QED
      BY <2>1, <2>2, <2>3
  <1>2. CASE ~Refused(f, mode) /\ ReadLength(f) \in 1 .. ByteBits
    <2>1. PICK n \in 1 .. ByteBits : n = ReadLength(f)
      BY <1>2
    <2>2. PICK number : number = Number(f.bytes, f.fp, n)
      OBVIOUS
    <2>3. /\ number \in Power2[(ByteBits - 1) * n] .. 2 * Power2[(ByteBits - 1) * n] - 1
          /\ read(f, mode) = {[vint |-> vint(number - CutOff(mode, n), n),
                               file |-> MovedOn(f, n)]}
      BY <1>2, <2>1, <2>2, ReadCoded
    <2>4. number - CutOff(mode, n) \in 0 .. Power2[Word - 1] - 1
      BY <2>3, ValueInWord
    <2>5. IsVint(vint(number - CutOff(mode, n), n))
      <3>1. \A value : vint(value, n).coded_size \in 1 .. ByteBits + 1
        <4>1. n \in 1 .. ByteBits + 1
          BY ByteAssumption
        <4> QED
          BY <4>1, VintFields
      <3>2. PICK half \in Nat : half = Power2[Word - 1]
        BY WordBits
      <3>3. PICK value \in Int : value = number - CutOff(mode, n)
        BY <2>4, <3>2
      <3>4. value \in -half .. half - 1
        BY <2>4, <3>2, <3>3
      <3>5. IsVint(vint(value, n))
        BY <3>1, <3>2, <3>4, VintFields DEF IsVint
      <3> QED
        BY <3>3, <3>5
    <2>6. PICK g : g = MovedOn(f, n)
      OBVIOUS
    <2>7. g \in File /\ g.open = f.open /\ g.bytes = f.bytes /\ g.fp = f.fp + n
      <3>1. n \in Nat
        OBVIOUS
      <3> QED
        BY <2>6, <3>1, MovedOnIs
    <2>8. f.fp + n <= Len(f.bytes)
      BY <1>2, <2>1, ReadAccepted
    <2>9. g.fp \in f.fp .. Len(f.bytes)
      BY <1>0, <2>7, <2>8
    <2>10. PICK v : v = vint(number - CutOff(mode, n), n)
      OBVIOUS
    <2>11. read(f, mode) = {[vint |-> v, file |-> g]}
      BY <2>3, <2>6, <2>10
    <2>12. IsVint(v)
      BY <2>5, <2>10
    <2> QED
      BY <2>7, <2>9, <2>11, <2>12
  <1>3. CASE ~Refused(f, mode) /\ ReadLength(f) = ByteBits + 1
    <2>1. PICK value \in -Power2[Word - 1] .. Power2[Word - 1] - 1 :
            read(f, mode) = {[vint |-> vint(value, ByteBits + 1),
                              file |-> MovedOn(f, ByteBits + 1)]}
      BY <1>3, ReadOverlong
    <2>2. PICK n \in Nat : n = ByteBits + 1
      BY ByteAssumption
    <2>3. IsVint(vint(value, n))
      <3>1. n \in 1 .. ByteBits + 1
        BY <2>2, ByteAssumption
      <3> QED
        BY <3>1, VintFields DEF IsVint
    <2>4. PICK g : g = MovedOn(f, n)
      OBVIOUS
    <2>5. g \in File /\ g.open = f.open /\ g.bytes = f.bytes /\ g.fp = f.fp + n
      BY <2>4, MovedOnIs
    <2>6. f.fp + n <= Len(f.bytes)
      BY <1>3, <2>2, ReadAccepted
    <2>7. g.fp \in f.fp .. Len(f.bytes)
      BY <1>0, <2>5, <2>6
    <2>8. read(f, mode) = {[vint |-> vint(value, n), file |-> g]}
      BY <2>1, <2>2, <2>4
    <2> QED
      BY <2>3, <2>5, <2>7, <2>8
  <1>4. ~Refused(f, mode) => ReadLength(f) \in 1 .. ByteBits + 1
    BY ReadAccepted
  <1> QED
    BY <1>1, <1>2, <1>3, <1>4, ByteAssumption

-----------------------------------------------------------------------------
(* The invariant: what the types are, and that the file is open and what   *)
(* the last read said is what a read of the same bytes there says.         *)
Before == [file EXCEPT !.fp = got.from]

LastRead ==
  /\ got.mode = "none" => got.vint = NoVint
  /\ got.mode # "none" =>
       /\ got.mode \in Mode
       /\ [vint |-> got.vint, file |-> file] \in read(Before, got.mode)

StreamInvariant == TypeOK /\ file.open /\ LastRead

(* The file before the last read is a file with its pointer inside.        *)
LEMMA BeforeIs ==
  ASSUME StreamInvariant
  PROVE  /\ Before \in File
         /\ Before.open
         /\ Before.bytes = file.bytes
         /\ Before.fp = got.from
         /\ Before.fp <= Len(Before.bytes)
         /\ get_size(Before) = Len(file.bytes)
  <1>1. file \in File /\ file.open /\ got.from \in 0 .. Len(file.bytes)
    BY DEF StreamInvariant, TypeOK
  <1>2. Len(file.bytes) \in Nat
    BY <1>1 DEF File
  <1>3. Before \in File /\ Before.open /\ Before.bytes = file.bytes /\ Before.fp = got.from
    BY <1>1, <1>2 DEF Before, File
  <1> QED
    BY <1>1, <1>2, <1>3 DEF get_size

(* No mode is the name of none.                                            *)
LEMMA NoMode == "none" \notin Mode
  BY DEF Mode

(* The invariant holds before the first read,                              *)
LEMMA StreamInitially == Init => StreamInvariant
  <1> SUFFICES ASSUME Init PROVE StreamInvariant
    OBVIOUS
  <1>0. PICK n \in 0 .. MaxBytes : \E bytes \in [1 .. n -> Byte] :
          file = [open |-> TRUE, bytes |-> bytes, fp |-> 0]
    BY DEF Init
  <1>1. PICK bytes \in [1 .. n -> Byte] : file = [open |-> TRUE, bytes |-> bytes, fp |-> 0]
    BY <1>0
  <1>2. n \in Nat /\ bytes \in Seq(Byte)
    BY StreamAssumption
  <1>3. file \in File /\ file.open /\ file.fp = 0 /\ Len(file.bytes) \in Nat
    BY <1>1, <1>2 DEF File
  <1>4. got.from = 0 /\ got.mode = "none" /\ got.vint = NoVint
    BY DEF Init
  <1>5. TypeOK
    BY <1>3, <1>4 DEF TypeOK
  <1> QED
    BY <1>3, <1>4, <1>5 DEF StreamInvariant, LastRead

(* and every read keeps it.                                                *)
LEMMA StreamKept == StreamInvariant /\ [Next]_vars => StreamInvariant'
  <1> SUFFICES ASSUME StreamInvariant, [Next]_vars PROVE StreamInvariant'
    OBVIOUS
  <1>1. CASE UNCHANGED vars
    BY <1>1 DEF vars, StreamInvariant, TypeOK, LastRead, Before
  <1>2. CASE Next
    <2>1. PICK mode \in Mode : ReadNext(mode)
      BY <1>2 DEF Next
    <2>2. PICK outcome \in read(file, mode) :
            /\ file' = outcome.file
            /\ got' = [from |-> file.fp, mode |-> mode, vint |-> outcome.vint]
      BY <2>1 DEF ReadNext
    <2>3. file \in File /\ file.fp <= Len(file.bytes) /\ file.open
      BY DEF StreamInvariant, TypeOK
    <2>4. PICK v, g : /\ read(file, mode) = {[vint |-> v, file |-> g]}
                      /\ IsVint(v)
                      /\ g \in File /\ g.open = file.open /\ g.bytes = file.bytes
                      /\ g.fp \in file.fp .. Len(file.bytes)
      BY <2>3, ReadOutcome
    <2>5. file' = g /\ got' = [from |-> file.fp, mode |-> mode, vint |-> v]
      BY <2>2, <2>4
    <2>6. got'.from = file.fp /\ got'.mode = mode /\ got'.vint = v
      BY <2>5
    <2>7. file.fp \in Nat /\ Len(file.bytes) \in Nat
      BY <2>3 DEF File
    <2>8. TypeOK'
      BY <2>3, <2>4, <2>5, <2>6, <2>7 DEF TypeOK, IsVint
    <2>9. Before' = file
      <3>1. Before' = [file' EXCEPT !.fp = got'.from]
        BY DEF Before
      <3> QED
        BY <2>3, <2>4, <2>5, <2>6, <3>1 DEF File
    <2>10. LastRead'
      BY <2>4, <2>5, <2>6, <2>9, NoMode DEF LastRead
    <2> QED
      BY <2>3, <2>4, <2>5, <2>8, <2>10 DEF StreamInvariant
  <1> QED
    BY <1>1, <1>2

(* It is an invariant of every sequence of reads.                          *)
THEOREM StreamCorrect == Spec => []StreamInvariant
  BY StreamInitially, StreamKept, PTL DEF Spec

(* VintStream.TypeOK: wherever a read begins, it ends inside the file, and *)
(* gives none or an integer of at most one byte more than a byte has bits, *)
(* that an int64_t holds.                                                  *)
THEOREM TypeCorrect == Spec => []TypeOK
  <1>1. StreamInvariant => TypeOK
    BY DEF StreamInvariant
  <1> QED
    BY <1>1, StreamCorrect, PTL

(* VintStream.OneOutcome: the bytes left in the buffer of a read that ends *)
(* behind the file decide nothing.                                         *)
THEOREM ReadDeterministic == Spec => []OneOutcome
  <1>1. StreamInvariant => OneOutcome
    <2> SUFFICES ASSUME StreamInvariant, NEW mode \in Mode
                 PROVE  \E outcome \in read(file, mode) : read(file, mode) = {outcome}
      BY DEF OneOutcome
    <2>1. file \in File /\ file.fp <= Len(file.bytes)
      BY DEF StreamInvariant, TypeOK
    <2>2. PICK v, g : /\ read(file, mode) = {[vint |-> v, file |-> g]}
                      /\ IsVint(v)
                      /\ g \in File /\ g.open = file.open /\ g.bytes = file.bytes
                      /\ g.fp \in file.fp .. Len(file.bytes)
      BY <2>1, ReadOutcome
    <2>3. PICK outcome : outcome = [vint |-> v, file |-> g]
      OBVIOUS
    <2> QED
      BY <2>2, <2>3
  <1> QED
    BY <1>1, StreamCorrect, PTL

(* Coded is the number of the bytes there.                                 *)
LEMMA CodedIs == \A b, from, n : Coded(b, from, n) = Number(b, from, n)
  BY DEF Coded, Number

(* Where an integer of a legal length is coded, that length is read, and   *)
(* the read is refused only if it is one of an ID and that is too long.    *)
LEMMA CodesIsAccepted ==
  ASSUME NEW f \in File, f.open, NEW mode \in Mode, NEW n \in 1 .. ByteBits,
         Codes(f.bytes, f.fp, n), ~Rejected(n, mode)
  PROVE  ~Refused(f, mode) /\ ReadLength(f) = n
  <1>0. PICK b : b = f.bytes
    OBVIOUS
  <1>1. PICK pos \in Nat : b = f.bytes /\ pos = f.fp
    BY <1>0 DEF File
  <1>2. b \in Seq(Byte) /\ get_size(f) = Len(b) /\ Len(b) \in Nat
    BY <1>1 DEF File, get_size
  <1>3. /\ pos + n <= Len(b)
        /\ Number(b, pos, n) \in Power2[(ByteBits - 1) * n] .. 2 * Power2[(ByteBits - 1) * n] - 1
    BY <1>1, CodedIs DEF Codes, Marker
  <1>4. AreBytes(b, pos, n)
    BY <1>2, <1>3 DEF AreBytes
  <1>5. value_len(b[pos + 1]) = n
    BY <1>3, <1>4, CodedLength
  <1>6. ReadLength(f) = n
    BY <1>1, <1>5 DEF ReadLength
  <1>7. ~Refused(f, mode)
    <2>1. ~(pos >= Len(b)) /\ ~(pos + n > Len(b))
      BY <1>2, <1>3
    <2> QED
      BY <1>1, <1>2, <1>6, <2>1 DEF Refused
  <1> QED
    BY <1>6, <1>7

(* What the last read gave, by what is there.                              *)
LEMMA LastReadIs ==
  ASSUME StreamInvariant, got.mode # "none"
  PROVE  /\ got.mode \in Mode
         /\ Refused(Before, got.mode) => got.vint = NoVint
         /\ ~Refused(Before, got.mode) => ReadLength(Before) \in 1 .. ByteBits + 1
         /\ \A n \in 1 .. ByteBits :
              ~Refused(Before, got.mode) /\ ReadLength(Before) = n =>
                /\ got.from + n <= Len(file.bytes)
                /\ Number(file.bytes, got.from, n) \in
                     Power2[(ByteBits - 1) * n] .. 2 * Power2[(ByteBits - 1) * n] - 1
                /\ got.vint = vint(Number(file.bytes, got.from, n) - CutOff(got.mode, n), n)
                /\ file.fp = got.from + n
         /\ ~Refused(Before, got.mode) /\ ReadLength(Before) = ByteBits + 1 =>
              got.mode = "rm_normal" /\ got.vint.coded_size = ByteBits + 1
  <1>0. PICK f : f = Before
    OBVIOUS
  <1>1. /\ f \in File
        /\ f.open
        /\ f.bytes = file.bytes
        /\ f.fp = got.from
    BY <1>0, BeforeIs
  <1>2. PICK mode \in Mode : mode = got.mode
    BY DEF StreamInvariant, LastRead
  <1>3. [vint |-> got.vint, file |-> file] \in read(f, mode)
    BY <1>0, <1>2 DEF StreamInvariant, LastRead
  <1>4. \A v, g : read(f, mode) = {[vint |-> v, file |-> g]} => got.vint = v /\ file = g
    <2> TAKE v, g
    <2> HAVE read(f, mode) = {[vint |-> v, file |-> g]}
    <2>1. PICK x, y : x = [vint |-> got.vint, file |-> file] /\ y = [vint |-> v, file |-> g]
      OBVIOUS
    <2>2. x = y
      BY <1>3, <2>1
    <2>3. x.vint = got.vint /\ x.file = file /\ y.vint = v /\ y.file = g
      BY <2>1
    <2> QED
      BY <2>2, <2>3
  <1>5. Refused(f, mode) => got.vint = NoVint
    <2> HAVE Refused(f, mode)
    <2>1. PICK g : /\ \/ g = f
                      \/ f.fp < get_size(f) /\ g = MovedOn(f, 1)
                   /\ read(f, mode) = {[vint |-> NoVint, file |-> g]}
      BY <1>1, ReadRefused
    <2> QED
      BY <1>4, <2>1
  <1>6. ~Refused(f, mode) => ReadLength(f) \in 1 .. ByteBits + 1
    BY <1>1, ReadAccepted
  <1>7. ASSUME NEW n \in 1 .. ByteBits, ~Refused(f, mode), ReadLength(f) = n
        PROVE  /\ got.from + n <= Len(file.bytes)
               /\ Number(file.bytes, got.from, n) \in
                    Power2[(ByteBits - 1) * n] .. 2 * Power2[(ByteBits - 1) * n] - 1
               /\ got.vint = vint(Number(file.bytes, got.from, n) - CutOff(got.mode, n), n)
               /\ file.fp = got.from + n
    <2>1. /\ Number(f.bytes, f.fp, n) \in
               Power2[(ByteBits - 1) * n] .. 2 * Power2[(ByteBits - 1) * n] - 1
          /\ read(f, mode) = {[vint |-> vint(Number(f.bytes, f.fp, n) - CutOff(mode, n), n),
                               file |-> MovedOn(f, n)]}
      BY <1>1, <1>7, ReadCoded
    <2>2. f.fp + n <= Len(f.bytes)
      BY <1>1, <1>7, ReadAccepted
    <2>3. got.vint = vint(Number(f.bytes, f.fp, n) - CutOff(mode, n), n) /\ file = MovedOn(f, n)
      BY <1>4, <2>1
    <2>4. MovedOn(f, n).fp = f.fp + n
      <3>1. n \in Nat
        OBVIOUS
      <3> QED
        BY <1>1, <3>1, MovedOnIs
    <2> QED
      BY <1>1, <1>2, <2>1, <2>2, <2>3, <2>4
  <1>8. ~Refused(f, mode) /\ ReadLength(f) = ByteBits + 1 =>
          mode = "rm_normal" /\ got.vint.coded_size = ByteBits + 1
    <2> HAVE ~Refused(f, mode) /\ ReadLength(f) = ByteBits + 1
    <2>1. /\ mode = "rm_normal"
          /\ \E value \in -Power2[Word - 1] .. Power2[Word - 1] - 1 :
               read(f, mode) = {[vint |-> vint(value, ByteBits + 1),
                                 file |-> MovedOn(f, ByteBits + 1)]}
      BY <1>1, ReadOverlong
    <2>2. PICK value : read(f, mode) = {[vint |-> vint(value, ByteBits + 1),
                                        file |-> MovedOn(f, ByteBits + 1)]}
      BY <2>1
    <2>3. got.vint = vint(value, ByteBits + 1)
      BY <1>4, <2>2
    <2> QED
      BY <2>1, <2>3, VintFields
  <1> QED
    BY <1>0, <1>2, <1>5, <1>6, <1>7, <1>8

(* VintStream.ReadsWhatIsCoded: a read gives exactly the integer that EBML *)
(* says is coded where it begins, and steps exactly over it; and where it  *)
(* gives one of a legal length, one is coded.                              *)
THEOREM CodedRead == Spec => []ReadsWhatIsCoded
  <1>1. StreamInvariant => ReadsWhatIsCoded
    <2> SUFFICES ASSUME StreamInvariant, got.mode # "none"
                 PROVE  /\ \A length \in 1 .. ByteBits :
                             Codes(file.bytes, got.from, length) /\ ~Rejected(length, got.mode) =>
                               /\ got.vint.coded_size = length
                               /\ got.vint.value = Coded(file.bytes, got.from, length)
                                    - IF got.mode = "rm_normal" THEN Marker(length) ELSE 0
                               /\ file.fp = got.from + length
                        /\ is_valid(got.vint) /\ got.vint.coded_size <= ByteBits =>
                             Codes(file.bytes, got.from, got.vint.coded_size)
      BY DEF ReadsWhatIsCoded
    <2>1. ASSUME NEW n \in 1 .. ByteBits,
                 Codes(file.bytes, got.from, n), ~Rejected(n, got.mode)
          PROVE  /\ got.vint.coded_size = n
                 /\ got.vint.value = Coded(file.bytes, got.from, n)
                      - IF got.mode = "rm_normal" THEN Marker(n) ELSE 0
                 /\ file.fp = got.from + n
      <3>1. ~Refused(Before, got.mode) /\ ReadLength(Before) = n
        BY <2>1, BeforeIs, CodesIsAccepted, LastReadIs
      <3>2. /\ got.vint = vint(Number(file.bytes, got.from, n) - CutOff(got.mode, n), n)
            /\ file.fp = got.from + n
        BY <3>1, LastReadIs
      <3>3. CutOff(got.mode, n) = IF got.mode = "rm_normal" THEN Marker(n) ELSE 0
        BY DEF CutOff, Marker
      <3> QED
        BY <3>2, <3>3, VintFields, CodedIs
    <2>2. ASSUME is_valid(got.vint), got.vint.coded_size <= ByteBits
          PROVE  Codes(file.bytes, got.from, got.vint.coded_size)
      <3>1. got.vint # NoVint
        BY <2>2 DEF is_valid, NoVint
      <3>2. ~Refused(Before, got.mode) /\ ReadLength(Before) \in 1 .. ByteBits + 1
        BY <3>1, LastReadIs
      <3>3. ReadLength(Before) # ByteBits + 1
        BY <2>2, <3>2, LastReadIs, ByteAssumption
      <3>4. PICK n \in 1 .. ByteBits : n = ReadLength(Before)
        BY <3>2, <3>3, ByteAssumption
      <3>5. /\ got.from + n <= Len(file.bytes)
            /\ Number(file.bytes, got.from, n) \in
                 Power2[(ByteBits - 1) * n] .. 2 * Power2[(ByteBits - 1) * n] - 1
            /\ got.vint = vint(Number(file.bytes, got.from, n) - CutOff(got.mode, n), n)
        BY <3>2, <3>4, LastReadIs
      <3>6. got.vint.coded_size = n
        BY <3>5, VintFields
      <3> QED
        BY <3>5, <3>6, CodedIs DEF Codes, Marker
    <2> QED
      BY <2>1, <2>2
  <1> QED
    BY <1>1, StreamCorrect, PTL

(* VintStream.OnlyOverlongIsNegative: an ID that is read is positive and   *)
(* fits in an EbmlId, and no size is negative that has a legal length.     *)
THEOREM NegativeOnlyOverlong == Spec => []OnlyOverlongIsNegative
  <1>1. StreamInvariant => OnlyOverlongIsNegative
    <2> SUFFICES ASSUME StreamInvariant PROVE OnlyOverlongIsNegative
      OBVIOUS
    <2>1. CASE got.vint = NoVint
      BY <2>1 DEF OnlyOverlongIsNegative, NoVint, is_valid
    <2>2. got.mode = "none" => got.vint = NoVint
      BY DEF StreamInvariant, LastRead
    <2>3. CASE got.mode # "none" /\ got.vint # NoVint
      <3>1. got.mode \in Mode /\ ~Refused(Before, got.mode)
        BY <2>3, LastReadIs
      <3>2. CASE ReadLength(Before) = ByteBits + 1
        <4>1. got.mode = "rm_normal" /\ got.vint.coded_size = ByteBits + 1
          BY <2>3, <3>1, <3>2, LastReadIs
        <4> QED
          BY <4>1 DEF OnlyOverlongIsNegative
      <3>3. CASE ReadLength(Before) \in 1 .. ByteBits
        <4>1. PICK n \in 1 .. ByteBits : n = ReadLength(Before)
          BY <3>3
        <4>2. PICK number \in Power2[(ByteBits - 1) * n] .. 2 * Power2[(ByteBits - 1) * n] - 1 :
                got.vint = vint(number - CutOff(got.mode, n), n)
          BY <2>3, <3>1, <4>1, LastReadIs
        <4>3. /\ number - CutOff(got.mode, n) \in 0 .. Power2[Word - 1] - 1
              /\ got.mode # "rm_normal" => number - CutOff(got.mode, n) > 0
          BY <3>1, ValueInWord
        <4>4. PICK half \in Nat : half = Power2[Word - 1]
          BY WordBits
        <4>5. PICK value \in Nat : /\ value = number - CutOff(got.mode, n)
                                   /\ got.mode # "rm_normal" => value > 0
          BY <4>3, <4>4
        <4>6. got.vint.value = value /\ got.vint.coded_size = n
          BY <4>2, <4>5, VintFields
        <4>7. got.mode = "rm_ebml_id" => n <= MaxIdLen
          BY <3>1, <4>1, VintAssumption, ByteAssumption DEF Refused, Rejected
        <4> QED
          BY <4>5, <4>6, <4>7 DEF OnlyOverlongIsNegative
      <3> QED
        BY <2>3, <3>1, <3>2, <3>3, LastReadIs, ByteAssumption
    <2> QED
      BY <2>1, <2>2, <2>3
  <1> QED
    BY <1>1, StreamCorrect, PTL

=============================================================================
