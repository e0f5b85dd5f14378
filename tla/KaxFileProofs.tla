--------------------------- MODULE KaxFileProofs ---------------------------
(***************************************************************************)
(* Theorems about the reader, for every file, every set of IDs and every   *)
(* width of a byte.  The first part depends on nothing that vint::read or  *)
(* FindNextElement answer; the second is what the reader makes of the      *)
(* bytes of a file, and rests on what a read gives (VintProofs).           *)
(***************************************************************************)
EXTENDS KaxFile, VintProofs

-----------------------------------------------------------------------------
(* Whatever is read.                                                       *)

(* The file pointer stays a position; a resync leaves its first IdBytes    *)
(* bytes behind unless the file ends first; what is returned, and what was *)
(* delivered, is what the caller wants.                                    *)
FileOK == file \in [open : BOOLEAN, bytes : Seq(Int), fp : Nat]

WindowBehindStart ==
  /\ resync_start_pos \in Nat
  /\ pc = "scan" => file.fp >= resync_start_pos + IdBytes \/ file.fp >= file_size

ReturnsWanted ==
  pc = "caller" /\ l1 # NoElement => Wanted(l1) /\ ~resynced

DeliveredWanted ==
  \E S : delivered \in Seq(S) /\ \A element \in S : Wanted(element)

ReaderInv == FileOK /\ WindowBehindStart /\ ReturnsWanted /\ DeliveredWanted

(* Bytes are numbers.                                                      *)
LEMMA BytesAreNumbers == Byte \subseteq Int
  BY DEF Byte

(* A sequence over a set is one over a larger set.                         *)
LEMMA SeqOfSubset ==
  ASSUME NEW S, NEW T, S \subseteq T, NEW seq \in Seq(S)
  PROVE  seq \in Seq(T)
  <1>1. \A i \in 1 .. Len(seq) : seq[i] \in T
    OBVIOUS
  <1> QED
    BY <1>1

(* Wherever setFilePointer is sent, the file is the same and the pointer a *)
(* position: the one asked for, when it is one.                            *)
LEMMA SeekEffect ==
  ASSUME FileOK, NEW offset
  PROVE  /\ setFilePointer(file, offset) \in [open : BOOLEAN, bytes : Seq(Int), fp : Nat]
         /\ setFilePointer(file, offset).open = file.open
         /\ setFilePointer(file, offset).bytes = file.bytes
         /\ offset \in Nat => setFilePointer(file, offset).fp = offset
  BY DEF FileOK, setFilePointer

(* A byte that is there moves the pointer on by one.                       *)
LEMMA ByteEffect ==
  ASSUME FileOK, file.fp < file_size, NEW byte \in read_uint8(file)
  PROVE  byte.file = [file EXCEPT !.fp = file.fp + 1]
  <1>1. file.fp < Len(file.bytes)
    BY DEF FileOK, get_size, file_size
  <1> QED
    BY <1>1 DEF read_uint8

(* Four bytes move it on by four, or to the end.                           *)
LEMMA WindowEffect ==
  ASSUME FileOK, NEW window \in read_uint32_be(file)
  PROVE  \E count \in Nat :
           /\ window.file = [file EXCEPT !.fp = file.fp + count]
           /\ count = IdBytes \/ file.fp + count >= Len(file.bytes)
  <1> DEFINE rest  == IF file.fp < Len(file.bytes) THEN Len(file.bytes) - file.fp ELSE 0
             count == IF rest < IdBytes THEN rest ELSE IdBytes
  <1>1. \E left \in [count + 1 .. IdBytes -> Byte] :
          window = [value |-> get_uint_be([i \in 1 .. IdBytes |->
                                IF i <= count THEN file.bytes[file.fp + i] ELSE left[i]],
                                IdBytes),
                    file  |-> [file EXCEPT !.fp = file.fp + count]]
    BY Zenon DEF read_uint32_be
  <1>2. \A value, f : window = [value |-> value, file |-> f] => window.file = f
    OBVIOUS
  <1>3. window.file = [file EXCEPT !.fp = file.fp + count]
    BY Zenon, <1>1, <1>2
  <1>4. file.fp \in Nat /\ Len(file.bytes) \in Nat /\ IdBytes \in Nat
    BY ByteAssumption DEF FileOK
  <1>5. count \in Nat /\ (count = IdBytes \/ file.fp + count >= Len(file.bytes))
    BY <1>4
  <1> QED
    BY <1>3, <1>5

(* At the beginning.                                                       *)
LEMMA InitReaderInv == Init => ReaderInv
  <1> SUFFICES ASSUME Init PROVE ReaderInv
    OBVIOUS
  <1>1. PICK content \in Contents : file = [open |-> TRUE, bytes |-> <<0>> \o content, fp |-> 1]
    BY DEF Init
  <1>2. content \in Seq(Int)
    <2>1. content \in Seq(Byte)
      BY IdsAssumption
    <2> QED
      BY <2>1, BytesAreNumbers, SeqOfSubset
  <1>3. FileOK
    BY <1>1, <1>2 DEF FileOK
  <1>4. delivered \in Seq({})
    BY DEF Init
  <1>5. \A element \in {} : Wanted(element)
    OBVIOUS
  <1>6. DeliveredWanted
    <2> SUFFICES \E S : delivered \in Seq(S) /\ \A element \in S : Wanted(element)
      BY DEF DeliveredWanted
    <2> WITNESS {}
    <2> QED
      BY <1>4, <1>5
  <1> QED
    BY <1>3, <1>6 DEF Init, ReaderInv, WindowBehindStart, ReturnsWanted

(* A call of read_next returns what was asked for, with the flag taken     *)
(* back, or goes on.                                                       *)
LEMMA ReadNextStep ==
  ASSUME ReaderInv, read_next_level1_element
  PROVE  ReaderInv'
  <1> USE DEF ReaderInv
  <1>1. pc = "read_next" /\ delivered' = delivered
    BY DEF read_next_level1_element
  <1>2. DeliveredWanted'
    BY <1>1 DEF DeliveredWanted, Wanted
  <1>3. CASE /\ Return(NoElement)
             /\ UNCHANGED <<file, kax>>
    BY <1>1, <1>2, <1>3 DEF Return, kax, FileOK, WindowBehindStart, ReturnsWanted
  <1>4. CASE ResetResync /\ \E id \in read_ebml_id(file), one \in read_one_element(file.fp) :
                              Proceed(id.vint, one)
    <2>1. PICK id \in read_ebml_id(file), one \in read_one_element(file.fp) :
            Proceed(id.vint, one)
      BY <1>4
    <2>2. resynced' = FALSE /\ resync_start_pos' = 0
      BY <1>4 DEF ResetResync
    <2>3. CASE Again("resync", file.fp)
      BY <2>2, <2>3, <1>2, SeekEffect
      DEF Again, FileOK, WindowBehindStart, ReturnsWanted
    <2>4. CASE Again("read_next", one.end)
      BY <2>2, <2>4, <1>2, SeekEffect
      DEF Again, FileOK, WindowBehindStart, ReturnsWanted
    <2>5. CASE /\ ReallyRead(one)
               /\ Return(one)
               /\ file' = setFilePointer(file, one.end)
      <3>1. pc' = "caller" /\ l1' = one /\ Wanted(one)
        BY <2>5 DEF Return, ReallyRead, Wanted
      <3>2. ReturnsWanted'
        BY <3>1, <2>2 DEF ReturnsWanted, Wanted
      <3> QED
        BY <3>1, <3>2, <2>2, <2>5, <1>2, SeekEffect DEF FileOK, WindowBehindStart
    <2> QED
      BY <2>1, <2>3, <2>4, <2>5 DEF Proceed
  <1> QED
    BY <1>3, <1>4 DEF read_next_level1_element

(* A resync remembers where it begins and reads four bytes from there.     *)
LEMMA ResyncStep ==
  ASSUME ReaderInv, resync_to_level1_element
  PROVE  ReaderInv'
  <1> USE DEF ReaderInv
  <1>1. pc = "resync" /\ delivered' = delivered
    BY DEF resync_to_level1_element
  <1>2. DeliveredWanted'
    BY <1>1 DEF DeliveredWanted, Wanted
  <1>3. CASE Return(NoElement) /\ UNCHANGED <<file, kax, actual_id>>
    BY <1>1, <1>2, <1>3 DEF Return, kax, FileOK, WindowBehindStart, ReturnsWanted
  <1>4. CASE /\ resync_start_pos' = file.fp
             /\ \E window \in read_uint32_be(file) :
                  actual_id' = window.value /\ file' = window.file
             /\ pc' = "scan"
    <2>1. PICK window \in read_uint32_be(file) : file' = window.file
      BY <1>4
    <2>2. PICK count \in Nat :
            /\ file' = [file EXCEPT !.fp = file.fp + count]
            /\ count = IdBytes \/ file.fp + count >= Len(file.bytes)
      BY <2>1, WindowEffect
    <2>3. FileOK'
      BY <2>2 DEF FileOK
    <2>4. file'.fp = file.fp + count /\ file'.bytes = file.bytes
      BY <2>2 DEF FileOK
    <2>5. WindowBehindStart'
      BY <2>2, <2>3, <2>4, <1>4, ByteAssumption
      DEF WindowBehindStart, FileOK, get_size, file_size
    <2> QED
      BY <2>3, <2>5, <1>2, <1>4 DEF ReturnsWanted
  <1> QED
    BY <1>3, <1>4 DEF resync_to_level1_element

(* Where the loop over the bytes can leave the pointer: one byte further,  *)
(* or at a candidate behind the start of the resync.                       *)
LEMMA ScanEffect ==
  ASSUME ReaderInv, ScanByte
  PROVE  \/ /\ pc' = "caller" /\ l1' = NoElement /\ UNCHANGED file
         \/ /\ file.fp < file_size
            /\ l1' = l1
            /\ file' \in [open : BOOLEAN, bytes : Seq(Int), fp : Nat]
            /\ \/ pc' = "scan" /\ file'.fp = file.fp + 1
               \/ pc' = "read_next" /\ file'.fp > resync_start_pos
  <1> USE DEF ReaderInv
  <1>1. CASE Return(NoElement) /\ UNCHANGED <<file, actual_id, accepted>>
    BY <1>1 DEF Return
  <1>2. ASSUME file.fp < file_size, UNCHANGED l1,
               NEW byte \in read_uint8(file),
               \/ file' = byte.file /\ UNCHANGED pc
               \/ /\ file' = setFilePointer(file, Candidate(byte.file))
                  /\ pc' = "read_next"
               \/ /\ \E chain : file' = setFilePointer(file,
                                          AfterRejected(chain, Candidate(byte.file)))
                  /\ UNCHANGED pc
        PROVE  /\ l1' = l1
               /\ file' \in [open : BOOLEAN, bytes : Seq(Int), fp : Nat]
               /\ \/ pc' = "scan" /\ file'.fp = file.fp + 1
                  \/ pc' = "read_next" /\ file'.fp > resync_start_pos
    <2>1. byte.file = [file EXCEPT !.fp = file.fp + 1]
      BY <1>2, ByteEffect
    <2>2. byte.file.fp = file.fp + 1 /\ file.fp \in Nat /\ resync_start_pos \in Nat
      BY <2>1 DEF FileOK, WindowBehindStart
    <2>3. pc = "scan" /\ file.fp >= resync_start_pos + IdBytes
      BY <1>2, <2>2, ByteAssumption
      DEF ScanByte, WindowBehindStart, FileOK, get_size, file_size
    <2>4. /\ Candidate(byte.file) = file.fp + 1 - IdBytes
          /\ Candidate(byte.file) \in Nat
          /\ Candidate(byte.file) > resync_start_pos
      BY <2>2, <2>3, ByteAssumption DEF Candidate
    <2>5. \A chain : AfterRejected(chain, Candidate(byte.file)) = file.fp + 1
      BY <2>2, <2>4, ByteAssumption DEF AfterRejected
    <2>6. CASE file' = byte.file /\ UNCHANGED pc
      BY <1>2, <2>1, <2>2, <2>3, <2>6 DEF FileOK
    <2>7. CASE file' = setFilePointer(file, Candidate(byte.file)) /\ pc' = "read_next"
      BY <1>2, <2>4, <2>7, SeekEffect
    <2>8. CASE /\ \E chain : file' = setFilePointer(file,
                                       AfterRejected(chain, Candidate(byte.file)))
               /\ UNCHANGED pc
      BY <1>2, <2>2, <2>3, <2>5, <2>8, SeekEffect
    <2> QED
      BY <1>2, <2>6, <2>7, <2>8
  <1>3. CASE /\ file.fp < file_size
             /\ UNCHANGED l1
             /\ \E byte \in read_uint8(file) :
                  \/ file' = byte.file /\ UNCHANGED pc
                  \/ /\ file' = setFilePointer(file, Candidate(byte.file))
                     /\ pc' = "read_next"
                  \/ /\ \E chain : file' = setFilePointer(file,
                                             AfterRejected(chain, Candidate(byte.file)))
                     /\ UNCHANGED pc
    BY <1>2, <1>3
  <1>4. \/ Return(NoElement) /\ UNCHANGED <<file, actual_id, accepted>>
        \/ /\ file.fp < file_size
           /\ UNCHANGED l1
           /\ \E byte \in read_uint8(file) :
                \/ file' = byte.file /\ UNCHANGED pc
                \/ /\ file' = setFilePointer(file, Candidate(byte.file))
                   /\ pc' = "read_next"
                \/ /\ \E chain : file' = setFilePointer(file,
                                           AfterRejected(chain, Candidate(byte.file)))
                   /\ UNCHANGED pc
    BY DEF ScanByte
  <1> QED
    BY <1>1, <1>3, <1>4

(* A turn of that loop.                                                    *)
LEMMA ScanStep ==
  ASSUME ReaderInv, ScanByte
  PROVE  ReaderInv'
  <1> USE DEF ReaderInv
  <1>1. pc = "scan" /\ resync_start_pos' = resync_start_pos /\ delivered' = delivered
    BY DEF ScanByte, kax
  <1>2. DeliveredWanted'
    BY <1>1 DEF DeliveredWanted, Wanted
  <1>3. FileOK'
    BY ScanEffect DEF FileOK
  <1>4. WindowBehindStart'
    <2>1. CASE pc' = "caller" \/ pc' = "read_next"
      BY <1>1, <2>1 DEF WindowBehindStart
    <2>2. CASE file.fp < file_size /\ pc' = "scan" /\ file'.fp = file.fp + 1
      <3>1. file.fp >= resync_start_pos + IdBytes
        BY <1>1, <2>2 DEF WindowBehindStart, FileOK, get_size, file_size
      <3> QED
        BY <1>1, <2>2, <3>1, ByteAssumption DEF WindowBehindStart, FileOK
    <2> QED
      BY <2>1, <2>2, ScanEffect
  <1>5. ReturnsWanted'
    BY ScanEffect DEF ReturnsWanted
  <1> QED
    BY <1>2, <1>3, <1>4, <1>5

(* The caller keeps what it was given.                                     *)
LEMMA CallerStep ==
  ASSUME ReaderInv, handle_segment
  PROVE  ReaderInv'
  <1> USE DEF ReaderInv
  <1>1. /\ pc = "caller" /\ pc' \notin {"caller", "scan"}
        /\ resync_start_pos' = resync_start_pos
    BY IdsAssumption DEF handle_segment, kax
  <1>2. FileOK'
    BY SeekEffect DEF handle_segment, FileOK, setFilePointer2
  <1>3. DeliveredWanted'
    <2>1. PICK S : delivered \in Seq(S) /\ \A element \in S : Wanted(element)
      BY DEF DeliveredWanted
    <2>2. CASE delivered' = delivered
      BY <2>2 DEF DeliveredWanted, Wanted
    <2>3. CASE delivered' = Append(delivered, l1) /\ l1 # NoElement
      <3>1. Wanted(l1)
        BY <1>1, <2>3 DEF ReturnsWanted
      <3>2. Append(delivered, l1) \in Seq(S \cup {l1})
        BY <2>1
      <3>3. \A element \in S \cup {l1} : Wanted(element)
        BY <2>1, <3>1
      <3> QED
        BY <2>3, <3>2, <3>3 DEF DeliveredWanted, Wanted
    <2> QED
      BY <2>2, <2>3 DEF handle_segment
  <1> QED
    BY <1>1, <1>2, <1>3 DEF WindowBehindStart, ReturnsWanted

(* Every step preserves the invariant.                                     *)
LEMMA NextReaderInv == ReaderInv /\ [Next]_vars => ReaderInv'
  <1> SUFFICES ASSUME ReaderInv, [Next]_vars PROVE ReaderInv'
    OBVIOUS
  <1>1. CASE set_segment_end
    <2>1. pc' \notin {"caller", "scan"} /\ UNCHANGED <<file, resync_start_pos, delivered>>
      BY <1>1, IdsAssumption DEF set_segment_end
    <2> QED
      BY <2>1 DEF ReaderInv, FileOK, WindowBehindStart, ReturnsWanted, DeliveredWanted, Wanted
  <1>2. CASE read_next_level1_element
    BY <1>2, ReadNextStep
  <1>3. CASE resync_to_level1_element
    BY <1>3, ResyncStep
  <1>4. CASE ScanByte
    BY <1>4, ScanStep
  <1>5. CASE handle_segment
    BY <1>5, CallerStep
  <1>6. CASE UNCHANGED vars
    BY <1>6 DEF vars, kax, ReaderInv, FileOK, WindowBehindStart, ReturnsWanted,
                DeliveredWanted, Wanted, get_size, file_size
  <1> QED
    BY <1>1, <1>2, <1>3, <1>4, <1>5, <1>6 DEF Next

(* The invariant of the reader.                                            *)
THEOREM ReaderInvariance == Spec => []ReaderInv
  BY InitReaderInv, NextReaderInv, PTL DEF Spec

(* The call that reads the element a resync has found takes was_resynced() *)
(* back: the flag is up only when the caller gets nothing.                 *)
THEOREM ResyncLeavesFlagOnFailure == Spec => []ResyncedMeansNothingFound
  <1>1. ReaderInv => ResyncedMeansNothingFound
    BY DEF ReaderInv, ReturnsWanted, ResyncedMeansNothingFound
  <1> QED
    BY <1>1, ReaderInvariance, PTL

(* Who asks for one kind of element gets no other, whatever libebml finds  *)
(* behind the ID that was looked at.                                       *)
THEOREM OnlyWanted == Spec => []DeliversWanted
  <1>1. ReaderInv => DeliversWanted
    <2> SUFFICES ASSUME ReaderInv, NEW i \in DOMAIN delivered PROVE Wanted(delivered[i])
      BY DEF DeliversWanted
    <2>1. PICK S : delivered \in Seq(S) /\ \A element \in S : Wanted(element)
      BY DEF ReaderInv, DeliveredWanted
    <2>2. delivered[i] \in S
      BY <2>1
    <2> QED
      BY <2>1, <2>2
  <1> QED
    BY <1>1, ReaderInvariance, PTL

(* The call a resync ends in begins behind the place the resync began at,  *)
(* so calls nest no deeper than the file has bytes.                        *)
THEOREM ResyncProgress == Spec => ResyncMovesOn
  <1>1. ReaderInv /\ [Next]_vars =>
          [pc = "scan" /\ pc' = "read_next" => file'.fp > resync_start_pos]_vars
    <2> SUFFICES ASSUME ReaderInv, Next, pc = "scan", pc' = "read_next"
                 PROVE  file'.fp > resync_start_pos
      OBVIOUS
    <2>1. ScanByte
      BY DEF Next, set_segment_end, read_next_level1_element, resync_to_level1_element,
             handle_segment
    <2> QED
      BY <2>1, ScanEffect
  <1> QED
    BY <1>1, ReaderInvariance, PTL DEF Spec, ResyncMovesOn

-----------------------------------------------------------------------------
(* The integer at a position.                                              *)

(* What a vint that was read is, where it stands.                          *)
IsReadAt(v, f, pos, mode) ==
  /\ v.is_set
  /\ v.coded_size \in 1 .. ByteBits + 1
  /\ v.value \in Int
  /\ v.value < Power2[Word - 1]
  /\ pos + v.coded_size <= Len(f.bytes)
  /\ v.coded_size <= ByteBits =>
       /\ v.value \in Nat
       /\ v.value = Number(f.bytes, pos, v.coded_size) - CutOff(mode, v.coded_size)
       /\ Number(f.bytes, pos, v.coded_size) \in
            Power2[(ByteBits - 1) * v.coded_size] .. 2 * Power2[(ByteBits - 1) * v.coded_size] - 1
  /\ mode = "rm_ebml_id" => v.coded_size <= MaxIdLen /\ v.value > 0

(* A read at a position has one outcome.                                   *)
LEMMA ReadAt ==
  ASSUME NEW f \in File, f.open, NEW pos \in Nat, f.fp = pos, NEW mode \in Mode
  PROVE  \E v, g : /\ read(f, mode) = {[vint |-> v, file |-> g]}
                   /\ g \in File /\ g.open = f.open /\ g.bytes = f.bytes
                   /\ \/ v = NoVint
                      \/ IsReadAt(v, f, pos, mode) /\ g.fp = pos + v.coded_size
  <1>0. f.bytes \in Seq(Byte) /\ Len(f.bytes) \in Nat /\ get_size(f) = Len(f.bytes)
    BY DEF File, get_size
  <1>1. CASE Refused(f, mode)
    <2>1. PICK g : /\ \/ g = f
                      \/ f.fp < get_size(f) /\ g = MovedOn(f, 1)
                   /\ read(f, mode) = {[vint |-> NoVint, file |-> g]}
      BY <1>1, ReadRefused
    <2>2. MovedOn(f, 1) \in File /\ MovedOn(f, 1).open = f.open /\ MovedOn(f, 1).bytes = f.bytes
      <3>1. 1 \in Nat
        OBVIOUS
      <3> QED
        BY <3>1, MovedOnIs
    <2>3. g \in File /\ g.open = f.open /\ g.bytes = f.bytes
      BY <2>1, <2>2
    <2> QED
      BY <2>1, <2>3
  <1>2. CASE ~Refused(f, mode) /\ ReadLength(f) \in 1 .. ByteBits
    <2>1. PICK n \in 1 .. ByteBits : n = ReadLength(f)
      BY <1>2
    <2>2. PICK number : number = Number(f.bytes, pos, n)
      OBVIOUS
    <2>3. /\ number \in Power2[(ByteBits - 1) * n] .. 2 * Power2[(ByteBits - 1) * n] - 1
          /\ read(f, mode) = {[vint |-> vint(number - CutOff(mode, n), n),
                               file |-> MovedOn(f, n)]}
      BY <1>2, <2>1, <2>2, ReadCoded
    <2>4. PICK half \in Nat : half = Power2[Word - 1]
      BY WordBits
    <2>5. /\ number - CutOff(mode, n) \in 0 .. half - 1
          /\ mode # "rm_normal" => number - CutOff(mode, n) > 0
      BY <2>3, <2>4, ValueInWord
    <2>6. PICK value \in Nat : /\ value = number - CutOff(mode, n) /\ value < half
                               /\ mode # "rm_normal" => value > 0
      BY <2>5
    <2>7. PICK v : v = vint(value, n)
      OBVIOUS
    <2>8. v.value = value /\ v.coded_size = n /\ v.is_set
      BY <2>7, VintFields
    <2>9. PICK g : g = MovedOn(f, n)
      OBVIOUS
    <2>10. g \in File /\ g.open = f.open /\ g.bytes = f.bytes /\ g.fp = f.fp + n
      <3>1. n \in Nat
        OBVIOUS
      <3> QED
        BY <2>9, <3>1, MovedOnIs
    <2>11. f.fp + n <= Len(f.bytes)
      BY <1>2, <2>1, ReadAccepted
    <2>12. mode = "rm_ebml_id" => n <= MaxIdLen
      BY <1>2, <2>1, VintAssumption, ByteAssumption DEF Refused, Rejected
    <2>13. read(f, mode) = {[vint |-> v, file |-> g]}
      BY <2>3, <2>6, <2>7, <2>9
    <2>14. IsReadAt(v, f, pos, mode)
      <3>1. n \in 1 .. ByteBits + 1 /\ pos + n <= Len(f.bytes)
        BY <2>11, ByteAssumption
      <3>2. v.value \in Int /\ v.value < half /\ v.value \in Nat
        BY <2>6, <2>8
      <3>3. mode = "rm_ebml_id" => n <= MaxIdLen /\ v.value > 0
        BY <2>6, <2>8, <2>12
      <3> QED
        BY <2>2, <2>3, <2>4, <2>6, <2>8, <3>1, <3>2, <3>3 DEF IsReadAt
    <2> QED
      BY <2>8, <2>10, <2>13, <2>14
  <1>3. CASE ~Refused(f, mode) /\ ReadLength(f) = ByteBits + 1
    <2>1. /\ mode = "rm_normal"
          /\ \E value \in -Power2[Word - 1] .. Power2[Word - 1] - 1 :
               read(f, mode) = {[vint |-> vint(value, ByteBits + 1),
                                 file |-> MovedOn(f, ByteBits + 1)]}
      BY <1>3, ReadOverlong
    <2>2. PICK n \in Nat : n = ByteBits + 1 /\ n \in 1 .. ByteBits + 1 /\ ~(n <= ByteBits)
      BY ByteAssumption
    <2>3. PICK half \in Nat : half = Power2[Word - 1]
      BY WordBits
    <2>4. PICK value \in -half .. half - 1 :
            read(f, mode) = {[vint |-> vint(value, n), file |-> MovedOn(f, n)]}
      BY <2>1, <2>2, <2>3
    <2>5. PICK v : v = vint(value, n)
      OBVIOUS
    <2>6. v.value = value /\ v.coded_size = n /\ v.is_set
      BY <2>5, VintFields
    <2>7. PICK g : g = MovedOn(f, n)
      OBVIOUS
    <2>8. g \in File /\ g.open = f.open /\ g.bytes = f.bytes /\ g.fp = f.fp + n
      BY <2>7, MovedOnIs
    <2>9. f.fp + n <= Len(f.bytes)
      BY <1>3, <2>2, ReadAccepted
    <2>10. read(f, mode) = {[vint |-> v, file |-> g]}
      BY <2>4, <2>5, <2>7
    <2>11. IsReadAt(v, f, pos, mode)
      <3>1. mode # "rm_ebml_id"
        BY <2>1
      <3>2. v.value \in Int /\ v.value < half
        BY <2>6
      <3> QED
        BY <2>2, <2>3, <2>6, <2>9, <3>1, <3>2 DEF IsReadAt
    <2> QED
      BY <2>6, <2>8, <2>10, <2>11
  <1>4. ~Refused(f, mode) => ReadLength(f) \in 1 .. ByteBits + 1
    BY ReadAccepted
  <1>5. \A n \in 1 .. ByteBits + 1 : n \in 1 .. ByteBits \/ n = ByteBits + 1
    BY ByteAssumption
  <1> QED
    BY <1>1, <1>2, <1>3, <1>4, <1>5, Zenon

(* That outcome is what the reader looks at.                               *)
LEMMA VintAtIs ==
  ASSUME NEW f \in File, f.open, NEW pos \in Nat, NEW mode \in Mode
  PROVE  /\ \E g : /\ read([f EXCEPT !.fp = pos], mode) = {[vint |-> VintAt(f, pos, mode), file |-> g]}
                   /\ g \in File /\ g.open = f.open /\ g.bytes = f.bytes
                   /\ \/ VintAt(f, pos, mode) = NoVint
                      \/ g.fp = pos + VintAt(f, pos, mode).coded_size
         /\ \/ VintAt(f, pos, mode) = NoVint
            \/ IsReadAt(VintAt(f, pos, mode), f, pos, mode)
  <1>1. PICK h : h = [f EXCEPT !.fp = pos]
    OBVIOUS
  <1>2. h \in File /\ h.open /\ h.fp = pos /\ h.bytes = f.bytes /\ h.open = f.open
    BY <1>1 DEF File
  <1>3. PICK v, g : /\ read(h, mode) = {[vint |-> v, file |-> g]}
                    /\ g \in File /\ g.open = h.open /\ g.bytes = h.bytes
                    /\ \/ v = NoVint
                       \/ IsReadAt(v, h, pos, mode) /\ g.fp = pos + v.coded_size
    BY <1>2, ReadAt, ZenonT(30)
  <1>4. VintAt(f, pos, mode) = v
    <2>1. setFilePointer(f, pos) = h
      BY <1>1 DEF setFilePointer
    <2>2. PICK x : x = [vint |-> v, file |-> g]
      OBVIOUS
    <2>a. read(h, mode) = {x}
      BY <1>3, <2>2
    <2>3. (CHOOSE outcome \in read(h, mode) : TRUE) = x
      BY <2>a
    <2>4. x.vint = v
      BY <2>2
    <2> QED
      BY <2>1, <2>3, <2>4 DEF VintAt
  <1>5. IsReadAt(v, h, pos, mode) => IsReadAt(v, f, pos, mode)
    BY <1>2 DEF IsReadAt
  <1> QED
    BY <1>1, <1>2, <1>3, <1>4, <1>5

-----------------------------------------------------------------------------
(* The header at a position.                                               *)

(* A header is made of the two integers that stand there.                  *)
LEMMA HeaderIs ==
  ASSUME NEW f, NEW pos, NEW id, id = VintAt(f, pos, "rm_ebml_id"),
         NEW size, size = VintAt(f, pos + id.coded_size, "rm_normal")
  PROVE  Header(f, pos) = HeaderOf(pos, id, size)
  <1>1. PICK header : header = HeaderOf(pos, id, size)
    OBVIOUS
  <1>2. UNION {{HeaderOf(pos, i, s) : s \in {VintAt(f, pos + i.coded_size, "rm_normal")}}
                 : i \in {VintAt(f, pos, "rm_ebml_id")}} = {header}
    <2>1. {{HeaderOf(pos, i, s) : s \in {VintAt(f, pos + i.coded_size, "rm_normal")}}
             : i \in {VintAt(f, pos, "rm_ebml_id")}} = {{header}}
      <3>1. \A i : {HeaderOf(pos, i, s) : s \in {VintAt(f, pos + i.coded_size, "rm_normal")}}
                     = {HeaderOf(pos, i, VintAt(f, pos + i.coded_size, "rm_normal"))}
        OBVIOUS
      <3> QED
        BY <1>1, <3>1
    <2> QED
      BY <2>1
  <1> QED
    BY <1>1, <1>2 DEF Header

(* What a header that decodes is.                                          *)
DecodesAs(f, pos, header) ==
  /\ header.pos = pos
  /\ header.id \in Nat \ {0}
  /\ header.id = VintAt(f, pos, "rm_ebml_id").value
  /\ header.id_size \in Nat \ {0}
  /\ header.size \in Nat
  /\ header.content \in Nat
  /\ header.content > pos + header.id_size
  /\ header.content <= get_size(f)
  /\ header.unknown \in BOOLEAN
  /\ header.unknown =>
       \E n \in 1 .. ByteBits :
         /\ header.content = pos + header.id_size + n
         /\ Number(f.bytes, pos + header.id_size, n) = 2 * Power2[(ByteBits - 1) * n] - 1

(* Every header that decodes is such a one.                                *)
LEMMA HeaderDecodes ==
  ASSUME NEW f \in File, f.open, NEW pos \in Nat, Header(f, pos).decodes
  PROVE  DecodesAs(f, pos, Header(f, pos))
  <1>1. PICK id : id = VintAt(f, pos, "rm_ebml_id")
    OBVIOUS
  <1>2. PICK size : size = VintAt(f, pos + id.coded_size, "rm_normal")
    OBVIOUS
  <1>3. PICK h : h = Header(f, pos) /\ h = HeaderOf(pos, id, size)
    BY <1>1, <1>2, HeaderIs
  <1>4. h.decodes
    BY <1>3
  <1>5. /\ is_valid(id) /\ is_valid(size)
        /\ size.coded_size <= ByteBits
    BY <1>3, <1>4 DEF HeaderOf
  <1>6. ~is_valid(NoVint)
    BY DEF is_valid, NoVint
  <1>7. id # NoVint /\ size # NoVint
    BY <1>5, <1>6
  <1>8. IsReadAt(id, f, pos, "rm_ebml_id")
    BY <1>1, <1>7, VintAtIs DEF Mode
  <1>9. id.coded_size \in Nat \ {0} /\ id.value \in Nat \ {0}
    <2>1. /\ id.coded_size \in 1 .. ByteBits + 1 /\ id.coded_size <= MaxIdLen
          /\ id.value \in Int /\ id.value > 0
      BY <1>8 DEF IsReadAt
    <2> QED
      BY <2>1, ByteAssumption
  <1>10. PICK at \in Nat : at = pos + id.coded_size
    BY <1>9
  <1>11. IsReadAt(size, f, at, "rm_normal")
    BY <1>2, <1>7, <1>10, VintAtIs DEF Mode
  <1>12. PICK n \in 1 .. ByteBits : n = size.coded_size
    BY <1>5, <1>11, ByteAssumption DEF IsReadAt
  <1>13. /\ size.value \in Nat
         /\ size.value = Number(f.bytes, at, n) - CutOff("rm_normal", n)
         /\ Number(f.bytes, at, n) \in
              Power2[(ByteBits - 1) * n] .. 2 * Power2[(ByteBits - 1) * n] - 1
         /\ at + n <= Len(f.bytes)
    <2>1. n <= ByteBits
      BY ByteAssumption
    <2> QED
      BY <1>11, <1>12, <2>1 DEF IsReadAt
  <1>14. is_unknown(size) => Number(f.bytes, at, n) = 2 * Power2[(ByteBits - 1) * n] - 1
    <2> HAVE is_unknown(size)
    <2>1. PICK marker \in Nat : marker = Power2[(ByteBits - 1) * n]
      BY VintBits
    <2>2. PICK number \in Nat : number = Number(f.bytes, at, n)
      BY <1>13, <2>1
    <2>3. size.value = marker - 1
      BY <1>5, <1>12, <2>1 DEF is_unknown
    <2>4. size.value = number - marker
      BY <1>13, <2>1, <2>2 DEF CutOff
    <2> QED
      BY <2>1, <2>2, <2>3, <2>4
  <1>15. h.content = at + n /\ h.id_size = id.coded_size /\ h.pos = pos /\ h.id = id.value
         /\ h.size = size.value /\ h.unknown = is_unknown(size)
    BY <1>3, <1>10, <1>12 DEF HeaderOf
  <1>16. get_size(f) = Len(f.bytes)
    BY DEF get_size
  <1>17. is_unknown(size) \in BOOLEAN
    BY DEF is_unknown
  <1>18. h.content \in Nat /\ h.content > pos + h.id_size /\ h.content <= get_size(f)
    BY <1>9, <1>10, <1>13, <1>15, <1>16, SMTT(30)
  <1>19. h.unknown => /\ h.content = pos + h.id_size + n
                      /\ Number(f.bytes, pos + h.id_size, n) = 2 * Power2[(ByteBits - 1) * n] - 1
    BY <1>10, <1>14, <1>15
  <1>20. DecodesAs(f, pos, h)
    BY <1>1, <1>9, <1>13, <1>15, <1>17, <1>18, <1>19 DEF DecodesAs
  <1> QED
    BY <1>3, <1>20

-----------------------------------------------------------------------------
(* Where the children of a master of unknown size end.                     *)
IsChild(f, p) ==
  /\ Header(f, p).decodes
  /\ ~is_level1_element_id(Header(f, p).id)
  /\ Header(f, p).content + Header(f, p).size <= get_size(f)

BehindHeader(f, p) == Header(f, p).content + Header(f, p).size

(* A child ends behind where it begins, inside the file.                   *)
LEMMA ChildMovesOn ==
  ASSUME NEW f \in File, f.open, NEW p \in 0 .. get_size(f), IsChild(f, p)
  PROVE  BehindHeader(f, p) \in p + 1 .. get_size(f)
  <1>1. p \in Nat /\ get_size(f) \in Nat
    BY DEF File, get_size
  <1>2. DecodesAs(f, p, Header(f, p))
    BY <1>1, HeaderDecodes DEF IsChild
  <1>3. PICK h : h = Header(f, p)
    OBVIOUS
  <1>4. h.content \in Nat /\ h.size \in Nat /\ h.id_size \in Nat /\ h.content > p + h.id_size
    BY <1>2, <1>3 DEF DecodesAs
  <1>5. h.content + h.size <= get_size(f)
    BY <1>3 DEF IsChild
  <1> QED
    BY <1>1, <1>3, <1>4, <1>5 DEF BehindHeader

(* The recursive function of ChildrenEnd does what its definition says.    *)
LEMMA ChildrenEndEquation ==
  ASSUME NEW f \in File, f.open, NEW content \in 0 .. get_size(f)
  PROVE  ChildrenEnd(f, content) =
           IF IsChild(f, content) THEN ChildrenEnd(f, BehindHeader(f, content)) ELSE content
  <1>1. PICK n \in Nat : n = get_size(f)
    BY DEF File, get_size
  <1> DEFINE D == 0 .. n
             rank == [p \in D |-> n - p]
             step == [p \in D |-> [g \in [D -> D] |->
                        IF IsChild(f, p) THEN g[BehindHeader(f, p)] ELSE p]]
             Solves(g) == g = [p \in D |-> IF IsChild(f, p) THEN g[BehindHeader(f, p)] ELSE p]
             end == CHOOSE g : Solves(g)
  <1>2. \A p \in D : IsChild(f, p) => BehindHeader(f, p) \in D /\ BehindHeader(f, p) > p
    <2> TAKE p \in D
    <2> HAVE IsChild(f, p)
    <2>1. BehindHeader(f, p) \in p + 1 .. get_size(f)
      BY <1>1, ChildMovesOn
    <2> QED
      BY <1>1, <2>1
  <1>3. LooksLower(D, D, rank, step)
    <2>1. rank \in [D -> Nat]
      OBVIOUS
    <2>2. step \in [D -> [[D -> D] -> D]]
      BY <1>2
    <2>3. ASSUME NEW d \in D, NEW g \in [D -> D], NEW h \in [D -> D],
                 \A e \in D : rank[e] < rank[d] => g[e] = h[e]
          PROVE  step[d][g] = step[d][h]
      <3>1. IsChild(f, d) => rank[BehindHeader(f, d)] < rank[d]
        BY <1>2
      <3> QED
        BY <1>2, <2>3, <3>1
    <2> QED
      BY <2>1, <2>2, <2>3 DEF LooksLower
  <1>4. \E g : Solves(g)
    <2>1. PICK g \in [D -> D] : \A d \in D : g[d] = step[d][g]
      <3>1. PICK E : E = D
        OBVIOUS
      <3>a. D # {}
        OBVIOUS
      <3> HIDE DEF rank, step, D
      <3>2. LooksLower(E, E, rank, step) /\ E # {}
        BY <1>3, <3>1, <3>a
      <3>3. \E g \in [E -> E] : \A d \in E : g[d] = step[d][g]
        BY <3>2, RecursionByRank
      <3> QED
        BY <3>1, <3>3
    <2>2. Solves(g)
      BY <2>1
    <2> QED
      BY <2>2
  <1>5. Solves(end)
    <2> HIDE DEF Solves
    <2> QED
      BY <1>4
  <1>6. \A c : ChildrenEnd(f, c) = end[c]
    BY <1>1 DEF ChildrenEnd, IsChild, BehindHeader
  <1> HIDE DEF end
  <1>7. \A p \in D : end[p] = IF IsChild(f, p) THEN end[BehindHeader(f, p)] ELSE p
    BY <1>5
  <1>8. content \in D
    BY <1>1
  <1> QED
    BY <1>6, <1>7, <1>8

(* The children end behind where they begin, inside the file.              *)
LEMMA ChildrenEndIs ==
  ASSUME NEW f \in File, f.open, NEW content \in 0 .. get_size(f)
  PROVE  ChildrenEnd(f, content) \in content .. get_size(f)
  <1>1. PICK n \in Nat : n = get_size(f)
    BY DEF File, get_size
  <1> DEFINE S == {k \in Nat : \A p \in 0 .. n : n - p <= k => ChildrenEnd(f, p) \in p .. n}
  <1>2. \A p \in 0 .. n : IsChild(f, p) => BehindHeader(f, p) \in 0 .. n /\ BehindHeader(f, p) > p
    <2> TAKE p \in 0 .. n
    <2> HAVE IsChild(f, p)
    <2>1. BehindHeader(f, p) \in p + 1 .. get_size(f)
      BY <1>1, ChildMovesOn
    <2> QED
      BY <1>1, <2>1
  <1>3. \A p \in 0 .. n : ChildrenEnd(f, p) =
          IF IsChild(f, p) THEN ChildrenEnd(f, BehindHeader(f, p)) ELSE p
    BY <1>1, ChildrenEndEquation
  <1>4. 0 \in S
    <2>1. ASSUME NEW p \in 0 .. n, n - p <= 0 PROVE ChildrenEnd(f, p) \in p .. n
      <3>1. p = n
        BY <2>1
      <3>2. ~IsChild(f, p)
        BY <1>2, <3>1
      <3> QED
        BY <1>3, <3>1, <3>2
    <2> QED
      BY <2>1
  <1>5. \A k \in Nat : k \in S => k + 1 \in S
    <2>1. ASSUME NEW k \in Nat, k \in S, NEW p \in 0 .. n, n - p <= k + 1
          PROVE  ChildrenEnd(f, p) \in p .. n
      <3>1. CASE ~IsChild(f, p)
        BY <1>3, <3>1
      <3>2. CASE IsChild(f, p)
        <4>1. PICK q \in 0 .. n : q = BehindHeader(f, p) /\ q > p
          BY <1>2, <3>2
        <4>2. ChildrenEnd(f, q) \in q .. n
          BY <2>1, <4>1
        <4> QED
          BY <1>3, <3>2, <4>1, <4>2
      <3> QED
        BY <3>1, <3>2
    <2> QED
      BY <2>1
  <1>6. Nat \subseteq S
    <2> HIDE DEF S
    <2> QED
      BY <1>4, <1>5, Induction
  <1>7. content \in 0 .. n /\ n - content \in Nat
    BY <1>1
  <1> QED
    BY <1>1, <1>6, <1>7

-----------------------------------------------------------------------------
(* The element at a position.                                              *)

(* A master of unknown size without children counts without its size       *)
(* field, so what comes next seems to begin there.                         *)
AtSizeField(f, pos, fp) ==
  /\ Header(f, pos).decodes
  /\ Header(f, pos).unknown
  /\ fp = pos + Header(f, pos).id_size
  /\ EndOf(f, Header(f, pos)) = Header(f, pos).content

IsElementAt(f, pos, element) ==
  /\ element = Element(f, Header(f, pos))
  /\ Header(f, pos).decodes
  /\ element \in [pos : Nat, id : Nat, end : Nat]
  /\ element.pos = pos
  /\ element.id # 0
  /\ element.id = Header(f, pos).id
  /\ element.end > pos
  /\ EndOf(f, Header(f, pos)) = element.end \/ AtSizeField(f, pos, element.end)
  /\ ~Header(f, pos).unknown => element.end = Header(f, pos).content + Header(f, pos).size

(* The element of a header that decodes begins there and ends behind it.   *)
LEMMA ElementIs ==
  ASSUME NEW f \in File, f.open, NEW pos \in Nat, Header(f, pos).decodes
  PROVE  IsElementAt(f, pos, Element(f, Header(f, pos)))
  <1>1. PICK h : h = Header(f, pos)
    OBVIOUS
  <1>2. h.decodes /\ DecodesAs(f, pos, h)
    BY <1>1, HeaderDecodes
  <1>3. /\ h.pos = pos /\ h.id \in Nat \ {0} /\ h.id_size \in Nat \ {0} /\ h.size \in Nat
        /\ h.content \in Nat /\ h.content > pos + h.id_size /\ h.content <= get_size(f)
    BY <1>2 DEF DecodesAs
  <1>4. PICK size : size = get_element_size(f, h)
    OBVIOUS
  <1>5. PICK e : e = [pos |-> pos, id |-> h.id, end |-> pos + size] /\ e = Element(f, h)
    BY <1>3, <1>4 DEF Element
  <1>6. e.pos = pos /\ e.id = h.id /\ e.end = pos + size
    BY <1>5
  <1>7. /\ size \in Nat \ {0}
        /\ EndOf(f, h) = pos + size \/ (h.unknown /\ size = h.id_size /\ EndOf(f, h) = h.content)
        /\ ~h.unknown => pos + size = h.content + h.size
    <2>1. CASE ~h.unknown
      <3>1. size = (h.content - pos) + h.size
        BY <1>3, <1>4, <2>1 DEF get_element_size
      <3>2. EndOf(f, h) = h.content + h.size
        BY <2>1 DEF EndOf
      <3> QED
        BY <1>3, <2>1, <3>1, <3>2
    <2>2. CASE h.unknown
      <3>1. PICK end : end = ChildrenEnd(f, h.content)
        OBVIOUS
      <3>2. PICK n \in Nat : n = get_size(f)
        BY DEF File, get_size
      <3>3. h.content \in 0 .. get_size(f)
        BY <1>3, <3>2
      <3>4. end \in h.content .. get_size(f)
        BY <3>1, <3>3, ChildrenEndIs
      <3>5. EndOf(f, h) = end
        BY <2>2, <3>1 DEF EndOf
      <3>6. size = IF end > h.content THEN end - pos ELSE h.id_size
        BY <1>3, <1>4, <2>2, <3>1 DEF get_element_size
      <3> QED
        BY <1>3, <2>2, <3>2, <3>4, <3>5, <3>6
    <2> QED
      BY <2>1, <2>2
  <1>8. e \in [pos : Nat, id : Nat, end : Nat] /\ e.end > pos
    BY <1>3, <1>5, <1>6, <1>7
  <1>9. EndOf(f, h) = e.end \/ AtSizeField(f, pos, e.end)
    BY <1>1, <1>2, <1>6, <1>7 DEF AtSizeField
  <1>10. IsElementAt(f, pos, e)
    BY <1>1, <1>2, <1>3, <1>5, <1>6, <1>7, <1>8, <1>9 DEF IsElementAt
  <1> QED
    BY <1>1, <1>5, <1>10

(* libebml finds the first header that decodes, however far behind.        *)
LEMMA FindsFirst ==
  ASSUME NEW f \in File, f.open, NEW fp \in Nat
  PROVE  \/ /\ FindNextElement(f, fp) = NoElement
            /\ \A pos \in fp .. get_size(f) - 1 : ~Header(f, pos).decodes
         \/ \E pos \in fp .. get_size(f) - 1 :
              /\ IsElementAt(f, pos, FindNextElement(f, fp))
              /\ \A before \in fp .. pos - 1 : ~Header(f, before).decodes
  <1>1. PICK n \in Nat : n = get_size(f)
    BY DEF File, get_size
  <1> DEFINE headers == {h \in {Header(f, pos) : pos \in fp .. n - 1} : h.decodes}
             first   == {h \in headers : \A other \in headers : h.pos <= other.pos}
  <1>2. FindNextElement(f, fp) =
          IF headers = {} THEN NoElement
          ELSE CHOOSE element \in {Element(f, header) : header \in first} : TRUE
    BY <1>1 DEF FindNextElement
  <1>3. \A pos \in fp .. n - 1 : Header(f, pos).decodes =>
          Header(f, pos) \in headers /\ Header(f, pos).pos = pos
    <2> TAKE pos \in fp .. n - 1
    <2> HAVE Header(f, pos).decodes
    <2>1. pos \in Nat
      OBVIOUS
    <2>2. DecodesAs(f, pos, Header(f, pos))
      BY <2>1, HeaderDecodes
    <2>3. Header(f, pos).pos = pos
      BY <2>2 DEF DecodesAs
    <2> QED
      BY <2>3
  <1>4. CASE \A pos \in fp .. n - 1 : ~Header(f, pos).decodes
    <2>1. headers = {}
      BY <1>4
    <2> QED
      BY <1>1, <1>2, <1>4, <2>1
  <1>5. CASE \E pos \in fp .. n - 1 : Header(f, pos).decodes
    <2> DEFINE P == {pos \in fp .. n - 1 : Header(f, pos).decodes}
    <2>1. PICK p \in P : \A other \in P : p <= other
      <3>1. P \in SUBSET Nat /\ P # {}
        BY <1>5
      <3> HIDE DEF P
      <3> QED
        BY <3>1, LeastNatural
    <2>2. p \in fp .. n - 1 /\ Header(f, p).decodes /\ p \in Nat
      BY <2>1
    <2>3. \A before \in fp .. p - 1 : ~Header(f, before).decodes
      BY <2>1, <2>2
    <2>4. PICK h : h = Header(f, p)
      OBVIOUS
    <2>5. h \in headers /\ h.pos = p
      BY <1>3, <2>2, <2>4
    <2>6. \A other \in headers : \E pos \in P : other = Header(f, pos) /\ other.pos = pos
      <3> TAKE other \in headers
      <3>1. PICK pos \in fp .. n - 1 : other = Header(f, pos) /\ other.decodes
        OBVIOUS
      <3>2. other.pos = pos /\ pos \in P
        BY <1>3, <3>1
      <3> QED
        BY <3>1, <3>2
    <2>7. \A other \in headers : h.pos <= other.pos
      BY <2>1, <2>5, <2>6
    <2>8. first = {h}
      <3>1. ASSUME NEW other \in first PROVE other = h
        <4>1. PICK pos \in P : other = Header(f, pos) /\ other.pos = pos
          BY <2>6
        <4>2. other.pos <= h.pos /\ h.pos <= other.pos
          BY <2>5, <2>7
        <4>3. pos = p
          BY <2>2, <2>5, <4>1, <4>2
        <4> QED
          BY <2>4, <4>1, <4>3
      <3>2. h \in first
        BY <2>5, <2>7
      <3> QED
        BY <3>1, <3>2
    <2>9. headers # {}
      BY <2>5
    <2> HIDE DEF headers, first
    <2>10. PICK e : e = Element(f, h)
      OBVIOUS
    <2>11. {Element(f, header) : header \in first} = {e}
      BY <2>8, <2>10
    <2>12. FindNextElement(f, fp) = e
      BY <1>2, <2>9, <2>11
    <2>13. IsElementAt(f, p, e)
      BY <2>2, <2>4, <2>10, ElementIs
    <2> QED
      BY <1>1, <2>2, <2>3, <2>12, <2>13
  <1> QED
    BY <1>4, <1>5

-----------------------------------------------------------------------------
(* Two files of the same bytes, wherever their pointers are.               *)
SameBytes(f, g) ==
  /\ f \in File /\ g \in File
  /\ f.open /\ g.open
  /\ f.bytes = g.bytes

(* They have the same size,                                                *)
LEMMA SameSize ==
  ASSUME NEW f, NEW g, SameBytes(f, g)
  PROVE  get_size(f) = get_size(g)
  BY DEF SameBytes, get_size

(* the same integers at every position,                                    *)
LEMMA SameVint ==
  ASSUME NEW f, NEW g, SameBytes(f, g), NEW pos \in Nat, NEW mode
  PROVE  VintAt(f, pos, mode) = VintAt(g, pos, mode)
  <1>1. [f EXCEPT !.fp = pos] = [g EXCEPT !.fp = pos]
    BY DEF SameBytes, File
  <1>2. setFilePointer(f, pos) = setFilePointer(g, pos)
    BY <1>1 DEF setFilePointer
  <1> QED
    BY <1>2 DEF VintAt

(* the same headers, at 0 at least when one decodes there,                 *)
LEMMA SameHeader ==
  ASSUME NEW f, NEW g, SameBytes(f, g), NEW pos \in Nat
  PROVE  /\ Header(f, pos).decodes <=> Header(g, pos).decodes
         /\ pos # 0 \/ Header(f, pos).decodes => Header(f, pos) = Header(g, pos)
  <1>1. PICK id : id = VintAt(f, pos, "rm_ebml_id") /\ id = VintAt(g, pos, "rm_ebml_id")
    BY SameVint
  <1>2. PICK size : size = VintAt(f, pos + id.coded_size, "rm_normal")
    OBVIOUS
  <1>3. PICK other : other = VintAt(g, pos + id.coded_size, "rm_normal")
    OBVIOUS
  <1>4. PICK h : h = Header(f, pos) /\ h = HeaderOf(pos, id, size)
    BY <1>1, <1>2, HeaderIs
  <1>5. PICK k : k = Header(g, pos) /\ k = HeaderOf(pos, id, other)
    BY <1>1, <1>3, HeaderIs
  <1>6. id = NoVint \/ id.coded_size \in Nat
    <2>1. f \in File /\ f.open
      BY DEF SameBytes
    <2>2. "rm_ebml_id" \in Mode
      BY DEF Mode
    <2>3. id = NoVint \/ IsReadAt(id, f, pos, "rm_ebml_id")
      BY <1>1, <2>1, <2>2, VintAtIs
    <2> QED
      BY <2>3, ByteAssumption DEF IsReadAt
  <1>7. CASE pos + id.coded_size \in Nat
    <2>1. PICK at \in Nat : at = pos + id.coded_size
      BY <1>7
    <2>2. size = other
      BY <1>2, <1>3, <2>1, SameVint
    <2> QED
      BY <1>4, <1>5, <2>2
  <1>8. CASE id = NoVint
    <2>1. ~is_valid(id) /\ NoVint.coded_size = -1
      BY <1>8 DEF is_valid, NoVint
    <2>2. ~h.decodes /\ ~k.decodes
      BY <1>4, <1>5, <2>1 DEF HeaderOf
    <2>3. pos # 0 => pos + id.coded_size \in Nat
      BY <1>8, <2>1
    <2> QED
      BY <1>4, <1>5, <1>7, <2>2, <2>3
  <1> QED
    BY <1>6, <1>7, <1>8

(* and the same ends of children.                                          *)
LEMMA SameChildrenEnd ==
  ASSUME NEW f, NEW g, SameBytes(f, g), NEW content \in 0 .. get_size(f)
  PROVE  ChildrenEnd(f, content) = ChildrenEnd(g, content)
  <1>1. f \in File /\ f.open /\ g \in File /\ g.open
    BY DEF SameBytes
  <1>2. PICK n \in Nat : n = get_size(f) /\ n = get_size(g)
    BY <1>1, SameSize DEF File, get_size
  <1>3. \A p \in 0 .. n : /\ IsChild(f, p) <=> IsChild(g, p)
                          /\ IsChild(f, p) => BehindHeader(f, p) = BehindHeader(g, p)
    BY <1>2, SameHeader DEF IsChild, BehindHeader
  <1>4. \A p \in 0 .. n : IsChild(f, p) => BehindHeader(f, p) \in 0 .. n /\ BehindHeader(f, p) > p
    <2> TAKE p \in 0 .. n
    <2> HAVE IsChild(f, p)
    <2>1. BehindHeader(f, p) \in p + 1 .. get_size(f)
      BY <1>1, <1>2, ChildMovesOn
    <2> QED
      BY <1>2, <2>1
  <1>5. \A p \in 0 .. n :
          /\ ChildrenEnd(f, p) =
               IF IsChild(f, p) THEN ChildrenEnd(f, BehindHeader(f, p)) ELSE p
          /\ ChildrenEnd(g, p) =
               IF IsChild(g, p) THEN ChildrenEnd(g, BehindHeader(g, p)) ELSE p
    BY <1>1, <1>2, ChildrenEndEquation
  <1> DEFINE S == {k \in Nat : \A p \in 0 .. n : n - p <= k =>
                                 ChildrenEnd(f, p) = ChildrenEnd(g, p)}
  <1>6. 0 \in S
    <2>1. ASSUME NEW p \in 0 .. n, n - p <= 0 PROVE ChildrenEnd(f, p) = ChildrenEnd(g, p)
      <3>1. ~IsChild(f, p)
        BY <1>4, <2>1
      <3> QED
        BY <1>3, <1>5, <3>1
    <2> QED
      BY <2>1
  <1>7. \A k \in Nat : k \in S => k + 1 \in S
    <2>1. ASSUME NEW k \in Nat, k \in S, NEW p \in 0 .. n, n - p <= k + 1
          PROVE  ChildrenEnd(f, p) = ChildrenEnd(g, p)
      <3>1. CASE ~IsChild(f, p)
        BY <1>3, <1>5, <3>1
      <3>2. CASE IsChild(f, p)
        <4>1. PICK q \in 0 .. n : q = BehindHeader(f, p) /\ q > p
          BY <1>4, <3>2
        <4>2. ChildrenEnd(f, q) = ChildrenEnd(g, q)
          BY <2>1, <4>1
        <4> QED
          BY <1>3, <1>5, <3>2, <4>1, <4>2
      <3> QED
        BY <3>1, <3>2
    <2> QED
      BY <2>1
  <1>8. Nat \subseteq S
    <2> HIDE DEF S
    <2> QED
      BY <1>6, <1>7, Induction
  <1>9. content \in 0 .. n /\ n - content \in Nat
    BY <1>2
  <1> QED
    BY <1>8, <1>9

(* The element at a position, and where it ends.                           *)
LEMMA SameElement ==
  ASSUME NEW f, NEW g, SameBytes(f, g), NEW pos \in Nat, Header(f, pos).decodes
  PROVE  /\ Header(g, pos).decodes
         /\ EndOf(f, Header(f, pos)) = EndOf(g, Header(g, pos))
         /\ \A e : IsElementAt(f, pos, e) => IsElementAt(g, pos, e)
         /\ \A fp : AtSizeField(f, pos, fp) => AtSizeField(g, pos, fp)
  <1>1. f \in File /\ f.open /\ g \in File /\ g.open
    BY DEF SameBytes
  <1>2. PICK h : h = Header(f, pos) /\ h = Header(g, pos) /\ h.decodes
    BY SameHeader
  <1>3. h.content \in 0 .. get_size(f)
    <2>1. DecodesAs(f, pos, h)
      BY <1>1, <1>2, HeaderDecodes
    <2>2. h.content \in Nat /\ h.content <= get_size(f) /\ get_size(f) \in Nat
      BY <1>1, <2>1 DEF DecodesAs, File, get_size
    <2> QED
      BY <2>2
  <1>4. ChildrenEnd(f, h.content) = ChildrenEnd(g, h.content)
    BY <1>3, SameChildrenEnd
  <1>5. EndOf(f, h) = EndOf(g, h)
    BY <1>4 DEF EndOf
  <1>6. Element(f, h) = Element(g, h)
    BY <1>4 DEF Element, get_element_size
  <1>7. \A fp : AtSizeField(f, pos, fp) => AtSizeField(g, pos, fp)
    BY <1>2, <1>5 DEF AtSizeField
  <1>8. \A e : IsElementAt(f, pos, e) => IsElementAt(g, pos, e)
    BY <1>2, <1>5, <1>6, <1>7 DEF IsElementAt
  <1> QED
    BY <1>2, <1>5, <1>7, <1>8

-----------------------------------------------------------------------------
(* The invariant: besides the types, what was returned and delivered are   *)
(* elements of the file, and the Segment begins and ends inside it.        *)
Elements(f) ==
  {e \in [pos : Nat, id : Nat, end : Nat] :
     e.pos \in 1 .. get_size(f) - 1 /\ IsElementAt(f, e.pos, e)}

FileInSegment ==
  /\ file \in File
  /\ file.open
  /\ file.fp >= 1
  /\ Len(file.bytes) >= 1
  /\ Len(file.bytes) + ByteBits + 2 * IdBytes + 1 <= Power2[Word - 1]

SegmentTypes ==
  /\ pc \in {"start", "read_next", "resync", "scan", "caller", "done"}
  /\ l0 \in [finite : BOOLEAN, end : Nat]
  /\ l0.finite => l0.end >= 1
  /\ segment_end \in Nat
  /\ IF pc = "start" THEN resync_start_pos = 0 ELSE segment_end = SegmentEnd
  /\ resynced \in BOOLEAN
  /\ resync_start_pos \in 0 .. segment_end
  /\ actual_id \in 0 .. Power2[ByteBits * IdBytes] - 1
  /\ damaged \subseteq Nat

ElementsOfFile ==
  /\ l1 \in Elements(file) \cup {NoElement}
  /\ delivered \in Seq(Elements(file))

SegmentInv == FileInSegment /\ SegmentTypes /\ ElementsOfFile

(* The elements of a file do not depend on its pointer.                    *)
LEMMA SameElements ==
  ASSUME NEW f, NEW g, SameBytes(f, g)
  PROVE  Elements(f) = Elements(g)
  <1>1. \A x, y : SameBytes(x, y) => Elements(x) \subseteq Elements(y)
    <2> SUFFICES ASSUME NEW x, NEW y, SameBytes(x, y), NEW e \in Elements(x)
                 PROVE  e \in Elements(y)
      OBVIOUS
    <2>1. /\ e \in [pos : Nat, id : Nat, end : Nat]
          /\ e.pos \in 1 .. get_size(x) - 1 /\ IsElementAt(x, e.pos, e)
      BY DEF Elements
    <2>2. PICK pos \in Nat : pos = e.pos
      BY <2>1
    <2>3. Header(x, pos).decodes /\ IsElementAt(x, pos, e)
      BY <2>1, <2>2 DEF IsElementAt
    <2>4. IsElementAt(y, pos, e)
      BY <2>3, SameElement
    <2>5. get_size(x) = get_size(y)
      BY SameSize
    <2> QED
      BY <2>1, <2>2, <2>4, <2>5 DEF Elements
  <1>2. SameBytes(g, f)
    BY DEF SameBytes
  <1>3. Elements(f) \subseteq Elements(g)
    BY <1>1
  <1>4. Elements(g) \subseteq Elements(f)
    BY <1>1, <1>2
  <1> QED
    BY <1>3, <1>4

(* A file with a pointer put elsewhere is the same.                        *)
LEMMA SeekKeeps ==
  ASSUME NEW f \in File, f.open, NEW fp \in Nat
  PROVE  /\ setFilePointer(f, fp) = [f EXCEPT !.fp = fp]
         /\ SameBytes(f, [f EXCEPT !.fp = fp])
         /\ [f EXCEPT !.fp = fp].fp = fp
  BY DEF setFilePointer, SameBytes, File

(* An element is no NoElement.                                             *)
LEMMA ElementsAre ==
  ASSUME NEW f, NEW e \in Elements(f)
  PROVE  e # NoElement /\ e.end \in Nat /\ e.pos \in Nat /\ e.end > e.pos /\ e.pos >= 1
  <1>1. e \in [pos : Nat, id : Nat, end : Nat] /\ e.pos \in 1 .. get_size(f) - 1
        /\ e.end > e.pos
    BY DEF Elements, IsElementAt
  <1>2. NoElement.pos = 0
    BY DEF NoElement
  <1> QED
    BY <1>1, <1>2

(* What read_next can come to: the end of the Segment; a resync where it   *)
(* stands, for want of a known ID or of an element; an element it returns; *)
(* or one it passes over.                                                  *)
KnownId(id) == is_valid(id) /\ (Direct(id) \/ Skip(id))

IdHere == VintAt(file, file.fp, "rm_ebml_id")

OneHere(one) ==
  /\ one = FindNextElement(file, file.fp)
  /\ one # NoElement
  /\ one.pos \notin damaged

Ended ==
  /\ segment_end # 0 /\ file.fp >= segment_end
  /\ pc' = "caller" /\ l1' = NoElement
  /\ UNCHANGED <<file, kax>>

Resyncs ==
  /\ segment_end = 0 \/ file.fp < segment_end
  /\ ~KnownId(IdHere) \/ \A one : ~OneHere(one)
  /\ resynced' = FALSE /\ resync_start_pos' = 0
  /\ pc' = "resync" /\ file' = file /\ UNCHANGED <<segment_end, l1>>

Returns ==
  /\ segment_end = 0 \/ file.fp < segment_end
  /\ resynced' = FALSE /\ resync_start_pos' = 0
  /\ is_valid(IdHere) /\ Direct(IdHere)
  /\ \E one : /\ OneHere(one)
              /\ Wanted(one)
              /\ pc' = "caller" /\ l1' = one
              /\ file' = [file EXCEPT !.fp = one.end]
  /\ UNCHANGED segment_end

PassesOver ==
  /\ segment_end = 0 \/ file.fp < segment_end
  /\ resynced' = FALSE /\ resync_start_pos' = 0
  /\ KnownId(IdHere)
  /\ \E one : /\ OneHere(one)
              /\ ~Wanted(one) \/ ~Direct(IdHere)
              /\ pc' = "read_next"
              /\ file' = [file EXCEPT !.fp = one.end]
  /\ UNCHANGED <<segment_end, l1>>

(* What libebml finds from a position inside the file on.                  *)
LEMMA OneHereIs ==
  ASSUME FileInSegment, NEW one, OneHere(one)
  PROVE  /\ one \in Elements(file)
         /\ one.pos >= file.fp
         /\ one.pos < file_size
         /\ Header(file, one.pos).decodes
         /\ \A before \in file.fp .. one.pos - 1 : ~Header(file, before).decodes
  <1>1. file \in File /\ file.open /\ file.fp \in Nat /\ file.fp >= 1
    BY DEF FileInSegment, File
  <1>2. PICK pos \in file.fp .. get_size(file) - 1 :
          /\ IsElementAt(file, pos, one)
          /\ \A before \in file.fp .. pos - 1 : ~Header(file, before).decodes
    BY <1>1, FindsFirst DEF OneHere
  <1>3. get_size(file) \in Nat
    BY DEF FileInSegment, File, get_size
  <1>4. /\ one \in [pos : Nat, id : Nat, end : Nat] /\ one.pos = pos
        /\ Header(file, pos).decodes
    BY <1>2 DEF IsElementAt
  <1> QED
    BY <1>1, <1>2, <1>3, <1>4 DEF Elements, file_size

(* A step of read_next is one of the four.                                 *)
LEMMA ReadNextCases ==
  ASSUME FileInSegment, SegmentTypes, read_next_level1_element
  PROVE  Ended \/ Resyncs \/ Returns \/ PassesOver
  <1>1. file \in File /\ file.open /\ file.fp \in Nat
    BY DEF FileInSegment, File
  <1>2. CASE /\ segment_end # 0 /\ file.fp >= segment_end
             /\ Return(NoElement)
             /\ UNCHANGED <<file, kax>>
    BY <1>2 DEF Ended, Return
  <1>3. CASE /\ segment_end = 0 \/ file.fp < segment_end
             /\ ResetResync
             /\ UNCHANGED segment_end
             /\ \E id \in read_ebml_id(file), one \in read_one_element(file.fp) :
                  Proceed(id.vint, one)
    <2>1. PICK id \in read_ebml_id(file), one \in read_one_element(file.fp) :
            Proceed(id.vint, one)
      BY <1>3
    <2>2. id.vint = IdHere
      <3>1. [file EXCEPT !.fp = file.fp] = file
        BY <1>1 DEF File
      <3>a. PICK pos \in Nat : pos = file.fp
        BY <1>1
      <3>b. "rm_ebml_id" \in Mode
        BY DEF Mode
      <3>c. \E g : read([file EXCEPT !.fp = pos], "rm_ebml_id")
                    = {[vint |-> VintAt(file, pos, "rm_ebml_id"), file |-> g]}
        BY <1>1, <3>b, VintAtIs
      <3>2. PICK g : read(file, "rm_ebml_id") = {[vint |-> IdHere, file |-> g]}
        BY <3>1, <3>a, <3>c DEF IdHere
      <3>3. id = [vint |-> IdHere, file |-> g]
        BY <3>2 DEF read_ebml_id
      <3> QED
        BY <3>3
    <2>3. one = NoElement \/ OneHere(one)
      BY <1>3 DEF read_one_element, OneHere
    <2>a. one = NoElement => \A other : ~OneHere(other)
      <3> HAVE one = NoElement
      <3>a. ~(segment_end # 0 /\ file.fp >= segment_end)
        <4>1. segment_end \in Nat /\ get_size(file) \in Nat
          BY <1>1 DEF SegmentTypes, file_size, get_size, File
        <4> QED
          BY <1>1, <1>3, <4>1
      <3>1. one \in {IF element.pos \in damaged THEN NoElement ELSE element
                       : element \in {FindNextElement(file, file.fp)}}
        BY <3>a DEF read_one_element
      <3>2. one = IF FindNextElement(file, file.fp).pos \in damaged THEN NoElement
                  ELSE FindNextElement(file, file.fp)
        BY <3>1
      <3> QED
        BY <3>2 DEF OneHere
    <2>4. resynced' = FALSE /\ resync_start_pos' = 0
      BY <1>3 DEF ResetResync
    <2>5. \A fp \in Nat : setFilePointer(file, fp) = [file EXCEPT !.fp = fp]
      BY DEF setFilePointer
    <2>6. CASE /\ ~is_valid(id.vint) \/ ~(Direct(id.vint) \/ Skip(id.vint)) \/ one = NoElement
               /\ Again("resync", file.fp)
      <3>1. file' = file
        <4>1. [file EXCEPT !.fp = file.fp] = file
          BY <1>1 DEF File
        <4> QED
          BY <1>1, <2>5, <2>6, <4>1 DEF Again
      <3> QED
        BY <1>3, <2>2, <2>a, <2>4, <2>6, <3>1 DEF Resyncs, Again, KnownId
    <2>7. CASE /\ is_valid(id.vint) /\ Direct(id.vint) /\ one # NoElement
               /\ IF ReallyRead(one)
                  THEN Return(one) /\ file' = setFilePointer(file, one.end)
                  ELSE Again("read_next", one.end)
      <3>1. OneHere(one) /\ one.end \in Nat
        BY <2>3, <2>7, OneHereIs, ElementsAre
      <3>2. ReallyRead(one) <=> Wanted(one)
        BY DEF ReallyRead, Wanted
      <3>3. CASE ReallyRead(one)
        BY <1>3, <2>2, <2>4, <2>5, <2>7, <3>1, <3>2, <3>3 DEF Returns, Return
      <3>4. CASE ~ReallyRead(one)
        BY <1>3, <2>2, <2>4, <2>5, <2>7, <3>1, <3>2, <3>4 DEF PassesOver, Again, KnownId
      <3> QED
        BY <3>3, <3>4
    <2>8. CASE /\ is_valid(id.vint) /\ ~Direct(id.vint) /\ Skip(id.vint) /\ one # NoElement
               /\ Again("read_next", one.end)
      <3>1. OneHere(one) /\ one.end \in Nat
        BY <2>3, <2>8, OneHereIs, ElementsAre
      <3> QED
        BY <1>3, <2>2, <2>4, <2>5, <2>8, <3>1 DEF PassesOver, Again, KnownId
    <2> QED
      BY <2>1, <2>6, <2>7, <2>8 DEF Proceed
  <1> QED
    BY <1>2, <1>3 DEF read_next_level1_element

-----------------------------------------------------------------------------
(* What resync reads.                                                      *)

(* Four bytes that are there are one number.                               *)
LEMMA ReadWholeId ==
  ASSUME NEW f \in File, f.fp + IdBytes <= Len(f.bytes)
  PROVE  read_uint32_be(f) = {[value |-> IdAt(f, f.fp),
                               file |-> [f EXCEPT !.fp = f.fp + IdBytes]]}
  <1>1. f.fp \in Nat /\ Len(f.bytes) \in Nat /\ IdBytes \in Nat \ {0}
    BY ByteAssumption DEF File
  <1> DEFINE rest  == IF f.fp < Len(f.bytes) THEN Len(f.bytes) - f.fp ELSE 0
             count == IF rest < IdBytes THEN rest ELSE IdBytes
             Value(left) == get_uint_be([i \in 1 .. IdBytes |->
                              IF i <= count THEN f.bytes[f.fp + i] ELSE left[i]], IdBytes)
  <1>2. count = IdBytes
    BY <1>1
  <1>3. read_uint32_be(f) = {[value |-> Value(left), file |-> [f EXCEPT !.fp = f.fp + count]]
                               : left \in [count + 1 .. IdBytes -> Byte]}
    BY Zenon DEF read_uint32_be
  <1>4. \A left : Value(left) = IdAt(f, f.fp)
    <2> TAKE left
    <2>1. \A i \in 1 .. IdBytes : i <= count
      BY <1>2, <1>1
    <2>2. [i \in 1 .. IdBytes |-> IF i <= count THEN f.bytes[f.fp + i] ELSE left[i]]
            = [i \in 1 .. IdBytes |-> f.bytes[f.fp + i]]
      <3> HIDE DEF count
      <3> QED
        BY <2>1
    <2> QED
      BY <2>2 DEF IdAt
  <1>5. [count + 1 .. IdBytes -> Byte] # {}
    <2>1. [i \in count + 1 .. IdBytes |-> 0] \in [count + 1 .. IdBytes -> Byte]
      <3>1. \A i \in count + 1 .. IdBytes : FALSE
        BY <1>1, <1>2
      <3> HIDE DEF count
      <3> QED
        BY <3>1
    <2> QED
      BY <2>1
  <1> HIDE DEF Value, count
  <1>6. \A w \in read_uint32_be(f) :
          w = [value |-> IdAt(f, f.fp), file |-> [f EXCEPT !.fp = f.fp + IdBytes]]
    BY <1>2, <1>3, <1>4
  <1>7. [value |-> IdAt(f, f.fp), file |-> [f EXCEPT !.fp = f.fp + IdBytes]] \in read_uint32_be(f)
    BY <1>2, <1>3, <1>4, <1>5
  <1> QED
    BY <1>6, <1>7

(* In any case it is a number of four bytes, and the pointer goes no       *)
(* further than the end, or stays where it is behind it.                   *)
LEMMA ReadAnyId ==
  ASSUME NEW f \in File, NEW w \in read_uint32_be(f)
  PROVE  /\ w.value \in 0 .. Power2[ByteBits * IdBytes] - 1
         /\ f.fp < Len(f.bytes) /\ f.fp + IdBytes > Len(f.bytes) =>
              w.file = [f EXCEPT !.fp = Len(f.bytes)]
         /\ f.fp >= Len(f.bytes) => w.file = f
         /\ \E fp \in Nat : w.file = [f EXCEPT !.fp = fp] /\ fp >= f.fp
  <1>1. f.fp \in Nat /\ Len(f.bytes) \in Nat /\ IdBytes \in Nat \ {0} /\ f.bytes \in Seq(Byte)
    BY ByteAssumption DEF File
  <1> DEFINE rest  == IF f.fp < Len(f.bytes) THEN Len(f.bytes) - f.fp ELSE 0
             count == IF rest < IdBytes THEN rest ELSE IdBytes
             Bytes(left) == [i \in 1 .. IdBytes |->
                               IF i <= count THEN f.bytes[f.fp + i] ELSE left[i]]
  <1>2. count \in 0 .. IdBytes /\ f.fp + count <= IF f.fp < Len(f.bytes) THEN Len(f.bytes) ELSE f.fp
    BY <1>1
  <1>3. PICK left \in [count + 1 .. IdBytes -> Byte] :
          w = [value |-> get_uint_be(Bytes(left), IdBytes),
               file |-> [f EXCEPT !.fp = f.fp + count]]
    BY Zenon DEF read_uint32_be
  <1>4. \A i \in 1 .. IdBytes : Bytes(left)[i] \in Byte
    <2> TAKE i \in 1 .. IdBytes
    <2>1. CASE i <= count
      <3>1. f.fp + i \in 1 .. Len(f.bytes)
        BY <1>1, <2>1
      <3> QED
        BY <1>1, <2>1, <3>1
    <2>2. CASE ~(i <= count)
      <3>1. i \in count + 1 .. IdBytes
        BY <1>1, <1>2, <2>2
      <3> HIDE DEF count
      <3> QED
        BY <2>2, <3>1
    <2> QED
      BY <2>1, <2>2
  <1>5. PICK b : b = Bytes(left)
    OBVIOUS
  <1>6. get_uint_be(b, IdBytes) = Number(b, 0, IdBytes)
    <2>1. b = [i \in 1 .. IdBytes |-> b[i]]
      BY <1>5
    <2>2. [i \in 1 .. IdBytes |-> b[0 + i]] = [i \in 1 .. IdBytes |-> b[i]]
      OBVIOUS
    <2>3. [i \in 1 .. IdBytes |-> b[0 + i]] = b
      BY <2>1, <2>2
    <2> QED
      BY <2>3 DEF Number
  <1>7. get_uint_be(b, IdBytes) \in 0 .. Power2[ByteBits * IdBytes] - 1
    <2>1. PICK n \in Nat, zero \in Nat : n = IdBytes /\ zero = 0
      BY <1>1
    <2>2. \A i \in 1 .. n : b[zero + i] \in Byte
      <3>1. \A i \in 1 .. n : zero + i = i
        BY <2>1
      <3> HIDE DEF Bytes
      <3> QED
        BY <1>4, <1>5, <2>1, <3>1
    <2>3. Number(b, zero, n) \in 0 .. Power2[ByteBits * n] - 1
      BY <2>2, NumberRange
    <2> QED
      BY <1>6, <2>1, <2>3
  <1>8. w.value = get_uint_be(b, IdBytes) /\ w.file = [f EXCEPT !.fp = f.fp + count]
    <2> HIDE DEF Bytes, count
    <2> QED
      BY <1>3, <1>5
  <1>9. f.fp < Len(f.bytes) /\ f.fp + IdBytes > Len(f.bytes) => f.fp + count = Len(f.bytes)
    BY <1>1
  <1>10. f.fp + count \in Nat /\ f.fp + count >= f.fp
    BY <1>1, <1>2
  <1>11. f.fp >= Len(f.bytes) => f.fp + count = f.fp
    BY <1>1
  <1> HIDE DEF count
  <1>12. f = [f EXCEPT !.fp = f.fp]
    BY DEF File
  <1> QED
    BY <1>7, <1>8, <1>9, <1>10, <1>11, <1>12

(* The beginning of a resync.                                              *)
ResyncBegins ==
  /\ segment_end = 0 \/ file.fp < segment_end
  /\ resynced' = TRUE /\ resync_start_pos' = file.fp
  /\ pc' = "scan" /\ UNCHANGED <<segment_end, l1>>
  /\ actual_id' \in 0 .. Power2[ByteBits * IdBytes] - 1
  /\ \/ /\ file.fp + IdBytes <= Len(file.bytes)
        /\ actual_id' = IdAt(file, file.fp)
        /\ file' = [file EXCEPT !.fp = file.fp + IdBytes]
     \/ /\ file.fp < Len(file.bytes) /\ file.fp + IdBytes > Len(file.bytes)
        /\ file' = [file EXCEPT !.fp = Len(file.bytes)]
     \/ /\ file.fp >= Len(file.bytes)
        /\ file' = file

(* A resync begins so, or the Segment has ended where it is called.        *)
LEMMA ResyncCases ==
  ASSUME FileInSegment, SegmentTypes, resync_to_level1_element
  PROVE  (Ended /\ UNCHANGED actual_id) \/ ResyncBegins
  <1>1. file \in File /\ file.open /\ file.fp \in Nat /\ Len(file.bytes) \in Nat
    BY DEF FileInSegment, File
  <1>2. CASE /\ segment_end # 0 /\ file.fp >= segment_end
             /\ Return(NoElement)
             /\ UNCHANGED <<file, kax, actual_id>>
    BY <1>2 DEF Ended, Return
  <1>3. CASE /\ segment_end = 0 \/ file.fp < segment_end
             /\ resynced' = TRUE
             /\ resync_start_pos' = file.fp
             /\ \E window \in read_uint32_be(file) :
                  actual_id' = window.value /\ file' = window.file
             /\ pc' = "scan"
             /\ UNCHANGED <<segment_end, l1>>
    <2>1. PICK w \in read_uint32_be(file) : actual_id' = w.value /\ file' = w.file
      BY <1>3
    <2>2. w.value \in 0 .. Power2[ByteBits * IdBytes] - 1
      BY <1>1, <2>1, ReadAnyId
    <2>3. CASE file.fp + IdBytes <= Len(file.bytes)
      <3>1. w = [value |-> IdAt(file, file.fp), file |-> [file EXCEPT !.fp = file.fp + IdBytes]]
        BY <1>1, <2>1, <2>3, ReadWholeId
      <3>2. w.value = IdAt(file, file.fp) /\ w.file = [file EXCEPT !.fp = file.fp + IdBytes]
        BY <3>1
      <3> QED
        BY <1>3, <2>1, <2>2, <2>3, <3>2 DEF ResyncBegins
    <2>4. CASE file.fp < Len(file.bytes) /\ file.fp + IdBytes > Len(file.bytes)
      <3>1. w.file = [file EXCEPT !.fp = Len(file.bytes)]
        BY <1>1, <2>1, <2>4, ReadAnyId
      <3> QED
        BY <1>3, <2>1, <2>2, <2>4, <3>1 DEF ResyncBegins
    <2>5. CASE file.fp >= Len(file.bytes)
      <3>1. w.file = file
        BY <1>1, <2>1, <2>5, ReadAnyId
      <3> QED
        BY <1>3, <2>1, <2>2, <2>5, <3>1 DEF ResyncBegins
    <2> QED
      BY <1>1, <2>3, <2>4, <2>5, ByteAssumption
  <1> QED
    BY <1>2, <1>3 DEF resync_to_level1_element

-----------------------------------------------------------------------------
(* A turn of the loop over the bytes: the end of the file; a byte further; *)
(* or back to a candidate that is accepted.                                *)
AtNextByte == [file EXCEPT !.fp = file.fp + 1]

NextWindow == Window(actual_id, file.bytes[file.fp + 1])

ScanEnds ==
  /\ file.fp >= file_size
  /\ pc' = "caller" /\ l1' = NoElement
  /\ UNCHANGED <<file, kax, actual_id>>

ScansOn ==
  /\ file.fp < file_size
  /\ ~Matches(NextWindow) \/ \E chain \in Chains(AtNextByte) : ~Accepts(chain)
  /\ pc' = "scan" /\ file' = AtNextByte /\ actual_id' = NextWindow
  /\ UNCHANGED <<kax, l1>>

ScanAccepts ==
  /\ file.fp < file_size
  /\ Matches(NextWindow)
  /\ \E chain \in Chains(AtNextByte) : Accepts(chain)
  /\ pc' = "read_next" /\ file' = [file EXCEPT !.fp = file.fp + 1 - IdBytes]
  /\ file.fp + 1 - IdBytes \in Nat
  /\ file.fp + 1 - IdBytes > resync_start_pos
  /\ actual_id' = NextWindow
  /\ UNCHANGED <<kax, l1>>

(* These are the turns ScanByte can make.                                  *)
LEMMA ScanCases ==
  ASSUME ReaderInv, FileInSegment, SegmentTypes, ScanByte
  PROVE  ScanEnds \/ ScansOn \/ ScanAccepts
  <1>1. file \in File /\ file.fp \in Nat /\ Len(file.bytes) \in Nat
        /\ file_size = Len(file.bytes) /\ resync_start_pos \in Nat
    BY DEF FileInSegment, SegmentTypes, File, file_size, get_size
  <1>2. pc = "scan" /\ UNCHANGED kax
    BY DEF ScanByte
  <1>3. CASE file.fp >= file_size
    <2>1. Return(NoElement) /\ UNCHANGED <<file, actual_id, accepted>>
      BY <1>1, <1>3 DEF ScanByte
    <2> QED
      BY <1>2, <1>3, <2>1 DEF ScanEnds, Return
  <1>4. CASE file.fp < file_size
    <2>1. PICK x : x = [value |-> file.bytes[file.fp + 1], file |-> AtNextByte]
      OBVIOUS
    <2>2. read_uint8(file) = {x}
      BY <1>1, <1>4, <2>1 DEF read_uint8, AtNextByte
    <2>3. x.value = file.bytes[file.fp + 1] /\ x.file = AtNextByte
      BY <2>1
    <2>4. PICK window, start :
            /\ window = Window(actual_id, x.value)
            /\ start = Candidate(x.file)
            /\ actual_id' = window
            /\ \/ /\ ~Matches(window)
                  /\ file' = x.file
                  /\ UNCHANGED <<pc, accepted>>
               \/ /\ Matches(window)
                  /\ \E chain \in Chains(x.file) :
                       IF Accepts(chain)
                       THEN /\ file' = setFilePointer(file, start)
                            /\ pc' = "read_next"
                       ELSE /\ file' = setFilePointer(file, AfterRejected(chain, start))
                            /\ UNCHANGED <<pc, accepted>>
      BY <1>1, <1>4, <2>2 DEF ScanByte
    <2>5. UNCHANGED l1
      BY <1>1, <1>4 DEF ScanByte
    <2>6. window = NextWindow
      BY <2>3, <2>4 DEF NextWindow
    <2>7. AtNextByte.fp = file.fp + 1
      BY <1>1 DEF AtNextByte, File
    <2>8. start = file.fp + 1 - IdBytes
      <3>1. start = Candidate(AtNextByte)
        BY <2>3, <2>4, Zenon
      <3> QED
        BY <1>1, <3>1, <2>7, ByteAssumption DEF Candidate
    <2>9. file.fp >= resync_start_pos + IdBytes
      BY <1>1, <1>2, <1>4 DEF ReaderInv, WindowBehindStart
    <2>10. start \in Nat /\ start > resync_start_pos
      BY <1>1, <2>8, <2>9, ByteAssumption
    <2>11. setFilePointer(file, start) = [file EXCEPT !.fp = file.fp + 1 - IdBytes]
      BY <2>8, <2>10 DEF setFilePointer
    <2>12. \A chain : setFilePointer(file, AfterRejected(chain, start)) = AtNextByte
      <3> TAKE chain
      <3>1. AfterRejected(chain, start) = file.fp + 1
        BY <1>1, <2>8, ByteAssumption DEF AfterRejected
      <3>2. file.fp + 1 \in Nat
        BY <1>1
      <3> QED
        BY <3>1, <3>2 DEF setFilePointer, AtNextByte
    <2>13. CASE ~Matches(window) /\ file' = x.file /\ UNCHANGED pc
      BY <1>2, <1>4, <2>3, <2>4, <2>5, <2>6, <2>13 DEF ScansOn
    <2>14. ASSUME Matches(window), NEW chain \in Chains(x.file), Accepts(chain),
                  file' = setFilePointer(file, start), pc' = "read_next"
           PROVE  ScanAccepts
      BY <1>2, <1>4, <2>3, <2>4, <2>5, <2>6, <2>8, <2>10, <2>11, <2>14 DEF ScanAccepts
    <2>15. ASSUME Matches(window), NEW chain \in Chains(x.file), ~Accepts(chain),
                  file' = setFilePointer(file, AfterRejected(chain, start)), UNCHANGED pc
           PROVE  ScansOn
      BY <1>2, <1>4, <2>3, <2>4, <2>5, <2>6, <2>12, <2>15 DEF ScansOn
    <2> QED
      BY <2>4, <2>13, <2>14, <2>15
  <1> QED
    BY <1>1, <1>3, <1>4

-----------------------------------------------------------------------------
(* A step that puts the pointer of the file elsewhere keeps all that is    *)
(* said of the file.                                                       *)
LEMMA FileMoves ==
  ASSUME FileInSegment, NEW fp \in Nat, fp >= 1, file' = [file EXCEPT !.fp = fp]
  PROVE  /\ FileInSegment'
         /\ file'.fp = fp /\ file'.bytes = file.bytes
         /\ SameBytes(file, file') /\ SameBytes(file', file)
         /\ file_size' = file_size
         /\ Elements(file') = Elements(file)
  <1>1. file' \in File /\ file'.fp = fp /\ file'.bytes = file.bytes /\ file'.open
    BY DEF FileInSegment, File
  <1>2. FileInSegment'
    BY <1>1 DEF FileInSegment
  <1>3. SameBytes(file, file') /\ SameBytes(file', file)
    BY <1>1 DEF FileInSegment, SameBytes
  <1>4. file_size' = file_size
    BY <1>1 DEF FileInSegment, file_size, get_size
  <1> QED
    BY <1>1, <1>2, <1>3, <1>4, SameElements

(* In a step that leaves the file alone they are kept too.                 *)
LEMMA FileStays ==
  ASSUME FileInSegment, file' = file
  PROVE  /\ FileInSegment'
         /\ file_size' = file_size
         /\ SameBytes(file, file')
  BY DEF FileInSegment, file_size, get_size, SameBytes

(* At the beginning.                                                       *)
LEMMA SegmentInitially == Init => SegmentInv
  <1> SUFFICES ASSUME Init PROVE SegmentInv
    OBVIOUS
  <1>1. PICK content \in Contents : file = [open |-> TRUE, bytes |-> <<0>> \o content, fp |-> 1]
    BY DEF Init
  <1>2. content \in Seq(Byte)
    BY IdsAssumption
  <1>3. 0 \in Byte
    <2>1. Power2[ByteBits] \in Nat \ {0}
      BY Power2Step, ByteAssumption
    <2> QED
      BY <2>1 DEF Byte
  <1>4. <<0>> \o content \in Seq(Byte) /\ Len(<<0>> \o content) = Len(content) + 1
    BY <1>2, <1>3
  <1>5. FileInSegment
    <2>1. Len(content) + ByteBits + 2 * IdBytes + 2 <= Power2[Word - 1] /\ Len(content) \in Nat
      BY <1>2, PositionsAssumption
    <2>2. file \in File /\ file.open /\ file.fp = 1 /\ Len(file.bytes) = Len(content) + 1
      BY <1>1, <1>4 DEF File
    <2>3. PICK half \in Nat : half = Power2[Word - 1]
      BY WordBits
    <2> QED
      BY <2>1, <2>2, <2>3, ByteAssumption DEF FileInSegment
  <1>6. file_size \in Nat
    BY <1>5 DEF FileInSegment, File, file_size, get_size
  <1>7. l0 \in [finite : BOOLEAN, end : Nat] /\ (l0.finite => l0.end >= 1)
    <2>1. Beyond \in Nat /\ Missing \in Nat
      BY IdsAssumption
    <2>2. CASE l0 = [finite |-> FALSE, end |-> 0]
      BY <2>2
    <2>3. CASE \E end \in {file_size - Beyond, file_size, file_size + Missing} :
                 end >= 1 /\ l0 = [finite |-> TRUE, end |-> end]
      BY <1>6, <2>1, <2>3
    <2> QED
      BY <2>2, <2>3 DEF Init
  <1>8. damaged \subseteq Nat
    BY IdsAssumption DEF Init
  <1>9. 0 \in 0 .. Power2[ByteBits * IdBytes] - 1
    <2>1. PICK n \in Nat : n = ByteBits * IdBytes
      BY ByteAssumption
    <2>2. Power2[n] \in Nat \ {0}
      BY Power2Step
    <2> QED
      BY <2>1, <2>2
  <1>10. SegmentTypes
    <2>1. /\ pc = "start" /\ segment_end = 0 /\ resynced = FALSE
          /\ resync_start_pos = 0 /\ actual_id = 0
      BY DEF Init
    <2>2. segment_end \in Nat /\ resync_start_pos \in 0 .. segment_end
      BY <2>1
    <2> QED
      BY <1>7, <1>8, <1>9, <2>1, <2>2 DEF SegmentTypes
  <1>11. ElementsOfFile
    BY DEF Init, ElementsOfFile
  <1> QED
    BY <1>5, <1>10, <1>11 DEF SegmentInv

(* A window shifted by a byte is a number of IdBytes bytes.                *)
LEMMA WindowRange ==
  ASSUME FileInSegment, SegmentTypes, file.fp < file_size
  PROVE  NextWindow \in 0 .. Power2[ByteBits * IdBytes] - 1
  <1>1. file.fp + 1 \in 1 .. Len(file.bytes) /\ file.bytes \in Seq(Byte)
    BY DEF FileInSegment, File, file_size, get_size
  <1>2. PICK byte \in Nat : byte = file.bytes[file.fp + 1]
    <2>1. file.bytes[file.fp + 1] \in Byte
      BY <1>1
    <2>2. PICK top \in Nat : top = Power2[ByteBits]
      BY Power2Step, ByteAssumption
    <2> QED
      BY <2>1, <2>2 DEF Byte
  <1>3. PICK n \in Nat : n = ByteBits * IdBytes
    BY ByteAssumption
  <1>4. PICK d \in Nat \ {0} : d = Power2[n]
    BY Power2Step
  <1>5. PICK m \in Nat : m = Power2[ByteBits]
    BY Power2Step, ByteAssumption
  <1>6. PICK x \in Nat : x = actual_id * m
    BY <1>3, <1>4 DEF SegmentTypes
  <1>7. (x + byte) % d \in 0 .. d - 1
    BY <1>2, <1>4, <1>6
  <1> QED
    BY <1>2, <1>3, <1>4, <1>5, <1>6, <1>7 DEF NextWindow, Window

(* The end of a call.                                                      *)
LEMMA SegmentEnded ==
  ASSUME SegmentInv, UNCHANGED <<file, kax, constant, delivered>>,
         pc' = "caller", l1' = NoElement, pc # "start",
         actual_id' \in 0 .. Power2[ByteBits * IdBytes] - 1
  PROVE  SegmentInv'
  <1>1. FileInSegment' /\ file_size' = file_size /\ file' = file
    BY FileStays DEF SegmentInv
  <1>2. SegmentTypes'
    BY <1>1 DEF SegmentInv, SegmentTypes, SegmentEnd, kax, constant
  <1>3. ElementsOfFile'
    BY <1>1 DEF SegmentInv, ElementsOfFile
  <1> QED
    BY <1>1, <1>2, <1>3 DEF SegmentInv

(* A step that goes to a position of the file, with l1 an element or       *)
(* nothing.                                                                *)
LEMMA SegmentMoves ==
  ASSUME SegmentInv, NEW fp \in Nat, fp >= 1, file' = [file EXCEPT !.fp = fp],
         pc # "start", pc' \in {"read_next", "resync", "scan", "caller", "done"},
         UNCHANGED <<segment_end, constant>>,
         l1' \in Elements(file) \cup {NoElement},
         delivered' \in Seq(Elements(file)),
         resynced' \in BOOLEAN, resync_start_pos' \in 0 .. segment_end,
         actual_id' \in 0 .. Power2[ByteBits * IdBytes] - 1
  PROVE  SegmentInv'
  <1>1. FileInSegment' /\ file_size' = file_size /\ Elements(file') = Elements(file)
    BY FileMoves DEF SegmentInv
  <1>2. SegmentTypes'
    BY <1>1 DEF SegmentInv, SegmentTypes, SegmentEnd, constant
  <1>3. ElementsOfFile'
    BY <1>1 DEF ElementsOfFile
  <1> QED
    BY <1>1, <1>2, <1>3 DEF SegmentInv

(* Every step keeps it.                                                    *)
LEMMA SegmentKept == ReaderInv /\ SegmentInv /\ [Next]_vars => SegmentInv'
  <1> SUFFICES ASSUME ReaderInv, SegmentInv, [Next]_vars PROVE SegmentInv'
    OBVIOUS
  <1>0. FileInSegment /\ SegmentTypes /\ ElementsOfFile
    BY DEF SegmentInv
  <1>1. /\ file \in File /\ file.fp \in Nat /\ file.fp >= 1 /\ file_size \in Nat
        /\ file_size = Len(file.bytes) /\ file_size >= 1
        /\ file = [file EXCEPT !.fp = file.fp]
    BY <1>0 DEF FileInSegment, File, file_size, get_size
  <1>2. /\ actual_id \in 0 .. Power2[ByteBits * IdBytes] - 1
        /\ segment_end \in Nat /\ 0 \in 0 .. segment_end
        /\ delivered \in Seq(Elements(file))
        /\ l1 \in Elements(file) \cup {NoElement}
    BY <1>0, <1>1 DEF SegmentTypes, ElementsOfFile
  <1>3. CASE set_segment_end
    <2>1. FileInSegment' /\ file_size' = file_size /\ file' = file
      BY <1>0, <1>3, FileStays DEF set_segment_end
    <2>2. SegmentTypes'
      <3>1. /\ SegmentEnd \in Nat /\ resync_start_pos \in 0 .. SegmentEnd
            /\ pc' \in {"read_next", "resync"}
        BY <1>0, <1>1, <1>3, IdsAssumption DEF SegmentTypes, SegmentEnd, set_segment_end
      <3> QED
        BY <1>0, <1>3, <2>1, <3>1 DEF set_segment_end, SegmentTypes, SegmentEnd, constant
    <2>3. ElementsOfFile'
      BY <1>0, <1>3, <2>1 DEF set_segment_end, ElementsOfFile
    <2> QED
      BY <2>1, <2>2, <2>3 DEF SegmentInv
  <1>4. CASE read_next_level1_element
    <2>1. pc = "read_next" /\ UNCHANGED <<actual_id, constant, delivered>>
      BY <1>4 DEF read_next_level1_element
    <2>2. CASE Ended
      BY <1>2, <2>1, <2>2, SegmentEnded DEF Ended
    <2>3. CASE Resyncs
      BY <1>1, <1>2, <2>1, <2>3, SegmentMoves DEF Resyncs
    <2>4. CASE Returns \/ PassesOver
      <3>1. PICK one : /\ OneHere(one)
                       /\ file' = [file EXCEPT !.fp = one.end]
                       /\ \/ pc' = "caller" /\ l1' = one
                          \/ pc' = "read_next" /\ l1' = l1
        BY <2>4 DEF Returns, PassesOver
      <3>2. one \in Elements(file)
        BY <1>0, <3>1, OneHereIs
      <3>3. one.end \in Nat /\ one.end >= 1
        BY <3>2, ElementsAre
      <3>4. UNCHANGED segment_end /\ resynced' = FALSE /\ resync_start_pos' = 0
        BY <2>4 DEF Returns, PassesOver
      <3> QED
        BY <1>2, <2>1, <3>1, <3>2, <3>3, <3>4, SegmentMoves
    <2> QED
      BY <1>0, <1>4, <2>2, <2>3, <2>4, ReadNextCases
  <1>5. CASE resync_to_level1_element
    <2>1. pc = "resync" /\ UNCHANGED <<constant, delivered>>
      BY <1>5 DEF resync_to_level1_element
    <2>2. CASE Ended /\ UNCHANGED actual_id
      BY <1>2, <2>1, <2>2, SegmentEnded DEF Ended
    <2>3. CASE ResyncBegins
      <3>1. PICK fp \in Nat : fp >= 1 /\ file' = [file EXCEPT !.fp = fp]
        <4>1. file.fp + IdBytes \in Nat /\ file.fp + IdBytes >= 1
          BY <1>1, ByteAssumption
        <4>2. Len(file.bytes) \in Nat /\ Len(file.bytes) >= 1
          BY <1>1
        <4> QED
          BY <1>1, <2>3, <4>1, <4>2 DEF ResyncBegins
      <3>2. resync_start_pos' \in 0 .. segment_end
        <4>1. segment_end # 0
          BY <1>0, <1>1, <2>1 DEF SegmentTypes, SegmentEnd
        <4> QED
          BY <1>1, <1>2, <2>3, <4>1 DEF ResyncBegins
      <3> QED
        BY <1>2, <2>1, <2>3, <3>1, <3>2, SegmentMoves DEF ResyncBegins
    <2> QED
      BY <1>0, <1>5, <2>2, <2>3, ResyncCases
  <1>6. CASE ScanByte
    <2>1. pc = "scan" /\ UNCHANGED <<kax, constant, delivered>>
      BY <1>6 DEF ScanByte
    <2>a. resynced' \in BOOLEAN /\ resync_start_pos' \in 0 .. segment_end /\ UNCHANGED segment_end
      BY <1>0, <2>1 DEF SegmentTypes, kax
    <2>2. CASE ScanEnds
      BY <1>2, <2>1, <2>2, SegmentEnded DEF ScanEnds
    <2>3. CASE ScansOn
      <3>1. file.fp + 1 \in Nat /\ file.fp + 1 >= 1
        BY <1>1
      <3>2. file' = [file EXCEPT !.fp = file.fp + 1]
        BY <2>3 DEF ScansOn, AtNextByte
      <3>3. actual_id' \in 0 .. Power2[ByteBits * IdBytes] - 1
        BY <1>0, <2>3, WindowRange DEF ScansOn
      <3>4. pc' = "scan" /\ l1' = l1
        BY <2>3 DEF ScansOn
      <3>5. PICK fp \in Nat : fp = file.fp + 1 /\ fp >= 1 /\ file' = [file EXCEPT !.fp = fp]
        BY <3>1, <3>2
      <3> QED
        BY <1>2, <2>1, <2>a, <3>3, <3>4, <3>5, SegmentMoves
    <2>4. CASE ScanAccepts
      <3>1. PICK fp \in Nat : fp >= 1 /\ file' = [file EXCEPT !.fp = fp]
        <4>1. resync_start_pos \in Nat
          BY <1>0, <1>1 DEF SegmentTypes
        <4>2. PICK fp \in Nat : fp = file.fp + 1 - IdBytes
          BY <2>4 DEF ScanAccepts
        <4> QED
          BY <2>4, <4>1, <4>2 DEF ScanAccepts
      <3>2. actual_id' \in 0 .. Power2[ByteBits * IdBytes] - 1
        BY <1>0, <2>4, WindowRange DEF ScanAccepts
      <3>3. pc' = "read_next" /\ l1' = l1
        BY <2>4 DEF ScanAccepts
      <3> QED
        BY <1>2, <2>1, <2>a, <3>1, <3>2, <3>3, SegmentMoves
    <2> QED
      BY <1>0, <1>6, <2>2, <2>3, <2>4, ScanCases
  <1>7. CASE handle_segment
    <2>1. pc = "caller" /\ UNCHANGED <<kax, actual_id, l1, constant>>
      BY <1>7 DEF handle_segment
    <2>2. pc' \in {"read_next", "resync", "done"}
      BY <1>7, IdsAssumption DEF handle_segment
    <2>3. delivered' \in Seq(Elements(file))
      BY <1>2, <1>7 DEF handle_segment
    <2>4. PICK fp \in Nat : fp >= 1 /\ file' = [file EXCEPT !.fp = fp]
      <3>1. l1 # NoElement => l1.end \in Nat /\ l1.end >= 1
        BY <1>2, ElementsAre
      <3>2. l1 # NoElement => setFilePointer2(file, l1.end).file = [file EXCEPT !.fp = l1.end]
        BY <3>1 DEF setFilePointer2, setFilePointer
      <3>3. file' = file \/ (l1 # NoElement /\ file' = setFilePointer2(file, l1.end).file)
        BY <1>7 DEF handle_segment
      <3> QED
        BY <1>1, <3>1, <3>2, <3>3
    <2>5. resynced' \in BOOLEAN /\ resync_start_pos' \in 0 .. segment_end /\ UNCHANGED segment_end
      BY <1>0, <2>1 DEF SegmentTypes, kax
    <2> QED
      BY <1>2, <2>1, <2>2, <2>3, <2>4, <2>5, SegmentMoves
  <1>8. CASE UNCHANGED vars
    <2>1. FileInSegment' /\ file_size' = file_size /\ file' = file
      BY <1>0, <1>8, FileStays DEF vars
    <2> QED
      BY <1>0, <1>8, <2>1
      DEF vars, kax, constant, SegmentInv, SegmentTypes, SegmentEnd, ElementsOfFile
  <1> QED
    BY <1>3, <1>4, <1>5, <1>6, <1>7, <1>8 DEF Next

(* The invariant of the file, the state and the elements.                  *)
THEOREM SegmentInvariance == Spec => [](ReaderInv /\ SegmentInv)
  BY InitReaderInv, NextReaderInv, SegmentInitially, SegmentKept, PTL DEF Spec

(* Every variable keeps its type, whatever the file holds: in particular   *)
(* every element returned begins inside the file.                          *)
THEOREM TypeCorrect == Spec => []TypeOK
  <1>1. SegmentInv => TypeOK
    <2> SUFFICES ASSUME SegmentInv PROVE TypeOK
      OBVIOUS
    <2>1. FileInSegment /\ SegmentTypes /\ ElementsOfFile
      BY DEF SegmentInv
    <2>2. file_size \in Nat /\ file_size = get_size(file)
      BY <2>1 DEF FileInSegment, File, file_size, get_size
    <2>3. \A element \in Elements(file) \cup {NoElement} :
            element \in [pos : 0 .. file_size, id : Nat, end : Nat]
      BY <2>2 DEF Elements, NoElement
    <2>4. Range(delivered) \cup {l1} \subseteq Elements(file) \cup {NoElement}
      <3>1. \A i \in DOMAIN delivered : delivered[i] \in Elements(file)
        BY <2>1 DEF ElementsOfFile
      <3> QED
        BY <2>1, <3>1 DEF ElementsOfFile, Range
    <2> QED
      BY <2>1, <2>3, <2>4 DEF TypeOK, FileInSegment, SegmentTypes
  <1> QED
    BY <1>1, SegmentInvariance, PTL

-----------------------------------------------------------------------------
(* A step does no more to the file than put its pointer somewhere.         *)
LEMMA PointerMoves ==
  ASSUME ReaderInv, SegmentInv, [Next]_vars
  PROVE  \E fp \in Nat : fp >= 1 /\ file' = [file EXCEPT !.fp = fp]
  <1>0. FileInSegment /\ SegmentTypes /\ ElementsOfFile
    BY DEF SegmentInv
  <1>1. /\ file \in File /\ file.fp \in Nat /\ file.fp >= 1
        /\ file = [file EXCEPT !.fp = file.fp]
        /\ Len(file.bytes) \in Nat /\ Len(file.bytes) >= 1
    BY <1>0 DEF FileInSegment, File
  <1>2. CASE UNCHANGED file
    BY <1>1, <1>2
  <1>3. \A one : OneHere(one) => one.end \in Nat /\ one.end >= 1
    <2> SUFFICES ASSUME NEW one, OneHere(one) PROVE one.end \in Nat /\ one.end >= 1
      OBVIOUS
    <2>1. one \in Elements(file)
      BY <1>0, OneHereIs
    <2> QED
      BY <2>1, ElementsAre
  <1>4. CASE read_next_level1_element
    <2>1. CASE Ended \/ Resyncs
      BY <1>2, <2>1 DEF Ended, Resyncs
    <2>2. CASE Returns \/ PassesOver
      <3>1. PICK one : OneHere(one) /\ file' = [file EXCEPT !.fp = one.end]
        BY <2>2 DEF Returns, PassesOver
      <3> QED
        BY <1>3, <3>1
    <2> QED
      BY <1>0, <1>4, <2>1, <2>2, ReadNextCases
  <1>5. CASE resync_to_level1_element
    <2>1. CASE Ended
      BY <1>2, <2>1 DEF Ended
    <2>2. CASE ResyncBegins
      <3>1. file.fp + IdBytes \in Nat /\ file.fp + IdBytes >= 1
        BY <1>1, ByteAssumption
      <3> QED
        BY <1>1, <2>2, <3>1 DEF ResyncBegins
    <2> QED
      BY <1>0, <1>5, <2>1, <2>2, ResyncCases
  <1>6. CASE ScanByte
    <2>1. CASE ScanEnds
      BY <1>2, <2>1 DEF ScanEnds
    <2>2. CASE ScansOn
      <3>1. file.fp + 1 \in Nat /\ file.fp + 1 >= 1
        BY <1>1
      <3> QED
        BY <2>2, <3>1 DEF ScansOn, AtNextByte
    <2>3. CASE ScanAccepts
      <3>1. resync_start_pos \in Nat
        BY <1>0 DEF SegmentTypes
      <3>2. PICK fp \in Nat : fp = file.fp + 1 - IdBytes
        BY <2>3 DEF ScanAccepts
      <3> QED
        BY <2>3, <3>1, <3>2 DEF ScanAccepts
    <2> QED
      BY <1>0, <1>6, <2>1, <2>2, <2>3, ScanCases
  <1>7. CASE handle_segment
    <2>1. l1 # NoElement => l1.end \in Nat /\ l1.end >= 1
      BY <1>0, ElementsAre DEF ElementsOfFile
    <2>2. l1 # NoElement => setFilePointer2(file, l1.end).file = [file EXCEPT !.fp = l1.end]
      BY <2>1 DEF setFilePointer2, setFilePointer
    <2>3. file' = file \/ (l1 # NoElement /\ file' = setFilePointer2(file, l1.end).file)
      BY <1>7 DEF handle_segment
    <2> QED
      BY <1>1, <2>1, <2>2, <2>3
  <1> QED
    BY <1>2, <1>4, <1>5, <1>6, <1>7 DEF Next, set_segment_end, vars

(* So no step changes the bytes of the file, its size or the Segment.      *)
LEMMA BytesStay ==
  ASSUME ReaderInv, SegmentInv, [Next]_vars
  PROVE  /\ SameBytes(file, file') /\ SameBytes(file', file)
         /\ file_size' = file_size
         /\ UNCHANGED constant
  <1>1. PICK fp \in Nat : fp >= 1 /\ file' = [file EXCEPT !.fp = fp]
    BY PointerMoves
  <1>2. FileInSegment
    BY DEF SegmentInv
  <1>3. UNCHANGED constant
    BY DEF Next, set_segment_end, read_next_level1_element, resync_to_level1_element,
           ScanByte, handle_segment, vars
  <1> QED
    BY <1>1, <1>2, <1>3, FileMoves

(* What the caller has been given so far.                                  *)
Held == Range(delivered) \cup {l1}

(* What it holds after a step it held before, it is nothing, or read_next  *)
(* has just returned it.                                                   *)
LEMMA HeldAfter ==
  ASSUME ReaderInv, SegmentInv, [Next]_vars, NEW e \in Held'
  PROVE  \/ e \in Held
         \/ e = NoElement
         \/ pc = "read_next" /\ Returns /\ e = l1'
  <1>0. FileInSegment /\ SegmentTypes /\ ElementsOfFile
    BY DEF SegmentInv
  <1>1. e \in Range(delivered)' \/ e = l1'
    BY DEF Held
  <1>2. Range(delivered)' \subseteq Range(delivered) \cup {l1}
    <2>1. CASE delivered' = delivered
      BY <2>1 DEF Range
    <2>2. CASE delivered' = Append(delivered, l1)
      BY <1>0, <2>2 DEF Range, ElementsOfFile
    <2> QED
      BY <2>1, <2>2
      DEF Next, set_segment_end, read_next_level1_element, resync_to_level1_element,
          ScanByte, handle_segment, vars
  <1>3. l1' \in {l1, NoElement} \/ (pc = "read_next" /\ Returns)
    <2>1. CASE read_next_level1_element
      <3>1. pc = "read_next"
        BY <2>1 DEF read_next_level1_element
      <3>2. Ended \/ Resyncs \/ Returns \/ PassesOver
        BY <1>0, <2>1, ReadNextCases
      <3> QED
        BY <3>1, <3>2 DEF Ended, Resyncs, PassesOver
    <2>2. CASE resync_to_level1_element
      <3>1. Ended \/ ResyncBegins
        BY <1>0, <2>2, ResyncCases
      <3> QED
        BY <3>1 DEF Ended, ResyncBegins
    <2>3. CASE ScanByte
      <3>1. ScanEnds \/ ScansOn \/ ScanAccepts
        BY <1>0, <2>3, ScanCases
      <3> QED
        BY <3>1 DEF ScanEnds, ScansOn, ScanAccepts
    <2> QED
      BY <2>1, <2>2, <2>3 DEF Next, set_segment_end, handle_segment, vars
  <1> QED
    BY <1>1, <1>2, <1>3 DEF Held

-----------------------------------------------------------------------------
(* What read_next looks at when it returns is a known ID.                  *)
LEMMA KnownWhenDirect ==
  ASSUME FileInSegment, KnownId(IdHere)
  PROVE  KnownIdAt(file, file.fp)
  <1>1. IdHere # NoVint
    BY DEF KnownId, is_valid, NoVint
  <1>2. IsReadAt(IdHere, file, file.fp, "rm_ebml_id")
    <2>1. PICK pos \in Nat : pos = file.fp
      BY DEF FileInSegment, File
    <2>2. "rm_ebml_id" \in Mode /\ file \in File /\ file.open
      BY DEF Mode, FileInSegment
    <2>3. \/ VintAt(file, pos, "rm_ebml_id") = NoVint
          \/ IsReadAt(VintAt(file, pos, "rm_ebml_id"), file, pos, "rm_ebml_id")
      BY <2>2, VintAtIs
    <2> QED
      BY <1>1, <2>1, <2>3 DEF IdHere
  <1>3. IdHere.value # 0
    BY <1>2 DEF IsReadAt
  <1>4. IdHere.value \in Level1Ids \cup GlobalIds
    BY <1>3, IdsAssumption
    DEF KnownId, Direct, Skip, is_level1_element_id, is_global_element_id
  <1> QED
    BY <1>4 DEF KnownIdAt, IdHere

BrokenInside(f, end) == \E pos \in 1 .. end - 1 : KnownIdAt(f, pos) /\ ~Header(f, pos).decodes

OutsideInv ==
  l0.finite => \A e \in Held : e.pos >= l0.end => BrokenInside(file, l0.end)

(* It keeps being true: an element that begins behind the end is found     *)
(* only from a known ID inside, which then has no header.                  *)
LEMMA OutsideKept ==
  ASSUME ReaderInv, SegmentInv, OutsideInv, [Next]_vars
  PROVE  OutsideInv'
  <1>0. FileInSegment /\ SegmentTypes /\ ElementsOfFile
    BY DEF SegmentInv
  <1>1. SameBytes(file, file') /\ l0' = l0
    BY BytesStay DEF constant
  <1>2. BrokenInside(file, l0.end) => BrokenInside(file', l0.end)
    <2> HAVE BrokenInside(file, l0.end)
    <2>1. PICK pos \in 1 .. l0.end - 1 : KnownIdAt(file, pos) /\ ~Header(file, pos).decodes
      BY DEF BrokenInside
    <2>2. pos \in Nat
      BY <2>1
    <2>3. KnownIdAt(file', pos)
      BY <1>1, <2>1, <2>2, SameVint DEF KnownIdAt
    <2>4. ~Header(file', pos).decodes
      BY <1>1, <2>1, <2>2, SameHeader
    <2> QED
      BY <2>1, <2>3, <2>4 DEF BrokenInside
  <1> SUFFICES ASSUME l0.finite, NEW e \in Held', e.pos >= l0.end
               PROVE  BrokenInside(file, l0.end)
    BY <1>1, <1>2 DEF OutsideInv
  <1>3. CASE e \in Held
    BY <1>3 DEF OutsideInv
  <1>4. l0.end \in Nat /\ l0.end >= 1 /\ file_size \in Nat
    BY <1>0 DEF SegmentTypes, FileInSegment, File, file_size, get_size
  <1>5. CASE e = NoElement
    BY <1>4, <1>5 DEF NoElement
  <1>6. CASE pc = "read_next" /\ Returns /\ e = l1'
    <2>1. segment_end = l0.end
      BY <1>0, <1>6 DEF SegmentTypes, SegmentEnd
    <2>2. file.fp < l0.end /\ KnownId(IdHere)
      BY <1>4, <1>6, <2>1 DEF Returns, KnownId
    <2>3. OneHere(e)
      BY <1>6 DEF Returns
    <2>4. /\ file.fp \in Nat /\ file.fp >= 1
          /\ e.pos \in Nat /\ e.pos >= file.fp
          /\ \A before \in file.fp .. e.pos - 1 : ~Header(file, before).decodes
      <3>1. e \in Elements(file)
        BY <1>0, <2>3, OneHereIs
      <3> QED
        BY <1>0, <2>3, <3>1, OneHereIs, ElementsAre DEF FileInSegment, File
    <2>5. file.fp \in file.fp .. e.pos - 1 /\ file.fp \in 1 .. l0.end - 1
      BY <1>4, <2>2, <2>4
    <2>6. KnownIdAt(file, file.fp) /\ ~Header(file, file.fp).decodes
      BY <1>0, <2>2, <2>4, <2>5, KnownWhenDirect
    <2> QED
      BY <2>5, <2>6 DEF BrokenInside
  <1> QED
    BY <1>3, <1>5, <1>6, HeldAfter

(* An element that begins behind the end of the Segment is delivered only  *)
(* where a known ID inside has no header that decodes.                     *)
THEOREM OutsideBehindBrokenHeader == Spec => []OutsideOnlyBehindBrokenHeader
  <1>1. Init => OutsideInv
    <2> SUFFICES ASSUME Init PROVE OutsideInv
      OBVIOUS
    <2>1. Held = {NoElement}
      BY DEF Init, Held, Range
    <2>2. SegmentTypes /\ file_size \in Nat
      BY SegmentInitially DEF SegmentInv, FileInSegment, File, file_size, get_size
    <2>3. l0.finite => l0.end \in Nat /\ l0.end >= 1
      BY <2>2 DEF SegmentTypes
    <2> QED
      BY <2>1, <2>3 DEF OutsideInv, NoElement
  <1>2. OutsideInv => OutsideOnlyBehindBrokenHeader
    BY DEF OutsideInv, OutsideOnlyBehindBrokenHeader, BrokenInside, Held, Range
  <1>3. (ReaderInv /\ SegmentInv) /\ OutsideInv /\ [Next]_vars => OutsideInv'
    BY OutsideKept
  <1> QED
    BY <1>1, <1>2, <1>3, SegmentInvariance, PTL DEF Spec

-----------------------------------------------------------------------------
(* The chain of headers behind a candidate.                                *)

(* Three turns of the loop.                                                *)
Further(links) == UNION {NextLink(link) : link \in links}

(* The recursive function of Chains does what its definition says.         *)
LEMMA ChainsAre ==
  ASSUME NEW f
  PROVE  Chains(f) = Further(Further(Further({FirstLink(f)})))
  <1> DEFINE Solves(g) == g = [idx \in 0 .. 3 |->
                                 IF idx = 0 THEN {FirstLink(f)}
                                 ELSE UNION {NextLink(link) : link \in g[idx - 1]}]
             chain == CHOOSE g : Solves(g)
  <1>1. Chains(f) = chain[3]
    BY DEF Chains
  <1>2. PICK c0, c1, c2, c3 : /\ c0 = {FirstLink(f)} /\ c1 = Further(c0)
                              /\ c2 = Further(c1) /\ c3 = Further(c2)
    OBVIOUS
  <1>3. \E g : Solves(g)
    <2>1. PICK g : g = [idx \in 0 .. 3 |-> IF idx = 0 THEN c0 ELSE IF idx = 1 THEN c1
                                           ELSE IF idx = 2 THEN c2 ELSE c3]
      OBVIOUS
    <2>2. g[0] = c0 /\ g[1] = c1 /\ g[2] = c2
      BY <2>1
    <2>3. \A idx \in 0 .. 3 : g[idx] = IF idx = 0 THEN {FirstLink(f)} ELSE Further(g[idx - 1])
      <3>1. \A idx \in 0 .. 3 : idx = 0 \/ idx = 1 \/ idx = 2 \/ idx = 3
        OBVIOUS
      <3>2. 1 - 1 = 0 /\ 2 - 1 = 1 /\ 3 - 1 = 2
        OBVIOUS
      <3> QED
        BY <1>2, <2>1, <2>2, <3>1, <3>2
    <2>4. g = [idx \in 0 .. 3 |-> IF idx = 0 THEN {FirstLink(f)} ELSE Further(g[idx - 1])]
      BY <2>1, <2>3
    <2> QED
      BY <2>4 DEF Further
  <1>4. Solves(chain)
    <2> HIDE DEF Solves
    <2> QED
      BY <1>3
  <1> HIDE DEF chain
  <1>5. \A idx \in 0 .. 3 : chain[idx] = IF idx = 0 THEN {FirstLink(f)} ELSE Further(chain[idx - 1])
    BY <1>4 DEF Further
  <1>6. /\ chain[0] = {FirstLink(f)} /\ chain[1] = Further(chain[0])
        /\ chain[2] = Further(chain[1]) /\ chain[3] = Further(chain[2])
    <2>1. 0 \in 0 .. 3 /\ 1 \in 0 .. 3 /\ 2 \in 0 .. 3 /\ 3 \in 0 .. 3
      OBVIOUS
    <2>2. 1 - 1 = 0 /\ 2 - 1 = 1 /\ 3 - 1 = 2 /\ 1 # 0 /\ 2 # 0 /\ 3 # 0
      OBVIOUS
    <2> QED
      BY <1>5, <2>1, <2>2
  <1> QED
    BY <1>1, <1>6

(* What a link is, while the bytes of the file are the ones there are.     *)
IsLink(link) ==
  \E S : link \in [file : {g \in File : SameBytes(file, g)}, element_pos : Nat,
                   num_headers : Nat, valid_unknown_size : BOOLEAN,
                   sizes : Seq(S), more : BOOLEAN]

Negative(link) == \E i \in DOMAIN link.sizes : link.sizes[i].size.value < 0

(* A link that still looks at headers inside the file.                     *)
OnTrack(link) ==
  /\ IsLink(link)
  /\ link.file.fp = link.element_pos + IdBytes
  /\ link.file.fp <= file_size

SizeAt(pos) == VintAt(file, pos + IdBytes, "rm_normal")

(* Where the header behind the one at pos begins, were no number bounded.  *)
HeaderBehind(pos) == pos + IdBytes + SizeAt(pos).coded_size + SizeAt(pos).value

(* What a turn makes of a link: it stops, at a size that is not known; it  *)
(* stops, at the end of the file; it goes on to the next header, and takes *)
(* its ID from the file.                                                   *)
StopsUnknown(link, next) ==
  /\ is_unknown(SizeAt(link.element_pos))
  /\ next.valid_unknown_size /\ ~next.more

StopsAtEnd(link, next) ==
  /\ ~is_unknown(SizeAt(link.element_pos))
  /\ HeaderBehind(link.element_pos) + IdBytes >= file_size
  /\ next.num_headers = link.num_headers
  /\ ~next.more

GoesOn(link, next) ==
  /\ ~is_unknown(SizeAt(link.element_pos))
  /\ HeaderBehind(link.element_pos) + IdBytes < file_size
  /\ OnTrack(next)
  /\ next.element_pos = HeaderBehind(link.element_pos)
  /\ next.more <=> Matches(IdAt(file, next.element_pos))
  /\ next.num_headers = IF next.more THEN link.num_headers + 1 ELSE link.num_headers

(* A link with one size more, and all else as given.                       *)
Extended(link, next, g, pos, num, unknown, size, more) ==
  /\ IsLink(link)
  /\ g \in File /\ SameBytes(file, g)
  /\ pos \in Nat /\ num \in Nat /\ unknown \in BOOLEAN /\ more \in BOOLEAN
  /\ next = [link EXCEPT !.file = g, !.element_pos = pos, !.num_headers = num,
                         !.valid_unknown_size = unknown,
                         !.sizes = Append(link.sizes, size), !.more = more]

(* It is a link with these fields.                                         *)
LEMMA LinkFields ==
  ASSUME NEW link, NEW next, NEW g, NEW pos, NEW num, NEW unknown, NEW size, NEW more,
         Extended(link, next, g, pos, num, unknown, size, more)
  PROVE  /\ IsLink(next)
         /\ next.file = g /\ next.element_pos = pos /\ next.num_headers = num
         /\ next.valid_unknown_size = unknown /\ next.more = more
         /\ next.sizes = Append(link.sizes, size)
         /\ Negative(link) => Negative(next)
         /\ size.size.value < 0 => Negative(next)
  <1>1. PICK S : link \in [file : {h \in File : SameBytes(file, h)}, element_pos : Nat,
                           num_headers : Nat, valid_unknown_size : BOOLEAN,
                           sizes : Seq(S), more : BOOLEAN]
    BY DEF Extended, IsLink
  <1>2. /\ next.file = g /\ next.element_pos = pos /\ next.num_headers = num
        /\ next.valid_unknown_size = unknown /\ next.more = more
        /\ next.sizes = Append(link.sizes, size)
    BY <1>1 DEF Extended
  <1>3. PICK T : T = S \cup {size}
    OBVIOUS
  <1>4. link.sizes \in Seq(S) /\ link.sizes \in Seq(T) /\ Append(link.sizes, size) \in Seq(T)
    <2>1. link.sizes \in Seq(S) /\ S \subseteq T /\ size \in T
      BY <1>1, <1>3
    <2>2. link.sizes \in Seq(T)
      BY <2>1, SeqOfSubset
    <2> QED
      BY <2>1, <2>2
  <1>5. next \in [file : {h \in File : SameBytes(file, h)}, element_pos : Nat,
                  num_headers : Nat, valid_unknown_size : BOOLEAN,
                  sizes : Seq(T), more : BOOLEAN]
    BY <1>1, <1>4 DEF Extended
  <1>6. IsLink(next)
    BY <1>5 DEF IsLink
  <1>7. PICK s, t : s = link.sizes /\ t = next.sizes /\ t = Append(s, size) /\ s \in Seq(T)
    BY <1>2, <1>4
  <1>8. \A i \in DOMAIN s : i \in DOMAIN t /\ t[i] = s[i]
    BY <1>7
  <1>9. Len(t) \in DOMAIN t /\ t[Len(t)] = size
    BY <1>7
  <1> QED
    BY <1>2, <1>6, <1>7, <1>8, <1>9 DEF Negative

(* The size a link reads, and the file behind it.                          *)
LEMMA LinkReads ==
  ASSUME FileInSegment, NEW link, OnTrack(link)
  PROVE  \E g : /\ read(link.file, "rm_normal") =
                     {[vint |-> SizeAt(link.element_pos), file |-> g]}
                /\ g \in File /\ SameBytes(file, g)
                /\ \/ SizeAt(link.element_pos) = NoVint
                   \/ IsReadAt(SizeAt(link.element_pos), file,
                               link.element_pos + IdBytes, "rm_normal")
  <1>1. /\ link.file \in File /\ SameBytes(file, link.file) /\ link.element_pos \in Nat
        /\ link.file.fp = link.element_pos + IdBytes
    BY DEF OnTrack, IsLink
  <1>a. PICK h : h = link.file
    OBVIOUS
  <1>2. PICK at \in Nat : at = link.element_pos + IdBytes
    BY <1>1, ByteAssumption
  <1>3. /\ h \in File /\ h.open /\ h.bytes = file.bytes /\ h.open = file.open
        /\ h.fp = at /\ file \in File /\ file.open /\ SameBytes(h, file)
    BY <1>1, <1>a, <1>2 DEF SameBytes
  <1>4. [h EXCEPT !.fp = at] = h
    BY <1>3 DEF File
  <1>5. "rm_normal" \in Mode
    BY DEF Mode
  <1>6. VintAt(h, at, "rm_normal") = VintAt(file, at, "rm_normal")
    BY <1>3, SameVint
  <1>7. VintAt(file, at, "rm_normal") = SizeAt(link.element_pos)
    BY <1>2 DEF SizeAt
  <1>8. PICK g : /\ read(h, "rm_normal") = {[vint |-> SizeAt(link.element_pos), file |-> g]}
                 /\ g \in File /\ g.open = h.open /\ g.bytes = h.bytes
    <2>1. PICK mode \in Mode : mode = "rm_normal"
      BY <1>5
    <2>2. PICK g : /\ read([h EXCEPT !.fp = at], mode) = {[vint |-> VintAt(h, at, mode), file |-> g]}
                   /\ g \in File /\ g.open = h.open /\ g.bytes = h.bytes
                   /\ \/ VintAt(h, at, mode) = NoVint
                      \/ g.fp = at + VintAt(h, at, mode).coded_size
      BY <1>3, VintAtIs
    <2> QED
      BY <1>4, <1>6, <1>7, <2>1, <2>2
  <1>9. \/ VintAt(file, at, "rm_normal") = NoVint
        \/ IsReadAt(VintAt(file, at, "rm_normal"), file, at, "rm_normal")
    BY <1>3, <1>5, VintAtIs
  <1>10. SameBytes(file, g)
    BY <1>3, <1>8 DEF SameBytes
  <1> QED
    BY <1>a, <1>2, <1>7, <1>8, <1>9, <1>10

(* The test of an ID is true or false.                                     *)
LEMMA MatchesIsBoolean ==
  ASSUME NEW id
  PROVE  Matches(id) \in BOOLEAN
  <1>1. CASE WantedId = 0
    BY <1>1 DEF Matches, is_level1_element_id
  <1>2. CASE WantedId # 0
    BY <1>2 DEF Matches
  <1> QED
    BY <1>1, <1>2

(* With that size, as long as no number is negative, a turn has one        *)
(* outcome, and it is what a number without bounds would give.             *)
LEMMA TurnOnward ==
  ASSUME FileInSegment, NEW link, OnTrack(link), NEW g \in File, SameBytes(file, g),
         NEW v, v = SizeAt(link.element_pos), ~is_unknown(v),
         IsReadAt(v, file, link.element_pos + IdBytes, "rm_normal"),
         HeaderBehind(link.element_pos) >= 0
  PROVE  \E next : /\ LinkWith(link, v, g) = {next}
                   /\ StopsAtEnd(link, next) \/ GoesOn(link, next)
  <1>1. PICK pos \in Nat : /\ pos = link.element_pos /\ pos + IdBytes <= file_size
                           /\ link.num_headers \in Nat /\ link.valid_unknown_size \in BOOLEAN
    BY DEF OnTrack, IsLink
  <1>2. PICK B \in Nat, I \in Nat : B = ByteBits /\ I = IdBytes
    BY ByteAssumption
  <1>3. PICK half \in Nat \ {0} : half = Power2[Word - 1] /\ Power2[Word] = 2 * half
    BY WordBits
  <1>4. PICK n \in Nat : /\ n = file_size /\ n = Len(file.bytes) /\ n = get_size(file)
                         /\ n + B + 2 * I + 1 <= half
    BY <1>2, <1>3 DEF FileInSegment, File, file_size, get_size
  <1>5. PICK size \in Nat, value \in Int :
          size = v.coded_size /\ value = v.value /\ size <= B + 1 /\ value < half
    BY <1>2, <1>3 DEF IsReadAt
  <1>6. PICK at \in Nat : at = pos + I + size + value /\ at = HeaderBehind(pos)
    <2>1. HeaderBehind(pos) = pos + I + size + value
      BY <1>1, <1>2, <1>5 DEF HeaderBehind
    <2>2. HeaderBehind(pos) \in Int /\ HeaderBehind(pos) >= 0
      BY <1>1, <2>1
    <2> QED
      BY <2>1, <2>2
  <1>7. at + I < 2 * half
    BY <1>1, <1>2, <1>4, <1>5, <1>6
  <1>8. \A x \in 0 .. 2 * half - 1 : Unsigned(x) = x
    <2> TAKE x \in 0 .. 2 * half - 1
    <2>1. 0 * (2 * half) + x = x /\ 0 \in Nat /\ 2 * half \in Nat \ {0}
      OBVIOUS
    <2>2. PICK d \in Nat \ {0} : d = 2 * half
      BY <2>1
    <2>3. (0 * d + x) % d = x
      BY <2>2, DivisionUnique
    <2>4. 0 * d + x = x
      BY <2>2
    <2> QED
      BY <1>3, <2>2, <2>3, <2>4 DEF Unsigned
  <1>9. Behind(link, v, 1) = at /\ Behind(link, v, 2) = at + I
    <2>1. /\ link.element_pos + v.value + v.coded_size + 1 * IdBytes = at
          /\ link.element_pos + v.value + v.coded_size + 2 * IdBytes = at + I
      BY <1>1, <1>2, <1>5, <1>6
    <2>2. at \in 0 .. 2 * half - 1 /\ at + I \in 0 .. 2 * half - 1
      BY <1>6, <1>7
    <2> QED
      BY <1>8, <2>1, <2>2 DEF Behind
  <1>10. PICK sizes : sizes = Append(link.sizes, [pos |-> link.element_pos, size |-> v])
    OBVIOUS
  <1>11. PICK there : there = setFilePointer2(g, Signed(Behind(link, v, 1)))
    OBVIOUS
  <1>12. there.ok
    BY <1>11 DEF setFilePointer2
  <1>13. is_valid(v)
    BY DEF is_unknown
  <1>14. LinkWith(link, v, g) =
           IF at + I >= n
           THEN {[link EXCEPT !.file = g, !.sizes = sizes, !.more = FALSE]}
           ELSE {[link EXCEPT !.file = next.file, !.element_pos = there.file.fp, !.sizes = sizes,
                              !.num_headers = IF Matches(next.value) THEN @ + 1 ELSE @,
                              !.more = Matches(next.value)]
                   : next \in read_uint32_be(there.file)}
    BY <1>4, <1>9, <1>10, <1>11, <1>12, <1>13 DEF LinkWith, LeavesFile
  <1>15. PICK S : link \in [file : {h \in File : SameBytes(file, h)}, element_pos : Nat,
                            num_headers : Nat, valid_unknown_size : BOOLEAN,
                            sizes : Seq(S), more : BOOLEAN]
    BY DEF OnTrack, IsLink
  <1>16. CASE at + I >= n
    <2>1. PICK next : next = [link EXCEPT !.file = g, !.sizes = sizes, !.more = FALSE]
      OBVIOUS
    <2>2. next.num_headers = link.num_headers /\ ~next.more
      BY <1>15, <2>1
    <2>3. LinkWith(link, v, g) = {next}
      BY <1>14, <1>16, <2>1
    <2>4. StopsAtEnd(link, next)
      BY <1>1, <1>2, <1>4, <1>6, <1>16, <2>2 DEF StopsAtEnd
    <2> QED
      BY <2>3, <2>4
  <1>17. CASE at + I < n
    <2>1. Signed(at) = at
      <3>1. at \in 0 .. Power2[Word - 1] - 1
        BY <1>3, <1>4, <1>17
      <3> QED
        BY <3>1, SignedSmall
    <2>2. PICK h : h = [g EXCEPT !.fp = at]
      OBVIOUS
    <2>3. there.file = h /\ h \in File /\ h.fp = at /\ h.bytes = file.bytes /\ SameBytes(file, h)
      BY <1>9, <1>11, <2>1, <2>2 DEF setFilePointer2, setFilePointer, File, SameBytes
    <2>4. PICK k : k = [h EXCEPT !.fp = at + I]
      OBVIOUS
    <2>5. k \in File /\ SameBytes(file, k) /\ k.fp = at + I
      <3>1. at + I \in Nat
        OBVIOUS
      <3>2. k \in File /\ k.fp = at + I
        BY <2>3, <2>4, <3>1 DEF File
      <3>3. k.bytes = h.bytes /\ k.open = h.open
        BY <2>3, <2>4 DEF File
      <3> QED
        BY <2>3, <3>2, <3>3 DEF SameBytes
    <2>6. PICK id : id = IdAt(file, at)
      OBVIOUS
    <2>7. read_uint32_be(there.file) = {[value |-> id, file |-> k]}
      <3>0. Len(h.bytes) = n
        BY <1>4, <2>3
      <3>1. h.fp + IdBytes <= Len(h.bytes)
        BY <1>2, <1>17, <2>3, <3>0
      <3>2. IdAt(h, h.fp) = id
        BY <2>3, <2>6 DEF IdAt
      <3>3. read_uint32_be(h) = {[value |-> IdAt(h, h.fp), file |-> [h EXCEPT !.fp = h.fp + IdBytes]]}
        BY <2>3, <3>1, ReadWholeId
      <3> QED
        BY <1>2, <2>3, <2>4, <3>2, <3>3
    <2>8. PICK num \in Nat, more \in BOOLEAN :
            /\ num = IF Matches(id) THEN link.num_headers + 1 ELSE link.num_headers
            /\ more = Matches(id)
      <3>1. (IF Matches(id) THEN link.num_headers + 1 ELSE link.num_headers) \in Nat
        BY <1>1
      <3>2. Matches(id) \in BOOLEAN
        BY MatchesIsBoolean
      <3> QED
        BY <3>1, <3>2
    <2>9. PICK next : next = [link EXCEPT !.file = k, !.element_pos = at, !.sizes = sizes,
                                          !.num_headers = num, !.more = more]
      OBVIOUS
    <2>10. LinkWith(link, v, g) = {next}
      <3> DEFINE After(w) == [link EXCEPT !.file = w.file, !.element_pos = there.file.fp,
                                !.sizes = sizes,
                                !.num_headers = IF Matches(w.value) THEN @ + 1 ELSE @,
                                !.more = Matches(w.value)]
      <3>1. PICK w : w = [value |-> id, file |-> k]
        OBVIOUS
      <3>2. w.value = id /\ w.file = k /\ there.file.fp = at
        BY <2>3, <3>1
      <3>3. After(w) = next
        BY <1>15, <2>8, <2>9, <3>2
      <3>4. LinkWith(link, v, g) = {After(x) : x \in {w}}
        BY <1>4, <1>14, <1>17, <2>7, <3>1
      <3> HIDE DEF After
      <3> QED
        BY <3>3, <3>4
    <2>11. /\ IsLink(next) /\ next.file = k /\ next.element_pos = at
           /\ next.num_headers = num /\ next.more = more
      <3>1. next = [link EXCEPT !.file = k, !.element_pos = at, !.num_headers = num,
                                !.valid_unknown_size = link.valid_unknown_size,
                                !.sizes = Append(link.sizes, [pos |-> link.element_pos, size |-> v]),
                                !.more = more]
        BY <1>10, <1>15, <2>9
      <3>2. PICK unknown \in BOOLEAN : unknown = link.valid_unknown_size
        BY <1>1
      <3>3. PICK header : header = [pos |-> link.element_pos, size |-> v]
        OBVIOUS
      <3>4. IsLink(link)
        BY DEF OnTrack
      <3>5. Extended(link, next, k, at, num, unknown, header, more)
        BY <2>5, <3>1, <3>2, <3>3, <3>4 DEF Extended
      <3> QED
        BY <3>5, LinkFields
    <2>12. GoesOn(link, next)
      <3>1. OnTrack(next)
        BY <1>2, <1>4, <1>17, <2>5, <2>11 DEF OnTrack
      <3> QED
        BY <1>1, <1>2, <1>4, <1>6, <1>17, <2>6, <2>8, <2>11, <3>1 DEF GoesOn
    <2> QED
      BY <2>10, <2>12
  <1> QED
    BY <1>2, <1>4, <1>6, <1>16, <1>17

(* Whatever the size, a turn adds it to the link, and the file is the one  *)
(* there is.                                                               *)
LEMMA AnyTurn ==
  ASSUME NEW link, IsLink(link), NEW g \in File, SameBytes(file, g), NEW v,
         NEW next \in LinkWith(link, v, g),
         NEW size, size = [pos |-> link.element_pos, size |-> v]
  PROVE  \E h, pos, num, unknown, more : Extended(link, next, h, pos, num, unknown, size, more)
  <1>1. PICK S : link \in [file : {h \in File : SameBytes(file, h)}, element_pos : Nat,
                           num_headers : Nat, valid_unknown_size : BOOLEAN,
                           sizes : Seq(S), more : BOOLEAN]
    BY DEF IsLink
  <1>2. PICK sizes : sizes = Append(link.sizes, size)
    OBVIOUS
  <1>3. PICK there : there = setFilePointer2(g, Signed(Behind(link, v, 1)))
    OBVIOUS
  <1>4. \/ next \in {[link EXCEPT !.file = g, !.valid_unknown_size = TRUE, !.sizes = sizes,
                                  !.more = FALSE]}
        \/ next \in {[link EXCEPT !.file = g, !.sizes = sizes, !.more = FALSE]}
        \/ next \in {[link EXCEPT !.file = w.file, !.element_pos = there.file.fp, !.sizes = sizes,
                                  !.num_headers = IF Matches(w.value) THEN @ + 1 ELSE @,
                                  !.more = Matches(w.value)]
                       : w \in read_uint32_be(there.file)}
    BY <1>2, <1>3 DEF LinkWith
  <1>5. CASE next \in {[link EXCEPT !.file = g, !.valid_unknown_size = TRUE, !.sizes = sizes,
                                    !.more = FALSE]}
    <2>1. Extended(link, next, g, link.element_pos, link.num_headers, TRUE, size, FALSE)
      BY <1>1, <1>2, <1>5 DEF Extended
    <2> QED
      BY <2>1
  <1>6. CASE next \in {[link EXCEPT !.file = g, !.sizes = sizes, !.more = FALSE]}
    <2>1. Extended(link, next, g, link.element_pos, link.num_headers, link.valid_unknown_size,
                   size, FALSE)
      BY <1>1, <1>2, <1>6 DEF Extended
    <2> QED
      BY <2>1
  <1>7. ASSUME NEW w \in read_uint32_be(there.file),
               next = [link EXCEPT !.file = w.file, !.element_pos = there.file.fp,
                                   !.sizes = sizes,
                                   !.num_headers = IF Matches(w.value) THEN @ + 1 ELSE @,
                                   !.more = Matches(w.value)]
        PROVE  \E h, pos, num, unknown, more :
                 Extended(link, next, h, pos, num, unknown, size, more)
    <2>1. there.file \in File /\ SameBytes(file, there.file)
      BY <1>3 DEF setFilePointer2, setFilePointer, SameBytes, File
    <2>2. PICK h : h = there.file /\ h \in File
      BY <2>1
    <2>3. PICK fp \in Nat : w.file = [h EXCEPT !.fp = fp] /\ fp >= h.fp
      <3>1. w \in read_uint32_be(h)
        BY <1>7, <2>2
      <3> QED
        BY <2>2, <3>1, ReadAnyId
    <2>4. w.file \in File /\ SameBytes(file, w.file) /\ h.fp \in Nat
      BY <2>1, <2>2, <2>3 DEF File, SameBytes
    <2>5. PICK more \in BOOLEAN : more = Matches(w.value)
      <3>1. Matches(w.value) \in BOOLEAN
        BY MatchesIsBoolean
      <3> QED
        BY <3>1
    <2>6. PICK num \in Nat : num = IF Matches(w.value) THEN link.num_headers + 1
                                   ELSE link.num_headers
      BY <1>1
    <2>7. Extended(link, next, w.file, h.fp, num, link.valid_unknown_size, size, more)
      BY <1>1, <1>2, <1>7, <2>2, <2>4, <2>5, <2>6 DEF Extended
    <2> QED
      BY <2>7
  <1> QED
    BY <1>4, <1>5, <1>6, <1>7

(* A link with a negative size keeps it.                                   *)
LEMMA NegativeStays ==
  ASSUME FileInSegment, NEW link, IsLink(link), Negative(link), NEW next \in NextLink(link)
  PROVE  IsLink(next) /\ Negative(next)
  <1>1. CASE ~link.more
    BY <1>1 DEF NextLink
  <1>2. CASE link.more
    <2>1. link.file \in File /\ link.file.open /\ SameBytes(file, link.file)
      BY DEF IsLink, SameBytes
    <2>a. PICK f : f = link.file
      OBVIOUS
    <2>2. PICK at \in Nat : at = f.fp
      BY <2>1, <2>a DEF File
    <2>3. "rm_normal" \in Mode
      BY DEF Mode
    <2>4. PICK v, g : /\ read(f, "rm_normal") = {[vint |-> v, file |-> g]}
                      /\ g \in File /\ g.open = f.open /\ g.bytes = f.bytes
                      /\ \/ v = NoVint
                         \/ IsReadAt(v, f, at, "rm_normal") /\ g.fp = at + v.coded_size
      BY <2>1, <2>a, <2>2, <2>3, ReadAt
    <2>5. SameBytes(file, g)
      BY <2>1, <2>a, <2>4 DEF SameBytes
    <2>6. next \in LinkWith(link, v, g)
      <3>1. PICK x : x = [vint |-> v, file |-> g]
        OBVIOUS
      <3>2. x.vint = v /\ x.file = g
        BY <3>1
      <3>3. next \in UNION {LinkWith(link, length.vint, length.file) : length \in {x}}
        BY <1>2, <2>a, <2>4, <3>1 DEF NextLink
      <3> QED
        BY <3>2, <3>3
    <2>7. PICK size : size = [pos |-> link.element_pos, size |-> v]
      OBVIOUS
    <2>8. PICK h, pos, num, unknown, more : Extended(link, next, h, pos, num, unknown, size, more)
      BY <2>4, <2>5, <2>6, <2>7, AnyTurn
    <2> QED
      BY <2>8, LinkFields
  <1> QED
    BY <1>1, <1>2

(* One turn of a link on track: it has one outcome, and one of the three   *)
(* kinds, or a negative size would lead in front of the file.              *)
LEMMA TurnCases ==
  ASSUME FileInSegment, NEW link, OnTrack(link), link.more
  PROVE  \/ \E next : /\ NextLink(link) = {next}
                      /\ StopsUnknown(link, next) \/ StopsAtEnd(link, next) \/ GoesOn(link, next)
         \/ /\ HeaderBehind(link.element_pos) < 0
            /\ \A next \in NextLink(link) : IsLink(next) /\ Negative(next)
  <1>1. PICK v : v = SizeAt(link.element_pos)
    OBVIOUS
  <1>2. PICK g : /\ read(link.file, "rm_normal") = {[vint |-> v, file |-> g]}
                 /\ g \in File /\ SameBytes(file, g)
                 /\ \/ v = NoVint
                    \/ IsReadAt(v, file, link.element_pos + IdBytes, "rm_normal")
    BY <1>1, LinkReads
  <1>3. NextLink(link) = LinkWith(link, v, g)
    <2>1. PICK x : x = [vint |-> v, file |-> g]
      OBVIOUS
    <2>2. x.vint = v /\ x.file = g
      BY <2>1
    <2>3. NextLink(link) = UNION {LinkWith(link, length.vint, length.file) : length \in {x}}
      BY <1>2, <2>1 DEF NextLink
    <2> QED
      BY <2>2, <2>3
  <1>4. IsLink(link) /\ link.element_pos \in Nat
    BY DEF OnTrack, IsLink
  <1>5. CASE is_unknown(v)
    <2>1. PICK next : next = [link EXCEPT !.file = g, !.valid_unknown_size = TRUE,
                                          !.sizes = Append(link.sizes, [pos |-> link.element_pos, size |-> v]),
                                          !.more = FALSE]
      OBVIOUS
    <2>2. LinkWith(link, v, g) = {next}
      BY <1>5, <2>1 DEF LinkWith
    <2>3. next.valid_unknown_size /\ ~next.more
      BY <1>4, <2>1 DEF IsLink
    <2>4. StopsUnknown(link, next)
      BY <1>1, <1>5, <2>3 DEF StopsUnknown
    <2> QED
      BY <1>3, <2>2, <2>4
  <1>6. CASE ~is_unknown(v)
    <2>1. v # NoVint
      BY <1>6 DEF is_unknown, is_valid, NoVint
    <2>2. IsReadAt(v, file, link.element_pos + IdBytes, "rm_normal")
      BY <1>2, <2>1
    <2>3. /\ v.value \in Int /\ v.coded_size \in Nat
          /\ HeaderBehind(link.element_pos) = link.element_pos + IdBytes + v.coded_size + v.value
      BY <1>1, <2>2, ByteAssumption DEF IsReadAt, HeaderBehind
    <2>4. CASE HeaderBehind(link.element_pos) >= 0
      BY <1>1, <1>2, <1>3, <1>6, <2>2, <2>4, TurnOnward
    <2>5. CASE HeaderBehind(link.element_pos) < 0
      <3>1. v.value < 0
        BY <1>4, <2>3, <2>5, ByteAssumption
      <3>2. ASSUME NEW next \in NextLink(link) PROVE IsLink(next) /\ Negative(next)
        <4>1. PICK size : size = [pos |-> link.element_pos, size |-> v]
          OBVIOUS
        <4>2. next \in LinkWith(link, v, g)
          BY <1>3, <3>2
        <4>3. PICK h, pos, num, unknown, more :
                Extended(link, next, h, pos, num, unknown, size, more)
          BY <1>2, <1>4, <4>1, <4>2, AnyTurn
        <4>4. size.size.value < 0
          BY <3>1, <4>1
        <4> QED
          BY <4>3, <4>4, LinkFields
      <3> QED
        BY <2>5, <3>2
    <2>6. HeaderBehind(link.element_pos) \in Int
      BY <1>4, <2>3, ByteAssumption
    <2> QED
      BY <2>4, <2>5, <2>6
  <1> QED
    BY <1>5, <1>6

(* A set of links that is one link, or has a negative size in each.        *)
Determined(links) ==
  \/ \E link : links = {link} /\ (link.more => OnTrack(link))
  \/ \A link \in links : IsLink(link) /\ Negative(link)

(* It stays like that from turn to turn.                                   *)
LEMMA DeterminedFurther ==
  ASSUME FileInSegment, NEW links, Determined(links)
  PROVE  Determined(Further(links))
  <1>1. CASE \E link : links = {link} /\ (link.more => OnTrack(link))
    <2>1. PICK link : links = {link} /\ (link.more => OnTrack(link))
      BY <1>1
    <2>2. Further(links) = NextLink(link)
      BY <2>1 DEF Further
    <2>3. CASE ~link.more
      <3>1. NextLink(link) = {link}
        BY <2>3 DEF NextLink
      <3> QED
        BY <2>2, <2>3, <3>1 DEF Determined
    <2>4. CASE link.more
      <3>1. OnTrack(link)
        BY <2>1, <2>4
      <3>2. CASE \E next : /\ NextLink(link) = {next}
                           /\ \/ StopsUnknown(link, next) \/ StopsAtEnd(link, next)
                              \/ GoesOn(link, next)
        <4>1. PICK next : /\ NextLink(link) = {next}
                          /\ \/ StopsUnknown(link, next) \/ StopsAtEnd(link, next)
                             \/ GoesOn(link, next)
          BY <3>2
        <4>2. next.more => OnTrack(next)
          BY <4>1 DEF StopsUnknown, StopsAtEnd, GoesOn
        <4> QED
          BY <2>2, <4>1, <4>2 DEF Determined
      <3>3. CASE \A next \in NextLink(link) : IsLink(next) /\ Negative(next)
        BY <2>2, <3>3 DEF Determined
      <3> QED
        BY <2>4, <3>1, <3>2, <3>3, TurnCases
    <2> QED
      BY <2>3, <2>4
  <1>2. CASE \A link \in links : IsLink(link) /\ Negative(link)
    <2>1. ASSUME NEW next \in Further(links) PROVE IsLink(next) /\ Negative(next)
      <3>1. PICK link \in links : next \in NextLink(link)
        BY DEF Further
      <3> QED
        BY <1>2, <3>1, NegativeStays
    <2> QED
      BY <2>1 DEF Determined
  <1> QED
    BY <1>1, <1>2 DEF Determined

(* The first link is on track, when it is given a place with an ID.        *)
LEMMA FirstOnTrack ==
  ASSUME FileInSegment, NEW f \in File, SameBytes(file, f),
         f.fp >= IdBytes, f.fp <= file_size
  PROVE  /\ OnTrack(FirstLink(f)) /\ FirstLink(f).more
         /\ FirstLink(f).element_pos = f.fp - IdBytes
         /\ FirstLink(f).num_headers = 1
  <1>1. PICK pos \in Nat : pos = f.fp - IdBytes /\ f.fp = pos + IdBytes
    <2>1. f.fp \in Nat /\ IdBytes \in Nat
      BY ByteAssumption DEF File
    <2>2. f.fp - IdBytes \in Nat /\ f.fp = (f.fp - IdBytes) + IdBytes
      BY <2>1
    <2> QED
      BY <2>2
  <1>2. PICK link : link = FirstLink(f)
    OBVIOUS
  <1>3. link = [file |-> f, element_pos |-> pos, num_headers |-> 1,
                valid_unknown_size |-> FALSE, sizes |-> <<>>, more |-> TRUE]
    BY <1>1, <1>2 DEF FirstLink
  <1>4. link \in [file : {g \in File : SameBytes(file, g)}, element_pos : Nat,
                  num_headers : Nat, valid_unknown_size : BOOLEAN,
                  sizes : Seq({}), more : BOOLEAN]
    BY <1>3
  <1>5. IsLink(link)
    BY <1>4 DEF IsLink
  <1>6. link.file = f /\ link.element_pos = pos /\ link.num_headers = 1 /\ link.more
    BY <1>3
  <1> QED
    BY <1>1, <1>2, <1>5, <1>6 DEF OnTrack

(* What nothing has read does not decide whether a candidate is accepted:  *)
(* every chain is the same, unless a negative size has led in front of the *)
(* file.                                                                   *)
THEOREM CandidateDetermined == Spec => []AcceptanceDetermined
  <1>1. SegmentInv => AcceptanceDetermined
    <2> SUFFICES ASSUME SegmentInv, file.fp < file_size, file.fp >= IdBytes,
                        NEW a \in Chains(file), NEW b \in Chains(file)
                 PROVE  (Accepts(a) <=> Accepts(b)) \/ Negative(a)
      BY DEF AcceptanceDetermined, Negative
    <2>1. FileInSegment /\ file \in File /\ SameBytes(file, file) /\ file.fp <= file_size
      BY DEF SegmentInv, FileInSegment, SameBytes, file_size, get_size, File
    <2>2. PICK first : first = FirstLink(file)
      OBVIOUS
    <2>3. OnTrack(first)
      BY <2>1, <2>2, FirstOnTrack
    <2>4. Determined({first})
      BY <2>3 DEF Determined
    <2>5. Determined(Further(Further(Further({first}))))
      BY <2>1, <2>4, DeterminedFurther
    <2>6. Determined(Chains(file))
      BY <2>2, <2>5, ChainsAre
    <2>7. CASE \E link : Chains(file) = {link}
      <3>1. a = b
        BY <2>7
      <3> QED
        BY <3>1
    <2>8. CASE \A link \in Chains(file) : Negative(link)
      BY <2>8
    <2> QED
      BY <2>6, <2>7, <2>8 DEF Determined
  <1> QED
    BY <1>1, SegmentInvariance, PTL

-----------------------------------------------------------------------------
(* Four headers in a row are accepted.                                     *)

(* A turn from a header to the header its size leads to.                   *)
LEMMA HeaderFollows ==
  ASSUME FileInSegment, NEW link, OnTrack(link), link.more,
         NEW pos, pos = NextHeader(file, link.element_pos), StartsHeader(file, pos)
  PROVE  \E next : /\ NextLink(link) = {next}
                   /\ OnTrack(next) /\ next.more
                   /\ next.element_pos = pos
                   /\ next.num_headers = link.num_headers + 1
  <1>1. /\ pos \in Nat /\ pos + IdBytes < get_size(file) /\ Matches(IdAt(file, pos))
        /\ get_size(file) \in Nat /\ file_size = get_size(file)
    BY DEF StartsHeader, FileInSegment, File, file_size, get_size
  <1>2. PICK at : at = link.element_pos
    OBVIOUS
  <1>3. ~is_unknown(SizeAt(at))
    <2>1. is_unknown(SizeAt(at)) => pos = get_size(file)
      BY <1>2 DEF NextHeader, SizeAt
    <2> QED
      BY <1>1, <2>1, ByteAssumption
  <1>4. pos = HeaderBehind(at)
    BY <1>2, <1>3 DEF NextHeader, HeaderBehind, SizeAt
  <1>5. ~(HeaderBehind(at) < 0) /\ ~(HeaderBehind(at) + IdBytes >= file_size)
    BY <1>1, <1>4, ByteAssumption
  <1>6. PICK next : /\ NextLink(link) = {next}
                    /\ StopsUnknown(link, next) \/ StopsAtEnd(link, next) \/ GoesOn(link, next)
    BY <1>2, <1>5, TurnCases
  <1>7. GoesOn(link, next)
    BY <1>2, <1>3, <1>5, <1>6 DEF StopsUnknown, StopsAtEnd
  <1>8. OnTrack(next) /\ next.element_pos = pos
    BY <1>2, <1>4, <1>7 DEF GoesOn
  <1>9. next.more /\ next.num_headers = link.num_headers + 1
    BY <1>1, <1>7, <1>8 DEF GoesOn
  <1> QED
    BY <1>6, <1>8, <1>9

(* Every chain behind the first of four headers in a row is accepted.      *)
LEMMA FourAccepted ==
  ASSUME FileInSegment, NEW pos, FourHeadersInARow(file, pos),
         NEW f \in File, SameBytes(file, f), f.fp = pos + IdBytes,
         NEW chain \in Chains(f)
  PROVE  Accepts(chain)
  <1>1. PICK second, third, fourth :
          /\ second = NextHeader(file, pos) /\ third = NextHeader(file, second)
          /\ fourth = NextHeader(file, third)
    OBVIOUS
  <1>2. /\ StartsHeader(file, pos) /\ StartsHeader(file, second)
        /\ StartsHeader(file, third) /\ StartsHeader(file, fourth)
    BY <1>1 DEF FourHeadersInARow
  <1>3. /\ pos \in Nat /\ f.fp >= IdBytes /\ f.fp <= file_size /\ f.fp - IdBytes = pos
    <2>1. pos \in Nat /\ pos + IdBytes < get_size(file) /\ get_size(file) \in Nat
      BY <1>2 DEF StartsHeader, FileInSegment, File, get_size
    <2> QED
      BY <2>1, ByteAssumption DEF file_size
  <1>4. PICK l : l = FirstLink(f)
    OBVIOUS
  <1>5. OnTrack(l) /\ l.more /\ l.element_pos = pos /\ l.num_headers = 1
    BY <1>3, <1>4, FirstOnTrack
  <1>6. PICK m : /\ NextLink(l) = {m} /\ OnTrack(m) /\ m.more
                 /\ m.element_pos = second /\ m.num_headers = 1 + 1
    BY <1>1, <1>2, <1>5, HeaderFollows
  <1>7. PICK n : /\ NextLink(m) = {n} /\ OnTrack(n) /\ n.more
                 /\ n.element_pos = third /\ n.num_headers = 2 + 1
    BY <1>1, <1>2, <1>6, HeaderFollows
  <1>8. PICK o : /\ NextLink(n) = {o} /\ OnTrack(o) /\ o.more
                 /\ o.element_pos = fourth /\ o.num_headers = 3 + 1
    BY <1>1, <1>2, <1>7, HeaderFollows
  <1>9. /\ Further({l}) = {m} /\ Further({m}) = {n} /\ Further({n}) = {o}
    BY <1>6, <1>7, <1>8 DEF Further
  <1>10. Chains(f) = {o}
    BY <1>4, <1>9, ChainsAre
  <1>11. chain = o
    BY <1>10
  <1> QED
    BY <1>8, <1>11 DEF Accepts

-----------------------------------------------------------------------------
(* A resync overlooks nothing.                                             *)
None(f, from, to) == \A pos \in from .. to : ~FourHeadersInARow(f, pos)

(* Four headers in a row stand in the bytes, wherever the pointer is.      *)
LEMMA SameFour ==
  ASSUME NEW f, NEW g, SameBytes(f, g), NEW pos, FourHeadersInARow(f, pos)
  PROVE  FourHeadersInARow(g, pos)
  <1>1. get_size(f) = get_size(g) /\ f.bytes = g.bytes
    BY SameSize DEF SameBytes
  <1>2. \A p : IdAt(f, p) = IdAt(g, p)
    BY <1>1 DEF IdAt
  <1>3. \A p : StartsHeader(f, p) => StartsHeader(g, p) /\ p \in Nat
    BY <1>1, <1>2 DEF StartsHeader
  <1>4. \A p \in Nat : NextHeader(f, p) = NextHeader(g, p)
    <2> TAKE p \in Nat
    <2>1. p + IdBytes \in Nat
      BY ByteAssumption
    <2>2. VintAt(f, p + IdBytes, "rm_normal") = VintAt(g, p + IdBytes, "rm_normal")
      BY <2>1, SameVint
    <2> QED
      BY <1>1, <2>2 DEF NextHeader
  <1>5. PICK second, third, fourth :
          /\ second = NextHeader(f, pos) /\ third = NextHeader(f, second)
          /\ fourth = NextHeader(f, third)
    OBVIOUS
  <1>6. /\ StartsHeader(f, pos) /\ StartsHeader(f, second)
        /\ StartsHeader(f, third) /\ StartsHeader(f, fourth)
        /\ second > pos /\ third > second /\ fourth > third
    BY <1>5 DEF FourHeadersInARow
  <1>7. /\ second = NextHeader(g, pos) /\ third = NextHeader(g, second)
        /\ fourth = NextHeader(g, third)
    BY <1>3, <1>4, <1>5, <1>6
  <1> QED
    BY <1>3, <1>6, <1>7 DEF FourHeadersInARow

(* So none is one, too.                                                    *)
LEMMA SameNone ==
  ASSUME NEW f, NEW g, SameBytes(g, f), NEW from, NEW to, None(f, from, to)
  PROVE  None(g, from, to)
  BY SameFour DEF None

(* The window slides on with the pointer.                                  *)
LEMMA WindowSlides ==
  ASSUME FileInSegment, NEW from \in Nat, file.fp = from + IdBytes, file.fp < file_size,
         actual_id = IdAt(file, from)
  PROVE  NextWindow = IdAt(file, from + 1)
  <1>1. PICK n \in Nat : n = IdBytes
    BY ByteAssumption
  <1>2. PICK b \in Seq(Byte) : b = file.bytes
    BY DEF FileInSegment, File
  <1>3. from + n + 1 <= Len(b) /\ Len(b) \in Nat
    BY <1>1, <1>2 DEF FileInSegment, File, file_size, get_size
  <1>4. \A i \in 1 .. n + 1 : b[from + i] \in Byte
    <2> TAKE i \in 1 .. n + 1
    <2>1. from + i \in 1 .. Len(b)
      BY <1>3
    <2> QED
      BY <2>1
  <1>5. (Number(b, from, n) * Power2[ByteBits] + b[from + n + 1]) % Power2[ByteBits * n]
          = Number(b, from + 1, n)
    BY <1>4, NumberWindow
  <1>6. \A p : IdAt(file, p) = Number(b, p, n)
    BY <1>1, <1>2 DEF IdAt, Number
  <1>7. NextWindow = (Number(b, from, n) * Power2[ByteBits] + b[from + n + 1])
                       % Power2[ByteBits * n]
    BY <1>1, <1>2, <1>6 DEF NextWindow, Window
  <1> QED
    BY <1>5, <1>6, <1>7

(* What is known of the places a resync has passed by.                     *)
SearchInv ==
  /\ pc \in {"start", "resync"} => ~resynced
  /\ pc = "scan" =>
       /\ file.fp >= resync_start_pos + IdBytes =>
            actual_id = IdAt(file, file.fp - IdBytes)
       /\ None(file, resync_start_pos + 1, file.fp - IdBytes)
  /\ pc = "read_next" /\ resynced => None(file, resync_start_pos + 1, file.fp - 1)
  /\ pc = "caller" /\ resynced => None(file, resync_start_pos + 1, segment_end - 1)

(* A resync begins with nothing behind it.                                 *)
LEMMA SearchBegins ==
  ASSUME FileInSegment, SegmentTypes, ResyncBegins
  PROVE  SearchInv'
  <1>1. /\ file \in File /\ file.fp \in Nat /\ Len(file.bytes) \in Nat
        /\ file_size = Len(file.bytes)
    BY DEF FileInSegment, File, file_size, get_size
  <1>2. /\ pc' = "scan" /\ resync_start_pos' = file.fp
    BY DEF ResyncBegins
  <1>3. PICK n \in Nat : n = IdBytes
    BY ByteAssumption
  <1>4. CASE /\ file.fp + IdBytes <= Len(file.bytes)
             /\ actual_id' = IdAt(file, file.fp)
             /\ file' = [file EXCEPT !.fp = file.fp + IdBytes]
    <2>1. file'.fp = file.fp + n /\ file'.bytes = file.bytes /\ file_size' = file_size
      BY <1>1, <1>3, <1>4 DEF File, file_size, get_size
    <2>2. file'.fp - IdBytes = file.fp
      BY <1>1, <1>3, <2>1
    <2>3. actual_id' = IdAt(file', file'.fp - IdBytes)
      BY <1>4, <2>1, <2>2 DEF IdAt
    <2>4. None(file', resync_start_pos' + 1, file'.fp - IdBytes)
      <3>1. \A pos \in file.fp + 1 .. file.fp : FALSE
        BY <1>1
      <3> QED
        BY <1>2, <2>2, <3>1 DEF None
    <2> QED
      BY <1>2, <2>3, <2>4 DEF SearchInv
  <1>5. CASE /\ file.fp < Len(file.bytes) /\ file.fp + IdBytes > Len(file.bytes)
             /\ file' = [file EXCEPT !.fp = Len(file.bytes)]
    <2>1. file'.fp = file_size /\ file'.bytes = file.bytes /\ file_size' = file_size
      BY <1>1, <1>5 DEF File, file_size, get_size
    <2>2. ~(file'.fp >= resync_start_pos' + IdBytes)
      BY <1>1, <1>2, <1>3, <1>5, <2>1
    <2>3. None(file', resync_start_pos' + 1, file'.fp - IdBytes)
      <3>1. \A pos \in file.fp + 1 .. file_size - n : FALSE
        BY <1>1, <1>3, <1>5
      <3> QED
        BY <1>2, <1>3, <2>1, <3>1 DEF None
    <2> QED
      BY <1>2, <2>2, <2>3 DEF SearchInv
  <1>6. CASE file' = file
    <2>1. ~(file'.fp >= resync_start_pos' + IdBytes)
      BY <1>1, <1>2, <1>6, ByteAssumption
    <2>2. \A pos \in file.fp + 1 .. file.fp - n : FALSE
      BY <1>1, <1>3
    <2> QED
      BY <1>2, <1>3, <1>6, <2>1, <2>2 DEF SearchInv, None
  <1> QED
    BY <1>4, <1>5, <1>6 DEF ResyncBegins

(* It goes on with one place more behind it, or gives up with all of them, *)
(* or hands over a place with all before.                                  *)
LEMMA SearchGoesOn ==
  ASSUME ReaderInv, SegmentInv, SearchInv, ScanByte
  PROVE  SearchInv'
  <1>0. FileInSegment /\ SegmentTypes
    BY DEF SegmentInv
  <1>1. /\ file \in File /\ file.fp \in Nat /\ Len(file.bytes) \in Nat /\ file.open
        /\ file_size = Len(file.bytes) /\ file_size = get_size(file)
        /\ resync_start_pos \in Nat
    BY <1>0 DEF FileInSegment, SegmentTypes, File, file_size, get_size
  <1>2. /\ pc = "scan"
        /\ None(file, resync_start_pos + 1, file.fp - IdBytes)
        /\ file.fp >= resync_start_pos + IdBytes =>
             actual_id = IdAt(file, file.fp - IdBytes)
    BY DEF ScanByte, SearchInv
  <1>3. CASE ScanEnds
    <2>1. pc' = "caller" /\ file' = file /\ resync_start_pos' = resync_start_pos
          /\ segment_end' = segment_end
      BY <1>3 DEF ScanEnds, kax
    <2>2. ASSUME NEW pos \in resync_start_pos + 1 .. segment_end - 1
          PROVE  ~FourHeadersInARow(file, pos)
      <3>1. CASE pos <= file.fp - IdBytes
        BY <1>1, <1>2, <3>1, ByteAssumption DEF None
      <3>2. CASE ~(pos <= file.fp - IdBytes)
        <4>1. segment_end \in Nat
          BY <1>0, <1>1 DEF SegmentTypes
        <4>2. ~(pos + IdBytes < get_size(file))
          BY <1>1, <1>2, <1>3, <3>2, <4>1, ByteAssumption DEF ScanEnds
        <4> QED
          BY <4>2 DEF FourHeadersInARow, StartsHeader
      <3> QED
        BY <3>1, <3>2
    <2>3. None(file', resync_start_pos' + 1, segment_end' - 1)
      BY <2>1, <2>2 DEF None
    <2> QED
      BY <2>1, <2>3 DEF SearchInv
  <1>4. ASSUME file.fp < file_size
        PROVE  \E from \in Nat :
                 /\ file.fp = from + IdBytes /\ file.fp - IdBytes = from
                 /\ from >= resync_start_pos
                 /\ NextWindow = IdAt(file, from + 1)
    <2>1. file.fp >= resync_start_pos + IdBytes
      BY <1>1, <1>2, <1>4 DEF ReaderInv, WindowBehindStart
    <2>2. file.fp - IdBytes \in Nat /\ file.fp - IdBytes >= resync_start_pos
          /\ file.fp = (file.fp - IdBytes) + IdBytes
      BY <1>1, <2>1, ByteAssumption
    <2>3. PICK from \in Nat : from = file.fp - IdBytes
      BY <2>2
    <2>4. NextWindow = IdAt(file, from + 1)
      BY <1>0, <1>2, <1>4, <2>1, <2>2, <2>3, WindowSlides
    <2> QED
      BY <2>2, <2>3, <2>4
  <1>5. CASE ScansOn
    <2>1. /\ file.fp < file_size /\ pc' = "scan" /\ file' = [file EXCEPT !.fp = file.fp + 1]
          /\ actual_id' = NextWindow /\ resync_start_pos' = resync_start_pos
      BY <1>5 DEF ScansOn, AtNextByte, kax
    <2>2. PICK from \in Nat :
            /\ file.fp = from + IdBytes /\ file.fp - IdBytes = from
            /\ from >= resync_start_pos
            /\ NextWindow = IdAt(file, from + 1)
      BY <1>4, <2>1
    <2>3. /\ file'.fp = file.fp + 1 /\ file'.bytes = file.bytes /\ file_size' = file_size
          /\ SameBytes(file, file') /\ SameBytes(file', file) /\ file' \in File
      BY <1>1, <2>1 DEF File, file_size, get_size, SameBytes
    <2>4. file'.fp = (from + 1) + IdBytes /\ file'.fp - IdBytes = from + 1
      BY <2>2, <2>3, ByteAssumption
    <2>5. ~FourHeadersInARow(file, from + 1)
      <3> SUFFICES ASSUME FourHeadersInARow(file, from + 1) PROVE FALSE
        OBVIOUS
      <3>1. Matches(NextWindow)
        BY <2>2 DEF FourHeadersInARow, StartsHeader
      <3>2. file' = AtNextByte
        BY <2>1 DEF AtNextByte
      <3>3. PICK chain \in Chains(file') : ~Accepts(chain)
        BY <1>5, <3>1, <3>2 DEF ScansOn
      <3>4. Accepts(chain)
        <4>1. PICK f \in File : f = file'
          BY <2>3
        <4>2. PICK pos : pos = from + 1
          OBVIOUS
        <4>3. SameBytes(file, f) /\ f.fp = pos + IdBytes /\ chain \in Chains(f)
          BY <2>3, <2>4, <4>1, <4>2
        <4> QED
          BY <1>0, <4>2, <4>3, FourAccepted
      <3> QED
        BY <3>3, <3>4
    <2>6. None(file, resync_start_pos + 1, from + 1)
      <3> SUFFICES ASSUME NEW pos \in resync_start_pos + 1 .. from + 1
                   PROVE  ~FourHeadersInARow(file, pos)
        BY DEF None
      <3>1. pos = from + 1 \/ pos \in resync_start_pos + 1 .. from
        BY <1>1
      <3> QED
        BY <1>2, <2>2, <2>5, <3>1 DEF None
    <2>7. None(file', resync_start_pos' + 1, file'.fp - IdBytes)
      BY <2>1, <2>3, <2>4, <2>6, SameNone
    <2>8. actual_id' = IdAt(file', file'.fp - IdBytes)
      BY <2>1, <2>2, <2>3, <2>4 DEF IdAt
    <2>9. file'.fp <= file_size'
      BY <1>1, <2>1, <2>3
    <2> QED
      BY <2>1, <2>7, <2>8, <2>9 DEF SearchInv
  <1>6. CASE ScanAccepts
    <2>1. /\ file.fp < file_size /\ pc' = "read_next"
          /\ file' = [file EXCEPT !.fp = file.fp + 1 - IdBytes]
          /\ resync_start_pos' = resync_start_pos
      BY <1>6 DEF ScanAccepts, kax
    <2>2. PICK from \in Nat : file.fp = from + IdBytes /\ file.fp - IdBytes = from
      BY <1>4, <2>1
    <2>3. file.fp + 1 - IdBytes = from + 1
      BY <2>2, ByteAssumption
    <2>4. file'.fp = from + 1 /\ SameBytes(file', file)
      BY <1>1, <2>1, <2>3 DEF File, SameBytes
    <2>5. file'.fp - 1 = file.fp - IdBytes
      BY <2>2, <2>4
    <2>6. None(file', resync_start_pos' + 1, file'.fp - 1)
      BY <1>2, <2>1, <2>4, <2>5, SameNone
    <2> QED
      BY <2>1, <2>6 DEF SearchInv
  <1> QED
    BY <1>0, <1>3, <1>5, <1>6, ScanCases

(* Every step keeps it.                                                    *)
LEMMA SearchKept ==
  ASSUME ReaderInv, SegmentInv, SearchInv, [Next]_vars
  PROVE  SearchInv'
  <1>0. FileInSegment /\ SegmentTypes
    BY DEF SegmentInv
  <1>1. CASE set_segment_end
    <2>1. pc' \in {"read_next", "resync"} /\ pc = "start" /\ resynced' = resynced
      BY <1>1, IdsAssumption DEF set_segment_end
    <2>2. ~resynced'
      BY <2>1 DEF SearchInv
    <2> QED
      BY <2>1, <2>2 DEF SearchInv
  <1>2. CASE read_next_level1_element
    <2>1. CASE Ended
      <3>1. /\ pc = "read_next" /\ pc' = "caller" /\ file' = file
            /\ resynced' = resynced /\ resync_start_pos' = resync_start_pos
            /\ segment_end' = segment_end /\ file.fp >= segment_end
        BY <1>2, <2>1 DEF Ended, kax, read_next_level1_element
      <3>2. resynced => None(file, resync_start_pos + 1, segment_end - 1)
        <4> SUFFICES ASSUME resynced, NEW pos \in resync_start_pos + 1 .. segment_end - 1
                     PROVE  ~FourHeadersInARow(file, pos)
          BY DEF None
        <4>1. segment_end \in Nat /\ file.fp \in Nat /\ resync_start_pos \in Nat
          BY <1>0 DEF SegmentTypes, FileInSegment, File, file_size, get_size
        <4>2. pos \in resync_start_pos + 1 .. file.fp - 1
          BY <3>1, <4>1
        <4> QED
          BY <3>1, <4>2 DEF SearchInv, None
      <3> QED
        BY <3>1, <3>2 DEF SearchInv
    <2>2. CASE Resyncs \/ Returns \/ PassesOver
      <3>1. pc' \in {"read_next", "resync", "caller"} /\ ~resynced'
        BY <2>2 DEF Resyncs, Returns, PassesOver
      <3> QED
        BY <3>1 DEF SearchInv
    <2> QED
      BY <1>0, <1>2, <2>1, <2>2, ReadNextCases
  <1>3. CASE resync_to_level1_element
    <2>1. CASE Ended
      <3>1. pc = "resync" /\ pc' = "caller" /\ resynced' = resynced
        BY <1>3, <2>1 DEF Ended, kax, resync_to_level1_element
      <3> QED
        BY <3>1 DEF SearchInv
    <2> QED
      BY <1>0, <1>3, <2>1, SearchBegins, ResyncCases
  <1>4. CASE ScanByte
    BY <1>4, SearchGoesOn
  <1>5. CASE handle_segment
    <2>1. /\ pc = "caller" /\ resynced' = resynced
          /\ pc' \in {"read_next", "resync", "done"}
          /\ l1 = NoElement => pc' = "done"
      BY <1>5, IdsAssumption DEF handle_segment, kax
    <2>2. pc' # "done" => ~resynced'
      BY <2>1 DEF ReaderInv, ReturnsWanted
    <2> QED
      BY <2>1, <2>2 DEF SearchInv
  <1>6. CASE UNCHANGED vars
    <2>1. /\ file' = file /\ pc' = pc /\ resynced' = resynced /\ actual_id' = actual_id
          /\ resync_start_pos' = resync_start_pos /\ segment_end' = segment_end
      BY <1>6 DEF vars, kax
    <2>2. file_size' = file_size
      BY <2>1 DEF file_size
    <2> QED
      BY <2>1, <2>2 DEF SearchInv
  <1> QED
    BY <1>1, <1>2, <1>3, <1>4, <1>5, <1>6 DEF Next

(* When a resync has given up there was nothing to find: no place behind   *)
(* its start and inside the Segment has four headers in a row.             *)
THEOREM NothingOverlooked == Spec => []OverlooksNothing
  <1>1. Init => SearchInv
    BY DEF Init, SearchInv
  <1>2. SearchInv => OverlooksNothing
    BY DEF SearchInv, OverlooksNothing, None
  <1>3. (ReaderInv /\ SegmentInv) /\ SearchInv /\ [Next]_vars => SearchInv'
    BY SearchKept
  <1> QED
    BY <1>1, <1>2, <1>3, SegmentInvariance, PTL DEF Spec

-----------------------------------------------------------------------------
(* Elements come in the order of the file.                                 *)

(* A multiple of P is reached from below by a digit of P - 1 only.         *)
LEMMA LastDigit ==
  ASSUME NEW P \in Nat \ {0}, NEW x \in Nat, NEW q \in Nat, NEW digit \in 0 .. P - 1,
         P * x + digit + 1 = P * q
  PROVE  digit = P - 1 /\ x + 1 = q
  <1>1. q # 0
    <2>1. P * x \in Nat
      OBVIOUS
    <2>2. q = 0 => P * q = 0
      OBVIOUS
    <2> QED
      BY <2>1, <2>2
  <1>2. PICK r \in Nat : q = r + 1
    <2>1. q - 1 \in Nat /\ q = (q - 1) + 1
      BY <1>1
    <2> QED
      BY <2>1
  <1>3. x * P + digit = r * P + (P - 1)
    <2>1. P * q = P * r + P
      BY <1>2
    <2>2. P * x = x * P /\ P * r = r * P /\ x * P \in Nat /\ r * P \in Nat
      OBVIOUS
    <2> QED
      BY <2>1, <2>2
  <1>4. (x * P + digit) \div P = x /\ (x * P + digit) % P = digit
    BY DivisionUnique
  <1>5. PICK top \in 0 .. P - 1 : top = P - 1
    OBVIOUS
  <1>6. (r * P + top) \div P = r /\ (r * P + top) % P = top
    BY DivisionUnique
  <1> QED
    BY <1>2, <1>3, <1>4, <1>5, <1>6

(* The number of one byte more, of what are bytes.                         *)
LEMMA ByteBehind ==
  ASSUME NEW b, NEW from \in Nat, NEW n \in Nat, AreBytes(b, from, n + 1)
  PROVE  /\ Number(b, from, n) \in Nat
         /\ b[from + n + 1] \in Byte
         /\ Number(b, from, n + 1) = Power2[ByteBits] * Number(b, from, n) + b[from + n + 1]
  <1>1. Byte \subseteq Nat
    <2>1. Power2[ByteBits] \in Nat
      BY Power2Step, ByteAssumption
    <2> QED
      BY <2>1 DEF Byte
  <1>2. \A i \in 1 .. n + 1 : b[from + i] \in Nat
    BY <1>1 DEF AreBytes
  <1>3. b[from + n + 1] \in Byte
    <2>1. n + 1 \in 1 .. n + 1 /\ from + (n + 1) = from + n + 1
      OBVIOUS
    <2>2. b[from + (n + 1)] \in Byte
      BY <2>1 DEF AreBytes
    <2> QED
      BY <2>1, <2>2
  <1> QED
    BY <1>2, <1>3, NumberStep

(* Behind its first byte a size of all ones has bytes of all ones.         *)
LEMMA OnesBehind ==
  ASSUME NEW b, NEW pos \in Nat, NEW n \in 1 .. ByteBits, AreBytes(b, pos, n),
         Number(b, pos, n) = 2 * Power2[(ByteBits - 1) * n] - 1,
         NEW k \in 1 .. n - 1
  PROVE  b[pos + k + 1] = Power2[ByteBits] - 1
  <1>1. PICK B \in Nat \ {0, 1} : B = ByteBits
    BY ByteAssumption
  <1>2. PICK P \in Nat \ {0} : P = Power2[B]
    BY Power2Step
  <1>3. \A m \in 1 .. n : B * m \in Nat /\ B * m >= B /\ B * m - n + 1 \in Nat
    <2> TAKE m \in 1 .. n
    <2>1. PICK l \in Nat : m = l + 1
      <3>1. m - 1 \in Nat /\ m = (m - 1) + 1
        OBVIOUS
      <3> QED
        BY <3>1
    <2>2. B * m = B * l + B /\ B * l \in Nat
      BY <2>1
    <2> QED
      BY <1>1, <2>2
  <1> DEFINE Ones(m) == Number(b, pos, m) + 1 = Power2[B * m - n + 1]
             S == {j \in Nat : j < n => Ones(n - j)}
  <1>4. Ones(n)
    <2>1. PICK e \in Nat : e = (ByteBits - 1) * n
      BY VintBits
    <2>2. B * n - n + 1 = e + 1
      BY <1>1, <2>1
    <2>3. Power2[e + 1] = 2 * Power2[e] /\ Power2[e] \in Nat
      BY <2>1, Power2Step
    <2> QED
      BY <2>1, <2>2, <2>3
  <1>5. ASSUME NEW m \in 2 .. n, Ones(m)
        PROVE  b[pos + m] = P - 1 /\ Ones(m - 1)
    <2>1. PICK l \in 1 .. n : m = l + 1
      <3>1. m - 1 \in 1 .. n /\ m = (m - 1) + 1
        OBVIOUS
      <3> QED
        BY <3>1
    <2>2. B * m = B * l + B
      BY <2>1
    <2>3. PICK e \in Nat : e = B * l - n + 1
      BY <1>3, <2>1
    <2>4. B * m - n + 1 = e + B
      BY <1>3, <2>2, <2>3
    <2>5. PICK q \in Nat : q = Power2[e] /\ Power2[e + B] = q * P
      BY <1>2, <2>3, Power2Step, Power2Sum
    <2>6. AreBytes(b, pos, l + 1)
      BY <2>1 DEF AreBytes
    <2>7. /\ Number(b, pos, l) \in Nat /\ b[pos + l + 1] \in Byte
          /\ Number(b, pos, l + 1) = P * Number(b, pos, l) + b[pos + l + 1]
      <3>1. PICK o \in Nat : o = l /\ AreBytes(b, pos, o + 1)
        BY <2>1, <2>6
      <3> HIDE DEF Ones, S
      <3> QED
        BY <1>1, <1>2, <3>1, ByteBehind
    <2>8. PICK x \in Nat, digit \in 0 .. P - 1 :
            /\ x = Number(b, pos, l) /\ digit = b[pos + m]
            /\ Number(b, pos, m) = P * x + digit
      <3>1. pos + l + 1 = pos + m /\ l + 1 = m
        BY <2>1
      <3> QED
        BY <1>1, <1>2, <2>7, <3>1 DEF Byte
    <2>9. P * x + digit + 1 = P * q
      <3>1. q * P = P * q
        OBVIOUS
      <3>2. P * x + digit + 1 = Power2[e + B]
        BY <1>5, <2>4, <2>8
      <3> QED
        BY <2>5, <3>1, <3>2
    <2>10. digit = P - 1 /\ x + 1 = q
      BY <2>9, LastDigit
    <2>11. m - 1 = l
      BY <2>1
    <2> QED
      BY <2>3, <2>5, <2>8, <2>10, <2>11
  <1>6. 0 \in S /\ \A j \in Nat : j \in S => j + 1 \in S
    <2>1. 0 \in S
      <3>1. n - 0 = n
        OBVIOUS
      <3> HIDE DEF Ones
      <3> QED
        BY <1>4, <3>1
    <2>2. ASSUME NEW j \in Nat, j \in S, j + 1 < n PROVE Ones(n - (j + 1))
      <3>1. n - j \in 2 .. n /\ (n - j) - 1 = n - (j + 1) /\ j < n
        BY <2>2
      <3>2. Ones(n - j)
        BY <2>2, <3>1
      <3>3. PICK m \in 2 .. n : m = n - j
        BY <3>1
      <3> HIDE DEF Ones
      <3> QED
        BY <1>5, <3>1, <3>2, <3>3
    <2> HIDE DEF Ones
    <2> QED
      BY <2>1, <2>2
  <1>7. Nat \subseteq S
    <2> HIDE DEF S
    <2> QED
      BY <1>6, Induction
  <1>8. PICK m \in 2 .. n : m = k + 1
    OBVIOUS
  <1>9. Ones(m)
    <2>1. PICK j \in Nat : j = n - m
      <3>1. n - m \in Nat
        OBVIOUS
      <3> QED
        BY <3>1
    <2>2. j < n /\ n - j = m
      BY <2>1
    <2> HIDE DEF Ones
    <2> QED
      BY <1>7, <2>1, <2>2
  <1>10. b[pos + m] = P - 1
    BY <1>5, <1>9
  <1>11. pos + m = pos + k + 1
    BY <1>8
  <1> QED
    BY <1>1, <1>2, <1>10, <1>11

(* What stands in a size field is all ones.                                *)
LEMMA SizeFieldIs ==
  ASSUME NEW f \in File, f.open, NEW pos \in Nat, NEW from \in Nat, AtSizeField(f, pos, from)
  PROVE  \E n \in 1 .. ByteBits :
           /\ EndOf(f, Header(f, pos)) = from + n
           /\ from + n <= Len(f.bytes)
           /\ AreBytes(f.bytes, from, n)
           /\ Number(f.bytes, from, n) = 2 * Power2[(ByteBits - 1) * n] - 1
  <1>1. PICK h : h = Header(f, pos)
    OBVIOUS
  <1>2. h.decodes /\ h.unknown /\ from = pos + h.id_size /\ EndOf(f, h) = h.content
    BY <1>1 DEF AtSizeField
  <1>3. DecodesAs(f, pos, h)
    BY <1>1, <1>2, HeaderDecodes
  <1>4. PICK n \in 1 .. ByteBits :
          /\ h.content = pos + h.id_size + n
          /\ Number(f.bytes, pos + h.id_size, n) = 2 * Power2[(ByteBits - 1) * n] - 1
    BY <1>2, <1>3 DEF DecodesAs
  <1>5. h.content = from + n /\ from + n <= Len(f.bytes)
    BY <1>2, <1>3, <1>4 DEF DecodesAs, get_size
  <1>6. AreBytes(f.bytes, from, n)
    <2>1. f.bytes \in Seq(Byte) /\ Len(f.bytes) \in Nat
      BY DEF File
    <2>2. ASSUME NEW i \in 1 .. n PROVE f.bytes[from + i] \in Byte
      <3>1. from + i \in 1 .. Len(f.bytes)
        BY <1>5, <2>1
      <3> QED
        BY <2>1, <3>1
    <2> QED
      BY <2>2 DEF AreBytes
  <1> QED
    BY <1>1, <1>2, <1>4, <1>5, <1>6

(* So no ID the reader knows stands where it stands,                       *)
LEMMA NoIdAtSizeField ==
  ASSUME NEW f \in File, f.open, NEW pos \in Nat, NEW from \in Nat, AtSizeField(f, pos, from)
  PROVE  ~KnownIdAt(f, from)
  <1> SUFFICES ASSUME KnownIdAt(f, from) PROVE FALSE
    OBVIOUS
  <1>1. PICK n \in 1 .. ByteBits :
          /\ EndOf(f, Header(f, pos)) = from + n
          /\ from + n <= Len(f.bytes)
          /\ AreBytes(f.bytes, from, n)
          /\ Number(f.bytes, from, n) = 2 * Power2[(ByteBits - 1) * n] - 1
    BY SizeFieldIs
  <1>2. PICK v : v = VintAt(f, from, "rm_ebml_id")
    OBVIOUS
  <1>3. v.value \in Level1Ids \cup GlobalIds
    BY <1>2 DEF KnownIdAt
  <1>4. v # NoVint
    BY <1>3, IdsAssumption DEF NoVint
  <1>5. IsReadAt(v, f, from, "rm_ebml_id")
    BY <1>2, <1>4, VintAtIs DEF Mode
  <1>6. PICK m \in 1 .. ByteBits : m = v.coded_size
    BY <1>5, VintAssumption, ByteAssumption DEF IsReadAt
  <1>7. /\ v.value = Number(f.bytes, from, m)
        /\ Number(f.bytes, from, m) \in
             Power2[(ByteBits - 1) * m] .. 2 * Power2[(ByteBits - 1) * m] - 1
        /\ from + m <= Len(f.bytes)
    <2>1. m <= ByteBits
      BY ByteAssumption
    <2>2. /\ v.value = Number(f.bytes, from, m) - CutOff("rm_ebml_id", m)
          /\ Number(f.bytes, from, m) \in
               Power2[(ByteBits - 1) * m] .. 2 * Power2[(ByteBits - 1) * m] - 1
          /\ from + m <= Len(f.bytes)
      BY <1>5, <1>6, <2>1 DEF IsReadAt
    <2>3. CutOff("rm_ebml_id", m) = 0
      BY DEF CutOff
    <2>4. PICK marker \in Nat : marker = Power2[(ByteBits - 1) * m]
      BY VintBits
    <2> QED
      BY <2>2, <2>3, <2>4
  <1>8. AreBytes(f.bytes, from, m)
    <2>1. f.bytes \in Seq(Byte) /\ Len(f.bytes) \in Nat
      BY DEF File
    <2>2. ASSUME NEW i \in 1 .. m PROVE f.bytes[from + i] \in Byte
      <3>1. from + i \in 1 .. Len(f.bytes)
        BY <1>7, <2>1
      <3> QED
        BY <2>1, <3>1
    <2> QED
      BY <2>2 DEF AreBytes
  <1>9. PICK b : b = f.bytes
    OBVIOUS
  <1>10. value_len(b[from + 1]) = m
    BY <1>7, <1>8, <1>9, CodedLength
  <1>11. value_len(b[from + 1]) = n
    <2>1. PICK marker \in Nat \ {0} : marker = Power2[(ByteBits - 1) * n]
      BY VintBits
    <2>2. Number(b, from, n) \in marker .. 2 * marker - 1
      BY <1>1, <1>9, <2>1
    <2> QED
      BY <1>1, <1>9, <2>1, <2>2, CodedLength
  <1>12. v.value = 2 * Power2[(ByteBits - 1) * n] - 1
    BY <1>1, <1>7, <1>10, <1>11
  <1> QED
    BY <1>3, <1>12, CodedIdsAssumption

(* nor does one begin inside it.                                           *)
LEMMA NoIdInSizeField ==
  ASSUME NEW f \in File, f.open, NEW pos \in Nat, NEW from \in Nat, AtSizeField(f, pos, from),
         NEW at \in Nat, at > from, at + IdBytes <= Len(f.bytes), Matches(IdAt(f, at))
  PROVE  EndOf(f, Header(f, pos)) <= at
  <1>1. PICK n \in 1 .. ByteBits :
          /\ EndOf(f, Header(f, pos)) = from + n
          /\ from + n <= Len(f.bytes)
          /\ AreBytes(f.bytes, from, n)
          /\ Number(f.bytes, from, n) = 2 * Power2[(ByteBits - 1) * n] - 1
    BY SizeFieldIs
  <1> SUFFICES ASSUME at < from + n PROVE FALSE
    BY <1>1
  <1>2. PICK b : b = f.bytes /\ b \in Seq(Byte)
    BY DEF File
  <1>3. PICK k \in 1 .. n - 1 : at = from + k
    <2>1. at - from \in 1 .. n - 1 /\ at = from + (at - from)
      OBVIOUS
    <2> QED
      BY <2>1
  <1>4. b[at + 1] = Power2[ByteBits] - 1
    <2>1. b[from + k + 1] = Power2[ByteBits] - 1
      BY <1>1, <1>2, OnesBehind
    <2> QED
      BY <1>3, <2>1
  <1>5. value_len(b[at + 1]) = 1
    <2>1. PICK top \in Nat \ {0} : top = Power2[ByteBits - 1] /\ 2 * top = Power2[ByteBits]
      <3>1. PICK e \in Nat : e = ByteBits - 1 /\ e + 1 = ByteBits
        BY ByteAssumption
      <3>2. Power2[e] \in Nat \ {0} /\ Power2[e + 1] = 2 * Power2[e]
        BY Power2Step
      <3> QED
        BY <3>1, <3>2
    <2>2. PICK one \in 1 .. ByteBits : one = 1
      BY ByteAssumption
    <2>3. PICK byte \in Byte : byte = 2 * top - 1 /\ byte = b[at + 1]
      <3>1. 2 * top - 1 \in Byte
        BY <2>1, SMTT(30) DEF Byte
      <3> QED
        BY <1>4, <2>1, <3>1
    <2>4. byte \in Power2[ByteBits - one] .. 2 * Power2[ByteBits - one] - 1
      BY <2>1, <2>2, <2>3, SMTT(30)
    <2>5. value_len(byte) = one
      BY <2>4, ValueLenIs
    <2> QED
      BY <2>2, <2>3, <2>5
  <1>6. PICK m \in 2 .. ByteBits : m = IdBytes
    BY CodedIdsAssumption
  <1>7. IdAt(f, at) \in Level1Ids
    <2>1. IdAt(f, at) \in Level1Ids \/ (WantedId # 0 /\ IdAt(f, at) = WantedId)
      BY DEF Matches, is_level1_element_id
    <2> QED
      BY <2>1, IdsAssumption
  <1>8. Number(b, at, m) \in Power2[(ByteBits - 1) * m] .. 2 * Power2[(ByteBits - 1) * m] - 1
    <2>1. IdAt(f, at) = Number(b, at, m)
      BY <1>2, <1>6 DEF IdAt, Number
    <2> QED
      BY <1>6, <1>7, <2>1, CodedIdsAssumption
  <1>9. AreBytes(b, at, m)
    <2>1. ASSUME NEW i \in 1 .. m PROVE b[at + i] \in Byte
      <3>1. at + i \in 1 .. Len(b)
        BY <1>2, <1>6
      <3> QED
        BY <1>2, <3>1
    <2> QED
      BY <2>1 DEF AreBytes
  <1>10. value_len(b[at + 1]) = m
    <2>1. m \in 1 .. ByteBits
      BY ByteAssumption
    <2> QED
      BY <1>8, <1>9, <2>1, CodedLength
  <1> QED
    BY <1>5, <1>10


(* Where an element ends, and whether the reader has it behind it: either  *)
(* its end is, or the reader stands at the size field of what looked like  *)
(* a master without children.                                              *)
EndsBy(f, e, at) == EndOf(f, Header(f, e.pos)) <= at

PassedBy(f, e, at) == EndsBy(f, e, at) \/ AtSizeField(f, e.pos, at)

(* The end of an element is a position, and libebml's end passes it by.    *)
LEMMA ElementEnd ==
  ASSUME NEW f \in File, f.open, NEW e \in Elements(f)
  PROVE  /\ e.pos \in Nat /\ e.end \in Nat /\ e.end > e.pos
         /\ EndOf(f, Header(f, e.pos)) \in Nat
         /\ PassedBy(f, e, e.end)
  <1>1. /\ e.pos \in Nat /\ e.end \in Nat /\ e.end > e.pos
        /\ IsElementAt(f, e.pos, e)
    BY DEF Elements, IsElementAt
  <1>2. PICK end : end = EndOf(f, Header(f, e.pos))
    OBVIOUS
  <1>3. CASE end = e.end
    BY <1>1, <1>2, <1>3 DEF PassedBy, EndsBy
  <1>4. CASE AtSizeField(f, e.pos, e.end)
    <2>1. PICK n \in 1 .. ByteBits : end = e.end + n
      BY <1>1, <1>2, <1>4, SizeFieldIs
    <2>2. end \in Nat
      BY <1>1, <2>1, ByteAssumption
    <2> QED
      BY <1>1, <1>2, <1>4, <2>2 DEF PassedBy
  <1> QED
    BY <1>1, <1>2, <1>3, <1>4 DEF IsElementAt

(* It does not depend on the pointer of the file.                          *)
LEMMA SamePassed ==
  ASSUME NEW f, NEW g, SameBytes(f, g), NEW e \in Elements(f), NEW at
  PROVE  /\ EndsBy(f, e, at) <=> EndsBy(g, e, at)
         /\ PassedBy(f, e, at) => PassedBy(g, e, at)
  <1>1. e.pos \in Nat /\ Header(f, e.pos).decodes
    BY DEF Elements, IsElementAt
  <1>2. PICK pos \in Nat : pos = e.pos /\ Header(f, pos).decodes
    BY <1>1
  <1>3. /\ EndOf(f, Header(f, pos)) = EndOf(g, Header(g, pos))
        /\ \A fp : AtSizeField(f, pos, fp) => AtSizeField(g, pos, fp)
    BY <1>2, SameElement
  <1> QED
    BY <1>2, <1>3 DEF PassedBy, EndsBy

(* What is passed by has ended where a known ID stands,                    *)
LEMMA EndsByKnownId ==
  ASSUME FileInSegment, KnownId(IdHere), NEW e \in Elements(file), PassedBy(file, e, file.fp),
         NEW at \in Nat, file.fp <= at
  PROVE  EndsBy(file, e, at)
  <1>1. file \in File /\ file.open /\ file.fp \in Nat
    BY DEF FileInSegment, File
  <1>2. e.pos \in Nat /\ EndOf(file, Header(file, e.pos)) \in Nat
    BY <1>1, ElementEnd
  <1>3. ~AtSizeField(file, e.pos, file.fp)
    <2>1. KnownIdAt(file, file.fp)
      BY KnownWhenDirect
    <2> QED
      BY <1>1, <1>2, <2>1, NoIdAtSizeField
  <1>4. EndOf(file, Header(file, e.pos)) <= file.fp
    BY <1>3 DEF PassedBy, EndsBy
  <1> QED
    BY <1>1, <1>2, <1>4 DEF EndsBy

(* and at an ID further on.                                                *)
LEMMA EndsByCandidate ==
  ASSUME NEW f \in File, f.open, NEW e \in Elements(f), NEW from \in Nat, PassedBy(f, e, from),
         NEW at \in Nat, at > from, at + IdBytes <= Len(f.bytes), Matches(IdAt(f, at))
  PROVE  EndsBy(f, e, at)
  <1>1. e.pos \in Nat /\ EndOf(f, Header(f, e.pos)) \in Nat
    BY ElementEnd
  <1>2. CASE EndsBy(f, e, from)
    BY <1>1, <1>2 DEF EndsBy
  <1>3. CASE AtSizeField(f, e.pos, from)
    <2>1. EndOf(f, Header(f, e.pos)) <= at
      BY <1>1, <1>3, NoIdInSizeField
    <2> QED
      BY <2>1 DEF EndsBy
  <1> QED
    BY <1>2, <1>3 DEF PassedBy

(* The invariant: wherever the reader is, all it has delivered is behind.  *)
AllEndBy(f, at) == \A e \in Range(delivered) : EndsBy(f, e, at)

AllPassedBy(f, at) == \A e \in Range(delivered) : PassedBy(f, e, at)

OrderInv ==
  /\ InOrder
  /\ pc \in {"start", "read_next", "resync"} => AllPassedBy(file, file.fp)
  /\ pc = "scan" => AllPassedBy(file, resync_start_pos)
  /\ pc = "caller" /\ l1 # NoElement => file.fp = l1.end /\ AllEndBy(file, l1.pos)

(* Nothing about it changes with the pointer alone.                        *)
LEMMA SameOrder ==
  ASSUME ReaderInv, SegmentInv, [Next]_vars
  PROVE  /\ \A at : AllPassedBy(file, at) => \A e \in Range(delivered) : PassedBy(file', e, at)
         /\ \A at : AllEndBy(file, at) => \A e \in Range(delivered) : EndsBy(file', e, at)
         /\ InOrder => \A i, j \in DOMAIN delivered :
                         i < j => EndsBy(file', delivered[i], delivered[j].pos)
  <1>1. SameBytes(file, file')
    BY BytesStay
  <1>2. /\ Range(delivered) \subseteq Elements(file)
        /\ \A i \in DOMAIN delivered : delivered[i] \in Elements(file)
    BY DEF SegmentInv, ElementsOfFile, Range
  <1>3. \A e \in Elements(file) : \A at :
          /\ EndsBy(file, e, at) <=> EndsBy(file', e, at)
          /\ PassedBy(file, e, at) => PassedBy(file', e, at)
    BY <1>1, SamePassed
  <1> QED
    BY <1>2, <1>3 DEF AllPassedBy, AllEndBy, InOrder, EndsBy

(* Where nothing is delivered, it is kept when what is passed by is.       *)
LEMMA OrderKeeps ==
  ASSUME ReaderInv, SegmentInv, OrderInv, [Next]_vars, delivered' = delivered,
         pc' \in {"start", "read_next", "resync"} => AllPassedBy(file, file'.fp),
         pc' = "scan" => AllPassedBy(file, resync_start_pos'),
         pc' = "caller" /\ l1' # NoElement => file'.fp = l1'.end /\ AllEndBy(file, l1'.pos)
  PROVE  OrderInv'
  <1>1. InOrder'
    BY SameOrder DEF OrderInv, InOrder, EndsBy
  <1> QED
    BY <1>1, SameOrder DEF OrderInv, AllPassedBy, AllEndBy

(* Every step keeps it: an element is returned from a known ID, and a      *)
(* candidate has one, which neither the size field of what looked like a   *)
(* master without children holds.                                          *)
LEMMA OrderKept ==
  ASSUME ReaderInv, SegmentInv, SearchInv, OrderInv, [Next]_vars
  PROVE  OrderInv'
  <1>0. FileInSegment /\ SegmentTypes /\ ElementsOfFile
    BY DEF SegmentInv
  <1>1. /\ file \in File /\ file.open /\ file.fp \in Nat /\ Len(file.bytes) \in Nat
        /\ file_size = Len(file.bytes) /\ resync_start_pos \in Nat
        /\ delivered \in Seq(Elements(file)) /\ Range(delivered) \subseteq Elements(file)
    BY <1>0 DEF FileInSegment, SegmentTypes, ElementsOfFile, File, file_size, get_size, Range
  <1>2. CASE set_segment_end
    <2>1. pc = "start" /\ pc' \in {"read_next", "resync"} /\ file' = file /\ delivered' = delivered
      BY <1>2, IdsAssumption DEF set_segment_end
    <2>2. AllPassedBy(file, file.fp)
      BY <2>1 DEF OrderInv
    <2> QED
      BY <2>1, <2>2, OrderKeeps
  <1>3. CASE read_next_level1_element
    <2>1. pc = "read_next" /\ delivered' = delivered
      BY <1>3 DEF read_next_level1_element
    <2>2. AllPassedBy(file, file.fp)
      BY <2>1 DEF OrderInv
    <2>3. CASE Ended
      BY <2>1, <2>3, OrderKeeps DEF Ended
    <2>4. CASE Resyncs
      BY <2>1, <2>2, <2>4, OrderKeeps DEF Resyncs
    <2>5. CASE Returns \/ PassesOver
      <3>1. PICK one : /\ OneHere(one)
                       /\ file' = [file EXCEPT !.fp = one.end]
                       /\ (pc' = "caller" /\ l1' = one) \/ pc' = "read_next"
        BY <2>5 DEF Returns, PassesOver
      <3>2. KnownId(IdHere)
        BY <2>5 DEF Returns, PassesOver, KnownId
      <3>3. /\ one \in Elements(file) /\ one.pos >= file.fp
            /\ one.pos \in Nat /\ one.end \in Nat /\ one.end > one.pos
        BY <1>0, <3>1, OneHereIs, ElementsAre
      <3>4. file'.fp = one.end
        BY <1>1, <3>1, <3>3 DEF File
      <3>5. AllEndBy(file, one.pos)
        BY <1>0, <1>1, <2>2, <3>2, <3>3, EndsByKnownId DEF AllEndBy, AllPassedBy
      <3>6. AllPassedBy(file, one.end)
        <4>1. \A e \in Range(delivered) : EndOf(file, Header(file, e.pos)) \in Nat
          BY <1>1, ElementEnd
        <4> QED
          BY <3>3, <3>5, <4>1 DEF AllEndBy, AllPassedBy, PassedBy, EndsBy
      <3> QED
        BY <2>1, <3>1, <3>4, <3>5, <3>6, OrderKeeps
    <2> QED
      BY <1>0, <1>3, <2>3, <2>4, <2>5, ReadNextCases
  <1>4. CASE resync_to_level1_element
    <2>1. pc = "resync" /\ delivered' = delivered
      BY <1>4 DEF resync_to_level1_element
    <2>2. AllPassedBy(file, file.fp)
      BY <2>1 DEF OrderInv
    <2>3. CASE Ended
      BY <2>1, <2>3, OrderKeeps DEF Ended
    <2>4. CASE ResyncBegins
      BY <2>1, <2>2, <2>4, OrderKeeps DEF ResyncBegins
    <2> QED
      BY <1>0, <1>4, <2>3, <2>4, ResyncCases
  <1>5. CASE ScanByte
    <2>1. pc = "scan" /\ delivered' = delivered
      BY <1>5 DEF ScanByte
    <2>2. AllPassedBy(file, resync_start_pos)
      BY <2>1 DEF OrderInv
    <2>3. CASE ScanEnds
      BY <2>1, <2>3, OrderKeeps DEF ScanEnds
    <2>4. CASE ScansOn
      BY <2>1, <2>2, <2>4, OrderKeeps DEF ScansOn, kax
    <2>5. CASE ScanAccepts
      <3>1. PICK at \in Nat : at = file.fp + 1 - IdBytes /\ at > resync_start_pos
        BY <2>5 DEF ScanAccepts
      <3>2. /\ file.fp < file_size /\ Matches(NextWindow) /\ pc' = "read_next"
            /\ file' = [file EXCEPT !.fp = at]
        BY <2>5, <3>1 DEF ScanAccepts
      <3>3. PICK from \in Nat : from = file.fp - IdBytes /\ from >= resync_start_pos
                                /\ file.fp = from + IdBytes /\ at = from + 1
        <4>1. file.fp - IdBytes \in Nat /\ file.fp - IdBytes >= resync_start_pos
              /\ file.fp = (file.fp - IdBytes) + IdBytes /\ at = (file.fp - IdBytes) + 1
          BY <1>1, <3>1, ByteAssumption, SMTT(30)
        <4> QED
          BY <4>1
      <3>4. actual_id = IdAt(file, from)
        <4>1. file.fp >= resync_start_pos + IdBytes
          BY <1>1, <3>3, ByteAssumption
        <4>2. actual_id = IdAt(file, file.fp - IdBytes)
          BY <2>1, <4>1 DEF SearchInv
        <4> QED
          BY <3>3, <4>2
      <3>5. Matches(IdAt(file, at))
        BY <1>0, <3>2, <3>3, <3>4, WindowSlides
      <3>6. at + IdBytes <= Len(file.bytes)
        BY <1>1, <3>1, <3>2, ByteAssumption
      <3>7. AllPassedBy(file, at)
        BY <1>1, <2>2, <3>1, <3>5, <3>6, EndsByCandidate DEF AllPassedBy, PassedBy
      <3>8. file'.fp = at
        BY <1>1, <3>2 DEF File
      <3> QED
        BY <2>1, <3>2, <3>7, <3>8, OrderKeeps
    <2> QED
      BY <1>0, <1>5, <2>3, <2>4, <2>5, ScanCases
  <1>6. CASE handle_segment
    <2>1. pc = "caller" /\ l1' = l1
      BY <1>6 DEF handle_segment
    <2>2. CASE l1 = NoElement
      <3>1. pc' = "done" /\ delivered' = delivered
        BY <1>6, <2>2 DEF handle_segment
      <3> QED
        BY <3>1, OrderKeeps
    <2>3. CASE l1 # NoElement
      <3>1. delivered' = Append(delivered, l1) /\ pc' \in {"read_next", "resync", "done"}
        BY <1>6, <2>3, IdsAssumption DEF handle_segment
      <3>2. l1 \in Elements(file)
        BY <1>0, <2>3 DEF ElementsOfFile
      <3>3. file.fp = l1.end /\ AllEndBy(file, l1.pos)
        BY <2>1, <2>3 DEF OrderInv
      <3>4. /\ l1.pos \in Nat /\ l1.end \in Nat /\ l1.end > l1.pos
            /\ PassedBy(file, l1, l1.end)
        BY <1>1, <3>2, ElementEnd
      <3>5. file'.fp = l1.end
        BY <1>1, <1>6, <2>3, <3>3, <3>4
        DEF handle_segment, setFilePointer2, setFilePointer, File
      <3>6. SameBytes(file, file')
        BY BytesStay
      <3>7. \A e \in Elements(file) : \A at :
              /\ EndsBy(file, e, at) <=> EndsBy(file', e, at)
              /\ PassedBy(file, e, at) => PassedBy(file', e, at)
        BY <3>6, SamePassed
      <3>8. InOrder'
        <4> SUFFICES ASSUME NEW i \in DOMAIN delivered', NEW j \in DOMAIN delivered', i < j
                     PROVE  EndsBy(file', delivered'[i], delivered'[j].pos)
          BY DEF InOrder, EndsBy
        <4>1. /\ DOMAIN delivered = 1 .. Len(delivered) /\ Len(delivered) \in Nat
              /\ DOMAIN delivered' = 1 .. Len(delivered) + 1
              /\ \A k \in DOMAIN delivered : delivered'[k] = delivered[k]
              /\ delivered'[Len(delivered) + 1] = l1
          BY <1>1, <3>1, <3>2
        <4>2. i \in DOMAIN delivered /\ delivered'[i] = delivered[i]
              /\ delivered[i] \in Elements(file) /\ delivered[i] \in Range(delivered)
          BY <1>1, <4>1 DEF Range
        <4>3. CASE j \in DOMAIN delivered
          <5>1. EndsBy(file, delivered[i], delivered[j].pos)
            BY <4>2, <4>3 DEF OrderInv, InOrder, EndsBy
          <5> QED
            BY <3>7, <4>1, <4>2, <4>3, <5>1
        <4>4. CASE j = Len(delivered) + 1
          BY <3>3, <3>7, <4>1, <4>2, <4>4 DEF AllEndBy
        <4> QED
          BY <4>1, <4>3, <4>4
      <3>9. \A e \in Range(delivered)' : PassedBy(file', e, l1.end)
        <4>1. Range(delivered)' \subseteq Range(delivered) \cup {l1}
          BY <1>1, <3>1, <3>2 DEF Range
        <4>2. \A e \in Range(delivered) : PassedBy(file, e, l1.end)
          <5>1. \A e \in Range(delivered) : EndOf(file, Header(file, e.pos)) \in Nat
            BY <1>1, ElementEnd
          <5> QED
            BY <3>3, <3>4, <5>1 DEF AllEndBy, PassedBy, EndsBy
        <4> QED
          BY <1>1, <3>2, <3>4, <3>7, <4>1, <4>2
      <3>10. AllPassedBy(file, file.fp)'
        BY <3>5, <3>9 DEF AllPassedBy
      <3> QED
        BY <3>1, <3>8, <3>10 DEF OrderInv
    <2> QED
      BY <2>2, <2>3
  <1>7. CASE UNCHANGED vars
    BY <1>7, OrderKeeps DEF vars, kax, OrderInv
  <1> QED
    BY <1>2, <1>3, <1>4, <1>5, <1>6, <1>7 DEF Next

(* No byte of the file is delivered as part of two elements, and elements  *)
(* come in the order of the file, over every resync and whatever sizes the *)
(* headers on the way claim.                                               *)
THEOREM DeliveredInOrder == Spec => []InOrder
  <1>1. Init => SearchInv
    BY DEF Init, SearchInv
  <1>2. Init => OrderInv
    <2> SUFFICES ASSUME Init PROVE OrderInv
      OBVIOUS
    <2>1. delivered = <<>> /\ pc = "start"
      BY DEF Init
    <2>2. Range(delivered) = {} /\ DOMAIN delivered = {}
      BY <2>1 DEF Range
    <2> QED
      BY <2>1, <2>2 DEF OrderInv, InOrder, AllPassedBy
  <1>3. OrderInv => InOrder
    BY DEF OrderInv
  <1>4. (ReaderInv /\ SegmentInv) /\ SearchInv /\ [Next]_vars => SearchInv'
    BY SearchKept
  <1>5. (ReaderInv /\ SegmentInv) /\ SearchInv /\ OrderInv /\ [Next]_vars => OrderInv'
    BY OrderKept
  <1> QED
    BY <1>1, <1>2, <1>3, <1>4, <1>5, SegmentInvariance, PTL DEF Spec


-----------------------------------------------------------------------------
(* As far as the Segment is regular the caller gets what it wants of it.   *)

(* A sequence goes on behind what is appended to it.                       *)
LEMMA AppendAndRest ==
  ASSUME NEW S, NEW s \in Seq(S), NEW e \in S, NEW r \in Seq(S)
  PROVE  /\ Append(s, e) \o r = s \o (<<e>> \o r)
         /\ Append(s, e) = s \o <<e>>
         /\ s \o <<>> = s /\ <<>> \o s = s
  BY SMTT(30)

(* A sequence is a prefix of itself, and of what its extensions become.    *)
LEMMA PrefixGrows ==
  ASSUME NEW S, NEW s \in Seq(S), NEW t \in Seq(S), NEW e \in S
  PROVE  IsPrefix(s, s) /\ (IsPrefix(s, t) => IsPrefix(s, Append(t, e)))
  <1>1. IsPrefix(s, s)
    BY DEF IsPrefix
  <1>2. ASSUME IsPrefix(s, t) PROVE IsPrefix(s, Append(t, e))
    <2>1. Len(s) <= Len(t) /\ Len(s) \in Nat /\ Len(t) \in Nat
      BY <1>2 DEF IsPrefix
    <2>2. SubSeq(Append(t, e), 1, Len(s)) = SubSeq(t, 1, Len(s))
      BY <2>1
    <2>3. Len(Append(t, e)) = Len(t) + 1
      OBVIOUS
    <2> QED
      BY <1>2, <2>1, <2>2, <2>3 DEF IsPrefix
  <1> QED
    BY <1>1, <1>2


(* The element at a position, what the caller gets there, and whether it   *)
(* goes on from its end; Document as a function of where to begin.         *)
ElementAt(f, pos) == Element(f, Header(f, pos))

Stops(element) == WantedId = 0 /\ element.id = ClusterId

Gets(element) == IF Wanted(element) THEN <<element>> ELSE <<>>

Follows(f, end, broken, pos, rest) ==
  IF ~Regular(f, end, broken, pos) THEN <<>>
  ELSE IF Stops(ElementAt(f, pos)) THEN <<ElementAt(f, pos)>>
  ELSE Gets(ElementAt(f, pos)) \o rest[ElementAt(f, pos).end]

Rest(f, end, broken) ==
  CHOOSE rest : rest = [pos \in 1 .. get_size(f) |-> Follows(f, end, broken, pos, rest)]

(* Document is what is to come from the first position.                    *)
LEMMA DocumentIs ==
  ASSUME NEW f, NEW end, NEW broken
  PROVE  Document(f, end, broken) = Rest(f, end, broken)[1]
  BY DEF Document, Rest, Follows, Stops, Gets, ElementAt

(* A regular element is an element of the file that ends where it says,    *)
(* inside the Segment and the file.                                        *)
LEMMA RegularIs ==
  ASSUME NEW f \in File, f.open, NEW end \in Nat, NEW broken,
         NEW pos \in 1 .. get_size(f), Regular(f, end, broken, pos)
  PROVE  /\ ElementAt(f, pos) \in Elements(f)
         /\ ElementAt(f, pos).pos = pos
         /\ ElementAt(f, pos).id = Header(f, pos).id
         /\ ElementAt(f, pos).end \in pos + 1 .. end
         /\ ElementAt(f, pos).end \in 1 .. get_size(f)
         /\ IsElementAt(f, pos, ElementAt(f, pos))
  <1>1. pos \in Nat /\ get_size(f) \in Nat
    BY DEF File, get_size
  <1>2. PICK h : /\ h = Header(f, pos) /\ h.decodes /\ ~h.unknown
                 /\ h.content + h.size <= end /\ h.content + h.size <= get_size(f)
    BY DEF Regular
  <1>3. PICK e : e = ElementAt(f, pos) /\ IsElementAt(f, pos, e)
    BY <1>1, <1>2, ElementIs DEF ElementAt
  <1>4. /\ e \in [pos : Nat, id : Nat, end : Nat] /\ e.pos = pos /\ e.id = h.id
        /\ e.end > pos /\ e.end = h.content + h.size
    BY <1>2, <1>3 DEF IsElementAt
  <1>5. e.end \in pos + 1 .. end /\ e.end \in 1 .. get_size(f) /\ pos \in 1 .. get_size(f) - 1
    BY <1>1, <1>2, <1>4
  <1> QED
    BY <1>2, <1>3, <1>4, <1>5 DEF Elements

(* Document does what its definition says, and gives elements of the file. *)
LEMMA RestEquation ==
  ASSUME NEW f \in File, f.open, NEW end \in Nat, NEW broken,
         NEW pos \in 1 .. get_size(f)
  PROVE  /\ Rest(f, end, broken)[pos] \in Seq(Elements(f))
         /\ Rest(f, end, broken)[pos] = Follows(f, end, broken, pos, Rest(f, end, broken))
  <1>1. PICK n \in Nat : n = get_size(f)
    BY DEF File, get_size
  <1> DEFINE D == 1 .. n
             T == Seq(Elements(f))
             rank == [p \in D |-> n - p]
             step == [p \in D |-> [g \in [D -> T] |-> Follows(f, end, broken, p, g)]]
             Solves(g) == g = [p \in D |-> Follows(f, end, broken, p, g)]
  <1>2. \A p \in D : Regular(f, end, broken, p) =>
          /\ ElementAt(f, p) \in Elements(f)
          /\ ElementAt(f, p).end \in D /\ ElementAt(f, p).end > p
    <2> TAKE p \in D
    <2> HAVE Regular(f, end, broken, p)
    <2>1. PICK q \in 1 .. get_size(f) : q = p
      BY <1>1
    <2>2. /\ ElementAt(f, q) \in Elements(f) /\ ElementAt(f, q).end \in q + 1 .. end
          /\ ElementAt(f, q).end \in 1 .. get_size(f)
      BY <2>1, RegularIs
    <2>3. ElementAt(f, p).end > p
      BY <1>1, <2>1, <2>2
    <2> QED
      BY <1>1, <2>1, <2>2, <2>3
  <1>3. \A p \in D : \A g : (Regular(f, end, broken, p) => g[ElementAt(f, p).end] \in T) =>
          Follows(f, end, broken, p, g) \in T
    <2> TAKE p \in D
    <2> TAKE g
    <2> HAVE Regular(f, end, broken, p) => g[ElementAt(f, p).end] \in T
    <2>1. <<>> \in T
      OBVIOUS
    <2>2. CASE Regular(f, end, broken, p)
      <3>1. PICK e \in Elements(f) : e = ElementAt(f, p)
        BY <1>2, <2>2
      <3>2. PICK r \in T : r = g[e.end]
        BY <2>2, <3>1
      <3>3. <<e>> \in T /\ <<>> \in T
        OBVIOUS
      <3>4. Gets(e) \in T
        BY <3>3 DEF Gets
      <3>5. Gets(e) \o r \in T
        BY <3>2, <3>4
      <3> QED
        BY <2>2, <3>1, <3>2, <3>3, <3>5 DEF Follows
    <2> QED
      BY <2>1, <2>2 DEF Follows
  <1>4. LooksLower(D, T, rank, step)
    <2>1. rank \in [D -> Nat]
      OBVIOUS
    <2>2. step \in [D -> [[D -> T] -> T]]
      <3> HIDE DEF D, T
      <3>1. \A p \in D, g \in [D -> T] : Follows(f, end, broken, p, g) \in T
        BY <1>2, <1>3
      <3> QED
        BY <3>1
    <2>3. ASSUME NEW d \in D, NEW g \in [D -> T], NEW h \in [D -> T],
                 \A e \in D : rank[e] < rank[d] => g[e] = h[e]
          PROVE  step[d][g] = step[d][h]
      <3>1. Regular(f, end, broken, d) => rank[ElementAt(f, d).end] < rank[d]
        BY <1>2
      <3>2. Regular(f, end, broken, d) => g[ElementAt(f, d).end] = h[ElementAt(f, d).end]
        BY <1>2, <2>3, <3>1
      <3>3. Follows(f, end, broken, d, g) = Follows(f, end, broken, d, h)
        BY <3>2 DEF Follows
      <3> HIDE DEF D, T
      <3> QED
        BY <3>3
    <2> QED
      BY <2>1, <2>2, <2>3 DEF LooksLower
  <1>5. \E g : Solves(g)
    <2>1. PICK g \in [D -> T] : \A d \in D : g[d] = step[d][g]
      <3>1. PICK E, U : E = D /\ U = T
        OBVIOUS
      <3>a. T # {}
        <4>1. <<>> \in T
          OBVIOUS
        <4> QED
          BY <4>1
      <3> HIDE DEF rank, step, D, T
      <3>2. LooksLower(E, U, rank, step) /\ U # {}
        BY <1>4, <3>1, <3>a
      <3>3. \E g \in [E -> U] : \A d \in E : g[d] = step[d][g]
        BY <3>2, RecursionByRank
      <3> QED
        BY <3>1, <3>3
    <2>2. Solves(g)
      <3> HIDE DEF D, T
      <3> QED
        BY <2>1
    <2> QED
      BY <2>2
  <1>6. PICK r : r = Rest(f, end, broken)
    OBVIOUS
  <1>7. Solves(r)
    <2>1. r = CHOOSE g : Solves(g)
      BY <1>1, <1>6 DEF Rest
    <2> HIDE DEF Solves
    <2> QED
      BY <1>5, <2>1
  <1>8. \A p \in D : r[p] = Follows(f, end, broken, p, r)
    BY <1>7
  <1> DEFINE S == {k \in Nat : \A p \in D : n - p <= k => r[p] \in T}
  <1>9. 0 \in S
    <2>1. ASSUME NEW p \in D, n - p <= 0 PROVE r[p] \in T
      <3>1. ~Regular(f, end, broken, p)
        BY <1>2, <2>1
      <3> HIDE DEF D, T
      <3> QED
        BY <1>3, <1>8, <3>1
    <2> QED
      BY <2>1
  <1>10. \A k \in Nat : k \in S => k + 1 \in S
    <2>1. ASSUME NEW k \in Nat, k \in S, NEW p \in D, n - p <= k + 1
          PROVE  r[p] \in T
      <3>1. ASSUME Regular(f, end, broken, p) PROVE r[ElementAt(f, p).end] \in T
        <4>1. PICK q \in D : q = ElementAt(f, p).end /\ q > p
          BY <1>2, <3>1
        <4>2. n - q <= k
          BY <2>1, <4>1
        <4> HIDE DEF T
        <4> QED
          BY <2>1, <4>1, <4>2
      <3> HIDE DEF D, T
      <3> QED
        BY <1>3, <1>8, <3>1
    <2> HIDE DEF T
    <2> QED
      BY <2>1
  <1>11. Nat \subseteq S
    <2> HIDE DEF S
    <2> QED
      BY <1>9, <1>10, Induction
  <1>12. pos \in D /\ n - pos \in Nat
    BY <1>1
  <1>13. r[pos] \in T
    <2>1. PICK k \in Nat : k = n - pos /\ k \in S
      BY <1>11, <1>12
    <2>2. n - pos <= k
      BY <1>12, <2>1
    <2> HIDE DEF T, D
    <2> QED
      BY <1>12, <2>1, <2>2
  <1> QED
    BY <1>6, <1>8, <1>12, <1>13

(* It does not depend on the pointer of the file.                          *)
LEMMA SameRest ==
  ASSUME NEW f, NEW g, SameBytes(f, g), NEW end \in Nat, NEW broken
  PROVE  Rest(f, end, broken) = Rest(g, end, broken)
  <1>1. f \in File /\ f.open
    BY DEF SameBytes
  <1>2. PICK n \in Nat : n = get_size(f) /\ n = get_size(g)
    BY <1>1, SameSize DEF File, get_size
  <1>3. ASSUME NEW pos \in 1 .. n
        PROVE  /\ Regular(f, end, broken, pos) <=> Regular(g, end, broken, pos)
               /\ Regular(f, end, broken, pos) => ElementAt(f, pos) = ElementAt(g, pos)
    <2>1. PICK p \in Nat : p = pos /\ p # 0
      OBVIOUS
    <2>2. Header(f, p) = Header(g, p)
      BY <2>1, SameHeader
    <2>3. Header(f, p).decodes => ElementAt(f, p) = ElementAt(g, p)
      <3> HAVE Header(f, p).decodes
      <3>1. IsElementAt(f, p, ElementAt(f, p))
        BY <1>1, ElementIs DEF ElementAt
      <3>2. IsElementAt(g, p, ElementAt(f, p))
        BY <3>1, SameElement
      <3> QED
        BY <3>2 DEF IsElementAt, ElementAt
    <2> QED
      BY <1>2, <2>1, <2>2, <2>3 DEF Regular
  <1>4. \A rest : [pos \in 1 .. n |-> Follows(f, end, broken, pos, rest)]
                    = [pos \in 1 .. n |-> Follows(g, end, broken, pos, rest)]
    <2> TAKE rest
    <2>1. \A pos \in 1 .. n :
            Follows(f, end, broken, pos, rest) = Follows(g, end, broken, pos, rest)
      BY <1>3 DEF Follows
    <2> QED
      BY <2>1
  <1> DEFINE SolvesF(rest) == rest = [pos \in 1 .. n |-> Follows(f, end, broken, pos, rest)]
             SolvesG(rest) == rest = [pos \in 1 .. n |-> Follows(g, end, broken, pos, rest)]
  <1>5. \A rest : SolvesF(rest) <=> SolvesG(rest)
    BY <1>4
  <1>6. /\ Rest(f, end, broken) = CHOOSE rest : SolvesF(rest)
        /\ Rest(g, end, broken) = CHOOSE rest : SolvesG(rest)
    BY <1>2 DEF Rest
  <1> HIDE DEF SolvesF, SolvesG
  <1> QED
    BY <1>5, <1>6


(* What a file still has to give from where the reader is.                 *)
Coming == Rest(file, SegmentEnd, damaged)

InFile(fp) == fp \in 1 .. file_size

(* The invariant: the caller has got the document, or what it has got is   *)
(* its beginning, with what it has just been returned, and the rest begins *)
(* where the file pointer is.                                              *)
Following ==
  \/ /\ pc \in {"start", "read_next"}
     /\ InFile(file.fp)
     /\ Coming[1] = delivered \o Coming[file.fp]
  \/ /\ pc = "caller"
     /\ l1 # NoElement
     /\ \/ Stops(l1) /\ Coming[1] = Append(delivered, l1)
        \/ /\ ~Stops(l1) /\ file.fp = l1.end
           /\ InFile(file.fp)
           /\ Coming[1] = Append(delivered, l1) \o Coming[file.fp]

DocumentInv == IsPrefix(Coming[1], delivered) \/ Following

(* What is to come is sequences of elements of the file, by the equation   *)
(* of Document.                                                            *)
LEMMA ComingIs ==
  ASSUME FileInSegment, SegmentTypes, NEW pos, InFile(pos)
  PROVE  /\ Coming[pos] \in Seq(Elements(file))
         /\ Coming[pos] = Follows(file, SegmentEnd, damaged, pos, Coming)
  <1>1. /\ file \in File /\ file.open /\ file_size = get_size(file) /\ file_size \in Nat
    BY DEF FileInSegment, File, file_size, get_size
  <1>2. SegmentEnd \in Nat
    BY <1>1 DEF SegmentTypes, SegmentEnd
  <1>3. PICK end \in Nat : end = SegmentEnd
    BY <1>1, <1>2
  <1> QED
    BY <1>1, <1>3, RestEquation DEF Coming, InFile

(* It stays what it is.                                                    *)
LEMMA ComingStays ==
  ASSUME ReaderInv, SegmentInv, [Next]_vars
  PROVE  Coming' = Coming /\ file_size' = file_size
  <1>0. FileInSegment /\ SegmentTypes
    BY DEF SegmentInv
  <1>1. SameBytes(file, file') /\ file_size' = file_size /\ l0' = l0 /\ damaged' = damaged
    BY BytesStay DEF constant
  <1>2. SegmentEnd' = SegmentEnd
    BY <1>1 DEF SegmentEnd
  <1>3. SegmentEnd \in Nat /\ file_size = get_size(file)
    BY <1>0 DEF FileInSegment, File, file_size, get_size, SegmentTypes, SegmentEnd
  <1>4. PICK end \in Nat : end = SegmentEnd
    BY <1>3
  <1>5. Rest(file, end, damaged) = Rest(file', end, damaged)
    BY <1>1, SameRest
  <1> QED
    BY <1>1, <1>2, <1>4, <1>5 DEF Coming

(* From a regular element read_next gives the caller that element, if it   *)
(* wants it, and goes on behind it.                                        *)
LEMMA ReadsRegular ==
  ASSUME FileInSegment, SegmentTypes, read_next_level1_element, pc = "read_next",
         NEW e, e = ElementAt(file, file.fp), InFile(file.fp),
         Regular(file, SegmentEnd, damaged, file.fp)
  PROVE  /\ file' = [file EXCEPT !.fp = e.end]
         /\ IF Wanted(e) THEN pc' = "caller" /\ l1' = e ELSE pc' = "read_next"
  <1>1. /\ file \in File /\ file.open /\ file.fp \in Nat
        /\ file_size = get_size(file) /\ file_size \in Nat
    BY DEF FileInSegment, File, file_size, get_size
  <1>2. segment_end = SegmentEnd /\ segment_end \in Nat
    BY <1>1 DEF SegmentTypes
  <1>3. PICK pos \in 1 .. get_size(file) : pos = file.fp
    BY <1>1 DEF InFile
  <1>4. /\ e \in Elements(file) /\ e.pos = pos /\ e.id = Header(file, pos).id
        /\ e.end \in pos + 1 .. segment_end
        /\ IsElementAt(file, pos, e)
    BY <1>1, <1>2, <1>3, RegularIs
  <1>5. /\ Header(file, pos).decodes
        /\ Header(file, pos).id \in Level1Ids \cup GlobalIds
        /\ pos \notin damaged
    BY <1>3 DEF Regular
  <1>6. e.id = IdHere.value /\ is_valid(IdHere)
    <2>1. DecodesAs(file, pos, Header(file, pos))
      BY <1>1, <1>3, <1>5, HeaderDecodes
    <2>2. IdHere = VintAt(file, pos, "rm_ebml_id")
      BY <1>3 DEF IdHere
    <2>3. PICK id : id = IdHere
      OBVIOUS
    <2>4. PICK size : size = VintAt(file, pos + id.coded_size, "rm_normal")
      OBVIOUS
    <2>5. Header(file, pos) = HeaderOf(pos, id, size)
      BY <2>2, <2>3, <2>4, HeaderIs
    <2>6. is_valid(id)
      BY <1>5, <2>5 DEF HeaderOf
    <2> QED
      BY <1>4, <2>1, <2>2, <2>3, <2>6 DEF DecodesAs
  <1>7. FindNextElement(file, pos) = e
    <2>1. pos \in pos .. get_size(file) - 1
      <3>1. pos \in 1 .. get_size(file) - 1
        BY <1>4 DEF Elements
      <3> QED
        BY <3>1
    <2>2. pos \in Nat
      BY <1>3
    <2>3. PICK p \in pos .. get_size(file) - 1 :
            /\ IsElementAt(file, p, FindNextElement(file, pos))
            /\ \A before \in pos .. p - 1 : ~Header(file, before).decodes
      BY <1>1, <1>5, <2>1, <2>2, FindsFirst
    <2>4. p = pos
      BY <1>1, <1>5, <2>2, <2>3
    <2> QED
      BY <1>4, <2>3, <2>4 DEF IsElementAt
  <1>8. OneHere(e) /\ \A one : OneHere(one) => one = e
    <2>1. e # NoElement
      BY <1>4, ElementsAre
    <2> QED
      BY <1>3, <1>4, <1>5, <1>7, <2>1 DEF OneHere
  <1>9. /\ Wanted(e) => Direct(IdHere)
        /\ KnownId(IdHere)
    <2>1. WantedId = 0 => Direct(IdHere)
      BY <1>4, <1>5, <1>6 DEF Direct, is_level1_element_id, is_global_element_id
    <2>2. WantedId # 0 => Skip(IdHere)
      BY <1>4, <1>5, <1>6 DEF Skip, is_level1_element_id, is_global_element_id
    <2>3. WantedId = e.id => Direct(IdHere)
      BY <1>6 DEF Direct
    <2> QED
      BY <1>6, <2>1, <2>2, <2>3 DEF KnownId, Wanted
  <1>10. ~Ended /\ ~Resyncs
    <2>1. file.fp < segment_end
      BY <1>2, <1>3, <1>4
    <2> QED
      BY <1>1, <1>2, <1>8, <1>9, <2>1 DEF Ended, Resyncs
  <1>11. CASE Returns
    BY <1>8, <1>11 DEF Returns
  <1>12. CASE PassesOver
    BY <1>8, <1>9, <1>12 DEF PassesOver
  <1> QED
    BY <1>10, <1>11, <1>12, ReadNextCases

(* Where nothing regular stands, the caller has got the document.          *)
LEMMA NothingComes ==
  ASSUME FileInSegment, SegmentTypes, NEW got \in Seq(Elements(file)), NEW pos, InFile(pos),
         Coming[1] = got \o Coming[pos], ~Regular(file, SegmentEnd, damaged, pos)
  PROVE  IsPrefix(Coming[1], got)
  <1>1. Coming[pos] = <<>>
    BY ComingIs DEF Follows
  <1>2. Coming[1] = got
    BY <1>1
  <1>3. IsPrefix(got, got)
    BY DEF IsPrefix
  <1> QED
    BY <1>2, <1>3

(* What the caller has got, it keeps.                                      *)
LEMMA PrefixKept ==
  ASSUME ReaderInv, SegmentInv, [Next]_vars, IsPrefix(Coming[1], delivered)
  PROVE  IsPrefix(Coming'[1], delivered')
  <1>0. FileInSegment /\ SegmentTypes /\ ElementsOfFile
    BY DEF SegmentInv
  <1>1. Coming' = Coming
    BY ComingStays
  <1>2. delivered' = delivered \/ (l1 # NoElement /\ delivered' = Append(delivered, l1))
    BY DEF Next, set_segment_end, read_next_level1_element, resync_to_level1_element,
           ScanByte, handle_segment, vars
  <1>3. CASE l1 # NoElement /\ delivered' = Append(delivered, l1)
    <2>1. l1 \in Elements(file) /\ delivered \in Seq(Elements(file))
      BY <1>0, <1>3 DEF ElementsOfFile
    <2>2. InFile(1)
      BY <1>0 DEF FileInSegment, File, InFile, file_size, get_size
    <2>3. Coming[1] \in Seq(Elements(file))
      BY <1>0, <2>2, ComingIs
    <2>4. PICK S, s, t : S = Elements(file) /\ s = Coming[1] /\ t = delivered
      OBVIOUS
    <2>5. IsPrefix(s, Append(t, l1))
      BY <2>1, <2>3, <2>4, PrefixGrows
    <2> QED
      BY <1>1, <1>3, <2>4, <2>5
  <1> QED
    BY <1>1, <1>2, <1>3


(* A call of read_next from what is following.                             *)
LEMMA FollowsReading ==
  ASSUME ReaderInv, SegmentInv, Following, read_next_level1_element
  PROVE  DocumentInv'
  <1>0. FileInSegment /\ SegmentTypes /\ ElementsOfFile /\ [Next]_vars
    BY DEF SegmentInv, Next
  <1>1. /\ pc = "read_next" /\ delivered' = delivered
        /\ file \in File /\ file.open /\ file_size = get_size(file) /\ file_size \in Nat
        /\ delivered \in Seq(Elements(file))
    BY <1>0 DEF read_next_level1_element, FileInSegment, File, file_size, get_size,
                ElementsOfFile
  <1>2. InFile(file.fp) /\ Coming[1] = delivered \o Coming[file.fp]
    BY <1>1 DEF Following
  <1>3. Coming' = Coming /\ file_size' = file_size
    BY <1>0, ComingStays
  <1>4. CASE ~Regular(file, SegmentEnd, damaged, file.fp)
    <2>1. IsPrefix(Coming[1], delivered)
      BY <1>0, <1>1, <1>2, <1>4, NothingComes
    <2> QED
      BY <1>1, <1>3, <2>1 DEF DocumentInv
  <1>5. CASE Regular(file, SegmentEnd, damaged, file.fp)
    <2>1. PICK e : e = ElementAt(file, file.fp)
      OBVIOUS
    <2>2. /\ file' = [file EXCEPT !.fp = e.end]
          /\ IF Wanted(e) THEN pc' = "caller" /\ l1' = e ELSE pc' = "read_next"
      BY <1>0, <1>1, <1>2, <1>5, <2>1, ReadsRegular
    <2>3. e \in Elements(file) /\ InFile(e.end)
      <3>1. SegmentEnd \in Nat
        BY <1>0, <1>1 DEF SegmentTypes
      <3>2. file.fp \in 1 .. get_size(file)
        BY <1>1, <1>2 DEF InFile
      <3> QED
        BY <1>1, <1>5, <2>1, <3>1, <3>2, RegularIs DEF InFile
    <2>4. file'.fp = e.end /\ InFile(file.fp)' /\ e # NoElement
      BY <1>1, <1>3, <2>2, <2>3, ElementsAre DEF File, InFile
    <2>5. Coming[file.fp] = IF Stops(e) THEN <<e>> ELSE Gets(e) \o Coming[e.end]
      BY <1>0, <1>2, <1>5, <2>1, ComingIs DEF Follows
    <2>6. PICK S, s, r : /\ S = Elements(file) /\ s = delivered /\ r = Coming[e.end]
                         /\ s \in Seq(S) /\ r \in Seq(S) /\ e \in S
      BY <1>0, <1>1, <2>3, ComingIs
    <2>7. /\ Append(s, e) \o r = s \o (<<e>> \o r)
          /\ Append(s, e) = s \o <<e>>
          /\ <<>> \o r = r
      <3>1. s \in Seq(S) /\ r \in Seq(S) /\ e \in S
        BY <2>6
      <3> QED
        BY <3>1, AppendAndRest
    <2>8. CASE Wanted(e)
      <3>1. pc' = "caller" /\ l1' = e
        BY <2>2, <2>8
      <3>2. Gets(e) = <<e>>
        BY <2>8 DEF Gets
      <3>3. CASE Stops(e)
        <4>1. Coming[1] = Append(delivered, e)
          BY <1>2, <2>5, <2>6, <2>7, <3>3
        <4> QED
          BY <1>1, <1>3, <2>4, <3>1, <3>3, <4>1 DEF DocumentInv, Following, Stops
      <3>4. CASE ~Stops(e)
        <4>1. Coming[1] = Append(delivered, e) \o Coming[e.end]
          BY <1>2, <2>5, <2>6, <2>7, <3>2, <3>4
        <4> QED
          BY <1>1, <1>3, <2>4, <3>1, <3>4, <4>1 DEF DocumentInv, Following, Stops
      <3> QED
        BY <3>3, <3>4
    <2>9. CASE ~Wanted(e)
      <3>1. ~Stops(e) /\ Gets(e) = <<>>
        BY <2>9 DEF Wanted, Stops, Gets
      <3>2. Coming[1] = delivered \o Coming[e.end]
        BY <1>2, <2>5, <2>6, <2>7, <3>1
      <3> QED
        BY <1>1, <1>3, <2>2, <2>4, <2>9, <3>2 DEF DocumentInv, Following
    <2> QED
      BY <2>8, <2>9
  <1> QED
    BY <1>4, <1>5

(* And a turn of the loop of the caller.                                   *)
LEMMA FollowsHandling ==
  ASSUME ReaderInv, SegmentInv, Following, handle_segment, Asks = {"read_next"}
  PROVE  DocumentInv'
  <1>0. FileInSegment /\ SegmentTypes /\ ElementsOfFile /\ [Next]_vars
    BY DEF SegmentInv, Next
  <1>1. /\ pc = "caller" /\ l1 # NoElement
        /\ file \in File /\ file.fp \in Nat
        /\ delivered \in Seq(Elements(file))
    BY <1>0 DEF handle_segment, FileInSegment, File, ElementsOfFile, Following
  <1>2. l1 \in Elements(file)
    BY <1>0, <1>1 DEF ElementsOfFile
  <1>3. PICK got : got = Append(delivered, l1) /\ got \in Seq(Elements(file))
    <2>1. PICK S : S = Elements(file)
      OBVIOUS
    <2>2. delivered \in Seq(S) /\ l1 \in S
      BY <1>1, <1>2, <2>1
    <2>3. Append(delivered, l1) \in Seq(S)
      BY <2>2
    <2> QED
      BY <2>1, <2>3
  <1>4. delivered' = got
    BY <1>1, <1>3 DEF handle_segment
  <1>5. Coming' = Coming /\ file_size' = file_size
    BY <1>0, ComingStays
  <1>6. CASE Stops(l1)
    <2>1. Coming[1] = got
      BY <1>1, <1>3, <1>6 DEF Following
    <2>2. IsPrefix(got, got)
      BY <1>3 DEF IsPrefix
    <2> QED
      BY <1>4, <1>5, <2>1, <2>2 DEF DocumentInv
  <1>7. CASE ~Stops(l1)
    <2>1. file.fp = l1.end /\ InFile(file.fp) /\ Coming[1] = got \o Coming[file.fp]
      BY <1>1, <1>3, <1>7 DEF Following
    <2>2. file'.fp = file.fp
      <3>1. l1.end \in Nat
        BY <1>2, ElementsAre
      <3> QED
        BY <1>1, <1>7, <2>1, <3>1
        DEF handle_segment, setFilePointer2, setFilePointer, File, Stops
    <2>3. CASE pc' = "read_next"
      BY <1>4, <1>5, <2>1, <2>2, <2>3 DEF DocumentInv, Following, InFile
    <2>4. CASE pc' # "read_next"
      <3>1. l0.finite /\ file.fp >= l0.end
        <4>1. ~InParent(file'.fp)
          BY <1>1, <1>7, <2>4 DEF handle_segment, Stops
        <4>2. l0.finite /\ ~(file.fp < l0.end)
          BY <2>2, <4>1 DEF InParent
        <4>3. l0.end \in Nat
          BY <1>0 DEF SegmentTypes
        <4> QED
          BY <1>1, <4>2, <4>3
      <3>2. ~Regular(file, SegmentEnd, damaged, file.fp)
        <4> SUFFICES ASSUME Regular(file, SegmentEnd, damaged, file.fp) PROVE FALSE
          OBVIOUS
        <4>1. SegmentEnd = l0.end /\ l0.end \in Nat
          BY <1>0, <3>1 DEF SegmentEnd, SegmentTypes
        <4>2. SegmentEnd \in Nat /\ file.fp \in 1 .. get_size(file)
              /\ file.open
          BY <1>0, <1>1, <2>1 DEF SegmentTypes, InFile, file_size, FileInSegment
        <4>3. ElementAt(file, file.fp).end \in file.fp + 1 .. SegmentEnd
          BY <1>1, <4>2, RegularIs
        <4> QED
          BY <1>1, <3>1, <4>1, <4>3
      <3>3. IsPrefix(Coming[1], got)
        BY <1>0, <1>3, <2>1, <3>2, NothingComes
      <3> QED
        BY <1>4, <1>5, <3>3 DEF DocumentInv
    <2> QED
      BY <2>3, <2>4
  <1> QED
    BY <1>6, <1>7

(* Every step keeps it, when the caller asks read_next only.               *)
LEMMA DocumentKept ==
  ASSUME ReaderInv, SegmentInv, DocumentInv, [Next]_vars, Asks = {"read_next"}
  PROVE  DocumentInv'
  <1>1. CASE IsPrefix(Coming[1], delivered)
    BY <1>1, PrefixKept DEF DocumentInv
  <1>2. CASE Following
    <2>1. Coming' = Coming /\ file_size' = file_size
      BY ComingStays
    <2>2. CASE set_segment_end
      <3>1. pc = "start" /\ pc' = "read_next" /\ file' = file /\ delivered' = delivered
        BY <2>2 DEF set_segment_end
      <3> QED
        BY <1>2, <2>1, <3>1 DEF Following, DocumentInv, InFile
    <2>3. CASE read_next_level1_element
      BY <1>2, <2>3, FollowsReading
    <2>4. CASE handle_segment
      BY <1>2, <2>4, FollowsHandling
    <2>5. CASE resync_to_level1_element \/ ScanByte
      BY <1>2, <2>5 DEF Following, resync_to_level1_element, ScanByte
    <2>6. CASE UNCHANGED vars
      BY <1>2, <2>1, <2>6 DEF Following, DocumentInv, InFile, vars
    <2> QED
      BY <2>2, <2>3, <2>4, <2>5, <2>6 DEF Next
  <1> QED
    BY <1>1, <1>2 DEF DocumentInv

(* As far as the Segment is regular nothing of it is lost: a caller that   *)
(* asks read_next only gets every element it wants, before anything that   *)
(* comes of the rest.  (Who asks resync passes over what stands there.)    *)
THEOREM DocumentDelivered ==
  ASSUME Asks = {"read_next"}
  PROVE  Spec => []DeliversDocument
  <1>1. Init => DocumentInv
    <2> SUFFICES ASSUME Init PROVE DocumentInv
      OBVIOUS
    <2>1. FileInSegment /\ SegmentTypes
      BY SegmentInitially DEF SegmentInv
    <2>2. pc = "start" /\ delivered = <<>> /\ file.fp = 1
      BY DEF Init
    <2>3. InFile(1)
      BY <2>1 DEF FileInSegment, File, InFile, file_size, get_size
    <2>4. PICK S, r : S = Elements(file) /\ r = Coming[1] /\ r \in Seq(S)
      BY <2>1, <2>3, ComingIs
    <2>5. <<>> \o r = r
      BY <2>4
    <2> QED
      BY <2>2, <2>3, <2>4, <2>5 DEF DocumentInv, Following
  <1>2. (ReaderInv /\ SegmentInv) /\ DocumentInv => DeliversDocument
    <2> SUFFICES ASSUME ReaderInv, SegmentInv, DocumentInv, pc = "done"
                 PROVE  IsPrefix(Document(file, segment_end, damaged), delivered)
      BY DEF DeliversDocument
    <2>1. segment_end = SegmentEnd
      BY DEF SegmentInv, SegmentTypes
    <2>2. IsPrefix(Coming[1], delivered)
      BY DEF DocumentInv, Following
    <2> QED
      BY <2>1, <2>2, DocumentIs DEF Coming
  <1>3. (ReaderInv /\ SegmentInv) /\ DocumentInv /\ [Next]_vars => DocumentInv'
    BY DocumentKept
  <1> QED
    BY <1>1, <1>2, <1>3, SegmentInvariance, PTL DEF Spec
=============================================================================
