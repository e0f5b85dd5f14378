-------------------------------- MODULE Vint --------------------------------
(***************************************************************************)
(* vint (src/vint.cpp): the variable-length integers of EBML.              *)
(*                                                                         *)
(* The first byte says how many follow: by its leading zero bits.  The     *)
(* bytes of the model have ByteBits bits instead of 8, and every width the *)
(* code derives from 8 is derived from ByteBits here: the longest integer  *)
(* that a first byte announces has ByteBits bytes, a first byte of zero    *)
(* one more, and an int64_t has ByteBits * ByteBits bits.                  *)
(***************************************************************************)
EXTENDS EBMLCallback

CONSTANTS
  MaxIdLen    \* longest ID: 4 in the program

ASSUME VintAssumption == MaxIdLen \in 1 .. ByteBits

Mode == {"rm_normal", "rm_ebml_id"}

Word == ByteBits * ByteBits

(* The value of an int64_t after arithmetic that may leave its range.      *)
Signed(n) ==
  LET low == n % Power2[Word]
  IN  IF low >= Power2[Word - 1] THEN low - Power2[Word] ELSE low

-----------------------------------------------------------------------------
(* Mutant: the first byte is not counted.                                  *)
vintBehindFirst(value, coded_size) ==
  [value |-> value, coded_size |-> coded_size - 1, is_set |-> TRUE]

vint(value, coded_size) ==
  [value |-> value, coded_size |-> coded_size, is_set |-> TRUE]

NoVint == [value |-> 0, coded_size |-> -1, is_set |-> FALSE]

is_valid(v) == v.is_set /\ 0 <= v.coded_size

is_unknown(v) ==
  \/ ~is_valid(v)
  \/ /\ v.coded_size \in 1 .. ByteBits
     /\ v.value = Power2[(ByteBits - 1) * v.coded_size] - 1

-----------------------------------------------------------------------------
(* read                                                                    *)

Bit(byte, i) == (byte \div Power2[i]) % 2 = 1

(* The search for the first bit that is set, from the top.                 *)
value_len(byte) ==
  CHOOSE n \in 1 .. ByteBits + 1 :
    /\ n = ByteBits + 1 \/ Bit(byte, ByteBits - n)
    /\ \A k \in 1 .. n - 1 : ~Bit(byte, ByteBits - k)

(* What is left of the first byte.                                         *)
FirstPart(byte, mode) ==
  IF mode = "rm_normal" /\ value_len(byte) <= ByteBits
  THEN byte - Power2[ByteBits - value_len(byte)]
  ELSE byte

(* Mutant: only a first byte of zero is refused.                           *)
RejectedOnlyZero(length, mode) == mode = "rm_ebml_id" /\ length > ByteBits

Rejected(length, mode) == mode = "rm_ebml_id" /\ length > MaxIdLen

(* Mutant: the end of the file is not looked for.                          *)
PastTheEndNever(f, pos, length) == FALSE

PastTheEnd(f, pos, length) == pos + length > get_size(f)

(* Mutant: the byte is added before the shift.                             *)
ShiftBehind(value, byte) == Signed(Power2[ByteBits] * (value + byte))

ShiftIn(value, byte) == Signed(Power2[ByteBits] * value) + byte

(* What the loop over the remaining bytes can give.                        *)
ReadOn(f, first, count) ==
  LET reads[i \in 0 .. count] ==
        IF i = 0 THEN {[value |-> first, file |-> f]}
        ELSE UNION {{[value |-> ShiftIn(done.value, next.value), file |-> next.file]
                       : next \in read_uint8(done.file)} : done \in reads[i - 1]}
  IN  reads[count]

(* What a read of f can give, with the first byte read.                    *)
ReadFrom(pos, first, mode) ==
  LET length == value_len(first.value) IN
  IF PastTheEnd(first.file, pos, length) \/ Rejected(length, mode)
  THEN {[vint |-> NoVint, file |-> first.file]}
  ELSE {[vint |-> vint(done.value, length), file |-> done.file]
          : done \in ReadOn(first.file, FirstPart(first.value, mode), length - 1)}

read(f, mode) ==
  IF f.fp >= get_size(f)
  THEN {[vint |-> NoVint, file |-> f]}
  ELSE UNION {ReadFrom(f.fp, first, mode) : first \in read_uint8(f)}

read_ebml_id(f) == read(f, "rm_ebml_id")
=============================================================================
