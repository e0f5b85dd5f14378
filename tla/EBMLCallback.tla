---------------------------- MODULE EBMLCallback ----------------------------
(***************************************************************************)
(* EBMLCallback (src/EBMLCallback.cpp): the file below the readers, as     *)
(* what each call answers and what it makes of the file.                   *)
(*                                                                         *)
(* A call that reads past the end leaves its buffer as it was: read_uint8  *)
(* and read_uint32_be then hand out bytes that nothing has written.  They  *)
(* are modelled as any bytes, so both answer with a SET of outcomes.       *)
(***************************************************************************)
EXTENDS Integers, Sequences

CONSTANTS
  ByteBits,   \* bits of a byte: 8 in the program
  IdBytes     \* bytes of a level 1 ID: 4 in the program

ASSUME ByteAssumption == ByteBits \in Nat \ {0, 1} /\ IdBytes \in Nat \ {0}

(* 2^n, by shifting as the code does.                                      *)
Power2[n \in Nat] == IF n = 0 THEN 1 ELSE 2 * Power2[n - 1]

Byte == 0 .. Power2[ByteBits] - 1

(* file is null when fopen has failed: nothing but get_size looks.         *)
File == [open : BOOLEAN, bytes : Seq(Byte), fp : Nat]

get_size(file) == IF file.open THEN Len(file.bytes) ELSE 0

(* fseek refuses a negative offset, with a message and nothing more; one   *)
(* past the end it accepts.                                                *)
setFilePointer(file, offset) ==
  IF offset \in Nat THEN [file EXCEPT !.fp = offset] ELSE file

(* setFilePointer throws nothing, so the answer is always TRUE.            *)
setFilePointer2(file, offset) ==
  [ok |-> TRUE, file |-> setFilePointer(file, offset)]

read_uint8(file) ==
  IF file.fp < Len(file.bytes)
  THEN {[value |-> file.bytes[file.fp + 1],
         file  |-> [file EXCEPT !.fp = file.fp + 1]]}
  ELSE {[value |-> byte, file |-> file] : byte \in Byte}

(* get_uint_be over `n` bytes.                                             *)
get_uint_be(bytes, n) ==
  LET value[i \in 0 .. n] ==
        IF i = 0 THEN 0 ELSE Power2[ByteBits] * value[i - 1] + bytes[i]
  IN  value[n]

read_uint32_be(file) ==
  LET rest  == IF file.fp < Len(file.bytes) THEN Len(file.bytes) - file.fp ELSE 0
      count == IF rest < IdBytes THEN rest ELSE IdBytes
  IN  {[value |-> get_uint_be([i \in 1 .. IdBytes |->
                    IF i <= count THEN file.bytes[file.fp + i] ELSE left[i]], IdBytes),
        file  |-> [file EXCEPT !.fp = file.fp + count]]
        : left \in [count + 1 .. IdBytes -> Byte]}
=============================================================================
