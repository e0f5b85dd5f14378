----------------------------- MODULE VintStream -----------------------------
(***************************************************************************)
(* A file of any bytes, read as vints one after the other, each in the     *)
(* mode its reader likes.                                                  *)
(***************************************************************************)
EXTENDS Vint

CONSTANT MaxBytes   \* bound: the bytes of the file

ASSUME StreamAssumption == MaxBytes \in Nat

VARIABLES
  file,   \* the file, its pointer where the next read begins
  got     \* the last read: where it began, in which mode, the vint it gave

vars == <<file, got>>

-----------------------------------------------------------------------------
Init ==
  /\ \E n \in 0 .. MaxBytes : \E bytes \in [1 .. n -> Byte] :
       file = [open |-> TRUE, bytes |-> bytes, fp |-> 0]
  /\ got = [from |-> 0, mode |-> "none", vint |-> NoVint]

ReadNext(mode) ==
  \E outcome \in read(file, mode) :
    /\ file' = outcome.file
    /\ got' = [from |-> file.fp, mode |-> mode, vint |-> outcome.vint]

Next == \E mode \in Mode : ReadNext(mode)

Spec == Init /\ [][Next]_vars

-----------------------------------------------------------------------------
(* Properties                                                              *)

(* The file keeps its type, its pointer stays inside; a vint that is set   *)
(* is longer by one than a byte has bits at most.                          *)
TypeOK ==
  /\ file \in File
  /\ file.fp <= Len(file.bytes)
  /\ got.from \in 0 .. Len(file.bytes)
  /\ got.mode \in Mode \cup {"none"}
  /\ got.vint = NoVint \/
     /\ got.vint.is_set
     /\ got.vint.coded_size \in 1 .. ByteBits + 1
     /\ got.vint.value \in -Power2[Word - 1] .. Power2[Word - 1] - 1

(* Whatever bytes the file holds and wherever a read begins, the bytes     *)
(* behind the end, which the buffer does not get, decide nothing.          *)
OneOutcome ==
  \A mode \in Mode : \E outcome \in read(file, mode) : read(file, mode) = {outcome}

(* EBML's own definition: the coded bytes as one number are the value with *)
(* a marker bit above all bits of the value.                               *)
Marker(length) == Power2[(ByteBits - 1) * length]

Coded(bytes, from, length) == get_uint_be([i \in 1 .. length |-> bytes[from + i]], length)

Codes(bytes, from, length) ==
  /\ from + length <= Len(bytes)
  /\ Coded(bytes, from, length) \in Marker(length) .. 2 * Marker(length) - 1

(* A read gives exactly the integer that EBML says is coded where it       *)
(* begins, and steps exactly over it; an ID keeps its marker, a size does  *)
(* not; and where no integer of a legal length is coded, none is given,    *)
(* but for the overlong ones a first byte of zero lets through.            *)
ReadsWhatIsCoded ==
  got.mode # "none" =>
    /\ \A length \in 1 .. ByteBits :
         Codes(file.bytes, got.from, length) /\ ~Rejected(length, got.mode) =>
           /\ got.vint.coded_size = length
           /\ got.vint.value = Coded(file.bytes, got.from, length)
                               - IF got.mode = "rm_normal" THEN Marker(length) ELSE 0
           /\ file.fp = got.from + length
    /\ is_valid(got.vint) /\ got.vint.coded_size <= ByteBits =>
         Codes(file.bytes, got.from, got.vint.coded_size)

(* No ID is negative or longer than an EbmlId can hold, and a size is      *)
(* negative only if it is overlong: eight bytes of value behind a zero.    *)
OnlyOverlongIsNegative ==
  /\ got.mode = "rm_ebml_id" /\ is_valid(got.vint) =>
       got.vint.coded_size <= MaxIdLen /\ got.vint.value > 0
  /\ got.vint.value < 0 => got.vint.coded_size = ByteBits + 1
=============================================================================
