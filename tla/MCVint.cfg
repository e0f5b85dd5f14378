CONSTANTS
  ByteBits = 3
  IdBytes = 2
  MaxIdLen = 2
  MaxBytes = 5
SPECIFICATION Spec
INVARIANTS
  TypeOK
  OneOutcome
  ReadsWhatIsCoded
  OnlyOverlongIsNegative
