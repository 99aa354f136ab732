SPECIFICATION CodingSpec
CONSTANTS
  Jobs <- Hundred
  ClzOfZero = {32}
INVARIANTS BlockReconstructed
