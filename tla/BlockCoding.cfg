SPECIFICATION CodingSpec
CONSTANTS
  Jobs <- Passing
  ClzOfZero = {32}
INVARIANTS CodingTypeOK ColourClose CodesFit TargetsAgree BlockReconstructed BlockDecodes
