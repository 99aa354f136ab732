SPECIFICATION StripSpec
CONSTANTS
  Images <- Small
  Targets = {"vector", "scalar"}
  Short <- Cut
  Missing = {0, 1, 20, 37}
  MaxCalls = 2
  Positions = {0, 15, 500}
INVARIANTS STypeOK DecoderKeepsUp RestartsBetweenStrips RestartsOnInterval WithinBuffers
  StripHoldsItsRows RowsPadded FusedMirrorsTwoPass MCUsInPlace
