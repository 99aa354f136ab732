SPECIFICATION Spec
CONSTANT Images <- Narrow
INVARIANTS DecoderKeepsUp
