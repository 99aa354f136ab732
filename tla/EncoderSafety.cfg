SPECIFICATION Spec
CONSTANTS
  Worker = {w1, w2, w3}
  NoTask = NoTask
  NumBuffers = 3
  NumStrips = 5
  MaxInvokes = 2
  MaxThrows = 0
  ThrowAt = {}
SYMMETRY WorkerSymmetry
INVARIANTS TypeOK BufferExclusive StripExclusive StripsComplete BuffersRecycled
