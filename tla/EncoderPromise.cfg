SPECIFICATION Spec
CONSTANTS
  Worker = {w1, w2}
  NoTask = NoTask
  NumBuffers = 2
  NumStrips = 10
  MaxInvokes = 2
  MaxThrows = 0
  ThrowAt = {}
INVARIANTS ReturnedDecodes
PROPERTIES ImplementsPromise
