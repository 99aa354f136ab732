SPECIFICATION Spec
CONSTANTS
  Worker = {w1, w2}
  NoTask = NoTask
  NumBuffers = 2
  NumStrips = 2
  MaxInvokes = 1
  MaxThrows = 1
  ThrowAt = {"task"}
INVARIANTS BuffersRecycled
