SPECIFICATION Spec
CONSTANTS
  Worker = {w1, w2}
  NoTask = NoTask
  NumBuffers = 2
  NumStrips = 3
  MaxInvokes = 2
  MaxThrows = 2
  ThrowAt = {"task", "release", "submit", "concat"}
INVARIANTS BufferExclusive NoTaskOutlivesEncoder
PROPERTIES DestructorReturns
