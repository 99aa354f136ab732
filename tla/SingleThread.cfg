SPECIFICATION Spec
CONSTANTS
  NumStrips = 4
  MaxInvokes = 6
  MaxThrows = 2
  ThrowAt = {"header", "strip", "finalize"}
INVARIANTS TypeOK
PROPERTIES ImplementsPromise
