SPECIFICATION Spec
CONSTANTS
  ByteBits = 2
  WordBytes = 3
  InitLen = 3
  MaxBytes = 3
  Codes <- MCCodes
  HeaderByte <- MCHeaderByte
  RSTs <- MCRSTs
  EOI <- MCEOI
INVARIANTS TypeOK BufferNotOverrun
PROPERTIES ImplementsSink
