SPECIFICATION Spec
CONSTANTS
  Jobs <- SomeJobs
  Numbers <- Known
  OutOfRange = {"4294967296"}
  Cores = 4
  WarmupTime = 2
  BenchTime = 3
  LongestCall = 2
  Writable = {"out.jpg", "old.jpg", "in.ppm"}
  Unreadable = {"secret.ppm"}
  FullDisk = {FALSE}
INVARIANTS JTypeOK ArgumentsUnderstood PnmRead HeaderAnnounces OutputWhole
PROPERTIES Terminates
