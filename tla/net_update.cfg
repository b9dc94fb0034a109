CONSTANTS
  Names = {"home"}
  Passwords = {}
  None = None
  Broken = Broken
  Commands = {"updateota", "updateotw"}
  Overflows = FALSE
  Faults = TRUE
  Network <- OpenNetwork
  MessageKinds = {"start", "other", "junk"}
  MaxBufferSize = 2
  HeapBuffers = 2
  InitialFiles <- OpenFile
  PowerLosses = FALSE
SPECIFICATION FairSpec
INVARIANTS UpdateIsConfirmed BuffersAccounted MethodNeedsUpdate
PROPERTIES ConnectionEnds Connects
