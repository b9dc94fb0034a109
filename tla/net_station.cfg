CONSTANTS
  Names = {"home", "cafe"}
  Passwords = {"secret"}
  None = None
  Broken = Broken
  Commands = {"setup", "setupLong", "erase", "reset"}
  Overflows = TRUE
  Faults = TRUE
  Network <- HomeNetwork
  MessageKinds = {}
  MaxBufferSize = 2
  HeapBuffers = 2
  InitialFiles <- AnyFile
  PowerLosses = TRUE
SPECIFICATION Spec
INVARIANTS TypeOK OneInterface CredentialsFresh
