\* What stands when power fails in the middle of a map program.
CONSTANTS
  N = 5
  v1 = v1
  v2 = v2
  Values = {v1, v2}
  Pages <- PagesLong
  BlankPages = 2
  Writer = w
  Readers = {}
  Blank = Blank
  Mixed = Mixed
  None = None
  Broken = Broken
  NoOp = NoOp
  NoTask = NoTask
  Faults = FALSE
  LostPrograms = FALSE
  TornMaps = TRUE
SPECIFICATION Spec
INVARIANTS
  FreeIsBlank
  BootLeavesRoom
PROPERTY NeverResurrected
