\* Driver failures the code sees and those it does not: types, map and room.
CONSTANTS
  N = 4
  v1 = v1
  v2 = v2
  Values = {v1, v2}
  Pages <- PagesLong
  BlankPages = 2
  Writer = w
  Readers = {}
  Blank = Blank
  Mixed = Mixed
  None = None
  Broken = Broken
  NoOp = NoOp
  NoTask = NoTask
  Faults = TRUE
  LostPrograms = TRUE
  TornMaps = FALSE
SPECIFICATION Spec
INVARIANTS MapShape SectorUsable
