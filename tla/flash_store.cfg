\* Save, Erase, compaction, reads and power losses: erased pages, FileStore, progress.
CONSTANTS
  N = 4
  v1 = v1
  v2 = v2
  Values = {v1, v2}
  Pages <- PagesLong
  BlankPages = 2
  Writer = w
  Readers = {r1}
  Blank = Blank
  Mixed = Mixed
  None = None
  Broken = Broken
  NoOp = NoOp
  NoTask = NoTask
  Faults = TRUE
  LostPrograms = FALSE
  TornMaps = FALSE
SPECIFICATION FairSpec
INVARIANTS TypeOK FreeIsBlank ProgramsBlank
PROPERTIES
  StoreSpec
  BootEnds
  LockFreed
