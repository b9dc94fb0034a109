CONSTANTS
  Old = Old
  Silence = Silence
  AmpErrors = TRUE
  Late = FALSE
  Mutes = TRUE
  Stalls = TRUE
  Overlap = FALSE
SPECIFICATION FairSpec
INVARIANTS TypeOK SwitchedAsSet
PROPERTIES InSync BlocksInOrder LoopbackRecovers SilenceIsRepaired
