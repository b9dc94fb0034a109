CONSTANTS
  Old = Old
  Silence = Silence
  AmpErrors = TRUE
  Late = TRUE
  Mutes = TRUE
  Stalls = FALSE
  Overlap = TRUE
SPECIFICATION Spec
INVARIANTS MutedIsDeaf
