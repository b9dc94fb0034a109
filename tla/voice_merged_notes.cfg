CONSTANTS
  Commands = {"mute", "volume"}
  DemoChoices = {}
  LanguageChoices = {}
  Volumes = {10}
  Timeouts = {}
  ENGINE_CHANGED = ENGINE_CHANGED
  LANGUAGE_CHANGED = LANGUAGE_CHANGED
  None = None
  Broken = Broken
  Torn = Torn
  Faults = FALSE
  TornPages = FALSE
  Overflows = FALSE
  MaxBypass = 0
  SlowStart = TRUE
  WakeWords = {}
  DefaultTimeout = 1
  MaxSamples = 2
  TornSettings = {}
  InitialFiles = {None}
  PowerLosses = FALSE
SPECIFICATION Spec
INVARIANTS MuteHolds
