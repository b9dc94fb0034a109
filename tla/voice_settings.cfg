CONSTANTS
  Commands = {"mute", "changeto", "timeout", "followup", "invalid"}
  DemoChoices = {"IOT"}
  LanguageChoices = {}
  Volumes = {}
  Timeouts = {0}
  ENGINE_CHANGED = ENGINE_CHANGED
  LANGUAGE_CHANGED = LANGUAGE_CHANGED
  None = None
  Broken = Broken
  Torn = Torn
  Faults = FALSE
  TornPages = FALSE
  Overflows = FALSE
  MaxBypass = 0
  SlowStart = FALSE
  WakeWords = {"EN"}
  DefaultTimeout = 1
  MaxSamples = 1
  TornSettings = {}
  InitialFiles = {None, Broken}
  PowerLosses = TRUE
SPECIFICATION Spec
INVARIANTS TypeOK SettledIsSaved
