CONSTANTS
  Commands = {"ptt", "sw1", "multilingual", "invalid"}
  DemoChoices = {"LED"}
  LanguageChoices = {{"ZH"}}
  Volumes = {}
  Timeouts = {}
  ENGINE_CHANGED = ENGINE_CHANGED
  LANGUAGE_CHANGED = LANGUAGE_CHANGED
  None = None
  Broken = Broken
  Torn = Torn
  Faults = TRUE
  TornPages = TRUE
  Overflows = TRUE
  MaxBypass = 0
  SlowStart = TRUE
  WakeWords = {"EN"}
  DefaultTimeout = 1
  MaxSamples = 2
  TornSettings <- AllOnes
  InitialFiles <- DialogFiles
  PowerLosses = FALSE
SPECIFICATION Spec
INVARIANTS FreshSession UnsavedIsNoticed
