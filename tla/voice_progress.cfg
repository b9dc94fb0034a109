CONSTANTS
  Commands = {"sw2", "volume"}
  DemoChoices = {}
  LanguageChoices = {}
  Volumes = {10}
  Timeouts = {}
  ENGINE_CHANGED = ENGINE_CHANGED
  LANGUAGE_CHANGED = LANGUAGE_CHANGED
  None = None
  Broken = Broken
  Torn = Torn
  Faults = FALSE
  TornPages = FALSE
  Overflows = TRUE
  MaxBypass = 1
  SlowStart = TRUE
  WakeWords = {"EN"}
  DefaultTimeout = 1
  MaxSamples = 1
  TornSettings = {}
  InitialFiles = {None}
  PowerLosses = FALSE
SPECIFICATION FairSpec
INVARIANTS SettledIsSaved SelectedIsInstalled
PROPERTIES SessionEnds VolumeIsSaved ChangeIsInstalled
