--------------------------- MODULE VoiceDemoProofs ---------------------------
(***************************************************************************)
(* What holds of the voice demo for every choice of commands, languages,   *)
(* files, faults and power losses.                                         *)
(***************************************************************************)
EXTENDS VoiceDemo, TLAPS

\* The waiting time never exceeds the bound of the model, whatever was saved.
Bounded(settings) == settings.timeout <= MaxSamples

TimeoutInv ==
  /\ Bounded(cfg)
  /\ \A t \in Tasks : Bounded(image[t])
  /\ \A page \in {file, stray} : page \in Settings => Bounded(page)

TypeInv == TypeOK /\ TimeoutInv

-----------------------------------------------------------------------------
(* The settings structure *)

LEMMA ZeroTyped == ZeroSettings \in Settings /\ Bounded(ZeroSettings)
BY VoiceAssumption DEF ZeroSettings, Settings, Bounded

LEMMA DefaultTyped == DefaultSettings \in Settings /\ Bounded(DefaultSettings)
BY VoiceAssumption DEF DefaultSettings, Settings, Bounded, Languages, Demos, EnglishDemos

LEMMA EffectiveTyped ==
  ASSUME NEW s \in Settings
  PROVE  Effective(s) \in SUBSET Languages /\ Effective(s) # {}
BY DEF Effective, Settings, Languages

LEMMA SetStatus ==
  ASSUME NEW s \in Settings, NEW v \in {"NONE", "WRITE_SUCCESS", "WRITE_READY"}
  PROVE  [s EXCEPT !.status = v] \in Settings
BY DEF Settings

LEMMA SetAsrCfg ==
  ASSUME NEW s \in Settings, NEW v \in SUBSET BothChanged
  PROVE  [s EXCEPT !.asrCfg = v] \in Settings
BY DEF Settings

LEMMA SetMultilingual ==
  ASSUME NEW s \in Settings, NEW v \in SUBSET Languages
  PROVE  [s EXCEPT !.multilingual = v] \in Settings
BY DEF Settings

-----------------------------------------------------------------------------
(* Interrupts *)

\* All an interrupt can do, for the invariants below.
InterruptEffect ==
  /\ cfg' \in Settings /\ Bounded(cfg')
  /\ notif' \in [pending : BOOLEAN, bits : SUBSET (0..2)]
  /\ sw1' \in BOOLEAN
  /\ cfg' = cfg \/ (cfg'.status = "WRITE_READY" /\ notif'.pending)
  /\ notif.pending => notif'.pending
  /\ UNCHANGED <<fileVars, pc, loaded, bypass, appVars, voiceVars>>

LEMMA NotifiedTyped ==
  ASSUME SettingsTypeOK, NEW v \in SUBSET (0..2)
  PROVE  /\ Notified(v) \in [pending : BOOLEAN, bits : SUBSET (0..2)]
         /\ Notified(v).pending
BY DEF SettingsTypeOK, Notified

LEMMA NotesTyped ==
  /\ kWakeWordDetected \in SUBSET (0..2) /\ kCommandLED \in SUBSET (0..2)
  /\ kCommandDialog \in SUBSET (0..2) /\ kCommandGeneric \in SUBSET (0..2)
  /\ kMicUpdate \in SUBSET (0..2) /\ kVolumeUpdate \in SUBSET (0..2)
  /\ kTimeOut \in SUBSET (0..2) /\ kDefault \in SUBSET (0..2)
<1>1. 0 \in 0..2 /\ 1 \in 0..2 /\ 2 \in 0..2
  OBVIOUS
<1> QED
  BY <1>1 DEF kWakeWordDetected, kCommandLED, kCommandDialog, kCommandGeneric,
     kMicUpdate, kVolumeUpdate, kTimeOut, kDefault

LEMMA InterruptDoes == TypeInv /\ Interrupt => InterruptEffect
<1> SUFFICES ASSUME TypeInv, Interrupt PROVE InterruptEffect
  OBVIOUS
<1>t. cfg \in Settings /\ Bounded(cfg) /\ SettingsTypeOK
  BY DEF TypeInv, TypeOK, TimeoutInv, SettingsTypeOK
<1>n. \A v \in SUBSET (0..2) :
        /\ Notified(v) \in [pending : BOOLEAN, bits : SUBSET (0..2)]
        /\ Notified(v).pending
  BY <1>t, NotifiedTyped
<1>s. sw1 \in BOOLEAN /\ notif \in [pending : BOOLEAN, bits : SUBSET (0..2)]
  BY <1>t DEF SettingsTypeOK
<1>u. UNCHANGED <<fileVars, pc, loaded, bypass, appVars, voiceVars>>
  BY DEF Interrupt
<1>1. ASSUME NEW d \in DemoChoices, ChangeTo(d) PROVE InterruptEffect
  <2>1. d \in Demos
    BY SettingsAssumption
  <2>2. cfg' \in Settings /\ cfg'.status = "WRITE_READY" /\ cfg'.timeout = cfg.timeout
    <3>1. CASE d \in GenericDemos
      <4> DEFINE a == {ENGINE_CHANGED}
      <4>1. a \in SUBSET BothChanged
        BY DEF BothChanged
      <4>2. cfg' = [cfg EXCEPT !.demo = d, !.status = "WRITE_READY", !.asrCfg = a]
        BY <1>1, <3>1 DEF ChangeTo
      <4> HIDE DEF a
      <4> QED
        BY <4>1, <4>2, <1>t, <2>1 DEF Settings
    <3>2. CASE d \notin GenericDemos
      <4> DEFINE l == IF d = "NORMAL" THEN {"ZH"} ELSE {"EN"}
      <4>1. l \in SUBSET Languages
        BY DEF Languages
      <4>2. cfg' = [cfg EXCEPT !.demo = d, !.status = "WRITE_READY",
                               !.multilingual = l, !.asrCfg = BothChanged]
        BY <1>1, <3>2 DEF ChangeTo
      <4> HIDE DEF l
      <4> QED
        BY <4>1, <4>2, <1>t, <2>1 DEF Settings
    <3> QED
      BY <3>1, <3>2
  <2> QED
    BY <1>1, <1>t, <1>n, <1>s, <1>u, <2>2, NotesTyped DEF ChangeTo, InterruptEffect, Bounded
<1>2. ASSUME NEW l \in LanguageChoices, Multilingual(l) PROVE InterruptEffect
  <2>2. cfg' \in Settings /\ cfg'.status = "WRITE_READY" /\ cfg'.timeout = cfg.timeout
    BY <1>2, <1>t, SettingsAssumption DEF Multilingual, Settings, BothChanged, Languages
  <2> QED
    BY <1>2, <1>t, <1>n, <1>s, <1>u, <2>2, NotesTyped DEF Multilingual, InterruptEffect, Bounded
<1>3. ASSUME NEW v \in Volumes, Volume(v) PROVE InterruptEffect
  <2>2. cfg' \in Settings /\ cfg'.status = "WRITE_READY" /\ cfg'.timeout = cfg.timeout
    BY <1>3, <1>t, SettingsAssumption DEF Volume, Settings
  <2> QED
    BY <1>3, <1>t, <1>n, <1>s, <1>u, <2>2, NotesTyped DEF Volume, InterruptEffect, Bounded
<1>4. ASSUME NEW on \in BOOLEAN, FollowUp(on) PROVE InterruptEffect
  <2>2. cfg' \in Settings /\ cfg'.status = "WRITE_READY" /\ cfg'.timeout = cfg.timeout
    BY <1>4, <1>t DEF FollowUp, Settings
  <2> QED
    BY <1>4, <1>t, <1>n, <1>s, <1>u, <2>2, NotesTyped DEF FollowUp, InterruptEffect, Bounded
<1>5. ASSUME NEW on \in BOOLEAN, Mute(on) PROVE InterruptEffect
  <2>2. cfg' \in Settings /\ cfg'.status = "WRITE_READY" /\ cfg'.timeout = cfg.timeout
    BY <1>5, <1>t DEF Mute, Settings
  <2> QED
    BY <1>5, <1>t, <1>n, <1>s, <1>u, <2>2, NotesTyped DEF Mute, InterruptEffect, Bounded
<1>6. ASSUME NEW b \in Timeouts, Timeout(b) PROVE InterruptEffect
  <2>2. cfg' \in Settings /\ cfg'.status = "WRITE_READY" /\ cfg'.timeout <= MaxSamples
    BY <1>6, <1>t, SettingsAssumption, VoiceAssumption DEF Timeout, Settings
  <2> QED
    BY <1>6, <1>t, <1>n, <1>s, <1>u, <2>2, NotesTyped DEF Timeout, InterruptEffect, Bounded
<1>7. CASE PttOn
  <2>2. cfg' \in Settings /\ cfg'.status = "WRITE_READY" /\ cfg'.timeout = cfg.timeout
    BY <1>7, <1>t DEF PttOn, Settings, BothChanged, Languages
  <2> QED
    BY <1>7, <1>t, <1>n, <1>s, <1>u, <2>2, NotesTyped DEF PttOn, InterruptEffect, Bounded
<1>8. CASE PttOff
  <2>2. cfg' \in Settings /\ cfg'.status = "WRITE_READY" /\ cfg'.timeout = cfg.timeout
    BY <1>8, <1>t DEF PttOff, Settings
  <2> QED
    BY <1>8, <1>t, <1>n, <1>s, <1>u, <2>2, NotesTyped DEF PttOff, InterruptEffect, Bounded
<1>9. CASE InvalidInput
  BY <1>9, <1>t, <1>n, <1>s, <1>u, NotesTyped DEF InvalidInput, InterruptEffect
<1>10. CASE SW2Press
  <2>2. cfg' \in Settings /\ cfg'.status = "WRITE_READY" /\ cfg'.timeout = cfg.timeout
    BY <1>10, <1>t DEF SW2Press, NextDemo, Settings, BothChanged, Languages,
       ASR_ALL_LANG, Demos, GenericDemos, EnglishDemos
  <2> QED
    BY <1>10, <1>t, <1>n, <1>s, <1>u, <2>2, NotesTyped DEF SW2Press, InterruptEffect, Bounded
<1>11. CASE SW1Change
  <2>1. sw1' \in BOOLEAN
    BY <1>11, Zenon DEF SW1Change
  <2>2. UNCHANGED <<cfg, notif>>
    BY <1>11 DEF SW1Change
  <2>3. /\ cfg' \in Settings /\ Bounded(cfg')
        /\ notif' \in [pending : BOOLEAN, bits : SUBSET (0..2)]
        /\ cfg' = cfg
        /\ notif.pending => notif'.pending
    BY <2>2, <1>t, <1>s DEF Bounded
  <2> QED
    BY <2>1, <2>3, <1>u, Zenon DEF InterruptEffect
<1> QED
  BY <1>1, <1>2, <1>3, <1>4, <1>5, <1>6, <1>7, <1>8, <1>9, <1>10, <1>11
     DEF Interrupt, ShellCommand, Buttons

-----------------------------------------------------------------------------
(* Types *)

LEMMA InitTypes == Init => TypeInv
<1> SUFFICES ASSUME Init PROVE TypeInv
  OBVIOUS
<1>1. SettingsTypeOK
  BY ZeroTyped DEF Init, SettingsInit, SettingsTypeOK, NoNotification
<1>2. FileTypeOK /\ pc \in [Tasks -> AppLabels \cup VoiceLabels]
  BY ZeroTyped, DemoAssumption, FileAssumption
     DEF Init, FileInit, FileTypeOK, Tasks, AppLabels, VoiceLabels
<1>3. AppTypeOK
  BY DEF Init, FileInit, AppInit, AppTypeOK, AppLabels
<1>4. VoiceTypeOK
  BY VoiceAssumption
     DEF Init, FileInit, VoiceInit, VoiceTypeOK, VoiceLabels, Engines, Languages
<1>5. TimeoutInv
  BY ZeroTyped, DemoAssumption, FileAssumption DEF Init, SettingsInit, FileInit, TimeoutInv, Bounded
<1> QED
  BY <1>1, <1>2, <1>3, <1>4, <1>5 DEF TypeInv, TypeOK

LEMMA PowerLossTypes == TypeInv /\ PowerLoss => TypeInv'
<1> SUFFICES ASSUME TypeInv, PowerLoss PROVE TypeInv'
  OBVIOUS
<1>1. SettingsTypeOK'
  BY ZeroTyped DEF PowerLoss, SettingsTypeOK, NoNotification
<1>2. FileTypeOK' /\ pc' \in [Tasks -> AppLabels \cup VoiceLabels]
  BY ZeroTyped, FileAssumption
     DEF TypeInv, TypeOK, PowerLoss, LeftByPowerLoss, CutShort, FileTypeOK, Tasks, AppLabels, VoiceLabels
<1>3. AppTypeOK'
  BY DEF PowerLoss, AppTypeOK, AppLabels
<1>4. VoiceTypeOK'
  BY VoiceAssumption DEF PowerLoss, VoiceTypeOK, VoiceLabels, Engines, Languages
<1>5. TimeoutInv'
  <2>1. file' \in Settings => file' = file
    BY FileAssumption DEF PowerLoss, LeftByPowerLoss, CutShort
  <2> QED
    BY <2>1, ZeroTyped DEF TypeInv, PowerLoss, TimeoutInv
<1> QED
  BY <1>1, <1>2, <1>3, <1>4, <1>5 DEF TypeInv, TypeOK

LEMMA InterruptTypes == TypeInv /\ Interrupt => TypeInv'
<1> SUFFICES ASSUME TypeInv, Interrupt PROVE TypeInv'
  OBVIOUS
<1>1. InterruptEffect
  BY InterruptDoes
<1>2. SettingsTypeOK'
  BY <1>1, Zenon DEF InterruptEffect, SettingsTypeOK
<1>3. UNCHANGED <<file, stray, image, micsOn, pc, loaded, bypass, note, ampVolume>>
  BY <1>1 DEF InterruptEffect, fileVars, appVars
<1>4. UNCHANGED <<session, ww, cmd, samples>>
  BY <1>1 DEF InterruptEffect, voiceVars
<1>5. TimeoutInv'
  BY <1>1, <1>3 DEF InterruptEffect, TypeInv, TimeoutInv
<1>6. /\ FileTypeOK' /\ AppTypeOK' /\ VoiceTypeOK'
      /\ pc' \in [Tasks -> AppLabels \cup VoiceLabels]
  BY <1>3, <1>4, Zenon DEF TypeInv, TypeOK, FileTypeOK, AppTypeOK, VoiceTypeOK
<1> QED
  BY <1>2, <1>5, <1>6 DEF TypeInv, TypeOK

\* A step to another label of the same task.
LEMMA GotoTyped ==
  ASSUME pc \in [Tasks -> AppLabels \cup VoiceLabels],
         pc["app"] \in AppLabels, pc["voice"] \in VoiceLabels,
         NEW t \in Tasks, NEW l, Goto(t, l),
         IF t = "app" THEN l \in AppLabels ELSE l \in VoiceLabels
  PROVE  /\ pc' \in [Tasks -> AppLabels \cup VoiceLabels]
         /\ pc'["app"] \in AppLabels /\ pc'["voice"] \in VoiceLabels
         /\ pc'[t] = l
         /\ \A u \in Tasks \ {t} : pc'[u] = pc[u]
BY DEF Goto, Tasks

\* What a step of a Save can do.
SaveEffect(t) ==
  /\ pc[t] \in SaveSteps
  /\ UNCHANGED settingsVars
  /\ file' \in Settings \cup {None, Broken, Torn}
  /\ stray' \in Settings \cup {None}
  /\ \A page \in {file', stray'} : page \in Settings => page \in {file, stray, image[t]}
  /\ image' \in [Tasks -> Settings]
  /\ \A u \in Tasks : image'[u] \in {image[u], cfg, ZeroSettings}
  /\ micsOn' \in BOOLEAN
  /\ \E l \in SaveSteps \cup {AfterSave(t)} : Goto(t, l)

LEMMA SaveDoes ==
  ASSUME TypeInv, NEW t \in Tasks, SaveStep(t)
  PROVE  SaveEffect(t)
<1>t. /\ cfg \in Settings /\ image \in [Tasks -> Settings] /\ micsOn \in BOOLEAN
      /\ file \in Settings \cup {None, Broken, Torn} /\ stray \in Settings \cup {None}
  BY DEF TypeInv, TypeOK, SettingsTypeOK, FileTypeOK
<1>z. ZeroSettings \in Settings
  BY ZeroTyped
<1> USE DEF SaveEffect, SaveSteps, fileVars, settingsVars
<1>1. CASE SaveRetire(t)
  BY <1>1, <1>t, FileAssumption DEF SaveRetire
<1>2. CASE SaveOverflow(t)
  BY <1>2, <1>t DEF SaveOverflow
<1>3. CASE SaveCopy(t)
  BY <1>3, <1>t DEF SaveCopy
<1>4. CASE SaveProgram(t)
  BY <1>4, <1>t, <1>z, FileAssumption DEF SaveProgram, Programmed, FreeImage
<1>5. CASE SaveFail(t)
  BY <1>5, <1>t, <1>z, FileAssumption DEF SaveFail, CutShort, FreeImage
<1>6. CASE SaveErase(t)
  BY <1>6, <1>t, FileAssumption DEF SaveErase
<1> QED
  BY <1>1, <1>2, <1>3, <1>4, <1>5, <1>6, SaveStep(t) DEF SaveStep

LEMMA SaveTypes ==
  ASSUME TypeInv, NEW t \in Tasks, SaveStep(t), UNCHANGED <<loaded, bypass>>
  PROVE  /\ SettingsTypeOK' /\ FileTypeOK' /\ TimeoutInv'
         /\ pc' \in [Tasks -> AppLabels \cup VoiceLabels]
         /\ pc'["app"] \in AppLabels /\ pc'["voice"] \in VoiceLabels
<1>1. SaveEffect(t)
  BY SaveDoes
<1>2. UNCHANGED <<cfg, notif, sw1>>
  BY <1>1 DEF SaveEffect, settingsVars
<1>3. SettingsTypeOK'
  BY <1>2, Zenon DEF TypeInv, TypeOK, SettingsTypeOK
<1>4. FileTypeOK'
  <2>1. micsOn' \in BOOLEAN
    BY <1>1, Zenon DEF SaveEffect
  <2>2. /\ file' \in Settings \cup {None, Broken, Torn}
        /\ stray' \in Settings \cup {None}
        /\ image' \in [Tasks -> Settings]
    BY <1>1 DEF SaveEffect
  <2> QED
    BY <2>1, <2>2, Zenon DEF TypeInv, TypeOK, FileTypeOK
<1>5. TimeoutInv'
  BY <1>1, <1>2, ZeroTyped DEF SaveEffect, TypeInv, TimeoutInv
<1>6. PICK l \in SaveSteps \cup {AfterSave(t)} : Goto(t, l)
  BY <1>1 DEF SaveEffect
<1>7. IF t = "app" THEN l \in AppLabels ELSE l \in VoiceLabels
  BY <1>6 DEF AfterSave, AppLabels, VoiceLabels
<1> QED
  BY <1>3, <1>4, <1>5, <1>6, <1>7, GotoTyped DEF TypeInv, TypeOK, AppTypeOK, VoiceTypeOK

LEMMA AppTypes == TypeInv /\ AppNext => TypeInv'
<1> SUFFICES ASSUME TypeInv, AppNext PROVE TypeInv'
  OBVIOUS
<1>t. /\ SettingsTypeOK /\ FileTypeOK /\ AppTypeOK /\ VoiceTypeOK /\ TimeoutInv
      /\ pc \in [Tasks -> AppLabels \cup VoiceLabels]
      /\ cfg \in Settings /\ "app" \in Tasks
  BY DEF TypeInv, TypeOK, SettingsTypeOK, Tasks
<1>l. pc["app"] \in AppLabels /\ pc["voice"] \in VoiceLabels
  BY <1>t DEF AppTypeOK, VoiceTypeOK
<1>v. UNCHANGED <<session, ww, cmd, samples>>
  BY DEF AppNext, voiceVars
<1>g. ASSUME NEW l \in AppLabels, Goto("app", l)
      PROVE  /\ pc' \in [Tasks -> AppLabels \cup VoiceLabels]
             /\ pc'["app"] \in AppLabels /\ VoiceTypeOK'
  <2>1. /\ pc' \in [Tasks -> AppLabels \cup VoiceLabels]
        /\ pc'["app"] \in AppLabels /\ pc'["voice"] \in VoiceLabels
    BY <1>g, <1>t, <1>l, GotoTyped
  <2> QED
    BY <2>1, <1>t, <1>v DEF VoiceTypeOK
<1> USE DEF AppLabels
<1>1. CASE AppBoot
  <2>1. UNCHANGED <<cfg, notif, sw1, file, stray, image, note, loaded, bypass>> /\ ampVolume' = cfg.volume
    BY <1>1 DEF AppBoot, settingsVars
  <2>2. cfg.volume \in 0..100
    BY <1>t DEF Settings
  <2>3. micsOn' \in BOOLEAN
    BY <1>1, Zenon DEF AppBoot
  <2>4. SettingsTypeOK' /\ TimeoutInv'
    BY <2>1, <1>t, Zenon DEF SettingsTypeOK, TimeoutInv
  <2>5. FileTypeOK'
    BY <2>1, <2>3, <1>t, Zenon DEF FileTypeOK
  <2>6. Goto("app", "wait")
    BY <1>1 DEF AppBoot
  <2> QED
    BY <2>1, <2>2, <2>4, <2>5, <2>6, <1>g, <1>t DEF AppTypeOK, TypeInv, TypeOK
<1>2. CASE AppWake
  <2>1. /\ UNCHANGED <<cfg, sw1, file, stray, image, micsOn, ampVolume, loaded, bypass>>
        /\ note' = notif.bits /\ notif' = NoNotification
    BY <1>2 DEF AppWake, fileVars
  <2>2. notif' \in [pending : BOOLEAN, bits : SUBSET (0..2)] /\ note' \in SUBSET (0..2)
    BY <2>1, <1>t DEF NoNotification, SettingsTypeOK
  <2>3. SettingsTypeOK' /\ TimeoutInv' /\ FileTypeOK'
    BY <2>1, <2>2, <1>t, Zenon DEF SettingsTypeOK, TimeoutInv, FileTypeOK
  <2>4. Goto("app", "act")
    BY <1>2 DEF AppWake
  <2> QED
    BY <2>1, <2>2, <2>3, <2>4, <1>g, <1>t DEF AppTypeOK, TypeInv, TypeOK
<1>3. CASE AppMicUpdate
  <2>1. UNCHANGED <<cfg, notif, sw1, file, stray, image, note, ampVolume, loaded, bypass>>
    BY <1>3 DEF AppMicUpdate, settingsVars, appVars
  <2>2. micsOn' \in BOOLEAN
    BY <1>3, Zenon DEF AppMicUpdate
  <2>3. SettingsTypeOK' /\ TimeoutInv' /\ FileTypeOK'
    BY <2>1, <2>2, <1>t, Zenon DEF SettingsTypeOK, TimeoutInv, FileTypeOK
  <2>4. Goto("app", "engine")
    BY <1>3 DEF AppMicUpdate
  <2> QED
    BY <2>1, <2>3, <2>4, <1>g, <1>t DEF AppTypeOK, TypeInv, TypeOK
<1>4. CASE AppVolumeUpdate
  <2>1. UNCHANGED <<cfg, notif, sw1, file, stray, image, micsOn, note, loaded, bypass>>
    BY <1>4 DEF AppVolumeUpdate, settingsVars, fileVars
  <2>2. ampVolume' \in 0..100
    BY <1>4, <1>t DEF AppVolumeUpdate, Settings
  <2>3. SettingsTypeOK' /\ TimeoutInv' /\ FileTypeOK'
    BY <2>1, <1>t, Zenon DEF SettingsTypeOK, TimeoutInv, FileTypeOK
  <2>4. Goto("app", "engine")
    BY <1>4 DEF AppVolumeUpdate
  <2> QED
    BY <2>1, <2>2, <2>3, <2>4, <1>g, <1>t DEF AppTypeOK, TypeInv, TypeOK
<1>5. CASE AppClip
  <2>1. UNCHANGED <<cfg, notif, sw1, file, stray, image, micsOn, note, ampVolume, loaded>>
    BY <1>5 DEF AppClip, settingsVars, fileVars, appVars
  <2>2. bypass' \in 0..MaxBypass
    BY <1>5, <1>t, FileAssumption DEF AppClip, FileTypeOK
  <2>3. SettingsTypeOK' /\ TimeoutInv' /\ FileTypeOK'
    BY <2>1, <2>2, <1>t, Zenon DEF SettingsTypeOK, TimeoutInv, FileTypeOK
  <2>4. Goto("app", "engine")
    BY <1>5 DEF AppClip
  <2> QED
    BY <2>1, <2>3, <2>4, <1>g, <1>t DEF AppTypeOK, TypeInv, TypeOK
<1>6. CASE AppOther
  <2>1. UNCHANGED <<cfg, notif, sw1, file, stray, image, micsOn, note, ampVolume, loaded, bypass>>
    BY <1>6 DEF AppOther, settingsVars, fileVars, appVars
  <2>3. SettingsTypeOK' /\ TimeoutInv' /\ FileTypeOK'
    BY <2>1, <1>t, Zenon DEF SettingsTypeOK, TimeoutInv, FileTypeOK
  <2>4. Goto("app", "engine")
    BY <1>6 DEF AppOther
  <2> QED
    BY <2>1, <2>3, <2>4, <1>g, <1>t DEF AppTypeOK, TypeInv, TypeOK
<1>7. CASE AppEngine
  <2>1. UNCHANGED <<cfg, notif, sw1, file, stray, image, micsOn, ampVolume, loaded, bypass>> /\ note' = {}
    BY <1>7 DEF AppEngine, settingsVars, fileVars
  <2>3. SettingsTypeOK' /\ TimeoutInv' /\ FileTypeOK'
    BY <2>1, <1>t, Zenon DEF SettingsTypeOK, TimeoutInv, FileTypeOK
  <2>4. Goto("app", "load") \/ Goto("app", "status")
    BY <1>7 DEF AppEngine
  <2> QED
    BY <2>1, <2>3, <2>4, <1>g, <1>t DEF AppTypeOK, TypeInv, TypeOK
<1>8. CASE AppLoad
  <2>1. /\ UNCHANGED <<cfg, notif, sw1, file, stray, image, micsOn, note, ampVolume, bypass>>
        /\ loaded' = [loaded EXCEPT !["app"] = cfg.asrCfg]
    BY <1>8 DEF AppLoad, settingsVars, fileVars, appVars
  <2>2. loaded' \in [Tasks -> SUBSET BothChanged]
    BY <2>1, <1>t DEF FileTypeOK, Settings
  <2>3. SettingsTypeOK' /\ TimeoutInv' /\ FileTypeOK'
    BY <2>1, <2>2, <1>t, Zenon DEF SettingsTypeOK, TimeoutInv, FileTypeOK
  <2>4. Goto("app", "store")
    BY <1>8 DEF AppLoad
  <2> QED
    BY <2>1, <2>3, <2>4, <1>g, <1>t DEF AppTypeOK, TypeInv, TypeOK
<1>9. CASE AppStore
  <2>1. /\ UNCHANGED <<notif, sw1, file, stray, image, micsOn, note, ampVolume, bypass>>
        /\ loaded' = [loaded EXCEPT !["app"] = {}]
        /\ cfg' = [cfg EXCEPT !.asrCfg = loaded["app"] \ {ENGINE_CHANGED}]
    BY <1>9 DEF AppStore, fileVars, appVars
  <2>2. loaded' \in [Tasks -> SUBSET BothChanged] /\ loaded["app"] \in SUBSET BothChanged
    BY <2>1, <1>t DEF FileTypeOK
  <2>5. cfg' \in Settings
    BY <2>1, <2>2, <1>t, SetAsrCfg
  <2>6. Bounded(cfg')
    BY <2>1, <1>t DEF Settings, TimeoutInv, Bounded
  <2>3. SettingsTypeOK' /\ TimeoutInv' /\ FileTypeOK'
    BY <2>1, <2>2, <2>5, <2>6, <1>t, Zenon DEF SettingsTypeOK, TimeoutInv, FileTypeOK
  <2>4. Goto("app", "status")
    BY <1>9 DEF AppStore
  <2> QED
    BY <2>1, <2>3, <2>4, <1>g, <1>t DEF AppTypeOK, TypeInv, TypeOK
<1>10. CASE AppStatus
  <2>1. /\ UNCHANGED <<notif, sw1, file, stray, image, micsOn, note, ampVolume, loaded, bypass>>
        /\ cfg' = [cfg EXCEPT !.status = "WRITE_SUCCESS"]
    BY <1>10 DEF AppStatus, fileVars, appVars
  <2>2. cfg' \in Settings
    BY <2>1, <1>t, SetStatus
  <2>5. Bounded(cfg')
    BY <2>1, <1>t DEF Settings, TimeoutInv, Bounded
  <2>3. SettingsTypeOK' /\ TimeoutInv' /\ FileTypeOK'
    BY <2>1, <2>2, <2>5, <1>t, Zenon DEF SettingsTypeOK, TimeoutInv, FileTypeOK
  <2>4. Goto("app", "save") /\ "save" \in SaveSteps
    BY <1>10 DEF AppStatus, SaveSteps
  <2> QED
    BY <2>1, <2>3, <2>4, <1>g, <1>t DEF AppTypeOK, TypeInv, TypeOK
<1>11. CASE AppNothingToSave
  <2>1. UNCHANGED <<cfg, notif, sw1, file, stray, image, micsOn, note, ampVolume, loaded, bypass>>
    BY <1>11 DEF AppNothingToSave, settingsVars, fileVars, appVars
  <2>3. SettingsTypeOK' /\ TimeoutInv' /\ FileTypeOK'
    BY <2>1, <1>t, Zenon DEF SettingsTypeOK, TimeoutInv, FileTypeOK
  <2>4. Goto("app", "wait")
    BY <1>11 DEF AppNothingToSave
  <2> QED
    BY <2>1, <2>3, <2>4, <1>g, <1>t DEF AppTypeOK, TypeInv, TypeOK
<1>12. CASE SaveStep("app") /\ UNCHANGED <<appVars, loaded, bypass>>
  <2>1. UNCHANGED <<loaded, bypass>> /\ UNCHANGED <<note, ampVolume>>
    BY <1>12 DEF appVars
  <2>2. /\ SettingsTypeOK' /\ FileTypeOK' /\ TimeoutInv'
        /\ pc' \in [Tasks -> AppLabels \cup VoiceLabels]
        /\ pc'["app"] \in AppLabels /\ pc'["voice"] \in VoiceLabels
    BY <1>12, <2>1, <1>t, SaveTypes
  <2> QED
    BY <2>1, <2>2, <1>t, <1>v DEF AppTypeOK, VoiceTypeOK, TypeInv, TypeOK
<1> QED
  BY <1>1, <1>2, <1>3, <1>4, <1>5, <1>6, <1>7, <1>8, <1>9, <1>10, <1>11, <1>12,
     AppNext DEF AppNext, AppStep

LEMMA RepliesTyped ==
  ASSUME NEW demo, NEW reply \in Replies(demo)
  PROVE  /\ reply.to \in DialogSteps \cup {"same"}
         /\ reply.event \in {"STARTED", "ENDED", "NONE"}
         /\ reply.value \in (SUBSET (0..2)) \cup {NoNote}
BY NotesTyped DEF Replies, Reply, Ask, Finished, DialogSteps

LEMMA VoiceTypes == TypeInv /\ VoiceNext => TypeInv'
<1> SUFFICES ASSUME TypeInv, VoiceNext PROVE TypeInv'
  OBVIOUS
<1>t. /\ SettingsTypeOK /\ FileTypeOK /\ AppTypeOK /\ VoiceTypeOK /\ TimeoutInv
      /\ pc \in [Tasks -> AppLabels \cup VoiceLabels]
      /\ cfg \in Settings /\ "voice" \in Tasks
      /\ session \in {"STARTED", "ENDED"} /\ ww \in SUBSET Languages
      /\ cmd \in Engines /\ samples \in 0..MaxSamples
  BY DEF TypeInv, TypeOK, SettingsTypeOK, VoiceTypeOK, Tasks
<1>l. pc["app"] \in AppLabels /\ pc["voice"] \in VoiceLabels
  BY <1>t DEF AppTypeOK, VoiceTypeOK
<1>a. UNCHANGED <<note, ampVolume>>
  BY DEF VoiceNext, appVars
<1>g. ASSUME NEW l \in VoiceLabels, Goto("voice", l)
      PROVE  /\ pc' \in [Tasks -> AppLabels \cup VoiceLabels]
             /\ pc'["voice"] \in VoiceLabels /\ AppTypeOK'
  <2>1. /\ pc' \in [Tasks -> AppLabels \cup VoiceLabels]
        /\ pc'["app"] \in AppLabels /\ pc'["voice"] \in VoiceLabels
    BY <1>g, <1>t, <1>l, GotoTyped
  <2> QED
    BY <2>1, <1>t, <1>a DEF AppTypeOK
<1>n. \A v \in SUBSET (0..2) :
        Notified(v) \in [pending : BOOLEAN, bits : SUBSET (0..2)]
  BY <1>t, NotifiedTyped
<1>e. /\ Effective(cfg) \in SUBSET Languages
      /\ [cfg EXCEPT !.multilingual = Effective(cfg)] \in Settings
      /\ [cfg EXCEPT !.multilingual = Effective(cfg)].timeout = cfg.timeout
  BY <1>t, EffectiveTyped, SetMultilingual DEF Settings
<1>c. ASSUME NEW l \in Languages, NEW d \in Demos \cup DialogSteps \cup {"NONE"},
             NEW w \in {"own", "led", "NULL"}, SetCmdEngine(l, d, w)
      PROVE  cmd' \in Engines
  BY <1>c, <1>t DEF SetCmdEngine, Engines
<1>d. cfg.demo \in Demos \cup DialogSteps \cup {"NONE"}
  BY <1>t DEF Settings
<1>i. InitializeAsr => /\ cfg' \in Settings /\ Bounded(cfg')
                       /\ ww' \in SUBSET Languages /\ cmd' \in Engines
  BY <1>e, <1>d, <1>t DEF InitializeAsr, Engines, Languages, TimeoutInv, Bounded
<1>o. SettingsTypeOK' /\ FileTypeOK' /\ TimeoutInv' /\ AppTypeOK' /\ VoiceTypeOK'
      /\ pc' \in [Tasks -> AppLabels \cup VoiceLabels]
      => TypeInv'
  BY DEF TypeInv, TypeOK
<1> USE DEF VoiceLabels
<1>1. CASE VoiceRead
  <2>1. UNCHANGED <<notif, sw1, file, stray, image, micsOn, session, ww, cmd, samples, loaded, bypass>>
    BY <1>1 DEF VoiceRead, settingsVars, fileVars, voiceVars
  <2>2. cfg' \in Settings /\ Bounded(cfg')
    <3>1. /\ file \in Settings \cup {None, Broken, Torn}
          /\ file \in Settings => Bounded(file)
          /\ Bounded(cfg)
      BY <1>t DEF TimeoutInv, FileTypeOK
    <3>2. cfg' \in {cfg, ZeroSettings} \cup TornSettings \/ (file \in Settings /\ cfg' = file)
      BY <1>1, <3>1, FileAssumption DEF VoiceRead, ReadInto
    <3> QED
      BY <3>1, <3>2, <1>t, ZeroTyped, VoiceAssumption DEF Bounded
  <2>8. Goto("voice", "init") \/ Goto("voice", "defaults")
    BY <1>1 DEF VoiceRead
  <2>9. SettingsTypeOK' /\ TimeoutInv' /\ FileTypeOK' /\ VoiceTypeOK'
    <3>1. pc'["voice"] \in VoiceLabels
      BY <2>8, <1>g DEF SaveSteps
    <3> QED
      BY <2>1, <2>2, <3>1, <1>t, Zenon DEF SettingsTypeOK, TimeoutInv, FileTypeOK, VoiceTypeOK
  <2> QED
    BY <2>8, <2>9, <1>g, <1>o DEF SaveSteps
<1>2. CASE VoiceDefaults
  <2>1. UNCHANGED <<notif, sw1, file, stray, image, micsOn, session, ww, cmd, samples, loaded, bypass>>
    BY <1>2 DEF VoiceDefaults, settingsVars, fileVars, voiceVars
  <2>2. cfg' \in Settings /\ Bounded(cfg')
    BY <1>2, DefaultTyped DEF VoiceDefaults
  <2>8. Goto("voice", "save")
    BY <1>2 DEF VoiceDefaults, SaveSteps
  <2>9. SettingsTypeOK' /\ TimeoutInv' /\ FileTypeOK' /\ VoiceTypeOK'
    <3>1. pc'["voice"] \in VoiceLabels
      BY <2>8, <1>g DEF SaveSteps
    <3> QED
      BY <2>1, <2>2, <3>1, <1>t, Zenon DEF SettingsTypeOK, TimeoutInv, FileTypeOK, VoiceTypeOK
  <2> QED
    BY <2>8, <2>9, <1>g, <1>o DEF SaveSteps
<1>3. CASE VoiceInstall
  <2>1. UNCHANGED <<notif, sw1, file, stray, image, micsOn, session, samples, loaded, bypass>>
    BY <1>3 DEF VoiceInstall, settingsVars, fileVars, voiceVars
  <2>2. cfg' \in Settings /\ Bounded(cfg') /\ ww' \in SUBSET Languages /\ cmd' \in Engines
    BY <1>3, <1>i DEF VoiceInstall
  <2>8. Goto("voice", "clear")
    BY <1>3 DEF VoiceInstall, SaveSteps
  <2>9. SettingsTypeOK' /\ TimeoutInv' /\ FileTypeOK' /\ VoiceTypeOK'
    <3>1. pc'["voice"] \in VoiceLabels
      BY <2>8, <1>g DEF SaveSteps
    <3> QED
      BY <2>1, <2>2, <3>1, <1>t, Zenon DEF SettingsTypeOK, TimeoutInv, FileTypeOK, VoiceTypeOK
  <2> QED
    BY <2>8, <2>9, <1>g, <1>o DEF SaveSteps
<1>4. CASE VoiceClear
  <2>1. UNCHANGED <<notif, sw1, file, stray, image, micsOn, session, ww, cmd, samples, loaded, bypass>>
    BY <1>4 DEF VoiceClear, settingsVars, fileVars, voiceVars
  <2>2. cfg' \in Settings /\ Bounded(cfg')
    BY <1>4, <1>t, SetAsrCfg DEF VoiceClear, TimeoutInv, Bounded, Settings
  <2>8. Goto("voice", "block")
    BY <1>4 DEF VoiceClear, SaveSteps
  <2>9. SettingsTypeOK' /\ TimeoutInv' /\ FileTypeOK' /\ VoiceTypeOK'
    <3>1. pc'["voice"] \in VoiceLabels
      BY <2>8, <1>g DEF SaveSteps
    <3> QED
      BY <2>1, <2>2, <3>1, <1>t, Zenon DEF SettingsTypeOK, TimeoutInv, FileTypeOK, VoiceTypeOK
  <2> QED
    BY <2>8, <2>9, <1>g, <1>o DEF SaveSteps
<1>5. CASE VoiceBypassed
  <2>1. UNCHANGED <<cfg, notif, sw1, file, stray, image, micsOn, pc, session, ww, cmd, samples, loaded>>
    BY <1>5 DEF VoiceBypassed, settingsVars, fileVars, voiceVars
  <2>2. bypass' \in 0..MaxBypass
    BY <1>5, <1>t, FileAssumption DEF VoiceBypassed, FileTypeOK
  <2> QED
    BY <2>1, <2>2, <1>t, <1>a, <1>o, Zenon
       DEF SettingsTypeOK, TimeoutInv, FileTypeOK, VoiceTypeOK, AppTypeOK
<1>6. CASE VoiceBlock
  <2>1. UNCHANGED <<cfg, notif, sw1, file, stray, image, micsOn, session, ww, cmd, samples, loaded, bypass>>
    BY <1>6 DEF VoiceBlock, settingsVars, fileVars, voiceVars
  <2>8. Goto("voice", "listen")
    BY <1>6 DEF VoiceBlock, SaveSteps
  <2>9. SettingsTypeOK' /\ TimeoutInv' /\ FileTypeOK' /\ VoiceTypeOK'
    <3>1. pc'["voice"] \in VoiceLabels
      BY <2>8, <1>g DEF SaveSteps
    <3> QED
      BY <2>1, <3>1, <1>t, Zenon DEF SettingsTypeOK, TimeoutInv, FileTypeOK, VoiceTypeOK
  <2> QED
    BY <2>8, <2>9, <1>g, <1>o DEF SaveSteps
<1>7. CASE VoicePushToTalk
  <2>1. UNCHANGED <<cfg, file, stray, image, micsOn, ww, loaded, bypass>>
    BY <1>7 DEF VoicePushToTalk, settingsVars, fileVars, voiceVars
  <2>2. notif' \in [pending : BOOLEAN, bits : SUBSET (0..2)]
    BY <1>7, <1>n, NotesTyped DEF VoicePushToTalk
  <2>3. sw1' \in BOOLEAN /\ session' \in {"STARTED", "ENDED"}
    BY <1>7, Zenon DEF VoicePushToTalk
  <2>4. samples' \in 0..MaxSamples
    BY <1>7, VoiceAssumption DEF VoicePushToTalk
  <2>5. cmd' \in Engines
    BY <1>7, <1>c, <1>d DEF VoicePushToTalk, Table, Languages
  <2>8. Goto("voice", "listen")
    BY <1>7 DEF VoicePushToTalk, SaveSteps
  <2>9. SettingsTypeOK' /\ TimeoutInv' /\ FileTypeOK' /\ VoiceTypeOK'
    <3>1. pc'["voice"] \in VoiceLabels
      BY <2>8, <1>g DEF SaveSteps
    <3> QED
      BY <2>1, <2>2, <2>3, <2>4, <2>5, <3>1, <1>t, Zenon DEF SettingsTypeOK, TimeoutInv, FileTypeOK, VoiceTypeOK
  <2> QED
    BY <2>8, <2>9, <1>g, <1>o DEF SaveSteps
<1>8. ASSUME NEW lang \in Languages, VoiceWakeWord(lang) PROVE TypeInv'
  <2>1. UNCHANGED <<cfg, sw1, file, stray, image, micsOn, ww, samples, loaded, bypass>>
    BY <1>8 DEF VoiceWakeWord, settingsVars, fileVars, voiceVars
  <2>2. notif' \in [pending : BOOLEAN, bits : SUBSET (0..2)]
    BY <1>8, <1>n, NotesTyped DEF VoiceWakeWord
  <2>3. session' \in {"STARTED", "ENDED"}
    BY <1>8 DEF VoiceWakeWord
  <2>5. cmd' \in Engines
    BY <1>8, <1>c, <1>d DEF VoiceWakeWord, Table, Languages
  <2>8. Goto("voice", "change")
    BY <1>8 DEF VoiceWakeWord, SaveSteps
  <2>9. SettingsTypeOK' /\ TimeoutInv' /\ FileTypeOK' /\ VoiceTypeOK'
    <3>1. pc'["voice"] \in VoiceLabels
      BY <2>8, <1>g DEF SaveSteps
    <3> QED
      BY <2>1, <2>2, <2>3, <2>5, <3>1, <1>t, Zenon DEF SettingsTypeOK, TimeoutInv, FileTypeOK, VoiceTypeOK
  <2> QED
    BY <2>8, <2>9, <1>g, <1>o DEF SaveSteps
<1>9. CASE VoiceNoWakeWord
  <2>1. UNCHANGED <<cfg, notif, sw1, file, stray, image, micsOn, session, ww, cmd, samples, loaded, bypass>>
    BY <1>9 DEF VoiceNoWakeWord, settingsVars, fileVars, voiceVars
  <2>8. Goto("voice", "change")
    BY <1>9 DEF VoiceNoWakeWord, SaveSteps
  <2>9. SettingsTypeOK' /\ TimeoutInv' /\ FileTypeOK' /\ VoiceTypeOK'
    <3>1. pc'["voice"] \in VoiceLabels
      BY <2>8, <1>g DEF SaveSteps
    <3> QED
      BY <2>1, <3>1, <1>t, Zenon DEF SettingsTypeOK, TimeoutInv, FileTypeOK, VoiceTypeOK
  <2> QED
    BY <2>8, <2>9, <1>g, <1>o DEF SaveSteps
<1>10. CASE VoiceCommand
  <2>1. UNCHANGED <<cfg, sw1, file, stray, image, micsOn, ww, loaded, bypass>>
    BY <1>10 DEF VoiceCommand, settingsVars, fileVars, voiceVars
  <2>p. PICK reply \in Replies(cmd.demo) :
          /\ session' = CASE reply.event # "NONE" -> reply.event
                          [] cfg.followup -> "STARTED"
                          [] OTHER -> "ENDED"
          /\ IF reply.to = "same"
               THEN UNCHANGED cmd
               ELSE SetCmdEngine(DialogLanguage(cmd.demo), reply.to, "own")
          /\ notif' = IF reply.value = NoNote THEN notif ELSE Notified(reply.value)
    BY <1>10 DEF VoiceCommand
  <2>r. /\ reply.to \in DialogSteps \cup {"same"}
        /\ reply.event \in {"STARTED", "ENDED", "NONE"}
        /\ reply.value \in (SUBSET (0..2)) \cup {NoNote}
    BY RepliesTyped
  <2>2. notif' \in [pending : BOOLEAN, bits : SUBSET (0..2)]
    BY <2>p, <2>r, <1>n, <1>t DEF SettingsTypeOK
  <2>3. session' \in {"STARTED", "ENDED"}
    BY <2>p, <2>r
  <2>4. samples' \in 0..MaxSamples
    BY <1>10, VoiceAssumption DEF VoiceCommand
  <2>5. cmd' \in Engines
    BY <2>p, <2>r, <1>c, <1>t DEF DialogLanguage, Languages
  <2>8. Goto("voice", "count")
    BY <1>10 DEF VoiceCommand, SaveSteps
  <2>9. SettingsTypeOK' /\ TimeoutInv' /\ FileTypeOK' /\ VoiceTypeOK'
    <3>1. pc'["voice"] \in VoiceLabels
      BY <2>8, <1>g DEF SaveSteps
    <3> QED
      BY <2>1, <2>2, <2>3, <2>4, <2>5, <3>1, <1>t, Zenon DEF SettingsTypeOK, TimeoutInv, FileTypeOK, VoiceTypeOK
  <2> QED
    BY <2>8, <2>9, <1>g, <1>o DEF SaveSteps
<1>11. CASE VoiceNoCommand
  <2>1. UNCHANGED <<cfg, notif, sw1, file, stray, image, micsOn, session, ww, cmd, samples, loaded, bypass>>
    BY <1>11 DEF VoiceNoCommand, settingsVars, fileVars, voiceVars
  <2>8. Goto("voice", "count")
    BY <1>11 DEF VoiceNoCommand, SaveSteps
  <2>9. SettingsTypeOK' /\ TimeoutInv' /\ FileTypeOK' /\ VoiceTypeOK'
    <3>1. pc'["voice"] \in VoiceLabels
      BY <2>8, <1>g DEF SaveSteps
    <3> QED
      BY <2>1, <3>1, <1>t, Zenon DEF SettingsTypeOK, TimeoutInv, FileTypeOK, VoiceTypeOK
  <2> QED
    BY <2>8, <2>9, <1>g, <1>o DEF SaveSteps
<1>12. CASE VoiceCount
  <2>1. UNCHANGED <<cfg, sw1, file, stray, image, micsOn, ww, cmd, loaded, bypass>>
    BY <1>12 DEF VoiceCount, settingsVars, fileVars, voiceVars
  <2>2. notif' \in [pending : BOOLEAN, bits : SUBSET (0..2)]
    BY <1>12, <1>n, <1>t, NotesTyped DEF VoiceCount, SettingsTypeOK
  <2>3. session' \in {"STARTED", "ENDED"}
    BY <1>12, <1>t DEF VoiceCount
  <2>4. samples' \in 0..MaxSamples
    BY <1>12, <1>t, VoiceAssumption DEF VoiceCount, TimeoutInv, Bounded, Settings
  <2>8. Goto("voice", "change")
    BY <1>12 DEF VoiceCount, SaveSteps
  <2>9. SettingsTypeOK' /\ TimeoutInv' /\ FileTypeOK' /\ VoiceTypeOK'
    <3>1. pc'["voice"] \in VoiceLabels
      BY <2>8, <1>g DEF SaveSteps
    <3> QED
      BY <2>1, <2>2, <2>3, <2>4, <3>1, <1>t, Zenon DEF SettingsTypeOK, TimeoutInv, FileTypeOK, VoiceTypeOK
  <2> QED
    BY <2>8, <2>9, <1>g, <1>o DEF SaveSteps
<1>13. CASE VoiceReinstall
  <2>1. UNCHANGED <<notif, sw1, file, stray, image, micsOn, session, samples, loaded, bypass>>
    BY <1>13 DEF VoiceReinstall, settingsVars, fileVars, voiceVars
  <2>2. cfg' \in Settings /\ Bounded(cfg') /\ ww' \in SUBSET Languages /\ cmd' \in Engines
    BY <1>13, <1>i DEF VoiceReinstall
  <2>8. Goto("voice", "load")
    BY <1>13 DEF VoiceReinstall, SaveSteps
  <2>9. SettingsTypeOK' /\ TimeoutInv' /\ FileTypeOK' /\ VoiceTypeOK'
    <3>1. pc'["voice"] \in VoiceLabels
      BY <2>8, <1>g DEF SaveSteps
    <3> QED
      BY <2>1, <2>2, <3>1, <1>t, Zenon DEF SettingsTypeOK, TimeoutInv, FileTypeOK, VoiceTypeOK
  <2> QED
    BY <2>8, <2>9, <1>g, <1>o DEF SaveSteps
<1>14. CASE VoiceNoChange
  <2>1. UNCHANGED <<cfg, notif, sw1, file, stray, image, micsOn, session, ww, cmd, samples, loaded, bypass>>
    BY <1>14 DEF VoiceNoChange, settingsVars, fileVars, voiceVars
  <2>8. Goto("voice", "block")
    BY <1>14 DEF VoiceNoChange, SaveSteps
  <2>9. SettingsTypeOK' /\ TimeoutInv' /\ FileTypeOK' /\ VoiceTypeOK'
    <3>1. pc'["voice"] \in VoiceLabels
      BY <2>8, <1>g DEF SaveSteps
    <3> QED
      BY <2>1, <3>1, <1>t, Zenon DEF SettingsTypeOK, TimeoutInv, FileTypeOK, VoiceTypeOK
  <2> QED
    BY <2>8, <2>9, <1>g, <1>o DEF SaveSteps
<1>15. CASE VoiceLoad
  <2>1. UNCHANGED <<cfg, notif, sw1, file, stray, image, micsOn, session, ww, cmd, samples, bypass>>
    BY <1>15 DEF VoiceLoad, settingsVars, fileVars, voiceVars
  <2>2. loaded' \in [Tasks -> SUBSET BothChanged]
    BY <1>15, <1>t DEF VoiceLoad, FileTypeOK, Settings
  <2>8. Goto("voice", "store")
    BY <1>15 DEF VoiceLoad, SaveSteps
  <2>9. SettingsTypeOK' /\ TimeoutInv' /\ FileTypeOK' /\ VoiceTypeOK'
    <3>1. pc'["voice"] \in VoiceLabels
      BY <2>8, <1>g DEF SaveSteps
    <3> QED
      BY <2>1, <2>2, <3>1, <1>t, Zenon DEF SettingsTypeOK, TimeoutInv, FileTypeOK, VoiceTypeOK
  <2> QED
    BY <2>8, <2>9, <1>g, <1>o DEF SaveSteps
<1>16. CASE VoiceStore
  <2>1. UNCHANGED <<notif, sw1, file, stray, image, micsOn, session, ww, cmd, samples, bypass>>
    BY <1>16 DEF VoiceStore, settingsVars, fileVars, voiceVars
  <2>2. loaded' \in [Tasks -> SUBSET BothChanged] /\ loaded["voice"] \in SUBSET BothChanged
    BY <1>16, <1>t DEF VoiceStore, FileTypeOK
  <2>3. cfg' \in Settings /\ Bounded(cfg')
    BY <1>16, <2>2, <1>t, SetAsrCfg DEF VoiceStore, TimeoutInv, Bounded, Settings
  <2>8. Goto("voice", "block")
    BY <1>16 DEF VoiceStore, SaveSteps
  <2>9. SettingsTypeOK' /\ TimeoutInv' /\ FileTypeOK' /\ VoiceTypeOK'
    <3>1. pc'["voice"] \in VoiceLabels
      BY <2>8, <1>g DEF SaveSteps
    <3> QED
      BY <2>1, <2>2, <2>3, <3>1, <1>t, Zenon DEF SettingsTypeOK, TimeoutInv, FileTypeOK, VoiceTypeOK
  <2> QED
    BY <2>8, <2>9, <1>g, <1>o DEF SaveSteps
<1>17. CASE SaveStep("voice") /\ UNCHANGED <<voiceVars, loaded, bypass>>
  <2>1. UNCHANGED <<loaded, bypass>> /\ UNCHANGED <<session, ww, cmd, samples>>
    BY <1>17 DEF voiceVars
  <2>2. /\ SettingsTypeOK' /\ FileTypeOK' /\ TimeoutInv'
        /\ pc' \in [Tasks -> AppLabels \cup VoiceLabels]
        /\ pc'["app"] \in AppLabels /\ pc'["voice"] \in VoiceLabels
    BY <1>17, <2>1, <1>t, SaveTypes
  <2> QED
    BY <2>1, <2>2, <1>t, <1>a, <1>o DEF AppTypeOK, VoiceTypeOK
<1> QED
  BY <1>1, <1>2, <1>3, <1>4, <1>5, <1>6, <1>7, <1>8, <1>9, <1>10, <1>11, <1>12, <1>13, <1>14, <1>15, <1>16, <1>17,
     VoiceNext DEF VoiceNext, VoiceStep

LEMMA TypesInductive == TypeInv /\ [Next]_vars => TypeInv'
<1> SUFFICES ASSUME TypeInv, [Next]_vars PROVE TypeInv'
  OBVIOUS
<1>1. CASE UNCHANGED vars
  <2>1. UNCHANGED <<cfg, notif, sw1, file, stray, image, micsOn, pc, loaded, bypass>>
    BY <1>1 DEF vars, settingsVars, fileVars
  <2>2. UNCHANGED <<note, ampVolume, session, ww, cmd, samples>>
    BY <1>1 DEF vars, appVars, voiceVars
  <2> QED
    BY <2>1, <2>2, Zenon DEF TypeInv, TypeOK, TimeoutInv, SettingsTypeOK,
       FileTypeOK, AppTypeOK, VoiceTypeOK
<1> QED
  BY <1>1, AppTypes, VoiceTypes, InterruptTypes, PowerLossTypes DEF Next

\* What the shell, the buttons, the tasks and the power do keeps every variable
\* in its range; in particular a session never waits longer than the longest
\* waiting time.
THEOREM TypeCorrect == Spec => []TypeOK
<1>1. Init => TypeInv
  BY InitTypes
<1>2. TypeInv /\ [Next]_vars => TypeInv'
  BY TypesInductive
<1>3. TypeInv => TypeOK
  BY DEF TypeInv
<1> QED
  BY <1>1, <1>2, <1>3, PTL DEF Spec

-----------------------------------------------------------------------------
(* What a task leaves alone *)

LEMMA SaveFrame ==
  ASSUME TypeInv, NEW t \in Tasks, SaveStep(t)
  PROVE  /\ UNCHANGED <<cfg, notif, sw1>>
         /\ pc[t] \in SaveSteps /\ pc'[t] \in SaveSteps \cup {AfterSave(t)}
         /\ \A u \in Tasks \ {t} : pc'[u] = pc[u]
BY SaveDoes DEF SaveEffect, settingsVars, Goto, TypeInv, TypeOK

LEMMA AppFrame ==
  TypeInv /\ AppNext =>
    /\ UNCHANGED <<session, ww, cmd, samples>>
    /\ pc'["voice"] = pc["voice"]
<1> SUFFICES ASSUME TypeInv, AppNext
             PROVE  UNCHANGED <<session, ww, cmd, samples>> /\ pc'["voice"] = pc["voice"]
  OBVIOUS
<1>t. pc \in [Tasks -> AppLabels \cup VoiceLabels] /\ "app" \in Tasks /\ "voice" \in Tasks
  BY DEF TypeInv, TypeOK, Tasks
<1>v. UNCHANGED <<session, ww, cmd, samples>>
  BY DEF AppNext, voiceVars
<1>1. CASE AppBoot
  BY <1>1, <1>t, <1>v DEF AppBoot, Goto
<1>2. CASE AppWake
  BY <1>2, <1>t, <1>v DEF AppWake, Goto
<1>3. CASE AppMicUpdate
  BY <1>3, <1>t, <1>v DEF AppMicUpdate, Goto
<1>4. CASE AppVolumeUpdate
  BY <1>4, <1>t, <1>v DEF AppVolumeUpdate, Goto
<1>5. CASE AppClip
  BY <1>5, <1>t, <1>v DEF AppClip, Goto
<1>6. CASE AppOther
  BY <1>6, <1>t, <1>v DEF AppOther, Goto
<1>7. CASE AppEngine
  BY <1>7, <1>t, <1>v DEF AppEngine, Goto
<1>8. CASE AppLoad
  BY <1>8, <1>t, <1>v DEF AppLoad, Goto
<1>9. CASE AppStore
  BY <1>9, <1>t, <1>v DEF AppStore, Goto
<1>10. CASE AppStatus
  BY <1>10, <1>t, <1>v DEF AppStatus, Goto
<1>11. CASE AppNothingToSave
  BY <1>11, <1>t, <1>v DEF AppNothingToSave, Goto
<1>12. CASE SaveStep("app")
  BY <1>12, <1>t, <1>v, SaveFrame
<1> QED
  BY <1>1, <1>2, <1>3, <1>4, <1>5, <1>6, <1>7, <1>8, <1>9, <1>10, <1>11, <1>12, AppNext DEF AppNext, AppStep

LEMMA VoiceFrame ==
  TypeInv /\ VoiceNext =>
    /\ UNCHANGED <<note, ampVolume>>
    /\ pc'["app"] = pc["app"]
<1> SUFFICES ASSUME TypeInv, VoiceNext
             PROVE  UNCHANGED <<note, ampVolume>> /\ pc'["app"] = pc["app"]
  OBVIOUS
<1>t. pc \in [Tasks -> AppLabels \cup VoiceLabels] /\ "app" \in Tasks /\ "voice" \in Tasks
  BY DEF TypeInv, TypeOK, Tasks
<1>v. UNCHANGED <<note, ampVolume>>
  BY DEF VoiceNext, appVars
<1>1. CASE VoiceRead
  BY <1>1, <1>t, <1>v DEF VoiceRead, Goto
<1>2. CASE VoiceDefaults
  BY <1>2, <1>t, <1>v DEF VoiceDefaults, Goto
<1>3. CASE VoiceInstall
  BY <1>3, <1>t, <1>v DEF VoiceInstall, Goto
<1>4. CASE VoiceClear
  BY <1>4, <1>t, <1>v DEF VoiceClear, Goto
<1>5. CASE VoiceBypassed
  BY <1>5, <1>v DEF VoiceBypassed
<1>6. CASE VoiceBlock
  BY <1>6, <1>t, <1>v DEF VoiceBlock, Goto
<1>7. CASE VoicePushToTalk
  BY <1>7, <1>t, <1>v DEF VoicePushToTalk, Goto
<1>8. CASE VoiceNoWakeWord
  BY <1>8, <1>t, <1>v DEF VoiceNoWakeWord, Goto
<1>9. CASE VoiceCommand
  BY <1>9, <1>t, <1>v DEF VoiceCommand, Goto
<1>10. CASE VoiceNoCommand
  BY <1>10, <1>t, <1>v DEF VoiceNoCommand, Goto
<1>11. CASE VoiceCount
  BY <1>11, <1>t, <1>v DEF VoiceCount, Goto
<1>12. CASE VoiceReinstall
  BY <1>12, <1>t, <1>v DEF VoiceReinstall, Goto
<1>13. CASE VoiceNoChange
  BY <1>13, <1>t, <1>v DEF VoiceNoChange, Goto
<1>14. CASE VoiceLoad
  BY <1>14, <1>t, <1>v DEF VoiceLoad, Goto
<1>15. CASE VoiceStore
  BY <1>15, <1>t, <1>v DEF VoiceStore, Goto
<1>16. ASSUME NEW l \in Languages, VoiceWakeWord(l)
      PROVE  pc'["app"] = pc["app"]
  BY <1>16, <1>t DEF VoiceWakeWord, Goto
<1>17. CASE SaveStep("voice")
  BY <1>17, <1>t, <1>v, SaveFrame
<1> QED
  BY <1>v, <1>1, <1>2, <1>3, <1>4, <1>5, <1>6, <1>7, <1>8, <1>9, <1>10, <1>11, <1>12, <1>13, <1>14, <1>15, <1>16, <1>17, VoiceNext DEF VoiceNext, VoiceStep

\* Until it has booted appTask does nothing else.
LEMMA AppStarts == TypeInv /\ AppNext => AppBoot \/ pc["app"] # "boot"
BY SaveFrame DEF AppNext, AppStep, AppWake, AppMicUpdate, AppVolumeUpdate, AppClip,
   AppOther, AppEngine, AppLoad, AppStore, AppStatus, AppNothingToSave, SaveSteps, Tasks

\* LocalVoice does not come back to its start.
LEMMA VoiceStarts ==
  TypeInv /\ VoiceNext /\ pc["voice"] \notin VoiceBoot \cup SaveSteps
    => pc'["voice"] \notin VoiceBoot \cup SaveSteps
<1> SUFFICES ASSUME TypeInv, VoiceNext, pc["voice"] \notin VoiceBoot \cup SaveSteps
             PROVE  pc'["voice"] \notin VoiceBoot \cup SaveSteps
  OBVIOUS
<1>t. pc \in [Tasks -> AppLabels \cup VoiceLabels] /\ "voice" \in Tasks
  BY DEF TypeInv, TypeOK, Tasks
<1>l. {"block", "listen", "count", "change", "load", "store"} \cap (VoiceBoot \cup SaveSteps) = {}
  BY DEF VoiceBoot, SaveSteps
<1>1. CASE VoiceRead \/ VoiceDefaults \/ VoiceInstall \/ VoiceClear
  BY <1>1 DEF VoiceRead, VoiceDefaults, VoiceInstall, VoiceClear, VoiceBoot
<1>5. CASE VoiceBypassed
  BY <1>5 DEF VoiceBypassed
<1>6. CASE VoiceBlock
  BY <1>6, <1>t, <1>l DEF VoiceBlock, Goto
<1>7. CASE VoicePushToTalk
  BY <1>7, <1>t, <1>l DEF VoicePushToTalk, Goto
<1>8. CASE VoiceNoWakeWord
  BY <1>8, <1>t, <1>l DEF VoiceNoWakeWord, Goto
<1>9. CASE VoiceCommand
  BY <1>9, <1>t, <1>l DEF VoiceCommand, Goto
<1>10. CASE VoiceNoCommand
  BY <1>10, <1>t, <1>l DEF VoiceNoCommand, Goto
<1>11. CASE VoiceCount
  BY <1>11, <1>t, <1>l DEF VoiceCount, Goto
<1>12. CASE VoiceReinstall
  BY <1>12, <1>t, <1>l DEF VoiceReinstall, Goto
<1>13. CASE VoiceNoChange
  BY <1>13, <1>t, <1>l DEF VoiceNoChange, Goto
<1>14. CASE VoiceLoad
  BY <1>14, <1>t, <1>l DEF VoiceLoad, Goto
<1>15. CASE VoiceStore
  BY <1>15, <1>t, <1>l DEF VoiceStore, Goto
<1>16. ASSUME NEW l \in Languages, VoiceWakeWord(l)
       PROVE  pc'["voice"] \notin VoiceBoot \cup SaveSteps
  BY <1>16, <1>t, <1>l DEF VoiceWakeWord, Goto
<1>17. CASE SaveStep("voice")
  BY <1>17, <1>t, SaveFrame
<1> QED
  BY <1>1, <1>5, <1>6, <1>7, <1>8, <1>9, <1>10, <1>11, <1>12, <1>13, <1>14, <1>15, <1>16, <1>17, VoiceNext DEF VoiceNext, VoiceStep

-----------------------------------------------------------------------------
(* Unsaved changes *)

LEMMA UnsavedApp == TypeInv /\ UnsavedIsNoticed /\ AppNext => UnsavedIsNoticed'
<1> SUFFICES ASSUME TypeInv, UnsavedIsNoticed, AppNext PROVE UnsavedIsNoticed'
  OBVIOUS
<1>t. /\ pc \in [Tasks -> AppLabels \cup VoiceLabels] /\ "app" \in Tasks /\ "voice" \in Tasks
      /\ cfg \in Settings
  BY DEF TypeInv, TypeOK, SettingsTypeOK, Tasks
<1>v. pc'["voice"] = pc["voice"]
  BY AppFrame
<1>1. CASE AppBoot
  BY <1>1, <1>t, <1>v DEF AppBoot, Goto, UnsavedIsNoticed, settingsVars
<1>2. CASE AppWake
  BY <1>2, <1>t, <1>v DEF AppWake, Goto, UnsavedIsNoticed, settingsVars
<1>3. CASE AppMicUpdate
  BY <1>3, <1>t, <1>v DEF AppMicUpdate, Goto, UnsavedIsNoticed, settingsVars
<1>4. CASE AppVolumeUpdate
  BY <1>4, <1>t, <1>v DEF AppVolumeUpdate, Goto, UnsavedIsNoticed, settingsVars
<1>5. CASE AppClip
  BY <1>5, <1>t, <1>v DEF AppClip, Goto, UnsavedIsNoticed, settingsVars
<1>6. CASE AppOther
  BY <1>6, <1>t, <1>v DEF AppOther, Goto, UnsavedIsNoticed, settingsVars
<1>7. CASE AppEngine
  BY <1>7, <1>t, <1>v DEF AppEngine, Goto, UnsavedIsNoticed, settingsVars
<1>8. CASE AppLoad
  BY <1>8, <1>t, <1>v DEF AppLoad, Goto, UnsavedIsNoticed, settingsVars
<1>9. CASE AppStore
  BY <1>9, <1>t, <1>v DEF AppStore, Goto, UnsavedIsNoticed
<1>10. CASE AppStatus
  BY <1>10, <1>t DEF AppStatus, UnsavedIsNoticed, Settings
<1>11. CASE AppNothingToSave
  BY <1>11, <1>t, <1>v DEF AppNothingToSave, Goto, UnsavedIsNoticed, settingsVars
<1>12. CASE SaveStep("app")
  BY <1>12, <1>t, <1>v, SaveFrame DEF UnsavedIsNoticed, SaveSteps
<1> QED
  BY <1>1, <1>2, <1>3, <1>4, <1>5, <1>6, <1>7, <1>8, <1>9, <1>10, <1>11, <1>12, AppNext DEF AppNext, AppStep

LEMMA UnsavedVoice == TypeInv /\ UnsavedIsNoticed /\ VoiceNext => UnsavedIsNoticed'
<1> SUFFICES ASSUME TypeInv, UnsavedIsNoticed, VoiceNext PROVE UnsavedIsNoticed'
  OBVIOUS
<1>t. /\ pc \in [Tasks -> AppLabels \cup VoiceLabels] /\ "app" \in Tasks /\ "voice" \in Tasks
      /\ cfg \in Settings
  BY DEF TypeInv, TypeOK, SettingsTypeOK, Tasks
<1>v. pc'["app"] = pc["app"]
  BY VoiceFrame
<1>n. \A v \in SUBSET (0..2) : Notified(v).pending
  BY NotifiedTyped DEF TypeInv, TypeOK
<1>1. CASE VoiceRead
  BY <1>1, <1>t, <1>v DEF VoiceRead, Goto, UnsavedIsNoticed, Settings
<1>2. CASE VoiceDefaults
  BY <1>2 DEF VoiceDefaults, DefaultSettings, UnsavedIsNoticed
<1>3. CASE VoiceInstall
  BY <1>3, <1>t, <1>v DEF VoiceInstall, InitializeAsr, Goto, UnsavedIsNoticed, Settings
<1>4. CASE VoiceClear
  BY <1>4, <1>t, <1>v DEF VoiceClear, Goto, UnsavedIsNoticed, settingsVars
<1>5. CASE VoiceBypassed
  BY <1>5, <1>t, <1>v DEF VoiceBypassed, Goto, UnsavedIsNoticed, settingsVars
<1>6. CASE VoiceBlock
  BY <1>6, <1>t, <1>v DEF VoiceBlock, Goto, UnsavedIsNoticed, settingsVars
<1>7. CASE VoicePushToTalk
  BY <1>7, <1>n, NotesTyped DEF VoicePushToTalk, UnsavedIsNoticed
<1>8. CASE VoiceNoWakeWord
  BY <1>8, <1>t, <1>v DEF VoiceNoWakeWord, Goto, UnsavedIsNoticed, settingsVars
<1>9. CASE VoiceCommand
  <2>1. PICK reply \in Replies(cmd.demo) :
          notif' = IF reply.value = NoNote THEN notif ELSE Notified(reply.value)
    BY <1>9 DEF VoiceCommand
  <2>2. reply.value \in (SUBSET (0..2)) \cup {NoNote}
    BY RepliesTyped
  <2>3. notif.pending => notif'.pending
    BY <2>1, <2>2, <1>n
  <2> QED
    BY <1>9, <2>3, <1>t, <1>v DEF VoiceCommand, UnsavedIsNoticed, Goto
<1>10. CASE VoiceNoCommand
  BY <1>10, <1>t, <1>v DEF VoiceNoCommand, Goto, UnsavedIsNoticed, settingsVars
<1>11. CASE VoiceCount
  BY <1>11, <1>t, <1>v, <1>n, NotesTyped DEF VoiceCount, UnsavedIsNoticed, Goto
<1>12. CASE VoiceReinstall
  BY <1>12, <1>t, <1>v DEF VoiceReinstall, InitializeAsr, Goto, UnsavedIsNoticed, Settings
<1>13. CASE VoiceNoChange
  BY <1>13, <1>t, <1>v DEF VoiceNoChange, Goto, UnsavedIsNoticed, settingsVars
<1>14. CASE VoiceLoad
  BY <1>14, <1>t, <1>v DEF VoiceLoad, Goto, UnsavedIsNoticed, settingsVars
<1>15. CASE VoiceStore
  BY <1>15, <1>t, <1>v DEF VoiceStore, Goto, UnsavedIsNoticed, settingsVars
<1>16. ASSUME NEW l \in Languages, VoiceWakeWord(l)
      PROVE  UnsavedIsNoticed'
  BY <1>16, <1>n, NotesTyped DEF VoiceWakeWord, UnsavedIsNoticed
<1>17. CASE SaveStep("voice")
  BY <1>17, <1>t, <1>v, SaveFrame DEF UnsavedIsNoticed, SaveSteps
<1> QED
  BY <1>1, <1>2, <1>3, <1>4, <1>5, <1>6, <1>7, <1>8, <1>9, <1>10, <1>11, <1>12, <1>13, <1>14, <1>15, <1>16, <1>17, VoiceNext DEF VoiceNext, VoiceStep

LEMMA UnsavedInductive ==
  TypeInv /\ UnsavedIsNoticed /\ [Next]_vars => UnsavedIsNoticed'
<1> SUFFICES ASSUME TypeInv, UnsavedIsNoticed, [Next]_vars PROVE UnsavedIsNoticed'
  OBVIOUS
<1>1. CASE Interrupt
  BY <1>1, InterruptDoes DEF InterruptEffect, UnsavedIsNoticed
<1>2. CASE PowerLoss
  BY <1>2 DEF PowerLoss, ZeroSettings, UnsavedIsNoticed
<1>3. CASE UNCHANGED vars
  BY <1>3 DEF vars, settingsVars, UnsavedIsNoticed
<1> QED
  BY <1>1, <1>2, <1>3, UnsavedApp, UnsavedVoice DEF Next

\* However the shell, the buttons and the tasks interleave, a change marked to
\* be written is always followed by a check of the mark.
THEOREM ChangesNoticed == Spec => []UnsavedIsNoticed
<1>1. Init => TypeInv /\ UnsavedIsNoticed
  BY InitTypes DEF Init, SettingsInit, ZeroSettings, UnsavedIsNoticed
<1>2. TypeInv /\ UnsavedIsNoticed /\ [Next]_vars => (TypeInv /\ UnsavedIsNoticed)'
  BY TypesInductive, UnsavedInductive
<1> QED
  BY <1>1, <1>2, PTL DEF Spec

-----------------------------------------------------------------------------
(* Sessions *)

\* Between a command and the count of its block the counter is zero.
FreshInv ==
  session = "ENDED" => samples <= (IF pc["voice"] = "count" THEN 0 ELSE 1)

LEMMA FreshVoice == TypeInv /\ FreshInv /\ VoiceNext => FreshInv'
<1> SUFFICES ASSUME TypeInv, FreshInv, VoiceNext PROVE FreshInv'
  OBVIOUS
<1>t. /\ pc \in [Tasks -> AppLabels \cup VoiceLabels] /\ "voice" \in Tasks
      /\ samples \in Nat /\ cfg.timeout \in Nat
  BY VoiceAssumption DEF TypeInv, TypeOK, SettingsTypeOK, VoiceTypeOK, Tasks, Settings
<1>1. CASE VoiceRead
  BY <1>1, <1>t DEF VoiceRead, Goto, FreshInv, voiceVars
<1>2. CASE VoiceDefaults
  BY <1>2, <1>t DEF VoiceDefaults, Goto, FreshInv, voiceVars
<1>3. CASE VoiceInstall
  BY <1>3, <1>t DEF VoiceInstall, Goto, FreshInv, voiceVars
<1>4. CASE VoiceClear
  BY <1>4, <1>t DEF VoiceClear, Goto, FreshInv, voiceVars
<1>5. CASE VoiceBypassed
  BY <1>5, <1>t DEF VoiceBypassed, Goto, FreshInv, voiceVars
<1>6. CASE VoiceBlock
  BY <1>6, <1>t DEF VoiceBlock, Goto, FreshInv, voiceVars
<1>7. CASE VoicePushToTalk
  BY <1>7, <1>t DEF VoicePushToTalk, Goto, FreshInv, voiceVars
<1>8. CASE VoiceNoWakeWord
  BY <1>8, <1>t DEF VoiceNoWakeWord, Goto, FreshInv, voiceVars
<1>9. CASE VoiceCommand
  BY <1>9, <1>t DEF VoiceCommand, Goto, FreshInv, voiceVars
<1>10. CASE VoiceNoCommand
  BY <1>10, <1>t DEF VoiceNoCommand, Goto, FreshInv, voiceVars
<1>11. CASE VoiceCount
  BY <1>11, <1>t DEF VoiceCount, Goto, FreshInv, voiceVars
<1>12. CASE VoiceReinstall
  BY <1>12, <1>t DEF VoiceReinstall, Goto, FreshInv, voiceVars
<1>13. CASE VoiceNoChange
  BY <1>13, <1>t DEF VoiceNoChange, Goto, FreshInv, voiceVars
<1>14. CASE VoiceLoad
  BY <1>14, <1>t DEF VoiceLoad, Goto, FreshInv, voiceVars
<1>15. CASE VoiceStore
  BY <1>15, <1>t DEF VoiceStore, Goto, FreshInv, voiceVars
<1>16. ASSUME NEW l \in Languages, VoiceWakeWord(l)
      PROVE  FreshInv'
  BY <1>16 DEF VoiceWakeWord, FreshInv
<1>17. CASE SaveStep("voice") /\ UNCHANGED <<voiceVars, loaded, bypass>>
  <2>1. pc["voice"] # "count" /\ pc'["voice"] # "count"
    BY <1>17, <1>t, SaveFrame DEF SaveSteps, AfterSave
  <2> QED
    BY <1>17, <2>1 DEF FreshInv, voiceVars
<1> QED
  BY <1>1, <1>2, <1>3, <1>4, <1>5, <1>6, <1>7, <1>8, <1>9, <1>10, <1>11, <1>12, <1>13, <1>14, <1>15, <1>16, <1>17, VoiceNext DEF VoiceNext, VoiceStep

\* However long a session was, and whatever the waiting time is changed to while
\* it runs, the next one has its whole waiting time ahead.
THEOREM SessionsFresh == Spec => []FreshSession
<1>1. Init => TypeInv /\ FreshInv
  BY InitTypes DEF Init, VoiceInit, FreshInv
<1>2. TypeInv /\ FreshInv /\ [Next]_vars => (TypeInv /\ FreshInv)'
  <2> SUFFICES ASSUME TypeInv, FreshInv, [Next]_vars PROVE FreshInv'
    BY TypesInductive
  <2>1. CASE Interrupt
    BY <2>1 DEF Interrupt, voiceVars, FreshInv
  <2>2. CASE PowerLoss
    BY <2>2 DEF PowerLoss, FreshInv
  <2>3. CASE UNCHANGED vars
    BY <2>3 DEF vars, voiceVars, FreshInv
  <2>4. CASE AppNext
    BY <2>4, AppFrame DEF FreshInv
  <2> QED
    BY <2>1, <2>2, <2>3, <2>4, FreshVoice DEF Next
<1>3. TypeInv /\ FreshInv => FreshSession
  BY VoiceAssumption DEF TypeInv, TypeOK, VoiceTypeOK, FreshInv, FreshSession
<1> QED
  BY <1>1, <1>2, <1>3, PTL DEF Spec

-----------------------------------------------------------------------------
(* What is saved *)

Writing(t) == pc[t] \in {"copy", "program"}

\* A zero status is replaced before LocalVoice installs its engines.
NoneInv == cfg.status = "NONE" => pc["voice"] \in {"read", "defaults"}

\* What the theorem takes for granted: Saves succeed or overflow, no program of
\* a page is cut short, and the two tasks do not both overflow at the start.
Undisturbed == ~Faults /\ ~TornPages /\ (SlowStart \/ ~Overflows)

\* appTask of a slow start leaves LocalVoice its first Save.
StartInv ==
  SlowStart => (pc["voice"] \in VoiceBoot \cup SaveSteps => pc["app"] = "boot")

\* s_fileLock: one Save at a time, and no erase comes between its mark in the
\* map and its page.
LockInv ==
  /\ ~(Writing("app") /\ Writing("voice"))
  /\ \A t \in Tasks : Writing(t) => file = Broken
  /\ file # Torn /\ stray = None
  /\ ~Overflows => \A t \in Tasks : pc[t] # "erase"

Unsettled == cfg.status # "WRITE_SUCCESS"

Other(t) == IF t = "app" THEN "voice" ELSE "app"

\* The settings differ from the file only while a Save is still to come or
\* under way, and those of the last Save under way are the current ones.
SavedInv ==
  /\ \/ Unsettled
     \/ \E t \in Tasks : pc[t] \in SaveSteps
     \/ file \in Settings /\ SameSettings(file, cfg)
  /\ \A t \in Tasks : pc[t] = "program" =>
       \/ Unsettled
       \/ pc[Other(t)] \in SaveSteps
       \/ SameSettings(image[t], cfg)

FileInv == NoneInv /\ StartInv /\ LockInv /\ SavedInv

LEMMA StartInductive == TypeInv /\ StartInv /\ [Next]_vars => StartInv'
<1> SUFFICES ASSUME TypeInv, StartInv, [Next]_vars, SlowStart,
                    pc'["voice"] \in VoiceBoot \cup SaveSteps
             PROVE  pc'["app"] = "boot"
  BY DEF StartInv
<1>1. CASE AppNext
  <2>1. pc'["voice"] = pc["voice"]
    BY <1>1, AppFrame
  <2> QED
    BY <2>1, <1>1, AppStarts DEF StartInv, AppBoot
<1>2. CASE VoiceNext
  BY <1>2, VoiceFrame, VoiceStarts DEF StartInv
<1>3. CASE Interrupt \/ UNCHANGED vars
  BY <1>3 DEF Interrupt, vars, StartInv
<1>4. CASE PowerLoss
  BY <1>4 DEF PowerLoss
<1> QED
  BY <1>1, <1>2, <1>3, <1>4 DEF Next

LEMMA SameReflexive == \A a : SameSettings(a, a)
BY DEF SameSettings

\* Neither the mark of a Save nor asrCfg is compared, and the languages that
\* initialize_asr() writes back are those it works with.
LEMMA SameKept ==
  ASSUME NEW a, NEW b \in Settings, SameSettings(a, b)
  PROVE  /\ \A v : SameSettings(a, [b EXCEPT !.status = v])
         /\ \A v : SameSettings(a, [b EXCEPT !.asrCfg = v])
         /\ SameSettings(a, [b EXCEPT !.multilingual = Effective(b)])
<1>1. ASSUME NEW v
      PROVE  /\ SameSettings(a, [b EXCEPT !.status = v])
             /\ SameSettings(a, [b EXCEPT !.asrCfg = v])
  BY DEF SameSettings, Effective, Settings
<1>2. SameSettings(a, [b EXCEPT !.multilingual = Effective(b)])
  <2> DEFINE c == [b EXCEPT !.multilingual = Effective(b)]
  <2>1. /\ c.volume = b.volume /\ c.mute = b.mute /\ c.timeout = b.timeout
        /\ c.followup = b.followup /\ c.demo = b.demo /\ c.ptt = b.ptt
        /\ c.multilingual = Effective(b)
    BY DEF Settings
  <2>2. Effective(c) = Effective(b)
    BY <2>1 DEF Effective
  <2> HIDE DEF c
  <2> QED
    BY <2>1, <2>2 DEF SameSettings, c
<1> QED
  BY <1>1, <1>2

\* A step that leaves the files and the labels of Saves alone.
LEMMA SavedQuiet ==
  ASSUME Undisturbed, TypeInv, FileInv, UNCHANGED <<file, stray, image>>,
         NEW t \in Tasks, pc[t] \notin SaveSteps, pc'[t] \notin SaveSteps,
         pc'[Other(t)] = pc[Other(t)],
         Unsettled => Unsettled',
         NoneInv', StartInv',
         \A a : SameSettings(a, cfg) => SameSettings(a, cfg')
  PROVE  FileInv'
<1>1. Tasks = {t, Other(t)} /\ Other(Other(t)) = t
  BY DEF Tasks, Other
<1> QED
  BY <1>1 DEF FileInv, LockInv, SavedInv, Writing, SaveSteps, Other, Tasks

\* A step of a Save.
LEMMA SavedSave ==
  ASSUME Undisturbed, TypeInv, FileInv, StartInv', NEW t \in Tasks, SaveStep(t)
  PROVE  FileInv'
<1>t. /\ cfg \in Settings /\ image \in [Tasks -> Settings] /\ Other(t) \in Tasks
      /\ pc \in [Tasks -> AppLabels \cup VoiceLabels]
      /\ Tasks = {t, Other(t)} /\ Other(Other(t)) = t /\ Other(t) # t
      /\ "app" \in Tasks /\ "voice" \in Tasks
  BY DEF TypeInv, TypeOK, SettingsTypeOK, FileTypeOK, Tasks, Other
<1>f. /\ UNCHANGED cfg /\ pc'[Other(t)] = pc[Other(t)] /\ pc[t] \in SaveSteps
      /\ pc'[t] \in SaveSteps \cup {AfterSave(t)}
  BY SaveFrame, <1>t
<1>n. NoneInv'
  BY <1>t, <1>f DEF FileInv, NoneInv, SaveSteps, AfterSave, Tasks
<1>s. None \notin Settings /\ Broken \notin Settings
  BY FileAssumption
<1>u. stray = None /\ file # Torn /\ ~TornPages /\ ~Faults
  BY DEF Undisturbed, FileInv, LockInv
<1>x. ~(Writing(t) /\ Writing(Other(t)))
  BY <1>t DEF FileInv, LockInv, Other, Tasks
<1>l. \A u \in Tasks : Writing(u) => file = Broken
  BY DEF FileInv, LockInv
<1>o. ~Overflows => pc[t] # "erase" /\ pc[Other(t)] # "erase"
  BY <1>t DEF FileInv, LockInv
<1>a. Unsettled' <=> Unsettled
  BY <1>f DEF Unsettled
<1>b. ASSUME ~(Writing(t)' /\ Writing(Other(t))'),
             Writing(t)' => file' = Broken, Writing(Other(t))' => file' = Broken,
             file' # Torn, stray' = None,
             ~Overflows => pc'[t] # "erase"
      PROVE  LockInv'
  BY <1>b, <1>t, <1>f, <1>o DEF LockInv, Other, Tasks
<1>1. CASE SaveRetire(t)
  <2>1. /\ file' = Broken /\ UNCHANGED image /\ LockFree /\ pc'[t] = "copy"
        /\ stray' = None
    BY <1>1, <1>t, <1>u DEF SaveRetire, Goto
  <2>2. LockInv'
    BY <2>1, <1>b, <1>t, <1>f, FileAssumption DEF Writing, LockFree
  <2>3. SavedInv'
    BY <2>1, <1>t, <1>f DEF SavedInv, SaveSteps, LockFree
  <2> QED
    BY <2>2, <2>3, <1>n DEF FileInv
<1>2. CASE SaveOverflow(t)
  <2>1. /\ UNCHANGED <<file, stray, image>> /\ pc'[t] = "erase" /\ LockFree /\ Overflows
    BY <1>2, <1>t DEF SaveOverflow, Goto, fileVars
  <2>2. LockInv'
    BY <2>1, <1>b, <1>t, <1>f, <1>l, <1>u DEF Writing
  <2>3. SavedInv'
    BY <2>1, <1>t, <1>f DEF SavedInv, SaveSteps, LockFree
  <2> QED
    BY <2>2, <2>3, <1>n DEF FileInv
<1>3. CASE SaveCopy(t)
  <2>1. /\ pc[t] = "copy" /\ pc'[t] = "program" /\ UNCHANGED <<file, stray>>
        /\ image' = [image EXCEPT ![t] = cfg]
    BY <1>3, <1>t DEF SaveCopy, Goto
  <2>2. LockInv'
    BY <2>1, <1>b, <1>t, <1>f, <1>l, <1>x, <1>u DEF Writing
  <2>3. SavedInv'
    <3>1. image'[t] = cfg' /\ SameSettings(image'[t], cfg')
      BY <2>1, <1>t, <1>f, SameReflexive
    <3>2. pc'[Other(t)] # "program" /\ pc'[t] \in SaveSteps
      BY <2>1, <1>x, <1>f DEF Writing, SaveSteps
    <3> QED
      BY <3>1, <3>2, <1>t DEF SavedInv
  <2> QED
    BY <2>2, <2>3, <1>n DEF FileInv
<1>4. CASE SaveProgram(t)
  <2>0. pc[t] = "program" /\ file = Broken
    BY <1>4, <1>l DEF SaveProgram, Writing
  <2>1. /\ pc[t] = "program" /\ pc'[t] = AfterSave(t) /\ file' = image[t]
        /\ stray' = None
    BY <1>4, <2>0, <1>t, <1>u, FileAssumption DEF SaveProgram, Programmed, Goto
  <2>2. LockInv'
    BY <2>1, <1>b, <1>t, <1>f, <1>x, FileAssumption DEF Writing, AfterSave
  <2>3. SavedInv'
    <3>1. \/ Unsettled \/ pc[Other(t)] \in SaveSteps \/ SameSettings(image[t], cfg)
      BY <2>1 DEF FileInv, SavedInv
    <3>2. \/ Unsettled' \/ pc'[Other(t)] \in SaveSteps
          \/ file' \in Settings /\ SameSettings(file', cfg')
      BY <3>1, <2>1, <1>a, <1>f, <1>t
    <3>3. \A u \in Tasks : pc'[u] # "program"
      BY <2>1, <1>x, <1>f, <1>t DEF Writing, AfterSave
    <3> QED
      BY <3>2, <3>3, <1>t DEF SavedInv
  <2> QED
    BY <2>2, <2>3, <1>n DEF FileInv
<1>5. CASE SaveFail(t)
  BY <1>5, <1>u DEF SaveFail
<1>6. CASE SaveErase(t)
  <2>1. pc[t] = "erase" /\ pc'[t] = "resave" /\ file' = None /\ UNCHANGED image
        /\ stray' = None
    BY <1>6, <1>t DEF SaveErase, Goto
  <2>4. ~Writing(Other(t))
    <3>1. SlowStart
      BY <2>1, <1>o DEF Undisturbed
    <3>2. CASE t = "app"
      BY <3>1, <3>2, <2>1 DEF FileInv, StartInv, Writing, Other, SaveSteps
    <3>3. CASE t = "voice"
      BY <3>1, <3>3, <2>1 DEF FileInv, StartInv, Writing, Other, SaveSteps
    <3> QED
      BY <3>2, <3>3 DEF Tasks
  <2>2. LockInv'
    BY <2>1, <2>4, <1>b, <1>t, <1>f, FileAssumption DEF Writing
  <2>3. SavedInv'
    <3>1. pc'[t] \in SaveSteps /\ pc'[t] # "program"
      BY <2>1 DEF SaveSteps
    <3> QED
      BY <3>1, <1>t DEF SavedInv
  <2> QED
    BY <2>2, <2>3, <1>n DEF FileInv
<1> QED
  BY <1>1, <1>2, <1>3, <1>4, <1>5, <1>6, SaveStep(t) DEF SaveStep

LEMMA SavedApp == Undisturbed /\ TypeInv /\ FileInv /\ AppNext => FileInv'
<1> SUFFICES ASSUME Undisturbed, TypeInv, FileInv, AppNext PROVE FileInv'
  OBVIOUS
<1>t. /\ pc \in [Tasks -> AppLabels \cup VoiceLabels] /\ "app" \in Tasks /\ "voice" \in Tasks
      /\ cfg \in Settings /\ Other("app") = "voice"
  BY DEF TypeInv, TypeOK, SettingsTypeOK, Tasks, Other
<1>v. pc'["voice"] = pc["voice"]
  BY AppFrame
<1>n. NoneInv /\ StartInv'
  BY StartInductive DEF FileInv, Next
<1>k. \A v : \A a : SameSettings(a, cfg) =>
        /\ SameSettings(a, [cfg EXCEPT !.status = v])
        /\ SameSettings(a, [cfg EXCEPT !.asrCfg = v])
  BY <1>t, SameKept
<1>q. ASSUME UNCHANGED <<file, stray, image, cfg>>,
             pc["app"] \notin SaveSteps, pc'["app"] \notin SaveSteps
      PROVE  FileInv'
  BY <1>q, <1>t, <1>v, <1>n, SavedQuiet DEF NoneInv, Unsettled
<1> USE DEF SaveSteps
<1>1. CASE AppBoot
  BY <1>1, <1>t, <1>q DEF AppBoot, Goto, settingsVars, fileVars
<1>2. CASE AppWake
  BY <1>2, <1>t, <1>q DEF AppWake, Goto, settingsVars, fileVars
<1>3. CASE AppMicUpdate
  BY <1>3, <1>t, <1>q DEF AppMicUpdate, Goto, settingsVars, fileVars
<1>4. CASE AppVolumeUpdate
  BY <1>4, <1>t, <1>q DEF AppVolumeUpdate, Goto, settingsVars, fileVars
<1>5. CASE AppClip
  BY <1>5, <1>t, <1>q DEF AppClip, Goto, settingsVars, fileVars
<1>6. CASE AppOther
  BY <1>6, <1>t, <1>q DEF AppOther, Goto, settingsVars, fileVars
<1>7. CASE AppEngine
  BY <1>7, <1>t, <1>q DEF AppEngine, Goto, settingsVars, fileVars
<1>8. CASE AppLoad
  BY <1>8, <1>t, <1>q DEF AppLoad, Goto, settingsVars, fileVars
<1>9. CASE AppStore
  <2>1. /\ UNCHANGED <<file, stray, image>> /\ pc["app"] = "store" /\ pc'["app"] = "status"
        /\ cfg' = [cfg EXCEPT !.asrCfg = loaded["app"] \ {ENGINE_CHANGED}]
    BY <1>9, <1>t DEF AppStore, Goto, fileVars
  <2>2. cfg'.status = cfg.status
    BY <2>1, <1>t DEF Settings
  <2> QED
    BY <2>1, <2>2, <1>t, <1>v, <1>n, <1>k, SavedQuiet DEF NoneInv, Unsettled
<1>10. CASE AppStatus
  <2>1. /\ UNCHANGED <<file, stray, image>> /\ pc["app"] = "status" /\ pc'["app"] = "save"
        /\ cfg' = [cfg EXCEPT !.status = "WRITE_SUCCESS"]
    BY <1>10, <1>t DEF AppStatus, Goto, fileVars
  <2>2. cfg'.status = "WRITE_SUCCESS"
    BY <2>1, <1>t DEF Settings
  <2> QED
    BY <2>1, <2>2, <1>t, <1>v, <1>n DEF FileInv, NoneInv, LockInv, SavedInv, Writing, Tasks, Other
<1>11. CASE AppNothingToSave
  BY <1>11, <1>t, <1>q DEF AppNothingToSave, Goto, settingsVars, fileVars
<1>12. CASE SaveStep("app")
  BY <1>12, <1>t, SavedSave, <1>n
<1> QED
  BY <1>1, <1>2, <1>3, <1>4, <1>5, <1>6, <1>7, <1>8, <1>9, <1>10, <1>11, <1>12, AppNext DEF AppNext, AppStep

LEMMA SavedVoice == Undisturbed /\ TypeInv /\ FileInv /\ VoiceNext => FileInv'
<1> SUFFICES ASSUME Undisturbed, TypeInv, FileInv, VoiceNext PROVE FileInv'
  OBVIOUS
<1>t. /\ pc \in [Tasks -> AppLabels \cup VoiceLabels] /\ "app" \in Tasks /\ "voice" \in Tasks
      /\ cfg \in Settings /\ Other("voice") = "app" /\ Other("app") = "voice"
      /\ file \in Settings \cup {None, Broken, Torn}
  BY DEF TypeInv, TypeOK, SettingsTypeOK, FileTypeOK, Tasks, Other
<1>v. pc'["app"] = pc["app"]
  BY VoiceFrame
<1>n. NoneInv /\ StartInv'
  BY StartInductive DEF FileInv, Next
<1>k. \A a : SameSettings(a, cfg) =>
        /\ \A v : SameSettings(a, [cfg EXCEPT !.asrCfg = v])
        /\ SameSettings(a, [cfg EXCEPT !.multilingual = Effective(cfg)])
  BY <1>t, SameKept
<1>s. /\ \A v : [cfg EXCEPT !.asrCfg = v].status = cfg.status
      /\ [cfg EXCEPT !.multilingual = Effective(cfg)].status = cfg.status
  BY <1>t DEF Settings
<1>q. ASSUME UNCHANGED <<file, stray, image>>, cfg'.status = cfg.status,
             \A a : SameSettings(a, cfg) => SameSettings(a, cfg'),
             pc["voice"] \notin SaveSteps, pc'["voice"] \notin SaveSteps,
             pc["voice"] \notin {"read", "defaults"}
      PROVE  FileInv'
  BY <1>q, <1>t, <1>v, <1>n, SavedQuiet DEF NoneInv, Unsettled
<1> USE DEF SaveSteps
<1>1. CASE VoiceRead
  <2>1. /\ UNCHANGED <<file, stray, image>> /\ pc["voice"] = "read" /\ LockFree
        /\ cfg' \in ReadInto
        /\ pc'["voice"] = IF cfg'.status = "WRITE_SUCCESS" THEN "init" ELSE "defaults"
    BY <1>1, <1>t DEF VoiceRead, Goto, fileVars
  <2>2. file # Torn /\ ~Writing("app")
    BY <2>1, <1>t DEF FileInv, LockInv, LockFree, Writing
  <2>3. cfg' \in {cfg, ZeroSettings} \/ (file \in Settings /\ cfg' = file)
    BY <2>1, <2>2, <1>t DEF ReadInto
  <2>4. NoneInv' /\ LockInv'
    BY <2>1, <1>t, <1>v DEF FileInv, NoneInv, LockInv, Writing, Tasks
  <2>5. SavedInv'
    <3>1. CASE cfg' = file /\ file \in Settings
      BY <3>1, <2>1, <2>2, <1>t, <1>v, SameReflexive DEF SavedInv, Writing, Tasks
    <3>2. CASE cfg' = cfg
      BY <3>2, <2>1, <2>2, <1>t, <1>v DEF FileInv, SavedInv, Tasks, Unsettled, Writing
    <3>3. CASE cfg' = ZeroSettings
      BY <3>3, <2>1, <1>t, <1>v DEF SavedInv, Tasks, Unsettled, ZeroSettings
    <3> QED
      BY <2>3, <3>1, <3>2, <3>3
  <2> QED
    BY <2>4, <2>5, <1>n DEF FileInv
<1>2. CASE VoiceDefaults
  <2>1. /\ UNCHANGED <<file, stray, image>> /\ pc["voice"] = "defaults" /\ pc'["voice"] = "save"
        /\ cfg' = DefaultSettings
    BY <1>2, <1>t DEF VoiceDefaults, Goto, fileVars
  <2>2. cfg'.status = "WRITE_SUCCESS"
    BY <2>1 DEF DefaultSettings
  <2> QED
    BY <2>1, <2>2, <1>t, <1>v, <1>n DEF FileInv, NoneInv, LockInv, SavedInv, Writing, Tasks
<1>3. CASE VoiceInstall
  BY <1>3, <1>t, <1>q, <1>k, <1>s DEF VoiceInstall, InitializeAsr, Goto, fileVars
<1>4. CASE VoiceClear
  BY <1>4, <1>t, <1>q, <1>k, <1>s DEF VoiceClear, Goto, fileVars
<1>5. CASE VoiceBypassed
  BY <1>5, <1>t, <1>q DEF VoiceBypassed, Goto, settingsVars, fileVars
<1>6. CASE VoiceBlock
  BY <1>6, <1>t, <1>q DEF VoiceBlock, Goto, settingsVars, fileVars
<1>7. CASE VoicePushToTalk
  BY <1>7, <1>t, <1>q DEF VoicePushToTalk, Goto, settingsVars, fileVars
<1>8. CASE VoiceNoWakeWord
  BY <1>8, <1>t, <1>q DEF VoiceNoWakeWord, Goto, settingsVars, fileVars
<1>9. CASE VoiceCommand
  BY <1>9, <1>t, <1>q DEF VoiceCommand, Goto, settingsVars, fileVars
<1>10. CASE VoiceNoCommand
  BY <1>10, <1>t, <1>q DEF VoiceNoCommand, Goto, settingsVars, fileVars
<1>11. CASE VoiceCount
  BY <1>11, <1>t, <1>q DEF VoiceCount, Goto, settingsVars, fileVars
<1>12. CASE VoiceReinstall
  BY <1>12, <1>t, <1>q, <1>k, <1>s DEF VoiceReinstall, InitializeAsr, Goto, fileVars
<1>13. CASE VoiceNoChange
  BY <1>13, <1>t, <1>q DEF VoiceNoChange, Goto, settingsVars, fileVars
<1>14. CASE VoiceLoad
  BY <1>14, <1>t, <1>q DEF VoiceLoad, Goto, settingsVars, fileVars
<1>15. CASE VoiceStore
  BY <1>15, <1>t, <1>q, <1>k, <1>s DEF VoiceStore, Goto, fileVars
<1>16. ASSUME NEW l \in Languages, VoiceWakeWord(l)
      PROVE  FileInv'
  BY <1>16, <1>t, <1>q DEF VoiceWakeWord, Goto, fileVars
<1>17. CASE SaveStep("voice")
  BY <1>17, <1>t, SavedSave, <1>n
<1> QED
  BY <1>1, <1>2, <1>3, <1>4, <1>5, <1>6, <1>7, <1>8, <1>9, <1>10, <1>11, <1>12, <1>13, <1>14, <1>15, <1>16, <1>17, VoiceNext DEF VoiceNext, VoiceStep

LEMMA SavedInductive == Undisturbed /\ TypeInv /\ FileInv /\ [Next]_vars => FileInv'
<1> SUFFICES ASSUME Undisturbed, TypeInv, FileInv, [Next]_vars PROVE FileInv'
  OBVIOUS
<1>s. StartInv'
  BY StartInductive DEF FileInv
<1>1. CASE Interrupt
  <2>1. UNCHANGED <<file, stray, image, pc>> /\ (cfg' = cfg \/ cfg'.status = "WRITE_READY")
    BY <1>1, InterruptDoes DEF InterruptEffect, fileVars
  <2> QED
    BY <2>1, <1>s DEF FileInv, NoneInv, LockInv, SavedInv, Writing, Unsettled
<1>2. CASE PowerLoss
  <2>1. /\ cfg'.status = "NONE" /\ pc'["voice"] = "read" /\ pc'["app"] = "boot"
        /\ stray' = stray
    BY <1>2 DEF PowerLoss, ZeroSettings
  <2>2. file' # Torn
    BY <1>2, FileAssumption
       DEF PowerLoss, LeftByPowerLoss, CutShort, Undisturbed, FileInv, LockInv
  <2> QED
    BY <2>1, <2>2, <1>s DEF FileInv, NoneInv, LockInv, SavedInv, Writing, Unsettled, Tasks
<1>3. CASE UNCHANGED vars
  BY <1>3, <1>s DEF vars, settingsVars, fileVars, FileInv, NoneInv, LockInv, SavedInv,
     Writing, Unsettled
<1> QED
  BY <1>1, <1>2, <1>3, SavedApp, SavedVoice DEF Next

\* Changes from the shell and the buttons may fall between any two steps of a
\* Save, both tasks may save at the same time, and power may fail between any
\* two steps: while nothing disturbs the Saves, a settled device has its settings
\* in its file.
THEOREM SettingsSaved ==
  ASSUME Undisturbed
  PROVE  Spec => []SettledIsSaved
<1>1. Init => TypeInv /\ UnsavedIsNoticed /\ FileInv
  <2> SUFFICES ASSUME Init PROVE TypeInv /\ UnsavedIsNoticed /\ FileInv
    OBVIOUS
  <2>1. /\ cfg.status = "NONE" /\ pc = [app |-> "boot", voice |-> "read"]
        /\ stray = None /\ file # Torn
    BY DemoAssumption DEF Init, SettingsInit, FileInit, ZeroSettings, Undisturbed
  <2> QED
    BY <2>1, InitTypes DEF UnsavedIsNoticed, FileInv, NoneInv, StartInv, LockInv, SavedInv,
       Writing, Unsettled, Tasks
<1>2. TypeInv /\ UnsavedIsNoticed /\ FileInv /\ [Next]_vars
        => (TypeInv /\ UnsavedIsNoticed /\ FileInv)'
  BY TypesInductive, UnsavedInductive, SavedInductive
<1>3. TypeInv /\ UnsavedIsNoticed /\ FileInv => SettledIsSaved
  <2> SUFFICES ASSUME TypeInv, UnsavedIsNoticed, FileInv, Settled
               PROVE  file \in Settings /\ SameSettings(file, cfg)
    BY DEF SettledIsSaved
  <2>1. cfg.status \in {"NONE", "WRITE_SUCCESS", "WRITE_READY"}
    BY DEF TypeInv, TypeOK, SettingsTypeOK, Settings
  <2>2. /\ pc["app"] \notin SaveSteps /\ pc["voice"] \notin SaveSteps
        /\ pc["voice"] \notin {"read", "defaults"}
    BY DEF Settled, VoiceBoot, SaveSteps
  <2>3. cfg.status = "WRITE_SUCCESS"
    BY <2>1, <2>2 DEF FileInv, NoneInv, UnsavedIsNoticed, Settled
  <2> QED
    BY <2>2, <2>3 DEF FileInv, SavedInv, Unsettled, Tasks
<1> QED
  BY <1>1, <1>2, <1>3, PTL DEF Spec

-----------------------------------------------------------------------------
(* Changes of the languages by the buttons *)

\* SW2 and the commands that leave asrCfg alone, on a device whose amplifier
\* starts after the engines.
ButtonsOnly ==
  /\ SlowStart
  /\ Commands \cap {"changeto", "multilingual", "ptt"} = {}

(***************************************************************************)
(* SW2 is refused from the moment it sets both bits to the moment both are *)
(* cleared; meanwhile the two tasks may each write back what the other has *)
(* just cleared, but never drop the bit of the languages before the new    *)
(* engines are installed.                                                  *)
(***************************************************************************)
ChangeInv ==
  /\ pc["voice"] \in VoiceBoot \cup SaveSteps => pc["app"] = "boot"
  /\ pc["voice"] \in {"clear", "load", "store"} => ww = Effective(cfg)
  /\ pc["voice"] \in {"load", "store"} => LANGUAGE_CHANGED \in cfg.asrCfg
  /\ pc["voice"] \in {"block", "listen", "count", "change"} =>
       LANGUAGE_CHANGED \in cfg.asrCfg \/ ww = Effective(cfg)
  /\ pc["app"] \in {"load", "store"} => ENGINE_CHANGED \in cfg.asrCfg
  /\ pc["app"] = "store" =>
       (LANGUAGE_CHANGED \in cfg.asrCfg => LANGUAGE_CHANGED \in loaded["app"])
  /\ pc["voice"] = "store" =>
       (ENGINE_CHANGED \in cfg.asrCfg => ENGINE_CHANGED \in loaded["voice"])

LEMMA EffectiveKept ==
  ASSUME NEW a \in Settings, NEW b \in Settings,
         a.demo = b.demo, a.multilingual = b.multilingual
  PROVE  Effective(a) = Effective(b)
BY DEF Effective

LEMMA EffectiveTwice ==
  ASSUME NEW a \in Settings
  PROVE  Effective([a EXCEPT !.multilingual = Effective(a)]) = Effective(a)
<1> DEFINE b == [a EXCEPT !.multilingual = Effective(a)]
<1>1. b.demo = a.demo /\ b.multilingual = Effective(a)
  BY DEF Settings
<1> HIDE DEF b
<1>2. Effective(b) = Effective(a)
  BY <1>1 DEF Effective
<1> QED
  BY <1>2 DEF b

\* What an interrupt does to the bits when only the buttons change the demo.
LEMMA ButtonsDo ==
  ASSUME ButtonsOnly, TypeInv, Interrupt
  PROVE  \/ cfg'.asrCfg = cfg.asrCfg /\ Effective(cfg') = Effective(cfg)
         \/ cfg.asrCfg = {} /\ cfg'.asrCfg = BothChanged /\ pc["app"] # "boot"
<1>t. cfg \in Settings /\ cfg' \in Settings
  BY InterruptDoes DEF TypeInv, TypeOK, SettingsTypeOK, InterruptEffect
<1>c. "changeto" \notin Commands /\ "multilingual" \notin Commands /\ "ptt" \notin Commands
  BY DEF ButtonsOnly
<1>e. ASSUME cfg'.demo = cfg.demo, cfg'.multilingual = cfg.multilingual
      PROVE  Effective(cfg') = Effective(cfg)
  BY <1>e, <1>t, EffectiveKept
<1> USE DEF Settings
<1>1. ASSUME NEW v \in Volumes, Volume(v) PROVE cfg'.asrCfg = cfg.asrCfg /\ Effective(cfg') = Effective(cfg)
  BY <1>1, <1>t, <1>e DEF Volume
<1>2. ASSUME NEW on \in BOOLEAN, FollowUp(on) PROVE cfg'.asrCfg = cfg.asrCfg /\ Effective(cfg') = Effective(cfg)
  BY <1>2, <1>t, <1>e DEF FollowUp
<1>3. ASSUME NEW on \in BOOLEAN, Mute(on) PROVE cfg'.asrCfg = cfg.asrCfg /\ Effective(cfg') = Effective(cfg)
  BY <1>3, <1>t, <1>e DEF Mute
<1>4. ASSUME NEW b \in Timeouts, Timeout(b) PROVE cfg'.asrCfg = cfg.asrCfg /\ Effective(cfg') = Effective(cfg)
  BY <1>4, <1>t, <1>e DEF Timeout
<1>5. CASE InvalidInput \/ SW1Change
  BY <1>5 DEF InvalidInput, SW1Change
<1>6. CASE pc["app"] # "boot" /\ SW2Press
  BY <1>6, <1>t DEF SW2Press
<1> QED
  BY <1>1, <1>2, <1>3, <1>4, <1>5, <1>6, <1>c, Interrupt
     DEF Interrupt, ShellCommand, Buttons, ChangeTo, Multilingual, PttOn, PttOff

LEMMA ChangeApp == ButtonsOnly /\ TypeInv /\ ChangeInv /\ AppNext => ChangeInv'
<1> SUFFICES ASSUME ButtonsOnly, TypeInv, ChangeInv, AppNext PROVE ChangeInv'
  OBVIOUS
<1>t. /\ pc \in [Tasks -> AppLabels \cup VoiceLabels] /\ "app" \in Tasks /\ "voice" \in Tasks
      /\ cfg \in Settings /\ loaded \in [Tasks -> SUBSET BothChanged]
  BY DEF TypeInv, TypeOK, SettingsTypeOK, FileTypeOK, Tasks
<1>v. pc'["voice"] = pc["voice"] /\ ww' = ww
  BY AppFrame
<1>q. ASSUME UNCHANGED <<cfg, loaded>>, pc["app"] # "boot",
             pc'["app"] \notin {"load", "store"}
      PROVE  ChangeInv'
  BY <1>q, <1>v DEF ChangeInv
<1>1. CASE AppBoot
  <2>1. pc["voice"] \notin VoiceBoot \cup SaveSteps
    BY <1>1 DEF AppBoot, ButtonsOnly
  <2>2. UNCHANGED <<cfg, loaded>> /\ pc'["app"] = "wait"
    BY <1>1, <1>t DEF AppBoot, Goto, settingsVars
  <2> QED
    BY <2>1, <2>2, <1>v DEF ChangeInv
<1>2. CASE AppWake
  BY <1>2, <1>t, <1>q DEF AppWake, Goto, settingsVars
<1>3. CASE AppMicUpdate
  BY <1>3, <1>t, <1>q DEF AppMicUpdate, Goto, settingsVars
<1>4. CASE AppVolumeUpdate
  BY <1>4, <1>t, <1>q DEF AppVolumeUpdate, Goto, settingsVars
<1>5. CASE AppClip
  BY <1>5, <1>t, <1>q DEF AppClip, Goto, settingsVars
<1>6. CASE AppOther
  BY <1>6, <1>t, <1>q DEF AppOther, Goto, settingsVars
<1>7. CASE AppEngine
  <2>1. UNCHANGED <<cfg, loaded>> /\ pc["app"] = "engine"
        /\ pc'["app"] = IF ENGINE_CHANGED \in cfg.asrCfg THEN "load" ELSE "status"
    BY <1>7, <1>t DEF AppEngine, Goto, settingsVars
  <2> QED
    BY <2>1, <1>v DEF ChangeInv
<1>8. CASE AppLoad
  <2>1. UNCHANGED cfg /\ pc["app"] = "load" /\ pc'["app"] = "store"
        /\ loaded'["app"] = cfg.asrCfg /\ loaded'["voice"] = loaded["voice"]
    BY <1>8, <1>t DEF AppLoad, Goto, settingsVars
  <2> QED
    BY <2>1, <1>v DEF ChangeInv
<1>9. CASE AppStore
  <2>1. /\ pc["app"] = "store" /\ pc'["app"] = "status"
        /\ cfg' = [cfg EXCEPT !.asrCfg = loaded["app"] \ {ENGINE_CHANGED}]
        /\ loaded'["voice"] = loaded["voice"]
    BY <1>9, <1>t DEF AppStore, Goto
  <2>2. cfg' \in Settings
    BY <2>1, <1>t, SetAsrCfg
  <2>3. cfg'.asrCfg = loaded["app"] \ {ENGINE_CHANGED} /\ Effective(cfg') = Effective(cfg)
    BY <2>1, <2>2, <1>t, EffectiveKept DEF Settings
  <2>4. /\ ENGINE_CHANGED \notin cfg'.asrCfg
        /\ LANGUAGE_CHANGED \in cfg.asrCfg => LANGUAGE_CHANGED \in cfg'.asrCfg
    BY <2>1, <2>3, ChangeAssumption DEF ChangeInv
  <2> QED
    BY <2>1, <2>3, <2>4, <1>v DEF ChangeInv
<1>10. CASE AppStatus
  <2>1. /\ UNCHANGED loaded /\ pc["app"] = "status" /\ pc'["app"] = "save"
        /\ cfg' = [cfg EXCEPT !.status = "WRITE_SUCCESS"]
    BY <1>10, <1>t DEF AppStatus, Goto
  <2>2. cfg' \in Settings
    BY <2>1, <1>t, SetStatus
  <2>3. cfg'.asrCfg = cfg.asrCfg /\ Effective(cfg') = Effective(cfg)
    BY <2>1, <2>2, <1>t, EffectiveKept DEF Settings
  <2> QED
    BY <2>1, <2>3, <1>v DEF ChangeInv
<1>11. CASE AppNothingToSave
  BY <1>11, <1>t, <1>q DEF AppNothingToSave, Goto, settingsVars
<1>12. CASE SaveStep("app") /\ UNCHANGED <<appVars, loaded, bypass>>
  <2>1. /\ UNCHANGED <<cfg, loaded>> /\ pc["app"] \in SaveSteps
        /\ pc'["app"] \in SaveSteps \cup {AfterSave("app")}
    BY <1>12, <1>t, SaveFrame
  <2> QED
    BY <2>1, <1>q DEF SaveSteps, AfterSave
<1> QED
  BY <1>1, <1>2, <1>3, <1>4, <1>5, <1>6, <1>7, <1>8, <1>9, <1>10, <1>11, <1>12, AppNext DEF AppNext, AppStep

LEMMA ChangeVoice == ButtonsOnly /\ TypeInv /\ ChangeInv /\ VoiceNext => ChangeInv'
<1> SUFFICES ASSUME ButtonsOnly, TypeInv, ChangeInv, VoiceNext PROVE ChangeInv'
  OBVIOUS
<1>t. /\ pc \in [Tasks -> AppLabels \cup VoiceLabels] /\ "app" \in Tasks /\ "voice" \in Tasks
      /\ cfg \in Settings /\ loaded \in [Tasks -> SUBSET BothChanged]
  BY DEF TypeInv, TypeOK, SettingsTypeOK, FileTypeOK, Tasks
<1>v. pc'["app"] = pc["app"]
  BY VoiceFrame
<1> DEFINE Listening == {"block", "listen", "count", "change"}
<1>q. ASSUME UNCHANGED <<cfg, loaded, ww>>,
             pc["voice"] \in Listening, pc'["voice"] \in Listening
      PROVE  ChangeInv'
  BY <1>q, <1>v DEF ChangeInv, VoiceBoot, SaveSteps
<1>i. ASSUME InitializeAsr
      PROVE  cfg'.asrCfg = cfg.asrCfg /\ ww' = Effective(cfg')
  BY <1>i, <1>t, EffectiveTwice DEF InitializeAsr, Settings
<1>a. ASSUME NEW v \in SUBSET BothChanged
      PROVE  /\ [cfg EXCEPT !.asrCfg = v].asrCfg = v
             /\ Effective([cfg EXCEPT !.asrCfg = v]) = Effective(cfg)
  <2> DEFINE b == [cfg EXCEPT !.asrCfg = v]
  <2>1. b \in Settings /\ b.asrCfg = v /\ b.demo = cfg.demo /\ b.multilingual = cfg.multilingual
    BY <1>t, SetAsrCfg DEF Settings
  <2> HIDE DEF b
  <2>2. Effective(b) = Effective(cfg)
    BY <2>1, <1>t, EffectiveKept
  <2> QED
    BY <2>1, <2>2 DEF b
<1>b. ASSUME pc["voice"] \in VoiceBoot \cup SaveSteps,
             pc'["voice"] \in {"defaults", "init"} \cup SaveSteps
      PROVE  ChangeInv'
  BY <1>b, <1>v DEF ChangeInv, VoiceBoot, SaveSteps
<1>1. CASE VoiceRead
  BY <1>1, <1>t, <1>b DEF VoiceRead, Goto, VoiceBoot
<1>2. CASE VoiceDefaults
  BY <1>2, <1>t, <1>b DEF VoiceDefaults, Goto, VoiceBoot, SaveSteps
<1>3. CASE VoiceInstall
  <2>1. pc["voice"] = "init" /\ pc'["voice"] = "clear" /\ InitializeAsr
    BY <1>3, <1>t DEF VoiceInstall, Goto
  <2> QED
    BY <2>1, <1>i, <1>v DEF ChangeInv, VoiceBoot, SaveSteps
<1>4. CASE VoiceClear
  <2>1. /\ pc["voice"] = "clear" /\ pc'["voice"] = "block" /\ UNCHANGED ww
        /\ cfg' = [cfg EXCEPT !.asrCfg = {}]
    BY <1>4, <1>t DEF VoiceClear, Goto, voiceVars
  <2>2. Effective(cfg') = Effective(cfg)
    BY <2>1, <1>a
  <2> QED
    BY <2>1, <2>2, <1>v DEF ChangeInv, VoiceBoot, SaveSteps
<1>5. CASE VoiceBypassed
  BY <1>5, <1>q DEF VoiceBypassed, settingsVars, voiceVars
<1>6. CASE VoiceBlock
  BY <1>6, <1>t, <1>q DEF VoiceBlock, Goto, settingsVars, voiceVars
<1>7. CASE VoicePushToTalk
  BY <1>7, <1>t, <1>q DEF VoicePushToTalk, Goto, settingsVars, voiceVars
<1>8. CASE VoiceNoWakeWord
  BY <1>8, <1>t, <1>q DEF VoiceNoWakeWord, Goto, settingsVars, voiceVars
<1>9. CASE VoiceCommand
  BY <1>9, <1>t, <1>q DEF VoiceCommand, Goto, settingsVars, voiceVars
<1>10. CASE VoiceNoCommand
  BY <1>10, <1>t, <1>q DEF VoiceNoCommand, Goto, settingsVars, voiceVars
<1>11. CASE VoiceCount
  BY <1>11, <1>t, <1>q DEF VoiceCount, Goto, settingsVars, voiceVars
<1>12. CASE VoiceReinstall
  <2>1. /\ pc["voice"] = "change" /\ pc'["voice"] = "load" /\ InitializeAsr
        /\ LANGUAGE_CHANGED \in cfg.asrCfg /\ UNCHANGED loaded
    BY <1>12, <1>t DEF VoiceReinstall, Goto
  <2> QED
    BY <2>1, <1>i, <1>v DEF ChangeInv, VoiceBoot, SaveSteps
<1>13. CASE VoiceNoChange
  BY <1>13, <1>t, <1>q DEF VoiceNoChange, Goto, settingsVars, voiceVars
<1>14. CASE VoiceLoad
  <2>1. /\ pc["voice"] = "load" /\ pc'["voice"] = "store" /\ UNCHANGED <<cfg, ww>>
        /\ loaded'["voice"] = cfg.asrCfg /\ loaded'["app"] = loaded["app"]
    BY <1>14, <1>t DEF VoiceLoad, Goto, settingsVars, voiceVars
  <2> QED
    BY <2>1, <1>v DEF ChangeInv, VoiceBoot, SaveSteps
<1>15. CASE VoiceStore
  <2>1. /\ pc["voice"] = "store" /\ pc'["voice"] = "block" /\ UNCHANGED ww
        /\ cfg' = [cfg EXCEPT !.asrCfg = loaded["voice"] \ {LANGUAGE_CHANGED}]
        /\ loaded'["app"] = loaded["app"]
    BY <1>15, <1>t DEF VoiceStore, Goto, voiceVars
  <2>2. loaded["voice"] \ {LANGUAGE_CHANGED} \in SUBSET BothChanged
    BY <1>t
  <2>3. /\ cfg'.asrCfg = loaded["voice"] \ {LANGUAGE_CHANGED}
        /\ Effective(cfg') = Effective(cfg)
    BY <2>1, <2>2, <1>a
  <2> QED
    BY <2>1, <2>3, <1>v, ChangeAssumption DEF ChangeInv, VoiceBoot, SaveSteps
<1>16. ASSUME NEW l \in Languages, VoiceWakeWord(l)
      PROVE  ChangeInv'
  BY <1>16, <1>t, <1>q DEF VoiceWakeWord, Goto
<1>17. CASE SaveStep("voice")
  <2>1. /\ pc["voice"] \in SaveSteps
        /\ pc'["voice"] \in SaveSteps \cup {AfterSave("voice")}
    BY <1>17, <1>t, SaveFrame
  <2> QED
    BY <2>1, <1>b DEF AfterSave
<1> QED
  BY <1>1, <1>2, <1>3, <1>4, <1>5, <1>6, <1>7, <1>8, <1>9, <1>10, <1>11, <1>12, <1>13, <1>14, <1>15, <1>16, <1>17, VoiceNext DEF VoiceNext, VoiceStep

\* When only SW2 changes the demo, no interleaving of presses with the two tasks
\* leaves the wake words of an earlier choice installed.
THEOREM ButtonsInstall == ButtonsOnly => (Spec => []SelectedIsInstalled)
<1> SUFFICES ASSUME ButtonsOnly PROVE Spec => []SelectedIsInstalled
  OBVIOUS
<1>1. Init => TypeInv /\ ChangeInv
  <2> SUFFICES ASSUME Init PROVE ChangeInv
    BY InitTypes
  <2>1. pc = [app |-> "boot", voice |-> "read"]
    BY DEF Init, FileInit
  <2> QED
    BY <2>1 DEF ChangeInv
<1>2. TypeInv /\ ChangeInv /\ [Next]_vars => (TypeInv /\ ChangeInv)'
  <2> SUFFICES ASSUME TypeInv, ChangeInv, [Next]_vars PROVE ChangeInv'
    BY TypesInductive
  <2>1. CASE Interrupt
    <3>1. UNCHANGED <<pc, loaded, ww>>
      BY <2>1 DEF Interrupt, voiceVars
    <3>2. CASE cfg'.asrCfg = cfg.asrCfg /\ Effective(cfg') = Effective(cfg)
      BY <3>1, <3>2 DEF ChangeInv
    <3>3. CASE cfg.asrCfg = {} /\ cfg'.asrCfg = BothChanged /\ pc["app"] # "boot"
      BY <3>1, <3>3 DEF ChangeInv, BothChanged, VoiceBoot, SaveSteps
    <3> QED
      BY <2>1, <3>2, <3>3, ButtonsDo
  <2>2. CASE PowerLoss
    BY <2>2 DEF PowerLoss, ChangeInv
  <2>3. CASE UNCHANGED vars
    BY <2>3 DEF vars, settingsVars, voiceVars, ChangeInv
  <2> QED
    BY <2>1, <2>2, <2>3, ChangeApp, ChangeVoice DEF Next
<1>3. ChangeInv => SelectedIsInstalled
  BY DEF ChangeInv, SelectedIsInstalled
<1> QED
  BY <1>1, <1>2, <1>3, PTL DEF Spec

=============================================================================
