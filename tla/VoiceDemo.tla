------------------------------ MODULE VoiceDemo ------------------------------
(***************************************************************************)
(* The voice demo: interrupts (shell and buttons), appTask and             *)
(* local_voice_task around the shared settings and their file.  The two    *)
(* tasks have the same priority and share the processor in time slices.    *)
(***************************************************************************)
EXTENDS AppTask, LocalVoice

CONSTANTS
  InitialFiles,  \* what the settings file may hold when the device is built
  PowerLosses    \* whether power may fail

ASSUME DemoAssumption ==
  /\ InitialFiles \subseteq Settings \cup {None, Broken, Torn}
  /\ \A saved \in InitialFiles \cap Settings : saved.timeout <= MaxSamples
  /\ ~TornPages => Torn \notin InitialFiles
  /\ PowerLosses \in BOOLEAN

vars == <<settingsVars, fileVars, pc, loaded, bypass, appVars, voiceVars>>

TypeOK ==
  /\ pc \in [Tasks -> AppLabels \cup VoiceLabels]
  /\ SettingsTypeOK /\ FileTypeOK /\ AppTypeOK /\ VoiceTypeOK

Init ==
  /\ SettingsInit
  /\ file \in InitialFiles
  /\ FileInit
  /\ AppInit
  /\ VoiceInit

AppNext == AppStep /\ UNCHANGED voiceVars

VoiceNext == VoiceStep /\ UNCHANGED appVars

\* The buttons work once appTask has called SWITCH_Init.
Buttons == pc["app"] # "boot" /\ (SW2Press \/ SW1Change)

Interrupt ==
  /\ ShellCommand \/ Buttons
  /\ UNCHANGED <<fileVars, pc, loaded, bypass, appVars, voiceVars>>

\* The file loses its entry when power fails in the compaction at the start,
\* before LocalVoice reads it, and its page when it fails in the program of it.
LeftByPowerLoss ==
  {file}
  \cup (IF pc = [app |-> "boot", voice |-> "read"] THEN {None, Broken} ELSE {})
  \cup (IF \E t \in Tasks : pc[t] = "program" THEN CutShort ELSE {})

\* The whole device starts anew; only the flash stays.
PowerLoss ==
  /\ PowerLosses
  /\ cfg' = ZeroSettings
  /\ notif' = NoNotification
  /\ sw1' = FALSE
  /\ image' = [t \in Tasks |-> ZeroSettings]
  /\ micsOn' = TRUE
  /\ pc' = [app |-> "boot", voice |-> "read"]
  /\ loaded' = [t \in Tasks |-> {}]
  /\ bypass' = 0
  /\ note' = {}
  /\ ampVolume' = 0
  /\ session' = "ENDED"
  /\ ww' = {}
  /\ cmd' = [lang |-> "EN", demo |-> "NONE", words |-> "led"]
  /\ samples' = 0
  /\ file' \in LeftByPowerLoss
  /\ UNCHANGED stray

Next == AppNext \/ VoiceNext \/ Interrupt \/ PowerLoss

Fairness == WF_vars(AppNext) /\ WF_vars(VoiceNext)

Spec == Init /\ [][Next]_vars

FairSpec == Spec /\ Fairness

-----------------------------------------------------------------------------
(* Safety *)

\* A change that has to be written is never left behind: appTask is notified
\* of it, or is before its check of the status, or the settings were just read
\* in this state and are about to be replaced by the defaults.
UnsavedIsNoticed ==
  cfg.status = "WRITE_READY" =>
    \/ notif.pending
    \/ pc["app"] \in {"act", "engine", "load", "store", "status"}
    \/ pc["voice"] = "defaults"

\* Nothing is on its way to the file.
Settled ==
  /\ ~notif.pending
  /\ pc["app"] = "wait"
  /\ pc["voice"] \notin VoiceBoot \cup SaveSteps

SameSettings(a, b) ==
  /\ a.volume = b.volume
  /\ a.mute = b.mute
  /\ a.timeout = b.timeout
  /\ a.followup = b.followup
  /\ a.demo = b.demo
  /\ a.ptt = b.ptt
  /\ Effective(a) = Effective(b)

\* Whatever order the changes, the Saves and the power losses came in, once
\* the device is settled its file holds the settings it works with: the mark
\* WRITE_SUCCESS set before the Save copies the structure, the two tasks' Saves,
\* the erase after an overflow and interrupted Saves notwithstanding.
SettledIsSaved == Settled => file \in Settings /\ SameSettings(file, cfg)

\* A session never starts with its waiting time used up, although the wake
\* word does not reset the counter.
FreshSession == session = "ENDED" => samples <= 1

\* Outside a change of language the wake words that are listened to are those
\* of the selected languages.
SelectedIsInstalled ==
  (pc["voice"] = "block" /\ LANGUAGE_CHANGED \notin cfg.asrCfg) =>
     ww = Effective(cfg)

\* Once its commands are carried out, a muted device has its microphones off.
MuteHolds == Settled /\ cfg.mute => ~micsOn

-----------------------------------------------------------------------------
(* Liveness *)

\* A session in which no more commands are heard ends: the device always comes
\* back to its wake words.
SessionEnds == <>[][~VoiceCommand]_vars => []<>(session = "ENDED")

\* A change of the languages reaches the engines, although two tasks clear their
\* bits of asrCfg without a lock.
ChangeIsInstalled ==
  (LANGUAGE_CHANGED \in cfg.asrCfg) ~> (ww = Effective(cfg))

\* A volume the user asked for ends up in flash, unless it is changed again.
VolumeIsSaved ==
  \A volume \in Volumes :
     (cfg.volume = volume /\ cfg.status = "WRITE_READY")
       ~> (cfg.volume # volume \/ (file \in Settings /\ file.volume = volume))

=============================================================================
