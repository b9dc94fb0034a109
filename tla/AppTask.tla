------------------------------- MODULE AppTask -------------------------------
(***************************************************************************)
(* appTask (main.c): it waits for a notification, acts on it, announces a  *)
(* change of demo and writes changed settings to flash.                    *)
(***************************************************************************)
EXTENDS SettingsFile

CONSTANT SlowStart  \* LocalVoice has started before appTask is ready

ASSUME StartAssumption == SlowStart \in BOOLEAN

VARIABLES
  note,      \* taskNotification
  ampVolume  \* the volume the amplifier was last set to

appVars == <<note, ampVolume>>

AppLabels == {"boot", "wait", "act", "engine", "load", "store", "status"} \cup SaveSteps

VoiceBoot == {"read", "defaults", "init", "clear"}

AppTypeOK ==
  /\ note \in SUBSET (0..2)
  /\ ampVolume \in 0..100
  /\ pc["app"] \in AppLabels

AppInit ==
  /\ note = {}
  /\ ampVolume = 0

-----------------------------------------------------------------------------
\* Nothing orders this after LocalVoice has read the settings; SlowStart says
\* that the start of the amplifier takes longer.
AppBoot ==
  /\ pc["app"] = "boot"
  /\ SlowStart => pc["voice"] \notin VoiceBoot \cup SaveSteps
  /\ ampVolume' = cfg.volume
  /\ micsOn' = (micsOn /\ ~cfg.mute)
  /\ Goto("app", "wait")
  /\ UNCHANGED <<settingsVars, file, stray, image, note, loaded, bypass>>

AppWake ==
  /\ pc["app"] = "wait"
  /\ notif.pending
  /\ note' = notif.bits
  /\ notif' = NoNotification
  /\ Goto("app", "act")
  /\ UNCHANGED <<cfg, sw1, fileVars, ampVolume, loaded, bypass>>

AppMicUpdate ==
  /\ pc["app"] = "act"
  /\ note = kMicUpdate
  /\ micsOn' = ~cfg.mute
  /\ Goto("app", "engine")
  /\ UNCHANGED <<settingsVars, file, stray, image, appVars, loaded, bypass>>

\* Mutant: the pass of the loop ends here.
AppVolumeUpdateOnly ==
  /\ pc["app"] = "act"
  /\ note = kVolumeUpdate
  /\ ampVolume' = cfg.volume
  /\ Goto("app", "wait")
  /\ UNCHANGED <<settingsVars, fileVars, note, loaded, bypass>>

AppVolumeUpdate ==
  /\ pc["app"] = "act"
  /\ note = kVolumeUpdate
  /\ ampVolume' = cfg.volume
  /\ Goto("app", "engine")
  /\ UNCHANGED <<settingsVars, fileVars, note, loaded, bypass>>

\* audio_play_clip adds the length of the clip, which is never set when the
\* clip is not found, to a counter that LocalVoice counts down meanwhile.
AppClip ==
  /\ pc["app"] = "act"
  /\ note \in {kWakeWordDetected, kCommandLED, kCommandDialog, kCommandGeneric}
  /\ bypass' \in bypass..MaxBypass
  /\ Goto("app", "engine")
  /\ UNCHANGED <<settingsVars, fileVars, appVars, loaded>>

\* The timeout tone, and the value that has no case.
AppOther ==
  /\ pc["app"] = "act"
  /\ note \in {kTimeOut, kDefault}
  /\ Goto("app", "engine")
  /\ UNCHANGED <<settingsVars, fileVars, appVars, loaded, bypass>>

\* announce_demo(), if there is a change to announce.  The notification is not
\* looked at again before it is reset.
AppEngine ==
  /\ pc["app"] = "engine"
  /\ Goto("app", IF ENGINE_CHANGED \in cfg.asrCfg THEN "load" ELSE "status")
  /\ note' = {}
  /\ UNCHANGED <<settingsVars, fileVars, ampVolume, loaded, bypass>>

\* asrCfg &= ~ENGINE_CHANGED is a load, an and, and a store.
AppLoad ==
  /\ pc["app"] = "load"
  /\ loaded' = [loaded EXCEPT !["app"] = cfg.asrCfg]
  /\ Goto("app", "store")
  /\ UNCHANGED <<settingsVars, fileVars, appVars, bypass>>

AppStore ==
  /\ pc["app"] = "store"
  /\ cfg' = [cfg EXCEPT !.asrCfg = loaded["app"] \ {ENGINE_CHANGED}]
  /\ loaded' = [loaded EXCEPT !["app"] = {}]
  /\ Goto("app", "status")
  /\ UNCHANGED <<notif, sw1, fileVars, appVars, bypass>>

\* The structure is marked as written before Save copies it.
AppStatus ==
  /\ pc["app"] = "status"
  /\ cfg.status = "WRITE_READY"
  /\ cfg' = [cfg EXCEPT !.status = "WRITE_SUCCESS"]
  /\ Goto("app", "save")
  /\ UNCHANGED <<notif, sw1, fileVars, appVars, loaded, bypass>>

AppNothingToSave ==
  /\ pc["app"] = "status"
  /\ cfg.status # "WRITE_READY"
  /\ Goto("app", "wait")
  /\ UNCHANGED <<settingsVars, fileVars, appVars, loaded, bypass>>

AppStep ==
  \/ AppBoot \/ AppWake
  \/ AppMicUpdate \/ AppVolumeUpdate \/ AppClip \/ AppOther
  \/ AppEngine \/ AppLoad \/ AppStore
  \/ AppStatus \/ AppNothingToSave
  \/ SaveStep("app") /\ UNCHANGED <<appVars, loaded, bypass>>

=============================================================================
