----------------------------- MODULE LocalVoice -----------------------------
(***************************************************************************)
(* local_voice_task (sln_local_voice.c): it loads the settings, installs   *)
(* the wake word and command engines, and then for every block of samples  *)
(* listens for a wake word or, in a session, for a command.  What a block  *)
(* contains is the environment's choice.                                   *)
(***************************************************************************)
EXTENDS SettingsFile

CONSTANTS
  WakeWords,       \* the languages whose wake word is ever said
  DefaultTimeout,  \* TIMEOUT_TIME_IN_MS, in sample blocks
  MaxSamples,      \* bound on sampleCount, in sample blocks
  TornSettings     \* what a page partly programmed may hold beside its status

ASSUME VoiceAssumption ==
  /\ WakeWords \subseteq Languages
  /\ DefaultTimeout \in Nat
  /\ MaxSamples \in Nat
  /\ \A blocks \in Timeouts \cup {DefaultTimeout} : blocks <= MaxSamples
  /\ \A torn \in TornSettings :
       torn \in Settings /\ torn.status = "WRITE_SUCCESS" /\ torn.timeout <= MaxSamples

VARIABLES
  session,  \* asrEvent: "STARTED" or "ENDED"
  ww,       \* the languages whose wake word engine is installed
  cmd,      \* the command engine: language, demo and table of words
  samples   \* sampleCount

voiceVars == <<session, ww, cmd, samples>>

VoiceLabels ==
  {"read", "defaults", "init", "clear", "block", "listen", "count", "change",
   "load", "store"} \cup SaveSteps

\* The steps of the dialogs; NORMAL and DIALOGIC_1 open them.
DialogSteps ==
  {"DIALOGIC_2_TEMPERATURE", "DIALOGIC_2_TIMER", "CONDITION", "TEMPERATURE",
   "FLOAT_NUM", "CONFIRM", "MEAL", "CONFIRM_MEAL"}

\* get_cmd_string has no table for the other pairs.
HasTable(language, demo) ==
  \/ demo \in GenericDemos
  \/ language = "EN" /\ demo \in EnglishDemos
  \/ language = "ZH" /\ demo = "NORMAL"

\* words: the table belongs to the engine ("own"), it is the default table
\* ("led"), or there is none ("NULL").
Engines ==
  [lang : Languages, demo : Demos \cup DialogSteps \cup {"NONE"},
   words : {"own", "led", "NULL"}]

VoiceTypeOK ==
  /\ session \in {"STARTED", "ENDED"}
  /\ ww \in SUBSET Languages
  /\ cmd \in Engines
  /\ samples \in 0..MaxSamples
  /\ pc["voice"] \in VoiceLabels

VoiceInit ==
  /\ session = "ENDED"
  /\ ww = {}
  /\ cmd = [lang |-> "EN", demo |-> "NONE", words |-> "led"]
  /\ samples = 0

DefaultSettings ==
  [status |-> "WRITE_SUCCESS", asrCfg |-> {}, volume |-> 55, mute |-> FALSE,
   timeout |-> DefaultTimeout, followup |-> FALSE, demo |-> "LED",
   multilingual |-> {"EN"}, ptt |-> FALSE]

-----------------------------------------------------------------------------
\* What the read leaves in the structure.  It copies an entry that does not
\* verify as well: one that was never programmed has no status (ZeroSettings
\* stands for it), one partly programmed may have it.
ReadInto ==
  CASE file = None   -> {cfg}
    [] file = Broken -> {ZeroSettings}
    [] file = Torn   -> {ZeroSettings} \cup TornSettings
    [] OTHER         -> {file}

\* The settings are accepted on their own status, not on that of the read.
VoiceRead ==
  /\ pc["voice"] = "read"
  /\ LockFree
  /\ cfg' \in ReadInto
  /\ Goto("voice", IF cfg'.status = "WRITE_SUCCESS" THEN "init" ELSE "defaults")
  /\ UNCHANGED <<notif, sw1, fileVars, voiceVars, loaded, bypass>>

VoiceDefaults ==
  /\ pc["voice"] = "defaults"
  /\ cfg' = DefaultSettings
  /\ Goto("voice", "save")
  /\ UNCHANGED <<notif, sw1, fileVars, voiceVars, loaded, bypass>>

\* The languages initialize_asr() settles on.
Effective(settings) ==
  IF settings.demo \in EnglishDemos \/ settings.multilingual = {}
    THEN {"EN"}
    ELSE settings.multilingual

\* initialize_asr(): the command engine gets its words at the next wake word.
InitializeAsr ==
  /\ cfg' = [cfg EXCEPT !.multilingual = Effective(cfg)]
  /\ ww' = Effective(cfg)
  /\ cmd' = [lang |-> "EN", demo |-> cfg.demo, words |-> "led"]

VoiceInstall ==
  /\ pc["voice"] = "init"
  /\ InitializeAsr
  /\ Goto("voice", "clear")
  /\ UNCHANGED <<notif, sw1, fileVars, session, samples, loaded, bypass>>

\* A change announced since the engines were installed is forgotten as well.
VoiceClear ==
  /\ pc["voice"] = "clear"
  /\ cfg' = [cfg EXCEPT !.asrCfg = {}]
  /\ Goto("voice", "block")
  /\ UNCHANGED <<notif, sw1, fileVars, voiceVars, loaded, bypass>>

-----------------------------------------------------------------------------
\* set_CMD_engine(): nothing happens when the language is not installed.
SetCmdEngine(language, demo, words) ==
  cmd' = IF language \in ww
           THEN [lang |-> language, demo |-> demo, words |-> words]
           ELSE cmd

Table(language, demo) == IF HasTable(language, demo) THEN "own" ELSE "NULL"

\* While a clip plays, a block is dropped before anything else is looked at.
VoiceBypassed ==
  /\ pc["voice"] = "block"
  /\ micsOn
  /\ bypass > 0
  /\ bypass' = bypass - 1
  /\ UNCHANGED <<settingsVars, fileVars, pc, voiceVars, loaded>>

PushToTalk == sw1 /\ session = "ENDED" /\ cfg.ptt

VoiceBlock ==
  /\ pc["voice"] = "block"
  /\ micsOn
  /\ bypass = 0
  /\ ~PushToTalk
  /\ Goto("voice", "listen")
  /\ UNCHANGED <<settingsVars, fileVars, voiceVars, loaded, bypass>>

VoicePushToTalk ==
  /\ pc["voice"] = "block"
  /\ micsOn
  /\ bypass = 0
  /\ PushToTalk
  /\ sw1' = FALSE
  /\ samples' = 0
  /\ SetCmdEngine("EN", cfg.demo, Table("EN", cfg.demo))
  /\ session' = "STARTED"
  /\ notif' = Notified(kWakeWordDetected)
  /\ Goto("voice", "listen")
  /\ UNCHANGED <<cfg, fileVars, ww, loaded, bypass>>

\* The counter of the waiting time is not touched here.
VoiceWakeWord(language) ==
  /\ pc["voice"] = "listen"
  /\ session = "ENDED"
  /\ ~cfg.ptt
  /\ language \in WakeWords \cap ww
  /\ session' = "STARTED"
  /\ IF cfg.demo \in EnglishDemos
       THEN SetCmdEngine("EN", cfg.demo, "own")
       ELSE SetCmdEngine(language, cfg.demo, Table(language, cfg.demo))
  /\ notif' = Notified(kWakeWordDetected)
  /\ Goto("voice", "change")
  /\ UNCHANGED <<cfg, sw1, fileVars, ww, samples, loaded, bypass>>

VoiceNoWakeWord ==
  /\ pc["voice"] = "listen"
  /\ session = "ENDED"
  /\ Goto("voice", "change")
  /\ UNCHANGED <<settingsVars, fileVars, voiceVars, loaded, bypass>>

(***************************************************************************)
(* What a command does, by the engine that heard it: the engine of the     *)
(* next question ("same" keeps it), the session after it (NONE leaves it   *)
(* to the follow-up setting) and the notification (NoNote is none).        *)
(***************************************************************************)
NoNote == {3}

Reply(to, event, value) == [to |-> to, event |-> event, value |-> value]

Finished == Reply("same", "ENDED", kCommandGeneric)

Ask(step) == Reply(step, "STARTED", NoNote)

Replies(demo) ==
  CASE demo = "LED" -> {Reply("same", "NONE", kCommandLED)}
    [] demo = "DIALOGIC_1" ->
         {Reply(step, "STARTED", kCommandDialog) :
            step \in {"DIALOGIC_2_TEMPERATURE", "DIALOGIC_2_TIMER"}}
    [] demo \in {"DIALOGIC_2_TEMPERATURE", "DIALOGIC_2_TIMER"} ->
         {Reply("same", "ENDED", kCommandDialog)}
    [] demo = "NORMAL"       -> {Ask("CONDITION"), Ask("MEAL"), Finished}
    [] demo = "CONDITION"    -> {Ask("TEMPERATURE")}
    [] demo = "TEMPERATURE"  -> {Ask("FLOAT_NUM")}
    [] demo = "FLOAT_NUM"    -> {Ask("CONFIRM")}
    [] demo = "CONFIRM"      -> {Ask("TEMPERATURE"), Finished}
    [] demo = "MEAL"         -> {Ask("CONFIRM_MEAL")}
    [] demo = "CONFIRM_MEAL" -> {Ask("MEAL"), Finished}
    [] OTHER                 -> {Reply("same", "NONE", kCommandGeneric)}

DialogLanguage(demo) == IF demo = "DIALOGIC_1" THEN "EN" ELSE "ZH"

VoiceCommand ==
  /\ pc["voice"] = "listen"
  /\ session = "STARTED"
  /\ samples' = 0
  /\ \E reply \in Replies(cmd.demo) :
       /\ session' = CASE reply.event # "NONE" -> reply.event
                       [] cfg.followup -> "STARTED"
                       [] OTHER -> "ENDED"
       /\ IF reply.to = "same"
            THEN UNCHANGED cmd
            ELSE SetCmdEngine(DialogLanguage(cmd.demo), reply.to, "own")
       /\ notif' = IF reply.value = NoNote THEN notif ELSE Notified(reply.value)
  /\ Goto("voice", "count")
  /\ UNCHANGED <<cfg, sw1, fileVars, ww, loaded, bypass>>

VoiceNoCommand ==
  /\ pc["voice"] = "listen"
  /\ session = "STARTED"
  /\ Goto("voice", "count")
  /\ UNCHANGED <<settingsVars, fileVars, voiceVars, loaded, bypass>>

\* Mutant: the waiting time is one block longer.
VoiceCountLate ==
  /\ pc["voice"] = "count"
  /\ IF samples > cfg.timeout
       THEN /\ samples' = 0
            /\ session' = "ENDED"
            /\ notif' = Notified(kTimeOut)
       ELSE /\ samples' = samples + 1
            /\ UNCHANGED <<session, notif>>
  /\ Goto("voice", "change")
  /\ UNCHANGED <<cfg, sw1, fileVars, ww, cmd, loaded, bypass>>

\* Mutant: the counter is not reset when the time is up.
VoiceCountKept ==
  /\ pc["voice"] = "count"
  /\ samples' = samples + 1
  /\ IF samples + 1 > cfg.timeout
       THEN session' = "ENDED" /\ notif' = Notified(kTimeOut)
       ELSE UNCHANGED <<session, notif>>
  /\ Goto("voice", "change")
  /\ UNCHANGED <<cfg, sw1, fileVars, ww, cmd, loaded, bypass>>

\* Mutant: the session goes on when the time is up.
VoiceCountGoesOn ==
  /\ pc["voice"] = "count"
  /\ samples' = IF samples + 1 > cfg.timeout THEN 0 ELSE samples + 1
  /\ UNCHANGED <<session, notif>>
  /\ Goto("voice", "change")
  /\ UNCHANGED <<cfg, sw1, fileVars, ww, cmd, loaded, bypass>>

\* A timeout reduced meanwhile is passed at once.
VoiceCount ==
  /\ pc["voice"] = "count"
  /\ IF samples + 1 > cfg.timeout
       THEN /\ samples' = 0
            /\ session' = "ENDED"
            /\ notif' = Notified(kTimeOut)
       ELSE /\ samples' = samples + 1
            /\ UNCHANGED <<session, notif>>
  /\ Goto("voice", "change")
  /\ UNCHANGED <<cfg, sw1, fileVars, ww, cmd, loaded, bypass>>

\* Mutant: the change is taken note of but the engines are kept.
VoiceReinstallNothing ==
  /\ pc["voice"] = "change"
  /\ LANGUAGE_CHANGED \in cfg.asrCfg
  /\ Goto("voice", "load")
  /\ UNCHANGED <<settingsVars, fileVars, voiceVars, loaded, bypass>>

\* The engines are installed anew; a session that is under way goes on.
VoiceReinstall ==
  /\ pc["voice"] = "change"
  /\ LANGUAGE_CHANGED \in cfg.asrCfg
  /\ InitializeAsr
  /\ Goto("voice", "load")
  /\ UNCHANGED <<notif, sw1, fileVars, session, samples, loaded, bypass>>

VoiceNoChange ==
  /\ pc["voice"] = "change"
  /\ LANGUAGE_CHANGED \notin cfg.asrCfg
  /\ Goto("voice", "block")
  /\ UNCHANGED <<settingsVars, fileVars, voiceVars, loaded, bypass>>

VoiceLoad ==
  /\ pc["voice"] = "load"
  /\ loaded' = [loaded EXCEPT !["voice"] = cfg.asrCfg]
  /\ Goto("voice", "store")
  /\ UNCHANGED <<settingsVars, fileVars, voiceVars, bypass>>

VoiceStore ==
  /\ pc["voice"] = "store"
  /\ cfg' = [cfg EXCEPT !.asrCfg = loaded["voice"] \ {LANGUAGE_CHANGED}]
  /\ loaded' = [loaded EXCEPT !["voice"] = {}]
  /\ Goto("voice", "block")
  /\ UNCHANGED <<notif, sw1, fileVars, voiceVars, bypass>>

VoiceStep ==
  \/ VoiceRead \/ VoiceDefaults \/ VoiceInstall \/ VoiceClear
  \/ VoiceBypassed \/ VoiceBlock \/ VoicePushToTalk
  \/ \E language \in Languages : VoiceWakeWord(language)
  \/ VoiceNoWakeWord \/ VoiceCommand \/ VoiceNoCommand \/ VoiceCount
  \/ VoiceReinstall \/ VoiceNoChange \/ VoiceLoad \/ VoiceStore
  \/ SaveStep("voice") /\ UNCHANGED <<voiceVars, loaded, bypass>>

=============================================================================
