----------------------------- MODULE AppSettings -----------------------------
(***************************************************************************)
(* The settings of the voice demo (appAsrShellCommands) and everything     *)
(* that changes them from interrupt context: the handlers of the USB shell *)
(* (sln_shell.c) and the two push buttons (switch_callback and next_demo   *)
(* in main.c).                                                             *)
(*                                                                         *)
(* The shell is built without the OSA tasks, so a handler runs to its end  *)
(* inside the USB interrupt with interrupts disabled: it is one step that  *)
(* can fall between any two steps of the tasks.  The tasks that use these  *)
(* settings are AppTask and LocalVoice; VoiceDemo composes them.           *)
(***************************************************************************)
EXTENDS Naturals, FiniteSets

CONSTANTS
  Commands,        \* the inputs the environment uses, a subset of CommandNames
  DemoChoices,     \* demos asked for with "changeto"
  LanguageChoices, \* sets of languages asked for with "multilingual"
  Volumes,         \* volumes asked for with "volume"
  Timeouts         \* waiting times, in sample blocks, asked for with "timeout"

VARIABLES
  cfg,    \* appAsrShellCommands
  notif,  \* the notification value of appTask: [pending, bits]
  sw1     \* g_SW1Pressed

settingsVars == <<cfg, notif, sw1>>

CommandNames == {"changeto", "multilingual", "volume", "followup", "timeout",
                 "mute", "ptt", "invalid", "sw1", "sw2"}

Languages == {"EN", "ZH", "DE", "FR"}
ASR_ALL_LANG == Languages

\* IOT, ELEVATOR, AUDIO and WASH are treated alike; LED and DIALOGIC_1 are
\* English only and NORMAL (the "cmkuan" demo) is Chinese only.
GenericDemos == {"IOT", "ELEVATOR", "AUDIO", "WASH"}
EnglishDemos == {"LED", "DIALOGIC_1"}
Demos == GenericDemos \cup EnglishDemos \cup {"NORMAL"}

ASSUME SettingsAssumption ==
  /\ Commands \subseteq CommandNames
  /\ DemoChoices \subseteq Demos
  /\ LanguageChoices \subseteq SUBSET Languages
  /\ Volumes \subseteq 0..100
  /\ Timeouts \subseteq Nat

(***************************************************************************)
(* appTask is notified with eSetBits, but audio_processing_states_t counts *)
(* 0, 1, 2, ...: a value is the set of its binary digits and a second      *)
(* notification is merged into a pending one by union.                     *)
(***************************************************************************)
kWakeWordDetected == {}
kCommandLED       == {0}
kCommandDialog    == {1}
kCommandGeneric   == {0, 1}
kMicUpdate        == {2}
kVolumeUpdate     == {0, 2}
kTimeOut          == {1, 2}
kDefault          == {0, 1, 2}

NoNotification == [pending |-> FALSE, bits |-> {}]

Notified(value) == [pending |-> TRUE, bits |-> notif.bits \cup value]

CONSTANTS ENGINE_CHANGED, LANGUAGE_CHANGED  \* the two change bits of asrCfg

ASSUME ChangeAssumption == ENGINE_CHANGED # LANGUAGE_CHANGED

BothChanged == {ENGINE_CHANGED, LANGUAGE_CHANGED}

(***************************************************************************)
(* "NONE" is the zero the structure starts from.  The NO_CHANGE bit of     *)
(* asrCfg is never tested and left out.                                    *)
(***************************************************************************)
Settings ==
  [status : {"NONE", "WRITE_SUCCESS", "WRITE_READY"},
   asrCfg : SUBSET BothChanged,
   volume : 0..100,
   mute : BOOLEAN,
   timeout : Nat,
   followup : BOOLEAN,
   demo : Demos \cup {"NONE"},
   multilingual : SUBSET Languages,
   ptt : BOOLEAN]

ZeroSettings ==
  [status |-> "NONE", asrCfg |-> {}, volume |-> 0, mute |-> FALSE,
   timeout |-> 0, followup |-> FALSE, demo |-> "NONE", multilingual |-> {},
   ptt |-> FALSE]

SettingsTypeOK ==
  /\ cfg \in Settings
  /\ notif \in [pending : BOOLEAN, bits : SUBSET (0..2)]
  /\ sw1 \in BOOLEAN

SettingsInit ==
  /\ cfg = ZeroSettings
  /\ notif = NoNotification
  /\ sw1 = FALSE

-----------------------------------------------------------------------------
\* asrCfg is assigned here, not merged: a change that no task has dealt with
\* yet is forgotten.
ChangeTo(demo) ==
  /\ "changeto" \in Commands
  /\ IF demo \in GenericDemos
       THEN cfg' = [cfg EXCEPT !.demo = demo, !.status = "WRITE_READY",
                               !.asrCfg = {ENGINE_CHANGED}]
       ELSE cfg' = [cfg EXCEPT !.demo = demo, !.status = "WRITE_READY",
                               !.multilingual = IF demo = "NORMAL" THEN {"ZH"} ELSE {"EN"},
                               !.asrCfg = BothChanged]
  /\ notif' = Notified(kDefault)
  /\ UNCHANGED sw1

\* Where only English is allowed the assignment of English is overwritten by
\* the still empty local variable.
Multilingual(languages) ==
  /\ "multilingual" \in Commands
  /\ cfg' = [cfg EXCEPT
       !.multilingual = IF cfg.demo \in EnglishDemos \/ cfg.ptt THEN {} ELSE languages,
       !.status = "WRITE_READY",
       !.asrCfg = {LANGUAGE_CHANGED}]
  /\ notif' = Notified(kDefault)
  /\ UNCHANGED sw1

Volume(volume) ==
  /\ "volume" \in Commands
  /\ cfg' = [cfg EXCEPT !.volume = volume, !.status = "WRITE_READY"]
  /\ notif' = Notified(kVolumeUpdate)
  /\ UNCHANGED sw1

FollowUp(on) ==
  /\ "followup" \in Commands
  /\ cfg' = [cfg EXCEPT !.followup = on, !.status = "WRITE_READY"]
  /\ notif' = Notified(kDefault)
  /\ UNCHANGED sw1

Timeout(blocks) ==
  /\ "timeout" \in Commands
  /\ cfg' = [cfg EXCEPT !.timeout = blocks, !.status = "WRITE_READY"]
  /\ notif' = Notified(kDefault)
  /\ UNCHANGED sw1

Mute(on) ==
  /\ "mute" \in Commands
  /\ cfg' = [cfg EXCEPT !.mute = on, !.status = "WRITE_READY", !.ptt = @ /\ ~on]
  /\ notif' = Notified(kMicUpdate)
  /\ UNCHANGED sw1

PttOn ==
  /\ "ptt" \in Commands
  /\ ~cfg.mute
  /\ cfg' = [cfg EXCEPT !.ptt = TRUE, !.multilingual = {"EN"},
                        !.status = "WRITE_READY", !.asrCfg = {LANGUAGE_CHANGED}]
  /\ notif' = Notified(kMicUpdate)
  /\ UNCHANGED sw1

PttOff ==
  /\ "ptt" \in Commands
  /\ cfg' = [cfg EXCEPT !.ptt = FALSE, !.status = "WRITE_READY"]
  /\ notif' = Notified(kMicUpdate)
  /\ UNCHANGED sw1

\* changeto, multilingual and followup notify appTask even when they refuse
\* their argument.
InvalidInput ==
  /\ "invalid" \in Commands
  /\ notif' = Notified(kDefault)
  /\ UNCHANGED <<cfg, sw1>>

ShellCommand ==
  \/ \E demo \in DemoChoices : ChangeTo(demo)
  \/ \E languages \in LanguageChoices : Multilingual(languages)
  \/ \E volume \in Volumes : Volume(volume)
  \/ \E on \in BOOLEAN : FollowUp(on) \/ Mute(on)
  \/ \E blocks \in Timeouts : Timeout(blocks)
  \/ PttOn \/ PttOff \/ InvalidInput

-----------------------------------------------------------------------------
NextDemo ==
  CASE cfg.demo = "LED"        -> [demo |-> "IOT", multilingual |-> ASR_ALL_LANG]
    [] cfg.demo = "DIALOGIC_1" -> [demo |-> "LED", multilingual |-> {"EN"}]
    [] OTHER                   -> [demo |-> "DIALOGIC_1", multilingual |-> {"EN"}]

\* Mutant: a press is never ignored.
SW2PressAnyTime ==
  /\ "sw2" \in Commands
  /\ cfg' = [cfg EXCEPT !.demo = NextDemo.demo,
                        !.multilingual = NextDemo.multilingual,
                        !.status = "WRITE_READY",
                        !.asrCfg = BothChanged]
  /\ notif' = Notified(kDefault)
  /\ UNCHANGED sw1

\* SW2: a press is ignored until the last change of demo was dealt with.
SW2Press ==
  /\ "sw2" \in Commands
  /\ cfg.asrCfg = {}
  /\ cfg' = [cfg EXCEPT !.demo = NextDemo.demo,
                        !.multilingual = NextDemo.multilingual,
                        !.status = "WRITE_READY",
                        !.asrCfg = BothChanged]
  /\ notif' = Notified(kDefault)
  /\ UNCHANGED sw1

SW1Change ==
  /\ "sw1" \in Commands
  /\ sw1' \in BOOLEAN \ {sw1}
  /\ UNCHANGED <<cfg, notif>>

=============================================================================
