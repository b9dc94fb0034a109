---------------------------- MODULE AudioCapture ----------------------------
(***************************************************************************)
(* The microphones and the echo reference with the two tasks that switch   *)
(* them: appTask, for the setting "mute" (main.c, kMicUpdate), and         *)
(* pdm_to_pcm_task, of a higher priority, for repairs.                     *)
(***************************************************************************)
EXTENDS Microphones

CONSTANTS
  Mutes,   \* whether the user mutes and unmutes
  Stalls,  \* whether a SAI may stop working
  Overlap  \* whether a mute may fall into a repair, a failure into a mute

ASSUME CaptureAssumption == {Mutes, Stalls, Overlap} \subseteq BOOLEAN

VARIABLES
  mute,    \* the setting
  update   \* appTask has been notified of it

vars == <<loopVars, events, pc, micVars, mute, update>>

TypeOK ==
  /\ LoopTypeOK
  /\ MicTypeOK
  /\ mute \in BOOLEAN
  /\ update \in BOOLEAN

Init ==
  /\ LoopInit
  /\ MicInit
  /\ mute = FALSE
  /\ update = FALSE

-----------------------------------------------------------------------------
\* appTask has carried out every command.
AppAtRest == At("app", "idle") /\ ~update

\* No repair is due or under way, nor an unmute, which raises one of its own:
\* the FIFO that overflowed after the last stop still has its error flag set.
Sound ==
  /\ At("pdm", "idle")
  /\ pc["app"] \notin {"on", "enable", "flagOn"}
  /\ "AMP_ERROR" \notin events
  /\ stalled = {}
  /\ ~(fifoError /\ s_LoopBackRunning)

\* The shell command, in the USB interrupt.
MuteCommand ==
  /\ Mutes
  /\ Overlap \/ Sound
  /\ mute' = ~mute
  /\ update' = TRUE
  /\ UNCHANGED <<loopVars, events, pc, micVars>>

\* kMicUpdate
AppMicUpdate ==
  /\ At("app", "idle")
  /\ update
  /\ update' = FALSE
  /\ Go("app", IF mute THEN "off" ELSE "on")
  /\ UNCHANGED <<loopVars, events, micVars, mute>>

\* pdm_to_pcm_task comes before appTask.
AppNext ==
  /\ Delayed("pdm") \/ (At("pdm", "idle") /\ events = {})
  /\ \/ AppMicUpdate
     \/ (MicsOff("app") \/ MicsOn("app")) /\ UNCHANGED <<mute, update>>

PdmNext == PdmStep /\ UNCHANGED <<mute, update>>

AmpIrq ==
  /\ SAI_UserRxIRQHandler
  /\ UNCHANGED <<pc, micVars, mute, update>>

MicDma == MicBlock /\ UNCHANGED <<mute, update>>

AmpDma == AmpBlock /\ UNCHANGED <<mute, update>>

\* External: a failure, of itself or after a stop.
Devices ==
  /\ \/ FifoError /\ UNCHANGED <<pc, micVars>> /\ (Overlap \/ AppAtRest \/ receives = 0)
     \/ Stalls /\ Stall /\ (Overlap \/ AppAtRest)
  /\ UNCHANGED <<mute, update>>

Next == AppNext \/ PdmNext \/ AmpIrq \/ MicDma \/ AmpDma \/ Devices \/ MuteCommand

Spec == Init /\ [][Next]_vars

Fairness ==
  /\ WF_vars(AppNext)
  /\ WF_vars(PdmNext)
  /\ WF_vars(AmpIrq)
  /\ WF_vars(MicDma)
  /\ WF_vars(AmpDma)

FairSpec == Spec /\ Fairness

-----------------------------------------------------------------------------
Switching == \E t \in Tasks : pc[t] \notin {"idle", "process"}

\* Once appTask has dealt with the last command and no repair goes on, the
\* microphones and g_micsOn, by which mics_off and mics_on decide whether they
\* do anything at all, are as the user has set them: no repair unmutes a muted
\* device and none is lost, a spurious one after an unmute included.
SwitchedAsSet ==
  ~update /\ ~Switching => micsRun = ~mute /\ g_micsOn = ~mute

\* The front end never pairs a microphone block with the wrong block of the
\* echo reference ("Mics and loopback should be kept in sync"): through mutes
\* and repairs u32AmpIndex keeps to the other half than the ping-pong tracker.
InSync ==
  [][heard' # heard /\ "amp" \notin stalled =>
       heard'.mic = Silence \/ heard'.amp = Old \/ heard'.mic = Succ(heard'.amp)]_vars

\* The front end gets every block of the microphones once and in order: after
\* a restart the tracker, s_pcmStream and the pending events leave nothing
\* that is taken for a new block.
BlocksInOrder ==
  [][heard' # heard =>
       \/ heard'.mic = Silence
       \/ heard'.mic = (IF heard.mic = Silence THEN 0 ELSE Succ(heard.mic))]_vars

\* A loopback that has stopped, for whatever reason, while the device is not
\* muted is started again: the error interrupt reaches pdm_to_pcm_task and its
\* repair is no no-op.
LoopbackRecovers == ~s_LoopBackRunning /\ ~mute ~> s_LoopBackRunning \/ mute

\* When nothing comes from either SAI any more, the timeout of
\* pdm_to_pcm_task brings the microphones back.
SilenceIsRepaired ==
  g_micsOn /\ ~Switching /\ ~MicsLive /\ ~AmpLive ~> MicsLive \/ mute

\* A muted device does not listen ("close mics and amp feedback loop", main.c).
MutedIsDeaf == mute /\ ~update /\ ~Switching => ~micsRun

=============================================================================
