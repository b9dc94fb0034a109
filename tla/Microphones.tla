---------------------------- MODULE Microphones ----------------------------
(***************************************************************************)
(* The microphones: the DMA interrupt that fills the ping and the pong     *)
(* buffer in turn (sln_pdm_mic.c), pdm_to_pcm_task that converts them and  *)
(* wakes the audio front end, and pdm_to_pcm_mics_off and _on, which       *)
(* appTask calls to mute and pdm_to_pcm_task itself to repair.             *)
(* Two microphones on SAI1 (four concurrent languages, so no SAI2).        *)
(***************************************************************************)
EXTENDS AmpLoopback

CONSTANTS
  Silence,  \* a buffer that has been cleared
  Late      \* whether pdm_to_pcm_task may be late for a block

ASSUME MicrophonesAssumption == Late \in BOOLEAN /\ Silence \notin SomeBlock

VARIABLES
  pc,         \* where each task is in mics_off and mics_on
  g_micsOn,
  micsRun,    \* SAI1 and its DMA are on
  stalled,    \* external: of {"mics", "amp"}, the SAI that has stopped working
  micBlock,   \* the block that is being captured, modulo Blocks
  tracker,    \* pingPongTracker, modulo 2
  pdm,        \* g_Sai1PdmPingPong: the block in the ping and the pong buffer
  pcm,        \* s_pcmStream, likewise
  ampOut,     \* s_ampOutput, likewise
  ampIndex,   \* u32AmpIndex
  pre, post,  \* preProcessEvents, postProcessEvents without the MIC3 bits
  heard       \* what the front end last worked on, and a bit for each time

micVars == <<g_micsOn, micsRun, stalled, micBlock, tracker, pdm, pcm, ampOut,
             ampIndex, pre, post, heard>>

Tasks == {"app", "pdm"}

Labels == {"idle", "process", "off", "disable", "wait", "terminated",
           "disabled", "flagOff", "on", "enable", "flagOn"}

MicTypeOK ==
  /\ pc \in [Tasks -> Labels]
  /\ g_micsOn \in BOOLEAN
  /\ micsRun \in BOOLEAN
  /\ stalled \in SUBSET {"mics", "amp"}
  /\ micBlock \in SomeBlock
  /\ tracker \in 0..1
  /\ pdm \in [0..1 -> SomeBlock \cup {Silence}]
  /\ pcm \in [0..1 -> SomeBlock \cup {Silence}]
  /\ ampOut \in [0..1 -> SomeBlock \cup {Old}]
  /\ ampIndex \in 0..1
  /\ pre \in SUBSET AllEvents
  /\ post \in SUBSET {"PING", "PONG"}
  /\ heard \in [mic: SomeBlock \cup {Silence}, amp: SomeBlock \cup {Old}, bit: 0..1]

\* pdm_to_pcm_task has reached its loop.
MicInit ==
  /\ pc = [t \in Tasks |-> "idle"]
  /\ g_micsOn = TRUE
  /\ micsRun = TRUE
  /\ stalled = {}
  /\ micBlock = 0
  /\ tracker = 0
  /\ pdm = [i \in 0..1 |-> Silence]
  /\ pcm = [i \in 0..1 |-> Silence]
  /\ ampOut = [i \in 0..1 |-> Old]
  /\ ampIndex = 1
  /\ pre = {}
  /\ post = {}
  /\ heard = [mic |-> Silence, amp |-> Old, bit |-> 0]

-----------------------------------------------------------------------------
MicsLive == micsRun /\ "mics" \notin stalled

AmpLive == receiver /\ receives > 0 /\ ampIrq /\ "amp" \notin stalled

\* A task that delays in LoopbackDisable lets the others run.
Delayed(t) == pc[t] \in {"wait", "terminated"}

Interrupted == fifoError /\ ampIrq

\* The interrupt is served and pdm_to_pcm_task has done with the last blocks
\* before the next one comes.
InTime ==
  /\ ~Interrupted
  /\ Delayed("pdm") \/ (pc["pdm"] = "idle" /\ events = {})

\* Both devices start within one block and keep one pace, SAI1 first.
MicsTurn == ~AmpLive \/ micBlock # Succ(ampBlock)

AmpTurn == ~MicsLive \/ ampBlock # micBlock

Starting == \E t \in Tasks : pc[t] = "enable"

\* PDM_MIC_DmaCallback
MicBlock ==
  /\ MicsLive
  /\ MicsTurn
  /\ ~Starting
  /\ Late \/ InTime
  /\ pdm' = [pdm EXCEPT ![micBlock % 2] = micBlock]
  /\ micBlock' = Succ(micBlock)
  /\ events' = events \cup {IF tracker = 0 THEN "PING" ELSE "PONG"}
  /\ tracker' = 1 - tracker
  /\ UNCHANGED <<loopVars, pc, g_micsOn, micsRun, stalled, pcm, ampOut, ampIndex,
                 pre, post, heard>>

AmpBlock ==
  /\ AmpLive
  /\ AmpTurn
  /\ Late \/ InTime
  /\ RxCallback
  /\ UNCHANGED <<pc, micVars>>

\* External: a SAI stops working.
Stall ==
  /\ \/ MicsLive /\ stalled' = stalled \cup {"mics"}
     \/ AmpLive /\ stalled' = stalled \cup {"amp"}
  /\ UNCHANGED <<loopVars, events, pc, g_micsOn, micsRun, micBlock, tracker, pdm,
                 pcm, ampOut, ampIndex, pre, post, heard>>

-----------------------------------------------------------------------------
At(t, label) == pc[t] = label

Go(t, label) == pc' = [pc EXCEPT ![t] = label]

\* What a task does after mics_off: the repair goes on with mics_on.
AfterOff(t) == IF t = "pdm" THEN "on" ELSE "idle"

\* After the repair the rest of the events is worked on, if any is left.
AfterOn(t, rest) == IF t = "pdm" /\ rest # {} THEN "process" ELSE "idle"

AlreadyOff(t) ==
  /\ At(t, "off")
  /\ ~g_micsOn
  /\ Go(t, AfterOff(t))
  /\ UNCHANGED <<loopVars, events, micVars>>

\* Mutant: s_pcmStream keeps the last blocks.
StopMicsKeepStream(t) ==
  /\ At(t, "off")
  /\ g_micsOn
  /\ micsRun' = FALSE
  /\ tracker' = 0
  /\ Go(t, "disable")
  /\ UNCHANGED <<loopVars, events, g_micsOn, stalled, micBlock, pdm, pcm, ampOut,
                 ampIndex, pre, post, heard>>

StopMics(t) ==
  /\ At(t, "off")
  /\ g_micsOn
  /\ micsRun' = FALSE
  /\ tracker' = 0
  /\ pcm' = [i \in 0..1 |-> Silence]
  /\ Go(t, "disable")
  /\ UNCHANGED <<loopVars, events, g_micsOn, stalled, micBlock, pdm, ampOut,
                 ampIndex, pre, post, heard>>

LoopbackDisable(t) ==
  /\ \/ /\ At(t, "disable")
        /\ ScheduleStop
        /\ Go(t, IF s_LoopBackRunning THEN "wait" ELSE "disabled")
     \/ At(t, "wait") /\ s_LoopBackRunning /\ Terminate /\ Go(t, "terminated")
     \/ At(t, "wait") /\ ~s_LoopBackRunning /\ Go(t, "disabled") /\ UNCHANGED loopVars
     \/ At(t, "terminated") /\ Terminated /\ Go(t, "disabled")
     \/ At(t, "disabled") /\ Disable /\ Go(t, "flagOff")
  /\ UNCHANGED <<events, micVars>>

FlagOff(t) ==
  /\ At(t, "flagOff")
  /\ g_micsOn' = FALSE
  /\ Go(t, AfterOff(t))
  /\ UNCHANGED <<loopVars, events, micsRun, stalled, micBlock, tracker, pdm, pcm,
                 ampOut, ampIndex, pre, post, heard>>

AlreadyOn(t) ==
  /\ At(t, "on")
  /\ g_micsOn
  /\ Go(t, AfterOn(t, pre))
  /\ UNCHANGED <<loopVars, events, micVars>>

\* Mutant: u32AmpIndex goes on from where it was.
StartMicsKeepIndex(t) ==
  /\ At(t, "on")
  /\ ~g_micsOn
  /\ events' = {}
  /\ pre' = {}
  /\ post' = {}
  /\ ampOut' = [i \in 0..1 |-> Old]
  /\ pdm' = [i \in 0..1 |-> Silence]
  /\ micBlock' = 0
  /\ micsRun' = TRUE
  /\ stalled' = stalled \ {"mics"}
  /\ Go(t, "enable")
  /\ UNCHANGED <<loopVars, g_micsOn, tracker, pcm, ampIndex, heard>>

\* The events are forgotten and blocks counted anew: what s_ampOutput holds
\* from now on is old.
StartMics(t) ==
  /\ At(t, "on")
  /\ ~g_micsOn
  /\ events' = {}
  /\ pre' = {}
  /\ post' = {}
  /\ ampIndex' = 1
  /\ ampOut' = [i \in 0..1 |-> Old]
  /\ pdm' = [i \in 0..1 |-> Silence]
  /\ micBlock' = 0
  /\ micsRun' = TRUE
  /\ stalled' = stalled \ {"mics"}
  /\ Go(t, "enable")
  /\ UNCHANGED <<loopVars, g_micsOn, tracker, pcm, heard>>

EnableLoopback(t) ==
  /\ At(t, "enable")
  /\ LoopbackEnable
  /\ stalled' = IF s_LoopBackRunning THEN stalled ELSE stalled \ {"amp"}
  /\ Go(t, "flagOn")
  /\ UNCHANGED <<events, g_micsOn, micsRun, micBlock, tracker, pdm, pcm, ampOut,
                 ampIndex, pre, post, heard>>

\* Mutant: the flag is not set.
FlagOnForgotten(t) ==
  /\ At(t, "flagOn")
  /\ Go(t, AfterOn(t, pre))
  /\ UNCHANGED <<loopVars, events, micVars>>

FlagOn(t) ==
  /\ At(t, "flagOn")
  /\ g_micsOn' = TRUE
  /\ Go(t, AfterOn(t, pre))
  /\ UNCHANGED <<loopVars, events, micsRun, stalled, micBlock, tracker, pdm, pcm,
                 ampOut, ampIndex, pre, post, heard>>

MicsOff(t) == AlreadyOff(t) \/ StopMics(t) \/ LoopbackDisable(t) \/ FlagOff(t)

MicsOn(t) == AlreadyOn(t) \/ StartMics(t) \/ EnableLoopback(t) \/ FlagOn(t)

-----------------------------------------------------------------------------
\* An error of the loopback is repaired before the blocks are looked at.
PdmWake ==
  /\ At("pdm", "idle")
  /\ events # {}
  /\ pre' = events
  /\ events' = {}
  /\ Go("pdm", IF "AMP_ERROR" \in events THEN "off" ELSE "process")
  /\ UNCHANGED <<loopVars, g_micsOn, micsRun, stalled, micBlock, tracker, pdm, pcm,
                 ampOut, ampIndex, post, heard>>

\* Mutant: mics_on alone, which does nothing while the flag is set.
PdmTimeoutOnly ==
  /\ At("pdm", "idle")
  /\ At("app", "idle")
  /\ events = {}
  /\ ~MicsLive /\ ~AmpLive /\ ~Interrupted
  /\ g_micsOn
  /\ pre' = {}
  /\ Go("pdm", "on")
  /\ UNCHANGED <<loopVars, events, g_micsOn, micsRun, stalled, micBlock, tracker,
                 pdm, pcm, ampOut, ampIndex, post, heard>>

\* A second without any event.  mics_off and mics_on take less than that.
PdmTimeout ==
  /\ At("pdm", "idle")
  /\ At("app", "idle")
  /\ events = {}
  /\ ~MicsLive /\ ~AmpLive /\ ~Interrupted
  /\ g_micsOn
  /\ pre' = {}
  /\ Go("pdm", "off")
  /\ UNCHANGED <<loopVars, events, g_micsOn, micsRun, stalled, micBlock, tracker,
                 pdm, pcm, ampOut, ampIndex, post, heard>>

\* audio_processing_task, of the highest priority, runs as soon as it is
\* notified: at PING it takes the pong buffers, at PONG the ping buffers.
Hear(i) ==
  heard' = [mic |-> pcm'[i], amp |-> ampOut'[i], bit |-> 1 - heard.bit]

\* Mutant: the index is not turned back.
AmpIndexGrows == ampIndex + 1

NextAmpIndex == IF ampIndex >= 1 THEN 0 ELSE ampIndex + 1

\* One block is passed on; the other, if there is one, with the next event.
PdmProcess ==
  /\ At("pdm", "process")
  /\ IF "AMP_REFERENCE" \in pre
       THEN /\ ampOut' = [ampOut EXCEPT ![ampIndex] = ampData]
            /\ ampIndex' = NextAmpIndex
       ELSE UNCHANGED <<ampOut, ampIndex>>
  /\ pcm' = [i \in 0..1 |->
               IF (IF i = 0 THEN "PING" ELSE "PONG") \in pre THEN pdm[i] ELSE pcm[i]]
  /\ LET ready == post \cup (pre \cap {"PING", "PONG"})
     IN  \/ "PING" \in ready /\ Hear(1) /\ post' = ready \ {"PING"}
         \/ "PING" \notin ready /\ "PONG" \in ready /\ Hear(0) /\ post' = {}
         \/ ready = {} /\ post' = {} /\ UNCHANGED heard
  /\ pre' = {}
  /\ Go("pdm", "idle")
  /\ UNCHANGED <<loopVars, events, g_micsOn, micsRun, stalled, micBlock, tracker, pdm>>

PdmStep ==
  \/ PdmWake \/ PdmTimeout \/ PdmProcess
  \/ MicsOff("pdm") \/ MicsOn("pdm")

=============================================================================
