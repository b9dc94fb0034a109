------------------------- MODULE AudioCaptureProofs -------------------------
(***************************************************************************)
(* Type correctness under every interleaving; the switching of the         *)
(* microphones when no mute falls into a repair and no failure into a mute *)
(* (~Overlap); the order of their blocks and the pairing with the echo     *)
(* reference when the blocks are also taken in time (~Late).               *)
(***************************************************************************)
EXTENDS AudioCapture, TLAPS

Stopping == {"disable", "wait", "terminated", "disabled", "flagOff"}
Starts   == {"on", "enable", "flagOn"}
Chain    == {"off"} \cup Stopping \cup Starts

-----------------------------------------------------------------------------
(***************************************************************************)
(* Switching.                                                              *)
(***************************************************************************)
\* The next error interrupt asks for a repair.
ErrorDue == s_LoopBackRunning /\ ~s_LoopBackStopScheduled /\ fifoError

\* A repair never runs into a mute; it may run into the end of an unmute.
Repairs ==
  pc["pdm"] \in Chain \/ "AMP_ERROR" \in events \/ ErrorDue =>
    ~mute /\ ~update /\ pc["app"] \in {"idle", "flagOn"}

\* What appTask is at is what the setting asks for, or asked for before the
\* command that is pending.
Commands ==
  /\ pc["app"] # "process"
  /\ pc["app"] \in {"off"} \cup Stopping => mute \/ update
  /\ pc["app"] \in Starts => ~mute /\ ~update
  /\ update \/ pc["app"] \in {"off"} \cup Stopping => stalled = {}

\* A loopback that runs has a transfer queued, and one that is being stopped
\* says so.
Loopback ==
  /\ s_LoopBackRunning /\ ~s_LoopBackStopScheduled => receives > 0
  /\ \A t \in Tasks : /\ pc[t] \in {"wait", "terminated"} => s_LoopBackStopScheduled
                      /\ pc[t] \in {"disabled", "flagOff", "enable"} => ~s_LoopBackRunning
  /\ ~g_micsOn /\ pc["app"] # "flagOn" /\ pc["pdm"] # "flagOn" => ~s_LoopBackRunning
  /\ ~g_micsOn /\ ("AMP_ERROR" \in events \/ pc["pdm"] \in {"off", "on"}) =>
       ~s_LoopBackRunning
  /\ pc["pdm"] = "enable" => "AMP_ERROR" \notin events

\* g_micsOn follows the microphones.
Flags ==
  /\ \A t \in Tasks : /\ pc[t] \in Stopping => g_micsOn /\ ~micsRun
                      /\ pc[t] \in {"enable", "flagOn"} =>
                           micsRun \/ pc["pdm"] \in Stopping \cup {"on"}
  /\ pc["app"] = "enable" => ~g_micsOn
  /\ pc["pdm"] \notin Chain /\ pc["app"] \in {"idle", "off", "on"} => (micsRun <=> g_micsOn)
  /\ pc["pdm"] = "off" => micsRun /\ (g_micsOn \/ pc["app"] = "flagOn")
  /\ pc["pdm"] \in {"on", "enable"} => ~g_micsOn

AsSet ==
  pc["app"] = "idle" /\ ~update /\ pc["pdm"] \notin Chain => (g_micsOn <=> ~mute)

SwitchInv == Repairs /\ Commands /\ Loopback /\ Flags /\ AsSet

-----------------------------------------------------------------------------
(***************************************************************************)
(* Blocks, when pdm_to_pcm_task is never late for one (~Late).             *)
(***************************************************************************)
Pred(block) == (block + 3) % Blocks

\* Blocks go to the two halves of a buffer in turn.
Half(block) == block % 2

MicDue == "PING" \in events \cup pre \/ "PONG" \in events \cup pre
AmpDue == "AMP_REFERENCE" \in events \cup pre

\* The blocks that pdm_to_pcm_task has dealt with end before these.
MicSeen == IF MicDue THEN Pred(micBlock) ELSE micBlock
AmpSeen == IF AmpDue THEN Pred(ampBlock) ELSE ampBlock

PcmSilent == pcm[0] = Silence /\ pcm[1] = Silence

Between == pc["pdm"] \in {"idle", "process"} /\ pc["app"] # "enable"

\* Nothing comes from the receiver of the loopback.
Deaf == ~ampIrq \/ ~receiver

\* Blocks are counted from 0 with empty buffers.
Fresh ==
  /\ micBlock = 0 /\ tracker = 0 /\ PcmSilent
  /\ ampIndex = 1 /\ ampOut[0] = Old /\ ampOut[1] = Old

\* Which events can be pending beside which step of a switch.
Events ==
  /\ pc["pdm"] \in {"idle", "enable", "flagOn"} => pre = {}
  /\ pc["pdm"] = "process" => "AMP_ERROR" \notin pre
  /\ pc["pdm"] # "idle" => "PING" \notin events /\ "PONG" \notin events
  /\ pc["pdm"] \in {"process", "enable", "flagOn"} => "AMP_REFERENCE" \notin events
  /\ pc["app"] = "enable" => pc["pdm"] = "idle" /\ events = {}
  /\ post = {}

\* A stopped or restarted stream holds nothing.
Restart ==
  /\ ~micsRun \/ pc["pdm"] = "on" => tracker = 0 /\ PcmSilent
  /\ ~micsRun => "PING" \notin events /\ "PONG" \notin events
  /\ ~micsRun /\ pc["pdm"] = "process" => ~MicDue
  /\ \A t \in Tasks : pc[t] = "enable" => Fresh
  /\ pc["pdm"] = "flagOn" => Fresh /\ ampBlock = 0

\* The loopback fails at most once while appTask is about to set g_micsOn, by
\* the error flag it was stopped with, and before any block has come.
Unmuting ==
  pc["app"] = "flagOn" =>
    /\ pc["pdm"] \notin Stopping
    /\ pc["pdm"] \in {"off", "on", "enable"} \/ "AMP_ERROR" \in events =>
         ~s_LoopBackRunning /\ ~receiver /\ ~fifoError
    /\ pc["pdm"] = "flagOn" \/ g_micsOn => ~fifoError /\ "AMP_ERROR" \notin events
    /\ g_micsOn => pc["pdm"] \in {"idle", "process"}
    /\ pc["pdm"] \in Chain \/ "AMP_ERROR" \in events \/ fifoError =>
         Fresh /\ pc["pdm"] # "process" /\ ~MicDue /\ events \subseteq {"AMP_ERROR"}

\* While the microphones are captured the loopback is received, or an error of
\* it is about to be repaired.
LoopbackLive ==
  /\ micsRun /\ (Between \/ pc["pdm"] = "flagOn") /\ "AMP_ERROR" \notin events =>
       s_LoopBackRunning /\ ~s_LoopBackStopScheduled /\ ~Deaf /\ receives > 0
  /\ s_LoopBackStopScheduled =>
       \E t \in Tasks : pc[t] \in {"wait", "terminated", "disabled"}
  /\ \A t \in Tasks : pc[t] \in {"flagOff", "enable"} => Deaf
  /\ pc["pdm"] = "on" => Deaf
  /\ ~micsRun /\ pc["app"] \in {"idle", "off", "on"} /\ pc["pdm"] \notin Chain => Deaf

\* The stream of the microphones, and what the front end has heard of it.
MicStream ==
  micsRun /\ Between =>
    /\ tracker = Half(micBlock)
    /\ MicDue => /\ ~AmpDue
                 /\ pdm[Half(Pred(micBlock))] = Pred(micBlock)
                 /\ "PING" \in events \cup pre <=> Half(Pred(micBlock)) = 0
                 /\ "PONG" \in events \cup pre <=> Half(Pred(micBlock)) = 1
    /\ \/ MicSeen = 0 /\ PcmSilent
       \/ /\ pcm[Half(Pred(MicSeen))] = Pred(MicSeen)
          /\ heard.mic = pcm[Half(MicSeen)]
          /\ \/ pcm[Half(MicSeen)] = Pred(Pred(MicSeen))
             \/ MicSeen = 1 /\ pcm[Half(MicSeen)] = Silence

\* The stream of the echo reference and its place beside the other.
AmpStream ==
  micsRun /\ Between =>
    /\ AmpDue => ampData = Pred(ampBlock)
    /\ ampIndex = 1 - Half(AmpSeen)
    /\ ampOut[Half(AmpSeen)] \in {Pred(AmpSeen), Old}
    /\ ampOut[1 - Half(AmpSeen)] \in {Pred(Pred(AmpSeen)), Old}
    /\ "amp" \notin stalled /\ ("mics" \notin stalled \/ MicDue) =>
         /\ micBlock = ampBlock \/ micBlock = Succ(ampBlock)
         /\ MicDue => micBlock = Succ(ampBlock)
         /\ AmpDue => micBlock = ampBlock

Streams == MicStream /\ AmpStream

ReceiveInv == Events /\ Restart /\ Unmuting /\ LoopbackLive

BlockInv == ReceiveInv /\ Streams

-----------------------------------------------------------------------------
(***************************************************************************)
(* Types.                                                                  *)
(***************************************************************************)
LEMMA SuccType == \A block \in SomeBlock : Succ(block) \in SomeBlock
  BY DEF SomeBlock, Succ, Blocks

LEMMA GoType ==
  ASSUME pc \in [Tasks -> Labels],
         NEW t \in Tasks, NEW label \in Labels, Go(t, label)
  PROVE  pc' \in [Tasks -> Labels]
  BY DEF Go

\* The labels after mics_off and mics_on.
LEMMA AfterType ==
  ASSUME NEW t
  PROVE  AfterOff(t) \in Labels /\ \A rest : AfterOn(t, rest) \in Labels
  BY DEF AfterOff, AfterOn, Labels

LEMMA InitTypes == Init => TypeOK
<1> SUFFICES ASSUME Init PROVE TypeOK
  OBVIOUS
<1>1. LoopTypeOK
  <2>1. /\ receives \in 0..4 /\ ampBlock \in SomeBlock
        /\ ampData \in SomeBlock \cup {Old} /\ events \in SUBSET AllEvents
    BY DEF Init, LoopInit, SomeBlock, Blocks
  <2>2. QED
    BY Zenon, <2>1 DEF Init, LoopInit, LoopTypeOK
<1>2. pc \in [Tasks -> Labels]
  BY DEF Init, MicInit, Labels
<1>3. /\ g_micsOn \in BOOLEAN /\ micsRun \in BOOLEAN
      /\ stalled \in SUBSET {"mics", "amp"}
      /\ micBlock \in SomeBlock /\ tracker \in 0..1 /\ ampIndex \in 0..1
      /\ pre \in SUBSET AllEvents /\ post \in SUBSET {"PING", "PONG"}
  BY DEF Init, MicInit, SomeBlock, Blocks
<1>4. /\ pdm \in [0..1 -> SomeBlock \cup {Silence}]
      /\ pcm \in [0..1 -> SomeBlock \cup {Silence}]
      /\ ampOut \in [0..1 -> SomeBlock \cup {Old}]
  BY DEF Init, MicInit
<1>5. heard \in [mic: SomeBlock \cup {Silence}, amp: SomeBlock \cup {Old}, bit: 0..1]
  BY DEF Init, MicInit
<1>6. QED
  BY <1>1, <1>2, <1>3, <1>4, <1>5 DEF Init, TypeOK, MicTypeOK

LEMMA MicsOffTypes ==
  ASSUME TypeOK, NEW t \in Tasks, MicsOff(t)
  PROVE  LoopTypeOK' /\ MicTypeOK'
<1> USE DEF TypeOK
<1>1. CASE AlreadyOff(t)
  <2>1. pc' \in [Tasks -> Labels]
    BY <1>1, AfterType, GoType DEF AlreadyOff, MicTypeOK
  <2>2. QED
    BY <1>1, <2>1 DEF AlreadyOff, loopVars, micVars, LoopTypeOK, MicTypeOK
<1>2. CASE StopMics(t)
  <2>1. pc' \in [Tasks -> Labels]
    BY <1>2, GoType DEF StopMics, MicTypeOK, Labels
  <2>2. QED
    <3>1. pcm' \in [0..1 -> SomeBlock \cup {Silence}]
      BY <1>2 DEF StopMics
    <3>2. micsRun' \in BOOLEAN
      BY Zenon, <1>2 DEF StopMics
    <3>3. QED
      BY <1>2, <2>1, <3>1, <3>2 DEF StopMics, loopVars, LoopTypeOK, MicTypeOK
<1>3. CASE LoopbackDisable(t)
  <2>1. pc' \in [Tasks -> Labels]
    BY <1>3, GoType DEF LoopbackDisable, MicTypeOK, Labels
  <2>2. LoopTypeOK'
    <3>0. UNCHANGED events
      BY Zenon, <1>3 DEF LoopbackDisable
    <3>1. CASE ScheduleStop
      BY <3>0, <3>1 DEF ScheduleStop, LoopTypeOK
    <3>2. CASE Terminate
      <4>1. receiver' \in BOOLEAN /\ fifoError' \in BOOLEAN
        BY Zenon, <3>2 DEF Terminate, TerminateReceive
      <4>2. QED
        BY <3>0, <3>2, <4>1 DEF Terminate, TerminateReceive, LoopTypeOK
    <3>3. CASE Terminated
      BY <3>0, <3>3 DEF Terminated, LoopTypeOK
    <3>4. CASE Disable
      BY <3>0, <3>4 DEF Disable, LoopTypeOK
    <3>5. CASE UNCHANGED loopVars
      BY <3>0, <3>5 DEF loopVars, LoopTypeOK
    <3>6. QED
      BY Zenon, <1>3, <3>1, <3>2, <3>3, <3>4, <3>5 DEF LoopbackDisable
  <2>3. QED
    BY <1>3, <2>1, <2>2 DEF LoopbackDisable, micVars, MicTypeOK
<1>4. CASE FlagOff(t)
  <2>1. pc' \in [Tasks -> Labels]
    BY <1>4, AfterType, GoType DEF FlagOff, MicTypeOK
  <2>2. QED
    BY <1>4, <2>1 DEF FlagOff, loopVars, micVars, LoopTypeOK, MicTypeOK
<1>5. QED
  BY Zenon, <1>1, <1>2, <1>3, <1>4 DEF MicsOff

LEMMA MicsOnTypes ==
  ASSUME TypeOK, NEW t \in Tasks, MicsOn(t)
  PROVE  LoopTypeOK' /\ MicTypeOK'
<1> USE DEF TypeOK
<1>1. CASE AlreadyOn(t)
  <2>1. pc' \in [Tasks -> Labels]
    BY <1>1, AfterType, GoType DEF AlreadyOn, MicTypeOK
  <2>2. QED
    BY <1>1, <2>1 DEF AlreadyOn, loopVars, micVars, LoopTypeOK, MicTypeOK
<1>2. CASE StartMics(t)
  <2>1. pc' \in [Tasks -> Labels]
    BY <1>2, GoType DEF StartMics, MicTypeOK, Labels
  <2>2. QED
    BY <1>2, <2>1
       DEF StartMics, loopVars, LoopTypeOK, MicTypeOK, SomeBlock, Blocks
<1>3. CASE EnableLoopback(t)
  <2>1. pc' \in [Tasks -> Labels]
    BY <1>3, GoType DEF EnableLoopback, MicTypeOK, Labels
  <2>2. LoopTypeOK'
    <3>1. /\ s_LoopBackRunning' = TRUE /\ ampIrq' = TRUE
          /\ UNCHANGED <<s_LoopBackStopScheduled, fifoError, ampData, events>>
      BY <1>3 DEF EnableLoopback, LoopbackEnable
    <3>2. CASE s_LoopBackRunning
      BY <1>3, <3>1, <3>2 DEF EnableLoopback, LoopbackEnable, LoopTypeOK
    <3>3. CASE ~s_LoopBackRunning
      <4>1. receives' \in 0..4 /\ ampBlock' \in SomeBlock /\ receiver' = TRUE
        BY <1>3, <3>3
           DEF EnableLoopback, LoopbackEnable, LoopTypeOK, SomeBlock, Blocks
      <4>2. QED
        BY <3>1, <4>1 DEF LoopTypeOK
    <3>4. QED
      BY Zenon, <3>2, <3>3
  <2>3. QED
    BY <1>3, <2>1, <2>2 DEF EnableLoopback, MicTypeOK
<1>4. CASE FlagOn(t)
  <2>1. pc' \in [Tasks -> Labels]
    BY <1>4, AfterType, GoType DEF FlagOn, MicTypeOK
  <2>2. QED
    BY <1>4, <2>1 DEF FlagOn, loopVars, micVars, LoopTypeOK, MicTypeOK
<1>5. QED
  BY Zenon, <1>1, <1>2, <1>3, <1>4 DEF MicsOn

LEMMA PdmTypes ==
  ASSUME TypeOK, PdmStep
  PROVE  LoopTypeOK' /\ MicTypeOK'
<1>0. "pdm" \in Tasks
  BY DEF Tasks
<1>1. CASE PdmWake
  <2>1. pc' \in [Tasks -> Labels]
    BY <1>0, <1>1, GoType DEF PdmWake, TypeOK, MicTypeOK, Labels
  <2>2. QED
    BY <1>1, <2>1 DEF PdmWake, loopVars, TypeOK, LoopTypeOK, MicTypeOK
<1>2. CASE PdmTimeout
  <2>1. pc' \in [Tasks -> Labels]
    BY <1>0, <1>2, GoType DEF PdmTimeout, TypeOK, MicTypeOK, Labels
  <2>2. QED
    BY <1>2, <2>1 DEF PdmTimeout, loopVars, TypeOK, LoopTypeOK, MicTypeOK
<1>3. CASE PdmProcess
  <2>1. pc' \in [Tasks -> Labels]
    BY <1>0, <1>3, GoType DEF PdmProcess, TypeOK, MicTypeOK, Labels
  <2>2. LoopTypeOK'
    BY <1>3 DEF PdmProcess, loopVars, TypeOK, LoopTypeOK
  <2>3. /\ ampOut' \in [0..1 -> SomeBlock \cup {Old}]
        /\ ampIndex' \in 0..1
    BY <1>3 DEF PdmProcess, NextAmpIndex, TypeOK, LoopTypeOK, MicTypeOK
  <2>4. pcm' \in [0..1 -> SomeBlock \cup {Silence}]
    BY <1>3 DEF PdmProcess, TypeOK, MicTypeOK
  <2>5. pre' \in SUBSET AllEvents /\ post' \in SUBSET {"PING", "PONG"}
    BY <1>3 DEF PdmProcess, TypeOK, MicTypeOK
  <2>6. heard' \in [mic: SomeBlock \cup {Silence}, amp: SomeBlock \cup {Old}, bit: 0..1]
    <3>1. heard.bit \in 0..1
      BY DEF TypeOK, MicTypeOK
    <3>2. \A i \in 0..1 : Hear(i) =>
            heard' \in [mic: SomeBlock \cup {Silence}, amp: SomeBlock \cup {Old}, bit: 0..1]
      BY <2>3, <2>4, <3>1 DEF Hear
    <3>3. \/ Hear(0) \/ Hear(1) \/ UNCHANGED heard
      BY Zenon, <1>3 DEF PdmProcess
    <3>4. QED
      BY <3>2, <3>3 DEF TypeOK, MicTypeOK
  <2>7. QED
    BY <1>3, <2>1, <2>2, <2>3, <2>4, <2>5, <2>6 DEF PdmProcess, TypeOK, MicTypeOK
<1>4. QED
  BY Zenon, <1>0, <1>1, <1>2, <1>3, MicsOffTypes, MicsOnTypes DEF PdmStep

LEMMA AppTypes ==
  ASSUME TypeOK, AppNext
  PROVE  TypeOK'
<1>0. "app" \in Tasks
  BY DEF Tasks
<1>1. CASE AppMicUpdate
  <2>1. pc' \in [Tasks -> Labels]
    BY <1>0, <1>1, GoType DEF AppMicUpdate, TypeOK, MicTypeOK, Labels
  <2>2. QED
    BY <1>1, <2>1
       DEF AppMicUpdate, loopVars, micVars, TypeOK, LoopTypeOK, MicTypeOK
<1>2. CASE (MicsOff("app") \/ MicsOn("app")) /\ UNCHANGED <<mute, update>>
  BY <1>0, <1>2, MicsOffTypes, MicsOnTypes DEF TypeOK
<1>3. QED
  BY Zenon, <1>1, <1>2 DEF AppNext

LEMMA IrqTypes ==
  ASSUME TypeOK, AmpIrq
  PROVE  TypeOK'
<1>1. MicTypeOK' /\ mute' \in BOOLEAN /\ update' \in BOOLEAN
  BY DEF AmpIrq, micVars, TypeOK, MicTypeOK
<1>2. UNCHANGED <<s_LoopBackStopScheduled, ampIrq, ampBlock, ampData>>
  BY DEF AmpIrq, SAI_UserRxIRQHandler
<1>3. s_LoopBackRunning' = FALSE
  BY DEF AmpIrq, SAI_UserRxIRQHandler
<1>4. /\ receives' \in 0..4 /\ receiver' \in BOOLEAN
      /\ fifoError' \in BOOLEAN /\ events' \in SUBSET AllEvents
  <2>1. CASE s_LoopBackRunning /\ ~s_LoopBackStopScheduled
    <3>1. TerminateReceive /\ events' = events \cup {"AMP_ERROR"}
      BY Zenon, <2>1 DEF AmpIrq, SAI_UserRxIRQHandler
    <3>2. receiver' \in BOOLEAN /\ fifoError' \in BOOLEAN
      BY Zenon, <3>1 DEF TerminateReceive
    <3>3. QED
      BY <3>1, <3>2 DEF TerminateReceive, AllEvents, TypeOK, LoopTypeOK
  <2>2. CASE ~(s_LoopBackRunning /\ ~s_LoopBackStopScheduled)
    <3>1. fifoError' = s_LoopBackRunning /\ UNCHANGED <<receives, receiver, events>>
      BY Zenon, <2>2 DEF AmpIrq, SAI_UserRxIRQHandler
    <3>2. fifoError' \in BOOLEAN
      BY Zenon, <3>1 DEF TypeOK, LoopTypeOK
    <3>3. QED
      BY <3>1, <3>2 DEF TypeOK, LoopTypeOK
  <2>3. QED
    BY Zenon, <2>1, <2>2
<1>5. QED
  BY <1>1, <1>2, <1>3, <1>4 DEF TypeOK, LoopTypeOK

LEMMA BlockTypes ==
  ASSUME TypeOK, MicBlock \/ AmpBlock, UNCHANGED <<mute, update>>
  PROVE  TypeOK'
<1>1. CASE MicBlock
  <2>1. pdm' \in [0..1 -> SomeBlock \cup {Silence}]
    BY <1>1 DEF MicBlock, TypeOK, MicTypeOK
  <2>2. tracker' \in 0..1
    BY <1>1 DEF MicBlock, TypeOK, MicTypeOK
  <2>3. micBlock' \in SomeBlock
    BY <1>1, SuccType DEF MicBlock, TypeOK, MicTypeOK
  <2>4. events' \in SUBSET AllEvents
    BY <1>1 DEF MicBlock, AllEvents, TypeOK, LoopTypeOK
  <2>5. UNCHANGED loopVars /\ UNCHANGED <<pc, g_micsOn, micsRun, stalled, pcm, ampOut>>
        /\ UNCHANGED <<ampIndex, pre, post, heard>>
    BY <1>1 DEF MicBlock
  <2>6. QED
    BY <2>1, <2>2, <2>3, <2>4, <2>5 DEF loopVars, TypeOK, LoopTypeOK, MicTypeOK
<1>2. CASE AmpBlock
  BY <1>2, SuccType
     DEF AmpBlock, RxCallback, micVars, AllEvents, TypeOK, LoopTypeOK, MicTypeOK
<1>3. QED
  BY <1>1, <1>2

LEMMA DeviceTypes ==
  ASSUME TypeOK, Devices
  PROVE  TypeOK'
  BY DEF Devices, FifoError, Stall, loopVars, micVars, TypeOK, LoopTypeOK, MicTypeOK

LEMMA StepTypes ==
  ASSUME TypeOK, [Next]_vars
  PROVE  TypeOK'
<1>1. CASE PdmNext
  BY Zenon, <1>1, PdmTypes DEF PdmNext, TypeOK
<1>2. CASE MuteCommand
  BY <1>2 DEF MuteCommand, loopVars, micVars, TypeOK, LoopTypeOK, MicTypeOK
<1>3. CASE UNCHANGED vars
  BY <1>3 DEF vars, loopVars, micVars, TypeOK, LoopTypeOK, MicTypeOK
<1>4. QED
  BY Zenon, <1>1, <1>2, <1>3, AppTypes, IrqTypes, BlockTypes, DeviceTypes
     DEF Next, MicDma, AmpDma

\* The counts and the buffers of the capture keep their ranges, in whatever
\* order interrupts, tasks, commands and failures come: the queue of the
\* receiver holds at most its four transfers, u32AmpIndex never leaves the
\* two halves of s_ampOutput.
THEOREM CaptureTypes == Spec => []TypeOK
<1>1. TypeOK /\ [Next]_vars => TypeOK'
  BY StepTypes
<1>2. QED
  BY <1>1, InitTypes, PTL DEF Spec

-----------------------------------------------------------------------------
(***************************************************************************)
(* Switching: one lemma per actor.                                         *)
(***************************************************************************)
LEMMA GoEffect ==
  ASSUME TypeOK, NEW t \in Tasks, NEW label, Go(t, label)
  PROVE  /\ pc'[t] = label
         /\ \A u \in Tasks \ {t} : pc'[u] = pc[u]
  BY DEF Go, TypeOK, MicTypeOK

LEMMA InitSwitch == Init => TypeOK /\ SwitchInv
<1> SUFFICES ASSUME Init PROVE SwitchInv
  BY InitTypes
<1>1. \A t \in Tasks : pc[t] = "idle"
  BY DEF Init, MicInit
<1>2. /\ s_LoopBackRunning /\ ~s_LoopBackStopScheduled /\ receives = 1 /\ ~fifoError
      /\ events = {} /\ stalled = {} /\ g_micsOn /\ micsRun /\ ~mute /\ ~update
  BY Zenon DEF Init, LoopInit, MicInit
<1>3. QED
  BY <1>1, <1>2 DEF SwitchInv, Repairs, Commands, Loopback, Flags, AsSet, ErrorDue,
     Chain, Stopping, Starts, Tasks

LEMMA MuteSwitch ==
  ASSUME ~Overlap, TypeOK, SwitchInv, MuteCommand
  PROVE  SwitchInv'
<1>1. /\ pc["pdm"] = "idle" /\ pc["app"] \notin Starts
      /\ "AMP_ERROR" \notin events /\ stalled = {} /\ ~(fifoError /\ s_LoopBackRunning)
  BY DEF MuteCommand, Sound, At, Starts
<1>2. /\ update'
      /\ UNCHANGED <<s_LoopBackRunning, s_LoopBackStopScheduled, receives, fifoError>>
      /\ UNCHANGED <<events, pc, g_micsOn, micsRun, stalled>>
  BY DEF MuteCommand, loopVars, micVars
<1>3. QED
  BY <1>1, <1>2 DEF SwitchInv, Repairs, Commands, Loopback, Flags, AsSet, ErrorDue,
     Chain, Stopping, Starts, Tasks

LEMMA IrqSwitch ==
  ASSUME TypeOK, SwitchInv, AmpIrq
  PROVE  SwitchInv'
<1>1. /\ fifoError /\ ~s_LoopBackRunning'
      /\ UNCHANGED <<s_LoopBackStopScheduled, pc, g_micsOn, micsRun, stalled>>
      /\ UNCHANGED <<mute, update>>
  BY DEF AmpIrq, SAI_UserRxIRQHandler, micVars
<1>2. "AMP_ERROR" \in events' => ErrorDue \/ "AMP_ERROR" \in events
  BY <1>1 DEF AmpIrq, SAI_UserRxIRQHandler, ErrorDue
<1>3. QED
  BY <1>1, <1>2 DEF SwitchInv, Repairs, Commands, Loopback, Flags, AsSet, ErrorDue,
     Chain, Stopping, Starts, Tasks

LEMMA UpdateSwitch ==
  ASSUME TypeOK, SwitchInv, AppMicUpdate
  PROVE  SwitchInv'
<1>1. pc["app"] = "idle" /\ update /\ ~update'
  BY DEF AppMicUpdate, At
<1>2. pc'["app"] = (IF mute THEN "off" ELSE "on") /\ pc'["pdm"] = pc["pdm"]
  BY GoEffect DEF AppMicUpdate, Tasks
<1>3. /\ UNCHANGED <<s_LoopBackRunning, s_LoopBackStopScheduled, receives, fifoError>>
      /\ UNCHANGED <<events, g_micsOn, micsRun, stalled, mute>>
  BY DEF AppMicUpdate, loopVars, micVars
<1>4. QED
  BY <1>1, <1>2, <1>3
     DEF SwitchInv, Repairs, Commands, Loopback, Flags, AsSet, ErrorDue, Chain,
         Stopping, Starts, Tasks

\* A block changes nothing that decides a switch but the count of transfers,
\* and that only while a stop is scheduled.
LEMMA BlockSwitch ==
  ASSUME TypeOK, SwitchInv, MicBlock \/ AmpBlock, UNCHANGED <<mute, update>>
  PROVE  SwitchInv'
<1>1. /\ UNCHANGED <<s_LoopBackRunning, s_LoopBackStopScheduled, fifoError>>
      /\ UNCHANGED <<pc, g_micsOn, micsRun, stalled>>
  BY DEF MicBlock, AmpBlock, RxCallback, loopVars, micVars
<1>2. ~s_LoopBackStopScheduled => UNCHANGED receives
  BY DEF MicBlock, AmpBlock, RxCallback, loopVars
<1>3. "AMP_ERROR" \in events' => "AMP_ERROR" \in events
  BY DEF MicBlock, AmpBlock, RxCallback
<1>4. QED
  BY <1>1, <1>2, <1>3 DEF SwitchInv, Repairs, Commands, Loopback, Flags, AsSet,
     ErrorDue, Chain, Stopping, Starts, Tasks

LEMMA DeviceSwitch ==
  ASSUME ~Overlap, TypeOK, SwitchInv, Devices
  PROVE  SwitchInv'
<1>1. /\ UNCHANGED <<s_LoopBackRunning, s_LoopBackStopScheduled, receives, events>>
      /\ UNCHANGED <<pc, g_micsOn, micsRun, mute, update>>
  BY DEF Devices, FifoError, Stall, loopVars, micVars
<1>2. CASE FifoError /\ UNCHANGED <<pc, micVars>> /\ (AppAtRest \/ receives = 0)
  BY <1>1, <1>2 DEF AppAtRest, At, micVars, SwitchInv, Repairs, Commands, Loopback,
     Flags, AsSet, ErrorDue, Chain, Stopping, Starts, Tasks
<1>3. CASE Stall /\ AppAtRest
  BY <1>1, <1>3 DEF AppAtRest, At, Stall, loopVars, SwitchInv, Repairs, Commands,
     Loopback, Flags, AsSet, ErrorDue, Chain, Stopping, Starts, Tasks
<1>4. QED
  BY Zenon, <1>2, <1>3 DEF Devices

\* SLN_AMP_LoopbackDisable by what matters to a switch.
DisableStep(t) ==
  \/ /\ pc[t] = "disable"
     /\ pc'[t] = IF s_LoopBackRunning THEN "wait" ELSE "disabled"
     /\ s_LoopBackStopScheduled'
     /\ UNCHANGED <<s_LoopBackRunning, receives, fifoError>>
  \/ /\ pc[t] = "wait" /\ s_LoopBackRunning
     /\ pc'[t] = "terminated"
     /\ ~fifoError'
     /\ UNCHANGED <<s_LoopBackRunning, s_LoopBackStopScheduled>>
  \/ /\ pc[t] = "wait" /\ ~s_LoopBackRunning
     /\ pc'[t] = "disabled"
     /\ UNCHANGED <<s_LoopBackRunning, s_LoopBackStopScheduled, receives, fifoError>>
  \/ /\ pc[t] = "terminated"
     /\ pc'[t] = "disabled"
     /\ ~s_LoopBackRunning'
     /\ UNCHANGED <<s_LoopBackStopScheduled, receives, fifoError>>
  \/ /\ pc[t] = "disabled"
     /\ pc'[t] = "flagOff"
     /\ ~s_LoopBackStopScheduled'
     /\ UNCHANGED <<s_LoopBackRunning, receives, fifoError>>

LEMMA DisableEffect ==
  ASSUME TypeOK, NEW t \in Tasks, LoopbackDisable(t)
  PROVE  /\ DisableStep(t)
         /\ \A u \in Tasks \ {t} : pc'[u] = pc[u]
         /\ UNCHANGED <<events, g_micsOn, micsRun, stalled>>
<1>1. UNCHANGED <<events, g_micsOn, micsRun, stalled>>
  BY DEF LoopbackDisable, micVars
<1>2. CASE /\ At(t, "disable")
           /\ ScheduleStop
           /\ Go(t, IF s_LoopBackRunning THEN "wait" ELSE "disabled")
  BY <1>1, <1>2, GoEffect DEF At, ScheduleStop, DisableStep
<1>3. CASE At(t, "wait") /\ s_LoopBackRunning /\ Terminate /\ Go(t, "terminated")
  BY <1>1, <1>3, GoEffect DEF At, Terminate, TerminateReceive, DisableStep
<1>4. CASE At(t, "wait") /\ ~s_LoopBackRunning /\ Go(t, "disabled") /\ UNCHANGED loopVars
  BY <1>1, <1>4, GoEffect DEF At, loopVars, DisableStep
<1>5. CASE At(t, "terminated") /\ Terminated /\ Go(t, "disabled")
  BY <1>1, <1>5, GoEffect DEF At, Terminated, DisableStep
<1>6. CASE At(t, "disabled") /\ Disable /\ Go(t, "flagOff")
  BY <1>1, <1>6, GoEffect DEF At, Disable, DisableStep
<1>7. QED
  BY Zenon, <1>2, <1>3, <1>4, <1>5, <1>6 DEF LoopbackDisable

\* appTask mutes: no repair is due or under way.
LEMMA AppOffSwitch ==
  ASSUME TypeOK, SwitchInv, MicsOff("app"), UNCHANGED <<mute, update>>,
         Delayed("pdm") \/ (At("pdm", "idle") /\ events = {})
  PROVE  SwitchInv'
<1>1. pc["pdm"] \in {"wait", "terminated"} \/ (pc["pdm"] = "idle" /\ events = {})
  BY DEF Delayed, At
<1>2. CASE AlreadyOff("app")
  <2>1. /\ pc["app"] = "off"
        /\ ~g_micsOn
        /\ UNCHANGED <<s_LoopBackRunning, s_LoopBackStopScheduled, receives, fifoError>>
        /\ UNCHANGED <<events, g_micsOn, micsRun, stalled>>
    BY <1>2 DEF AlreadyOff, At, loopVars, micVars
  <2>2. pc'["app"] = AfterOff("app") /\ pc'["pdm"] = pc["pdm"]
    BY <1>2, GoEffect DEF AlreadyOff, Tasks
  <2>3. QED
    BY <1>1, <2>1, <2>2 DEF SwitchInv, Repairs, Commands, Loopback,
       Flags, AsSet, ErrorDue, Chain, Stopping, Starts, Tasks, AfterOff
<1>3. CASE StopMics("app")
  <2>1. /\ pc["app"] = "off"
        /\ g_micsOn /\ ~micsRun'
        /\ UNCHANGED <<s_LoopBackRunning, s_LoopBackStopScheduled, receives, fifoError>>
        /\ UNCHANGED <<events, g_micsOn, stalled>>
    BY <1>3 DEF StopMics, At, loopVars
  <2>2. pc'["app"] = "disable" /\ pc'["pdm"] = pc["pdm"]
    BY <1>3, GoEffect DEF StopMics, Tasks
  <2>3. QED
    BY <1>1, <2>1, <2>2 DEF SwitchInv, Repairs, Commands, Loopback,
       Flags, AsSet, ErrorDue, Chain, Stopping, Starts, Tasks
<1>4. CASE LoopbackDisable("app")
  BY <1>4, <1>1, DisableEffect
     DEF DisableStep, SwitchInv, Repairs, Commands, Loopback, Flags, AsSet,
         ErrorDue, Chain, Stopping, Starts, Tasks
<1>5. CASE FlagOff("app")
  <2>1. /\ pc["app"] = "flagOff"
        /\ ~g_micsOn'
        /\ UNCHANGED <<s_LoopBackRunning, s_LoopBackStopScheduled, receives, fifoError>>
        /\ UNCHANGED <<events, micsRun, stalled>>
    BY <1>5 DEF FlagOff, At, loopVars
  <2>2. pc'["app"] = AfterOff("app") /\ pc'["pdm"] = pc["pdm"]
    BY <1>5, GoEffect DEF FlagOff, Tasks
  <2>3. QED
    BY <1>1, <2>1, <2>2 DEF SwitchInv, Repairs, Commands, Loopback,
       Flags, AsSet, ErrorDue, Chain, Stopping, Starts, Tasks, AfterOff
<1>6. QED
  BY Zenon, <1>2, <1>3, <1>4, <1>5 DEF MicsOff

\* appTask unmutes; a repair may begin only when it is about to set the flag.
LEMMA AppOnSwitch ==
  ASSUME TypeOK, SwitchInv, MicsOn("app"), UNCHANGED <<mute, update>>,
         Delayed("pdm") \/ (At("pdm", "idle") /\ events = {})
  PROVE  SwitchInv'
<1>1. pc["pdm"] \in {"wait", "terminated"} \/ (pc["pdm"] = "idle" /\ events = {})
  BY DEF Delayed, At
<1>2. CASE AlreadyOn("app")
  <2>1. /\ pc["app"] = "on"
        /\ g_micsOn
        /\ UNCHANGED <<s_LoopBackRunning, s_LoopBackStopScheduled, receives, fifoError>>
        /\ UNCHANGED <<events, g_micsOn, micsRun, stalled>>
    BY <1>2 DEF AlreadyOn, At, loopVars, micVars
  <2>2. pc'["app"] = AfterOn("app", pre) /\ pc'["pdm"] = pc["pdm"]
    BY <1>2, GoEffect DEF AlreadyOn, Tasks
  <2>3. QED
    BY <1>1, <2>1, <2>2 DEF SwitchInv, Repairs, Commands, Loopback,
       Flags, AsSet, ErrorDue, Chain, Stopping, Starts, Tasks, AfterOn
<1>3. CASE StartMics("app")
  <2>1. /\ pc["app"] = "on"
        /\ ~g_micsOn /\ micsRun' /\ events' = {} /\ stalled' \subseteq stalled
        /\ UNCHANGED <<s_LoopBackRunning, s_LoopBackStopScheduled, receives, fifoError>>
        /\ UNCHANGED g_micsOn
    BY <1>3 DEF StartMics, At, loopVars
  <2>2. pc'["app"] = "enable" /\ pc'["pdm"] = pc["pdm"]
    BY <1>3, GoEffect DEF StartMics, Tasks
  <2>3. QED
    BY <1>1, <2>1, <2>2 DEF SwitchInv, Repairs, Commands, Loopback,
       Flags, AsSet, ErrorDue, Chain, Stopping, Starts, Tasks
<1>4. CASE EnableLoopback("app")
  <2>1. pc["app"] = "enable" /\ ~s_LoopBackRunning /\ s_LoopBackRunning'
    BY <1>4 DEF EnableLoopback, LoopbackEnable, At, SwitchInv, Loopback, Tasks
  <2>2. receives' > 0 /\ stalled' \subseteq stalled
    BY <1>4, <2>1 DEF EnableLoopback, LoopbackEnable, TypeOK, LoopTypeOK
  <2>3. pc'["app"] = "flagOn" /\ pc'["pdm"] = pc["pdm"]
    BY <1>4, GoEffect DEF EnableLoopback, Tasks
  <2>4. /\ UNCHANGED <<s_LoopBackStopScheduled, fifoError>>
        /\ UNCHANGED <<events, g_micsOn, micsRun>>
    BY <1>4 DEF EnableLoopback, LoopbackEnable
  <2>5. QED
    BY <1>1, <2>1, <2>2, <2>3, <2>4 DEF SwitchInv, Repairs, Commands, Loopback,
       Flags, AsSet, ErrorDue, Chain, Stopping, Starts, Tasks
<1>5. CASE FlagOn("app")
  <2>1. /\ pc["app"] = "flagOn"
        /\ g_micsOn'
        /\ UNCHANGED <<s_LoopBackRunning, s_LoopBackStopScheduled, receives, fifoError>>
        /\ UNCHANGED <<events, micsRun, stalled>>
    BY <1>5 DEF FlagOn, At, loopVars
  <2>2. pc'["app"] = AfterOn("app", pre) /\ pc'["pdm"] = pc["pdm"]
    BY <1>5, GoEffect DEF FlagOn, Tasks
  <2>3. QED
    BY <1>1, <2>1, <2>2 DEF SwitchInv, Repairs, Commands, Loopback,
       Flags, AsSet, ErrorDue, Chain, Stopping, Starts, Tasks, AfterOn
<1>6. QED
  BY Zenon, <1>2, <1>3, <1>4, <1>5 DEF MicsOn

\* pdm_to_pcm_task repairs, first half.
LEMMA PdmOffSwitch ==
  ASSUME TypeOK, SwitchInv, MicsOff("pdm"), UNCHANGED <<mute, update>>
  PROVE  SwitchInv'
<1>1. CASE AlreadyOff("pdm")
  <2>1. /\ pc["pdm"] = "off"
        /\ ~g_micsOn
        /\ UNCHANGED <<s_LoopBackRunning, s_LoopBackStopScheduled, receives, fifoError>>
        /\ UNCHANGED <<events, g_micsOn, micsRun, stalled>>
    BY <1>1 DEF AlreadyOff, At, loopVars, micVars
  <2>2. pc'["pdm"] = AfterOff("pdm") /\ pc'["app"] = pc["app"]
    BY <1>1, GoEffect DEF AlreadyOff, Tasks
  <2>3. QED
    BY <2>1, <2>2 DEF SwitchInv, Repairs, Commands, Loopback,
       Flags, AsSet, ErrorDue, Chain, Stopping, Starts, Tasks, AfterOff
<1>2. CASE StopMics("pdm")
  <2>1. /\ pc["pdm"] = "off"
        /\ g_micsOn /\ ~micsRun'
        /\ UNCHANGED <<s_LoopBackRunning, s_LoopBackStopScheduled, receives, fifoError>>
        /\ UNCHANGED <<events, g_micsOn, stalled>>
    BY <1>2 DEF StopMics, At, loopVars
  <2>2. pc'["pdm"] = "disable" /\ pc'["app"] = pc["app"]
    BY <1>2, GoEffect DEF StopMics, Tasks
  <2>3. QED
    BY <2>1, <2>2 DEF SwitchInv, Repairs, Commands, Loopback,
       Flags, AsSet, ErrorDue, Chain, Stopping, Starts, Tasks
<1>3. CASE LoopbackDisable("pdm")
  BY <1>3, DisableEffect DEF DisableStep, SwitchInv, Repairs, Commands, Loopback,
       Flags, AsSet, ErrorDue, Chain, Stopping, Starts, Tasks
<1>4. CASE FlagOff("pdm")
  <2>1. /\ pc["pdm"] = "flagOff"
        /\ ~g_micsOn'
        /\ UNCHANGED <<s_LoopBackRunning, s_LoopBackStopScheduled, receives, fifoError>>
        /\ UNCHANGED <<events, micsRun, stalled>>
    BY <1>4 DEF FlagOff, At, loopVars
  <2>2. pc'["pdm"] = AfterOff("pdm") /\ pc'["app"] = pc["app"]
    BY <1>4, GoEffect DEF FlagOff, Tasks
  <2>3. QED
    BY <2>1, <2>2 DEF SwitchInv, Repairs, Commands, Loopback,
       Flags, AsSet, ErrorDue, Chain, Stopping, Starts, Tasks, AfterOff
<1>5. QED
  BY Zenon, <1>1, <1>2, <1>3, <1>4 DEF MicsOff

\* pdm_to_pcm_task repairs, second half, and leaves g_micsOn set as appTask does.
LEMMA PdmOnSwitch ==
  ASSUME TypeOK, SwitchInv, MicsOn("pdm"), UNCHANGED <<mute, update>>
  PROVE  SwitchInv'
<1>1. CASE AlreadyOn("pdm")
  <2>1. /\ pc["pdm"] = "on"
        /\ g_micsOn
        /\ UNCHANGED <<s_LoopBackRunning, s_LoopBackStopScheduled, receives, fifoError>>
        /\ UNCHANGED <<events, g_micsOn, micsRun, stalled>>
    BY <1>1 DEF AlreadyOn, At, loopVars, micVars
  <2>2. pc'["pdm"] = AfterOn("pdm", pre) /\ pc'["app"] = pc["app"]
    BY <1>1, GoEffect DEF AlreadyOn, Tasks
  <2>3. QED
    BY <2>1, <2>2 DEF SwitchInv, Repairs, Commands, Loopback,
       Flags, AsSet, ErrorDue, Chain, Stopping, Starts, Tasks, AfterOn
<1>2. CASE StartMics("pdm")
  <2>1. /\ pc["pdm"] = "on"
        /\ ~g_micsOn /\ micsRun' /\ events' = {} /\ stalled' \subseteq stalled
        /\ UNCHANGED <<s_LoopBackRunning, s_LoopBackStopScheduled, receives, fifoError>>
        /\ UNCHANGED g_micsOn
    BY <1>2 DEF StartMics, At, loopVars
  <2>2. pc'["pdm"] = "enable" /\ pc'["app"] = pc["app"]
    BY <1>2, GoEffect DEF StartMics, Tasks
  <2>3. QED
    BY <2>1, <2>2 DEF SwitchInv, Repairs, Commands, Loopback,
       Flags, AsSet, ErrorDue, Chain, Stopping, Starts, Tasks
<1>3. CASE EnableLoopback("pdm")
  <2>1. pc["pdm"] = "enable" /\ ~s_LoopBackRunning /\ s_LoopBackRunning'
    BY <1>3 DEF EnableLoopback, LoopbackEnable, At, SwitchInv, Loopback, Tasks
  <2>2. receives' > 0 /\ stalled' \subseteq stalled
    BY <1>3, <2>1 DEF EnableLoopback, LoopbackEnable, TypeOK, LoopTypeOK
  <2>3. pc'["pdm"] = "flagOn" /\ pc'["app"] = pc["app"]
    BY <1>3, GoEffect DEF EnableLoopback, Tasks
  <2>4. /\ UNCHANGED <<s_LoopBackStopScheduled, fifoError>>
        /\ UNCHANGED <<events, g_micsOn, micsRun>>
    BY <1>3 DEF EnableLoopback, LoopbackEnable
  <2>5. QED
    BY <2>1, <2>2, <2>3, <2>4 DEF SwitchInv, Repairs, Commands, Loopback,
       Flags, AsSet, ErrorDue, Chain, Stopping, Starts, Tasks
<1>4. CASE FlagOn("pdm")
  <2>1. /\ pc["pdm"] = "flagOn"
        /\ g_micsOn'
        /\ UNCHANGED <<s_LoopBackRunning, s_LoopBackStopScheduled, receives, fifoError>>
        /\ UNCHANGED <<events, micsRun, stalled>>
    BY <1>4 DEF FlagOn, At, loopVars
  <2>2. pc'["pdm"] = AfterOn("pdm", pre) /\ pc'["app"] = pc["app"]
    BY <1>4, GoEffect DEF FlagOn, Tasks
  <2>3. QED
    BY <2>1, <2>2 DEF SwitchInv, Repairs, Commands, Loopback,
       Flags, AsSet, ErrorDue, Chain, Stopping, Starts, Tasks, AfterOn
<1>5. QED
  BY Zenon, <1>1, <1>2, <1>3, <1>4 DEF MicsOn

LEMMA PdmOwnSwitch ==
  ASSUME TypeOK, SwitchInv, PdmWake \/ PdmTimeout \/ PdmProcess,
         UNCHANGED <<mute, update>>
  PROVE  SwitchInv'
<1>1. UNCHANGED <<s_LoopBackRunning, s_LoopBackStopScheduled, receives, fifoError>>
  BY DEF PdmWake, PdmTimeout, PdmProcess, loopVars
<1>2. UNCHANGED <<g_micsOn, micsRun, stalled>> /\ events' \subseteq events
  BY DEF PdmWake, PdmTimeout, PdmProcess
<1>3. CASE PdmWake
  <2>1. /\ pc["pdm"] = "idle" /\ events' = {}
        /\ pc'["pdm"] = (IF "AMP_ERROR" \in events THEN "off" ELSE "process")
        /\ pc'["app"] = pc["app"]
    BY <1>3, GoEffect DEF PdmWake, At, Tasks
  <2>2. QED
    BY <1>1, <1>2, <2>1 DEF SwitchInv, Repairs, Commands, Loopback, Flags, AsSet,
       ErrorDue, Chain, Stopping, Starts, Tasks
<1>4. CASE PdmTimeout
  <2>1. /\ pc["pdm"] = "idle" /\ pc["app"] = "idle" /\ g_micsOn /\ pc'["pdm"] = "off"
        /\ pc'["app"] = pc["app"]
    BY <1>4, GoEffect DEF PdmTimeout, At, Tasks
  <2>2. ~MicsLive /\ ~AmpLive /\ ~Interrupted
    BY <1>4 DEF PdmTimeout
  <2>3. QED
    BY <1>1, <1>2, <2>1, <2>2 DEF MicsLive, AmpLive, Interrupted, SwitchInv, Repairs,
       Commands, Loopback, Flags, AsSet, ErrorDue, Chain, Stopping, Starts, Tasks
<1>5. CASE PdmProcess
  <2>1. pc["pdm"] = "process" /\ pc'["pdm"] = "idle" /\ pc'["app"] = pc["app"]
    BY <1>5, GoEffect DEF PdmProcess, At, Tasks
  <2>2. QED
    BY <1>1, <1>2, <2>1 DEF SwitchInv, Repairs, Commands, Loopback, Flags, AsSet,
       ErrorDue, Chain, Stopping, Starts, Tasks
<1>6. QED
  BY Zenon, <1>3, <1>4, <1>5

LEMMA StepSwitch ==
  ASSUME ~Overlap, TypeOK, SwitchInv, [Next]_vars
  PROVE  SwitchInv'
<1>1. CASE AppNext
  <2>1. CASE AppMicUpdate
    BY <2>1, UpdateSwitch
  <2>2. CASE (MicsOff("app") \/ MicsOn("app")) /\ UNCHANGED <<mute, update>>
    BY Zenon, <1>1, <2>2, AppOffSwitch, AppOnSwitch DEF AppNext
  <2>3. QED
    BY Zenon, <1>1, <2>1, <2>2 DEF AppNext
<1>2. CASE PdmNext
  BY Zenon, <1>2, PdmOwnSwitch, PdmOffSwitch, PdmOnSwitch DEF PdmNext, PdmStep
<1>3. CASE UNCHANGED vars
  BY <1>3 DEF vars, loopVars, micVars, SwitchInv, Repairs, Commands, Loopback, Flags,
     AsSet, ErrorDue
<1>4. QED
  BY Zenon, <1>1, <1>2, <1>3, MuteSwitch, IrqSwitch, BlockSwitch, DeviceSwitch
     DEF Next, MicDma, AmpDma

LEMMA SwitchSafe == TypeOK /\ SwitchInv => SwitchedAsSet
<1> SUFFICES ASSUME TypeOK, SwitchInv, ~update, ~Switching
             PROVE  micsRun = ~mute /\ g_micsOn = ~mute
  BY DEF SwitchedAsSet
<1>1. pc["app"] = "idle" /\ pc["pdm"] \in {"idle", "process"}
  BY DEF Switching, Tasks, SwitchInv, Commands
<1>2. (g_micsOn <=> ~mute) /\ (micsRun <=> g_micsOn)
  BY <1>1 DEF SwitchInv, AsSet, Flags, Chain, Stopping, Starts
<1>3. g_micsOn \in BOOLEAN /\ micsRun \in BOOLEAN /\ mute \in BOOLEAN
  BY DEF TypeOK, MicTypeOK
<1>4. QED
  BY Zenon, <1>2, <1>3

\* When appTask and pdm_to_pcm_task have both done with mics_off and mics_on,
\* the microphones run, and g_micsOn says so, exactly when the device is not
\* muted, whatever the interrupts, overflows, stalls and late blocks were, if
\* no mute fell into a repair and no failure into a mute: the two tasks change
\* the same flag without a lock.
THEOREM SwitchingIsAsSet ==
  ASSUME ~Overlap
  PROVE  Spec => []SwitchedAsSet
<1>1. TypeOK /\ SwitchInv /\ [Next]_vars => (TypeOK /\ SwitchInv)'
  BY Zenon, StepTypes, StepSwitch
<1>2. QED
  BY <1>1, InitSwitch, SwitchSafe, PTL DEF Spec

-----------------------------------------------------------------------------
(***************************************************************************)
(* What is received: one lemma per actor.                                  *)
(***************************************************************************)
LEMMA DisableQuiet ==
  ASSUME NEW t \in Tasks, LoopbackDisable(t), TypeOK
  PROVE  /\ UNCHANGED <<micBlock, tracker, pdm, pcm, ampOut, ampIndex, pre, post, heard>>
         /\ UNCHANGED <<ampBlock, ampData, g_micsOn, micsRun, stalled, events>>
         /\ Deaf => Deaf'
         /\ fifoError' => fifoError
         /\ pc[t] = "disabled" => ~s_LoopBackStopScheduled' /\ Deaf'
         /\ pc[t] # "disabled" => (s_LoopBackStopScheduled => s_LoopBackStopScheduled')
<1>1. UNCHANGED <<micBlock, tracker, pdm, pcm, ampOut, ampIndex, pre, post, heard>>
  BY DEF LoopbackDisable, micVars
<1>2. UNCHANGED <<g_micsOn, micsRun, stalled, events>>
  BY DEF LoopbackDisable, micVars
<1>3. CASE At(t, "disable") /\ ScheduleStop
  BY <1>1, <1>2, <1>3 DEF At, ScheduleStop, Deaf
<1>4. CASE At(t, "wait") /\ Terminate
  BY <1>1, <1>2, <1>4 DEF At, Terminate, TerminateReceive, Deaf
<1>5. CASE At(t, "wait") /\ UNCHANGED loopVars
  BY <1>1, <1>2, <1>5 DEF At, loopVars, Deaf
<1>6. CASE At(t, "terminated") /\ Terminated
  BY <1>1, <1>2, <1>6 DEF At, Terminated, Deaf
<1>7. CASE At(t, "disabled") /\ Disable
  BY <1>1, <1>2, <1>7 DEF At, Disable, Deaf
<1>8. QED
  BY Zenon, <1>3, <1>4, <1>5, <1>6, <1>7 DEF LoopbackDisable

LEMMA AppOffReceive ==
  ASSUME TypeOK, SwitchInv, ReceiveInv, MicsOff("app"),
         Delayed("pdm") \/ (At("pdm", "idle") /\ events = {})
  PROVE  ReceiveInv'
<1>1. pc["pdm"] \in {"wait", "terminated"} \/ (pc["pdm"] = "idle" /\ events = {})
  BY DEF Delayed, At
<1>2. CASE AlreadyOff("app")
  <2>1. /\ pc["app"] = "off"
        /\ ~g_micsOn
        /\ UNCHANGED <<s_LoopBackRunning, s_LoopBackStopScheduled, receives, receiver>>
        /\ UNCHANGED <<fifoError, ampIrq, ampBlock>>
        /\ UNCHANGED <<events, g_micsOn, micsRun, pre, post>>
        /\ UNCHANGED <<micBlock, tracker, pcm, ampOut, ampIndex>>
    BY <1>2 DEF AlreadyOff, At, loopVars, micVars
  <2>2. pc'["app"] = AfterOff("app") /\ pc'["pdm"] = pc["pdm"]
    BY <1>2, GoEffect DEF AlreadyOff, Tasks
  <2>3. QED
    BY <1>1, <2>1, <2>2
       DEF SwitchInv, Repairs, Commands, Loopback, Flags, ErrorDue, Chain, Stopping,
           Starts, Tasks, ReceiveInv, Events, Restart, Unmuting, LoopbackLive,
           MicDue, Between, Deaf, Fresh, PcmSilent, AfterOff
<1>3. CASE StopMics("app")
  <2>1. /\ pc["app"] = "off"
        /\ g_micsOn /\ ~micsRun' /\ tracker' = 0 /\ pcm'[0] = Silence /\ pcm'[1] = Silence
        /\ UNCHANGED <<s_LoopBackRunning, s_LoopBackStopScheduled, receives, receiver>>
        /\ UNCHANGED <<fifoError, ampIrq, ampBlock>>
        /\ UNCHANGED <<events, g_micsOn, pre, post, micBlock, ampOut, ampIndex>>
    BY <1>3 DEF StopMics, At, loopVars
  <2>2. pc'["app"] = "disable" /\ pc'["pdm"] = pc["pdm"]
    BY <1>3, GoEffect DEF StopMics, Tasks
  <2>3. QED
    BY <1>1, <2>1, <2>2
       DEF SwitchInv, Repairs, Commands, Loopback, Flags, ErrorDue, Chain, Stopping,
           Starts, Tasks, ReceiveInv, Events, Restart, Unmuting, LoopbackLive,
           MicDue, Between, Deaf, Fresh, PcmSilent
<1>4. CASE LoopbackDisable("app")
  BY <1>4, <1>1, DisableEffect, DisableQuiet
     DEF DisableStep, SwitchInv, Repairs, Commands, Loopback, Flags, ErrorDue,
         Chain, Stopping, Starts, Tasks, ReceiveInv, Events, Restart, Unmuting,
         LoopbackLive, MicDue, Between, Deaf, Fresh, PcmSilent
<1>5. CASE FlagOff("app")
  <2>1. /\ pc["app"] = "flagOff"
        /\ ~g_micsOn'
        /\ UNCHANGED <<s_LoopBackRunning, s_LoopBackStopScheduled, receives, receiver>>
        /\ UNCHANGED <<fifoError, ampIrq, ampBlock>>
        /\ UNCHANGED <<events, micsRun, pre, post>>
        /\ UNCHANGED <<micBlock, tracker, pcm, ampOut, ampIndex>>
    BY <1>5 DEF FlagOff, At, loopVars
  <2>2. pc'["app"] = AfterOff("app") /\ pc'["pdm"] = pc["pdm"]
    BY <1>5, GoEffect DEF FlagOff, Tasks
  <2>3. QED
    BY <1>1, <2>1, <2>2
       DEF SwitchInv, Repairs, Commands, Loopback, Flags, ErrorDue, Chain, Stopping,
           Starts, Tasks, ReceiveInv, Events, Restart, Unmuting, LoopbackLive,
           MicDue, Between, Deaf, Fresh, PcmSilent, AfterOff
<1>6. QED
  BY Zenon, <1>2, <1>3, <1>4, <1>5 DEF MicsOff

LEMMA AppOnReceive ==
  ASSUME TypeOK, SwitchInv, ReceiveInv, MicsOn("app"),
         Delayed("pdm") \/ (At("pdm", "idle") /\ events = {})
  PROVE  ReceiveInv'
<1>1. pc["pdm"] \in {"wait", "terminated"} \/ (pc["pdm"] = "idle" /\ events = {})
  BY DEF Delayed, At
<1>2. CASE AlreadyOn("app")
  <2>1. /\ pc["app"] = "on"
        /\ g_micsOn
        /\ UNCHANGED <<s_LoopBackRunning, s_LoopBackStopScheduled, receives, receiver>>
        /\ UNCHANGED <<fifoError, ampIrq, ampBlock>>
        /\ UNCHANGED <<events, g_micsOn, micsRun, pre, post>>
        /\ UNCHANGED <<micBlock, tracker, pcm, ampOut, ampIndex>>
    BY <1>2 DEF AlreadyOn, At, loopVars, micVars
  <2>2. pc'["app"] = AfterOn("app", pre) /\ pc'["pdm"] = pc["pdm"]
    BY <1>2, GoEffect DEF AlreadyOn, Tasks
  <2>3. QED
    BY <1>1, <2>1, <2>2
       DEF SwitchInv, Repairs, Commands, Loopback, Flags, ErrorDue, Chain, Stopping,
           Starts, Tasks, ReceiveInv, Events, Restart, Unmuting, LoopbackLive,
           MicDue, Between, Deaf, Fresh, PcmSilent, AfterOn
<1>3. CASE StartMics("app")
  <2>1. /\ pc["app"] = "on"
        /\ ~g_micsOn /\ micsRun' /\ events' = {} /\ pre' = {} /\ post' = {}
        /\ micBlock' = 0 /\ ampIndex' = 1 /\ ampOut'[0] = Old /\ ampOut'[1] = Old
        /\ UNCHANGED <<s_LoopBackRunning, s_LoopBackStopScheduled, receives, receiver>>
        /\ UNCHANGED <<fifoError, ampIrq, ampBlock>>
        /\ UNCHANGED <<g_micsOn, tracker, pcm>>
    BY <1>3 DEF StartMics, At, loopVars
  <2>2. pc'["app"] = "enable" /\ pc'["pdm"] = pc["pdm"]
    BY <1>3, GoEffect DEF StartMics, Tasks
  <2>3. QED
    BY <1>1, <2>1, <2>2
       DEF SwitchInv, Repairs, Commands, Loopback, Flags, ErrorDue, Chain, Stopping,
           Starts, Tasks, ReceiveInv, Events, Restart, Unmuting, LoopbackLive,
           MicDue, Between, Deaf, Fresh, PcmSilent
<1>4. CASE EnableLoopback("app")
  <2>1. /\ pc["app"] = "enable" /\ ~s_LoopBackRunning /\ s_LoopBackRunning' /\ ampIrq'
        /\ receiver' /\ ampBlock' = 0
    BY <1>4 DEF EnableLoopback, LoopbackEnable, At, SwitchInv, Loopback, Tasks
  <2>2. receives' > 0
    BY <1>4, <2>1 DEF EnableLoopback, LoopbackEnable, TypeOK, LoopTypeOK
  <2>3. pc'["app"] = "flagOn" /\ pc'["pdm"] = pc["pdm"]
    BY <1>4, GoEffect DEF EnableLoopback, Tasks
  <2>4. /\ UNCHANGED <<s_LoopBackStopScheduled, fifoError>>
        /\ UNCHANGED <<events, g_micsOn, micsRun, pre, post>>
        /\ UNCHANGED <<micBlock, tracker, pcm, ampOut, ampIndex>>
    BY <1>4 DEF EnableLoopback, LoopbackEnable
  <2>5. QED
    BY <1>1, <2>1, <2>2, <2>3, <2>4
       DEF SwitchInv, Repairs, Commands, Loopback, Flags, ErrorDue, Chain, Stopping,
           Starts, Tasks, ReceiveInv, Events, Restart, Unmuting, LoopbackLive,
           MicDue, Between, Deaf, Fresh, PcmSilent
<1>5. CASE FlagOn("app")
  <2>1. /\ pc["app"] = "flagOn"
        /\ g_micsOn'
        /\ UNCHANGED <<s_LoopBackRunning, s_LoopBackStopScheduled, receives, receiver>>
        /\ UNCHANGED <<fifoError, ampIrq, ampBlock>>
        /\ UNCHANGED <<events, micsRun, pre, post>>
        /\ UNCHANGED <<micBlock, tracker, pcm, ampOut, ampIndex>>
    BY <1>5 DEF FlagOn, At, loopVars
  <2>2. pc'["app"] = AfterOn("app", pre) /\ pc'["pdm"] = pc["pdm"]
    BY <1>5, GoEffect DEF FlagOn, Tasks
  <2>3. QED
    BY <1>1, <2>1, <2>2
       DEF SwitchInv, Repairs, Commands, Loopback, Flags, ErrorDue, Chain, Stopping,
           Starts, Tasks, ReceiveInv, Events, Restart, Unmuting, LoopbackLive,
           MicDue, Between, Deaf, Fresh, PcmSilent, AfterOn
<1>6. QED
  BY Zenon, <1>2, <1>3, <1>4, <1>5 DEF MicsOn

LEMMA PdmOffReceive ==
  ASSUME TypeOK, SwitchInv, ReceiveInv, MicsOff("pdm")
  PROVE  ReceiveInv'
<1>1. CASE AlreadyOff("pdm")
  <2>1. /\ pc["pdm"] = "off"
        /\ ~g_micsOn
        /\ UNCHANGED <<s_LoopBackRunning, s_LoopBackStopScheduled, receives, receiver>>
        /\ UNCHANGED <<fifoError, ampIrq, ampBlock>>
        /\ UNCHANGED <<events, g_micsOn, micsRun, pre, post>>
        /\ UNCHANGED <<micBlock, tracker, pcm, ampOut, ampIndex>>
    BY <1>1 DEF AlreadyOff, At, loopVars, micVars
  <2>2. pc'["pdm"] = AfterOff("pdm") /\ pc'["app"] = pc["app"]
    BY <1>1, GoEffect DEF AlreadyOff, Tasks
  <2>3. QED
    BY <2>1, <2>2
       DEF SwitchInv, Repairs, Commands, Loopback, Flags, ErrorDue, Chain, Stopping,
           Starts, Tasks, ReceiveInv, Events, Restart, Unmuting, LoopbackLive,
           MicDue, Between, Deaf, Fresh, PcmSilent, AfterOff
<1>2. CASE StopMics("pdm")
  <2>1. /\ pc["pdm"] = "off"
        /\ g_micsOn /\ ~micsRun' /\ tracker' = 0 /\ pcm'[0] = Silence /\ pcm'[1] = Silence
        /\ UNCHANGED <<s_LoopBackRunning, s_LoopBackStopScheduled, receives, receiver>>
        /\ UNCHANGED <<fifoError, ampIrq, ampBlock>>
        /\ UNCHANGED <<events, g_micsOn, pre, post, micBlock, ampOut, ampIndex>>
    BY <1>2 DEF StopMics, At, loopVars
  <2>2. pc'["pdm"] = "disable" /\ pc'["app"] = pc["app"]
    BY <1>2, GoEffect DEF StopMics, Tasks
  <2>3. QED
    BY <2>1, <2>2
       DEF SwitchInv, Repairs, Commands, Loopback, Flags, ErrorDue, Chain, Stopping,
           Starts, Tasks, ReceiveInv, Events, Restart, Unmuting, LoopbackLive,
           MicDue, Between, Deaf, Fresh, PcmSilent
<1>3. CASE LoopbackDisable("pdm")
  BY <1>3, DisableEffect, DisableQuiet
     DEF DisableStep, SwitchInv, Repairs, Commands, Loopback, Flags, ErrorDue,
         Chain, Stopping, Starts, Tasks, ReceiveInv, Events, Restart, Unmuting,
         LoopbackLive, MicDue, Between, Deaf, Fresh, PcmSilent
<1>4. CASE FlagOff("pdm")
  <2>1. /\ pc["pdm"] = "flagOff"
        /\ ~g_micsOn'
        /\ UNCHANGED <<s_LoopBackRunning, s_LoopBackStopScheduled, receives, receiver>>
        /\ UNCHANGED <<fifoError, ampIrq, ampBlock>>
        /\ UNCHANGED <<events, micsRun, pre, post>>
        /\ UNCHANGED <<micBlock, tracker, pcm, ampOut, ampIndex>>
    BY <1>4 DEF FlagOff, At, loopVars
  <2>2. pc'["pdm"] = AfterOff("pdm") /\ pc'["app"] = pc["app"]
    BY <1>4, GoEffect DEF FlagOff, Tasks
  <2>3. QED
    BY <2>1, <2>2
       DEF SwitchInv, Repairs, Commands, Loopback, Flags, ErrorDue, Chain, Stopping,
           Starts, Tasks, ReceiveInv, Events, Restart, Unmuting, LoopbackLive,
           MicDue, Between, Deaf, Fresh, PcmSilent, AfterOff
<1>5. QED
  BY Zenon, <1>1, <1>2, <1>3, <1>4 DEF MicsOff

LEMMA PdmOnReceive ==
  ASSUME TypeOK, SwitchInv, ReceiveInv, MicsOn("pdm")
  PROVE  ReceiveInv'
<1>1. CASE AlreadyOn("pdm")
  <2>1. /\ pc["pdm"] = "on"
        /\ g_micsOn
        /\ UNCHANGED <<s_LoopBackRunning, s_LoopBackStopScheduled, receives, receiver>>
        /\ UNCHANGED <<fifoError, ampIrq, ampBlock>>
        /\ UNCHANGED <<events, g_micsOn, micsRun, pre, post>>
        /\ UNCHANGED <<micBlock, tracker, pcm, ampOut, ampIndex>>
    BY <1>1 DEF AlreadyOn, At, loopVars, micVars
  <2>2. pc'["pdm"] = AfterOn("pdm", pre) /\ pc'["app"] = pc["app"]
    BY <1>1, GoEffect DEF AlreadyOn, Tasks
  <2>3. QED
    BY <2>1, <2>2
       DEF SwitchInv, Repairs, Commands, Loopback, Flags, ErrorDue, Chain, Stopping,
           Starts, Tasks, ReceiveInv, Events, Restart, Unmuting, LoopbackLive,
           MicDue, Between, Deaf, Fresh, PcmSilent, AfterOn
<1>2. CASE StartMics("pdm")
  <2>1. /\ pc["pdm"] = "on"
        /\ ~g_micsOn /\ micsRun' /\ events' = {} /\ pre' = {} /\ post' = {}
        /\ micBlock' = 0 /\ ampIndex' = 1 /\ ampOut'[0] = Old /\ ampOut'[1] = Old
        /\ UNCHANGED <<s_LoopBackRunning, s_LoopBackStopScheduled, receives, receiver>>
        /\ UNCHANGED <<fifoError, ampIrq, ampBlock>>
        /\ UNCHANGED <<g_micsOn, tracker, pcm>>
    BY <1>2 DEF StartMics, At, loopVars
  <2>2. pc'["pdm"] = "enable" /\ pc'["app"] = pc["app"]
    BY <1>2, GoEffect DEF StartMics, Tasks
  <2>3. QED
    BY <2>1, <2>2
       DEF SwitchInv, Repairs, Commands, Loopback, Flags, ErrorDue, Chain, Stopping,
           Starts, Tasks, ReceiveInv, Events, Restart, Unmuting, LoopbackLive,
           MicDue, Between, Deaf, Fresh, PcmSilent
<1>3. CASE EnableLoopback("pdm")
  <2>1. /\ pc["pdm"] = "enable" /\ ~s_LoopBackRunning /\ s_LoopBackRunning' /\ ampIrq'
        /\ receiver' /\ ampBlock' = 0
    BY <1>3 DEF EnableLoopback, LoopbackEnable, At, SwitchInv, Loopback, Tasks
  <2>2. receives' > 0
    BY <1>3, <2>1 DEF EnableLoopback, LoopbackEnable, TypeOK, LoopTypeOK
  <2>3. pc'["pdm"] = "flagOn" /\ pc'["app"] = pc["app"]
    BY <1>3, GoEffect DEF EnableLoopback, Tasks
  <2>4. /\ UNCHANGED <<s_LoopBackStopScheduled, fifoError>>
        /\ UNCHANGED <<events, g_micsOn, micsRun, pre, post>>
        /\ UNCHANGED <<micBlock, tracker, pcm, ampOut, ampIndex>>
    BY <1>3 DEF EnableLoopback, LoopbackEnable
  <2>5. QED
    BY <2>1, <2>2, <2>3, <2>4
       DEF SwitchInv, Repairs, Commands, Loopback, Flags, ErrorDue, Chain, Stopping,
           Starts, Tasks, ReceiveInv, Events, Restart, Unmuting, LoopbackLive,
           MicDue, Between, Deaf, Fresh, PcmSilent
<1>4. CASE FlagOn("pdm")
  <2>1. /\ pc["pdm"] = "flagOn"
        /\ g_micsOn'
        /\ UNCHANGED <<s_LoopBackRunning, s_LoopBackStopScheduled, receives, receiver>>
        /\ UNCHANGED <<fifoError, ampIrq, ampBlock>>
        /\ UNCHANGED <<events, micsRun, pre, post>>
        /\ UNCHANGED <<micBlock, tracker, pcm, ampOut, ampIndex>>
    BY <1>4 DEF FlagOn, At, loopVars
  <2>2. pc'["pdm"] = AfterOn("pdm", pre) /\ pc'["app"] = pc["app"]
    BY <1>4, GoEffect DEF FlagOn, Tasks
  <2>3. QED
    BY <2>1, <2>2
       DEF SwitchInv, Repairs, Commands, Loopback, Flags, ErrorDue, Chain, Stopping,
           Starts, Tasks, ReceiveInv, Events, Restart, Unmuting, LoopbackLive,
           MicDue, Between, Deaf, Fresh, PcmSilent, AfterOn
<1>5. QED
  BY Zenon, <1>1, <1>2, <1>3, <1>4 DEF MicsOn

\* The setting and its note.
LEMMA CommandReceive ==
  ASSUME TypeOK, SwitchInv, ReceiveInv, MuteCommand \/ AppMicUpdate
  PROVE  ReceiveInv'
<1>1. /\ UNCHANGED <<s_LoopBackRunning, s_LoopBackStopScheduled, receives, receiver>>
      /\ UNCHANGED <<fifoError, ampIrq, ampBlock, events, g_micsOn, micsRun, pre, post>>
      /\ UNCHANGED <<micBlock, tracker, pcm, ampOut, ampIndex>>
  BY DEF MuteCommand, AppMicUpdate, loopVars, micVars
<1>2. \/ UNCHANGED pc
      \/ /\ pc["app"] = "idle" /\ pc'["app"] \in {"off", "on"}
         /\ pc'["pdm"] = pc["pdm"]
  BY GoEffect DEF MuteCommand, AppMicUpdate, At, micVars, Tasks
<1>3. QED
  BY <1>1, <1>2 DEF ReceiveInv, Events, Restart, Unmuting, LoopbackLive, MicDue,
     Between, Deaf, Fresh, PcmSilent, Chain, Stopping, Starts, Tasks

\* The error interrupt ends the receiver.
LEMMA IrqReceive ==
  ASSUME TypeOK, SwitchInv, ReceiveInv, AmpIrq
  PROVE  ReceiveInv'
<1>1. /\ fifoError /\ ~s_LoopBackRunning'
      /\ UNCHANGED <<s_LoopBackStopScheduled, ampIrq, ampBlock>>
      /\ UNCHANGED <<pc, g_micsOn, micsRun, pre, post>>
      /\ UNCHANGED <<micBlock, tracker, pcm, ampOut, ampIndex>>
  BY DEF AmpIrq, SAI_UserRxIRQHandler, micVars
<1>2. CASE s_LoopBackRunning /\ ~s_LoopBackStopScheduled
  <2>1. ~receiver' /\ ~fifoError' /\ events' = events \cup {"AMP_ERROR"}
    BY <1>2 DEF AmpIrq, SAI_UserRxIRQHandler, TerminateReceive
  <2>2. QED
    BY <1>1, <1>2, <2>1 DEF SwitchInv, Repairs, Commands, Loopback, Flags, ErrorDue,
       ReceiveInv, Events, Restart, Unmuting, LoopbackLive, MicDue, Between, Deaf,
       Fresh, PcmSilent, Chain, Stopping, Starts, Tasks
<1>3. CASE ~(s_LoopBackRunning /\ ~s_LoopBackStopScheduled)
  <2>1. UNCHANGED <<receives, receiver, events>> /\ (fifoError' => fifoError)
    BY <1>1, <1>3 DEF AmpIrq, SAI_UserRxIRQHandler
  <2>2. QED
    BY <1>1, <1>3, <2>1 DEF SwitchInv, Repairs, Commands, Loopback, Flags, ErrorDue,
       ReceiveInv, Events, Restart, Unmuting, LoopbackLive, MicDue, Between, Deaf,
       Fresh, PcmSilent, Chain, Stopping, Starts, Tasks
<1>4. QED
  BY Zenon, <1>2, <1>3

\* A block of the microphones finds nothing under way.
LEMMA MicBlockTime ==
  ASSUME ~Late, TypeOK, SwitchInv, ReceiveInv, MicBlock
  PROVE  /\ micsRun /\ Between /\ pc["pdm"] = "idle" /\ events = {} /\ pre = {}
         /\ "mics" \notin stalled /\ ("amp" \notin stalled => micBlock # Succ(ampBlock))
         /\ s_LoopBackRunning /\ ~fifoError
<1>1. /\ micsRun /\ "mics" \notin stalled /\ MicsTurn /\ ~Interrupted
      /\ pc["app"] # "enable"
      /\ pc["pdm"] \in {"wait", "terminated"} \/ (pc["pdm"] = "idle" /\ events = {})
  BY DEF MicBlock, MicsLive, InTime, Delayed, At, Starting, Tasks
<1>2. pc["pdm"] = "idle" /\ events = {} /\ pre = {}
  BY <1>1 DEF SwitchInv, Flags, ReceiveInv, Events, Stopping, Tasks
<1>3. s_LoopBackRunning /\ receiver /\ ampIrq /\ receives > 0
  BY <1>1, <1>2 DEF ReceiveInv, LoopbackLive, Between, Deaf
<1>4. QED
  BY <1>1, <1>2, <1>3 DEF MicsTurn, AmpLive, Interrupted, Between

LEMMA MicBlockReceive ==
  ASSUME ~Late, TypeOK, SwitchInv, ReceiveInv, MicBlock
  PROVE  ReceiveInv'
<1>1. /\ UNCHANGED <<s_LoopBackRunning, s_LoopBackStopScheduled, receives, receiver>>
      /\ UNCHANGED <<fifoError, ampIrq, ampBlock, pc, g_micsOn, micsRun, pre, post>>
      /\ UNCHANGED <<pcm, ampOut, ampIndex>>
      /\ events' \subseteq {"PING", "PONG"}
  BY MicBlockTime DEF MicBlock, loopVars
<1>2. QED
  BY <1>1, MicBlockTime DEF SwitchInv, Repairs, Commands, Loopback, Flags,
     ReceiveInv, Events, Restart, Unmuting, LoopbackLive, MicDue, Between, Deaf,
     Chain, Stopping, Starts, Tasks

\* A block of the echo reference may also come while a task stops it.
LEMMA AmpBlockReceive ==
  ASSUME ~Late, TypeOK, SwitchInv, ReceiveInv, AmpBlock
  PROVE  ReceiveInv'
<1>1. /\ UNCHANGED <<s_LoopBackRunning, s_LoopBackStopScheduled, receiver>>
      /\ UNCHANGED <<fifoError, ampIrq, pc, g_micsOn, micsRun, pre, post>>
      /\ UNCHANGED <<micBlock, tracker, pcm, ampOut, ampIndex>>
      /\ events' = events \cup {"AMP_REFERENCE"}
      /\ ~Deaf
      /\ ~s_LoopBackStopScheduled => UNCHANGED receives
  BY DEF AmpBlock, RxCallback, micVars, Deaf
<1>2. /\ pc["pdm"] \in {"wait", "terminated"} \/ (pc["pdm"] = "idle" /\ events = {})
      /\ ~fifoError
  BY <1>1 DEF AmpBlock, InTime, Interrupted, Deaf, Delayed, At
<1>3. QED
  BY <1>1, <1>2 DEF SwitchInv, Repairs, Commands, Loopback, Flags,
     ReceiveInv, Events, Restart, Unmuting, LoopbackLive, MicDue, Between, Deaf,
     Fresh, PcmSilent, Chain, Stopping, Starts, Tasks

\* A FIFO that overflows while appTask is about to set g_micsOn is one of a
\* receiver without a transfer.
LEMMA DeviceReceive ==
  ASSUME ~Overlap, TypeOK, SwitchInv, ReceiveInv, Devices
  PROVE  ReceiveInv'
<1>1. /\ UNCHANGED <<s_LoopBackRunning, s_LoopBackStopScheduled, receives, receiver>>
      /\ UNCHANGED <<ampIrq, ampBlock, events, pc, g_micsOn, micsRun, pre, post>>
      /\ UNCHANGED <<micBlock, tracker, pcm, ampOut, ampIndex>>
  BY DEF Devices, FifoError, Stall, loopVars, micVars
<1>2. fifoError' # fifoError => receiver /\ (pc["app"] = "idle" \/ receives = 0)
  BY DEF Devices, FifoError, Stall, loopVars, AppAtRest, At
<1>3. pc["pdm"] \in Chain \cup {"idle", "process"}
  BY DEF TypeOK, MicTypeOK, Tasks, Labels, Chain, Stopping, Starts
<1>4. QED
  BY <1>1, <1>2, <1>3 DEF SwitchInv, Repairs, Commands, Loopback, Flags, ErrorDue,
     ReceiveInv, Events, Restart, Unmuting, LoopbackLive, MicDue, Between, Deaf,
     Fresh, PcmSilent, Chain, Stopping, Starts, Tasks

LEMMA PdmWakeReceive ==
  ASSUME TypeOK, SwitchInv, ReceiveInv, PdmWake \/ PdmTimeout
  PROVE  ReceiveInv'
<1>1. /\ UNCHANGED <<s_LoopBackRunning, s_LoopBackStopScheduled, receives, receiver>>
      /\ UNCHANGED <<fifoError, ampIrq, ampBlock, g_micsOn, micsRun, post>>
      /\ UNCHANGED <<micBlock, tracker, pcm, ampOut, ampIndex>>
      /\ events' = {}
  BY DEF PdmWake, PdmTimeout, loopVars
<1>2. CASE PdmWake
  <2>1. /\ pc["pdm"] = "idle" /\ pre' = events /\ events # {}
        /\ pc'["pdm"] = (IF "AMP_ERROR" \in events THEN "off" ELSE "process")
        /\ pc'["app"] = pc["app"]
    BY <1>2, GoEffect DEF PdmWake, At, Tasks
  <2>2. QED
    BY <1>1, <2>1 DEF SwitchInv, Repairs, Commands, Loopback, Flags, ErrorDue,
       ReceiveInv, Events, Restart, Unmuting, LoopbackLive, MicDue, Between, Deaf,
       Fresh, PcmSilent, Chain, Stopping, Starts, Tasks
<1>3. CASE PdmTimeout
  <2>1. /\ pc["pdm"] = "idle" /\ pc["app"] = "idle" /\ pre' = {}
        /\ pc'["pdm"] = "off" /\ pc'["app"] = pc["app"]
    BY <1>3, GoEffect DEF PdmTimeout, At, Tasks
  <2>2. QED
    BY <1>1, <2>1 DEF SwitchInv, Repairs, Commands, Loopback, Flags, ErrorDue,
       ReceiveInv, Events, Restart, Unmuting, LoopbackLive, MicDue, Between, Deaf,
       Fresh, PcmSilent, Chain, Stopping, Starts, Tasks
<1>4. QED
  BY Zenon, <1>2, <1>3

-----------------------------------------------------------------------------
(***************************************************************************)
(* The streams.                                                            *)
(***************************************************************************)
LEMMA Counting ==
  \A b \in SomeBlock :
    /\ Succ(b) \in SomeBlock /\ Pred(b) \in SomeBlock /\ Half(b) \in 0..1
    /\ Pred(Succ(b)) = b /\ Succ(Pred(b)) = b
    /\ Half(Succ(b)) = 1 - Half(b) /\ Half(Pred(b)) = 1 - Half(b)
    /\ b # Succ(b)
<1> SUFFICES ASSUME NEW b \in SomeBlock
             PROVE  /\ Succ(b) \in SomeBlock /\ Pred(b) \in SomeBlock /\ Half(b) \in 0..1
                    /\ Pred(Succ(b)) = b /\ Succ(Pred(b)) = b
                    /\ Half(Succ(b)) = 1 - Half(b) /\ Half(Pred(b)) = 1 - Half(b)
                    /\ b # Succ(b)
  OBVIOUS
<1>1. b = 0 \/ b = 1 \/ b = 2 \/ b = 3
  BY DEF SomeBlock, Blocks
<1>2. QED
  BY <1>1 DEF SomeBlock, Succ, Pred, Half, Blocks

LEMMA CountingFrom0 == /\ Pred(1) = 0 /\ Succ(0) = 1 /\ Half(0) = 0 /\ Half(1) = 1
                       /\ 0 \in SomeBlock
  BY DEF SomeBlock, Succ, Pred, Half, Blocks

\* A step that touches no block.
LEMMA StreamFrame ==
  ASSUME Streams,
         UNCHANGED <<micBlock, ampBlock, tracker, pdm, pcm>>,
         UNCHANGED <<ampOut, ampIndex, ampData, heard>>,
         stalled \subseteq stalled',
         micsRun' /\ Between' =>
           /\ micsRun /\ Between
           /\ \A e \in {"PING", "PONG", "AMP_REFERENCE"} :
                e \in events' \cup pre' <=> e \in events \cup pre
  PROVE  Streams'
<1> SUFFICES ASSUME micsRun', Between' PROVE Streams'
  BY DEF Streams, MicStream, AmpStream
<1>1. /\ micsRun /\ Between
      /\ MicDue' <=> MicDue
      /\ AmpDue' <=> AmpDue
      /\ "PING" \in events' \cup pre' <=> "PING" \in events \cup pre
      /\ "PONG" \in events' \cup pre' <=> "PONG" \in events \cup pre
  BY DEF MicDue, AmpDue
<1>2. MicSeen' = MicSeen /\ AmpSeen' = AmpSeen
  BY <1>1 DEF MicSeen, AmpSeen
<1>3. MicStream'
  BY <1>1, <1>2 DEF Streams, MicStream, PcmSilent
<1>4. AmpStream'
  BY <1>1, <1>2 DEF Streams, AmpStream
<1>5. QED
  BY <1>3, <1>4 DEF Streams

LEMMA FreshStreams ==
  ASSUME Fresh, ampBlock = 0, ~MicDue, ~AmpDue
  PROVE  Streams
<1>1. MicSeen = 0 /\ AmpSeen = 0
  BY DEF Fresh, MicSeen, AmpSeen
<1>2. QED
  BY <1>1, CountingFrom0 DEF Fresh, Streams, MicStream, AmpStream

LEMMA FreshStreamsNext ==
  ASSUME Fresh', ampBlock' = 0, ~MicDue', ~AmpDue'
  PROVE  Streams'
<1>1. MicSeen' = 0 /\ AmpSeen' = 0
  BY DEF Fresh, MicSeen, AmpSeen
<1>2. QED
  BY <1>1, CountingFrom0 DEF Fresh, Streams, MicStream, AmpStream

\* Nothing is due and the microphones' turn is next.
LEMMA MicBlockStreams ==
  ASSUME ~Late, TypeOK, SwitchInv, ReceiveInv, Streams, MicBlock
  PROVE  Streams'
<1>1. /\ micsRun /\ Between /\ pc["pdm"] = "idle" /\ events = {} /\ pre = {}
      /\ "mics" \notin stalled /\ ("amp" \notin stalled => micBlock # Succ(ampBlock))
  BY MicBlockTime
<1>2. /\ micBlock \in SomeBlock /\ ampBlock \in SomeBlock /\ tracker \in 0..1
      /\ pdm \in [0..1 -> SomeBlock \cup {Silence}]
  BY DEF TypeOK, LoopTypeOK, MicTypeOK
<1>3. ~MicDue /\ ~AmpDue /\ MicSeen = micBlock /\ AmpSeen = ampBlock
  BY <1>1 DEF MicDue, AmpDue, MicSeen, AmpSeen
<1>4. tracker = Half(micBlock)
  BY <1>1 DEF Streams, MicStream
<1>5. /\ UNCHANGED <<ampBlock, ampData, micsRun, stalled, pcm, ampOut, ampIndex>>
      /\ UNCHANGED <<pre, heard, pc>>
      /\ micBlock' = Succ(micBlock)
      /\ events' = {IF tracker = 0 THEN "PING" ELSE "PONG"}
      /\ tracker' = 1 - tracker
  BY <1>1 DEF MicBlock, loopVars
<1>6. pdm'[Half(micBlock)] = micBlock
  BY <1>2, Counting DEF MicBlock, Half
<1>7. /\ MicDue' /\ ~AmpDue'
      /\ "PING" \in events' \cup pre' <=> Half(micBlock) = 0
      /\ "PONG" \in events' \cup pre' <=> Half(micBlock) = 1
  BY <1>1, <1>2, <1>4, <1>5 DEF MicDue, AmpDue
<1>8. Pred(micBlock') = micBlock /\ Half(micBlock') = 1 - Half(micBlock)
  BY <1>2, <1>5, Counting
<1>9. MicSeen' = micBlock /\ AmpSeen' = ampBlock
  BY <1>5, <1>7, <1>8 DEF MicSeen, AmpSeen
<1>10. MicStream'
  <2>1. /\ tracker' = Half(micBlock')
        /\ pdm'[Half(Pred(micBlock'))] = Pred(micBlock')
    BY <1>4, <1>5, <1>6, <1>8
  <2>2. \/ MicSeen = 0 /\ PcmSilent
        \/ /\ pcm[Half(Pred(MicSeen))] = Pred(MicSeen)
           /\ heard.mic = pcm[Half(MicSeen)]
           /\ \/ pcm[Half(MicSeen)] = Pred(Pred(MicSeen))
              \/ MicSeen = 1 /\ pcm[Half(MicSeen)] = Silence
    BY Zenon, <1>1 DEF Streams, MicStream
  <2>3. QED
    BY <1>3, <1>5, <1>7, <1>8, <1>9, <2>1, <2>2 DEF MicStream, PcmSilent
<1>11. AmpStream'
  <2>1. "amp" \notin stalled => micBlock = ampBlock
    BY <1>1, <1>3 DEF Streams, AmpStream
  <2>2. /\ ampIndex = 1 - Half(AmpSeen)
        /\ ampOut[Half(AmpSeen)] \in {Pred(AmpSeen), Old}
        /\ ampOut[1 - Half(AmpSeen)] \in {Pred(Pred(AmpSeen)), Old}
    BY <1>1 DEF Streams, AmpStream
  <2>3. QED
    BY <1>3, <1>5, <1>7, <1>9, <2>1, <2>2 DEF AmpStream
<1>12. QED
  BY <1>10, <1>11 DEF Streams

\* The echo reference's turn is next, or nobody captures.
LEMMA AmpBlockStreams ==
  ASSUME ~Late, TypeOK, SwitchInv, ReceiveInv, Streams, AmpBlock
  PROVE  Streams'
<1> SUFFICES ASSUME micsRun', Between' PROVE Streams'
  BY DEF Streams, MicStream, AmpStream
<1>1. /\ UNCHANGED <<micBlock, tracker, pdm, micsRun, stalled, pcm, ampOut>>
      /\ UNCHANGED <<ampIndex, pre, heard, pc>>
      /\ ampBlock' = Succ(ampBlock) /\ ampData' = ampBlock
      /\ events' = events \cup {"AMP_REFERENCE"}
  BY DEF AmpBlock, RxCallback, micVars
<1>2. micsRun /\ Between
  BY <1>1 DEF Between
<1>3. pc["pdm"] = "idle" /\ events = {} /\ pre = {}
  BY <1>2 DEF AmpBlock, InTime, Delayed, At, Between, ReceiveInv, Events
<1>4. "amp" \notin stalled /\ ("mics" \notin stalled => micBlock # ampBlock)
  BY <1>2 DEF AmpBlock, AmpLive, AmpTurn, MicsLive
<1>5. micBlock \in SomeBlock /\ ampBlock \in SomeBlock
  BY DEF TypeOK, LoopTypeOK, MicTypeOK
<1>6. /\ ~MicDue /\ ~AmpDue /\ MicSeen = micBlock /\ AmpSeen = ampBlock
      /\ ~MicDue' /\ AmpDue'
  BY <1>1, <1>3 DEF MicDue, AmpDue, MicSeen, AmpSeen
<1>7. Pred(ampBlock') = ampBlock
  BY <1>1, <1>5, Counting
<1>8. MicSeen' = MicSeen /\ AmpSeen' = AmpSeen
  BY <1>1, <1>6, <1>7 DEF MicSeen, AmpSeen
<1>9. MicStream'
  BY <1>1, <1>2, <1>6, <1>8 DEF Streams, MicStream, PcmSilent
<1>10. AmpStream'
  <2>1. "mics" \notin stalled => micBlock = ampBlock'
    BY <1>1, <1>2, <1>4, <1>6 DEF Streams, AmpStream
  <2>2. /\ ampIndex = 1 - Half(AmpSeen)
        /\ ampOut[Half(AmpSeen)] \in {Pred(AmpSeen), Old}
        /\ ampOut[1 - Half(AmpSeen)] \in {Pred(Pred(AmpSeen)), Old}
    BY <1>2 DEF Streams, AmpStream
  <2>3. QED
    BY <1>1, <1>6, <1>7, <1>8, <2>1, <2>2 DEF AmpStream
<1>11. QED
  BY <1>9, <1>10 DEF Streams

\* pdm_to_pcm_task passes on what is due and only that.
LEMMA ProcessEffect ==
  ASSUME TypeOK, SwitchInv, ReceiveInv, PdmProcess
  PROVE  /\ pc["pdm"] = "process" /\ pc'["pdm"] = "idle" /\ pc'["app"] = pc["app"]
         /\ pc["app"] # "enable"
         /\ pre' = {} /\ UNCHANGED events
         /\ "PING" \notin events /\ "PONG" \notin events /\ "AMP_REFERENCE" \notin events
         /\ "AMP_ERROR" \notin pre /\ post = {}
         /\ UNCHANGED <<s_LoopBackRunning, s_LoopBackStopScheduled, receives, receiver>>
         /\ UNCHANGED <<fifoError, ampIrq, ampBlock, ampData, g_micsOn, micsRun>>
         /\ UNCHANGED <<stalled, micBlock, tracker, pdm>>
         /\ ~MicDue' /\ ~AmpDue'
<1>1. pc["pdm"] = "process" /\ pc'["pdm"] = "idle" /\ pc'["app"] = pc["app"]
  BY GoEffect DEF PdmProcess, At, Tasks
<1>2. /\ pre' = {}
      /\ UNCHANGED <<s_LoopBackRunning, s_LoopBackStopScheduled, receives, receiver>>
      /\ UNCHANGED <<fifoError, ampIrq, ampBlock, ampData, g_micsOn, micsRun, events>>
      /\ UNCHANGED <<stalled, micBlock, tracker, pdm>>
  BY DEF PdmProcess, loopVars
<1>3. /\ "PING" \notin events /\ "PONG" \notin events /\ "AMP_REFERENCE" \notin events
      /\ "AMP_ERROR" \notin pre /\ post = {} /\ pc["app"] # "enable"
  BY <1>1 DEF ReceiveInv, Events
<1>4. QED
  BY <1>1, <1>2, <1>3 DEF MicDue, AmpDue

\* A block of the microphones is converted, and the one before it heard.
LEMMA ProcessMicDue ==
  ASSUME TypeOK, SwitchInv, ReceiveInv, Streams, PdmProcess, MicDue
  PROVE  LET b == Pred(micBlock)
         IN  /\ micsRun /\ Between /\ ~AmpDue /\ b \in SomeBlock
             /\ pcm'[Half(b)] = b
             /\ pcm'[1 - Half(b)] = pcm[1 - Half(b)]
             /\ heard'.mic = pcm[1 - Half(b)]
             /\ heard'.amp = ampOut[1 - Half(b)]
             /\ post' = {}
             /\ UNCHANGED <<ampOut, ampIndex>>
<1> DEFINE b == Pred(micBlock)
<1>1. micsRun /\ Between
  BY ProcessEffect DEF ReceiveInv, Restart, Between
<1>2. b \in SomeBlock /\ Half(b) \in 0..1
  BY Counting DEF TypeOK, MicTypeOK
<1>3. /\ ~AmpDue /\ pdm[Half(b)] = b
      /\ "PING" \in events \cup pre <=> Half(b) = 0
      /\ "PONG" \in events \cup pre <=> Half(b) = 1
  BY <1>1 DEF Streams, MicStream
<1>4. /\ "AMP_REFERENCE" \notin pre
      /\ "PING" \in pre <=> Half(b) = 0
      /\ "PONG" \in pre <=> Half(b) = 1
  BY <1>3, ProcessEffect DEF AmpDue
<1>5. UNCHANGED <<ampOut, ampIndex>>
  BY <1>4 DEF PdmProcess
<1>6. pcm'[Half(b)] = b /\ pcm'[1 - Half(b)] = pcm[1 - Half(b)]
  <2>1. pcm' = [i \in 0..1 |->
                  IF (IF i = 0 THEN "PING" ELSE "PONG") \in pre THEN pdm[i] ELSE pcm[i]]
    BY DEF PdmProcess
  <2>2. CASE Half(b) = 0
    BY <1>3, <1>4, <2>1, <2>2
  <2>3. CASE Half(b) = 1
    BY <1>3, <1>4, <2>1, <2>3
  <2>4. QED
    BY <1>2, <2>2, <2>3
<1>7. Hear(1 - Half(b)) /\ post' = {}
  <2>1. CASE Half(b) = 0
    <3>1. post \cup (pre \cap {"PING", "PONG"}) = {"PING"}
      BY <1>4, <2>1, ProcessEffect
    <3>2. Hear(1) /\ post' = {}
      BY <3>1 DEF PdmProcess
    <3>3. QED
      BY <2>1, <3>2
  <2>2. CASE Half(b) = 1
    <3>1. post \cup (pre \cap {"PING", "PONG"}) = {"PONG"}
      BY <1>4, <2>2, ProcessEffect
    <3>2. Hear(0) /\ post' = {}
      BY <3>1 DEF PdmProcess
    <3>3. QED
      BY <2>2, <3>2
  <2>3. QED
    BY <1>2, <2>1, <2>2
<1>8. heard'.mic = pcm'[1 - Half(b)] /\ heard'.amp = ampOut'[1 - Half(b)]
  BY <1>7 DEF Hear
<1>9. QED
  BY <1>1, <1>2, <1>3, <1>5, <1>6, <1>7, <1>8

LEMMA ProcessNoMicDue ==
  ASSUME TypeOK, SwitchInv, ReceiveInv, PdmProcess, ~MicDue
  PROVE  UNCHANGED <<pcm, heard>> /\ post' = {}
<1>1. "PING" \notin pre /\ "PONG" \notin pre
  BY DEF MicDue
<1>2. pcm' = pcm
  <2>1. pcm' = [i \in 0..1 |->
                  IF (IF i = 0 THEN "PING" ELSE "PONG") \in pre THEN pdm[i] ELSE pcm[i]]
    BY DEF PdmProcess
  <2>2. pcm \in [0..1 -> SomeBlock \cup {Silence}]
    BY DEF TypeOK, MicTypeOK
  <2>3. QED
    BY <1>1, <2>1, <2>2
<1>3. post \cup (pre \cap {"PING", "PONG"}) = {}
  BY <1>1, ProcessEffect
<1>4. QED
  BY <1>2, <1>3 DEF PdmProcess

LEMMA ProcessReceive ==
  ASSUME TypeOK, SwitchInv, ReceiveInv, Streams, PdmProcess
  PROVE  ReceiveInv'
<1>1. post' = {}
  BY ProcessMicDue, ProcessNoMicDue
<1>2. ~micsRun => UNCHANGED pcm
  BY ProcessMicDue, ProcessNoMicDue
<1>3. QED
  BY <1>1, <1>2, ProcessEffect DEF SwitchInv, Repairs, Commands, Loopback, Flags,
     ErrorDue, ReceiveInv, Events, Restart, Unmuting, LoopbackLive, Between, Deaf,
     Fresh, PcmSilent, Chain, Stopping, Starts, Tasks

LEMMA ProcessStreams ==
  ASSUME TypeOK, SwitchInv, ReceiveInv, Streams, PdmProcess
  PROVE  Streams'
<1> SUFFICES ASSUME micsRun', Between' PROVE Streams'
  BY DEF Streams, MicStream, AmpStream
<1>1. /\ micsRun /\ Between /\ ~MicDue' /\ ~AmpDue'
      /\ MicSeen' = micBlock /\ AmpSeen' = ampBlock
      /\ UNCHANGED <<ampBlock, ampData, stalled, micBlock, tracker, pdm>>
  BY ProcessEffect DEF Between, MicSeen, AmpSeen
<1>2. micBlock \in SomeBlock /\ ampBlock \in SomeBlock
  BY DEF TypeOK, LoopTypeOK, MicTypeOK
<1>3. CASE MicDue
  <2> DEFINE b == Pred(micBlock)
  <2>1. /\ ~AmpDue /\ b \in SomeBlock /\ AmpSeen = ampBlock /\ MicSeen = b
        /\ pcm'[Half(b)] = b
        /\ pcm'[1 - Half(b)] = pcm[1 - Half(b)]
        /\ heard'.mic = pcm[1 - Half(b)]
        /\ UNCHANGED <<ampOut, ampIndex>>
    BY <1>3, ProcessMicDue DEF MicSeen, AmpSeen
  <2>2. /\ Half(micBlock) = 1 - Half(b) /\ Half(Pred(b)) = 1 - Half(b)
        /\ Pred(micBlock) = b /\ micBlock = Succ(b) /\ Half(b) \in 0..1
    BY <1>2, <2>1, Counting
  <2>3. \/ b = 0 /\ PcmSilent
        \/ pcm[1 - Half(b)] = Pred(b)
    BY <1>1, <2>1, <2>2 DEF Streams, MicStream
  <2>4. MicStream'
    <3>1. tracker' = Half(micBlock')
      BY <1>1 DEF Streams, MicStream
    <3>2. pcm'[Half(Pred(MicSeen'))] = Pred(MicSeen')
      BY <1>1, <2>1, <2>2
    <3>3. heard'.mic = pcm'[Half(MicSeen')]
      BY <1>1, <2>1, <2>2
    <3>4. \/ pcm'[Half(MicSeen')] = Pred(Pred(MicSeen'))
          \/ MicSeen' = 1 /\ pcm'[Half(MicSeen')] = Silence
      BY <1>1, <2>1, <2>2, <2>3, CountingFrom0 DEF PcmSilent
    <3>5. QED
      BY <1>1, <3>1, <3>2, <3>3, <3>4 DEF MicStream
  <2>5. AmpStream'
    BY <1>1, <1>3, <2>1 DEF Streams, AmpStream
  <2>6. QED
    BY <2>4, <2>5 DEF Streams
<1>4. CASE ~MicDue
  <2>1. UNCHANGED <<pcm, heard>> /\ MicSeen = micBlock
    BY <1>4, ProcessNoMicDue DEF MicSeen
  <2>2. MicStream'
    BY <1>1, <1>4, <2>1 DEF Streams, MicStream, PcmSilent
  <2>3. CASE ~AmpDue
    <3>1. UNCHANGED <<ampOut, ampIndex>> /\ AmpSeen = ampBlock
      BY <2>3 DEF PdmProcess, AmpDue, AmpSeen
    <3>2. AmpStream'
      BY <1>1, <1>4, <2>3, <3>1 DEF Streams, AmpStream
    <3>3. QED
      BY <2>2, <3>2 DEF Streams
  <2>4. CASE AmpDue
    <3> DEFINE a == Pred(ampBlock)
    <3>1. /\ AmpSeen = a /\ a \in SomeBlock /\ Half(a) \in 0..1 /\ ampBlock = Succ(a)
          /\ Half(ampBlock) = 1 - Half(a)
      BY <1>2, <2>4, Counting DEF AmpSeen
    <3>2. /\ ampData = a /\ ampIndex = 1 - Half(a)
          /\ ampOut[Half(a)] \in {Pred(a), Old}
          /\ "amp" \notin stalled /\ "mics" \notin stalled => micBlock = ampBlock
      BY <1>1, <2>4, <3>1 DEF Streams, AmpStream
    <3>3. "AMP_REFERENCE" \in pre
      BY <2>4, ProcessEffect DEF AmpDue
    <3>4. /\ ampOut'[1 - Half(a)] = a /\ ampOut'[Half(a)] = ampOut[Half(a)]
          /\ ampIndex' = Half(a)
      BY <3>1, <3>2, <3>3 DEF PdmProcess, NextAmpIndex, TypeOK, MicTypeOK
    <3>5. 1 - Half(ampBlock) = Half(a)
      BY <3>1
    <3>6. AmpStream'
      BY <1>1, <3>1, <3>2, <3>4, <3>5 DEF AmpStream
    <3>7. QED
      BY <2>2, <3>6 DEF Streams
  <2>5. QED
    BY <2>3, <2>4
<1>5. QED
  BY <1>3, <1>4

LEMMA InitBlocks == Init => BlockInv
<1> SUFFICES ASSUME Init PROVE BlockInv
  OBVIOUS
<1>1. \A t \in Tasks : pc[t] = "idle"
  BY DEF Init, MicInit
<1>2. /\ s_LoopBackRunning /\ ~s_LoopBackStopScheduled /\ receives = 1 /\ receiver
      /\ ~fifoError /\ ampIrq /\ ampBlock = 0 /\ events = {} /\ g_micsOn /\ micsRun
      /\ pre = {} /\ post = {}
  BY Zenon DEF Init, LoopInit, MicInit
<1>3. Fresh
  BY DEF Init, MicInit, Fresh, PcmSilent
<1>4. ~MicDue /\ ~AmpDue
  BY <1>2 DEF MicDue, AmpDue
<1>5. ReceiveInv
  BY <1>1, <1>2, <1>3, <1>4 DEF ReceiveInv, Events, Restart, Unmuting, LoopbackLive,
     Between, Deaf, Chain, Stopping, Starts, Tasks
<1>6. QED
  BY <1>2, <1>3, <1>4, <1>5, FreshStreams DEF BlockInv

\* What a task does in mics_off leaves no capture, or changes no stream.
LEMMA MicsOffStreams ==
  ASSUME TypeOK, SwitchInv, ReceiveInv, Streams, NEW t \in Tasks, MicsOff(t)
  PROVE  Streams'
<1>1. CASE AlreadyOff(t)
  <2>1. /\ UNCHANGED <<micBlock, ampBlock, tracker, pdm, pcm>>
        /\ UNCHANGED <<ampOut, ampIndex, ampData, heard>>
        /\ UNCHANGED <<micsRun, stalled, events, pre>>
    BY <1>1 DEF AlreadyOff, loopVars, micVars
  <2>2. /\ pc[t] = "off" /\ pc'[t] = AfterOff(t)
        /\ \A u \in Tasks \ {t} : pc'[u] = pc[u]
    BY <1>1, GoEffect DEF AlreadyOff, At
  <2>3. Between' => Between
    BY <2>2 DEF Between, AfterOff, Tasks
  <2>4. QED
    BY <2>1, <2>3, StreamFrame
<1>2. CASE StopMics(t)
  BY <1>2 DEF StopMics, Streams, MicStream, AmpStream
<1>3. CASE LoopbackDisable(t)
  <2>1. ~micsRun'
    BY <1>3, DisableQuiet, DisableEffect
       DEF DisableStep, SwitchInv, Flags, Stopping
  <2>2. QED
    BY <2>1 DEF Streams, MicStream, AmpStream
<1>4. CASE FlagOff(t)
  <2>1. ~micsRun'
    BY <1>4 DEF FlagOff, At, SwitchInv, Flags, Stopping
  <2>2. QED
    BY <2>1 DEF Streams, MicStream, AmpStream
<1>5. QED
  BY Zenon, <1>1, <1>2, <1>3, <1>4 DEF MicsOff

\* A stream begins with SLN_AMP_LoopbackEnable, for pdm_to_pcm_task when it has
\* done.
LEMMA MicsOnStreams ==
  ASSUME TypeOK, SwitchInv, ReceiveInv, Streams, NEW t \in Tasks, MicsOn(t)
  PROVE  Streams'
<1>1. CASE AlreadyOn(t)
  <2>1. /\ UNCHANGED <<micBlock, ampBlock, tracker, pdm, pcm>>
        /\ UNCHANGED <<ampOut, ampIndex, ampData, heard>>
        /\ UNCHANGED <<micsRun, stalled, events, pre>>
    BY <1>1 DEF AlreadyOn, loopVars, micVars
  <2>2. /\ pc[t] = "on" /\ pc'[t] = AfterOn(t, pre) /\ g_micsOn
        /\ \A u \in Tasks \ {t} : pc'[u] = pc[u]
    BY <1>1, GoEffect DEF AlreadyOn, At
  <2>3. t = "app"
    BY <2>2 DEF SwitchInv, Flags, Tasks
  <2>4. Between' => Between
    BY <2>2, <2>3 DEF Between, AfterOn, Tasks
  <2>5. QED
    BY <2>1, <2>4, StreamFrame
<1>2. CASE StartMics(t)
  <2>1. pc'[t] = "enable"
    BY <1>2, GoEffect DEF StartMics
  <2>2. ~Between'
    BY <2>1 DEF Between, Tasks
  <2>3. QED
    BY <2>2 DEF Streams, MicStream, AmpStream
<1>3. CASE EnableLoopback(t)
  <2>1. /\ pc[t] = "enable" /\ pc'[t] = "flagOn"
        /\ \A u \in Tasks \ {t} : pc'[u] = pc[u]
    BY <1>3, GoEffect DEF EnableLoopback, At
  <2>2. Fresh /\ ~s_LoopBackRunning
    BY <2>1 DEF ReceiveInv, Restart, SwitchInv, Loopback
  <2>3. /\ UNCHANGED <<micBlock, tracker, pcm, ampOut, ampIndex, events, pre>>
        /\ ampBlock' = 0
    BY <1>3, <2>2 DEF EnableLoopback, LoopbackEnable
  <2>4. CASE t = "app"
    <3>1. events = {} /\ pre = {}
      BY <2>1, <2>4 DEF ReceiveInv, Events
    <3>2. Fresh' /\ ~MicDue' /\ ~AmpDue'
      BY <2>2, <2>3, <3>1 DEF Fresh, PcmSilent, MicDue, AmpDue
    <3>3. QED
      BY <2>3, <3>2, FreshStreamsNext
  <2>5. CASE t = "pdm"
    <3>1. ~Between'
      BY <2>1, <2>5 DEF Between
    <3>2. QED
      BY <3>1 DEF Streams, MicStream, AmpStream
  <2>6. QED
    BY <2>4, <2>5 DEF Tasks
<1>4. CASE FlagOn(t)
  <2>1. /\ UNCHANGED <<micBlock, ampBlock, tracker, pdm, pcm>>
        /\ UNCHANGED <<ampOut, ampIndex, ampData, heard>>
        /\ UNCHANGED <<micsRun, stalled, events, pre>>
    BY <1>4 DEF FlagOn, loopVars
  <2>2. /\ pc[t] = "flagOn" /\ pc'[t] = AfterOn(t, pre)
        /\ \A u \in Tasks \ {t} : pc'[u] = pc[u]
    BY <1>4, GoEffect DEF FlagOn, At
  <2>3. CASE t = "app"
    <3>1. Between' => Between
      BY <2>2, <2>3 DEF Between, AfterOn, Tasks
    <3>2. QED
      BY <2>1, <3>1, StreamFrame
  <2>4. CASE t = "pdm"
    <3>1. /\ Fresh /\ ampBlock = 0 /\ pre = {}
          /\ "PING" \notin events /\ "PONG" \notin events /\ "AMP_REFERENCE" \notin events
      BY <2>2, <2>4 DEF ReceiveInv, Restart, Events
    <3>2. Fresh' /\ ampBlock' = 0 /\ ~MicDue' /\ ~AmpDue'
      BY <2>1, <3>1 DEF Fresh, PcmSilent, MicDue, AmpDue
    <3>3. QED
      BY <3>2, FreshStreamsNext
  <2>5. QED
    BY <2>3, <2>4 DEF Tasks
<1>5. QED
  BY Zenon, <1>1, <1>2, <1>3, <1>4 DEF MicsOn

\* The steps that neither receive nor switch.
LEMMA QuietStreams ==
  ASSUME TypeOK, ReceiveInv, Streams,
         \/ PdmWake \/ PdmTimeout \/ AmpIrq \/ Devices \/ MuteCommand \/ AppMicUpdate
         \/ UNCHANGED vars
  PROVE  Streams'
<1>1. /\ UNCHANGED <<micBlock, ampBlock, tracker, pdm, pcm>>
      /\ UNCHANGED <<ampOut, ampIndex, ampData, heard>>
      /\ UNCHANGED micsRun /\ stalled \subseteq stalled'
  BY DEF PdmWake, PdmTimeout, AmpIrq, SAI_UserRxIRQHandler, Devices, FifoError, Stall,
     MuteCommand, AppMicUpdate, vars, loopVars, micVars
<1>2. CASE PdmWake
  <2>1. /\ pc["pdm"] = "idle" /\ pc'["app"] = pc["app"] /\ pre' = events /\ events' = {}
        /\ pre = {}
    BY <1>2, GoEffect DEF PdmWake, At, Tasks, ReceiveInv, Events
  <2>2. Between' => Between
    BY <2>1 DEF Between
  <2>3. \A e : e \in events' \cup pre' <=> e \in events \cup pre
    BY <2>1
  <2>4. QED
    BY <1>1, <2>2, <2>3, StreamFrame
<1>3. CASE PdmTimeout
  <2>1. pc'["pdm"] = "off"
    BY <1>3, GoEffect DEF PdmTimeout, Tasks
  <2>2. ~Between'
    BY <2>1 DEF Between
  <2>3. QED
    BY <2>2 DEF Streams, MicStream, AmpStream
<1>4. CASE AmpIrq
  <2>1. UNCHANGED <<pc, pre>>
    BY <1>4 DEF AmpIrq, micVars
  <2>2. events' = events \/ events' = events \cup {"AMP_ERROR"}
    BY <1>4 DEF AmpIrq, SAI_UserRxIRQHandler
  <2>3. \A e \in {"PING", "PONG", "AMP_REFERENCE"} :
          e \in events' \cup pre' <=> e \in events \cup pre
    BY <2>1, <2>2
  <2>4. Between' => Between
    BY <2>1 DEF Between
  <2>5. QED
    BY <1>1, <2>3, <2>4, StreamFrame
<1>5. CASE Devices \/ MuteCommand \/ AppMicUpdate \/ UNCHANGED vars
  <2>1. UNCHANGED <<events, pre>>
    BY <1>5 DEF Devices, FifoError, Stall, MuteCommand, AppMicUpdate, vars, loopVars,
       micVars
  <2>2. UNCHANGED pc \/ (pc'["pdm"] = pc["pdm"] /\ pc["app"] = "idle")
    BY <1>5, GoEffect
       DEF Devices, FifoError, Stall, MuteCommand, AppMicUpdate, At, vars, micVars,
           Tasks
  <2>3. Between' => Between
    BY <2>2 DEF Between
  <2>4. QED
    BY <1>1, <2>1, <2>3, StreamFrame
<1>6. QED
  BY Zenon, <1>2, <1>3, <1>4, <1>5

-----------------------------------------------------------------------------
LEMMA StepBlocks ==
  ASSUME ~Late, ~Overlap, TypeOK, SwitchInv, BlockInv, [Next]_vars
  PROVE  BlockInv'
<1> USE DEF BlockInv
<1>1. CASE AppMicUpdate \/ MuteCommand
  BY Zenon, <1>1, CommandReceive, QuietStreams
<1>2. CASE AppNext /\ (MicsOff("app") \/ MicsOn("app"))
  <2>1. "app" \in Tasks
    BY DEF Tasks
  <2>2. QED
    BY Zenon, <1>2, <2>1, AppOffReceive, AppOnReceive, MicsOffStreams, MicsOnStreams
       DEF AppNext
<1>3. CASE MicsOff("pdm") \/ MicsOn("pdm")
  <2>1. "pdm" \in Tasks
    BY DEF Tasks
  <2>2. QED
    BY Zenon, <1>3, <2>1, PdmOffReceive, PdmOnReceive, MicsOffStreams, MicsOnStreams
<1>4. CASE PdmWake \/ PdmTimeout
  BY Zenon, <1>4, PdmWakeReceive, QuietStreams
<1>5. CASE PdmProcess
  BY Zenon, <1>5, ProcessReceive, ProcessStreams
<1>6. CASE AmpIrq
  BY Zenon, <1>6, IrqReceive, QuietStreams
<1>7. CASE MicBlock
  BY Zenon, <1>7, MicBlockReceive, MicBlockStreams
<1>8. CASE AmpBlock
  BY Zenon, <1>8, AmpBlockReceive, AmpBlockStreams
<1>9. CASE Devices
  BY Zenon, <1>9, DeviceReceive, QuietStreams
<1>10. CASE UNCHANGED vars
  <2>1. ReceiveInv'
    BY <1>10 DEF vars, loopVars, micVars, ReceiveInv, Events, Restart, Unmuting,
       LoopbackLive, Between, Deaf, Fresh, PcmSilent, MicDue
  <2>2. QED
    BY <1>10, <2>1, QuietStreams
<1>11. QED
  BY Zenon, <1>1, <1>2, <1>3, <1>4, <1>5, <1>6, <1>7, <1>8, <1>9, <1>10
     DEF Next, AppNext, PdmNext, PdmStep, MicDma, AmpDma

LEMMA BlocksHold ==
  ASSUME ~Late, ~Overlap
  PROVE  Spec => [](TypeOK /\ SwitchInv /\ BlockInv)
<1>1. TypeOK /\ SwitchInv /\ BlockInv /\ [Next]_vars =>
        (TypeOK /\ SwitchInv /\ BlockInv)'
  BY Zenon, StepTypes, StepSwitch, StepBlocks
<1>2. Init => TypeOK /\ SwitchInv /\ BlockInv
  BY Zenon, InitSwitch, InitBlocks
<1>3. QED
  BY <1>1, <1>2, PTL DEF Spec

\* The front end works only when pdm_to_pcm_task wakes it.
LEMMA OnlyProcessIsHeard ==
  ASSUME TypeOK, SwitchInv, ReceiveInv, [Next]_vars, heard' # heard
  PROVE  PdmProcess /\ MicDue
<1>1. ASSUME NEW t, MicsOff(t) \/ MicsOn(t) PROVE UNCHANGED heard
  BY <1>1 DEF MicsOff, AlreadyOff, StopMics, LoopbackDisable, FlagOff, MicsOn,
     AlreadyOn, StartMics, EnableLoopback, FlagOn, micVars
<1>2. ASSUME AmpIrq \/ Devices \/ MuteCommand \/ AppMicUpdate \/ UNCHANGED vars
      PROVE  UNCHANGED heard
  BY <1>2
     DEF AmpIrq, Devices, FifoError, Stall, MuteCommand, AppMicUpdate, vars, micVars
<1>3. ASSUME MicBlock \/ AmpBlock \/ PdmWake \/ PdmTimeout
      PROVE  UNCHANGED heard
  BY <1>3 DEF MicBlock, AmpBlock, PdmWake, PdmTimeout, micVars
<1>4. PdmProcess
  BY Zenon, <1>1, <1>2, <1>3 DEF Next, AppNext, PdmNext, PdmStep, MicDma, AmpDma
<1>5. QED
  BY <1>4, ProcessNoMicDue

\* When pdm_to_pcm_task is never late for a block, no mute falls into a repair
\* and no failure into a mute, every block of the microphones goes to the front
\* end with the block of the echo reference that was received just before it,
\* or with none: mutes and repairs that switch both streams off and on at any
\* point leave u32AmpIndex and pingPongTracker in step.
THEOREM MicsAndLoopbackInSync ==
  ASSUME ~Late, ~Overlap
  PROVE  Spec => InSync
<1>1. TypeOK /\ SwitchInv /\ BlockInv /\ [Next]_vars =>
        [heard' # heard /\ "amp" \notin stalled =>
           \/ heard'.mic = Silence
           \/ heard'.amp = Old
           \/ heard'.mic = Succ(heard'.amp)]_vars
  <2> SUFFICES ASSUME TypeOK, SwitchInv, BlockInv, [Next]_vars,
                      heard' # heard, "amp" \notin stalled
               PROVE  \/ heard'.mic = Silence
                      \/ heard'.amp = Old
                      \/ heard'.mic = Succ(heard'.amp)
    OBVIOUS
  <2> DEFINE b == Pred(micBlock)
  <2>1. PdmProcess /\ MicDue /\ ReceiveInv /\ Streams
    BY OnlyProcessIsHeard DEF BlockInv
  <2>2. /\ micsRun /\ Between /\ ~AmpDue /\ b \in SomeBlock
        /\ heard'.mic = pcm[1 - Half(b)]
        /\ heard'.amp = ampOut[1 - Half(b)]
    BY <2>1, ProcessMicDue
  <2>3. MicSeen = b /\ AmpSeen = ampBlock
    BY <2>1, <2>2 DEF MicSeen, AmpSeen
  <2>4. Half(Pred(b)) = 1 - Half(b) /\ Pred(b) \in SomeBlock /\ Pred(micBlock) = b
    BY <2>2, Counting
  <2>5. ampBlock = b
    <3>1. micBlock = Succ(ampBlock) /\ ampBlock \in SomeBlock
      BY <2>1, <2>2 DEF Streams, AmpStream, TypeOK, LoopTypeOK
    <3>2. QED
      BY <3>1, Counting
  <2>6. ampOut[1 - Half(b)] \in {Pred(Pred(b)), Old}
    BY <2>1, <2>2, <2>3, <2>5 DEF Streams, AmpStream
  <2>7. pcm[1 - Half(b)] \in {Silence, Pred(b)}
    <3>1. CASE MicSeen = 0 /\ PcmSilent
      BY <2>2, <2>3, <3>1, CountingFrom0 DEF PcmSilent
    <3>2. CASE pcm[Half(Pred(MicSeen))] = Pred(MicSeen)
      BY <2>3, <2>4, <3>2
    <3>3. QED
      BY <2>1, <2>2, <3>1, <3>2 DEF Streams, MicStream
  <2>8. Succ(Pred(Pred(b))) = Pred(b)
    BY <2>4, Counting
  <2>9. QED
    BY <2>2, <2>6, <2>7, <2>8
<1>2. QED
  BY <1>1, BlocksHold, PTL DEF Spec, InSync

\* Under the same conditions the front end gets the blocks of the microphones
\* one after the other from the first after a start, none twice and none left
\* out: what is left of an earlier capture in the buffers, the tracker or the
\* pending events is never taken for a new block.
THEOREM MicBlocksInOrder ==
  ASSUME ~Late, ~Overlap
  PROVE  Spec => BlocksInOrder
<1>1. TypeOK /\ SwitchInv /\ BlockInv /\ [Next]_vars =>
        [heard' # heard =>
           \/ heard'.mic = Silence
           \/ heard'.mic = (IF heard.mic = Silence THEN 0 ELSE Succ(heard.mic))]_vars
  <2> SUFFICES ASSUME TypeOK, SwitchInv, BlockInv, [Next]_vars, heard' # heard
               PROVE  \/ heard'.mic = Silence
                      \/ heard'.mic = (IF heard.mic = Silence THEN 0 ELSE Succ(heard.mic))
    OBVIOUS
  <2> DEFINE b == Pred(micBlock)
  <2>1. PdmProcess /\ MicDue /\ ReceiveInv /\ Streams
    BY OnlyProcessIsHeard DEF BlockInv
  <2>2. /\ micsRun /\ Between /\ b \in SomeBlock
        /\ heard'.mic = pcm[1 - Half(b)]
    BY <2>1, ProcessMicDue
  <2>3. MicSeen = b
    BY <2>1 DEF MicSeen
  <2>4. /\ Half(Pred(b)) = 1 - Half(b) /\ Half(b) \in 0..1
        /\ Pred(Pred(b)) \in SomeBlock /\ Succ(Pred(Pred(b))) = Pred(b)
    BY <2>2, Counting
  <2>5. CASE b = 0 /\ PcmSilent
    BY <2>2, <2>5, CountingFrom0 DEF PcmSilent
  <2>6. CASE heard.mic = Pred(Pred(b)) /\ pcm[1 - Half(b)] = Pred(b)
    BY <2>2, <2>4, <2>6, MicrophonesAssumption
  <2>7. CASE b = 1 /\ heard.mic = Silence /\ pcm[1 - Half(b)] = Pred(b)
    BY <2>2, <2>7, CountingFrom0
  <2>8. QED
    BY <2>1, <2>2, <2>3, <2>4, <2>5, <2>6, <2>7 DEF Streams, MicStream
<1>2. QED
  BY <1>1, BlocksHold, PTL DEF Spec, BlocksInOrder

=============================================================================
