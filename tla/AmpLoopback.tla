---------------------------- MODULE AmpLoopback ----------------------------
(***************************************************************************)
(* The echo reference: what the amplifier plays is received back over SAI3 *)
(* in blocks of 10 ms (sln_amplifier.c, built with USE_TFA).  Each block   *)
(* that is complete asks for the next; a receiver nobody reads overflows,  *)
(* and its error interrupt means an orderly stop or an internal error.     *)
(***************************************************************************)
EXTENDS Naturals

CONSTANT
  Old,        \* a block of before the last start
  AmpErrors   \* whether the receiver may fail while it is being read

ASSUME LoopbackAssumption == AmpErrors \in BOOLEAN

VARIABLES
  s_LoopBackRunning,
  s_LoopBackStopScheduled,
  receives,   \* transfers queued for the DMA of SAI3
  receiver,   \* SAI3 is receiving
  fifoError,  \* its FIFO error flag
  ampIrq,     \* SAI3_RX_IRQn is enabled; so is its DMAMUX channel
  ampBlock,   \* the block that is being received, modulo Blocks
  ampData,    \* the block in s_AmpRxDataBuffer
  events      \* s_PdmDmaEventGroup

loopVars == <<s_LoopBackRunning, s_LoopBackStopScheduled, receives, receiver,
              fifoError, ampIrq, ampBlock, ampData>>

\* Block numbers wrap; four tell ping from pong and one round from the next.
Blocks == 4

Succ(block) == (block + 1) % Blocks

SomeBlock == 0..Blocks - 1

AllEvents == {"PING", "PONG", "AMP_REFERENCE", "AMP_ERROR"}

LoopTypeOK ==
  /\ s_LoopBackRunning \in BOOLEAN
  /\ s_LoopBackStopScheduled \in BOOLEAN
  /\ receives \in 0..4
  /\ receiver \in BOOLEAN
  /\ fifoError \in BOOLEAN
  /\ ampIrq \in BOOLEAN
  /\ ampBlock \in SomeBlock
  /\ ampData \in SomeBlock \cup {Old}
  /\ events \in SUBSET AllEvents

\* SLN_AMP_Read has been called by pdm_to_pcm_task.
LoopInit ==
  /\ s_LoopBackRunning = TRUE
  /\ s_LoopBackStopScheduled = FALSE
  /\ receives = 1
  /\ receiver = TRUE
  /\ fifoError = FALSE
  /\ ampIrq = TRUE
  /\ ampBlock = 0
  /\ ampData = Old
  /\ events = {}

-----------------------------------------------------------------------------
\* External: SAI_TransferTerminateReceiveEDMA
TerminateReceive ==
  /\ receives' = 0
  /\ receiver' = FALSE
  /\ fifoError' = FALSE

\* SLN_AMP_RxCallback
RxCallback ==
  /\ receiver
  /\ receives > 0
  /\ ampIrq
  /\ ampData' = ampBlock
  /\ ampBlock' = Succ(ampBlock)
  /\ events' = events \cup {"AMP_REFERENCE"}
  /\ receives' = IF s_LoopBackStopScheduled THEN receives - 1 ELSE receives
  /\ UNCHANGED <<s_LoopBackRunning, s_LoopBackStopScheduled, receiver, fifoError,
                 ampIrq>>

\* External: the FIFO overflows when nobody reads it, or for another reason.
FifoError ==
  /\ receiver
  /\ ~fifoError
  /\ receives = 0 \/ ~ampIrq \/ AmpErrors
  /\ fifoError' = TRUE
  /\ UNCHANGED <<s_LoopBackRunning, s_LoopBackStopScheduled, receives, receiver,
                 ampIrq, ampBlock, ampData, events>>

\* Mutant: the receiver is ended, but nobody is told.
SAI_UserRxIRQHandlerSilent ==
  /\ fifoError
  /\ ampIrq
  /\ s_LoopBackRunning' = FALSE
  /\ IF s_LoopBackRunning /\ ~s_LoopBackStopScheduled
       THEN TerminateReceive
       ELSE fifoError' = s_LoopBackRunning /\ UNCHANGED <<receives, receiver>>
  /\ UNCHANGED <<s_LoopBackStopScheduled, ampIrq, ampBlock, ampData, events>>

\* While the loopback runs the flag is an error, unless a stop is scheduled;
\* otherwise it is only cleared.
SAI_UserRxIRQHandler ==
  /\ fifoError
  /\ ampIrq
  /\ s_LoopBackRunning' = FALSE
  /\ IF s_LoopBackRunning /\ ~s_LoopBackStopScheduled
       THEN TerminateReceive /\ events' = events \cup {"AMP_ERROR"}
       ELSE fifoError' = s_LoopBackRunning /\ UNCHANGED <<receives, receiver, events>>
  /\ UNCHANGED <<s_LoopBackStopScheduled, ampIrq, ampBlock, ampData>>

-----------------------------------------------------------------------------
\* SLN_AMP_LoopbackDisable, between its delays.
ScheduleStop ==
  /\ s_LoopBackStopScheduled' = TRUE
  /\ UNCHANGED <<s_LoopBackRunning, receives, receiver, fifoError, ampIrq, ampBlock,
                 ampData>>

Terminate ==
  /\ TerminateReceive
  /\ UNCHANGED <<s_LoopBackRunning, s_LoopBackStopScheduled, ampIrq, ampBlock, ampData>>

Terminated ==
  /\ s_LoopBackRunning' = FALSE
  /\ UNCHANGED <<s_LoopBackStopScheduled, receives, receiver, fifoError, ampIrq,
                 ampBlock, ampData>>

Disable ==
  /\ s_LoopBackStopScheduled' = FALSE
  /\ ampIrq' = FALSE
  /\ UNCHANGED <<s_LoopBackRunning, receives, receiver, fifoError, ampBlock, ampData>>

\* SLN_AMP_LoopbackEnable with SLN_AMP_Read; the queue holds four transfers.
LoopbackEnable ==
  /\ ampIrq' = TRUE
  /\ s_LoopBackRunning' = TRUE
  /\ IF s_LoopBackRunning
       THEN UNCHANGED <<receives, receiver, ampBlock>>
       ELSE /\ receives' = IF receives < 4 THEN receives + 1 ELSE receives
            /\ receiver' = TRUE
            /\ ampBlock' = 0
  /\ UNCHANGED <<s_LoopBackStopScheduled, fifoError, ampData>>

=============================================================================
