------------------------- MODULE ConnectivityProofs -------------------------
(***************************************************************************)
(* Proofs about Connectivity, for every set of names, passwords, messages, *)
(* commands and initial files, every size of the buffer and of the heap,   *)
(* with and without faults, overflows and power losses.                    *)
(***************************************************************************)
EXTENDS Connectivity, TLAPS

-----------------------------------------------------------------------------
(***************************************************************************)
(* Types.  What is counted stays in its range because a refusal is counted *)
(* only before the fourth, a buffer is given back only by the connection   *)
(* that took it, and a message is received only up to its size.            *)
(***************************************************************************)
RefusalsLeft == tcp \in {"join", "reread", "ifadd"} => authAttempts <= 3

Received ==
  /\ tcp = "header" => message \in Messages /\ left <= message.size
  /\ tcp = "body" =>
       /\ message \in Messages
       /\ message.size <= MaxBufferSize
       /\ bytesRead + left <= message.size

\* The flags are a part of their own: the provers keep them and the numbers
\* apart.
Flags ==
  /\ connected \in BOOLEAN
  /\ accessPoint \in BOOLEAN
  /\ linked \in BOOLEAN
  /\ sendplus \in BOOLEAN

NetNumbers ==
  /\ credentials \in Credentials
  /\ attempts \in 0..3
  /\ authAttempts \in 0..4
  /\ interfaces \in Nat

ServerNumbers ==
  /\ message \in Messages \cup {NoMessage}
  /\ left \in 0..MaxBufferSize + 1
  /\ bytesRead \in 0..MaxBufferSize
  /\ buffers \in 0..HeapBuffers
  /\ handled \in 0..HeapBuffers
  /\ inflight \in Seq(Writes)
  /\ delivered \in SUBSET Writes

NetInv ==
  /\ NetNumbers
  /\ RefusalsLeft

ServerInv ==
  /\ ServerNumbers
  /\ Received
  /\ BuffersAccounted

TypeInv ==
  /\ FicaTypeOK
  /\ ShellTypeOK
  /\ tcp \in NetLabels \cup ServerLabels
  /\ Flags
  /\ NetInv
  /\ ServerInv

LEMMA TypeInvTypes == TypeInv => TypeOK
  BY Zenon DEF TypeInv, TypeOK, NetInv, ServerInv, NetTypeOK, ServerTypeOK,
     Flags, NetNumbers, ServerNumbers

LEMMA ZeroCredentialsType == ZeroCredentials \in Credentials
  BY DEF ZeroCredentials, Credentials

LEMMA NoMessageType == NoMessage \notin Messages
  BY ServerAssumption DEF NoMessage, Messages

LEMMA TypeInit == Init => TypeInv
<1> SUFFICES ASSUME Init PROVE TypeInv
  OBVIOUS
<1>1. FicaTypeOK
  BY DEF Init, FicaTypeOK
<1>2. ShellTypeOK
  BY ZeroCredentialsType, ConnectivityAssumption
     DEF Init, ShellInit, ShellTypeOK, ShellLabels
<1>3. tcp \in NetLabels \cup ServerLabels
  BY DEF Init, NetLabels
<1>4. Flags
  BY Zenon DEF Init, NetInit, ServerInit, Flags
<1>5. NetInv
  <2>1. /\ tcp = "boot" /\ credentials = ZeroCredentials
        /\ attempts = 0 /\ authAttempts = 0 /\ interfaces = 0
    BY Zenon DEF Init, NetInit
  <2>2. QED
    BY <2>1, ZeroCredentialsType DEF NetInv, NetNumbers, RefusalsLeft
<1>6. ServerInv
  BY ServerAssumption
     DEF Init, ServerInit, ServerInv, ServerNumbers, Received, BuffersAccounted
<1>7. QED
  BY Zenon, <1>1, <1>2, <1>3, <1>4, <1>5, <1>6 DEF TypeInv

LEMMA RestartTypes ==
  ASSUME TypeInv, Restart, wifiFile' \in Credentials \cup {None, Broken}
  PROVE  TypeInv'
<1>1. FicaTypeOK'
  BY DEF Restart, BootLoader, FicaTypeOK, TypeInv
<1>2. ShellTypeOK'
  <2>1. /\ s_wifi_cred' = ZeroCredentials /\ image' = ZeroCredentials
        /\ shellEvents' = {} /\ taken' = {} /\ shell' = "wait"
    BY Zenon DEF Restart, ShellRestart
  <2>2. QED
    BY <2>1, ZeroCredentialsType DEF ShellTypeOK, ShellLabels
<1>3. tcp' \in NetLabels \cup ServerLabels
  BY DEF Restart, NetLabels
<1>4. Flags'
  BY Zenon DEF Restart, NetRestart, ServerRestart, Flags, TypeInv
<1>5. NetInv'
  <2>1. /\ tcp' = "boot" /\ credentials' = ZeroCredentials
        /\ attempts' = 0 /\ authAttempts' = 0 /\ interfaces' = 0
    BY Zenon DEF Restart, NetRestart
  <2>2. QED
    BY <2>1, ZeroCredentialsType DEF NetInv, NetNumbers, RefusalsLeft
<1>6. ServerInv'
  <2>1. /\ tcp' = "boot" /\ message' = NoMessage /\ left' = 0
        /\ bytesRead' = 0 /\ buffers' = HeapBuffers /\ handled' = 0
        /\ inflight' = <<>> /\ delivered' = {}
    BY Zenon DEF Restart, ServerRestart
  <2>2. QED
    BY <2>1, ServerAssumption
       DEF ServerInv, ServerNumbers, Received, BuffersAccounted
<1>7. QED
  BY Zenon, <1>1, <1>2, <1>3, <1>4, <1>5, <1>6 DEF TypeInv

\* What the shell and the interrupt leave alone.
LEMMA TaskUnchanged ==
  ASSUME TypeInv, UNCHANGED taskVars
  PROVE  (tcp \in NetLabels \cup ServerLabels)' /\ Flags' /\ NetInv' /\ ServerInv'
<1>1. UNCHANGED <<tcp, accessPoint>> /\ UNCHANGED netVars /\ UNCHANGED serverVars
  BY Zenon DEF taskVars
<1>2. /\ UNCHANGED <<credentials, attempts, authAttempts, connected>>
      /\ UNCHANGED <<interfaces, linked>>
      /\ UNCHANGED <<message, left, bytesRead, buffers>>
      /\ UNCHANGED <<handled, inflight, sendplus, delivered>>
  BY <1>1 DEF netVars, serverVars
<1>3. Flags'
  BY Zenon, <1>1, <1>2 DEF TypeInv, Flags
<1>4. NetInv'
  BY <1>1, <1>2 DEF TypeInv, NetInv, NetNumbers, RefusalsLeft
<1>5. ServerInv'
  BY <1>1, <1>2
     DEF TypeInv, ServerInv, ServerNumbers, Received, BuffersAccounted
<1>6. QED
  BY Zenon, <1>1, <1>3, <1>4, <1>5 DEF TypeInv

LEMMA ShellTypes ==
  ASSUME ShellTypeOK, FicaTypeOK, ShellStep
  PROVE  ShellTypeOK' /\ FicaTypeOK'
<1>1. ShellTypeOK'
  <2>1. CASE ShellWake
    BY <2>1 DEF ShellWake, ShellTypeOK, ShellLabels
  <2>2. CASE ShellSetup
    BY <2>2 DEF ShellSetup, ShellTypeOK, ShellLabels
  <2>3. CASE ShellErase
    BY <2>3 DEF ShellErase, ShellTypeOK, ShellLabels
  <2>4. CASE ShellReset
    BY <2>4 DEF ShellReset, ShellTypeOK, ShellLabels
  <2>5. CASE SaveRetire
    BY <2>5 DEF SaveRetire, ShellTypeOK, ShellLabels, InSave
  <2>6. CASE SaveOverflow
    BY <2>6 DEF SaveOverflow, ShellTypeOK, ShellLabels
  <2>7. CASE SaveErase
    BY <2>7 DEF SaveErase, ShellTypeOK, ShellLabels
  <2>8. CASE EncryptName
    BY <2>8, ZeroCredentialsType
       DEF EncryptName, ShellTypeOK, ShellLabels, InSave, Source, Credentials
  <2>9. CASE EncryptPassword
    BY <2>9, ZeroCredentialsType
       DEF EncryptPassword, ShellTypeOK, ShellLabels, InSave, Source, Credentials
  <2>10. CASE SaveProgram
    BY <2>10 DEF SaveProgram, ShellTypeOK, ShellLabels
  <2>11. CASE SaveFail
    BY <2>11 DEF SaveFail, ShellTypeOK, ShellLabels
  <2>12. QED
    BY Zenon, <2>1, <2>2, <2>3, <2>4, <2>5, <2>6, <2>7, <2>8, <2>9, <2>10, <2>11
       DEF ShellStep, SaveStep
<1>2. UNCHANGED fica
  BY Zenon DEF ShellStep, SaveStep, ShellWake, ShellSetup, ShellErase,
     ShellReset, SaveRetire, SaveOverflow, SaveErase, EncryptName,
     EncryptPassword, SaveProgram, SaveFail
<1>3. QED
  BY <1>1, <1>2 DEF FicaTypeOK

LEMMA InterruptTypes ==
  ASSUME ShellTypeOK, FicaTypeOK, UsbInterrupt
  PROVE  ShellTypeOK' /\ FicaTypeOK'
<1>1. ASSUME NEW name \in Names,
             NEW password \in Passwords \cup {"", TooLong},
             Setup(name, password)
      PROVE  ShellTypeOK' /\ FicaTypeOK'
  <2>1. s_wifi_cred' \in Credentials
    BY <1>1 DEF Setup, ShellTypeOK, Credentials
  <2>2. QED
    BY <1>1, <2>1 DEF Setup, Raise, ShellTypeOK, FicaTypeOK, Events
<1>2. CASE EraseCommand
  BY <1>2 DEF EraseCommand, Raise, ShellTypeOK, FicaTypeOK, Events
<1>3. CASE ResetCommand
  BY <1>3 DEF ResetCommand, Raise, ShellTypeOK, FicaTypeOK, Events
<1>4. CASE UpdateOta
  BY <1>4 DEF UpdateOta, Raise, FWUpdate_set_SLN_OTA, FICA_clr_bits,
     ShellTypeOK, FicaTypeOK, Events
<1>5. CASE UpdateOtw
  BY <1>5 DEF UpdateOtw, Raise, FWUpdate_set_SLN_OTW, FICA_clr_bits,
     ShellTypeOK, FicaTypeOK, Events
<1>6. QED
  BY <1>1, <1>2, <1>3, <1>4, <1>5 DEF UsbInterrupt


LEMMA FlashGetType ==
  ASSUME ShellTypeOK, FlashGet
  PROVE  credentials' \in Credentials
  BY ZeroCredentialsType DEF FlashGet

LEMMA NetTypes ==
  ASSUME TypeInv, NetStep \/ DhcpBound,
         UNCHANGED <<shellVars, fica, serverVars>>
  PROVE  (tcp \in NetLabels \cup ServerLabels)' /\ Flags' /\ NetInv' /\ ServerInv'
<1> USE DEF Continue, CountAttempt
<1>1. /\ ShellTypeOK /\ Flags /\ NetInv /\ ServerInv
      /\ tcp \in NetLabels \cup ServerLabels
  BY Zenon DEF TypeInv
<1>2. /\ UNCHANGED <<message, left, bytesRead, buffers>>
      /\ UNCHANGED <<handled, inflight, sendplus, delivered>>
  BY DEF serverVars
<1>3. /\ tcp \in NetLabels \ {"deleted", "assert"}
      /\ tcp' \in NetLabels \cup {"listen"}
      /\ NetInv'
  <2> USE <1>1 DEF NetInv, NetNumbers, RefusalsLeft, NetLabels
  <2>1. CASE APP_NETWORK_Init
    BY <2>1 DEF APP_NETWORK_Init, netVars
  <2>2. CASE WifiConnectAssert
    BY <2>2 DEF WifiConnectAssert, netVars
  <2>3. CASE WifiNoCred
    BY <2>3, FlashGetType DEF WifiNoCred
  <2>4. CASE WifiConnect
    BY <2>4, FlashGetType DEF WifiConnect
  <2>5. CASE JoinSucceeds
    BY <2>5 DEF JoinSucceeds
  <2>6. CASE JoinNotFound
    BY <2>6 DEF JoinNotFound
  <2>7. CASE RereadCredentials
    BY <2>7, FlashGetType DEF RereadCredentials
  <2>8. CASE JoinNotAuthenticated
    BY <2>8 DEF JoinNotAuthenticated
  <2>9. CASE JoinFails
    BY <2>9 DEF JoinFails
  <2>10. CASE WifiIfAdd
    BY <2>10 DEF WifiIfAdd
  <2>11. CASE DhcpBound
    BY <2>11 DEF DhcpBound, netVars
  <2>12. QED
    BY Zenon, <2>1, <2>2, <2>3, <2>4, <2>5, <2>6, <2>7, <2>8, <2>9, <2>10, <2>11
       DEF NetStep
<1>4. Flags'
  BY Zenon, <1>1, <1>2
     DEF NetStep, Flags, netVars, APP_NETWORK_Init, WifiConnectAssert,
         WifiNoCred, WifiConnect, JoinSucceeds, JoinNotFound,
         RereadCredentials, JoinNotAuthenticated, JoinFails, WifiIfAdd,
         DhcpBound
<1>5. ServerInv'
  BY <1>1, <1>2, <1>3
     DEF ServerInv, ServerNumbers, Received, BuffersAccounted, NetLabels
<1>6. QED
  BY <1>3, <1>4, <1>5 DEF ServerLabels

LEMMA ServerTypes ==
  ASSUME TypeInv, ServerStep, UNCHANGED <<shellVars, netVars, accessPoint>>
  PROVE  /\ (tcp \in NetLabels \cup ServerLabels)' /\ Flags' /\ NetInv' /\ ServerInv'
         /\ FicaTypeOK'
<1> USE DEF Continue
<1>1. /\ FicaTypeOK /\ Flags /\ NetInv /\ ServerInv
      /\ tcp \in NetLabels \cup ServerLabels
  BY Zenon DEF TypeInv
<1>2. /\ UNCHANGED <<credentials, attempts, authAttempts, connected>>
      /\ UNCHANGED <<interfaces, linked>>
  BY DEF netVars
<1>3. tcp' \in ServerLabels /\ FicaTypeOK'
  BY <1>1 DEF ServerStep, ServerLabels, FicaTypeOK, Listen, Accept,
     RecvHeader, MallocFails, RecvBody, RecvFails, ParseBuffer, WriteSize,
     WriteStatus, Write, WriteFails, WriteTimeout, WriteConfirmed, SetOta, Close,
     FWUpdate_set_SLN_OTA, FICA_clr_bits
<1>4. Flags'
  BY Zenon, <1>1, <1>2
     DEF ServerStep, Flags, serverVars, Listen, Accept, RecvHeader,
         MallocFails, RecvBody, RecvFails, ParseBuffer, WriteSize, WriteStatus, Write, WriteFails,
         WriteTimeout, WriteConfirmed, SetOta, Close
<1>5. NetInv'
  BY <1>1, <1>2, <1>3 DEF NetInv, NetNumbers, RefusalsLeft, ServerLabels
<1>6. ServerInv'
  <2> USE <1>1, ServerAssumption
      DEF ServerInv, ServerNumbers, Received, BuffersAccounted
  <2>1. CASE Listen
    BY <2>1 DEF Listen, serverVars
  <2>2. CASE Accept
    BY <2>2 DEF Accept, Messages
  <2>3. CASE RecvHeader
    BY <2>3 DEF RecvHeader, MallocFails, Messages
  <2>4. CASE RecvBody
    BY <2>4 DEF RecvBody, Messages
  <2>15. CASE MallocFails
    BY <2>15 DEF MallocFails, serverVars
  <2>5. CASE RecvFails
    BY <2>5 DEF RecvFails
  <2>6. CASE ParseBuffer
    BY <2>6 DEF ParseBuffer
  <2>7. CASE WriteSize
    BY <2>7 DEF WriteSize, Write, Writes
  <2>8. CASE WriteStatus
    BY <2>8 DEF WriteStatus, Write, Writes
  <2>9. CASE WriteFails
    BY <2>9 DEF WriteFails
  <2>10. CASE WriteTimeout
    BY <2>10 DEF WriteTimeout, serverVars
  <2>11. CASE WriteConfirmed
    BY <2>11 DEF WriteConfirmed
  <2>12. CASE SetOta
    BY <2>12 DEF SetOta, serverVars
  <2>13. CASE Close
    BY <2>13 DEF Close
  <2>14. QED
    BY Zenon, <2>1, <2>2, <2>3, <2>4, <2>5, <2>6, <2>7, <2>8, <2>9, <2>10, <2>11,
       <2>12, <2>13, <2>15 DEF ServerStep
<1>7. QED
  BY <1>3, <1>4, <1>5, <1>6

LEMMA CallbackTypes ==
  ASSUME TypeInv, OtaServerCallback, UNCHANGED <<netVars, accessPoint>>
  PROVE  (tcp \in NetLabels \cup ServerLabels)' /\ Flags' /\ NetInv' /\ ServerInv'
<1>1. /\ Flags /\ NetInv /\ ServerInv /\ tcp \in NetLabels \cup ServerLabels
  BY Zenon DEF TypeInv
<1>2. /\ UNCHANGED <<credentials, attempts, authAttempts, connected>>
      /\ UNCHANGED <<interfaces, linked, tcp>>
  BY DEF netVars, OtaServerCallback
<1>3. Flags'
  BY Zenon, <1>1, <1>2 DEF Flags, OtaServerCallback
<1>4. NetInv'
  BY <1>1, <1>2 DEF NetInv, NetNumbers, RefusalsLeft
<1>5. ServerInv'
  BY <1>1
     DEF OtaServerCallback, ServerInv, ServerNumbers, Received, BuffersAccounted
<1>6. QED
  BY <1>1, <1>2, <1>3, <1>4, <1>5

LEMMA SurroundingsTypes ==
  ASSUME TypeInv, Surroundings
  PROVE  TypeInv'
<1>1. /\ FicaTypeOK /\ ShellTypeOK /\ tcp \in NetLabels \cup ServerLabels
      /\ Flags /\ NetInv /\ ServerInv
  BY Zenon DEF TypeInv
<1>2. /\ UNCHANGED <<credentials, attempts, authAttempts, connected>>
      /\ UNCHANGED <<interfaces, tcp, fica>>
      /\ UNCHANGED <<message, left, bytesRead, buffers>>
      /\ UNCHANGED <<handled, inflight, sendplus, delivered>>
      /\ UNCHANGED <<wifiFile, s_wifi_cred, shellEvents, taken, shell, image>>
  BY DEF Surroundings, AccessPointGoes, AccessPointComes, shellVars, netVars,
     serverVars
<1>3. accessPoint' \in BOOLEAN /\ linked' \in BOOLEAN
  BY <1>1 DEF Surroundings, AccessPointGoes, AccessPointComes, Flags, netVars
<1>4. Flags'
  BY Zenon, <1>1, <1>2, <1>3 DEF Flags
<1>5. NetInv'
  BY <1>1, <1>2 DEF NetInv, NetNumbers, RefusalsLeft
<1>6. ServerInv'
  BY <1>1, <1>2 DEF ServerInv, ServerNumbers, Received, BuffersAccounted
<1>7. FicaTypeOK' /\ ShellTypeOK'
  BY <1>1, <1>2 DEF FicaTypeOK, ShellTypeOK
<1>8. QED
  BY Zenon, <1>1, <1>2, <1>4, <1>5, <1>6, <1>7 DEF TypeInv

LEMMA StutterTypes ==
  ASSUME TypeInv, UNCHANGED vars
  PROVE  TypeInv'
<1>1. UNCHANGED taskVars /\ UNCHANGED fica /\ UNCHANGED shellVars
  BY Zenon DEF vars
<1>2. (tcp \in NetLabels \cup ServerLabels)' /\ Flags' /\ NetInv' /\ ServerInv'
  BY <1>1, TaskUnchanged
<1>3. FicaTypeOK' /\ ShellTypeOK'
  BY <1>1 DEF TypeInv, FicaTypeOK, ShellTypeOK, shellVars
<1>4. QED
  BY Zenon, <1>2, <1>3 DEF TypeInv

LEMMA TypeStep == TypeInv /\ [Next]_vars => TypeInv'
<1> SUFFICES ASSUME TypeInv, [Next]_vars PROVE TypeInv'
  OBVIOUS
<1>0. FicaTypeOK /\ ShellTypeOK
  BY Zenon DEF TypeInv
<1>1. CASE ShellNext
  <2>1. FicaTypeOK' /\ ShellTypeOK'
    BY <1>0, <1>1, ShellTypes DEF ShellNext
  <2>2. QED
    BY Zenon, <1>1, <2>1, TaskUnchanged DEF ShellNext, TypeInv
<1>2. CASE Interrupt
  <2>1. FicaTypeOK' /\ ShellTypeOK'
    BY <1>0, <1>2, InterruptTypes DEF Interrupt
  <2>2. QED
    BY Zenon, <1>2, <2>1, TaskUnchanged DEF Interrupt, TypeInv
<1>3. CASE NetNext \/ DhcpNext
  <2>1. FicaTypeOK' /\ ShellTypeOK'
    BY <1>0, <1>3 DEF NetNext, DhcpNext, FicaTypeOK, ShellTypeOK, shellVars
  <2>2. QED
    BY Zenon, <1>3, <2>1, NetTypes DEF NetNext, DhcpNext, TypeInv
<1>4. CASE ServerNext
  <2>1. ShellTypeOK'
    BY <1>0, <1>4 DEF ServerNext, ShellTypeOK, shellVars
  <2>2. QED
    BY Zenon, <1>4, <2>1, ServerTypes DEF ServerNext, TypeInv
<1>5. CASE TcpipThread
  <2>1. FicaTypeOK' /\ ShellTypeOK'
    BY <1>0, <1>5 DEF TcpipThread, FicaTypeOK, ShellTypeOK, shellVars
  <2>2. UNCHANGED <<netVars, accessPoint>> /\ OtaServerCallback
    BY <1>5 DEF TcpipThread
  <2>3. QED
    BY Zenon, <2>1, <2>2, CallbackTypes DEF TypeInv
<1>6. CASE Surroundings
  BY <1>6, SurroundingsTypes
<1>7. CASE SystemReset
  BY <1>0, <1>7, RestartTypes DEF SystemReset, ShellTypeOK
<1>8. CASE PowerLoss
  BY <1>0, <1>8, RestartTypes DEF PowerLoss, ShellTypeOK
<1>9. CASE UNCHANGED vars
  BY <1>9, StutterTypes
<1>10. QED
  BY Zenon, <1>1, <1>2, <1>3, <1>4, <1>5, <1>6, <1>7, <1>8, <1>9 DEF Next

LEMMA TypesHold == Spec => []TypeInv
  BY TypeInit, TypeStep, PTL DEF Spec

\* Every variable stays in its type: the refusals of the access point are
\* at most four, and the server never takes a packet buffer the heap does not
\* have or gives back one it did not take (sln_tcp_server.c).
THEOREM ConnectivityTypes == Spec => []TypeOK
  BY TypesHold, TypeInvTypes, PTL

\* Each packet buffer is in the heap, held by the connection that takes in a
\* message, or lost to a message that was received completely: no other path
\* through read_connection loses one.
THEOREM BuffersAreAccounted == Spec => []BuffersAccounted
<1>1. TypeInv => BuffersAccounted
  BY Zenon DEF TypeInv, ServerInv
<1>2. QED
  BY <1>1, TypesHold, PTL

-----------------------------------------------------------------------------
(***************************************************************************)
(* The steps that leave a part of the state alone, for the proofs below.   *)
(***************************************************************************)
LEMMA Vars ==
  /\ UNCHANGED shellVars <=>
       UNCHANGED wifiFile /\ UNCHANGED s_wifi_cred /\ UNCHANGED shellEvents
       /\ UNCHANGED taken /\ UNCHANGED shell /\ UNCHANGED image
  /\ UNCHANGED netVars <=>
       UNCHANGED credentials /\ UNCHANGED attempts /\ UNCHANGED authAttempts
       /\ UNCHANGED connected /\ UNCHANGED interfaces /\ UNCHANGED linked
  /\ UNCHANGED serverVars <=>
       UNCHANGED message /\ UNCHANGED left /\ UNCHANGED bytesRead
       /\ UNCHANGED buffers /\ UNCHANGED handled /\ UNCHANGED inflight
       /\ UNCHANGED sendplus /\ UNCHANGED delivered
  /\ UNCHANGED taskVars <=>
       UNCHANGED tcp /\ UNCHANGED netVars /\ UNCHANGED accessPoint
       /\ UNCHANGED serverVars
  /\ UNCHANGED vars <=>
       UNCHANGED shellVars /\ UNCHANGED fica /\ UNCHANGED taskVars
  BY Zenon DEF shellVars, netVars, serverVars, taskVars, vars

(***************************************************************************)
(* The request for an update.  Every program clears the bit of the update  *)
(* with that of the method, and the boot loader sets both.                 *)
(***************************************************************************)
LEMMA FicaStep ==
  [Next]_vars =>
    \/ UNCHANGED fica
    \/ FWUpdate_set_SLN_OTA
    \/ FWUpdate_set_SLN_OTW
    \/ BootLoader
<1> SUFFICES ASSUME [Next]_vars
             PROVE  \/ UNCHANGED fica \/ FWUpdate_set_SLN_OTA
                    \/ FWUpdate_set_SLN_OTW \/ BootLoader
  OBVIOUS
<1>1. CASE ShellNext
  BY Zenon, <1>1 DEF ShellNext, ShellStep, SaveStep, ShellWake, ShellSetup,
     ShellErase, ShellReset, SaveRetire, SaveOverflow, SaveErase, EncryptName,
     EncryptPassword, SaveProgram, SaveFail
<1>2. CASE Interrupt
  BY Zenon, <1>2 DEF Interrupt, UsbInterrupt, Setup, EraseCommand,
     ResetCommand, UpdateOta, UpdateOtw
<1>3. CASE NetNext \/ DhcpNext \/ TcpipThread \/ Surroundings
  BY Zenon, <1>3 DEF NetNext, DhcpNext, TcpipThread, Surroundings
<1>4. CASE ServerNext
  BY Zenon, <1>4 DEF ServerNext, ServerStep, SetOta
<1>5. CASE SystemReset \/ PowerLoss
  BY Zenon, <1>5 DEF SystemReset, PowerLoss, Restart
<1>6. CASE UNCHANGED vars
  BY Zenon, <1>6, Vars
<1>7. QED
  BY Zenon, <1>1, <1>2, <1>3, <1>4, <1>5, <1>6 DEF Next

\* "To avoid one failling" (sln_app_fwupdate.c:60), the method is never asked
\* for without the update, in whatever order the shell, the interrupt and the
\* server ask, whichever requests fail, and wherever power is lost.
THEOREM MethodNeedsTheUpdate == Spec => []MethodNeedsUpdate
<1>1. Init => MethodNeedsUpdate
  BY DEF Init, MethodNeedsUpdate, FicaBits
<1>2. MethodNeedsUpdate /\ [Next]_vars => MethodNeedsUpdate'
  BY FicaStep DEF MethodNeedsUpdate, FWUpdate_set_SLN_OTA,
     FWUpdate_set_SLN_OTW, FICA_clr_bits, BootLoader, FicaBits
<1>3. QED
  BY <1>1, <1>2, PTL DEF Spec

-----------------------------------------------------------------------------
(***************************************************************************)
(* The network interface.  It is added at one place that the task reaches  *)
(* once: what leads there has added none, and nothing leads back.          *)
(***************************************************************************)
InterfaceInv ==
  /\ interfaces \in {0, 1}
  /\ tcp \in {"boot", "get", "join", "reread", "ifadd"} => interfaces = 0

LEMMA InterfaceStep == InterfaceInv /\ [Next]_vars => InterfaceInv'
<1> SUFFICES ASSUME InterfaceInv, [Next]_vars PROVE InterfaceInv'
  OBVIOUS
<1> USE DEF InterfaceInv
<1>1. CASE ShellNext \/ Interrupt
  BY <1>1, Vars DEF ShellNext, Interrupt
<1>2. CASE NetNext \/ DhcpNext
  BY <1>2 DEF NetNext, DhcpNext, NetStep, Continue, netVars, APP_NETWORK_Init,
     WifiConnectAssert, WifiNoCred, WifiConnect, JoinSucceeds, JoinNotFound,
     RereadCredentials, JoinNotAuthenticated, JoinFails, WifiIfAdd, DhcpBound
<1>3. CASE ServerNext
  BY <1>3, Vars DEF ServerNext, ServerStep, Continue, Listen, Accept,
     RecvHeader, MallocFails, RecvBody, RecvFails, ParseBuffer, WriteSize,
     WriteStatus, Write, WriteFails, WriteTimeout, WriteConfirmed, SetOta, Close
<1>4. CASE TcpipThread
  BY <1>4, Vars DEF TcpipThread, OtaServerCallback
<1>5. CASE Surroundings
  BY <1>5, Vars DEF Surroundings, AccessPointGoes, AccessPointComes
<1>6. CASE SystemReset \/ PowerLoss
  BY <1>6 DEF SystemReset, PowerLoss, Restart, NetRestart
<1>7. CASE UNCHANGED vars
  BY <1>7, Vars
<1>8. QED
  BY <1>1, <1>2, <1>3, <1>4, <1>5, <1>6, <1>7 DEF Next

\* However often Wifi_Connect fails and is called again, ip_netif is added to
\* lwIP's list at most once between two resets.
THEOREM InterfaceAddedOnce == Spec => []OneInterface
<1>1. Init => InterfaceInv
  BY DEF Init, NetInit, InterfaceInv
<1>2. InterfaceInv => OneInterface
  BY DEF InterfaceInv, OneInterface
<1>3. QED
  BY <1>1, <1>2, InterfaceStep, PTL DEF Spec

-----------------------------------------------------------------------------
(***************************************************************************)
(* The answer to the client.  The bit NETCONN_EVT_SENDPLUS says nothing of *)
(* which write was acknowledged.  It is enough that it is cleared before   *)
(* each write and that at most one write is under way on a connection: the *)
(* second begins after the first was acknowledged, and a connection that   *)
(* gives up a wait is closed.                                              *)
(***************************************************************************)
Quiet == inflight = <<>>

UnderWay(what, before) ==
  \/ inflight = <<what>> /\ ~sendplus /\ delivered = before
  \/ inflight = <<>> /\ delivered = before \cup {what}

AnswerInv ==
  /\ tcp \notin {"waitSize", "waitStatus", "close"} => Quiet
  /\ tcp \in {"header", "body", "parse", "writeSize"} => delivered = {}
  /\ tcp = "waitSize" => UnderWay("size", {})
  /\ tcp = "writeStatus" => delivered = {"size"}
  /\ tcp = "waitStatus" => UnderWay("status", {"size"})
  /\ tcp \in {"setOta", "reset"} =>
       delivered = Writes /\ message.kind = "start"

LEMMA OneWrite ==
  ASSUME NEW what, inflight = <<what>>
  PROVE  Tail(inflight) = <<>> /\ Head(inflight) = what
  OBVIOUS

LEMMA FirstWrite ==
  ASSUME NEW what
  PROVE  Append(<<>>, what) = <<what>>
  OBVIOUS

LEMMA AnswerKept ==
  ASSUME AnswerInv, UNCHANGED <<tcp, message, inflight, delivered>>, UNCHANGED sendplus
  PROVE  AnswerInv'
  BY Zenon DEF AnswerInv, Quiet, UnderWay

LEMMA AnswerServer == ASSUME AnswerInv, ServerStep PROVE AnswerInv'
<1> USE DEF AnswerInv, Quiet, UnderWay, Writes, Continue
<1>1. CASE Listen
  BY <1>1 DEF Listen, serverVars
<1>2. CASE Accept
  BY <1>2 DEF Accept
<1>3. CASE RecvHeader
  BY <1>3 DEF RecvHeader
<1>4. CASE RecvBody
  BY <1>4 DEF RecvBody
<1>15. CASE MallocFails
  BY <1>15 DEF MallocFails, serverVars
<1>5. CASE RecvFails
  BY <1>5 DEF RecvFails
<1>6. CASE ParseBuffer
  BY <1>6 DEF ParseBuffer
<1>7. CASE WriteSize
  BY <1>7, FirstWrite DEF WriteSize, Write
<1>8. CASE WriteStatus
  BY <1>8, FirstWrite DEF WriteStatus, Write
<1>9. CASE WriteFails
  BY <1>9 DEF WriteFails
<1>10. CASE WriteTimeout
  BY <1>10 DEF WriteTimeout
<1>11. CASE WriteConfirmed
  BY <1>11 DEF WriteConfirmed
<1>12. CASE SetOta
  BY <1>12 DEF SetOta, serverVars
<1>13. CASE Close
  BY <1>13 DEF Close
<1>14. QED
  BY Zenon, <1>1, <1>2, <1>3, <1>4, <1>5, <1>6, <1>7, <1>8, <1>9, <1>10, <1>11,
     <1>12, <1>13, <1>15 DEF ServerStep

LEMMA AnswerStep == AnswerInv /\ [Next]_vars => AnswerInv'
<1> SUFFICES ASSUME AnswerInv, [Next]_vars PROVE AnswerInv'
  OBVIOUS
<1>1. CASE ShellNext \/ Interrupt \/ UNCHANGED vars
  BY Zenon, <1>1, Vars, AnswerKept DEF ShellNext, Interrupt
<1>2. CASE NetNext \/ DhcpNext
  <2>1. /\ tcp \in NetLabels
        /\ tcp' \in NetLabels \cup {"listen"}
    BY <1>2 DEF NetNext, DhcpNext, NetStep, Continue, NetLabels, APP_NETWORK_Init,
       WifiConnectAssert, WifiNoCred, WifiConnect, JoinSucceeds, JoinNotFound,
       RereadCredentials, JoinNotAuthenticated, JoinFails, WifiIfAdd, DhcpBound
  <2>2. UNCHANGED inflight
    BY Zenon, <1>2, Vars DEF NetNext, DhcpNext
  <2>3. QED
    BY <2>1, <2>2 DEF AnswerInv, Quiet, NetLabels
<1>3. CASE ServerNext
  BY <1>3, AnswerServer DEF ServerNext
<1>4. CASE TcpipThread
  <2>1. OtaServerCallback
    BY <1>4 DEF TcpipThread
  <2>2. QED
    BY <2>1, OneWrite DEF OtaServerCallback, AnswerInv, Quiet, UnderWay
<1>5. CASE Surroundings
  BY Zenon, <1>5, Vars, AnswerKept DEF Surroundings, AccessPointGoes, AccessPointComes
<1>6. CASE SystemReset \/ PowerLoss
  BY <1>6 DEF SystemReset, PowerLoss, Restart, ServerRestart, AnswerInv, Quiet
<1>7. QED
  BY <1>1, <1>2, <1>3, <1>4, <1>5, <1>6 DEF Next

\* The update over the air is asked for, and the device reset, only when the
\* client of a start command has acknowledged both writes of the answer,
\* although the event bit is shared by all writes.
THEOREM UpdatesAreConfirmed == Spec => []UpdateIsConfirmed
<1>1. Init => AnswerInv
  BY DEF Init, ServerInit, AnswerInv, Quiet
<1>2. AnswerInv => UpdateIsConfirmed
  BY DEF AnswerInv, UpdateIsConfirmed
<1>3. QED
  BY <1>1, <1>2, AnswerStep, PTL DEF Spec

-----------------------------------------------------------------------------
(***************************************************************************)
(* The credentials in use.  They are read with the lock, and a Save that   *)
(* succeeds leaves sln_shell_task with nothing but a reset to do.          *)
(***************************************************************************)
JoinedWithFile ==
  tcp \in {"join", "reread", "ifadd", "dhcp"} \cup ServerLabels
  /\ wifiFile \in Credentials /\ shell # "reset" => credentials = wifiFile

LEMMA JoinedKept ==
  ASSUME JoinedWithFile, UNCHANGED <<credentials, wifiFile, shell>>,
         tcp' \in {"join", "reread", "ifadd", "dhcp"} \cup ServerLabels =>
           tcp \in {"join", "reread", "ifadd", "dhcp"} \cup ServerLabels
  PROVE  JoinedWithFile'
  BY Zenon DEF JoinedWithFile

LEMMA JoinedStep == JoinedWithFile /\ [Next]_vars => JoinedWithFile'
<1> SUFFICES ASSUME JoinedWithFile, [Next]_vars PROVE JoinedWithFile'
  OBVIOUS
<1>1. CASE ShellNext
  <2>1. UNCHANGED <<tcp, credentials>>
    BY Zenon, <1>1, Vars DEF ShellNext
  <2>2. \/ wifiFile' \notin Credentials
        \/ shell' = "reset"
        \/ UNCHANGED wifiFile /\ shell # "reset"
    BY <1>1, FileMarks DEF ShellNext, ShellStep, SaveStep, InSave, ShellWake,
       ShellSetup, ShellErase, ShellReset, SaveRetire, SaveOverflow, SaveErase,
       EncryptName, EncryptPassword, SaveProgram, SaveFail
  <2>3. QED
    BY Zenon, <2>1, <2>2 DEF JoinedWithFile
<1>2. CASE Interrupt \/ UNCHANGED vars
  <2>1. UNCHANGED <<tcp, credentials, wifiFile, shell>>
    BY Zenon, <1>2, Vars DEF Interrupt, UsbInterrupt, Setup, EraseCommand,
       ResetCommand, UpdateOta, UpdateOtw, Raise
  <2>2. QED
    BY <2>1, JoinedKept
<1>3. CASE NetNext \/ DhcpNext
  <2>1. UNCHANGED wifiFile /\ UNCHANGED shell
    BY Zenon, <1>3, Vars DEF NetNext, DhcpNext
  <2>2. CASE WifiConnect \/ RereadCredentials
    BY <2>1, <2>2 DEF WifiConnect, RereadCredentials, FlashGet, JoinedWithFile
  <2>3. CASE APP_NETWORK_Init \/ WifiConnectAssert \/ WifiNoCred
    BY <2>3 DEF APP_NETWORK_Init, WifiConnectAssert, WifiNoCred, Continue,
       JoinedWithFile, ServerLabels
  <2>4. CASE \/ JoinSucceeds \/ JoinNotFound \/ JoinNotAuthenticated
             \/ JoinFails \/ WifiIfAdd \/ DhcpBound
    <3>1. UNCHANGED credentials
      BY Zenon, <2>4, Vars DEF JoinSucceeds, JoinNotFound,
         JoinNotAuthenticated, JoinFails, WifiIfAdd, DhcpBound
    <3>2. tcp \in {"join", "ifadd", "dhcp"}
      BY <2>4 DEF JoinSucceeds, JoinNotFound, JoinNotAuthenticated, JoinFails,
         WifiIfAdd, DhcpBound
    <3>3. QED
      BY <2>1, <3>1, <3>2, JoinedKept
  <2>5. QED
    BY Zenon, <1>3, <2>2, <2>3, <2>4 DEF NetNext, DhcpNext, NetStep
<1>4. CASE ServerNext
  <2>1. UNCHANGED <<credentials, wifiFile, shell>>
    BY Zenon, <1>4, Vars DEF ServerNext
  <2>2. tcp \in ServerLabels
    BY <1>4 DEF ServerNext, ServerStep, ServerLabels, Listen, Accept,
       RecvHeader, MallocFails, RecvBody, RecvFails, ParseBuffer, WriteSize,
       WriteStatus, WriteFails, WriteTimeout, WriteConfirmed, SetOta, Close
  <2>3. QED
    BY <2>1, <2>2, JoinedKept
<1>5. CASE TcpipThread \/ Surroundings
  <2>1. UNCHANGED <<tcp, credentials, wifiFile, shell>>
    BY Zenon, <1>5, Vars DEF TcpipThread, OtaServerCallback, Surroundings,
       AccessPointGoes, AccessPointComes
  <2>2. QED
    BY <2>1, JoinedKept
<1>6. CASE SystemReset \/ PowerLoss
  BY <1>6 DEF SystemReset, PowerLoss, Restart, JoinedWithFile, ServerLabels
<1>7. QED
  BY <1>1, <1>2, <1>3, <1>4, <1>5, <1>6 DEF Next

\* The copy of the credentials with which the network was joined is the
\* content of wifi.dat: only a reset stands between new credentials and
\* their use.
THEOREM CredentialsAreFresh == Spec => []CredentialsFresh
<1>1. Init => JoinedWithFile
  BY DEF Init, JoinedWithFile, ServerLabels
<1>2. JoinedWithFile => CredentialsFresh
  BY DEF JoinedWithFile, CredentialsFresh
<1>3. QED
  BY <1>1, <1>2, JoinedStep, PTL DEF Spec

=============================================================================
