---------------------------- MODULE Connectivity ----------------------------
(***************************************************************************)
(* The two tasks and the interrupt that bring the device onto the network  *)
(* and into an update: sln_shell_task, TCP_OTA_Server, the USB interrupt,  *)
(* with the tcpip thread, the access point, resets and power losses.       *)
(***************************************************************************)
EXTENDS UpdateServer

CONSTANTS
  InitialFiles,  \* what wifi.dat may hold when the device is switched on
  PowerLosses    \* whether power may fail

ASSUME ConnectivityAssumption ==
  /\ InitialFiles \subseteq Credentials \cup {None}
  /\ PowerLosses \in BOOLEAN

taskVars == <<tcp, netVars, accessPoint, serverVars>>

vars == <<shellVars, fica, taskVars>>

TypeOK ==
  /\ FicaTypeOK
  /\ ShellTypeOK
  /\ NetTypeOK
  /\ ServerTypeOK
  /\ tcp \in NetLabels \cup ServerLabels

Init ==
  /\ tcp = "boot"
  /\ ShellInit
  /\ NetInit
  /\ ServerInit
  /\ fica = FicaBits
  /\ wifiFile \in InitialFiles
  /\ accessPoint \in BOOLEAN

-----------------------------------------------------------------------------
\* The application starts again: RAM is set up anew, flash is kept.
Restart ==
  /\ tcp' = "boot"
  /\ ShellRestart
  /\ NetRestart
  /\ ServerRestart
  /\ BootLoader
  /\ UNCHANGED accessPoint

\* NVIC_SystemReset, by either task.
SystemReset ==
  /\ shell = "reset" \/ tcp = "reset"
  /\ Restart
  /\ UNCHANGED wifiFile

\* As FileStore promises: what is being saved, or compacted at the start,
\* may be lost; a file at rest is not.
PowerLoss ==
  /\ PowerLosses
  /\ wifiFile' \in IF shell \in InSave \cup {"save", "resave"} \/ tcp = "boot"
                     THEN {wifiFile, None, Broken}
                     ELSE {wifiFile}
  /\ Restart

\* A failed assert, a failed allocation and a task that returns stop the
\* processor.
Stopped == tcp \in {"assert", "halt", "exited"}

Running == ~Stopped

ShellNext == Running /\ ShellStep /\ UNCHANGED taskVars

NetNext == Running /\ NetStep /\ UNCHANGED <<shellVars, fica, serverVars>>

DhcpNext == Running /\ DhcpBound /\ UNCHANGED <<shellVars, fica, serverVars>>

ServerNext == Running /\ ServerStep /\ UNCHANGED <<shellVars, netVars, accessPoint>>

Interrupt == Running /\ UsbInterrupt /\ UNCHANGED taskVars

TcpipThread ==
  Running /\ OtaServerCallback /\ UNCHANGED <<shellVars, fica, netVars, accessPoint>>

Surroundings ==
  (AccessPointGoes \/ AccessPointComes) /\ UNCHANGED <<shellVars, fica, serverVars>>

Next ==
  \/ ShellNext \/ NetNext \/ DhcpNext \/ ServerNext
  \/ Interrupt \/ TcpipThread \/ Surroundings
  \/ SystemReset \/ PowerLoss

Spec == Init /\ [][Next]_vars

\* The tasks are scheduled; the radio does not fail for ever; a wait with a
\* timeout ends.  Nothing is assumed of the user, the clients or the DHCP
\* server (DhcpNext).
Fairness ==
  /\ WF_vars(ShellNext)
  /\ WF_vars(NetNext)
  /\ SF_vars(JoinSucceeds /\ NetNext)
  /\ WF_vars(ServerNext)
  /\ WF_vars(SystemReset)

FairSpec == Spec /\ Fairness

-----------------------------------------------------------------------------
\* Wifi_Connect is repeated for ever and wifi_if_add has no way to fail that
\* the caller repeats: ip_netif is never added to lwIP's list twice.
OneInterface == interfaces <= 1

\* The network is joined with a copy of the credentials.  The copy is never
\* stale: only a reset stands between new credentials and their use.
CredentialsFresh ==
  tcp \in {"ifadd", "dhcp"} \cup ServerLabels
  /\ wifiFile \in Credentials /\ shell # "reset" => credentials = wifiFile

\* The wait for an address that no step of the program ends.
WaitsForEver == tcp = "dhcp" /\ ~linked

\* With the access point in reach, the right credentials in flash and a user
\* who leaves the device alone, the server comes up, however many attempts
\* failed or were refused before, if the DHCP server answers a station that
\* asks for long enough.  Excluded is the wait for an address of a station
\* that has lost its association (WaitsForEver).
Connects ==
  /\ <>[](/\ accessPoint /\ wifiFile = Network
          /\ shell = "wait" /\ shellEvents = {}
          /\ Running /\ ~WaitsForEver)
  /\ WF_vars(DhcpNext)
  => <>(tcp \in ServerLabels)

\* Whatever a client does or leaves undone, the server is back at accept, or
\* the device restarts or has stopped for want of memory:
\* timeouts bound every wait of a connection, none holds the server for good.
ConnectionEnds ==
  tcp \in ServerLabels ~> tcp \in {"accept", "boot"} \/ Stopped

\* The update over the air is asked for only after the client of a start
\* command has acknowledged both writes of the answer, although the bit that
\* says so is shared by all writes and set by late acknowledgements too.
UpdateIsConfirmed ==
  tcp \in {"setOta", "reset"} =>
    message.kind = "start" /\ delivered = Writes

\* The packet buffer is given back on every path but one: each message that
\* was received completely keeps its buffer for good.
BuffersAccounted ==
  tcp # "halt" =>
    buffers + handled + (IF tcp \in {"body", "parse"} THEN 1 ELSE 0) = HeapBuffers

\* The two bits of a request over the air are cleared in one program, "to
\* avoid one failling" (sln_app_fwupdate.c:60): the boot loader never finds a
\* method without a request, whatever requests came before and failed.
MethodNeedsUpdate == METHOD \notin fica => FWUPDATE \notin fica

=============================================================================
