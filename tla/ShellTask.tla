----------------------------- MODULE ShellTask -----------------------------
(***************************************************************************)
(* The shell commands that sln_shell_task carries out, and the Wi-Fi       *)
(* credentials it keeps in wifi.dat (sln_shell.c, wifi_credentials.c).     *)
(* The handlers run in the USB interrupt and only raise an event; the task *)
(* has the lowest priority, so that any number of commands can arrive      *)
(* before and while it works.  Save encrypts straight from the buffer of   *)
(* the handlers, block by block: here the name, then the password.         *)
(* "print" and "version" change nothing and are left out.                  *)
(***************************************************************************)
EXTENDS FwUpdate

CONSTANTS
  Names,        \* network names the user may type that fit
  Passwords,    \* passwords that fit
  None, Broken, \* wifi.dat has no entry; its entry does not verify
  Commands,     \* the commands the user may type
  Overflows     \* whether the sector may be full

ASSUME ShellAssumption ==
  /\ "" \notin Names /\ "" \notin Passwords
  /\ Overflows \in BOOLEAN

\* An argument of setup that does not fit in its buffer.
TooLong == "TOO_LONG"

\* A password of length 0 is an open network, a name of length 0 no network.
Credentials == [ssid: Names \cup {""}, password: Passwords \cup {""}]

ZeroCredentials == [ssid |-> "", password |-> ""]

ASSUME FileMarks == None \notin Credentials /\ Broken \notin Credentials

Events == {"SETUP_EVENT", "ERASE_EVENT", "RESET_EVENT"}

VARIABLES
  wifiFile,     \* the content of wifi.dat
  s_wifi_cred,  \* the buffer setup fills in
  shellEvents,  \* s_ShellEventGroup
  taken,        \* the events the task is working through
  shell,        \* where sln_shell_task is
  image         \* what its Save has encrypted so far

shellVars == <<wifiFile, s_wifi_cred, shellEvents, taken, shell, image>>

\* s_fileLock is held: the old entry is retired, the new one not complete.
InSave == {"encryptName", "encryptPassword", "program"}

ShellLabels ==
  {"wait", "dispatch", "save", "erase", "resave", "reset"} \cup InSave

ShellTypeOK ==
  /\ wifiFile \in Credentials \cup {None, Broken}
  /\ s_wifi_cred \in Credentials
  /\ shellEvents \in SUBSET Events
  /\ taken \in SUBSET Events
  /\ shell \in ShellLabels
  /\ image \in Credentials

ShellInit ==
  /\ s_wifi_cred = ZeroCredentials
  /\ shellEvents = {}
  /\ taken = {}
  /\ shell = "wait"
  /\ image = ZeroCredentials

ShellRestart ==
  /\ s_wifi_cred' = ZeroCredentials
  /\ shellEvents' = {}
  /\ taken' = {}
  /\ shell' = "wait"
  /\ image' = ZeroCredentials

-----------------------------------------------------------------------------
\* The USB interrupt.
Raise(event) ==
  /\ shellEvents' = shellEvents \cup {event}
  /\ UNCHANGED <<wifiFile, taken, shell, image>>

\* What fits is taken over, and the event is raised whether or not all fits.
Setup(name, password) ==
  /\ s_wifi_cred' =
       [ssid     |-> IF name = TooLong THEN s_wifi_cred.ssid ELSE name,
        password |-> IF password = TooLong THEN s_wifi_cred.password
                                           ELSE password]
  /\ Raise("SETUP_EVENT")
  /\ UNCHANGED fica

EraseCommand == Raise("ERASE_EVENT") /\ UNCHANGED <<s_wifi_cred, fica>>

ResetCommand == Raise("RESET_EVENT") /\ UNCHANGED <<s_wifi_cred, fica>>

\* The result of the request is ignored.
UpdateOta ==
  /\ FWUpdate_set_SLN_OTA \/ (Faults /\ UNCHANGED fica)
  /\ Raise("RESET_EVENT")
  /\ UNCHANGED s_wifi_cred

UpdateOtw ==
  /\ FWUpdate_set_SLN_OTW \/ (Faults /\ UNCHANGED fica)
  /\ Raise("RESET_EVENT")
  /\ UNCHANGED s_wifi_cred

UsbInterrupt ==
  \/ /\ "setup" \in Commands
     /\ \E name \in Names, password \in Passwords \cup {""} :
          Setup(name, password)
  \/ /\ "setupLong" \in Commands
     /\ \E name \in Names : Setup(name, TooLong)
  \/ "erase" \in Commands /\ EraseCommand
  \/ "reset" \in Commands /\ ResetCommand
  \/ "updateota" \in Commands /\ UpdateOta
  \/ "updateotw" \in Commands /\ UpdateOtw

-----------------------------------------------------------------------------
\* sln_shell_task.  setup comes before erase, erase before reset.
ShellWake ==
  /\ shell = "wait"
  /\ shellEvents # {}
  /\ taken' = shellEvents
  /\ shellEvents' = {}
  /\ shell' = "dispatch"
  /\ UNCHANGED <<wifiFile, s_wifi_cred, image, fica>>

ShellSetup ==
  /\ shell = "dispatch"
  /\ "SETUP_EVENT" \in taken
  /\ shell' = "save"
  /\ UNCHANGED <<wifiFile, s_wifi_cred, shellEvents, taken, image, fica>>

\* wifi_credentials_flash_reset: the status of the Erase is ignored.
ShellErase ==
  /\ shell = "dispatch"
  /\ "SETUP_EVENT" \notin taken
  /\ "ERASE_EVENT" \in taken
  /\ wifiFile' = None \/ (Faults /\ UNCHANGED wifiFile)
  /\ shell' = "resave"
  /\ UNCHANGED <<s_wifi_cred, shellEvents, taken, image, fica>>

ShellReset ==
  /\ shell = "dispatch"
  /\ taken = {"RESET_EVENT"}
  /\ shell' = "reset"
  /\ UNCHANGED <<wifiFile, s_wifi_cred, shellEvents, taken, image, fica>>

\* What the Save in hand writes.
Source == IF "SETUP_EVENT" \in taken THEN s_wifi_cred ELSE ZeroCredentials

SaveRetire ==
  /\ shell \in {"save", "resave"}
  /\ wifiFile' = Broken
  /\ shell' = "encryptName"
  /\ UNCHANGED <<s_wifi_cred, shellEvents, taken, image, fica>>

SaveOverflow ==
  /\ Overflows
  /\ shell = "save"
  /\ shell' = "erase"
  /\ UNCHANGED <<wifiFile, s_wifi_cred, shellEvents, taken, image, fica>>

SaveErase ==
  /\ shell = "erase"
  /\ wifiFile' = None
  /\ shell' = "resave"
  /\ UNCHANGED <<s_wifi_cred, shellEvents, taken, image, fica>>

EncryptName ==
  /\ shell = "encryptName"
  /\ image' = [image EXCEPT !.ssid = Source.ssid]
  /\ shell' = "encryptPassword"
  /\ UNCHANGED <<wifiFile, s_wifi_cred, shellEvents, taken, fica>>

EncryptPassword ==
  /\ shell = "encryptPassword"
  /\ image' = [image EXCEPT !.password = Source.password]
  /\ shell' = "program"
  /\ UNCHANGED <<wifiFile, s_wifi_cred, shellEvents, taken, fica>>

\* Mutant: the new credentials are left to the next reset.
SaveProgramOnly ==
  /\ shell = "program"
  /\ wifiFile' = image
  /\ taken' = {}
  /\ shell' = "wait"
  /\ UNCHANGED <<s_wifi_cred, shellEvents, image, fica>>

\* A successful Save is followed by a reset.
SaveProgram ==
  /\ shell = "program"
  /\ wifiFile' = image
  /\ shell' = "reset"
  /\ UNCHANGED <<s_wifi_cred, shellEvents, taken, image, fica>>

\* A failed one is reported and the next event looked at.
SaveFail ==
  /\ Faults
  /\ shell \in InSave \cup {"save", "resave"}
  /\ taken' = IF "SETUP_EVENT" \in taken THEN taken \ {"SETUP_EVENT"}
                                         ELSE taken \ {"ERASE_EVENT"}
  /\ shell' = IF taken' = {} THEN "wait" ELSE "dispatch"
  /\ UNCHANGED <<wifiFile, s_wifi_cred, shellEvents, image, fica>>

SaveStep ==
  \/ SaveRetire \/ SaveOverflow \/ SaveErase
  \/ EncryptName \/ EncryptPassword \/ SaveProgram

ShellStep ==
  \/ ShellWake \/ ShellSetup \/ ShellErase \/ ShellReset
  \/ SaveStep \/ SaveFail

=============================================================================
