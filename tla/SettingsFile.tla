---------------------------- MODULE SettingsFile ----------------------------
(***************************************************************************)
(* How a task writes the settings to flash: Save, and after an overflow    *)
(* Erase and Save again (main.c and sln_local_voice.c do the same).  The   *)
(* file is seen as FileStore promises it: "None" has no entry, "Broken" an *)
(* entry whose page was not programmed, "Torn" one whose page was only     *)
(* partly programmed, or twice.  Save copies the structure after it has    *)
(* retired the old entry, while interrupts may still change it.            *)
(***************************************************************************)
EXTENDS AppSettings

CONSTANTS
  None, Broken, Torn,
  Faults,       \* whether a Save may fail, for the driver's sake
  TornPages,    \* whether the program of a page may be cut short
  Overflows,    \* whether a sector may be full
  MaxBypass     \* bound on bypass

ASSUME FileAssumption ==
  /\ {None, Broken, Torn} \cap Settings = {}
  /\ None # Broken /\ None # Torn /\ Broken # Torn
  /\ Faults \in BOOLEAN /\ TornPages \in BOOLEAN /\ Overflows \in BOOLEAN
  /\ MaxBypass \in Nat

VARIABLES
  file,    \* the content of asr_shell_commands.dat
  stray,   \* what the page of the next entry holds although the entry is free
  image,   \* [task -> the copy of the settings its Save is writing]
  micsOn,  \* g_micsOn; the callbacks of Erase switch the microphones
  pc,      \* [task -> where it is]
  loaded,  \* [task -> asrCfg as loaded to clear one of its bits]
  bypass   \* g_bypass_voice_engine, in sample blocks

fileVars == <<file, stray, image, micsOn>>

Tasks == {"app", "voice"}

SaveSteps == {"save", "copy", "program", "erase", "resave"}

\* What the task does when its Save is over.
AfterSave(t) == IF t = "app" THEN "wait" ELSE "init"

FileTypeOK ==
  /\ file \in Settings \cup {None, Broken, Torn}
  /\ stray \in Settings \cup {None}
  /\ image \in [Tasks -> Settings]
  /\ micsOn \in BOOLEAN
  /\ loaded \in [Tasks -> SUBSET BothChanged]
  /\ bypass \in 0..MaxBypass

FileInit ==
  /\ stray = None
  /\ image = [t \in Tasks |-> ZeroSettings]
  /\ micsOn = TRUE
  /\ pc = [app |-> "boot", voice |-> "read"]
  /\ loaded = [t \in Tasks |-> {}]
  /\ bypass = 0

FreeImage(t) == image' = [image EXCEPT ![t] = ZeroSettings]

Goto(t, label) == pc' = [pc EXCEPT ![t] = label]

-----------------------------------------------------------------------------
\* Mutant: a Save does not wait for that of the other task.
LockAlwaysFree == TRUE

\* s_fileLock: one Save at a time.  Erase does not take it.
LockFree == \A t \in Tasks : pc[t] \notin {"copy", "program"}

\* The new entry is marked in the map, which retires the old one.
SaveRetire(t) ==
  /\ pc[t] \in {"save", "resave"}
  /\ LockFree
  /\ file' = IF stray = None THEN Broken ELSE stray
  /\ stray' = None
  /\ Goto(t, "copy")
  /\ UNCHANGED <<image, micsOn, settingsVars>>

\* EOVERFLOW and EOVERFLOW2; an erased sector has room for the second Save.
SaveOverflow(t) ==
  /\ Overflows
  /\ pc[t] = "save"
  /\ LockFree
  /\ Goto(t, "erase")
  /\ UNCHANGED <<fileVars, settingsVars>>

SaveCopy(t) ==
  /\ pc[t] = "copy"
  /\ image' = [image EXCEPT ![t] = cfg]
  /\ Goto(t, "program")
  /\ UNCHANGED <<file, stray, micsOn, settingsVars>>

\* A page that was programmed before keeps the zeros of both programs.
Programmed(old, new) == IF old \in {Broken, new} THEN new ELSE Torn

\* If the other task has erased the sector since this Save marked its entry (an
\* erased one, both Saves having overflowed), the entry is free again: the Save
\* succeeds and there is no file.
SaveProgram(t) ==
  /\ pc[t] = "program"
  /\ IF file = None
       THEN stray' = image[t] /\ UNCHANGED file
       ELSE file' = Programmed(file, image[t]) /\ UNCHANGED stray
  /\ FreeImage(t)
  /\ Goto(t, AfterSave(t))
  /\ UNCHANGED <<micsOn, settingsVars>>

\* Mutant: a Save that failed is left to the next pass of appTask.
SaveFailRetry(t) ==
  /\ Faults
  /\ pc[t] \in {"save", "resave"} /\ LockFree
  /\ cfg' = [cfg EXCEPT !.status = "WRITE_READY"]
  /\ FreeImage(t)
  /\ Goto(t, AfterSave(t))
  /\ UNCHANGED <<file, stray, micsOn, notif, sw1>>

\* What a program that fails or is cut short may leave in the file: a page that
\* is as it was, or partly programmed.
CutShort == {file} \cup IF TornPages /\ file # None THEN {Torn} ELSE {}

SaveFail(t) ==
  /\ Faults
  /\ \/ pc[t] \in {"save", "resave"} /\ LockFree /\ UNCHANGED file
     \/ pc[t] = "copy" /\ UNCHANGED file
     \/ pc[t] = "program" /\ file' \in CutShort
  /\ FreeImage(t)
  /\ Goto(t, AfterSave(t))
  /\ UNCHANGED <<stray, micsOn, settingsVars>>

\* Mutant: the second Save is forgotten.
SaveEraseOnly(t) ==
  /\ pc[t] = "erase"
  /\ file' = None
  /\ stray' = None
  /\ micsOn' = TRUE
  /\ Goto(t, AfterSave(t))
  /\ UNCHANGED <<image, settingsVars>>

\* The microphones are switched off before the erase and on after it.
SaveErase(t) ==
  /\ pc[t] = "erase"
  /\ file' = None
  /\ stray' = None
  /\ micsOn' = TRUE
  /\ Goto(t, "resave")
  /\ UNCHANGED <<image, settingsVars>>

SaveStep(t) ==
  \/ SaveRetire(t) \/ SaveOverflow(t) \/ SaveCopy(t) \/ SaveProgram(t)
  \/ SaveFail(t) \/ SaveErase(t)

=============================================================================
