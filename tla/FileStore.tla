------------------------------ MODULE FileStore ------------------------------
(***************************************************************************)
(* What the flash file system promises the rest of the firmware about one  *)
(* named file: a register that holds the last saved value, whose content a *)
(* failure can lose but never silently replace by something else.          *)
(*                                                                         *)
(* "None" is a file with no entry (a read reports ENOENTRY2), "Broken" an  *)
(* entry that a read reports as damaged (EENCRYPT2).  SlnFlashMgmt is the  *)
(* sector, page and map machinery that implements this.                    *)
(***************************************************************************)
CONSTANTS
  Values,   \* what the firmware saves
  Readers,  \* the tasks that read
  None,     \* the file has no current entry
  Broken,   \* the current entry does not verify
  NoOp      \* no operation in flight, or nothing returned yet

VARIABLES
  content,  \* what a read of the file would find now
  saving,   \* the value of the Save in flight, or NoOp
  retired,  \* that Save has given up the previous entry
  moving,   \* what the boot-time compaction holds in RAM, or NoOp
  saved,    \* status of the last Save or Erase: "OK", "full", "error" or NoOp
  got       \* [Readers -> what the reader's last successful read returned]

vars == <<content, saving, retired, moving, saved, got>>

Contents == Values \cup {None, Broken}

TypeOK ==
  /\ content \in Contents
  /\ saving \in Values \cup {NoOp}
  /\ retired \in BOOLEAN
  /\ moving \in Values \cup {Broken, NoOp}
  /\ saved \in {"OK", "full", "error", NoOp}
  /\ got \in [Readers -> Values \cup {NoOp}]

Init ==
  /\ content \in Contents
  /\ saving = NoOp
  /\ retired = FALSE
  /\ moving = NoOp
  /\ saved = NoOp
  /\ got = [r \in Readers |-> NoOp]

-----------------------------------------------------------------------------
Begin(v) ==
  /\ saving = NoOp
  /\ moving = NoOp
  /\ saving' = v
  /\ saved' = NoOp
  /\ UNCHANGED <<content, retired, moving, got>>

\* The previous entry is given up before the new one is complete.
Retire ==
  /\ saving # NoOp
  /\ ~retired
  /\ content' = Broken
  /\ retired' = TRUE
  /\ UNCHANGED <<saving, moving, saved, got>>

Commit ==
  /\ retired
  /\ content' = saving
  /\ saving' = NoOp
  /\ retired' = FALSE
  /\ saved' = "OK"
  /\ UNCHANGED <<moving, got>>

\* A Save that does not fit stops while the previous entry still stands.
Full ==
  /\ saving # NoOp
  /\ ~retired
  /\ saving' = NoOp
  /\ saved' = "full"
  /\ UNCHANGED <<content, retired, moving, got>>

Fail ==
  /\ moving = NoOp
  /\ saving' = NoOp
  /\ retired' = FALSE
  /\ saved' = "error"
  /\ UNCHANGED <<content, moving, got>>

Erase ==
  /\ saving = NoOp
  /\ moving = NoOp
  /\ content' = None
  /\ saved' = "OK"
  /\ UNCHANGED <<saving, retired, moving, got>>

\* A successful read returns what the file holds.
Read(r) ==
  /\ content \in Values
  /\ got' = [got EXCEPT ![r] = content]
  /\ UNCHANGED <<content, saving, retired, moving, saved>>

ReadFails(r) ==
  /\ got' = [got EXCEPT ![r] = NoOp]
  /\ UNCHANGED <<content, saving, retired, moving, saved>>

\* Compaction at boot: the file lives in RAM only between MoveOut and MoveIn.
MoveOut ==
  /\ saving = NoOp
  /\ moving = NoOp
  /\ content # None
  /\ moving' = content
  /\ content' = None
  /\ UNCHANGED <<saving, retired, saved, got>>

MoveMark ==
  /\ moving # NoOp
  /\ content' = Broken
  /\ UNCHANGED <<saving, retired, moving, saved, got>>

MoveIn ==
  /\ moving # NoOp
  /\ content' = moving
  /\ moving' = NoOp
  /\ UNCHANGED <<saving, retired, saved, got>>

\* Losing power forgets what was in flight.  With nothing in flight the file
\* is untouched; otherwise it is as it was, or lost in a way a read reports.
PowerLoss ==
  /\ content' \in IF saving = NoOp /\ moving = NoOp
                    THEN {content}
                    ELSE {content, None, Broken}
  /\ saving' = NoOp
  /\ retired' = FALSE
  /\ moving' = NoOp
  /\ saved' = NoOp
  /\ got' = [r \in Readers |-> NoOp]

Next ==
  \/ \E v \in Values : Begin(v)
  \/ Retire \/ Commit \/ Full \/ Fail \/ Erase
  \/ \E r \in Readers : Read(r) \/ ReadFails(r)
  \/ MoveOut \/ MoveMark \/ MoveIn
  \/ PowerLoss

Spec == Init /\ [][Next]_vars

=============================================================================
