---------------------------- MODULE SlnFlashStore ----------------------------
(***************************************************************************)
(* The flash file system as an implementation of FileStore.                *)
(***************************************************************************)
EXTENDS SlnFlashMgmt

CONSTANT NoOp

ASSUME NoOpAssumption == NoOp \notin Values \cup {None, Broken}

\* What a file image in RAM would read as once it is in flash.
ImageContent(file) ==
  IF file.hdr.val \in Values /\ file.data = FileOf(file.hdr.val)
    THEN file.hdr.val
    ELSE Broken

StoredValue(data) ==
  IF \E v \in Values : data = FileOf(v)
    THEN CHOOSE v \in Values : data = FileOf(v)
    ELSE Broken

Outcome(status) ==
  CASE status = "none" -> NoOp
    [] status = "OK" -> "OK"
    [] status \in {"EOVERFLOW", "EOVERFLOW2"} -> "full"
    [] OTHER -> "error"

Saving == IF wpc = "idle" THEN NoOp ELSE flashFile.hdr.val

Retired == wpc \in {"build", "write"}

Moving == IF boot \in {"map", "pages"} THEN ImageContent(flashFile) ELSE NoOp

Got ==
  [r \in Readers |-> IF rd[r].status = "OK" THEN StoredValue(rd[r].buf) ELSE NoOp]

Store == INSTANCE FileStore WITH
  content <- Content,
  saving  <- Saving,
  retired <- Retired,
  moving  <- Moving,
  saved   <- Outcome(wres),
  got     <- Got

\* Whatever Save, Erase, compaction, readers and power losses do to the
\* sector, the file is a FileStore: a Save that returns OK is what the next
\* read finds, a Save that overflows leaves the old file readable, a read that
\* returns OK returns the whole of the last saved value, and a power loss
\* loses at most the entry that was being moved, in a way a read reports.
StoreSpec == Store!Spec

=============================================================================
