---------------------------- MODULE SlnFlashMgmt ----------------------------
(***************************************************************************)
(* The flash file system of source/sln_flash_mgmt.c on the NOR flash of    *)
(* source/sln_flash.c, for one file: every file has a sector of its own    *)
(* and files share nothing but the lock.                                   *)
(*                                                                         *)
(* Page 0 of the sector is the map, one byte per remaining page.  A Save   *)
(* retires the CURRENT run of entries, marks the next free ones CURRENT,   *)
(* and only then programs the file's pages there.  A page program can only *)
(* clear bits.  SLN_FLASH_MGMT_Init compacts the sector at boot when the   *)
(* current file lies beyond the middle of it.                              *)
(*                                                                         *)
(* One step is one page program or one sector erase (both run with         *)
(* interrupts off), with the RAM work up to the next one.  Power may fail  *)
(* between any two steps and in the middle of a page program.  A heap that *)
(* runs out is such a failure too: the hook of pvPortMalloc stops the      *)
(* device (source/os_hooks.c), so that no caller sees a NULL.              *)
(***************************************************************************)
EXTENDS Integers

CONSTANTS
  N,           \* SLN_FLASH_MAX_MAP_ENTRIES
  Values,      \* what the firmware saves
  Pages,       \* [Values -> pages a value takes with its header]
  BlankPages,  \* pages a never programmed header claims (its size reads 0x3FFF)
  Writer,      \* the task that saves and erases this file
  Readers,     \* the tasks that only read it
  Blank,       \* erased flash (all ones)
  Mixed,       \* bits of different programs, verifying as nothing
  None, Broken,
  NoTask,
  Faults,      \* whether the crypto engine, an erase or a program may fail
               \* where the caller looks at the status
  LostPrograms,\* whether a program may fail where the caller does not
  TornMaps     \* whether a program of the map page may be cut short too

ASSUME SectorAssumption ==
  /\ N \in Nat \ {0}
  /\ BlankPages \in 1..N
  /\ Pages \in [Values -> 1..N]

ASSUME NamesAssumption ==
  /\ Blank # Mixed
  /\ {Blank, Mixed, None, Broken} \cap Values = {}
  /\ None # Broken
  /\ Writer \notin Readers
  /\ NoTask \notin Readers \cup {Writer}

ASSUME EnvAssumption ==
  /\ Faults \in BOOLEAN
  /\ LostPrograms \in BOOLEAN
  /\ TornMaps \in BOOLEAN

VARIABLES
  map,        \* [Entries -> Marks], page 0 of the sector
  hdr,        \* [Entries -> Headers], first 8 bytes of each page
  dat,        \* [Entries -> Bodies], the rest of each page
  crc,        \* this file's s_flashCrcList entry
  lock,       \* holder of s_fileLock
  boot,       \* where SLN_FLASH_MGMT_Init is; "up" once the tasks run
  flashFile,  \* the RAM image being programmed, by Save or by the compaction
  wpc,        \* where the writer is in Save
  wres,       \* status of the writer's last completed call
  rd          \* [Readers -> the reader's locals and last result]

flashVars == <<map, hdr, dat>>
vars == <<map, hdr, dat, crc, lock, boot, flashFile, wpc, wres, rd>>

-----------------------------------------------------------------------------
(***************************************************************************)
(* Flash contents.  A map byte loses bits in this order, so what two       *)
(* programs leave of it is the smaller of the two; WORN and FRAYED are     *)
(* bytes whose program was cut short and which are no mark at all.         *)
(***************************************************************************)
OLD     == 0  \* 0x00
WORN    == 1
CURRENT == 2  \* 0xAA
FRAYED  == 3
FREE    == 4  \* 0xFF

Marks   == OLD..FREE
Entries == 0..(N - 1)

GC_THRESHOLD == N \div 2

Body(v, p) == [val |-> v, part |-> p]
Bodies == [val : Values \cup {Blank, Mixed}, part : 0..N]

\* A file header: whose size and CRC it carries, and its two flag bits.  The
\* first bytes of a page in the middle of a file read as a Mixed one.
Headers == [val : Values \cup {Blank, Mixed}, valid : BOOLEAN, clean : BOOLEAN]

BlankHdr  == [val |-> Blank, valid |-> TRUE, clean |-> TRUE]
MixedHdr  == [val |-> Mixed, valid |-> TRUE, clean |-> TRUE]
BlankBody == Body(Blank, 0)
MixedBody == Body(Mixed, 0)

NewHdr(v) == [val |-> v, valid |-> TRUE, clean |-> TRUE]

FileOf(v) == [p \in 0..(Pages[v] - 1) |-> Body(v, p)]

\* What a program leaves: the bits both the page and the buffer have set.
AndMark(a, b) == IF a < b THEN a ELSE b

AndVal(x, y) ==
  CASE x = Blank -> y
    [] y = Blank -> x
    [] x = y -> x
    [] OTHER -> Mixed

AndHdr(a, b) == [val |-> AndVal(a.val, b.val), valid |-> a.valid /\ b.valid,
                                               clean |-> a.clean /\ b.clean]

AndBody(a, b) ==
  CASE a = BlankBody -> b
    [] b = BlankBody -> a
    [] a = b -> a
    [] OTHER -> MixedBody

-----------------------------------------------------------------------------
(***************************************************************************)
(* Finding a file: get_sector_file_map and the loops over the map.         *)
(***************************************************************************)
Live(m, i) == m[i] \in {CURRENT, FREE}

\* First CURRENT or FREE entry; N when there is none.
FirstLive(m) ==
  CHOOSE i \in 0..N : /\ \A j \in 0..(i - 1) : ~Live(m, j)
                      /\ i < N => Live(m, i)

\* First entry from i on that is not CURRENT; N when there is none.
RunEnd(m, i) ==
  CHOOSE e \in i..N : /\ \A j \in i..(e - 1) : m[j] = CURRENT
                      /\ e < N => m[e] # CURRENT

HasFile(m) == FirstLive(m) < N /\ m[FirstLive(m)] = CURRENT

\* The numbers of pages the header's size field may stand for.
Sizes(h) ==
  CASE h.val \in Values -> {Pages[h.val]}
    [] h.val = Blank -> {BlankPages}
    [] OTHER -> 1..N

\* n pages from entry i on; past the end lies another file's sector.
PagesAt(i, n) ==
  [p \in 0..(n - 1) |-> IF i + p < N THEN dat[i + p] ELSE MixedBody]

\* The CRC check of a read: against the header, or, for an entry updated in
\* place, against the RAM mirror.  A CRC stands for the bytes it was run over.
CrcOk(h, data) ==
  IF h.clean
    THEN h.val \in Values /\ data = FileOf(h.val)
    ELSE data = crc

NoData == [p \in {} |-> BlankBody]
NoFile == [hdr |-> BlankHdr, data |-> NoData, len |-> 0, head |-> 0, next |-> 0]

-----------------------------------------------------------------------------
(***************************************************************************)
(* The flash driver: SLN_Write_Flash_Page and SLN_Erase_Sector.            *)
(***************************************************************************)
ProgramMap(new) ==
  map' = [i \in Entries |-> AndMark(map[i], new[i])]

\* A map program cut short leaves each byte somewhere between old and new.
TearMap(new) ==
  LET changed == {i \in Entries : new[i] < map[i]} IN
  \E part \in [changed -> Marks] :
    /\ \A i \in changed : part[i] \in new[i]..map[i]
    /\ map' = [i \in Entries |-> IF i \in changed THEN part[i] ELSE map[i]]

ProgramPage(i, h, b) ==
  /\ hdr' = [hdr EXCEPT ![i] = AndHdr(@, h)]
  /\ dat' = [dat EXCEPT ![i] = AndBody(@, b)]

\* Mutant: an erase block smaller than the sector, only the map is erased.
EraseMapOnly ==
  /\ map' = [i \in Entries |-> FREE]
  /\ UNCHANGED <<hdr, dat>>

EraseSector ==
  /\ map' = [i \in Entries |-> FREE]
  /\ hdr' = [i \in Entries |-> BlankHdr]
  /\ dat' = [i \in Entries |-> BlankBody]

\* The next page of flashFile: only the first one starts with the header.
NextPage == flashFile.head + flashFile.next
NextHdr  == IF flashFile.next = 0 THEN flashFile.hdr ELSE MixedHdr
NextBody == flashFile.data[flashFile.next]
LastPage == flashFile.next + 1 = flashFile.len

ProgramNextPage ==
  /\ ProgramPage(NextPage, NextHdr, NextBody)
  /\ UNCHANGED map

-----------------------------------------------------------------------------
(***************************************************************************)
(* SLN_FLASH_MGMT_Init: garbage_collector, then init_ram_crc_mirror.       *)
(***************************************************************************)
idle == [pc |-> "idle", op |-> "Read", head |-> 0, hdr |-> BlankHdr,
         buf |-> NoData, status |-> "none"]

Init ==
  /\ map = [i \in Entries |-> FREE]
  /\ hdr = [i \in Entries |-> BlankHdr]
  /\ dat = [i \in Entries |-> BlankBody]
  /\ crc = NoData
  /\ lock = NoTask
  /\ boot = "gc"
  /\ flashFile = NoFile
  /\ wpc = "idle"
  /\ wres = "none"
  /\ rd = [r \in Readers |-> idle]

bootOnly == <<crc, lock, wpc, wres, rd>>

\* Mutant: the threshold is not looked at while the sector has an entry left.
GcKeepAny ==
  /\ boot = "gc"
  /\ FirstLive(map) < N
  /\ boot' = "mirror"
  /\ UNCHANGED <<flashVars, flashFile, bootOnly>>

\* The file, or the first free entry, is in the first half: nothing to do.
GcKeep ==
  /\ boot = "gc"
  /\ FirstLive(map) <= GC_THRESHOLD
  /\ boot' = "mirror"
  /\ UNCHANGED <<flashVars, flashFile, bootOnly>>

\* No entry is usable, or the first usable one is free and past the middle.
GcDiscard ==
  /\ boot = "gc"
  /\ FirstLive(map) > GC_THRESHOLD
  /\ ~HasFile(map)
  /\ EraseSector
  /\ boot' = "mirror"
  /\ UNCHANGED <<flashFile, bootOnly>>

\* Mutant: the sector is erased before the file is copied out of it.
GcEraseThenCopy ==
  /\ boot = "gc"
  /\ FirstLive(map) > GC_THRESHOLD
  /\ HasFile(map)
  /\ LET i == FirstLive(map) IN
     \E n \in Sizes(hdr[i]) :
       flashFile' = [hdr |-> BlankHdr, data |-> [p \in 0..(n - 1) |-> BlankBody], len |-> n,
                     head |-> 0, next |-> 0]
  /\ EraseSector
  /\ boot' = "map"
  /\ UNCHANGED bootOnly

\* Copy the file to RAM and erase the sector.
GcErase ==
  /\ boot = "gc"
  /\ FirstLive(map) > GC_THRESHOLD
  /\ HasFile(map)
  /\ LET i == FirstLive(map) IN
     \E n \in Sizes(hdr[i]) :
       flashFile' = [hdr |-> hdr[i], data |-> PagesAt(i, n), len |-> n,
                     head |-> 0, next |-> 0]
  /\ EraseSector
  /\ boot' = "map"
  /\ UNCHANGED bootOnly

\* The erase fails: the file stays where it is.
GcFail ==
  /\ boot = "gc"
  /\ Faults
  /\ FirstLive(map) > GC_THRESHOLD
  /\ boot' = "mirror"
  /\ UNCHANGED <<flashVars, flashFile, bootOnly>>

GcMap == [i \in Entries |-> IF i < flashFile.len THEN CURRENT ELSE FREE]

\* What follows the program of the map and that of a page, failed or not.
GcMarkDone ==
  /\ boot = "map"
  /\ boot' = "pages"
  /\ UNCHANGED <<flashFile, bootOnly>>

GcPageDone ==
  /\ boot = "pages"
  /\ IF LastPage
       THEN boot' = "mirror" /\ flashFile' = NoFile
       ELSE flashFile' = [flashFile EXCEPT !.next = @ + 1] /\ UNCHANGED boot
  /\ UNCHANGED bootOnly

GcMark == GcMarkDone /\ ProgramMap(GcMap) /\ UNCHANGED <<hdr, dat>>

GcPage == GcPageDone /\ ProgramNextPage

\* Mutant: a file that was never saved keeps Init from finishing.
MirrorNeedsFile ==
  /\ boot = "mirror"
  /\ HasFile(map)
  /\ \E n \in Sizes(hdr[FirstLive(map)]) : crc' = PagesAt(FirstLive(map), n)
  /\ boot' = "up"
  /\ UNCHANGED <<flashVars, lock, flashFile, wpc, wres, rd>>

\* init_ram_crc_mirror, whose CRC the crypto engine may fail to compute; then
\* main() starts the tasks.
Mirror ==
  /\ boot = "mirror"
  /\ \/ HasFile(map) /\ \E n \in Sizes(hdr[FirstLive(map)]) : crc' = PagesAt(FirstLive(map), n)
     \/ (~HasFile(map) \/ Faults) /\ crc' = NoData
  /\ boot' = "up"
  /\ UNCHANGED <<flashVars, lock, flashFile, wpc, wres, rd>>

BootStep == GcKeep \/ GcDiscard \/ GcErase \/ GcFail \/ GcMark \/ GcPage \/ Mirror

-----------------------------------------------------------------------------
(***************************************************************************)
(* SLN_FLASH_MGMT_Save and SLN_FLASH_MGMT_Erase, by the writer.            *)
(***************************************************************************)
writerOnly == <<boot, rd>>

Return(status) ==
  /\ wpc' = "idle"
  /\ lock' = NoTask
  /\ wres' = status
  /\ flashFile' = NoFile

\* Take the lock and find the file.
SaveBeginDone(v) ==
  /\ boot = "up" /\ wpc = "idle" /\ lock = NoTask
  /\ FirstLive(map) < N
  /\ lock' = Writer
  /\ wpc' = "mark"
  /\ wres' = "none"
  /\ flashFile' = [hdr |-> NewHdr(v), data |-> FileOf(v), len |-> Pages[v],
                   head |-> FirstLive(map), next |-> 0]
  /\ UNCHANGED <<crc, writerOnly>>

\* The valid bit of the file's header is cleared.
SaveBegin(v) ==
  /\ SaveBeginDone(v)
  /\ hdr' = IF HasFile(map)
              THEN LET i == FirstLive(map) IN
                   [hdr EXCEPT ![i] = AndHdr(@, [@ EXCEPT !.valid = FALSE])]
              ELSE hdr
  /\ UNCHANGED <<map, dat>>

\* Every entry is OLD.
SaveRefused ==
  /\ boot = "up" /\ wpc = "idle" /\ lock = NoTask
  /\ FirstLive(map) = N
  /\ wres' = "ENOENTRY3"
  /\ UNCHANGED <<flashVars, crc, lock, wpc, flashFile, writerOnly>>

\* Mutant: the old entry is taken to have as many pages as the new one.
NewHeadSameLen == IF flashFile.head + flashFile.len < N
                    THEN flashFile.head + flashFile.len ELSE N

\* Where the new entry starts: past the run of the current one.
NewHead == RunEnd(map, flashFile.head)

\* Mutant: one page too few is marked CURRENT.
SaveMapShort ==
  [i \in Entries |->
     IF i \in flashFile.head..(NewHead - 1) THEN OLD
     ELSE IF i \in NewHead..(NewHead + flashFile.len - 2) THEN CURRENT
     ELSE map[i]]

\* Mutant: the new run is marked one entry too far.
SaveMapShifted ==
  [i \in Entries |->
     IF i \in flashFile.head..(NewHead - 1) THEN OLD
     ELSE IF i \in (NewHead + 1)..(NewHead + flashFile.len) THEN CURRENT
     ELSE map[i]]

SaveMap ==
  [i \in Entries |->
     IF i \in flashFile.head..(NewHead - 1) THEN OLD
     ELSE IF i \in NewHead..(NewHead + flashFile.len - 1) THEN CURRENT
     ELSE map[i]]

\* Mutant: the boundary is off by one.
FitsOneMore == NewHead + flashFile.len <= N + 1

Fits == NewHead + flashFile.len <= N

\* Mutant: the map is written before the room is checked.
SaveOverflowLate ==
  /\ wpc = "mark"
  /\ ~Fits
  /\ Return(IF NewHead = N THEN "EOVERFLOW" ELSE "EOVERFLOW2")
  /\ ProgramMap(SaveMap)
  /\ UNCHANGED <<hdr, dat, crc, writerOnly>>

\* Mutant: the early return forgets to give the lock back.
SaveOverflowKeepsLock ==
  /\ wpc = "mark"
  /\ ~Fits
  /\ wpc' = "idle"
  /\ wres' = IF NewHead = N THEN "EOVERFLOW" ELSE "EOVERFLOW2"
  /\ flashFile' = NoFile
  /\ UNCHANGED <<flashVars, crc, lock, writerOnly>>

\* No room left: the map stays as it was.
SaveOverflow ==
  /\ wpc = "mark"
  /\ ~Fits
  /\ Return(IF NewHead = N THEN "EOVERFLOW" ELSE "EOVERFLOW2")
  /\ UNCHANGED <<flashVars, crc, writerOnly>>

SaveMarkDone ==
  /\ wpc = "mark"
  /\ Fits
  /\ flashFile' = [flashFile EXCEPT !.head = NewHead]
  /\ wpc' = "build"
  /\ UNCHANGED <<crc, lock, wres, writerOnly>>

SaveMark == SaveMarkDone /\ ProgramMap(SaveMap) /\ UNCHANGED <<hdr, dat>>

\* Build the file in RAM and note its CRC.
SaveBuild ==
  /\ wpc = "build"
  /\ crc' = flashFile.data
  /\ wpc' = "write"
  /\ UNCHANGED <<flashVars, lock, flashFile, wres, writerOnly>>

SavePage ==
  /\ wpc = "write"
  /\ ProgramNextPage
  /\ IF LastPage
       THEN Return("OK")
       ELSE /\ flashFile' = [flashFile EXCEPT !.next = @ + 1]
            /\ UNCHANGED <<wpc, lock, wres>>
  /\ UNCHANGED <<crc, writerOnly>>

\* The encryption or the CRC of the new file fails, or a page program does:
\* the one place where write_file looks at the status of a program.
SaveFail ==
  /\ wpc \in {"build", "write"}
  /\ Faults
  /\ Return("EIO")
  /\ UNCHANGED <<flashVars, crc, writerOnly>>

\* SLN_FLASH_MGMT_Erase does not take the lock.
Erase ==
  /\ boot = "up" /\ wpc = "idle"
  /\ \/ EraseSector /\ wres' = "OK"
     \/ Faults /\ wres' = "EIO" /\ UNCHANGED flashVars
  /\ UNCHANGED <<crc, lock, flashFile, wpc, writerOnly>>

SaveStep == SaveOverflow \/ SaveMark \/ SaveBuild \/ SavePage \/ SaveFail

-----------------------------------------------------------------------------
(***************************************************************************)
(* SLN_FLASH_MGMT_Read and SLN_FLASH_MGMT_ReadDataPtr, by a reader.        *)
(***************************************************************************)
readerOnly == <<flashVars, crc, boot, flashFile, wpc, wres>>

\* Leave a read with this status and data.
Answer(r, status, buf) ==
  rd' = [rd EXCEPT ![r] = [idle EXCEPT !.op = rd[r].op, !.status = status, !.buf = buf]]

ReadBegin(r, op) ==
  /\ boot = "up" /\ rd[r].pc = "idle" /\ lock = NoTask
  /\ IF HasFile(map)
       THEN /\ lock' = r
            /\ rd' = [rd EXCEPT ![r] = [idle EXCEPT !.pc = "header", !.op = op,
                                                    !.head = FirstLive(map)]]
       ELSE /\ rd' = [rd EXCEPT ![r] = [idle EXCEPT !.op = op, !.status =
                        IF FirstLive(map) = N THEN "ENOENTRY3" ELSE "ENOENTRY2"]]
            /\ UNCHANGED lock
  /\ UNCHANGED readerOnly

ReadHeader(r) ==
  /\ rd[r].pc = "header"
  /\ rd' = [rd EXCEPT ![r].hdr = hdr[rd[r].head],
                      ![r].pc = IF rd[r].op = "Read" THEN "copy" ELSE "check"]
  /\ UNCHANGED <<lock, readerOnly>>

\* get_file_data: copy, decrypting if need be, the size the header told.
ReadCopy(r) ==
  /\ rd[r].pc = "copy"
  /\ \E n \in Sizes(rd[r].hdr) :
       rd' = [rd EXCEPT ![r].buf = PagesAt(rd[r].head, n), ![r].pc = "check"]
  /\ UNCHANGED <<lock, readerOnly>>

\* The CRC is run over the flash, not over the copy.  A read that fails the
\* check still hands the data over.
ReadCheck(r) ==
  /\ rd[r].pc = "check"
  /\ \E n \in Sizes(rd[r].hdr) :
       LET data == PagesAt(rd[r].head, n) IN
       Answer(r, IF CrcOk(rd[r].hdr, data) THEN "OK" ELSE "EENCRYPT2",
                 IF rd[r].op = "Read" THEN rd[r].buf ELSE data)
  /\ lock' = NoTask
  /\ UNCHANGED readerOnly

\* The crypto engine fails to compute the CRC: nothing is handed over.
ReadFail(r) ==
  /\ rd[r].pc = "check"
  /\ Faults
  /\ Answer(r, "EENCRYPT", NoData)
  /\ lock' = NoTask
  /\ UNCHANGED readerOnly

ReadStep(r) == ReadHeader(r) \/ ReadCopy(r) \/ ReadCheck(r) \/ ReadFail(r)

-----------------------------------------------------------------------------
(***************************************************************************)
(* A program that fails, leaving its page as it was, where the status of   *)
(* SLN_Write_Flash_Page is ignored: the code goes on as after a good one.  *)
(***************************************************************************)
LostProgram ==
  /\ LostPrograms
  /\ GcMarkDone \/ GcPageDone \/ SaveMarkDone \/ \E v \in Values : SaveBeginDone(v)
  /\ UNCHANGED flashVars

-----------------------------------------------------------------------------
(***************************************************************************)
(* Power loss, between two steps or in the middle of a program.            *)
(***************************************************************************)
Reset ==
  /\ boot' = "gc"
  /\ crc' = NoData
  /\ lock' = NoTask
  /\ flashFile' = NoFile
  /\ wpc' = "idle"
  /\ wres' = "none"
  /\ rd' = [r \in Readers |-> idle]

PowerLoss ==
  /\ Reset
  /\ UNCHANGED flashVars

\* The program of a map is cut short.
TornMap ==
  /\ TornMaps
  /\ \/ boot = "map" /\ TearMap(GcMap)
     \/ wpc = "mark" /\ Fits /\ TearMap(SaveMap)
  /\ Reset
  /\ UNCHANGED <<hdr, dat>>

\* The program of a file page is cut short.
TornPage ==
  /\ boot = "pages" \/ wpc = "write"
  /\ ProgramPage(NextPage, MixedHdr, MixedBody)
  /\ Reset
  /\ UNCHANGED map

\* The steps in which no program fails unnoticed.
CheckedNext ==
  \/ BootStep
  \/ \E v \in Values : SaveBegin(v)
  \/ SaveRefused
  \/ SaveStep
  \/ Erase
  \/ \E r \in Readers : (\E op \in {"Read", "ReadDataPtr"} : ReadBegin(r, op)) \/ ReadStep(r)
  \/ PowerLoss
  \/ TornMap
  \/ TornPage

Next == CheckedNext \/ LostProgram

Spec == Init /\ [][Next]_vars

\* main() runs the boot code to its end; a task that holds the lock is not
\* kept from running by the others, which wait for the lock without polling.
Fairness ==
  /\ WF_vars(BootStep)
  /\ WF_vars(SaveStep)
  /\ \A r \in Readers : WF_vars(ReadStep(r))

FairSpec == Spec /\ Fairness

-----------------------------------------------------------------------------
(***************************************************************************)
(* Properties.                                                             *)
(***************************************************************************)
Data(n) == [0..(n - 1) -> Bodies]

FileImages(n) == [hdr : Headers, data : Data(n), len : {n}, head : 0..N, next : 0..N]

ReaderStates(n) == [pc : {"idle", "header", "copy", "check"}, op : {"Read", "ReadDataPtr"},
                    head : Entries, hdr : Headers, buf : Data(n),
                    status : {"none", "OK", "ENOENTRY2", "ENOENTRY3", "EENCRYPT", "EENCRYPT2"}]

FlashOK ==
  /\ map \in [Entries -> Marks]
  /\ hdr \in [Entries -> Headers]
  /\ dat \in [Entries -> Bodies]
  /\ \E n \in 0..N : crc \in Data(n)

ControlOK ==
  /\ lock \in Readers \cup {Writer, NoTask}
  /\ boot \in {"gc", "map", "pages", "mirror", "up"}
  /\ wpc \in {"idle", "mark", "build", "write"}
  /\ wres \in {"none", "OK", "EOVERFLOW", "EOVERFLOW2", "ENOENTRY3", "EIO"}

\* An image being programmed has a page to go and lies within the sector.
ImageOK ==
  /\ \E n \in 0..N : flashFile \in FileImages(n)
  /\ flashFile.head + flashFile.len <= N \/ wpc = "mark"
  /\ boot \in {"map", "pages"} \/ wpc # "idle" => flashFile.next < flashFile.len

ReadersOK ==
  /\ rd = [r \in Readers |-> rd[r]]
  /\ \A r \in Readers : \E n \in 0..N : rd[r] \in ReaderStates(n)

\* Every variable has its type, and no page of an image is ever programmed
\* beyond the sector, which is where the next file starts.
TypeOK == FlashOK /\ ControlOK /\ ImageOK /\ ReadersOK

\* What a read of the file would find if nothing else ran.
Content ==
  LET i == FirstLive(map) IN
  IF ~HasFile(map) THEN None
  ELSE IF hdr[i].val \in Values /\ CrcOk(hdr[i], PagesAt(i, Pages[hdr[i].val]))
    THEN hdr[i].val
    ELSE Broken

\* A page whose map entry is FREE holds nothing: a Save finds its pages erased.
FreeIsBlank ==
  \A i \in Entries : map[i] = FREE => hdr[i] = BlankHdr /\ dat[i] = BlankBody

\* The map is a run of OLD entries, then the CURRENT ones, then the FREE ones.
MapShape ==
  \A i, j \in Entries : i < j => map[i] <= map[j]

\* No program of a file page meets a page that was programmed before.
ProgramsBlank ==
  wpc = "write" \/ boot = "pages" =>
    hdr[NextPage] = BlankHdr /\ dat[NextPage] = BlankBody

\* Past the compaction a Save finds an entry to use: ENOENTRY3, which the
\* clients do not recover from as they do from an overflow, does not happen.
SectorUsable ==
  boot \in {"mirror", "up"} => FirstLive(map) < N

\* Save and the compaction never run together, and the compaction starts over
\* at the first page of an erased sector.
Phases ==
  /\ boot # "up" => wpc = "idle"
  /\ boot \in {"map", "pages"} => flashFile.head = 0
  /\ boot = "map" \/ wpc \in {"mark", "build"} => flashFile.next = 0

\* The pages of an image are marked before any of them is programmed.
ImageMarked ==
  boot = "pages" \/ wpc \in {"build", "write"} =>
    \A p \in 0..(flashFile.len - 1) : map[flashFile.head + p] # FREE

\* With whole map programs: no byte is anything but a mark, one entry is live,
\* Save looks for room from the first live entry, the compaction starts from an
\* erased map, and what is left to program of an image meets erased pages.
WholeMarks == map \in [Entries -> {OLD, CURRENT, FREE}]

SomeLive == \E i \in Entries : Live(map, i)

Layout ==
  /\ wpc = "mark" => flashFile.head = FirstLive(map)
  /\ boot = "map" => \A i \in Entries : map[i] = FREE

RestBlank ==
  boot = "pages" \/ wpc \in {"build", "write"} =>
    \A p \in flashFile.next..(flashFile.len - 1) :
      LET i == flashFile.head + p IN hdr[i] = BlankHdr /\ dat[i] = BlankBody

\* The compaction leaves the file, or the first free entry, in the first half.
BootLeavesRoom ==
  boot = "mirror" => FirstLive(map) <= GC_THRESHOLD

\* A value can appear in the file only by its own Save, or by the compaction
\* putting it back: no crash and no torn program brings an older one back.
NeverResurrected ==
  [][Content' \in Values /\ Content' # Content =>
       /\ flashFile.hdr.val = Content'
       /\ wpc = "write" \/ boot = "pages"]_vars

PowerStays == <>[][boot' = "gc" => boot = "gc"]_vars

\* Once power stays on, the file system comes up.
BootEnds == PowerStays => <>[](boot = "up")

\* Once power stays on, nobody keeps the lock: no exit of Save or of a read
\* leaves it taken.
LockFreed == PowerStays => []<>(lock = NoTask)

=============================================================================
