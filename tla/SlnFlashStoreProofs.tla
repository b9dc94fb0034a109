------------------------ MODULE SlnFlashStoreProofs ------------------------
(***************************************************************************)
(* What a read of the file would find, through every step of the flash     *)
(* file system: no value reappears, and without torn map programs the      *)
(* sector implements FileStore, for every sector size, set of values and   *)
(* readers, with failing drivers and power losses, as long as no program   *)
(* fails where the code ignores the status.                                *)
(***************************************************************************)
EXTENDS SlnFlashStore, SlnFlashMgmtProofs

-----------------------------------------------------------------------------
(***************************************************************************)
(* Invariants that hold with torn map programs too.                        *)
(***************************************************************************)
BlankPage(i) == hdr[i] = BlankHdr /\ dat[i] = BlankBody

\* Nothing clears the clean bit (Update would, and has no caller): what a read
\* finds does not depend on the CRC mirror.
Clean ==
  /\ \A i \in Entries : hdr[i].clean = TRUE
  /\ flashFile.hdr.clean = TRUE
  /\ \A r \in Readers : rd[r].hdr.clean = TRUE

\* The image Save programs is that of a value; one that the compaction copies
\* has at least the size of the value its header names.
Imaged ==
  /\ flashFile.hdr.val \in Values => flashFile.len = Pages[flashFile.hdr.val]
  /\ wpc # "idle" =>
       /\ flashFile.hdr.val \in Values
       /\ flashFile.data = FileOf(flashFile.hdr.val)

\* An entry whose mark was not completed has erased pages too.
LooseIsBlank == \A i \in Entries : map[i] > CURRENT => BlankPage(i)

\* The first page of a file is programmed where every earlier entry is dead,
\* and no later program touches the entries before it.
HeadsFirst ==
  \A j \in Entries : hdr[j].val \in Values => \A i \in 0..(j - 1) : ~Live(map, i)

Heads ==
  /\ wpc = "mark" => flashFile.head = FirstLive(map)
  /\ wpc \in {"build", "write"} =>
       /\ \A i \in 0..(flashFile.head - 1) : ~Live(map, i)
       /\ \A p \in 0..(flashFile.len - 1) : map[flashFile.head + p] <= CURRENT

\* The compaction programs an erased sector from its start.
Compaction ==
  /\ boot = "map" => \A i \in Entries : map[i] = FREE
  /\ boot = "pages" =>
       /\ map[0] = CURRENT
       /\ \A p \in 0..(flashFile.len - 1) : map[p] <= CURRENT
       /\ flashFile.next > 0 => hdr[0].val = flashFile.hdr.val
       /\ \A p \in 0..(flashFile.next - 1) : dat[p] = flashFile.data[p]
       /\ \A p \in flashFile.next..(N - 1) : BlankPage(p)

ContentInv == Clean /\ Imaged /\ LooseIsBlank /\ HeadsFirst /\ Heads /\ Compaction

-----------------------------------------------------------------------------
(***************************************************************************)
(* Invariants of the refinement.                                           *)
(***************************************************************************)
\* The tasks exclude one another, except that Erase takes no lock.
Locked ==
  /\ wpc # "idle" => lock = Writer
  /\ \A r \in Readers : rd[r].pc # "idle" =>
       lock = r /\ boot = "up" /\ rd[r].status = "none"

\* What Save has programmed so far.
Written ==
  wpc \in {"build", "write"} =>
    /\ map[flashFile.head] = CURRENT
    /\ flashFile.next > 0 => hdr[flashFile.head].val = flashFile.hdr.val
    /\ \A p \in 0..(flashFile.next - 1) :
         dat[flashFile.head + p] = flashFile.data[p]

\* What a reader has found so far is what the flash holds, or an Erase came
\* in between and the sector is blank.
View(r) ==
  \/ \A i \in Entries : dat[i] = BlankBody
  \/ /\ HasFile(map)
     /\ rd[r].head = FirstLive(map)
     /\ rd[r].pc \in {"copy", "check"} => rd[r].hdr.val = hdr[rd[r].head].val
     /\ rd[r].pc = "check" /\ rd[r].op = "Read" =>
          \E n \in Sizes(rd[r].hdr) : rd[r].buf = PagesAt(rd[r].head, n)

Views == \A r \in Readers : rd[r].pc # "idle" => View(r)

StoreInv == Locked /\ Written /\ Views

-----------------------------------------------------------------------------
(***************************************************************************)
(* What programs leave, and where the file is.                             *)
(***************************************************************************)
LEMMA AndMarkFacts ==
  ASSUME NEW a \in Marks, NEW b \in Marks
  PROVE  /\ AndMark(a, b) \in Marks /\ AndMark(a, b) <= a /\ AndMark(a, b) <= b
         /\ b = a => AndMark(a, b) = a
         /\ b = OLD => AndMark(a, b) = OLD
         /\ a = FREE => AndMark(a, b) = b
BY DEF AndMark, Marks, OLD, FREE

\* A program leaves what was there, what was programmed, or a mixture.
LEMMA AndHdrFacts ==
  ASSUME NEW a \in Headers, NEW b \in Headers
  PROVE  /\ AndHdr(a, b) \in Headers
         /\ AndHdr(a, b).val \in {a.val, b.val, Mixed}
         /\ a.val = b.val => AndHdr(a, b).val = a.val
         /\ b.val = Mixed => AndHdr(a, b).val = Mixed
         /\ a.clean = TRUE /\ b.clean = TRUE => AndHdr(a, b).clean = TRUE
         /\ a = BlankHdr => AndHdr(a, b).val = b.val
BY NamesAssumption DEF AndHdr, AndVal, Headers, BlankHdr

LEMMA AndBodyFacts ==
  ASSUME NEW a \in Bodies, NEW b \in Bodies
  PROVE  /\ AndBody(a, b) \in {a, b, MixedBody}
         /\ b = MixedBody => AndBody(a, b) = MixedBody
         /\ a = BlankBody => AndBody(a, b) = b
BY NamesAssumption DEF AndBody, BlankBody, MixedBody, Body

\* The bodies of files differ from one another and from what is no file.
LEMMA BodyNames ==
  ASSUME NEW v \in Values, NEW p
  PROVE  /\ Body(v, p) # BlankBody /\ Body(v, p) # MixedBody
         /\ \A w, q : Body(w, q) = Body(v, p) => w = v /\ q = p
<1>1. v # Blank /\ v # Mixed
  BY NamesAssumption
<1>2. \A w, q : Body(w, q).val = w /\ Body(w, q).part = q
  BY DEF Body
<1>3. QED
  BY <1>1, <1>2 DEF BlankBody, MixedBody

\* get_sector_file_map finds the entry before which all are retired.
LEMMA FirstLiveIs ==
  ASSUME NEW m, NEW i \in Entries, Live(m, i), \A j \in 0..(i - 1) : ~Live(m, j)
  PROVE  FirstLive(m) = i
<1>1. i \in 0..N /\ i < N
  BY SectorAssumption DEF Entries
<1>2. FirstLive(m) \in 0..N
  BY FirstLiveFacts
<1>3. ~(i < FirstLive(m))
  <2>1. i < FirstLive(m) => i \in 0..(FirstLive(m) - 1)
    BY <1>1, <1>2
  <2>2. QED
    BY <2>1, FirstLiveFacts
<1>4. ~(FirstLive(m) < i)
  <2>1. FirstLive(m) < i => FirstLive(m) \in 0..(i - 1) /\ FirstLive(m) < N
    BY <1>1, <1>2, SectorAssumption
  <2>2. QED
    BY <2>1, FirstLiveFacts
<1>5. QED
  BY <1>1, <1>2, <1>3, <1>4, SectorAssumption

\* The whole of value v is in the flash from entry i on.
StoredAt(i, v) ==
  /\ hdr[i].val = v
  /\ \A p \in 0..(Pages[v] - 1) : i + p \in Entries /\ dat[i + p] = Body(v, p)

LEMMA PagesAreFile ==
  ASSUME NEW i \in Nat, NEW v \in Values
  PROVE  PagesAt(i, Pages[v]) = FileOf(v)
           <=> \A p \in 0..(Pages[v] - 1) : i + p \in Entries /\ dat[i + p] = Body(v, p)
<1> DEFINE D == 0..(Pages[v] - 1)
<1>1. \A p \in D : i + p \in Entries <=> i + p < N
  BY SectorAssumption DEF Entries
<1>2. \A p \in D : Body(v, p) # MixedBody
  BY BodyNames
<1> DEFINE F(p) == IF i + p < N THEN dat[i + p] ELSE MixedBody
           G(p) == Body(v, p)
<1>3. PagesAt(i, Pages[v]) = [p \in D |-> F(p)] /\ FileOf(v) = [p \in D |-> G(p)]
  BY DEF PagesAt, FileOf
<1>4. (\A p \in D : F(p) = G(p)) <=> \A p \in D : i + p \in Entries /\ dat[i + p] = Body(v, p)
  BY <1>1, <1>2
<1> HIDE DEF D, F, G
<1>5. [p \in D |-> F(p)] = [p \in D |-> G(p)] <=> \A p \in D : F(p) = G(p)
  <2>1. ASSUME [p \in D |-> F(p)] = [p \in D |-> G(p)]
        PROVE  \A p \in D : F(p) = G(p)
    <3>1. \A p \in D : [q \in D |-> F(q)][p] = F(p) /\ [q \in D |-> G(q)][p] = G(p)
      OBVIOUS
    <3>2. QED
      BY <2>1, <3>1
  <2>2. QED
    BY <2>1
<1>6. QED
  BY <1>3, <1>4, <1>5 DEF D

\* Two values have different files.
LEMMA FilesDiffer ==
  ASSUME NEW v \in Values, NEW w \in Values, FileOf(v) = FileOf(w)
  PROVE  v = w
<1>1. 0 \in 0..(Pages[v] - 1) /\ 0 \in 0..(Pages[w] - 1)
  BY FileOfType, SectorAssumption
<1>2. FileOf(v)[0] = Body(v, 0) /\ FileOf(w)[0] = Body(w, 0)
  BY <1>1 DEF FileOf
<1>3. QED
  BY <1>2, BodyNames

\* What a read would find, while the clean bits are set.
ContentFacts ==
  /\ Content \in Values \cup {None, Broken}
  /\ Content = None <=> ~HasFile(map)
  /\ \A v \in Values : Content = v <=> HasFile(map) /\ StoredAt(FirstLive(map), v)
  /\ FirstLive(map) \in 0..N
  /\ FirstLive(map) \in Entries <=> FirstLive(map) < N

LEMMA ContentNow == TypeInv /\ Clean => ContentFacts
<1> SUFFICES ASSUME TypeInv, Clean PROVE ContentFacts
  OBVIOUS
<1> DEFINE i == FirstLive(map)
<1>1. i \in 0..N /\ (i \in Entries <=> i < N)
  BY FirstLiveFacts, SectorAssumption DEF Entries
<1>2. None \notin Values /\ Broken \notin Values /\ None # Broken
  BY NamesAssumption
<1>3. CASE ~HasFile(map)
  <2>1. Content = None
    BY <1>3 DEF Content
  <2>2. QED
    BY <1>1, <1>2, <1>3, <2>1 DEF ContentFacts
<1>4. CASE HasFile(map)
  <2>1. i \in Entries /\ i \in Nat
    BY <1>1, <1>4, SectorAssumption DEF HasFile
  <2>2. hdr[i].clean = TRUE
    BY <2>1 DEF Clean
  <2>3. ASSUME NEW v \in Values, hdr[i].val = v
        PROVE  CrcOk(hdr[i], PagesAt(i, Pages[hdr[i].val])) <=> StoredAt(i, v)
    BY <2>1, <2>2, <2>3, PagesAreFile DEF CrcOk, StoredAt
  <2>4. Content = IF hdr[i].val \in Values /\ CrcOk(hdr[i], PagesAt(i, Pages[hdr[i].val]))
                    THEN hdr[i].val ELSE Broken
    BY <1>4 DEF Content
  <2> HIDE DEF i
  <2>5. CASE hdr[i].val \in Values /\ StoredAt(i, hdr[i].val)
    <3>1. Content = hdr[i].val
      BY <2>3, <2>4, <2>5
    <3>2. \A v \in Values : StoredAt(i, v) => v = hdr[i].val
      BY DEF StoredAt
    <3>3. QED
      BY <1>1, <1>2, <1>4, <2>5, <3>1, <3>2 DEF ContentFacts, i
  <2>6. CASE ~(hdr[i].val \in Values /\ StoredAt(i, hdr[i].val))
    <3>1. Content = Broken
      BY <2>3, <2>4, <2>6
    <3>2. \A v \in Values : ~StoredAt(i, v)
      BY <2>6 DEF StoredAt
    <3>3. QED
      BY <1>1, <1>2, <1>4, <3>1, <3>2 DEF ContentFacts, i
  <2>7. QED
    BY <2>5, <2>6
<1>5. QED
  BY <1>3, <1>4

LEMMA ContentNext == (TypeInv /\ Clean)' => ContentFacts'
BY ContentNow, PTL

-----------------------------------------------------------------------------
(***************************************************************************)
(* Nothing clears a clean bit.                                             *)
(***************************************************************************)
LEMMA CleanPage ==
  ASSUME FlashOK, Clean, NEW i, NEW h \in Headers, NEW b, h.clean = TRUE,
         ProgramPage(i, h, b)
  PROVE  \A j \in Entries : hdr'[j].clean = TRUE
<1>1. \A j \in Entries : hdr'[j] \in {hdr[j], AndHdr(hdr[j], h)}
  BY DEF ProgramPage, FlashOK
<1>2. \A j \in Entries : AndHdr(hdr[j], h).clean = TRUE
  BY AndHdrFacts DEF FlashOK, Clean
<1>3. QED
  BY <1>1, <1>2, Zenon DEF Clean

LEMMA CleanErase == EraseSector => \A j \in Entries : hdr'[j].clean = TRUE
BY DEF EraseSector, BlankHdr

LEMMA CleanNextHdr ==
  ASSUME TypeInv, Clean, boot = "pages" \/ wpc = "write"
  PROVE  NextHdr \in Headers /\ NextBody \in Bodies /\ NextHdr.clean = TRUE
<1>1. NextHdr \in Headers /\ NextBody \in Bodies
  BY NextPageType DEF TypeInv, TypeOK
<1>2. MixedHdr.clean = TRUE
  BY DEF MixedHdr
<1>3. NextHdr.clean = TRUE
  BY <1>2, Zenon DEF NextHdr, Clean
<1>4. QED
  BY <1>1, <1>3

LEMMA NextNotVoid ==
  ASSUME TypeInv, flashFile' = [flashFile EXCEPT !.next = @ + 1]
  PROVE  /\ flashFile'.hdr = flashFile.hdr /\ flashFile'.data = flashFile.data
         /\ flashFile'.len = flashFile.len /\ flashFile'.head = flashFile.head
         /\ flashFile'.next = flashFile.next + 1
BY DEF TypeInv, TypeOK, ImageOK, FileImages

LEMMA CleanImage ==
  ASSUME TypeInv, Clean, [CheckedNext]_vars
  PROVE  flashFile'.hdr.clean = TRUE
<1> USE DEF bootOnly, writerOnly, readerOnly, flashVars
<1>0. NoFile.hdr.clean = TRUE /\ \A v \in Values : NewHdr(v).clean = TRUE
  BY DEF NoFile, NewHdr, BlankHdr
<1>1. CASE GcErase
  <2>1. HasFile(map)
    BY <1>1 DEF GcErase
  <2>2. FirstLive(map) \in Entries
    BY <2>1, FirstLiveFacts, SectorAssumption DEF HasFile, Entries
  <2>3. flashFile'.hdr = hdr[FirstLive(map)]
    BY <1>1 DEF GcErase
  <2>4. QED
    BY <2>2, <2>3 DEF Clean
<1>2. ASSUME NEW v \in Values, SaveBegin(v)
      PROVE  flashFile'.hdr.clean = TRUE
  <2>1. flashFile'.hdr = NewHdr(v)
    BY <1>2 DEF SaveBegin, SaveBeginDone
  <2>2. QED
    BY <1>0, <2>1
<1>3. CASE flashFile' = flashFile \/ flashFile' = NoFile
  BY <1>0, <1>3, Zenon DEF Clean
<1>4. CASE flashFile' = [flashFile EXCEPT !.next = @ + 1]
  BY <1>4, NextNotVoid DEF Clean
<1>5. CASE SaveMark
  <2>1. flashFile'.hdr = flashFile.hdr
    BY <1>5 DEF SaveMark, SaveMarkDone, TypeInv, TypeOK, ImageOK, FileImages
  <2>2. QED
    BY <2>1 DEF Clean
<1>6. CASE BootStep /\ ~GcErase
  BY <1>3, <1>4, <1>6 DEF BootStep, GcKeep, GcDiscard, GcFail, GcMark, GcMarkDone, GcPage, GcPageDone, Mirror
<1>7. CASE SaveRefused \/ Erase \/ (SaveStep /\ ~SaveMark)
  BY <1>3, <1>4, <1>7
  DEF SaveRefused, Erase, SaveStep, SaveOverflow, SaveBuild, SavePage, SaveFail, Return
<1>8. ASSUME NEW r \in Readers,
             (\E op \in {"Read", "ReadDataPtr"} : ReadBegin(r, op)) \/ ReadStep(r)
      PROVE  flashFile' = flashFile
  BY <1>8 DEF ReadBegin, ReadStep, ReadHeader, ReadCopy, ReadCheck, ReadFail
<1>9. CASE PowerLoss \/ TornMap \/ TornPage
  BY <1>3, <1>9 DEF PowerLoss, TornMap, TornPage, Reset
<1>10. CASE UNCHANGED vars
  BY <1>3, <1>10 DEF vars
<1>11. QED
  BY <1>1, <1>2, <1>3, <1>5, <1>6, <1>7, <1>8, <1>9, <1>10, Zenon DEF CheckedNext, SaveStep

LEMMA CleanHeaders ==
  ASSUME TypeInv, Clean, [CheckedNext]_vars
  PROVE  \A j \in Entries : hdr'[j].clean = TRUE
<1> USE DEF bootOnly, writerOnly, readerOnly, flashVars
<1>1. CASE UNCHANGED hdr
  BY <1>1 DEF Clean
<1>2. CASE EraseSector
  BY <1>2, CleanErase
<1>3. CASE (boot = "pages" \/ wpc = "write") /\ ProgramNextPage
  BY <1>3, CleanNextHdr, CleanPage DEF TypeInv, TypeOK, ProgramNextPage
<1>4. ASSUME NEW v \in Values, SaveBegin(v)
      PROVE  \A j \in Entries : hdr'[j].clean = TRUE
  <2>1. \A j \in Entries :
          hdr'[j] \in {hdr[j], AndHdr(hdr[j], [hdr[j] EXCEPT !.valid = FALSE])}
    BY <1>4 DEF SaveBegin, SaveBeginDone, TypeInv, TypeOK, FlashOK
  <2>2. \A h \in Headers : /\ [h EXCEPT !.valid = FALSE] \in Headers
                           /\ [h EXCEPT !.valid = FALSE].clean = h.clean
    BY DEF Headers
  <2>3. \A h \in Headers : h.clean = TRUE =>
          AndHdr(h, [h EXCEPT !.valid = FALSE]).clean = TRUE
    BY <2>2, AndHdrFacts
  <2>4. QED
    BY <2>1, <2>3 DEF Clean, TypeInv, TypeOK, FlashOK
<1>5. CASE TornPage
  <2>1. MixedHdr \in Headers /\ MixedHdr.clean = TRUE
    BY HeaderFacts DEF MixedHdr
  <2>2. QED
    BY <1>5, <2>1, CleanPage DEF TornPage, TypeInv, TypeOK
<1>6. CASE BootStep
  BY <1>1, <1>2, <1>3, <1>6
  DEF BootStep, GcKeep, GcDiscard, GcErase, GcFail, GcMark, GcMarkDone, GcPage, GcPageDone, Mirror
<1>7. CASE SaveRefused \/ Erase \/ SaveStep
  BY <1>1, <1>2, <1>3, <1>7
  DEF SaveRefused, Erase, SaveStep, SaveOverflow, SaveMark, SaveMarkDone, SaveBuild, SavePage, SaveFail
<1>8. ASSUME NEW r \in Readers,
             (\E op \in {"Read", "ReadDataPtr"} : ReadBegin(r, op)) \/ ReadStep(r)
      PROVE  UNCHANGED hdr
  BY <1>8 DEF ReadBegin, ReadStep, ReadHeader, ReadCopy, ReadCheck, ReadFail
<1>9. CASE PowerLoss \/ TornMap
  BY <1>1, <1>9 DEF PowerLoss, TornMap
<1>10. CASE UNCHANGED vars
  BY <1>1, <1>10 DEF vars
<1>11. QED
  BY <1>1, <1>4, <1>5, <1>6, <1>7, <1>8, <1>9, <1>10, Zenon DEF CheckedNext

LEMMA CleanReaders ==
  ASSUME TypeInv, Clean, [CheckedNext]_vars
  PROVE  \A r \in Readers : rd'[r].hdr.clean = TRUE
<1> USE DEF bootOnly, writerOnly, readerOnly, flashVars
<1>0. idle.hdr.clean = TRUE
  BY DEF idle, BlankHdr
<1>1. CASE UNCHANGED rd
  BY <1>1 DEF Clean
<1>2. CASE Reset
  BY <1>0, <1>2 DEF Reset
<1>3. ASSUME NEW r \in Readers, NEW new, rd' = [rd EXCEPT ![r] = new], new.hdr.clean = TRUE
      PROVE  \A q \in Readers : rd'[q].hdr.clean = TRUE
  BY <1>3 DEF TypeInv, TypeOK, ReadersOK, Clean
<1>4. ASSUME NEW r \in Readers,
             (\E op \in {"Read", "ReadDataPtr"} : ReadBegin(r, op)) \/ ReadStep(r)
      PROVE  \A q \in Readers : rd'[q].hdr.clean = TRUE
  <2>1. PICK m \in 0..N : rd[r] \in ReaderStates(m)
    BY DEF TypeInv, TypeOK, ReadersOK
  <2>2. rd = [q \in Readers |-> rd[q]]
    BY DEF TypeInv, TypeOK, ReadersOK
  <2>3. ASSUME NEW op \in {"Read", "ReadDataPtr"}, ReadBegin(r, op)
        PROVE  \E new : rd' = [rd EXCEPT ![r] = new] /\ new.hdr.clean = TRUE
    <3>1. \A i, s : /\ [idle EXCEPT !.pc = "header", !.op = op, !.head = i].hdr = idle.hdr
                    /\ [idle EXCEPT !.op = op, !.status = s].hdr = idle.hdr
      BY DEF idle
    <3>2. QED
      BY <1>0, <2>3, <3>1 DEF ReadBegin
  <2>4. CASE ReadHeader(r)
    <3>1. rd[r].head \in Entries
      BY <2>1 DEF ReaderStates
    <3>2. rd'[r].hdr = hdr[rd[r].head] /\ \A q \in Readers \ {r} : rd'[q] = rd[q]
      BY <2>1, <2>2, <2>4 DEF ReadHeader, ReaderStates
    <3>3. QED
      BY <3>1, <3>2 DEF Clean
  <2>5. CASE ReadCopy(r)
    <3>1. rd'[r].hdr = rd[r].hdr /\ \A q \in Readers \ {r} : rd'[q] = rd[q]
      BY <2>1, <2>2, <2>5 DEF ReadCopy, ReaderStates
    <3>2. QED
      BY <3>1 DEF Clean
  <2>6. ASSUME NEW s, NEW buf, Answer(r, s, buf)
        PROVE  \E new : rd' = [rd EXCEPT ![r] = new] /\ new.hdr.clean = TRUE
    <3>1. [idle EXCEPT !.op = rd[r].op, !.status = s, !.buf = buf].hdr = idle.hdr
      BY DEF idle
    <3>2. QED
      BY <1>0, <2>6, <3>1 DEF Answer
  <2>7. CASE ReadCheck(r) \/ ReadFail(r)
    <3>1. \E s, buf : Answer(r, s, buf)
      BY <2>7, Zenon DEF ReadCheck, ReadFail
    <3>2. QED
      BY <1>3, <2>6, <3>1
  <2>8. QED
    BY <1>3, <1>4, <2>3, <2>4, <2>5, <2>7 DEF ReadStep
<1>5. CASE BootStep \/ SaveRefused \/ Erase \/ SaveStep \/ \E v \in Values : SaveBegin(v)
  BY <1>1, <1>5
  DEF BootStep, GcKeep, GcDiscard, GcErase, GcFail, GcMark, GcMarkDone, GcPage, GcPageDone, Mirror,
      SaveBegin, SaveBeginDone, SaveRefused, Erase, SaveStep, SaveOverflow, SaveMark, SaveMarkDone, SaveBuild, SavePage,
      SaveFail
<1>6. CASE PowerLoss \/ TornMap \/ TornPage
  BY <1>2, <1>6 DEF PowerLoss, TornMap, TornPage
<1>7. CASE UNCHANGED vars
  BY <1>1, <1>7 DEF vars
<1>8. QED
  BY <1>4, <1>5, <1>6, <1>7, Zenon DEF CheckedNext

LEMMA CleanStep == TypeInv /\ Clean /\ [CheckedNext]_vars => Clean'
BY CleanHeaders, CleanImage, CleanReaders DEF Clean

-----------------------------------------------------------------------------
(***************************************************************************)
(* Heads of files and erased pages, as the flash is programmed.            *)
(***************************************************************************)
LEMMA ProgramShrinks ==
  ASSUME FlashOK, NEW new \in [Entries -> Marks], ProgramMap(new) \/ TearMap(new)
  PROVE  \A i \in Entries : /\ map[i] \in Marks /\ map'[i] \in Marks /\ map'[i] <= map[i]
                            /\ new[i] = map[i] => map'[i] = map[i]
<1>1. \A i \in Entries : map[i] \in Marks /\ new[i] \in Marks
  BY DEF FlashOK
<1>2. CASE ProgramMap(new)
  <2>1. \A i \in Entries : map'[i] = AndMark(map[i], new[i])
    BY <1>2 DEF ProgramMap
  <2>2. QED
    BY <1>1, <2>1, AndMarkFacts
<1>3. CASE TearMap(new)
  <2> DEFINE changed == {i \in Entries : new[i] < map[i]}
  <2>1. PICK part \in [changed -> Marks] :
          /\ \A i \in changed : part[i] \in new[i]..map[i]
          /\ map' = [i \in Entries |-> IF i \in changed THEN part[i] ELSE map[i]]
    BY <1>3 DEF TearMap
  <2>2. \A i \in changed : part[i] \in Marks /\ part[i] <= map[i] /\ new[i] # map[i]
    BY <1>1, <2>1 DEF Marks, OLD, FREE
  <2>3. \A i \in Entries : map'[i] = IF i \in changed THEN part[i] ELSE map[i]
    BY <2>1
  <2>4. \A i \in Entries : map[i] <= map[i]
    BY <1>1 DEF Marks, OLD, FREE
  <2> HIDE DEF changed
  <2>5. QED
    BY <1>1, <2>2, <2>3, <2>4
<1>4. QED
  BY <1>2, <1>3

LEMMA LooseShrink ==
  ASSUME FlashOK, LooseIsBlank, NEW new \in [Entries -> Marks],
         ProgramMap(new) \/ TearMap(new), UNCHANGED <<hdr, dat>>
  PROVE  LooseIsBlank'
<1>1. \A i \in Entries : map'[i] > CURRENT => map[i] > CURRENT
  BY ProgramShrinks DEF Marks, OLD, FREE, CURRENT
<1>2. QED
  BY <1>1 DEF LooseIsBlank, BlankPage

LEMMA LoosePage ==
  ASSUME FlashOK, LooseIsBlank, NEW i, NEW h, NEW b, map[i] <= CURRENT,
         ProgramPage(i, h, b), UNCHANGED map
  PROVE  LooseIsBlank'
<1>1. \A j \in Entries : j # i => hdr'[j] = hdr[j] /\ dat'[j] = dat[j]
  BY DEF ProgramPage, FlashOK
<1>2. \A j \in Entries : map[j] > CURRENT => j # i
  BY DEF FlashOK, Marks, OLD, FREE, CURRENT
<1>3. QED
  BY <1>1, <1>2 DEF LooseIsBlank, BlankPage

\* A head stays one while the entries before the first live one stay as they are.
LEMMA HeadsKept ==
  ASSUME HeadsFirst,
         \A j \in Entries : hdr'[j].val \in Values => hdr[j].val \in Values,
         \A i \in Entries : i < FirstLive(map) => map'[i] = map[i]
  PROVE  HeadsFirst'
<1>1. SUFFICES ASSUME NEW j \in Entries, hdr'[j].val \in Values, NEW i \in 0..(j - 1)
               PROVE  ~Live(map', i)
  BY DEF HeadsFirst
<1>2. i \in Entries /\ j \in 0..N /\ j < N
  BY SectorAssumption DEF Entries
<1>3. ~Live(map, i) /\ ~(FirstLive(map) < j)
  <2>1. \A k \in 0..(j - 1) : ~Live(map, k)
    BY <1>1 DEF HeadsFirst
  <2>2. FirstLive(map) < j => FirstLive(map) \in 0..(j - 1) /\ FirstLive(map) < N
    BY <1>2, FirstLiveFacts, SectorAssumption
  <2>3. QED
    BY <1>1, <2>1, <2>2, FirstLiveFacts
<1>4. i < FirstLive(map)
  BY <1>1, <1>2, <1>3, FirstLiveFacts, SectorAssumption
<1>5. QED
  BY <1>2, <1>3, <1>4 DEF Live

\* Retiring the current run and marking the new one leave earlier entries alone.
LEMMA SaveMapPast ==
  ASSUME TypeInv, Heads, wpc = "mark"
  PROVE  /\ SaveMap \in [Entries -> Marks]
         /\ \A i \in Entries : i < FirstLive(map) => SaveMap[i] = map[i]
<1>1. flashFile.head = FirstLive(map) /\ FirstLive(map) \in 0..N
  BY FirstLiveFacts DEF Heads
<1>2. NewHead \in FirstLive(map)..N
  BY <1>1, RunEndFacts DEF NewHead
<1>3. ASSUME NEW i \in Entries, i < FirstLive(map)
      PROVE  SaveMap[i] = map[i]
  <2>1. i \in Int /\ i \notin flashFile.head..(NewHead - 1)
        /\ i \notin NewHead..(NewHead + flashFile.len - 1)
    BY <1>1, <1>2, <1>3, SectorAssumption DEF Entries
  <2>2. QED
    BY <2>1 DEF SaveMap
<1>4. QED
  BY <1>3, MapsType DEF TypeInv, TypeOK

\* Where the next page goes: an entry of the sector that has been marked, with
\* nothing live before it when the page is a head.
LEMMA NextPagePlace ==
  ASSUME TypeInv, Heads, Compaction, boot = "pages" \/ wpc = "write"
  PROVE  /\ NextPage \in Entries
         /\ map[NextPage] <= CURRENT
         /\ NextHdr.val \in Values => \A i \in 0..(NextPage - 1) : ~Live(map, i)
<1>1. /\ flashFile.next \in 0..(flashFile.len - 1) /\ flashFile.len \in 0..N
      /\ flashFile.head \in 0..N
  BY NextPageType DEF TypeInv, TypeOK, ImageOK, FileImages
<1>2. flashFile.head + flashFile.len <= N /\ (boot = "pages" => flashFile.head = 0)
      /\ (boot = "pages" => wpc = "idle")
  BY DEF TypeInv, TypeOK, ImageOK, Phases
<1>3. NextPage \in Entries
  BY <1>1, <1>2, SectorAssumption DEF NextPage, Entries
<1>4. map[NextPage] <= CURRENT
  BY <1>1, <1>2 DEF Heads, Compaction, NextPage
<1>5. ASSUME NextHdr.val \in Values, NEW i \in 0..(NextPage - 1)
      PROVE  ~Live(map, i)
  <2>1. flashFile.next = 0
    BY <1>5, NamesAssumption DEF NextHdr, MixedHdr
  <2>2. NextPage = flashFile.head
    BY <1>1, <2>1 DEF NextPage
  <2>3. wpc = "write"
    BY <1>2, <1>5, <2>2
  <2>4. QED
    BY <1>5, <2>2, <2>3 DEF Heads
<1>6. QED
  BY <1>3, <1>4, <1>5

LEMMA PageContent ==
  ASSUME TypeInv, LooseIsBlank, HeadsFirst, Heads, Compaction,
         boot = "pages" \/ wpc = "write",
         ProgramNextPage \/ (ProgramPage(NextPage, MixedHdr, MixedBody) /\ UNCHANGED map)
  PROVE  LooseIsBlank' /\ HeadsFirst'
<1>1. UNCHANGED map
  BY DEF ProgramNextPage
<1>2. PICK h, b : /\ ProgramPage(NextPage, h, b)
                  /\ h \in Headers /\ (h = NextHdr \/ h = MixedHdr)
  BY NextPageType, HeaderFacts DEF ProgramNextPage, TypeInv, TypeOK
<1>3. LooseIsBlank'
  BY <1>1, <1>2, LoosePage, NextPagePlace DEF TypeInv, TypeOK
<1>4. ASSUME NEW j \in Entries, hdr'[j].val \in Values, NEW i \in 0..(j - 1)
      PROVE  ~Live(map, i)
  <2>1. CASE hdr[j].val \in Values
    BY <2>1 DEF HeadsFirst
  <2>2. CASE hdr[j].val \notin Values
    <3>1. j = NextPage /\ hdr'[j] = AndHdr(hdr[j], h)
      BY <1>2, <1>4, <2>2 DEF ProgramPage, TypeInv, TypeOK, FlashOK
    <3>2. AndHdr(hdr[j], h).val \in {hdr[j].val, h.val, Mixed}
      BY <1>2, AndHdrFacts DEF TypeInv, TypeOK, FlashOK
    <3>3. Mixed \notin Values /\ MixedHdr.val = Mixed
      BY NamesAssumption DEF MixedHdr
    <3>4. NextHdr.val \in Values
      BY <1>2, <1>4, <2>2, <3>1, <3>2, <3>3, Zenon
    <3>5. QED
      BY <1>4, <3>1, <3>4, NextPagePlace
  <2>3. QED
    BY <2>1, <2>2
<1>5. HeadsFirst'
  BY <1>1, <1>4 DEF HeadsFirst
<1>6. QED
  BY <1>3, <1>5

LEMMA MapContent ==
  ASSUME TypeInv, LooseIsBlank, HeadsFirst, Heads, Compaction, UNCHANGED <<hdr, dat>>,
         \/ boot = "map" /\ (ProgramMap(GcMap) \/ TearMap(GcMap))
         \/ wpc = "mark" /\ (ProgramMap(SaveMap) \/ TearMap(SaveMap))
  PROVE  LooseIsBlank' /\ HeadsFirst'
<1>1. LooseIsBlank'
  BY LooseShrink, MapsType DEF TypeInv, TypeOK
<1>2. CASE boot = "map"
  <2>1. \A i \in Entries : hdr[i] = BlankHdr
    BY <1>2 DEF Compaction, LooseIsBlank, BlankPage, FREE, CURRENT
  <2>2. \A i \in Entries : hdr'[i].val \notin Values
    BY <2>1, NamesAssumption DEF BlankHdr
  <2>3. QED
    BY <1>1, <2>2 DEF HeadsFirst
<1>3. CASE wpc = "mark"
  <2>1. boot = "up"
    BY <1>3 DEF TypeInv, Phases
  <2>2. \A i \in Entries : i < FirstLive(map) => map'[i] = map[i]
    BY <1>3, <2>1, SaveMapPast, ProgramShrinks DEF TypeInv, TypeOK
  <2>3. QED
    BY <1>1, <2>2, HeadsKept
<1>4. QED
  BY <1>2, <1>3

LEMMA BeginHeaders ==
  ASSUME TypeInv, NEW v \in Values, SaveBegin(v)
  PROVE  /\ \A j \in Entries : hdr'[j].val = hdr[j].val
         /\ \A j \in Entries : map[j] > CURRENT => hdr'[j] = hdr[j]
<1> DEFINE i == FirstLive(map)
<1>1. CASE ~HasFile(map)
  BY <1>1 DEF SaveBegin, SaveBeginDone
<1>2. CASE HasFile(map)
  <2>1. map[i] = CURRENT
    BY <1>2 DEF HasFile
  <2>2. hdr' = [hdr EXCEPT ![i] = AndHdr(hdr[i], [hdr[i] EXCEPT !.valid = FALSE])]
    BY <1>2 DEF SaveBegin, SaveBeginDone
  <2> HIDE DEF i
  <2>3. \A h \in Headers : AndHdr(h, [h EXCEPT !.valid = FALSE]).val = h.val
    <3>1. \A h \in Headers : /\ [h EXCEPT !.valid = FALSE] \in Headers
                             /\ [h EXCEPT !.valid = FALSE].val = h.val
      BY DEF Headers
    <3>2. QED
      BY <3>1, AndHdrFacts
  <2>4. \A j \in Entries : j # i => hdr'[j] = hdr[j]
    BY <2>2 DEF TypeInv, TypeOK, FlashOK
  <2>5. i \in Entries => hdr'[i].val = hdr[i].val
    BY <2>2, <2>3 DEF TypeInv, TypeOK, FlashOK
  <2>6. \A j \in Entries : map[j] > CURRENT => j # i
    BY <2>1 DEF CURRENT
  <2>7. QED
    BY <2>4, <2>5, <2>6
<1>3. QED
  BY <1>1, <1>2

LEMMA FlashContent ==
  ASSUME TypeInv, LooseIsBlank, HeadsFirst, Heads, Compaction, [CheckedNext]_vars
  PROVE  LooseIsBlank' /\ HeadsFirst'
<1> USE DEF bootOnly, writerOnly, readerOnly
<1>1. CASE UNCHANGED flashVars
  BY <1>1 DEF LooseIsBlank, BlankPage, HeadsFirst, Live, flashVars
<1>2. CASE EraseSector
  <2>1. \A i \in Entries : hdr'[i] = BlankHdr /\ dat'[i] = BlankBody
    BY <1>2 DEF EraseSector
  <2>2. BlankHdr.val \notin Values
    BY NamesAssumption DEF BlankHdr
  <2>3. QED
    BY <2>1, <2>2 DEF LooseIsBlank, BlankPage, HeadsFirst
<1>3. CASE GcMark \/ SaveMark \/ TornMap
  BY <1>3, MapContent DEF GcMark, GcMarkDone, SaveMark, SaveMarkDone, TornMap
<1>4. CASE GcPage \/ SavePage \/ TornPage
  BY <1>4, PageContent DEF GcPage, GcPageDone, SavePage, TornPage
<1>5. ASSUME NEW v \in Values, SaveBegin(v)
      PROVE  LooseIsBlank' /\ HeadsFirst'
  <2>1. UNCHANGED <<map, dat>>
    BY <1>5 DEF SaveBegin, SaveBeginDone
  <2>2. LooseIsBlank'
    BY <1>5, <2>1, BeginHeaders DEF LooseIsBlank, BlankPage
  <2>3. HeadsFirst'
    BY <1>5, <2>1, BeginHeaders, HeadsKept
  <2>4. QED
    BY <2>2, <2>3
<1>6. CASE BootStep
  BY <1>1, <1>2, <1>3, <1>4, <1>6
  DEF BootStep, GcKeep, GcDiscard, GcErase, GcFail, Mirror
<1>7. CASE SaveRefused \/ Erase \/ SaveStep
  BY <1>1, <1>2, <1>3, <1>4, <1>7
  DEF SaveRefused, Erase, SaveStep, SaveOverflow, SaveBuild, SaveFail
<1>8. ASSUME NEW r \in Readers,
             (\E op \in {"Read", "ReadDataPtr"} : ReadBegin(r, op)) \/ ReadStep(r)
      PROVE  UNCHANGED flashVars
  BY <1>8 DEF ReadBegin, ReadStep, ReadHeader, ReadCopy, ReadCheck, ReadFail
<1>9. CASE PowerLoss \/ UNCHANGED vars
  BY <1>1, <1>9 DEF PowerLoss, vars, flashVars
<1>10. QED
  BY <1>1, <1>3, <1>4, <1>5, <1>6, <1>7, <1>8, <1>9, Zenon DEF CheckedNext

-----------------------------------------------------------------------------
(***************************************************************************)
(* The image in RAM, and what has been programmed of it.                   *)
(***************************************************************************)
\* Nothing is being saved or moved.
LEMMA NothingInFlight ==
  ASSUME flashFile' = NoFile \/ (UNCHANGED flashFile /\ Imaged), wpc' = "idle",
         boot' \notin {"map", "pages"}
  PROVE  Imaged' /\ Heads' /\ Compaction'
<1>1. NoFile.hdr.val \notin Values
  BY NamesAssumption DEF NoFile, BlankHdr
<1>2. QED
  BY <1>1 DEF Imaged, Heads, Compaction

LEMMA SizesOfValue ==
  ASSUME NEW h, h.val \in Values
  PROVE  Sizes(h) = {Pages[h.val]}
<1>1. h.val # Blank
  BY NamesAssumption
<1>2. QED
  BY <1>1, Zenon DEF Sizes

LEMMA ContentGcErase ==
  ASSUME TypeInv, GcErase
  PROVE  Imaged' /\ Heads' /\ Compaction'
<1> DEFINE i == FirstLive(map)
<1>1. wpc' = "idle" /\ boot' = "map"
  BY DEF GcErase, TypeInv, Phases, bootOnly
<1>2. PICK n \in Sizes(hdr[i]) :
        flashFile' = [hdr |-> hdr[i], data |-> PagesAt(i, n), len |-> n, head |-> 0, next |-> 0]
  BY DEF GcErase
<1>3. hdr[i].val \in Values => n = Pages[hdr[i].val]
  BY <1>2, SizesOfValue
<1>4. \A j \in Entries : map'[j] = FREE
  BY DEF GcErase, EraseSector
<1> HIDE DEF i
<1>5. QED
  BY <1>1, <1>2, <1>3, <1>4 DEF Imaged, Heads, Compaction

LEMMA ContentGcMark ==
  ASSUME TypeInv, LooseIsBlank, Imaged, Compaction, GcMark
  PROVE  Imaged' /\ Heads' /\ Compaction'
<1>1. /\ wpc' = "idle" /\ boot' = "pages" /\ wpc = "idle" /\ boot = "map"
      /\ UNCHANGED <<hdr, dat, flashFile>>
  BY DEF GcMark, GcMarkDone, TypeInv, Phases, bootOnly
<1>2. flashFile.next = 0 /\ flashFile.len \in 1..N
  <2>1. flashFile.next = 0
    BY DEF GcMark, GcMarkDone, TypeInv, Phases
  <2>2. flashFile.next \in 0..(flashFile.len - 1) /\ flashFile.len \in 0..N
    BY NextPageType DEF TypeInv, TypeOK, GcMark, GcMarkDone
  <2>3. QED
    BY <2>1, <2>2, SectorAssumption
<1>3. \A i \in Entries : map[i] = FREE /\ BlankPage(i)
  BY <1>1 DEF Compaction, LooseIsBlank, FREE, CURRENT
<1>4. \A i \in Entries : i \in 0..(N - 1) /\ map'[i] = AndMark(FREE, GcMap[i])
  BY <1>3 DEF GcMark, GcMarkDone, ProgramMap, Entries
<1>5. \A p \in 0..(flashFile.len - 1) : p \in Entries /\ map'[p] = CURRENT
  <2>1. \A p \in 0..(flashFile.len - 1) : p \in Entries /\ GcMap[p] = CURRENT
    BY <1>2, SectorAssumption DEF GcMap, Entries
  <2>2. QED
    BY <1>4, <2>1 DEF AndMark, FREE, CURRENT
<1>6. \A p \in 0..(N - 1) : BlankPage(p)'
  BY <1>1, <1>3 DEF Entries, BlankPage
<1>7. Compaction'
  BY <1>1, <1>2, <1>5, <1>6, SectorAssumption DEF Compaction, CURRENT
<1>8. QED
  BY <1>1, <1>7 DEF Imaged, Heads

\* A page of the compaction is the image's, on an erased page.
LEMMA ContentGcPage ==
  ASSUME TypeInv, Imaged, Compaction, GcPage
  PROVE  Imaged' /\ Heads' /\ Compaction'
<1>1. /\ boot = "pages" /\ wpc = "idle" /\ wpc' = "idle" /\ flashFile.head = 0
      /\ UNCHANGED map
  BY DEF GcPage, GcPageDone, ProgramNextPage, TypeInv, Phases, bootOnly
<1>2. CASE LastPage
  BY <1>1, <1>2, NothingInFlight DEF GcPage, GcPageDone
<1>3. CASE ~LastPage
  <2>1. boot' = "pages" /\ flashFile' = [flashFile EXCEPT !.next = @ + 1]
    BY <1>1, <1>3 DEF GcPage, GcPageDone
  <2>2. /\ flashFile'.hdr = flashFile.hdr /\ flashFile'.data = flashFile.data
        /\ flashFile'.len = flashFile.len /\ flashFile'.head = flashFile.head
        /\ flashFile'.next = flashFile.next + 1
    BY <2>1, NextNotVoid
  <2> DEFINE k == flashFile.next
  <2>3. k \in 0..(flashFile.len - 1) /\ flashFile.len \in 0..N /\ NextPage = k /\ k \in Entries
    BY <1>1, NextPageType, SectorAssumption DEF TypeInv, TypeOK, NextPage, Entries
  <2>4. BlankPage(k)
    BY <1>1, <2>3, SectorAssumption DEF Compaction
  <2>5. /\ hdr'[k].val = NextHdr.val
        /\ dat'[k] = flashFile.data[k]
        /\ \A p \in Entries : p # k => hdr'[p] = hdr[p] /\ dat'[p] = dat[p]
    <3>1. NextHdr \in Headers /\ NextBody \in Bodies /\ BlankHdr \in Headers
          /\ BlankBody \in Bodies
      BY <1>1, NextPageType, HeaderFacts, BodyFacts DEF TypeInv, TypeOK
    <3>2. hdr'[k] = AndHdr(BlankHdr, NextHdr) /\ dat'[k] = AndBody(BlankBody, NextBody)
      BY <2>3, <2>4
      DEF GcPage, GcPageDone, ProgramNextPage, ProgramPage, BlankPage, TypeInv, TypeOK, FlashOK
    <3>3. \A p \in Entries : p # k => hdr'[p] = hdr[p] /\ dat'[p] = dat[p]
      BY <2>3 DEF GcPage, GcPageDone, ProgramNextPage, ProgramPage, TypeInv, TypeOK, FlashOK
    <3>4. AndHdr(BlankHdr, NextHdr).val = NextHdr.val /\ AndBody(BlankBody, NextBody) = NextBody
      BY <3>1, AndHdrFacts, AndBodyFacts
    <3>5. QED
      BY <3>2, <3>3, <3>4 DEF NextBody
  <2>6. hdr'[0].val = flashFile.hdr.val
    <3>1. CASE k = 0
      BY <2>5, <3>1 DEF NextHdr
    <3>2. CASE k # 0
      <4>1. hdr'[0] = hdr[0] /\ k > 0
        BY <2>3, <2>5, <3>2, SectorAssumption DEF Entries
      <4>2. QED
        BY <1>1, <4>1 DEF Compaction
    <3>3. QED
      BY <3>1, <3>2
  <2>7. \A p \in 0..k : dat'[p] = flashFile.data[p]
    <3>1. \A p \in 0..(k - 1) : dat[p] = flashFile.data[p] /\ p \in Entries /\ p # k
      BY <1>1, <2>3, SectorAssumption DEF Compaction, Entries
    <3>2. QED
      BY <2>3, <2>5, <3>1
  <2>8. \A p \in (k + 1)..(N - 1) : BlankPage(p)'
    <3>1. \A p \in (k + 1)..(N - 1) : BlankPage(p) /\ p \in Entries /\ p # k
      BY <1>1, <2>3, SectorAssumption DEF Compaction, Entries
    <3>2. QED
      BY <2>5, <3>1 DEF BlankPage
  <2> HIDE DEF k
  <2>9. Compaction'
    <3>1. flashFile'.next = k + 1 /\ flashFile'.next - 1 = k
      BY <2>2, <2>3, SectorAssumption DEF Entries, k
    <3>2. \A p \in 0..(flashFile'.next - 1) : dat'[p] = flashFile'.data[p]
      BY <2>2, <2>7, <3>1
    <3>3. \A p \in flashFile'.next..(N - 1) : BlankPage(p)'
      BY <2>8, <3>1
    <3>4. map'[0] = CURRENT /\ \A p \in 0..(flashFile'.len - 1) : map'[p] <= CURRENT
      BY <1>1, <2>2 DEF Compaction
    <3>5. QED
      BY <2>1, <2>2, <2>6, <3>2, <3>3, <3>4 DEF Compaction
  <2>10. QED
    BY <1>1, <2>2, <2>9 DEF Imaged, Heads
<1>4. QED
  BY <1>2, <1>3

LEMMA ContentBegin ==
  ASSUME TypeInv, NEW v \in Values, SaveBegin(v)
  PROVE  Imaged' /\ Heads' /\ Compaction'
<1>1. wpc' = "mark" /\ boot' = "up" /\ UNCHANGED map
  BY DEF SaveBegin, SaveBeginDone, writerOnly
<1>2. flashFile' = [hdr |-> NewHdr(v), data |-> FileOf(v), len |-> Pages[v],
                    head |-> FirstLive(map), next |-> 0]
  BY DEF SaveBegin, SaveBeginDone
<1>3. FirstLive(map') = FirstLive(map)
  BY <1>1 DEF FirstLive, Live
<1>4. QED
  BY <1>1, <1>2, <1>3 DEF Imaged, Heads, Compaction, NewHdr

LEMMA ContentSaveMark ==
  ASSUME TypeInv, Imaged, Heads, SaveMark
  PROVE  Imaged' /\ Heads' /\ Compaction'
<1>1. wpc = "mark" /\ wpc' = "build" /\ boot = "up" /\ boot' = "up"
  BY DEF SaveMark, SaveMarkDone, TypeInv, Phases, writerOnly
<1>2. /\ flashFile'.hdr = flashFile.hdr /\ flashFile'.data = flashFile.data
      /\ flashFile'.len = flashFile.len /\ flashFile'.head = NewHead
  BY DEF SaveMark, SaveMarkDone, TypeInv, TypeOK, ImageOK, FileImages
<1>3. /\ flashFile.head = FirstLive(map) /\ flashFile.head \in 0..N
      /\ NewHead \in flashFile.head..N /\ flashFile.len \in 0..N
      /\ NewHead + flashFile.len <= N
  BY <1>1, NewHeadType DEF Heads, SaveMark, SaveMarkDone, Fits
<1>4. SaveMap \in [Entries -> Marks] /\ map \in [Entries -> Marks]
      /\ \A i \in Entries : map'[i] = AndMark(map[i], SaveMap[i])
  BY MapsType DEF TypeInv, TypeOK, FlashOK, SaveMark, SaveMarkDone, ProgramMap
<1>5. ASSUME NEW i \in 0..(NewHead - 1)
      PROVE  ~Live(map', i)
  <2>1. i \in Entries
    BY <1>3, SectorAssumption DEF Entries
  <2>2. CASE i < flashFile.head
    <3>1. SaveMap[i] = map[i]
      BY <1>1, <1>3, <2>1, <2>2, SaveMapPast
    <3>2. map'[i] = map[i]
      BY <1>4, <2>1, <3>1, AndMarkFacts
    <3>3. i \in 0..(FirstLive(map) - 1)
      BY <1>3, <2>2
    <3>4. QED
      BY <3>2, <3>3, FirstLiveFacts DEF Live
  <2>3. CASE ~(i < flashFile.head)
    <3>1. i \in flashFile.head..(NewHead - 1)
      BY <1>3, <2>3
    <3>2. SaveMap[i] = OLD
      BY <2>1, <3>1 DEF SaveMap
    <3>3. map'[i] = OLD
      BY <1>4, <2>1, <3>2, AndMarkFacts
    <3>4. QED
      BY <3>3 DEF Live, OLD, CURRENT, FREE
  <2>4. QED
    BY <2>2, <2>3
<1>6. ASSUME NEW p \in 0..(flashFile.len - 1)
      PROVE  map'[NewHead + p] <= CURRENT
  <2>1. /\ NewHead + p \in Entries
        /\ NewHead + p \notin flashFile.head..(NewHead - 1)
        /\ NewHead + p \in NewHead..(NewHead + flashFile.len - 1)
    BY <1>3, SectorAssumption DEF Entries
  <2>2. SaveMap[NewHead + p] = CURRENT
    BY <2>1 DEF SaveMap
  <2>3. QED
    BY <1>4, <2>1, <2>2, AndMarkFacts
<1>7. Heads'
  BY <1>1, <1>2, <1>5, <1>6 DEF Heads
<1>8. QED
  BY <1>1, <1>2, <1>7 DEF Imaged, Compaction

LEMMA ContentSave ==
  ASSUME TypeInv, Imaged, Heads, SaveStep \/ SaveRefused \/ Erase
  PROVE  Imaged' /\ Heads' /\ Compaction'
<1> USE DEF writerOnly
<1>0. boot = "up" /\ boot' = "up"
  BY DEF TypeInv, Phases, SaveRefused, Erase, SaveStep, SaveOverflow, SaveMark, SaveMarkDone,
         SaveBuild, SavePage, SaveFail
<1>1. CASE SaveMark
  BY <1>1, ContentSaveMark
<1>2. CASE SaveBuild
  BY <1>0, <1>2 DEF SaveBuild, Imaged, Heads, Compaction, flashVars
<1>3. CASE SavePage /\ ~LastPage
  <2>1. /\ flashFile' = [flashFile EXCEPT !.next = @ + 1] /\ wpc = "write" /\ wpc' = "write"
        /\ UNCHANGED map
    BY <1>3 DEF SavePage, ProgramNextPage
  <2>2. /\ flashFile'.hdr = flashFile.hdr /\ flashFile'.data = flashFile.data
        /\ flashFile'.len = flashFile.len /\ flashFile'.head = flashFile.head
    BY <2>1, NextNotVoid
  <2>3. QED
    BY <1>0, <2>1, <2>2 DEF Imaged, Heads, Compaction, Live
<1>4. CASE SaveOverflow \/ SaveFail \/ (SavePage /\ LastPage)
  BY <1>0, <1>4, NothingInFlight DEF SaveOverflow, SaveFail, SavePage, Return
<1>5. CASE SaveRefused \/ Erase
  BY <1>0, <1>5, NothingInFlight DEF SaveRefused, Erase
<1>6. QED
  BY <1>1, <1>2, <1>3, <1>4, <1>5 DEF SaveStep

LEMMA ControlContent ==
  ASSUME TypeInv, LooseIsBlank, Imaged, Heads, Compaction, [CheckedNext]_vars
  PROVE  Imaged' /\ Heads' /\ Compaction'
<1> USE DEF bootOnly, writerOnly, readerOnly
<1>1. CASE UNCHANGED <<map, hdr, dat, flashFile, boot, wpc>>
  <2>1. FirstLive(map') = FirstLive(map)
    BY <1>1 DEF FirstLive, Live
  <2>2. QED
    BY <1>1, <2>1 DEF Imaged, Heads, Compaction, BlankPage, Live
<1>2. CASE BootStep
  <2>1. wpc = "idle" /\ wpc' = "idle"
    BY <1>2 DEF TypeInv, Phases, BootStep, GcKeep, GcDiscard, GcErase, GcFail, GcMark, GcMarkDone, GcPage, GcPageDone,
                Mirror
  <2>2. CASE GcKeep \/ GcDiscard \/ GcFail \/ Mirror
    BY <2>1, <2>2, NothingInFlight DEF GcKeep, GcDiscard, GcFail, Mirror
  <2>3. QED
    BY <1>2, <2>2, ContentGcErase, ContentGcMark, ContentGcPage DEF BootStep
<1>3. ASSUME NEW r \in Readers,
             (\E op \in {"Read", "ReadDataPtr"} : ReadBegin(r, op)) \/ ReadStep(r)
      PROVE  UNCHANGED <<map, hdr, dat, flashFile, boot, wpc>>
  BY <1>3 DEF ReadBegin, ReadStep, ReadHeader, ReadCopy, ReadCheck, ReadFail, flashVars
<1>4. CASE PowerLoss \/ TornMap \/ TornPage
  BY <1>4, NothingInFlight DEF PowerLoss, TornMap, TornPage, Reset
<1>5. CASE UNCHANGED vars
  BY <1>1, <1>5 DEF vars
<1>6. QED
  BY <1>1, <1>2, <1>3, <1>4, <1>5, ContentBegin, ContentSave, Zenon DEF CheckedNext

LEMMA ContentInit == Init => ContentInv
<1> SUFFICES ASSUME Init PROVE ContentInv
  OBVIOUS
<1>1. Clean
  BY DEF Init, Clean, BlankHdr, NoFile, idle
<1>2. BlankHdr.val \notin Values /\ NoFile.hdr.val \notin Values
  BY NamesAssumption DEF BlankHdr, NoFile
<1>3. Imaged /\ Heads /\ Compaction
  BY <1>2 DEF Init, Imaged, Heads, Compaction
<1>4. LooseIsBlank /\ HeadsFirst
  BY <1>2 DEF Init, LooseIsBlank, BlankPage, HeadsFirst
<1>5. QED
  BY <1>1, <1>3, <1>4 DEF ContentInv

LEMMA ContentStep == TypeInv /\ ContentInv /\ [CheckedNext]_vars => ContentInv'
BY CleanStep, FlashContent, ControlContent, Zenon DEF ContentInv

LEMMA ContentHolds ==
  ASSUME ~LostPrograms
  PROVE  Spec => [](TypeInv /\ ContentInv)
<1>1. [Next]_vars => [CheckedNext]_vars
  BY Checked
<1>2. QED
  BY <1>1, TypeInvariant, ContentInit, ContentStep, PTL DEF Spec

-----------------------------------------------------------------------------
(***************************************************************************)
(* No value comes back.                                                    *)
(***************************************************************************)
\* A value that a read would find has its header and all its pages from the
\* first live entry on.
FilesFound ==
  \A v \in Values : Content = v =>
    LET j == FirstLive(map) IN
    /\ j \in Entries /\ map[j] = CURRENT /\ hdr[j].val = v
    /\ \A i \in 0..(j - 1) : ~Live(map, i)
    /\ \A p \in 0..(Pages[v] - 1) : j + p \in Entries /\ dat[j + p] = Body(v, p)

LEMMA FileFound == TypeInv /\ Clean => FilesFound
<1> SUFFICES ASSUME TypeInv, Clean, NEW v \in Values, Content = v
             PROVE  LET j == FirstLive(map) IN
                    /\ j \in Entries /\ map[j] = CURRENT /\ hdr[j].val = v
                    /\ \A i \in 0..(j - 1) : ~Live(map, i)
                    /\ \A p \in 0..(Pages[v] - 1) : j + p \in Entries /\ dat[j + p] = Body(v, p)
  BY DEF FilesFound
<1>1. HasFile(map) /\ StoredAt(FirstLive(map), v)
  BY ContentNow DEF ContentFacts
<1>2. FirstLive(map) \in Entries
  BY <1>1, ContentNow DEF ContentFacts, HasFile
<1>3. QED
  BY <1>1, <1>2, FirstLiveFacts DEF HasFile, StoredAt

LEMMA FileFoundNext == (TypeInv /\ Clean)' => FilesFound'
BY FileFound, PTL

\* A value that is found in the flash where nothing live precedes it is the file.
LEMMA FileIs ==
  ASSUME TypeInv, Clean, NEW v \in Values, NEW j \in Entries, map[j] = CURRENT,
         \A i \in 0..(j - 1) : ~Live(map, i),
         hdr[j].val = v,
         \A p \in 0..(Pages[v] - 1) : j + p \in Entries /\ dat[j + p] = Body(v, p)
  PROVE  Content = v
<1>1. FirstLive(map) = j
  BY FirstLiveIs DEF Live
<1>2. HasFile(map)
  BY <1>1, SectorAssumption DEF HasFile, Entries
<1>3. StoredAt(FirstLive(map), v)
  BY <1>1 DEF StoredAt
<1>4. QED
  BY <1>2, <1>3, ContentNow DEF ContentFacts

\* A page program that completes a value's file is of a page of that file.
LEMMA PageRevival ==
  ASSUME TypeInv, Clean, TypeInv', Clean', NEW i, NEW h \in Headers, NEW b \in Bodies,
         ProgramPage(i, h, b), UNCHANGED map, NEW v \in Values, Content' = v, Content # v
  PROVE  h.val = v \/ \E p \in 0..(Pages[v] - 1) : b = Body(v, p)
<1> DEFINE j == FirstLive(map')
<1>1. /\ j \in Entries /\ map'[j] = CURRENT /\ hdr'[j].val = v
      /\ \A k \in 0..(j - 1) : ~Live(map', k)
      /\ \A p \in 0..(Pages[v] - 1) : j + p \in Entries /\ dat'[j + p] = Body(v, p)
  BY FileFoundNext DEF FilesFound
<1> HIDE DEF j
<1>2. hdr'[j] \in {hdr[j], AndHdr(hdr[j], h)}
  BY <1>1 DEF ProgramPage, TypeInv, TypeOK, FlashOK
<1>3. AndHdr(hdr[j], h).val \in {hdr[j].val, h.val, Mixed} /\ v # Mixed
  BY <1>1, AndHdrFacts, NamesAssumption DEF TypeInv, TypeOK, FlashOK
<1>4. CASE hdr[j].val = v
  <2>1. PICK p \in 0..(Pages[v] - 1) : dat[j + p] # dat'[j + p]
    BY <1>1, <1>4, FileIs DEF Live
  <2>2. j + p \in Entries /\ dat'[j + p] = Body(v, p)
    BY <1>1
  <2>3. dat'[j + p] = AndBody(dat[j + p], b) /\ dat[j + p] \in Bodies
    BY <2>1, <2>2 DEF ProgramPage, TypeInv, TypeOK, FlashOK
  <2>4. AndBody(dat[j + p], b) \in {dat[j + p], b, MixedBody} /\ Body(v, p) # MixedBody
    BY <2>3, AndBodyFacts, BodyNames
  <2>5. QED
    BY <2>1, <2>2, <2>3, <2>4
<1>5. QED
  BY <1>1, <1>2, <1>3, <1>4

\* A page program that is cut short completes no file.
LEMMA TornPageValue ==
  ASSUME TypeInv, Clean, TypeInv', Clean', TornPage, Content' \in Values
  PROVE  Content' = Content
<1> DEFINE v == Content'
<1>1. ProgramPage(NextPage, MixedHdr, MixedBody) /\ UNCHANGED map
  BY DEF TornPage
<1>2. v \in Values
  OBVIOUS
<1> HIDE DEF v
<1>3. MixedHdr.val # v /\ \A p : MixedBody # Body(v, p)
  BY <1>2, NamesAssumption, BodyNames DEF MixedHdr
<1>4. MixedHdr \in Headers /\ MixedBody \in Bodies
  BY HeaderFacts, BodyFacts
<1>5. ~(Content' = v /\ Content # v)
  BY <1>1, <1>2, <1>3, <1>4, PageRevival
<1>6. QED
  BY <1>5 DEF v

LEMMA RevivalStep ==
  ASSUME TypeInv, ContentInv, TypeInv', ContentInv', [CheckedNext]_vars,
         Content' \in Values, Content' # Content
  PROVE  flashFile.hdr.val = Content' /\ (wpc = "write" \/ boot = "pages")
<1> USE DEF bootOnly, writerOnly, readerOnly
<1> DEFINE v == Content'
           j == FirstLive(map')
<1>0. TypeInv /\ Clean /\ LooseIsBlank /\ HeadsFirst /\ Heads /\ Compaction /\ Imaged
  BY DEF ContentInv
<1>1. /\ v \in Values /\ j \in Entries /\ map'[j] = CURRENT /\ hdr'[j].val = v
      /\ \A i \in 0..(j - 1) : ~Live(map', i)
      /\ \A p \in 0..(Pages[v] - 1) : j + p \in Entries /\ dat'[j + p] = Body(v, p)
  BY FileFoundNext DEF ContentInv, FilesFound
<1> HIDE DEF v, j
<1>2. ASSUME UNCHANGED map, hdr[j].val = v,
             \A p \in 0..(Pages[v] - 1) : dat[j + p] = dat'[j + p]
      PROVE  FALSE
  <2>1. Content = v
    BY <1>0, <1>1, <1>2, FileIs DEF Live
  <2>2. QED
    BY <2>1 DEF v
<1>3. CASE UNCHANGED flashVars
  BY <1>1, <1>2, <1>3 DEF flashVars
<1>4. CASE EraseSector
  BY <1>1, <1>4 DEF EraseSector, FREE, CURRENT
<1>5. CASE GcMark \/ (TornMap /\ boot = "map")
  <2>1. boot = "map" /\ UNCHANGED hdr
    BY <1>5 DEF GcMark, GcMarkDone, TornMap
  <2>2. hdr[j] = BlankHdr
    BY <1>0, <1>1, <2>1 DEF Compaction, LooseIsBlank, BlankPage, FREE, CURRENT
  <2>3. QED
    BY <1>1, <2>1, <2>2, NamesAssumption DEF BlankHdr
<1>6. CASE SaveMark \/ (TornMap /\ wpc = "mark")
  <2>1. /\ UNCHANGED <<hdr, dat>> /\ wpc = "mark" /\ boot = "up"
        /\ (ProgramMap(SaveMap) \/ TearMap(SaveMap))
    BY <1>6 DEF SaveMark, SaveMarkDone, TornMap, TypeInv, Phases
  <2>2. map[j] \in Marks /\ map'[j] <= map[j]
    BY <1>1, <2>1, MapsType, ProgramShrinks DEF TypeInv, TypeOK
  <2>3. CASE map[j] = CURRENT
    <3>1. \A i \in 0..(j - 1) : ~Live(map, i)
      BY <1>0, <1>1, <2>1 DEF HeadsFirst
    <3>2. Content = v
      BY <1>0, <1>1, <2>1, <2>3, <3>1, FileIs
    <3>3. QED
      BY <3>2 DEF v
  <2>4. CASE map[j] > CURRENT
    <3>1. hdr[j] = BlankHdr
      BY <1>0, <1>1, <2>4 DEF LooseIsBlank, BlankPage
    <3>2. QED
      BY <1>1, <2>1, <3>1, NamesAssumption DEF BlankHdr
  <2>5. QED
    BY <1>1, <2>2, <2>3, <2>4 DEF Marks, OLD, CURRENT, FREE
<1>7. CASE GcPage
  <2>1. boot = "pages" /\ UNCHANGED map /\ flashFile.head = 0
    BY <1>7 DEF GcPage, GcPageDone, ProgramNextPage, TypeInv, Phases
  <2>2. j = 0
    <3>1. map'[0] = CURRENT /\ 0 \in Entries
      BY <1>0, <2>1, SectorAssumption DEF Compaction, Entries
    <3>2. FirstLive(map') = 0
      BY <3>1, FirstLiveIs DEF Live
    <3>3. QED
      BY <3>2 DEF j
  <2>3. flashFile.next \in 0..(flashFile.len - 1) /\ NextHdr \in Headers
    BY <2>1, NextPageType DEF TypeInv, TypeOK
  <2>4. CASE flashFile.next = 0
    <3>1. NextPage = 0 /\ NextHdr = flashFile.hdr
      BY <2>1, <2>4 DEF NextPage, NextHdr
    <3>2. hdr[0] = BlankHdr
      BY <1>0, <2>1, <2>4, SectorAssumption DEF Compaction, BlankPage
    <3>3. hdr'[0] = AndHdr(BlankHdr, NextHdr)
      BY <1>1, <1>7, <2>2, <3>1, <3>2
      DEF GcPage, GcPageDone, ProgramNextPage, ProgramPage, TypeInv, TypeOK, FlashOK
    <3>4. AndHdr(BlankHdr, NextHdr).val = NextHdr.val
      BY <2>3, HeaderFacts, AndHdrFacts
    <3>5. hdr'[0].val = flashFile.hdr.val
      BY <3>1, <3>3, <3>4, Zenon
    <3>6. QED
      BY <1>1, <2>1, <2>2, <3>5 DEF v
  <2>5. CASE flashFile.next > 0
    <3>1. hdr[0].val = flashFile.hdr.val /\ NextPage # 0
      BY <1>0, <2>1, <2>3, <2>5 DEF Compaction, NextPage
    <3>2. hdr'[0] = hdr[0]
      BY <1>1, <1>7, <2>2, <3>1
      DEF GcPage, GcPageDone, ProgramNextPage, ProgramPage, TypeInv, TypeOK, FlashOK
    <3>3. QED
      BY <1>1, <2>1, <2>2, <3>1, <3>2 DEF v
  <2>6. QED
    BY <2>3, <2>4, <2>5
<1>8. ASSUME NEW h \in Headers, NEW b \in Bodies, ProgramPage(NextPage, h, b), UNCHANGED map
      PROVE  h.val = v \/ \E p \in 0..(Pages[v] - 1) : b = Body(v, p)
  <2>1. Clean' /\ Content # v /\ Content' = v
    BY DEF ContentInv, v
  <2>2. QED
    BY <1>0, <1>1, <1>8, <2>1, PageRevival
<1>9. CASE SavePage
  <2>1. wpc = "write" /\ UNCHANGED map /\ ProgramPage(NextPage, NextHdr, NextBody)
    BY <1>9 DEF SavePage, ProgramNextPage
  <2>2. flashFile.hdr.val \in Values /\ flashFile.data = FileOf(flashFile.hdr.val)
    BY <1>0, <2>1 DEF Imaged
  <2>3. NextHdr \in Headers /\ NextBody \in Bodies /\ flashFile.next \in 0..(flashFile.len - 1)
        /\ flashFile.len = Pages[flashFile.hdr.val]
    BY <1>0, <2>1, <2>2, NextPageType DEF TypeInv, TypeOK, Imaged
  <2>4. NextHdr.val \in {flashFile.hdr.val, Mixed}
    BY DEF NextHdr, MixedHdr
  <2>5. NextBody = Body(flashFile.hdr.val, flashFile.next)
    BY <2>2, <2>3 DEF NextBody, FileOf
  <2>6. v # Mixed
    BY <1>1, NamesAssumption
  <2>7. flashFile.hdr.val = v
    BY <1>1, <1>8, <2>1, <2>3, <2>4, <2>5, <2>6, BodyNames
  <2>8. QED
    BY <2>1, <2>7 DEF v
<1>10. CASE TornPage
  BY <1>0, <1>10, TornPageValue DEF ContentInv
<1>11. ASSUME NEW w \in Values, SaveBegin(w)
       PROVE  FALSE
  <2>1. UNCHANGED <<map, dat>> /\ \A i \in Entries : hdr'[i].val = hdr[i].val
    BY <1>11, BeginHeaders DEF SaveBegin, SaveBeginDone
  <2>2. QED
    BY <1>1, <1>2, <2>1
<1>12. CASE BootStep
  BY <1>3, <1>4, <1>5, <1>7, <1>12
  DEF BootStep, GcKeep, GcDiscard, GcErase, GcFail, Mirror
<1>13. CASE SaveRefused \/ Erase \/ SaveStep
  BY <1>3, <1>4, <1>6, <1>9, <1>13
  DEF SaveRefused, Erase, SaveStep, SaveOverflow, SaveBuild, SaveFail
<1>14. ASSUME NEW r \in Readers,
              (\E op \in {"Read", "ReadDataPtr"} : ReadBegin(r, op)) \/ ReadStep(r)
       PROVE  UNCHANGED flashVars
  BY <1>14 DEF ReadBegin, ReadStep, ReadHeader, ReadCopy, ReadCheck, ReadFail
<1>15. CASE PowerLoss \/ UNCHANGED vars
  BY <1>3, <1>15 DEF PowerLoss, vars, flashVars
<1>16. CASE TornMap
  BY <1>5, <1>6, <1>16 DEF TornMap
<1>17. QED
  BY <1>3, <1>10, <1>11, <1>12, <1>13, <1>14, <1>15, <1>16, Zenon DEF CheckedNext

\* As long as every failing program is noticed, a value becomes what reads of
\* the file find only through its own Save or the compaction that moves it: no
\* power loss, torn page, torn map program, failing erase or refused Save ever
\* brings an older value back.
THEOREM NothingResurrected ==
  ASSUME ~LostPrograms
  PROVE  Spec => NeverResurrected
<1>1. TypeInv /\ ContentInv /\ (TypeInv /\ ContentInv)' /\ [CheckedNext]_vars =>
        [Content' \in Values /\ Content' # Content =>
           /\ flashFile.hdr.val = Content'
           /\ wpc = "write" \/ boot = "pages"]_vars
  BY RevivalStep
<1>2. [Next]_vars => [CheckedNext]_vars
  BY Checked
<1>3. QED
  BY <1>1, <1>2, ContentHolds, PTL DEF Spec, NeverResurrected

-----------------------------------------------------------------------------
(***************************************************************************)
(* What the compaction is for.                                             *)
(***************************************************************************)
\* When no erase and no program fails, the boot code leaves the file, or the
\* first free entry, in the first half of the sector, wherever power was lost
\* before, in the middle of a map program too.
THEOREM CompactionLeavesRoom ==
  ASSUME ~Faults, ~LostPrograms
  PROVE  Spec => []BootLeavesRoom
<1>1. Init => BootLeavesRoom
  BY DEF Init, BootLeavesRoom
<1>2. ASSUME TypeInv, ContentInv, BootLeavesRoom, [CheckedNext]_vars
      PROVE  BootLeavesRoom'
  <2> USE DEF bootOnly, writerOnly, readerOnly
  <2>1. 0 \in Entries /\ 0 <= GC_THRESHOLD
    BY SectorAssumption DEF Entries, GC_THRESHOLD
  <2>2. CASE boot' # "mirror"
    BY <2>2 DEF BootLeavesRoom
  <2>3. CASE GcKeep
    <3>1. FirstLive(map') = FirstLive(map)
      BY <2>3 DEF GcKeep, flashVars
    <3>2. QED
      BY <2>3, <3>1 DEF GcKeep, BootLeavesRoom
  <2>4. CASE GcDiscard \/ GcPage
    <3>1. Live(map', 0)
      BY <1>2, <2>1, <2>4
      DEF GcDiscard, EraseSector, GcPage, GcPageDone, ProgramNextPage, ContentInv, Compaction, Live
    <3>2. FirstLive(map') = 0
      BY <2>1, <3>1, FirstLiveIs
    <3>3. QED
      BY <2>1, <3>2 DEF BootLeavesRoom
  <2>5. CASE UNCHANGED <<map, boot>>
    BY <1>2, <2>5 DEF BootLeavesRoom
  <2>6. CASE BootStep
    BY <2>2, <2>3, <2>4, <2>6 DEF BootStep, GcErase, GcFail, GcMark, GcMarkDone, Mirror
  <2>7. CASE SaveRefused \/ Erase \/ SaveStep \/ \E v \in Values : SaveBegin(v)
    BY <1>2, <2>2, <2>7
    DEF SaveRefused, Erase, SaveStep, SaveOverflow, SaveMark, SaveMarkDone, SaveBuild, SavePage, SaveFail,
        SaveBegin, SaveBeginDone, TypeInv, Phases
  <2>8. ASSUME NEW r \in Readers,
               (\E op \in {"Read", "ReadDataPtr"} : ReadBegin(r, op)) \/ ReadStep(r)
        PROVE  UNCHANGED <<map, boot>>
    BY <2>8 DEF ReadBegin, ReadStep, ReadHeader, ReadCopy, ReadCheck, ReadFail, flashVars
  <2>9. CASE PowerLoss \/ TornMap \/ TornPage
    BY <2>2, <2>9 DEF PowerLoss, TornMap, TornPage, Reset
  <2>10. CASE UNCHANGED vars
    BY <2>5, <2>10 DEF vars
  <2>11. QED
    BY <1>2, <2>5, <2>6, <2>7, <2>8, <2>9, <2>10, Zenon DEF CheckedNext
<1>3. [Next]_vars => [CheckedNext]_vars
  BY Checked
<1>4. QED
  BY <1>1, <1>2, <1>3, ContentHolds, PTL DEF Spec

-----------------------------------------------------------------------------
(***************************************************************************)
(* The refinement's invariants are kept while map programs are whole.      *)
(***************************************************************************)
LEMMA LockedBoot ==
  ASSUME TypeInv, Locked, BootStep
  PROVE  Locked'
<1>1. /\ wpc = "idle" /\ wpc' = "idle" /\ boot # "up"
      /\ UNCHANGED rd
  BY DEF TypeInv, Phases, BootStep, GcKeep, GcDiscard, GcErase, GcFail, GcMark, GcMarkDone, GcPage, GcPageDone, Mirror,
         bootOnly
<1>2. QED
  BY <1>1 DEF Locked

LEMMA LockedSave ==
  ASSUME TypeInv, Locked,
         SaveRefused \/ SaveStep \/ Erase \/ \E v \in Values : SaveBegin(v)
  PROVE  Locked'
<1> USE DEF writerOnly
<1>0. Writer \notin Readers /\ NoTask \notin Readers \cup {Writer}
  BY NamesAssumption
<1>1. UNCHANGED <<rd, boot>>
  BY DEF SaveBegin, SaveBeginDone, SaveRefused, Erase, SaveStep, SaveOverflow, SaveMark, SaveMarkDone, SaveBuild, SavePage,
         SaveFail
<1>2. ASSUME NEW v \in Values, SaveBegin(v) PROVE Locked'
  <2>1. lock = NoTask /\ lock' = Writer
    BY <1>2 DEF SaveBegin, SaveBeginDone
  <2>2. QED
    BY <1>0, <1>1, <2>1 DEF Locked
<1>3. CASE SaveRefused \/ Erase
  BY <1>1, <1>3 DEF SaveRefused, Erase, Locked
<1>4. CASE SaveStep
  <2>1. lock = Writer
    BY <1>4 DEF Locked, SaveStep, SaveOverflow, SaveMark, SaveMarkDone, SaveBuild, SavePage, SaveFail
  <2>2. lock' = lock \/ wpc' = "idle"
    BY <1>4 DEF SaveStep, SaveOverflow, SaveMark, SaveMarkDone, SaveBuild, SavePage, SaveFail, Return
  <2>3. QED
    BY <1>0, <1>1, <2>1, <2>2 DEF Locked
<1>5. QED
  BY <1>2, <1>3, <1>4

\* What a reader's step makes of its record, and of nobody else's.
LEMMA ReaderRecord ==
  ASSUME TypeInv, NEW r \in Readers,
         (\E op \in {"Read", "ReadDataPtr"} : ReadBegin(r, op)) \/ ReadStep(r)
  PROVE  /\ \A q \in Readers : q # r => rd'[q] = rd[q]
         /\ rd' = [q \in Readers |-> rd'[q]]
<1>1. rd = [q \in Readers |-> rd[q]]
  BY DEF TypeInv, TypeOK, ReadersOK
<1>2. \E new : rd' = [rd EXCEPT ![r] = new]
  BY <1>1 DEF ReadBegin, ReadStep, ReadHeader, ReadCopy, ReadCheck, ReadFail, Answer
<1>3. QED
  BY <1>1, <1>2

LEMMA LockedReader ==
  ASSUME TypeInv, Locked, NEW r \in Readers,
         (\E op \in {"Read", "ReadDataPtr"} : ReadBegin(r, op)) \/ ReadStep(r)
  PROVE  Locked'
<1>0. Writer \notin Readers /\ NoTask \notin Readers \cup {Writer}
  BY NamesAssumption
<1>1. UNCHANGED <<wpc, boot>>
  BY DEF ReadBegin, ReadStep, ReadHeader, ReadCopy, ReadCheck, ReadFail, readerOnly
<1>2. \A q \in Readers : q # r => rd'[q] = rd[q]
  BY ReaderRecord
<1>3. rd = [q \in Readers |-> rd[q]] /\ \E m \in 0..N : rd[r] \in ReaderStates(m)
  BY DEF TypeInv, TypeOK, ReadersOK
<1>4. idle.pc = "idle" /\ idle.status = "none"
  BY DEF idle
<1>5. ASSUME NEW op \in {"Read", "ReadDataPtr"}, ReadBegin(r, op)
      PROVE  Locked'
  <2>1. lock = NoTask /\ boot = "up" /\ lock' \in {NoTask, r}
    BY <1>5 DEF ReadBegin
  <2>2. rd'[r].pc # "idle" => lock' = r /\ rd'[r].status = "none"
    BY <1>3, <1>5 DEF ReadBegin, idle
  <2>3. QED
    BY <1>0, <1>1, <1>2, <2>1, <2>2 DEF Locked
<1>6. CASE ReadHeader(r) \/ ReadCopy(r)
  <2>1. rd[r].pc # "idle" /\ lock' = lock /\ rd'[r].status = rd[r].status
    BY <1>3, <1>6 DEF ReadHeader, ReadCopy, ReaderStates
  <2>2. QED
    BY <1>1, <1>2, <2>1 DEF Locked
<1>7. CASE ReadCheck(r) \/ ReadFail(r)
  <2>1. rd[r].pc # "idle" /\ lock' = NoTask /\ rd'[r].pc = "idle"
    BY <1>3, <1>7 DEF ReadCheck, ReadFail, Answer, idle
  <2>2. QED
    BY <1>0, <1>1, <1>2, <2>1 DEF Locked
<1>8. QED
  BY <1>5, <1>6, <1>7 DEF ReadStep

\* A power loss stops everybody.
LEMMA ResetStore == Reset => StoreInv'
<1>1. idle.pc = "idle"
  BY DEF idle
<1>2. QED
  BY <1>1 DEF Reset, StoreInv, Locked, Written, Views

\* What SaveMark leaves of a sector with room: the new run starts at NewHead,
\* on an erased page.
LEMMA SaveMarked ==
  ASSUME TypeInv, BlankInv, LayoutInv, SaveMark
  PROVE  /\ NewHead \in Entries /\ map'[NewHead] = CURRENT /\ FirstLive(map') = NewHead
         /\ BlankPage(NewHead)
<1>1. /\ flashFile.head \in 0..N /\ NewHead \in flashFile.head..N /\ NewHead < N
      /\ \A j \in Entries : /\ j < flashFile.head => map[j] = OLD
                            /\ flashFile.head <= j /\ j < NewHead => map[j] = CURRENT
                            /\ NewHead <= j => map[j] = FREE
  BY SaveRoom DEF SaveMark, SaveMarkDone, LayoutInv
<1>2. NewHead \in Entries /\ NewHead \in 0..N
  BY <1>1, SectorAssumption DEF Entries
<1>3. flashFile.len \in 0..N /\ flashFile.len > 0
  BY NewHeadType DEF SaveMark, SaveMarkDone, TypeInv, TypeOK, ImageOK, Phases
<1>4. \A j \in Entries : map'[j] = AndMark(map[j], SaveMap[j])
  BY DEF SaveMark, SaveMarkDone, ProgramMap
<1>5. map'[NewHead] = CURRENT
  <2>1. NewHead \notin flashFile.head..(NewHead - 1)
        /\ NewHead \in NewHead..(NewHead + flashFile.len - 1)
    BY <1>1, <1>2, <1>3, SectorAssumption
  <2>2. SaveMap[NewHead] = CURRENT
    BY <1>2, <2>1 DEF SaveMap
  <2>3. map[NewHead] = FREE
    BY <1>1, <1>2
  <2>4. QED
    BY <1>2, <1>4, <2>2, <2>3 DEF AndMark, FREE, CURRENT
<1>6. ASSUME NEW j \in 0..(NewHead - 1)
      PROVE  ~Live(map', j)
  <2>1. j \in Entries /\ j \in Int
    BY <1>2, SectorAssumption DEF Entries
  <2>2. CASE j < flashFile.head
    <3>1. map[j] = OLD
      BY <1>1, <2>1, <2>2
    <3>2. j \notin flashFile.head..(NewHead - 1)
          /\ j \notin NewHead..(NewHead + flashFile.len - 1)
      BY <1>1, <1>2, <1>3, <2>1, <2>2, SectorAssumption
    <3>3. SaveMap[j] = map[j]
      BY <2>1, <3>2 DEF SaveMap
    <3>4. QED
      BY <1>4, <2>1, <3>1, <3>3 DEF AndMark, Live, OLD, CURRENT, FREE
  <2>3. CASE ~(j < flashFile.head)
    <3>1. j \in flashFile.head..(NewHead - 1)
      BY <1>1, <1>2, <2>1, <2>3
    <3>2. SaveMap[j] = OLD /\ map[j] = CURRENT
      BY <1>1, <2>1, <3>1 DEF SaveMap
    <3>3. QED
      BY <1>4, <2>1, <3>2 DEF AndMark, Live, OLD, CURRENT, FREE
  <2>4. QED
    BY <2>2, <2>3
<1>7. FirstLive(map') = NewHead
  BY <1>2, <1>5, <1>6, FirstLiveIs DEF Live
<1>8. BlankPage(NewHead)
  BY <1>1, <1>2, SectorAssumption DEF BlankInv, FreeIsBlank, BlankPage
<1>9. QED
  BY <1>2, <1>5, <1>7, <1>8

\* What a page of Save leaves at its place.
LEMMA SavedPage ==
  ASSUME TypeInv, LayoutInv, Heads, Compaction, SavePage
  PROVE  /\ NextPage \in Entries
         /\ NextPage = flashFile.head + flashFile.next
         /\ flashFile.next \in 0..(flashFile.len - 1) /\ flashFile.len \in 0..N
         /\ flashFile.head \in 0..N
         /\ hdr'[NextPage].val = NextHdr.val
         /\ dat'[NextPage] = flashFile.data[flashFile.next]
         /\ \A i \in Entries : i # NextPage => hdr'[i] = hdr[i] /\ dat'[i] = dat[i]
<1>1. wpc = "write" /\ ProgramPage(NextPage, NextHdr, NextBody)
  BY DEF SavePage, ProgramNextPage
<1>2. NextPage \in Entries
  BY <1>1, NextPagePlace
<1>3. flashFile.next \in 0..(flashFile.len - 1) /\ flashFile.len \in 0..N
      /\ NextHdr \in Headers /\ NextBody \in Bodies
  BY <1>1, NextPageType DEF TypeInv, TypeOK
<1>4. hdr[NextPage] = BlankHdr /\ dat[NextPage] = BlankBody
  BY <1>1, <1>3 DEF LayoutInv, RestBlank, NextPage
<1>5. hdr'[NextPage] = AndHdr(BlankHdr, NextHdr) /\ dat'[NextPage] = AndBody(BlankBody, NextBody)
      /\ \A i \in Entries : i # NextPage => hdr'[i] = hdr[i] /\ dat'[i] = dat[i]
  BY <1>1, <1>2, <1>4 DEF ProgramPage, TypeInv, TypeOK, FlashOK
<1>6. AndHdr(BlankHdr, NextHdr).val = NextHdr.val /\ AndBody(BlankBody, NextBody) = NextBody
  BY <1>3, HeaderFacts, BodyFacts, AndHdrFacts, AndBodyFacts
<1>7. flashFile.head \in 0..N
  BY DEF TypeInv, TypeOK, ImageOK, FileImages
<1>8. QED
  BY <1>2, <1>3, <1>5, <1>6, <1>7 DEF NextPage, NextBody

LEMMA WrittenPage ==
  ASSUME TypeInv, LayoutInv, Heads, Compaction, Written, SavePage, ~LastPage
  PROVE  Written'
<1>1. /\ flashFile' = [flashFile EXCEPT !.next = @ + 1] /\ wpc = "write" /\ UNCHANGED map
  BY DEF SavePage, ProgramNextPage
<1>2. /\ flashFile'.hdr = flashFile.hdr /\ flashFile'.data = flashFile.data
      /\ flashFile'.head = flashFile.head /\ flashFile'.next = flashFile.next + 1
  BY <1>1, NextNotVoid
<1> DEFINE k == flashFile.next
           e == flashFile.head
<1>3. /\ NextPage \in Entries /\ NextPage = e + k /\ k \in 0..N /\ e \in 0..N
      /\ hdr'[NextPage].val = NextHdr.val /\ dat'[NextPage] = flashFile.data[k]
      /\ \A i \in Entries : i # NextPage => hdr'[i] = hdr[i] /\ dat'[i] = dat[i]
  BY SavedPage, SectorAssumption
<1>4. map'[e] = CURRENT
  BY <1>1 DEF Written
<1>5. hdr'[e].val = flashFile.hdr.val
  <2>1. CASE k = 0
    <3>1. NextPage = e /\ NextHdr = flashFile.hdr
      BY <1>3, <2>1 DEF NextHdr
    <3>2. QED
      BY <1>3, <3>1
  <2>2. CASE k # 0
    <3>1. k > 0 /\ e # NextPage /\ e \in Entries
      BY <1>3, <2>2, SectorAssumption DEF Entries
    <3>2. hdr[e].val = flashFile.hdr.val
      BY <1>1, <3>1 DEF Written
    <3>3. QED
      BY <1>3, <3>1, <3>2
  <2>3. QED
    BY <2>1, <2>2
<1>6. \A p \in 0..k : dat'[e + p] = flashFile.data[p]
  <2>1. \A p \in 0..(k - 1) : dat[e + p] = flashFile.data[p]
    BY <1>1 DEF Written
  <2>2. \A p \in 0..(k - 1) : e + p \in Entries /\ e + p # NextPage
    BY <1>3, SectorAssumption DEF Entries
  <2>3. \A p \in 0..(k - 1) : dat'[e + p] = flashFile.data[p]
    BY <1>3, <2>1, <2>2
  <2>4. \A p \in 0..k : p \in 0..(k - 1) \/ (p = k /\ e + p = NextPage)
    BY <1>3
  <2>5. QED
    BY <1>3, <2>3, <2>4
<1>7. flashFile'.next - 1 = k
  BY <1>2, <1>3
<1> HIDE DEF k, e
<1>8. \A p \in 0..(flashFile'.next - 1) : dat'[flashFile'.head + p] = flashFile'.data[p]
  BY <1>2, <1>6, <1>7 DEF e
<1>9. QED
  BY <1>2, <1>4, <1>5, <1>8 DEF Written, e

LEMMA WrittenStep ==
  ASSUME TypeInv, BlankInv, LayoutInv, Heads, Compaction, Written, [CheckedNext]_vars
  PROVE  Written'
<1> USE DEF bootOnly, writerOnly, readerOnly
<1>1. CASE wpc' \in {"idle", "mark"}
  BY <1>1 DEF Written
<1>2. CASE UNCHANGED <<map, hdr, dat, flashFile>> /\ wpc \in {"build", "write"}
  BY <1>2 DEF Written
<1>3. CASE BootStep
  BY <1>1, <1>3
  DEF TypeInv, Phases, BootStep, GcKeep, GcDiscard, GcErase, GcFail, GcMark, GcMarkDone, GcPage, GcPageDone, Mirror
<1>4. ASSUME NEW v \in Values, SaveBegin(v) PROVE Written'
  BY <1>1, <1>4 DEF SaveBegin, SaveBeginDone
<1>5. CASE SaveRefused \/ Erase
  BY <1>1, <1>5 DEF SaveRefused, Erase
<1>6. CASE SaveOverflow \/ SaveFail \/ (SavePage /\ LastPage)
  BY <1>1, <1>6 DEF SaveOverflow, SaveFail, SavePage, Return
<1>7. CASE SaveMark
  <2>1. flashFile'.head = NewHead /\ flashFile'.next = 0
    BY <1>7 DEF SaveMark, SaveMarkDone, TypeInv, TypeOK, ImageOK, FileImages, Phases
  <2>2. QED
    BY <1>7, <2>1, SaveMarked DEF Written
<1>8. CASE SaveBuild
  BY <1>2, <1>8 DEF SaveBuild, flashVars
<1>9. CASE SavePage /\ ~LastPage
  BY <1>9, WrittenPage
<1>10. ASSUME NEW r \in Readers,
              (\E op \in {"Read", "ReadDataPtr"} : ReadBegin(r, op)) \/ ReadStep(r)
       PROVE  UNCHANGED <<map, hdr, dat, flashFile, wpc>>
  BY <1>10 DEF ReadBegin, ReadStep, ReadHeader, ReadCopy, ReadCheck, ReadFail, flashVars
<1>11. CASE UNCHANGED <<map, hdr, dat, flashFile, wpc>>
  BY <1>11 DEF Written
<1>12. CASE PowerLoss \/ TornMap \/ TornPage
  BY <1>1, <1>12 DEF PowerLoss, TornMap, TornPage, Reset
<1>13. CASE UNCHANGED vars
  BY <1>11, <1>13 DEF vars
<1>14. QED
  BY <1>3, <1>4, <1>5, <1>6, <1>7, <1>8, <1>9, <1>10, <1>11, <1>12, <1>13, Zenon
  DEF CheckedNext, SaveStep

LEMMA ViewKept ==
  ASSUME NEW r \in Readers, UNCHANGED <<map, hdr, dat>>, rd'[r] = rd[r], View(r)
  PROVE  View(r)'
BY DEF View, HasFile, PagesAt

LEMMA ViewReader ==
  ASSUME TypeInv, NEW r \in Readers, rd[r].pc # "idle" => View(r), rd'[r].pc # "idle",
         (\E op \in {"Read", "ReadDataPtr"} : ReadBegin(r, op)) \/ ReadStep(r)
  PROVE  View(r)'
<1>1. UNCHANGED <<map, hdr, dat>>
  BY DEF ReadBegin, ReadStep, ReadHeader, ReadCopy, ReadCheck, ReadFail, readerOnly, flashVars
<1>2. rd = [q \in Readers |-> rd[q]] /\ \E m \in 0..N : rd[r] \in ReaderStates(m)
  BY DEF TypeInv, TypeOK, ReadersOK
<1>3. /\ HasFile(map') <=> HasFile(map)
      /\ FirstLive(map') = FirstLive(map)
      /\ (\A i \in Entries : dat[i] = BlankBody) => \A i \in Entries : dat'[i] = BlankBody
  BY <1>1
<1>5. ASSUME NEW op \in {"Read", "ReadDataPtr"}, ReadBegin(r, op)
      PROVE  View(r)'
  <2>0. \A s : [idle EXCEPT !.op = op, !.status = s].pc = "idle"
    BY DEF idle
  <2>1. HasFile(map) /\ rd'[r] = [idle EXCEPT !.pc = "header", !.op = op,
                                              !.head = FirstLive(map)]
    <3>1. CASE HasFile(map)
      BY <1>2, <1>5, <3>1 DEF ReadBegin
    <3>2. CASE ~HasFile(map)
      <4>1. PICK s : rd' = [rd EXCEPT ![r] = [idle EXCEPT !.op = op, !.status = s]]
        BY <1>5, <3>2, Zenon DEF ReadBegin
      <4>2. rd'[r].pc = "idle"
        BY <1>2, <2>0, <4>1
      <4>3. QED
        BY <4>2
    <3>3. QED
      BY <3>1, <3>2
  <2>2. rd'[r].pc = "header" /\ rd'[r].head = FirstLive(map)
    BY <2>1 DEF idle
  <2>3. QED
    BY <1>3, <2>1, <2>2 DEF View
<1>6. CASE ReadHeader(r)
  <2>1. rd[r].pc # "idle" /\ View(r)
    BY <1>6 DEF ReadHeader
  <2>2. /\ rd'[r].head = rd[r].head /\ rd'[r].hdr = hdr[rd[r].head]
        /\ rd'[r].pc = "check" => rd'[r].op # "Read"
    BY <1>2, <1>6 DEF ReadHeader, ReaderStates
  <2>3. QED
    BY <1>1, <1>3, <2>1, <2>2 DEF View
<1>7. CASE ReadCopy(r)
  <2>1. rd[r].pc = "copy" /\ View(r)
    BY <1>7 DEF ReadCopy
  <2>2. /\ rd'[r].head = rd[r].head /\ rd'[r].hdr = rd[r].hdr
        /\ \E n \in Sizes(rd[r].hdr) : rd'[r].buf = PagesAt(rd[r].head, n)
    BY <1>2, <1>7 DEF ReadCopy, ReaderStates
  <2>3. QED
    BY <1>1, <1>3, <2>1, <2>2 DEF View, PagesAt
<1>8. CASE ReadCheck(r) \/ ReadFail(r)
  BY <1>2, <1>8 DEF ReadCheck, ReadFail, Answer, idle
<1>9. QED
  BY <1>5, <1>6, <1>7, <1>8 DEF ReadStep

LEMMA ViewsStep ==
  ASSUME TypeInv, Locked, Views, [CheckedNext]_vars
  PROVE  Views'
<1> USE DEF bootOnly, writerOnly, readerOnly
<1>1. SUFFICES ASSUME NEW r \in Readers, rd'[r].pc # "idle"
               PROVE  View(r)'
  BY DEF Views
<1>2. ASSUME UNCHANGED <<map, hdr, dat>>, rd'[r] = rd[r]
      PROVE  View(r)'
  BY <1>1, <1>2, ViewKept DEF Views
<1>3. ASSUME rd[r].pc # "idle"
      PROVE  wpc = "idle" /\ lock = r /\ boot = "up" /\ lock # NoTask
  BY <1>3, NamesAssumption DEF Locked
<1>4. CASE BootStep
  BY <1>1, <1>3, <1>4
  DEF BootStep, GcKeep, GcDiscard, GcErase, GcFail, GcMark, GcMarkDone, GcPage, GcPageDone, Mirror
<1>5. ASSUME NEW v \in Values, SaveBegin(v) PROVE FALSE
  BY <1>1, <1>3, <1>5 DEF SaveBegin, SaveBeginDone
<1>6. CASE SaveStep
  BY <1>1, <1>3, <1>6
  DEF SaveStep, SaveOverflow, SaveMark, SaveMarkDone, SaveBuild, SavePage, SaveFail
<1>7. CASE SaveRefused
  BY <1>2, <1>7 DEF SaveRefused, flashVars
<1>8. CASE Erase
  <2>1. CASE EraseSector
    BY <2>1 DEF EraseSector, View
  <2>2. CASE UNCHANGED flashVars
    BY <1>2, <1>8, <2>2 DEF Erase, flashVars
  <2>3. QED
    BY <1>8, <2>1, <2>2 DEF Erase
<1>9. ASSUME NEW q \in Readers,
             (\E op \in {"Read", "ReadDataPtr"} : ReadBegin(q, op)) \/ ReadStep(q)
      PROVE  View(r)'
  <2>1. CASE q = r
    BY <1>1, <1>9, <2>1, ViewReader DEF Views
  <2>2. CASE q # r
    <3>1. UNCHANGED <<map, hdr, dat>>
      BY <1>9 DEF ReadBegin, ReadStep, ReadHeader, ReadCopy, ReadCheck, ReadFail, flashVars
    <3>2. QED
      BY <1>2, <1>9, <2>2, <3>1, ReaderRecord
  <2>3. QED
    BY <2>1, <2>2
<1>10. CASE PowerLoss \/ TornMap \/ TornPage
  <2>1. rd'[r] = idle
    BY <1>10 DEF PowerLoss, TornMap, TornPage, Reset
  <2>2. QED
    BY <1>1, <2>1 DEF idle
<1>11. CASE UNCHANGED vars
  BY <1>2, <1>11 DEF vars
<1>12. QED
  BY <1>4, <1>5, <1>6, <1>7, <1>8, <1>9, <1>10, <1>11, Zenon DEF CheckedNext

LEMMA LockedStep ==
  ASSUME TypeInv, Locked, [CheckedNext]_vars
  PROVE  Locked'
<1>1. CASE PowerLoss \/ TornMap \/ TornPage
  BY <1>1, ResetStore DEF PowerLoss, TornMap, TornPage, StoreInv
<1>2. CASE UNCHANGED vars
  BY <1>2 DEF vars, Locked
<1>3. QED
  BY <1>1, <1>2, LockedBoot, LockedSave, LockedReader, Zenon DEF CheckedNext

AllInv == TypeInv /\ BlankInv /\ LayoutInv /\ ContentInv /\ StoreInv

LEMMA AllInit == Init => AllInv
<1>1. Init => StoreInv
  BY DEF Init, StoreInv, Locked, Written, Views, idle
<1>2. QED
  BY <1>1, TypeInit, BlankInit, LayoutInit, ContentInit DEF AllInv

LEMMA AllStep == ~TornMaps /\ AllInv /\ [CheckedNext]_vars => AllInv'
<1> SUFFICES ASSUME ~TornMaps, AllInv, [CheckedNext]_vars PROVE AllInv'
  OBVIOUS
<1>1. TypeInv /\ BlankInv /\ LayoutInv /\ ContentInv /\ Locked /\ Written /\ Views
  BY DEF AllInv, StoreInv
<1>2. TypeInv' /\ BlankInv' /\ LayoutInv' /\ ContentInv'
  BY <1>1, TypeStep, BlankStep, LayoutStep, ContentStep DEF Next
<1>3. Locked' /\ Views'
  BY <1>1, LockedStep, ViewsStep
<1>4. Written'
  BY <1>1, WrittenStep DEF ContentInv
<1>5. QED
  BY <1>2, <1>3, <1>4 DEF AllInv, StoreInv

LEMMA AllHolds ==
  ASSUME ~TornMaps, ~LostPrograms
  PROVE  Spec => []AllInv
<1>1. AllInv /\ [CheckedNext]_vars => AllInv'
  BY AllStep
<1>2. [Next]_vars => [CheckedNext]_vars
  BY Checked
<1>3. QED
  BY <1>1, <1>2, AllInit, PTL DEF Spec

-----------------------------------------------------------------------------
(***************************************************************************)
(* The abstract state, step by step.                                       *)
(***************************************************************************)
\* The same heads, bodies and marks are the same file.
LEMMA ContentKept ==
  ASSUME TypeInv, Clean, TypeInv', Clean', UNCHANGED <<map, dat>>,
         \A j \in Entries : hdr'[j].val = hdr[j].val
  PROVE  Content' = Content
<1>1. ContentFacts /\ ContentFacts'
  BY ContentNow, ContentNext
<1>2. FirstLive(map') = FirstLive(map) /\ (HasFile(map') <=> HasFile(map))
  OBVIOUS
<1>3. ASSUME HasFile(map), NEW v \in Values
      PROVE  StoredAt(FirstLive(map), v)' <=> StoredAt(FirstLive(map), v)
  <2>1. FirstLive(map) \in Entries
    BY <1>1, <1>3 DEF ContentFacts, HasFile
  <2>2. QED
    BY <1>2, <2>1 DEF StoredAt
<1>4. \A v \in Values : Content' = v <=> Content = v
  BY <1>1, <1>2, <1>3 DEF ContentFacts
<1>5. Content' = None <=> Content = None
  BY <1>1, <1>2 DEF ContentFacts
<1>6. Content \in Values \cup {None, Broken} /\ Content' \in Values \cup {None, Broken}
  BY <1>1 DEF ContentFacts
<1>7. QED
  BY <1>4, <1>5, <1>6

LEMMA ContentErased ==
  ASSUME TypeInv', Clean', EraseSector
  PROVE  Content' = None
<1>1. \A i \in Entries : map'[i] = FREE
  BY DEF EraseSector
<1>2. ~HasFile(map')
  BY <1>1, FirstLiveFacts, SectorAssumption DEF HasFile, Entries, FREE, CURRENT
<1>3. QED
  BY <1>2, ContentNext DEF ContentFacts

\* While an image is being programmed, the file it goes to is incomplete.
PartialIsBroken ==
  boot = "pages" \/ wpc \in {"build", "write"} => Content = Broken

LEMMA ContentPartial == AllInv => PartialIsBroken
<1> SUFFICES ASSUME AllInv, boot = "pages" \/ wpc \in {"build", "write"}
             PROVE  Content = Broken
  BY DEF PartialIsBroken
<1> DEFINE e == flashFile.head
           k == flashFile.next
<1>1. TypeInv /\ Clean /\ Imaged /\ Heads /\ Compaction /\ Written /\ RestBlank /\ ContentFacts
  BY ContentNow DEF AllInv, ContentInv, StoreInv, LayoutInv
<1>2. k \in 0..(flashFile.len - 1) /\ flashFile.len \in 0..N /\ e \in 0..N
      /\ e + flashFile.len <= N
  BY <1>1, NextPageType DEF TypeInv, TypeOK, ImageOK, FileImages, Phases
<1>3. e \in Entries /\ map[e] = CURRENT /\ (k > 0 => hdr[e].val = flashFile.hdr.val)
      /\ \A i \in 0..(e - 1) : ~Live(map, i)
  <2>1. e \in Entries
    BY <1>2, SectorAssumption DEF Entries
  <2>2. CASE boot = "pages"
    <3>1. e = 0
      BY <1>1, <2>2 DEF TypeInv, Phases
    <3>2. QED
      BY <1>1, <2>1, <2>2, <3>1 DEF Compaction
  <2>3. CASE wpc \in {"build", "write"}
    BY <1>1, <2>1, <2>3 DEF Written, Heads
  <2>4. QED
    BY <2>2, <2>3
<1>4. FirstLive(map) = e
  BY <1>3, FirstLiveIs DEF Live
<1>5. hdr[e + k] = BlankHdr /\ dat[e + k] = BlankBody
  BY <1>1, <1>2 DEF RestBlank
<1>6. ASSUME NEW v \in Values, StoredAt(e, v)
      PROVE  FALSE
  <2>1. hdr[e].val = v /\ v # Blank
    BY <1>6, NamesAssumption DEF StoredAt
  <2>2. k > 0
    <3>1. k = 0 => e + k = e
      BY <1>2
    <3>2. QED
      BY <1>2, <1>5, <2>1, <3>1 DEF BlankHdr
  <2>3. flashFile.hdr.val = v /\ flashFile.len = Pages[v]
    BY <1>1, <1>3, <2>1, <2>2 DEF Imaged
  <2>4. dat[e + k] = Body(v, k)
    BY <1>2, <1>6, <2>3 DEF StoredAt
  <2>5. QED
    BY <1>5, <2>4, BodyNames
<1>7. HasFile(map)
  BY <1>3, <1>4, SectorAssumption DEF HasFile, Entries
<1>8. QED
  BY <1>1, <1>4, <1>6, <1>7 DEF ContentFacts

LEMMA ContentPartialNext == AllInv' => PartialIsBroken'
BY ContentPartial, PTL

\* An image holds the value of its header, or is damaged.
LEMMA ImageContentFacts ==
  ASSUME TypeInv, Imaged
  PROVE  /\ ImageContent(flashFile) \in Values \cup {Broken}
         /\ ImageContent(flashFile) # NoOp
         /\ \A v \in Values : ImageContent(flashFile) = v <=>
              /\ flashFile.hdr.val = v
              /\ \A p \in 0..(flashFile.len - 1) : flashFile.data[p] = Body(v, p)
<1>1. ImageContent(flashFile) \in Values \cup {Broken} /\ Broken \notin Values
  BY NamesAssumption DEF ImageContent
<1>2. ASSUME NEW v \in Values, flashFile.hdr.val = v
      PROVE  flashFile.data = FileOf(v) <=>
               \A p \in 0..(flashFile.len - 1) : flashFile.data[p] = Body(v, p)
  <2>1. flashFile.len = Pages[v]
    BY <1>2 DEF Imaged
  <2>2. flashFile.data = [p \in 0..(flashFile.len - 1) |-> flashFile.data[p]]
    BY DEF TypeInv, TypeOK, ImageOK, FileImages, Data
  <2>3. QED
    BY <2>1, <2>2 DEF FileOf
<1>3. \A v \in Values : ImageContent(flashFile) = v <=>
        flashFile.hdr.val = v /\ flashFile.data = FileOf(v)
  BY <1>1 DEF ImageContent
<1>4. QED
  BY <1>1, <1>2, <1>3, NoOpAssumption

\* The boot code and the idle writer have nothing in flight.
LEMMA Quiet ==
  /\ wpc = "idle" => Saving = NoOp /\ Retired = FALSE
  /\ boot \notin {"map", "pages"} => Moving = NoOp
BY DEF Saving, Retired, Moving

LEMMA QuietNext ==
  /\ wpc' = "idle" => Saving' = NoOp /\ Retired' = FALSE
  /\ boot' \notin {"map", "pages"} => Moving' = NoOp
BY DEF Saving, Retired, Moving

LEMMA GotKept ==
  ASSUME UNCHANGED rd
  PROVE  Got' = Got
BY DEF Got

LEMMA AbstractReset ==
  ASSUME Reset
  PROVE  /\ Saving' = NoOp /\ Retired' = FALSE /\ Moving' = NoOp /\ Outcome(wres)' = NoOp
         /\ Got' = [r \in Readers |-> NoOp]
<1>1. Saving' = NoOp /\ Retired' = FALSE /\ Moving' = NoOp
  BY QuietNext DEF Reset
<1>2. Outcome(wres)' = NoOp
  BY DEF Reset, Outcome
<1>3. \A r \in Readers : rd'[r].status = "none"
  BY DEF Reset, idle
<1>4. Got' = [r \in Readers |-> NoOp]
  BY <1>3 DEF Got
<1>5. QED
  BY <1>1, <1>2, <1>4

\* The last page of the compaction completes the file it copied.
LEMMA MovedIn ==
  ASSUME TypeInv, Clean, Imaged, Compaction, TypeInv', Clean', GcPage, LastPage
  PROVE  Content' = ImageContent(flashFile)
<1> DEFINE k == flashFile.next
<1>1. boot = "pages" /\ UNCHANGED map /\ flashFile.head = 0
      /\ ProgramPage(NextPage, NextHdr, NextBody)
  BY DEF GcPage, GcPageDone, ProgramNextPage, TypeInv, Phases
<1>2. /\ k \in 0..(flashFile.len - 1) /\ flashFile.len \in 1..N /\ flashFile.len = k + 1
      /\ NextHdr \in Headers /\ NextBody \in Bodies
  BY <1>1, NextPageType, SectorAssumption DEF TypeInv, TypeOK, LastPage
<1>3. NextPage = k /\ k \in Entries /\ 0 \in Entries
  BY <1>1, <1>2, SectorAssumption DEF NextPage, Entries
<1>4. hdr[k] = BlankHdr /\ dat[k] = BlankBody
  BY <1>1, <1>2, SectorAssumption DEF Compaction, BlankPage
<1>5. /\ hdr'[k] = AndHdr(BlankHdr, NextHdr) /\ dat'[k] = AndBody(BlankBody, NextBody)
      /\ \A p \in Entries : p # k => hdr'[p] = hdr[p] /\ dat'[p] = dat[p]
  BY <1>1, <1>3, <1>4 DEF ProgramPage, TypeInv, TypeOK, FlashOK
<1>6. AndHdr(BlankHdr, NextHdr).val = NextHdr.val /\ AndBody(BlankBody, NextBody) = NextBody
  BY <1>2, HeaderFacts, BodyFacts, AndHdrFacts, AndBodyFacts
<1>7. hdr'[0].val = flashFile.hdr.val
  <2>1. CASE k = 0
    BY <1>5, <1>6, <2>1 DEF NextHdr
  <2>2. CASE k # 0
    <3>1. hdr'[0] = hdr[0] /\ k > 0
      BY <1>2, <1>3, <1>5, <2>2
    <3>2. QED
      BY <1>1, <3>1 DEF Compaction
  <2>3. QED
    BY <2>1, <2>2
<1>8. \A p \in 0..(flashFile.len - 1) : p \in Entries /\ dat'[p] = flashFile.data[p]
  <2>1. \A p \in 0..(k - 1) : dat[p] = flashFile.data[p] /\ p \in Entries /\ p # k
    BY <1>1, <1>2, SectorAssumption DEF Compaction, Entries
  <2>2. dat'[k] = flashFile.data[k]
    BY <1>5, <1>6 DEF NextBody
  <2>3. \A p \in 0..(flashFile.len - 1) : p \in 0..(k - 1) \/ p = k
    BY <1>2
  <2>4. QED
    BY <1>3, <1>5, <2>1, <2>2, <2>3
<1> HIDE DEF k
<1>9. FirstLive(map') = 0 /\ HasFile(map')
  <2>1. map'[0] = CURRENT
    BY <1>1 DEF Compaction
  <2>2. FirstLive(map') = 0
    BY <1>3, <2>1, FirstLiveIs DEF Live
  <2>3. QED
    BY <2>1, <2>2, SectorAssumption DEF HasFile
<1>10. ASSUME NEW v \in Values
       PROVE  StoredAt(0, v)' <=> ImageContent(flashFile) = v
  <2>1. \A p \in 0..(flashFile.len - 1) : 0 + p = p
    BY <1>2
  <2>2. flashFile.hdr.val = v => flashFile.len = Pages[v]
    BY DEF Imaged
  <2>3. ImageContent(flashFile) = v <=>
          /\ flashFile.hdr.val = v
          /\ \A p \in 0..(flashFile.len - 1) : flashFile.data[p] = Body(v, p)
    BY ImageContentFacts
  <2>4. QED
    BY <1>7, <1>8, <2>1, <2>2, <2>3 DEF StoredAt
<1>11. \A v \in Values : Content' = v <=> ImageContent(flashFile) = v
  BY <1>9, <1>10, ContentNext DEF ContentFacts
<1>12. Content' \in Values \cup {Broken}
  BY <1>9, ContentNext DEF ContentFacts
<1>13. QED
  BY <1>11, <1>12, ImageContentFacts

-----------------------------------------------------------------------------
(***************************************************************************)
(* Every step is a step of FileStore, or none.                             *)
(***************************************************************************)
AbstractVars == <<Content, Saving, Retired, Moving, Outcome(wres), Got>>

\* The compaction moves the file out, marks its place and moves it in.
LEMMA BootRefines ==
  ASSUME AllInv, AllInv', BootStep
  PROVE  Store!Next \/ UNCHANGED AbstractVars
<1> USE DEF bootOnly
<1>1. TypeInv /\ Clean /\ Imaged /\ Compaction /\ TypeInv' /\ Clean' /\ Imaged' /\ Compaction'
      /\ ContentFacts /\ ContentFacts'
  BY ContentNow, ContentNext DEF AllInv, ContentInv
<1>2. /\ wpc = "idle" /\ wpc' = "idle"
      /\ UNCHANGED <<rd, wres>>
  BY <1>1 DEF TypeInv, Phases, BootStep, GcKeep, GcDiscard, GcErase, GcFail, GcMark, GcMarkDone, GcPage, GcPageDone, Mirror
<1>3. /\ Saving = NoOp /\ Saving' = NoOp /\ Retired = FALSE /\ Retired' = FALSE
      /\ Outcome(wres)' = Outcome(wres) /\ Got' = Got
  BY <1>2, Quiet, QuietNext, GotKept
<1>4. CASE GcKeep \/ GcFail \/ Mirror
  <2>1. UNCHANGED <<map, hdr, dat>> /\ boot \notin {"map", "pages"}
        /\ boot' \notin {"map", "pages"}
    BY <1>4 DEF GcKeep, GcFail, Mirror, flashVars
  <2>2. Content' = Content
    BY <1>1, <2>1, ContentKept
  <2>3. QED
    BY <1>3, <2>1, <2>2, Quiet, QuietNext DEF AbstractVars
<1>5. CASE GcDiscard
  <2>1. boot \notin {"map", "pages"} /\ boot' \notin {"map", "pages"} /\ ~HasFile(map)
    BY <1>5 DEF GcDiscard
  <2>2. Content = None /\ Content' = None
    BY <1>1, <1>5, <2>1, ContentErased DEF GcDiscard, ContentFacts
  <2>3. QED
    BY <1>3, <2>1, <2>2, Quiet, QuietNext DEF AbstractVars
<1>6. CASE GcErase
  <2> DEFINE i == FirstLive(map)
  <2>1. boot = "gc" /\ boot' = "map" /\ HasFile(map) /\ EraseSector
    BY <1>6 DEF GcErase
  <2>2. i \in Entries
    BY <1>1, <2>1 DEF ContentFacts, HasFile
  <2>3. PICK n \in Sizes(hdr[i]) :
          flashFile' = [hdr |-> hdr[i], data |-> PagesAt(i, n), len |-> n,
                        head |-> 0, next |-> 0]
    BY <1>6 DEF GcErase
  <2>4. Moving' = ImageContent(flashFile')
    BY <2>1 DEF Moving, ImageContent
  <2>5. ASSUME NEW v \in Values
        PROVE  ImageContent(flashFile') = v <=> StoredAt(i, v)
    <3>0. Broken \notin Values
      BY NamesAssumption
    <3>1. ImageContent(flashFile') = v <=> hdr[i].val = v /\ PagesAt(i, n) = FileOf(v)
      BY <2>3, <3>0 DEF ImageContent
    <3>2. hdr[i].val = v => n = Pages[v]
      BY <2>3, SizesOfValue
    <3>3. i \in Nat
      BY <2>2, SectorAssumption DEF Entries
    <3>4. hdr[i].val = v => (PagesAt(i, n) = FileOf(v) <=> StoredAt(i, v))
      BY <3>2, <3>3, PagesAreFile DEF StoredAt
    <3>5. QED
      BY <3>1, <3>4 DEF StoredAt
  <2>6. ImageContent(flashFile') \in Values \cup {Broken}
    BY DEF ImageContent
  <2>7. Content # None
    BY <1>1, <2>1 DEF ContentFacts
  <2>8. Moving' = Content
    <3>1. \A v \in Values : Content = v <=> StoredAt(i, v)
      BY <1>1, <2>1 DEF ContentFacts
    <3>2. \A v \in Values : Content = v <=> ImageContent(flashFile') = v
      BY <2>5, <3>1
    <3>3. Content \in Values \cup {Broken}
      BY <1>1, <2>7 DEF ContentFacts
    <3>4. QED
      BY <2>4, <2>6, <3>2, <3>3
  <2>9. Content' = None /\ Moving = NoOp
    BY <1>1, <2>1, ContentErased, Quiet
  <2>10. Store!MoveOut
    BY <1>3, <2>7, <2>8, <2>9 DEF Store!MoveOut
  <2>11. QED
    BY <2>10, Zenon DEF Store!Next
<1>7. CASE GcMark
  <2>1. boot = "map" /\ boot' = "pages" /\ UNCHANGED flashFile
    BY <1>7 DEF GcMark, GcMarkDone
  <2>2. Moving # NoOp /\ Moving' = Moving
    BY <1>1, <2>1, ImageContentFacts DEF Moving, ImageContent
  <2>3. Content' = Broken
    BY <2>1, ContentPartialNext DEF PartialIsBroken
  <2>4. Store!MoveMark
    BY <1>3, <2>2, <2>3 DEF Store!MoveMark
  <2>5. QED
    BY <2>4, Zenon DEF Store!Next
<1>8. CASE GcPage /\ ~LastPage
  <2>1. boot = "pages" /\ boot' = "pages" /\ flashFile' = [flashFile EXCEPT !.next = @ + 1]
    BY <1>8 DEF GcPage, GcPageDone
  <2>2. flashFile'.hdr = flashFile.hdr /\ flashFile'.data = flashFile.data
    BY <1>1, <2>1, NextNotVoid
  <2>3. Moving' = Moving
    BY <2>1, <2>2 DEF Moving, ImageContent
  <2>4. Content = Broken /\ Content' = Broken
    BY <2>1, ContentPartial, ContentPartialNext DEF PartialIsBroken
  <2>5. QED
    BY <1>3, <2>3, <2>4 DEF AbstractVars
<1>9. CASE GcPage /\ LastPage
  <2>1. boot = "pages" /\ boot' = "mirror"
    BY <1>9 DEF GcPage, GcPageDone
  <2>2. Moving = ImageContent(flashFile) /\ Moving' = NoOp
    BY <2>1, QuietNext DEF Moving
  <2>3. Content' = ImageContent(flashFile)
    BY <1>1, <1>9, MovedIn
  <2>4. Store!MoveIn
    BY <1>1, <1>3, <2>2, <2>3, ImageContentFacts DEF Store!MoveIn
  <2>5. QED
    BY <2>4, Zenon DEF Store!Next
<1>10. QED
  BY <1>4, <1>5, <1>6, <1>7, <1>8, <1>9 DEF BootStep

\* The last page of a Save completes the file of its value.
LEMMA SavedIn ==
  ASSUME AllInv, AllInv', SavePage, LastPage
  PROVE  Content' = flashFile.hdr.val
<1> DEFINE e == flashFile.head
           k == flashFile.next
           v == flashFile.hdr.val
<1>1. TypeInv /\ LayoutInv /\ Imaged /\ Heads /\ Compaction /\ Written
  BY DEF AllInv, ContentInv, StoreInv
<1>2. wpc = "write" /\ UNCHANGED map
  BY DEF SavePage, ProgramNextPage
<1>3. v \in Values /\ flashFile.data = FileOf(v) /\ flashFile.len = Pages[v]
  BY <1>1, <1>2 DEF Imaged
<1>4. /\ NextPage \in Entries /\ NextPage = e + k /\ k \in 0..(flashFile.len - 1) /\ e \in 0..N
      /\ flashFile.len \in 0..N
      /\ hdr'[NextPage].val = NextHdr.val /\ dat'[NextPage] = flashFile.data[k]
      /\ \A i \in Entries : i # NextPage => hdr'[i] = hdr[i] /\ dat'[i] = dat[i]
  BY <1>1, SavedPage
<1>5. flashFile.len = k + 1
  BY <1>4, SectorAssumption DEF LastPage
<1>6. e \in Entries /\ map'[e] = CURRENT /\ \A i \in 0..(e - 1) : ~Live(map', i)
  <2>1. e \in Entries
    BY <1>4, SectorAssumption DEF Entries
  <2>2. QED
    BY <1>1, <1>2, <2>1 DEF Written, Heads
<1>7. hdr'[e].val = v
  <2>1. CASE k = 0
    <3>1. NextPage = e /\ NextHdr = flashFile.hdr
      BY <1>4, <2>1 DEF NextHdr
    <3>2. QED
      BY <1>4, <3>1
  <2>2. CASE k # 0
    <3>1. k > 0 /\ e # NextPage
      BY <1>4, <2>2
    <3>2. hdr[e].val = v
      BY <1>1, <1>2, <3>1 DEF Written
    <3>3. QED
      BY <1>4, <1>6, <3>1, <3>2
  <2>3. QED
    BY <2>1, <2>2
<1>8. \A p \in 0..(flashFile.len - 1) : e + p \in Entries /\ dat'[e + p] = flashFile.data[p]
  <2>1. \A p \in 0..(k - 1) : dat[e + p] = flashFile.data[p]
    BY <1>1, <1>2 DEF Written
  <2>2. \A p \in 0..(k - 1) : e + p \in Entries /\ e + p # NextPage
    BY <1>4, SectorAssumption DEF Entries
  <2>3. \A p \in 0..(flashFile.len - 1) : p \in 0..(k - 1) \/ p = k
    BY <1>4, <1>5
  <2>4. QED
    BY <1>4, <2>1, <2>2, <2>3
<1>9. \A p \in 0..(Pages[v] - 1) : e + p \in Entries /\ dat'[e + p] = Body(v, p)
  BY <1>3, <1>8 DEF FileOf
<1> HIDE DEF e, k, v
<1>10. FirstLive(map') = e /\ HasFile(map')
  <2>1. FirstLive(map') = e
    BY <1>6, FirstLiveIs DEF Live
  <2>2. QED
    BY <1>6, <2>1, SectorAssumption DEF HasFile, Entries
<1>11. \A w \in Values : Content' = w <=> StoredAt(FirstLive(map), w)'
  BY <1>10, ContentNext DEF ContentFacts, AllInv, ContentInv
<1>12. QED
  BY <1>3, <1>7, <1>9, <1>10, <1>11 DEF StoredAt, v

\* A Save begins, retires the previous entry, and commits, or stops before.
LEMMA SaveRefines ==
  ASSUME AllInv, AllInv', SaveStep \/ SaveRefused \/ \E v \in Values : SaveBegin(v)
  PROVE  Store!Next \/ UNCHANGED AbstractVars
<1> USE DEF writerOnly
<1>1. TypeInv /\ Clean /\ Imaged /\ TypeInv' /\ Clean' /\ Imaged' /\ ContentFacts
      /\ ContentFacts'
  BY ContentNow, ContentNext DEF AllInv, ContentInv
<1>2. boot = "up" /\ boot' = "up" /\ UNCHANGED rd
  BY <1>1 DEF TypeInv, Phases, SaveBegin, SaveBeginDone, SaveRefused, SaveStep, SaveOverflow, SaveMark, SaveMarkDone,
              SaveBuild, SavePage, SaveFail
<1>3. Moving = NoOp /\ Moving' = NoOp /\ Got' = Got
  BY <1>2, Quiet, QuietNext, GotKept
<1>4. wpc # "idle" => Saving = flashFile.hdr.val /\ Saving \in Values /\ Saving # NoOp
  BY <1>1, NoOpAssumption DEF Imaged, Saving
<1>5. ASSUME UNCHANGED flashVars
      PROVE  Content' = Content
  BY <1>1, <1>5, ContentKept DEF flashVars
<1>6. ASSUME NEW v \in Values, SaveBegin(v) PROVE Store!Next
  <2>1. Content' = Content
    BY <1>1, <1>6, BeginHeaders, ContentKept DEF SaveBegin, SaveBeginDone
  <2>2. wpc = "idle" /\ wpc' = "mark" /\ wres' = "none" /\ flashFile'.hdr = NewHdr(v)
    BY <1>6 DEF SaveBegin, SaveBeginDone
  <2>3. Saving = NoOp /\ Retired = FALSE /\ Saving' = v /\ Retired' = FALSE
    BY <2>2 DEF Saving, Retired, NewHdr
  <2>4. Outcome(wres)' = NoOp
    BY <2>2 DEF Outcome
  <2>5. Store!Begin(v)
    BY <1>3, <2>1, <2>3, <2>4 DEF Store!Begin
  <2>6. QED
    BY <2>5, Zenon DEF Store!Next
<1>7. CASE SaveRefused
  <2>1. wpc = "idle" /\ wpc' = "idle" /\ wres' \in {"ENOENTRY3"} /\ UNCHANGED flashVars
    BY <1>7 DEF SaveRefused
  <2>2. Outcome(wres)' = "error"
    BY <2>1 DEF Outcome
  <2>3. Store!Fail
    BY <1>3, <1>5, <2>1, <2>2, QuietNext DEF Store!Fail
  <2>4. QED
    BY <2>3, Zenon DEF Store!Next
<1>8. CASE SaveOverflow
  <2>1. /\ wpc = "mark" /\ wpc' = "idle" /\ wres' \in {"EOVERFLOW", "EOVERFLOW2"}
        /\ UNCHANGED flashVars
    BY <1>8 DEF SaveOverflow, Return
  <2>2. Outcome(wres)' = "full"
    BY <2>1 DEF Outcome
  <2>3. Retired = FALSE /\ Retired' = FALSE /\ Saving' = NoOp
    BY <2>1, QuietNext DEF Retired
  <2>4. Store!Full
    BY <1>3, <1>4, <1>5, <2>1, <2>2, <2>3 DEF Store!Full
  <2>5. QED
    BY <2>4, Zenon DEF Store!Next
<1>9. CASE SaveMark
  <2>1. wpc = "mark" /\ wpc' = "build" /\ UNCHANGED wres
    BY <1>9 DEF SaveMark, SaveMarkDone
  <2>2. flashFile'.hdr = flashFile.hdr
    BY <1>1, <1>9 DEF SaveMark, SaveMarkDone, TypeInv, TypeOK, ImageOK, FileImages
  <2>3. Content' = Broken
    BY <2>1, ContentPartialNext DEF PartialIsBroken
  <2>4. Saving' = Saving /\ Retired = FALSE /\ Retired' = TRUE
    BY <2>1, <2>2 DEF Saving, Retired
  <2>5. Store!Retire
    BY <1>3, <1>4, <2>1, <2>3, <2>4 DEF Store!Retire
  <2>6. QED
    BY <2>5, Zenon DEF Store!Next
<1>10. CASE SaveBuild
  <2>1. /\ wpc = "build" /\ wpc' = "write" /\ UNCHANGED <<wres, flashFile, flashVars>>
    BY <1>10 DEF SaveBuild
  <2>2. Saving' = Saving /\ Retired' = Retired
    BY <2>1 DEF Saving, Retired
  <2>3. QED
    BY <1>3, <1>5, <2>1, <2>2 DEF AbstractVars
<1>11. CASE SavePage /\ ~LastPage
  <2>1. /\ wpc = "write" /\ wpc' = "write" /\ UNCHANGED wres
        /\ flashFile' = [flashFile EXCEPT !.next = @ + 1]
    BY <1>11 DEF SavePage
  <2>2. flashFile'.hdr = flashFile.hdr
    BY <1>1, <2>1, NextNotVoid
  <2>3. Saving' = Saving /\ Retired' = Retired
    BY <2>1, <2>2 DEF Saving, Retired
  <2>4. Content = Broken /\ Content' = Broken
    BY <2>1, ContentPartial, ContentPartialNext DEF PartialIsBroken
  <2>5. QED
    BY <1>3, <2>1, <2>3, <2>4 DEF AbstractVars
<1>12. CASE SavePage /\ LastPage
  <2>1. wpc = "write" /\ wpc' = "idle" /\ wres' = "OK"
    BY <1>12 DEF SavePage, Return
  <2>2. Content' = Saving
    BY <1>4, <1>12, <2>1, SavedIn
  <2>3. Retired = TRUE /\ Retired' = FALSE /\ Saving' = NoOp
    BY <2>1, QuietNext DEF Retired
  <2>4. Outcome(wres)' = "OK"
    BY <2>1 DEF Outcome
  <2>5. Store!Commit
    BY <1>3, <2>2, <2>3, <2>4 DEF Store!Commit
  <2>6. QED
    BY <2>5, Zenon DEF Store!Next
<1>13. CASE SaveFail
  <2>1. wpc' = "idle" /\ wres' = "EIO" /\ UNCHANGED flashVars
    BY <1>13 DEF SaveFail, Return
  <2>2. Outcome(wres)' = "error"
    BY <2>1 DEF Outcome
  <2>3. Store!Fail
    BY <1>3, <1>5, <2>1, <2>2, QuietNext DEF Store!Fail
  <2>4. QED
    BY <2>3, Zenon DEF Store!Next
<1>14. QED
  BY <1>6, <1>7, <1>8, <1>9, <1>10, <1>11, <1>12, <1>13, Zenon DEF SaveStep

LEMMA EraseRefines ==
  ASSUME AllInv, AllInv', Erase
  PROVE  Store!Next
<1>1. TypeInv /\ Clean /\ TypeInv' /\ Clean'
  BY DEF AllInv, ContentInv
<1>2. wpc = "idle" /\ wpc' = "idle" /\ boot = "up" /\ boot' = "up" /\ UNCHANGED rd
  BY DEF Erase, writerOnly
<1>3. /\ Saving = NoOp /\ Saving' = NoOp /\ Retired = FALSE /\ Retired' = FALSE
      /\ Moving = NoOp /\ Moving' = NoOp /\ Got' = Got
  BY <1>2, Quiet, QuietNext, GotKept
<1>4. CASE EraseSector /\ wres' = "OK"
  <2>1. Content' = None /\ Outcome(wres)' = "OK"
    BY <1>1, <1>4, ContentErased DEF Outcome
  <2>2. Store!Erase
    BY <1>3, <2>1 DEF Store!Erase
  <2>3. QED
    BY <2>2, Zenon DEF Store!Next
<1>5. CASE wres' = "EIO" /\ UNCHANGED flashVars
  <2>1. Content' = Content
    BY <1>1, <1>5, ContentKept DEF flashVars
  <2>2. Outcome(wres)' = "error"
    BY <1>5 DEF Outcome
  <2>3. Store!Fail
    BY <1>3, <2>1, <2>2 DEF Store!Fail
  <2>4. QED
    BY <2>3, Zenon DEF Store!Next
<1>6. QED
  BY <1>4, <1>5 DEF Erase

\* What a reader hands over with OK.
LEMMA StoredValueOf ==
  ASSUME NEW v \in Values
  PROVE  StoredValue(FileOf(v)) = v
<1>1. \A w \in Values : FileOf(v) = FileOf(w) => w = v
  BY FilesDiffer
<1>2. QED
  BY <1>1, Zenon DEF StoredValue

\* The checksum holds only over the whole of the file's current value: also
\* when an Erase, which takes no lock, ran since the header was read.
LEMMA ReadOk ==
  ASSUME AllInv, NEW r \in Readers, rd[r].pc = "check", NEW n \in Sizes(rd[r].hdr),
         CrcOk(rd[r].hdr, PagesAt(rd[r].head, n))
  PROVE  /\ Content \in Values
         /\ PagesAt(rd[r].head, n) = FileOf(Content)
         /\ rd[r].op = "Read" => rd[r].buf = FileOf(Content)
<1> DEFINE v == rd[r].hdr.val
           h == rd[r].head
<1>1. TypeInv /\ Clean /\ View(r) /\ ContentFacts
  BY ContentNow DEF AllInv, ContentInv, StoreInv, Views
<1>2. v \in Values /\ PagesAt(h, n) = FileOf(v)
  BY <1>1, Zenon DEF CrcOk, Clean
<1>3. Sizes(rd[r].hdr) = {Pages[v]} /\ n = Pages[v]
  BY <1>2, SizesOfValue
<1>4. h \in Entries /\ h \in Nat
  BY <1>1, SectorAssumption DEF TypeInv, TypeOK, ReadersOK, ReaderStates, Entries
<1>5. \A p \in 0..(Pages[v] - 1) : h + p \in Entries /\ dat[h + p] = Body(v, p)
  BY <1>2, <1>3, <1>4, PagesAreFile
<1>6. ~(\A i \in Entries : dat[i] = BlankBody)
  <2>1. 0 \in 0..(Pages[v] - 1)
    BY <1>2, FileOfType, SectorAssumption
  <2>2. h + 0 \in Entries /\ dat[h + 0] = Body(v, 0)
    BY <1>5, <2>1
  <2>3. QED
    BY <1>2, <2>2, BodyNames
<1>7. /\ HasFile(map) /\ h = FirstLive(map) /\ v = hdr[h].val
      /\ rd[r].op = "Read" => \E k \in Sizes(rd[r].hdr) : rd[r].buf = PagesAt(h, k)
  BY <1>1, <1>6 DEF View
<1>8. StoredAt(FirstLive(map), v)
  BY <1>5, <1>7 DEF StoredAt
<1>9. Content = v
  BY <1>1, <1>2, <1>7, <1>8 DEF ContentFacts
<1> HIDE DEF v, h
<1>10. rd[r].op = "Read" => rd[r].buf = PagesAt(h, n)
  BY <1>3, <1>7 DEF v
<1>11. QED
  BY <1>2, <1>9, <1>10 DEF h

LEMMA GotChanged ==
  ASSUME NEW r \in Readers, \A q \in Readers : q # r => rd'[q] = rd[q]
  PROVE  Got' = [Got EXCEPT ![r] = IF rd'[r].status = "OK" THEN StoredValue(rd'[r].buf) ELSE NoOp]
BY DEF Got

LEMMA ReaderRefines ==
  ASSUME AllInv, AllInv', NEW r \in Readers,
         (\E op \in {"Read", "ReadDataPtr"} : ReadBegin(r, op)) \/ ReadStep(r)
  PROVE  Store!Next \/ UNCHANGED AbstractVars
<1>1. TypeInv /\ Clean /\ TypeInv' /\ Clean' /\ Locked /\ Locked'
  BY DEF AllInv, ContentInv, StoreInv
<1>2. UNCHANGED <<flashVars, crc, boot, flashFile, wpc, wres>>
  BY DEF ReadBegin, ReadStep, ReadHeader, ReadCopy, ReadCheck, ReadFail, readerOnly
<1>3. /\ Content' = Content /\ Saving' = Saving /\ Retired' = Retired /\ Moving' = Moving
      /\ Outcome(wres)' = Outcome(wres)
  <2>1. Content' = Content
    BY <1>1, <1>2, ContentKept DEF flashVars
  <2>2. QED
    BY <1>2, <2>1 DEF Saving, Retired, Moving, ImageContent, Outcome
<1>4. /\ \A q \in Readers : q # r => rd'[q] = rd[q]
      /\ rd = [q \in Readers |-> rd[q]] /\ \E m \in 0..N : rd[r] \in ReaderStates(m)
  BY <1>1, ReaderRecord DEF TypeInv, TypeOK, ReadersOK
<1>5. ASSUME rd'[r].status # "OK"
      PROVE  Store!Next
  <2>1. Got' = [Got EXCEPT ![r] = NoOp]
    BY <1>4, <1>5, GotChanged
  <2>2. Store!ReadFails(r)
    BY <1>3, <2>1 DEF Store!ReadFails
  <2>3. QED
    BY <2>2, Zenon DEF Store!Next
<1>6. ASSUME NEW op \in {"Read", "ReadDataPtr"}, ReadBegin(r, op)
      PROVE  rd'[r].status # "OK"
  BY <1>4, <1>6 DEF ReadBegin, idle
<1>7. CASE ReadHeader(r) \/ ReadCopy(r)
  <2>1. rd[r].status = "none" /\ rd'[r].status = "none"
    <3>1. rd[r].pc # "idle" /\ rd'[r].status = rd[r].status
      BY <1>4, <1>7 DEF ReadHeader, ReadCopy, ReaderStates
    <3>2. QED
      BY <1>1, <3>1 DEF Locked
  <2>2. Got' = Got
    BY <1>4, <2>1 DEF Got
  <2>3. QED
    BY <1>3, <2>2 DEF AbstractVars
<1>8. CASE ReadCheck(r)
  <2> DEFINE data(n) == PagesAt(rd[r].head, n)
  <2>1. PICK n \in Sizes(rd[r].hdr) :
          Answer(r, IF CrcOk(rd[r].hdr, data(n)) THEN "OK" ELSE "EENCRYPT2",
                    IF rd[r].op = "Read" THEN rd[r].buf ELSE data(n))
    BY <1>8 DEF ReadCheck
  <2>2. /\ rd'[r].status = IF CrcOk(rd[r].hdr, data(n)) THEN "OK" ELSE "EENCRYPT2"
        /\ rd'[r].buf = IF rd[r].op = "Read" THEN rd[r].buf ELSE data(n)
    BY <1>4, <2>1 DEF Answer, idle
  <2>3. CASE ~CrcOk(rd[r].hdr, data(n))
    BY <1>5, <2>2, <2>3
  <2>4. CASE CrcOk(rd[r].hdr, data(n))
    <3>1. rd[r].pc = "check"
      BY <1>8 DEF ReadCheck
    <3>2. Content \in Values /\ rd'[r].status = "OK" /\ rd'[r].buf = FileOf(Content)
      BY <2>2, <2>4, <3>1, ReadOk
    <3>3. StoredValue(rd'[r].buf) = Content
      BY <3>2, StoredValueOf
    <3>4. Got' = [Got EXCEPT ![r] = Content]
      BY <1>4, <3>2, <3>3, GotChanged
    <3>5. Store!Read(r)
      BY <1>3, <3>2, <3>4 DEF Store!Read
    <3>6. QED
      BY <3>5, Zenon DEF Store!Next
  <2>5. QED
    BY <2>3, <2>4
<1>9. CASE ReadFail(r)
  <2>1. rd'[r].status = "EENCRYPT"
    BY <1>4, <1>9 DEF ReadFail, Answer, idle
  <2>2. QED
    BY <1>5, <2>1
<1>10. QED
  BY <1>5, <1>6, <1>7, <1>8, <1>9, Zenon DEF ReadStep

\* Losing power, between two steps or within a page program, loses at most
\* the entry that was being written.
LEMMA PowerRefines ==
  ASSUME AllInv, AllInv', PowerLoss \/ TornPage
  PROVE  Store!Next
<1>1. TypeInv /\ Clean /\ TypeInv' /\ Clean' /\ Imaged /\ ContentFacts /\ ContentFacts'
  BY ContentNow, ContentNext DEF AllInv, ContentInv
<1>2. /\ Saving' = NoOp /\ Retired' = FALSE /\ Moving' = NoOp /\ Outcome(wres)' = NoOp
      /\ Got' = [r \in Readers |-> NoOp]
  BY AbstractReset DEF PowerLoss, TornPage
<1>3. CASE PowerLoss
  <2>1. Content' = Content
    BY <1>1, <1>3, ContentKept DEF PowerLoss, flashVars
  <2>2. Store!PowerLoss
    BY <1>2, <2>1 DEF Store!PowerLoss
  <2>3. QED
    BY <2>2, Zenon DEF Store!Next
<1>4. CASE TornPage
  <2>1. UNCHANGED map /\ (boot = "pages" \/ wpc = "write")
    BY <1>4 DEF TornPage
  <2>2. Content = Broken
    BY <2>1, ContentPartial DEF PartialIsBroken
  <2>3. Content' \notin Values
    BY <1>1, <1>4, <2>2, TornPageValue, NamesAssumption
  <2>4. Content' = Broken
    BY <1>1, <2>1, <2>2, <2>3, NamesAssumption DEF ContentFacts
  <2>5. Saving # NoOp \/ Moving # NoOp
    <3>1. wpc = "write" => Saving # NoOp
      BY <1>1, NoOpAssumption DEF Saving, Imaged
    <3>2. boot = "pages" => Moving # NoOp
      BY <1>1, ImageContentFacts DEF Moving
    <3>3. QED
      BY <2>1, <3>1, <3>2
  <2>6. Store!PowerLoss
    BY <1>2, <2>4, <2>5 DEF Store!PowerLoss
  <2>7. QED
    BY <2>6, Zenon DEF Store!Next
<1>5. QED
  BY <1>3, <1>4

LEMMA StoreInit == Init => Store!Init
<1> SUFFICES ASSUME Init PROVE Store!Init
  OBVIOUS
<1>1. TypeInv /\ Clean
  BY AllInit DEF AllInv, ContentInv
<1>2. Content \in Store!Contents
  BY <1>1, ContentNow DEF ContentFacts, Store!Contents
<1>3. Saving = NoOp /\ Retired = FALSE /\ Moving = NoOp
  BY DEF Init, Saving, Retired, Moving
<1>4. Outcome(wres) = NoOp
  BY DEF Init, Outcome
<1>5. Got = [r \in Readers |-> NoOp]
  BY DEF Init, Got, idle
<1>6. QED
  BY <1>2, <1>3, <1>4, <1>5 DEF Store!Init

LEMMA StoreStep ==
  ~TornMaps /\ AllInv /\ AllInv' /\ [CheckedNext]_vars => [Store!Next]_(Store!vars)
<1> SUFFICES ASSUME ~TornMaps, AllInv, AllInv', [CheckedNext]_vars
             PROVE  Store!Next \/ UNCHANGED AbstractVars
  BY Zenon DEF Store!vars, AbstractVars
<1>1. CASE UNCHANGED vars
  <2>1. Content' = Content
    BY <1>1, ContentKept DEF AllInv, ContentInv, vars
  <2>2. Got' = Got
    BY <1>1, GotKept DEF vars
  <2>3. QED
    BY <1>1, <2>1, <2>2 DEF vars, AbstractVars, Saving, Retired, Moving, ImageContent, Outcome
<1>2. CASE TornMap
  BY <1>2, Zenon DEF TornMap
<1>3. QED
  BY <1>1, <1>2, BootRefines, SaveRefines, EraseRefines, ReaderRefines, PowerRefines, Zenon
  DEF CheckedNext

\* As long as no map program is cut short and every failing program is noticed,
\* the sector with its map, its pages, its lock and its compaction is a file
\* store for every sector size and any number of readers: a Save that returns
\* OK is what the next read finds, one that overflows leaves the old file, a
\* read that returns OK returns the whole of the current value, although Erase
\* takes no lock, and a power loss loses at most the entry that was being
\* written or moved, in a way that a read reports.
THEOREM FlashImplementsStore ==
  ASSUME ~TornMaps, ~LostPrograms
  PROVE  Spec => StoreSpec
<1>1. AllInv /\ AllInv' /\ [CheckedNext]_vars => [Store!Next]_(Store!vars)
  BY StoreStep
<1>2. [Next]_vars => [CheckedNext]_vars
  BY Checked
<1>3. QED
  BY <1>1, <1>2, StoreInit, AllHolds, PTL DEF Spec, StoreSpec, Store!Spec

=============================================================================
