------------------------- MODULE SlnFlashMgmtProofs -------------------------
(***************************************************************************)
(* What SlnFlashMgmt keeps for every sector size, every set of values and  *)
(* every number of readers, with failing drivers, torn programs and power  *)
(* losses: the types of its state, the order of the map and the room left  *)
(* in it also with programs that fail unnoticed, the erased state of free  *)
(* pages as long as every failing program is noticed.                      *)
(***************************************************************************)
EXTENDS SlnFlashMgmt, WellFoundedInduction, TLAPS

-----------------------------------------------------------------------------
(***************************************************************************)
(* The searches over a map.                                                *)
(***************************************************************************)

\* Every nonempty set of naturals has a least element.
LEMMA LeastNat ==
  ASSUME NEW T \in SUBSET Nat, T # {}
  PROVE  \E x \in T : \A y \in T : x <= y
<1>1. \E x \in T : \A y \in T : ~(<<y, x>> \in OpToRel(<, Nat))
  BY NatLessThanWellFounded, WFMin
<1>2. \E x \in T : \A y \in T : ~(y < x)
  BY <1>1, Zenon DEF OpToRel
<1>3. PICK x \in T : \A y \in T : ~(y < x)
  BY <1>2
<1>4. \A y \in T : x <= y
  BY <1>3
<1>5. QED
  BY <1>4

\* get_sector_file_map finds the first entry that is not retired, or N.
LEMMA FirstLiveFacts ==
  ASSUME NEW m
  PROVE  /\ FirstLive(m) \in 0..N
         /\ \A j \in 0..(FirstLive(m) - 1) : ~Live(m, j)
         /\ FirstLive(m) < N => Live(m, FirstLive(m))
<1> DEFINE T == {i \in 0..N : i < N => Live(m, i)}
<1>1. T \in SUBSET Nat /\ T # {}
  <2>1. N \in T
    BY SectorAssumption
  <2>2. QED
    BY <2>1, SectorAssumption
<1> HIDE DEF T
<1>2. PICK i \in T : \A y \in T : i <= y
  BY <1>1, LeastNat
<1>3. /\ i \in 0..N
      /\ \A j \in 0..(i - 1) : ~Live(m, j)
      /\ i < N => Live(m, i)
  BY <1>2, SectorAssumption DEF T
<1>4. QED
  BY <1>3, Zenon DEF FirstLive

\* The run of CURRENT entries from i on ends at the first other entry, or at N.
LEMMA RunEndFacts ==
  ASSUME NEW m, NEW i \in 0..N
  PROVE  /\ RunEnd(m, i) \in i..N
         /\ \A j \in i..(RunEnd(m, i) - 1) : m[j] = CURRENT
         /\ RunEnd(m, i) < N => m[RunEnd(m, i)] # CURRENT
<1> DEFINE T == {e \in i..N : e < N => m[e] # CURRENT}
<1>1. T \in SUBSET Nat /\ T # {}
  <2>1. N \in T
    BY SectorAssumption
  <2>2. QED
    BY <2>1, SectorAssumption
<1> HIDE DEF T
<1>2. PICK e \in T : \A y \in T : e <= y
  BY <1>1, LeastNat
<1>3. /\ e \in i..N
      /\ \A j \in i..(e - 1) : m[j] = CURRENT
      /\ e < N => m[e] # CURRENT
  BY <1>2, SectorAssumption DEF T
<1>4. QED
  BY <1>3, Zenon DEF RunEnd

-----------------------------------------------------------------------------
(***************************************************************************)
(* The types of what is programmed and read.                               *)
(***************************************************************************)
LEMMA MarkFacts ==
  /\ OLD \in Marks /\ CURRENT \in Marks /\ FREE \in Marks
  /\ \A a, b \in Marks : AndMark(a, b) \in Marks
  /\ \A a, b \in Marks : AndMark(a, b) = FREE => a = FREE /\ b = FREE
BY DEF Marks, OLD, CURRENT, FREE, AndMark

LEMMA HeaderFacts ==
  /\ BlankHdr \in Headers /\ MixedHdr \in Headers
  /\ \A v \in Values : NewHdr(v) \in Headers
  /\ \A a, b \in Headers : AndHdr(a, b) \in Headers
BY DEF BlankHdr, MixedHdr, NewHdr, Headers, AndHdr, AndVal

LEMMA BodyFacts ==
  /\ BlankBody \in Bodies /\ MixedBody \in Bodies
  /\ \A v \in Values, p \in 0..N : Body(v, p) \in Bodies
  /\ \A a, b \in Bodies : AndBody(a, b) \in Bodies
BY SectorAssumption DEF BlankBody, MixedBody, Body, Bodies, AndBody

LEMMA SizesType ==
  ASSUME NEW h \in Headers
  PROVE  Sizes(h) \in SUBSET (1..N)
BY SectorAssumption DEF Headers, Sizes

LEMMA FileOfType ==
  ASSUME NEW v \in Values
  PROVE  Pages[v] \in 1..N /\ FileOf(v) \in Data(Pages[v])
<1>1. Pages[v] \in 1..N
  BY SectorAssumption
<1>2. \A p \in 0..(Pages[v] - 1) : Body(v, p) \in Bodies
  BY <1>1, BodyFacts, SectorAssumption
<1>3. QED
  BY <1>1, <1>2 DEF FileOf, Data

LEMMA PagesAtType ==
  ASSUME FlashOK, NEW i \in 0..N, NEW n \in 0..N
  PROVE  PagesAt(i, n) \in Data(n)
<1>1. \A p \in 0..(n - 1) : (IF i + p < N THEN dat[i + p] ELSE MixedBody) \in Bodies
  BY BodyFacts, SectorAssumption DEF FlashOK, Entries
<1>2. QED
  BY <1>1 DEF PagesAt, Data

LEMMA NoDataType == NoData \in Data(0)
BY SectorAssumption DEF NoData, Data

LEMMA NoFileType == NoFile \in FileImages(0)
BY NoDataType, HeaderFacts, SectorAssumption DEF NoFile, FileImages

LEMMA IdleType == idle \in ReaderStates(0)
BY NoDataType, HeaderFacts, SectorAssumption DEF idle, ReaderStates, Entries

\* What the driver leaves in the flash has the type of what was there.
LEMMA ProgramMapType ==
  ASSUME FlashOK, NEW new \in [Entries -> Marks],
         ProgramMap(new), UNCHANGED <<hdr, dat, crc>>
  PROVE  FlashOK'
BY MarkFacts DEF FlashOK, ProgramMap

LEMMA TearMapType ==
  ASSUME FlashOK, NEW new \in [Entries -> Marks], TearMap(new)
  PROVE  map' \in [Entries -> Marks]
<1> DEFINE changed == {i \in Entries : new[i] < map[i]}
<1>1. PICK part \in [changed -> Marks] :
        map' = [i \in Entries |-> IF i \in changed THEN part[i] ELSE map[i]]
  BY DEF TearMap
<1> HIDE DEF changed
<1>2. QED
  BY <1>1 DEF FlashOK

LEMMA ProgramPageType ==
  ASSUME FlashOK, NEW i, NEW h \in Headers, NEW b \in Bodies, ProgramPage(i, h, b)
  PROVE  hdr' \in [Entries -> Headers] /\ dat' \in [Entries -> Bodies]
BY HeaderFacts, BodyFacts DEF FlashOK, ProgramPage

LEMMA EraseType ==
  ASSUME FlashOK, EraseSector, crc' = crc
  PROVE  FlashOK'
BY MarkFacts, HeaderFacts, BodyFacts DEF FlashOK, EraseSector

LEMMA MapsType ==
  ASSUME FlashOK
  PROVE  GcMap \in [Entries -> Marks] /\ SaveMap \in [Entries -> Marks]
BY MarkFacts DEF FlashOK, GcMap, SaveMap

\* The page of the image that is programmed next.
LEMMA NextPageType ==
  ASSUME ImageOK, boot \in {"map", "pages"} \/ wpc # "idle"
  PROVE  /\ flashFile.next \in 0..(flashFile.len - 1)
         /\ flashFile.len \in 0..N
         /\ NextHdr \in Headers
         /\ NextBody \in Bodies
<1>1. PICK n \in 0..N : flashFile \in FileImages(n)
  BY DEF ImageOK
<1>2. flashFile.next \in 0..(flashFile.len - 1) /\ flashFile.len = n
  BY <1>1, SectorAssumption DEF ImageOK, FileImages
<1>3. NextHdr \in Headers
  BY <1>1, HeaderFacts DEF NextHdr, FileImages
<1>4. NextBody \in Bodies
  BY <1>1, <1>2 DEF NextBody, FileImages, Data
<1>5. QED
  BY <1>2, <1>3, <1>4

-----------------------------------------------------------------------------
(***************************************************************************)
(* Type correctness.  Phases is what makes it inductive: Save and the      *)
(* compaction share flashFile, and must not reset it under one another.    *)
(***************************************************************************)
TypeInv == TypeOK /\ Phases

LEMMA TypeInit == Init => TypeInv
<1> SUFFICES ASSUME Init PROVE TypeInv
  OBVIOUS
<1>1. FlashOK
  BY MarkFacts, HeaderFacts, BodyFacts, NoDataType, SectorAssumption DEF Init, FlashOK
<1>2. ControlOK
  BY DEF Init, ControlOK
<1>3. ImageOK
  <2>1. flashFile.head + flashFile.len <= N
    BY SectorAssumption DEF Init, NoFile
  <2>2. QED
    BY <2>1, NoFileType, SectorAssumption DEF Init, ImageOK
<1>4. ReadersOK
  BY IdleType, SectorAssumption DEF Init, ReadersOK
<1>5. Phases
  BY DEF Init, Phases
<1>6. QED
  BY <1>1, <1>2, <1>3, <1>4, <1>5 DEF TypeInv, TypeOK

\* The boot code and the writer leave the readers alone.
LEMMA ReadersKept ==
  ASSUME ReadersOK, UNCHANGED rd
  PROVE  ReadersOK'
BY DEF ReadersOK

LEMMA ImageKept ==
  ASSUME ImageOK, UNCHANGED <<flashFile, boot, wpc>>
  PROVE  ImageOK'
BY DEF ImageOK

LEMMA FlashKept ==
  ASSUME FlashOK, UNCHANGED <<flashVars, crc>>
  PROVE  FlashOK'
BY DEF FlashOK, flashVars

\* No image is in flight once Save or the compaction is over.
LEMMA ImageReset ==
  ASSUME flashFile' = NoFile, boot' \notin {"map", "pages"}, wpc' = "idle"
  PROVE  ImageOK' /\ flashFile'.head = 0
<1>1. flashFile'.head + flashFile'.len <= N
  BY SectorAssumption DEF NoFile
<1>2. QED
  BY <1>1, NoFileType, SectorAssumption DEF ImageOK, NoFile

\* A reset puts back everything but the flash.
LEMMA ResetType ==
  ASSUME Reset, map' \in [Entries -> Marks], hdr' \in [Entries -> Headers],
         dat' \in [Entries -> Bodies]
  PROVE  TypeInv'
<1>1. FlashOK'
  BY NoDataType, SectorAssumption DEF Reset, FlashOK
<1>2. ControlOK'
  BY DEF Reset, ControlOK
<1>3. ImageOK'
  BY ImageReset DEF Reset
<1>4. ReadersOK'
  BY IdleType, SectorAssumption DEF Reset, ReadersOK
<1>5. Phases'
  BY DEF Reset, Phases
<1>6. QED
  BY <1>1, <1>2, <1>3, <1>4, <1>5 DEF TypeInv, TypeOK

\* The control part of the compaction's programs, whether they succeed or not.
LEMMA GcMarkType ==
  ASSUME TypeInv, GcMarkDone, FlashOK'
  PROVE  TypeInv'
<1> USE DEF bootOnly
<1>1. ReadersOK'
  BY ReadersKept DEF TypeInv, TypeOK, GcMarkDone
<1>2. ControlOK'
  BY DEF TypeInv, TypeOK, ControlOK, GcMarkDone
<1>3. ImageOK'
  BY DEF TypeInv, TypeOK, ImageOK, GcMarkDone
<1>4. Phases'
  BY DEF TypeInv, Phases, GcMarkDone
<1>5. QED
  BY <1>1, <1>2, <1>3, <1>4 DEF TypeInv, TypeOK

LEMMA GcPageType ==
  ASSUME TypeInv, GcPageDone, FlashOK'
  PROVE  TypeInv'
<1> USE DEF bootOnly
<1>1. ReadersOK'
  BY ReadersKept DEF TypeInv, TypeOK, GcPageDone
<1>2. ControlOK'
  BY DEF TypeInv, TypeOK, ControlOK, GcPageDone
<1>3. wpc' = "idle"
  BY DEF TypeInv, Phases, GcPageDone
<1>4. CASE LastPage
  <2>1. boot' = "mirror" /\ flashFile' = NoFile
    BY <1>4 DEF GcPageDone
  <2>2. ImageOK'
    BY <2>1, <1>3, ImageReset
  <2>3. Phases'
    BY <2>1, <1>3 DEF Phases
  <2>4. QED
    BY <1>1, <1>2, <2>2, <2>3 DEF TypeInv, TypeOK
<1>5. CASE ~LastPage
  <2>1. boot' = boot /\ flashFile' = [flashFile EXCEPT !.next = @ + 1]
    BY <1>5 DEF GcPageDone
  <2>2. PICK n \in 0..N : flashFile \in FileImages(n)
    BY DEF TypeInv, TypeOK, ImageOK
  <2>3. flashFile.next \in 0..(n - 1) /\ flashFile.len = n
    BY <2>2, NextPageType DEF TypeInv, TypeOK, GcPageDone, FileImages
  <2>4. flashFile.next + 1 < n
    BY <1>5, <2>3, SectorAssumption DEF LastPage
  <2>5. flashFile' \in FileImages(n) /\ flashFile'.next < flashFile'.len
        /\ flashFile'.head = flashFile.head /\ flashFile'.len = flashFile.len
    BY <2>1, <2>2, <2>3, <2>4, SectorAssumption DEF FileImages
  <2>6. ImageOK'
    BY <2>5, <1>3 DEF TypeInv, TypeOK, ImageOK, Phases, GcPageDone
  <2>7. Phases'
    BY <2>1, <2>5, <1>3 DEF TypeInv, Phases, GcPageDone
  <2>8. QED
    BY FlashOK', <1>1, <1>2, <2>6, <2>7 DEF TypeInv, TypeOK
<1>6. QED
  BY <1>4, <1>5

LEMMA BootType ==
  ASSUME TypeInv, BootStep
  PROVE  TypeInv'
<1> USE DEF bootOnly
<1>1. CASE GcKeep \/ GcFail
  <2>1. FlashOK' /\ ReadersOK'
    BY <1>1, FlashKept, ReadersKept DEF TypeInv, TypeOK, GcKeep, GcFail
  <2>2. ControlOK'
    BY <1>1 DEF TypeInv, TypeOK, ControlOK, GcKeep, GcFail
  <2>3. ImageOK'
    BY <1>1 DEF TypeInv, TypeOK, Phases, ImageOK, GcKeep, GcFail
  <2>4. Phases'
    BY <1>1 DEF TypeInv, Phases, GcKeep, GcFail
  <2>5. QED
    BY <2>1, <2>2, <2>3, <2>4 DEF TypeInv, TypeOK
<1>2. CASE GcDiscard
  <2>1. FlashOK' /\ ReadersOK'
    BY <1>2, EraseType, ReadersKept DEF TypeInv, TypeOK, GcDiscard
  <2>2. ControlOK'
    BY <1>2 DEF TypeInv, TypeOK, ControlOK, GcDiscard
  <2>3. ImageOK'
    BY <1>2 DEF TypeInv, TypeOK, Phases, ImageOK, GcDiscard
  <2>4. Phases'
    BY <1>2 DEF TypeInv, Phases, GcDiscard
  <2>5. QED
    BY <2>1, <2>2, <2>3, <2>4 DEF TypeInv, TypeOK
<1>3. CASE GcErase
  <2>1. FlashOK' /\ ReadersOK'
    BY <1>3, EraseType, ReadersKept DEF TypeInv, TypeOK, GcErase
  <2>2. ControlOK'
    BY <1>3 DEF TypeInv, TypeOK, ControlOK, GcErase
  <2> DEFINE i == FirstLive(map)
  <2>3. i \in 0..N /\ i < N
    BY <1>3, FirstLiveFacts DEF GcErase, HasFile
  <2>4. hdr[i] \in Headers
    BY <2>3, SectorAssumption DEF TypeInv, TypeOK, FlashOK, Entries
  <2>5. PICK n \in Sizes(hdr[i]) :
          flashFile' = [hdr |-> hdr[i], data |-> PagesAt(i, n), len |-> n,
                        head |-> 0, next |-> 0]
    BY <1>3 DEF GcErase
  <2> HIDE DEF i
  <2>6. n \in 1..N /\ n \in 0..N
    BY <2>4, <2>5, SizesType, SectorAssumption
  <2>7. PagesAt(i, n) \in Data(n)
    BY <2>3, <2>6, PagesAtType DEF TypeInv, TypeOK
  <2>8. flashFile' \in FileImages(n)
    BY <2>4, <2>5, <2>6, <2>7, SectorAssumption DEF FileImages
  <2>9. ImageOK'
    BY <2>5, <2>6, <2>8, SectorAssumption DEF ImageOK
  <2>10. Phases'
    BY <1>3, <2>5 DEF TypeInv, Phases, GcErase
  <2>11. QED
    BY <2>1, <2>2, <2>9, <2>10 DEF TypeInv, TypeOK
<1>4. CASE GcMark
  <2>1. FlashOK'
    BY <1>4, ProgramMapType, MapsType DEF TypeInv, TypeOK, GcMark, GcMarkDone
  <2>2. QED
    BY <1>4, <2>1, GcMarkType DEF GcMark
<1>5. CASE GcPage
  <2>1. FlashOK'
    <3>1. NextHdr \in Headers /\ NextBody \in Bodies
      BY <1>5, NextPageType DEF TypeInv, TypeOK, GcPage, GcPageDone
    <3>2. hdr' \in [Entries -> Headers] /\ dat' \in [Entries -> Bodies]
      BY <1>5, <3>1, ProgramPageType DEF TypeInv, TypeOK, GcPage, GcPageDone, ProgramNextPage
    <3>3. QED
      BY <1>5, <3>2 DEF TypeInv, TypeOK, FlashOK, GcPage, GcPageDone, ProgramNextPage
  <2>2. QED
    BY <1>5, <2>1, GcPageType DEF GcPage
<1>6. CASE Mirror
  <2>1. FlashOK'
    <3> DEFINE i == FirstLive(map)
    <3>1. \E n \in 0..N : crc' \in Data(n)
      <4>1. ASSUME HasFile(map), NEW n \in Sizes(hdr[i]), crc' = PagesAt(i, n)
            PROVE  \E k \in 0..N : crc' \in Data(k)
        <5>1. i \in 0..N /\ i < N
          BY <4>1, FirstLiveFacts DEF HasFile
        <5>2. hdr[i] \in Headers
          BY <5>1, SectorAssumption DEF TypeInv, TypeOK, FlashOK, Entries
        <5> HIDE DEF i
        <5>3. n \in 0..N
          BY <4>1, <5>2, SizesType, SectorAssumption
        <5>4. QED
          BY <4>1, <5>1, <5>3, PagesAtType DEF TypeInv, TypeOK
      <4>2. CASE crc' = NoData
        BY <4>2, NoDataType, SectorAssumption
      <4>3. QED
        BY <1>6, <4>1, <4>2 DEF Mirror
    <3>2. QED
      BY <1>6, <3>1 DEF TypeInv, TypeOK, FlashOK, Mirror, flashVars
  <2>2. ControlOK' /\ ReadersOK'
    BY <1>6, ReadersKept DEF TypeInv, TypeOK, ControlOK, Mirror
  <2>3. ImageOK'
    BY <1>6 DEF TypeInv, TypeOK, Phases, ImageOK, Mirror
  <2>4. Phases'
    BY <1>6 DEF TypeInv, Phases, Mirror
  <2>5. QED
    BY <2>1, <2>2, <2>3, <2>4 DEF TypeInv, TypeOK
<1>7. QED
  BY <1>1, <1>2, <1>3, <1>4, <1>5, <1>6 DEF BootStep

\* The exits of Save.
LEMMA ReturnType ==
  ASSUME TypeInv, NEW status \in {"OK", "EOVERFLOW", "EOVERFLOW2", "EIO"},
         Return(status), wpc # "idle", FlashOK', UNCHANGED writerOnly
  PROVE  TypeInv'
<1>1. boot = "up" /\ boot' = "up"
  BY DEF TypeInv, Phases, writerOnly
<1>2. ControlOK' /\ ReadersOK'
  BY ReadersKept DEF TypeInv, TypeOK, ControlOK, Return, writerOnly
<1>3. ImageOK'
  BY <1>1, ImageReset DEF Return
<1>4. Phases'
  BY <1>1 DEF Phases, Return
<1>5. QED
  BY <1>2, <1>3, <1>4 DEF TypeInv, TypeOK

LEMMA SaveBeginDoneType ==
  ASSUME TypeInv, NEW v \in Values, SaveBeginDone(v), FlashOK'
  PROVE  TypeInv'
<1> DEFINE i == FirstLive(map)
<1>1. i \in 0..N
  BY FirstLiveFacts
<1>2. ControlOK' /\ ReadersOK'
  BY ReadersKept DEF TypeInv, TypeOK, ControlOK, SaveBeginDone, writerOnly
<1>3. flashFile' = [hdr |-> NewHdr(v), data |-> FileOf(v), len |-> Pages[v],
                    head |-> i, next |-> 0]
  BY DEF SaveBeginDone
<1> HIDE DEF i
<1>4. flashFile' \in FileImages(Pages[v]) /\ flashFile'.next < flashFile'.len
  BY <1>1, <1>3, FileOfType, HeaderFacts, SectorAssumption DEF FileImages
<1>5. ImageOK'
  <2>1. Pages[v] \in 0..N
    BY FileOfType, SectorAssumption
  <2>2. QED
    BY <1>4, <2>1 DEF ImageOK, SaveBeginDone
<1>6. Phases'
  BY <1>3 DEF TypeInv, Phases, SaveBeginDone, writerOnly
<1>7. QED
  BY <1>2, <1>5, <1>6 DEF TypeInv, TypeOK

LEMMA SaveBeginType ==
  ASSUME TypeInv, NEW v \in Values, SaveBegin(v)
  PROVE  TypeInv'
<1>1. \A h \in Headers : [h EXCEPT !.valid = FALSE] \in Headers
  BY DEF Headers
<1>2. hdr' \in [Entries -> Headers]
  BY <1>1, HeaderFacts DEF TypeInv, TypeOK, FlashOK, SaveBegin
<1>3. FlashOK'
  BY <1>2 DEF TypeInv, TypeOK, FlashOK, SaveBegin, SaveBeginDone
<1>4. QED
  BY <1>3, SaveBeginDoneType DEF SaveBegin

LEMMA SaveMarkType ==
  ASSUME TypeInv, SaveMarkDone, FlashOK'
  PROVE  TypeInv'
<1>1. ReadersOK'
  BY ReadersKept DEF TypeInv, TypeOK, SaveMarkDone, writerOnly
<1>2. ControlOK'
  BY DEF TypeInv, TypeOK, ControlOK, SaveMarkDone, writerOnly
<1>3. PICK n \in 0..N : flashFile \in FileImages(n)
  BY DEF TypeInv, TypeOK, ImageOK
<1>4. NewHead \in 0..N
  <2>1. flashFile.head \in 0..N
    BY <1>3 DEF FileImages
  <2>2. NewHead \in flashFile.head..N
    BY <2>1, RunEndFacts DEF NewHead
  <2>3. QED
    BY <2>1, <2>2, SectorAssumption
<1>5. /\ flashFile' \in FileImages(n)
      /\ flashFile'.head = NewHead
      /\ flashFile'.len = flashFile.len
      /\ flashFile'.next = flashFile.next
  BY <1>3, <1>4 DEF SaveMarkDone, FileImages
<1>6. ImageOK'
  BY <1>5 DEF TypeInv, TypeOK, ImageOK, SaveMarkDone, Fits, writerOnly
<1>7. Phases'
  BY <1>5 DEF TypeInv, Phases, SaveMarkDone, writerOnly
<1>8. QED
  BY <1>1, <1>2, <1>6, <1>7 DEF TypeInv, TypeOK

LEMMA SaveType ==
  ASSUME TypeInv, SaveStep
  PROVE  TypeInv'
<1>1. CASE SaveOverflow
  <2>1. FlashOK'
    BY <1>1, FlashKept DEF TypeInv, TypeOK, SaveOverflow
  <2>2. QED
    BY <1>1, <2>1, ReturnType DEF SaveOverflow
<1>2. CASE SaveMark
  <2>1. FlashOK'
    BY <1>2, ProgramMapType, MapsType DEF TypeInv, TypeOK, SaveMark, SaveMarkDone
  <2>2. QED
    BY <1>2, <2>1, SaveMarkType DEF SaveMark
<1>3. CASE SaveBuild
  <2>1. \E n \in 0..N : flashFile.data \in Data(n)
    BY DEF TypeInv, TypeOK, ImageOK, FileImages
  <2>2. FlashOK'
    BY <1>3, <2>1 DEF TypeInv, TypeOK, FlashOK, SaveBuild, flashVars
  <2>3. ControlOK' /\ ReadersOK'
    BY <1>3, ReadersKept DEF TypeInv, TypeOK, ControlOK, SaveBuild, writerOnly
  <2>4. ImageOK' /\ Phases'
    BY <1>3 DEF TypeInv, TypeOK, ImageOK, Phases, SaveBuild, writerOnly
  <2>5. QED
    BY <2>2, <2>3, <2>4 DEF TypeInv, TypeOK
<1>4. CASE SavePage
  <2>1. FlashOK'
    <3>1. NextHdr \in Headers /\ NextBody \in Bodies
      BY <1>4, NextPageType DEF TypeInv, TypeOK, SavePage
    <3>2. hdr' \in [Entries -> Headers] /\ dat' \in [Entries -> Bodies]
      BY <1>4, <3>1, ProgramPageType DEF TypeInv, TypeOK, SavePage, ProgramNextPage
    <3>3. QED
      BY <1>4, <3>2 DEF TypeInv, TypeOK, FlashOK, SavePage, ProgramNextPage
  <2>2. CASE LastPage
    <3>1. Return("OK") /\ wpc # "idle" /\ UNCHANGED writerOnly
      BY <1>4, <2>2 DEF SavePage
    <3>2. QED
      BY <2>1, <3>1, ReturnType
  <2>3. CASE ~LastPage
    <3>1. flashFile' = [flashFile EXCEPT !.next = @ + 1] /\ UNCHANGED <<wpc, lock, wres>>
      BY <1>4, <2>3 DEF SavePage
    <3>2. PICK n \in 0..N : flashFile \in FileImages(n)
      BY DEF TypeInv, TypeOK, ImageOK
    <3>3. flashFile.next \in 0..(n - 1) /\ flashFile.len = n
      BY <1>4, <3>2, NextPageType DEF TypeInv, TypeOK, SavePage, FileImages
    <3>4. flashFile.next + 1 < n
      BY <2>3, <3>3, SectorAssumption DEF LastPage
    <3>5. flashFile' \in FileImages(n) /\ flashFile'.next < flashFile'.len
          /\ flashFile'.head = flashFile.head /\ flashFile'.len = flashFile.len
      BY <3>1, <3>2, <3>3, <3>4, SectorAssumption DEF FileImages
    <3>6. ImageOK'
      BY <1>4, <3>1, <3>5 DEF TypeInv, TypeOK, ImageOK, SavePage, writerOnly
    <3>7. Phases'
      BY <1>4, <3>1, <3>5 DEF TypeInv, Phases, SavePage, writerOnly
    <3>8. ControlOK' /\ ReadersOK'
      BY <1>4, <3>1, ReadersKept DEF TypeInv, TypeOK, ControlOK, SavePage, writerOnly
    <3>9. QED
      BY <2>1, <3>6, <3>7, <3>8 DEF TypeInv, TypeOK
  <2>4. QED
    BY <2>2, <2>3
<1>5. CASE SaveFail
  <2>1. FlashOK'
    BY <1>5, FlashKept DEF TypeInv, TypeOK, SaveFail
  <2>2. QED
    BY <1>5, <2>1, ReturnType DEF SaveFail
<1>6. QED
  BY <1>1, <1>2, <1>3, <1>4, <1>5 DEF SaveStep

\* A refused Save and an Erase move no image.
LEMMA EraseStepType ==
  ASSUME TypeInv, SaveRefused \/ Erase
  PROVE  TypeInv'
<1>1. FlashOK'
  BY EraseType, FlashKept DEF TypeInv, TypeOK, SaveRefused, Erase
<1>2. ControlOK' /\ ReadersOK'
  BY ReadersKept DEF TypeInv, TypeOK, ControlOK, SaveRefused, Erase, writerOnly
<1>3. ImageOK' /\ Phases'
  BY DEF TypeInv, TypeOK, ImageOK, Phases, SaveRefused, Erase, writerOnly
<1>4. QED
  BY <1>1, <1>2, <1>3 DEF TypeInv, TypeOK

\* The states a reader enters from idle.
LEMMA FromIdleType ==
  ASSUME NEW op \in {"Read", "ReadDataPtr"}
  PROVE  /\ \A i \in Entries :
              [idle EXCEPT !.pc = "header", !.op = op, !.head = i] \in ReaderStates(0)
         /\ \A status \in {"ENOENTRY2", "ENOENTRY3"} :
              [idle EXCEPT !.op = op, !.status = status] \in ReaderStates(0)
<1>1. 0 \in Entries
  BY SectorAssumption DEF Entries
<1>2. QED
  BY <1>1, NoDataType, HeaderFacts DEF idle, ReaderStates

LEMMA AnswerType ==
  ASSUME NEW op \in {"Read", "ReadDataPtr"}, NEW status \in {"OK", "EENCRYPT", "EENCRYPT2"},
         NEW n \in 0..N, NEW buf \in Data(n)
  PROVE  [idle EXCEPT !.op = op, !.status = status, !.buf = buf] \in ReaderStates(n)
<1>1. 0 \in Entries
  BY SectorAssumption DEF Entries
<1>2. QED
  BY <1>1, HeaderFacts DEF idle, ReaderStates

\* A reader changes nothing but its own locals and the lock.
LEMMA ReaderType ==
  ASSUME TypeInv, NEW r \in Readers,
         (\E op \in {"Read", "ReadDataPtr"} : ReadBegin(r, op)) \/ ReadStep(r)
  PROVE  TypeInv'
<1>1. UNCHANGED readerOnly
  BY DEF ReadBegin, ReadStep, ReadHeader, ReadCopy, ReadCheck, ReadFail
<1>2. FlashOK' /\ ImageOK' /\ Phases'
  BY <1>1, FlashKept, ImageKept DEF TypeInv, TypeOK, Phases, readerOnly
<1>3. lock' \in {lock, r, NoTask}
  BY DEF ReadBegin, ReadStep, ReadHeader, ReadCopy, ReadCheck, ReadFail
<1>4. ControlOK'
  BY <1>1, <1>3 DEF TypeInv, TypeOK, ControlOK, readerOnly
<1>5. PICK m \in 0..N : rd[r] \in ReaderStates(m)
  BY DEF TypeInv, TypeOK, ReadersOK
<1>6. ASSUME NEW n \in 0..N, NEW new \in ReaderStates(n), rd' = [rd EXCEPT ![r] = new]
      PROVE  ReadersOK'
  BY <1>6 DEF TypeInv, TypeOK, ReadersOK
<1>7. ASSUME NEW status \in {"OK", "EENCRYPT", "EENCRYPT2"}, NEW n \in 0..N, NEW buf \in Data(n),
             Answer(r, status, buf)
      PROVE  ReadersOK'
  <2>1. rd[r].op \in {"Read", "ReadDataPtr"}
    BY <1>5 DEF ReaderStates
  <2>2. [idle EXCEPT !.op = rd[r].op, !.status = status, !.buf = buf] \in ReaderStates(n)
    BY <1>7, <2>1, AnswerType
  <2>3. QED
    BY <1>6, <1>7, <2>2 DEF Answer
<1>8. \A n \in Sizes(rd[r].hdr) : n \in 0..N /\ PagesAt(rd[r].head, n) \in Data(n)
  <2>1. rd[r].hdr \in Headers /\ rd[r].head \in 0..N
    BY <1>5, SectorAssumption DEF ReaderStates, Entries
  <2>2. Sizes(rd[r].hdr) \in SUBSET (0..N)
    BY <2>1, SizesType, SectorAssumption
  <2>3. QED
    BY <2>1, <2>2, PagesAtType DEF TypeInv, TypeOK
<1>9. ReadersOK'
  <2>1. ASSUME NEW op \in {"Read", "ReadDataPtr"}, ReadBegin(r, op)
        PROVE  ReadersOK'
    <3>0. 0 \in 0..N
      BY SectorAssumption
    <3>1. CASE HasFile(map)
      <4>1. FirstLive(map) \in Entries
        BY <3>1, FirstLiveFacts, SectorAssumption DEF HasFile, Entries
      <4>2. [idle EXCEPT !.pc = "header", !.op = op, !.head = FirstLive(map)] \in ReaderStates(0)
        BY <4>1, FromIdleType
      <4>3. rd' = [rd EXCEPT ![r] = [idle EXCEPT !.pc = "header", !.op = op,
                                                  !.head = FirstLive(map)]]
        BY <2>1, <3>1 DEF ReadBegin
      <4>4. QED
        BY <1>6, <3>0, <4>2, <4>3
    <3>2. CASE ~HasFile(map)
      <4>1. PICK status \in {"ENOENTRY2", "ENOENTRY3"} :
              rd' = [rd EXCEPT ![r] = [idle EXCEPT !.op = op, !.status = status]]
        BY <2>1, <3>2 DEF ReadBegin
      <4>2. [idle EXCEPT !.op = op, !.status = status] \in ReaderStates(0)
        BY <4>1, FromIdleType
      <4>3. QED
        BY <1>6, <3>0, <4>1, <4>2
    <3>3. QED
      BY <3>1, <3>2
  <2>2. CASE ReadHeader(r)
    <3>1. hdr[rd[r].head] \in Headers
      BY <1>5 DEF TypeInv, TypeOK, FlashOK, ReaderStates
    <3>2. PICK pc \in {"copy", "check"} :
            rd' = [rd EXCEPT ![r].hdr = hdr[rd[r].head], ![r].pc = pc]
      BY <2>2 DEF ReadHeader
    <3>3. rd' = [rd EXCEPT ![r] = [rd[r] EXCEPT !.hdr = hdr[rd[r].head], !.pc = pc]]
      BY <3>2 DEF TypeInv, TypeOK, ReadersOK
    <3>4. [rd[r] EXCEPT !.hdr = hdr[rd[r].head], !.pc = pc] \in ReaderStates(m)
      BY <1>5, <3>1, <3>2 DEF ReaderStates
    <3>5. QED
      BY <1>6, <3>3, <3>4
  <2>3. CASE ReadCopy(r)
    <3>1. PICK n \in Sizes(rd[r].hdr) :
            rd' = [rd EXCEPT ![r].buf = PagesAt(rd[r].head, n), ![r].pc = "check"]
      BY <2>3 DEF ReadCopy
    <3>2. rd' = [rd EXCEPT ![r] = [rd[r] EXCEPT !.buf = PagesAt(rd[r].head, n), !.pc = "check"]]
      BY <3>1 DEF TypeInv, TypeOK, ReadersOK
    <3>3. [rd[r] EXCEPT !.buf = PagesAt(rd[r].head, n), !.pc = "check"] \in ReaderStates(n)
      BY <1>5, <1>8, <3>1 DEF ReaderStates
    <3>4. QED
      BY <1>6, <1>8, <3>1, <3>2, <3>3
  <2>4. CASE ReadCheck(r)
    <3>1. PICK n \in Sizes(rd[r].hdr) :
            Answer(r, IF CrcOk(rd[r].hdr, PagesAt(rd[r].head, n)) THEN "OK" ELSE "EENCRYPT2",
                      IF rd[r].op = "Read" THEN rd[r].buf ELSE PagesAt(rd[r].head, n))
      BY <2>4 DEF ReadCheck
    <3>2. rd[r].buf \in Data(m)
      BY <1>5 DEF ReaderStates
    <3>3. QED
      BY <1>7, <1>8, <3>1, <3>2
  <2>5. CASE ReadFail(r)
    <3>1. Answer(r, "EENCRYPT", NoData)
      BY <2>5 DEF ReadFail
    <3>2. QED
      BY <1>7, <3>1, NoDataType, SectorAssumption
  <2>6. QED
    BY <2>1, <2>2, <2>3, <2>4, <2>5 DEF ReadStep
<1>10. QED
  BY <1>2, <1>4, <1>9 DEF TypeInv, TypeOK

LEMMA PowerType ==
  ASSUME TypeInv, PowerLoss \/ TornMap \/ TornPage
  PROVE  TypeInv'
<1>1. CASE PowerLoss
  BY <1>1, ResetType DEF TypeInv, TypeOK, FlashOK, PowerLoss, flashVars
<1>2. CASE TornMap
  <2>1. map' \in [Entries -> Marks]
    BY <1>2, TearMapType, MapsType DEF TypeInv, TypeOK, TornMap
  <2>2. QED
    BY <1>2, <2>1, ResetType DEF TypeInv, TypeOK, FlashOK, TornMap
<1>3. CASE TornPage
  <2>1. hdr' \in [Entries -> Headers] /\ dat' \in [Entries -> Bodies]
    BY <1>3, HeaderFacts, BodyFacts, ProgramPageType DEF TypeInv, TypeOK, TornPage
  <2>2. QED
    BY <1>3, <2>1, ResetType DEF TypeInv, TypeOK, FlashOK, TornPage
<1>4. QED
  BY <1>1, <1>2, <1>3

LEMMA LostType ==
  ASSUME TypeInv, LostProgram
  PROVE  TypeInv'
<1>1. FlashOK'
  <2>1. UNCHANGED <<flashVars, crc>>
    BY DEF LostProgram, GcMarkDone, GcPageDone, SaveMarkDone, SaveBeginDone, bootOnly
  <2>2. QED
    BY <2>1, FlashKept DEF TypeInv, TypeOK
<1>2. QED
  BY <1>1, GcMarkType, GcPageType, SaveMarkType, SaveBeginDoneType DEF LostProgram

LEMMA TypeStep == TypeInv /\ [Next]_vars => TypeInv'
<1> SUFFICES ASSUME TypeInv, [Next]_vars PROVE TypeInv'
  OBVIOUS
<1>1. CASE UNCHANGED vars
  <2>1. FlashOK' /\ ControlOK' /\ ImageOK' /\ ReadersOK'
    BY <1>1, FlashKept, ImageKept, ReadersKept DEF TypeInv, TypeOK, ControlOK, vars, flashVars
  <2>2. QED
    BY <1>1, <2>1 DEF TypeInv, TypeOK, Phases, vars
<1>2. CASE Next
  BY <1>2, BootType, SaveBeginType, SaveType, EraseStepType, ReaderType, PowerType, LostType
     DEF Next, CheckedNext
<1>3. QED
  BY <1>1, <1>2

LEMMA TypeInvariant == Spec => []TypeInv
BY TypeInit, TypeStep, PTL DEF Spec

\* Every variable keeps its type, in particular: no page is programmed beyond
\* the sector by any Save, compaction or torn program, whatever the sizes are.
THEOREM TypeCorrect == Spec => []TypeOK
<1>1. TypeInv => TypeOK
  BY DEF TypeInv
<1>2. QED
  BY <1>1, TypeInvariant, PTL

-----------------------------------------------------------------------------
(***************************************************************************)
(* Free pages are erased.  ImageMarked is what makes it inductive: a page  *)
(* is programmed only after its map entry, also across a torn program.     *)
(***************************************************************************)
BlankInv == FreeIsBlank /\ ImageMarked

LEMMA ProgramMapBlank ==
  ASSUME FlashOK, FreeIsBlank, NEW new \in [Entries -> Marks],
         ProgramMap(new), UNCHANGED <<hdr, dat>>
  PROVE  FreeIsBlank'
BY MarkFacts DEF FlashOK, FreeIsBlank, ProgramMap

LEMMA TearMapBlank ==
  ASSUME FlashOK, FreeIsBlank, NEW new \in [Entries -> Marks],
         TearMap(new), UNCHANGED <<hdr, dat>>
  PROVE  FreeIsBlank'
<1> DEFINE changed == {i \in Entries : new[i] < map[i]}
<1>1. PICK part \in [changed -> Marks] :
        /\ \A i \in changed : part[i] \in new[i]..map[i]
        /\ map' = [i \in Entries |-> IF i \in changed THEN part[i] ELSE map[i]]
  BY DEF TearMap
<1>2. \A i \in Entries : map'[i] = FREE => map[i] = FREE
  <2>1. \A i \in changed : part[i] = FREE => map[i] = FREE
    BY <1>1 DEF FlashOK, Marks, OLD, FREE
  <2> HIDE DEF changed
  <2>2. QED
    BY <1>1, <2>1
<1>3. QED
  BY <1>2 DEF FreeIsBlank

LEMMA ProgramPageBlank ==
  ASSUME FlashOK, FreeIsBlank, NEW i, NEW h, NEW b, map[i] # FREE,
         ProgramPage(i, h, b), UNCHANGED map
  PROVE  FreeIsBlank'
BY DEF FlashOK, FreeIsBlank, ProgramPage

LEMMA EraseBlank == EraseSector => FreeIsBlank'
BY DEF EraseSector, FreeIsBlank

LEMMA NextPageMarked ==
  ASSUME TypeInv, ImageMarked, boot = "pages" \/ wpc = "write"
  PROVE  map[NextPage] # FREE
BY NextPageType DEF TypeInv, TypeOK, ImageMarked, NextPage

LEMMA BlankInit == Init => BlankInv
BY DEF Init, BlankInv, FreeIsBlank, ImageMarked

\* With map and image kept, or the image gone, ImageMarked stays.
LEMMA MarkedKept ==
  ASSUME ImageMarked, UNCHANGED map,
         \/ boot' # "pages" /\ wpc' \notin {"build", "write"}
         \/ /\ boot = "pages" \/ wpc \in {"build", "write"}
            /\ flashFile'.head = flashFile.head
            /\ flashFile'.len = flashFile.len
  PROVE  ImageMarked'
BY DEF ImageMarked

LEMMA BlankBoot ==
  ASSUME TypeInv, BlankInv, BootStep
  PROVE  BlankInv'
<1> USE DEF bootOnly, flashVars
<1>0. wpc = "idle" /\ wpc' = "idle"
  BY DEF TypeInv, Phases, BootStep, GcKeep, GcDiscard, GcErase, GcFail, GcMark, GcMarkDone, GcPage, GcPageDone, Mirror
<1>1. CASE GcKeep \/ GcFail \/ Mirror
  BY <1>0, <1>1 DEF BlankInv, FreeIsBlank, ImageMarked, GcKeep, GcFail, Mirror
<1>2. CASE GcDiscard \/ GcErase
  BY <1>0, <1>2, EraseBlank DEF BlankInv, ImageMarked, GcDiscard, GcErase
<1>3. CASE GcMark
  <2>1. FreeIsBlank'
    BY <1>3, MapsType, ProgramMapBlank DEF TypeInv, TypeOK, BlankInv, GcMark, GcMarkDone
  <2>2. flashFile.len \in 0..N /\ flashFile.head = 0
    BY <1>3, NextPageType DEF TypeInv, TypeOK, Phases, GcMark, GcMarkDone
  <2>3. \A p \in 0..(flashFile.len - 1) : p \in Entries /\ GcMap[p] = CURRENT
    BY <2>2, SectorAssumption DEF GcMap, Entries
  <2>4. \A p \in 0..(flashFile.len - 1) : map'[p] # FREE
    <3>1. \A p \in Entries : map'[p] = AndMark(map[p], GcMap[p]) /\ map[p] \in Marks
      BY <1>3 DEF GcMark, GcMarkDone, ProgramMap, TypeInv, TypeOK, FlashOK
    <3>2. \A a \in Marks : AndMark(a, CURRENT) # FREE
      BY DEF AndMark, CURRENT, FREE, Marks
    <3>3. QED
      BY <2>3, <3>1, <3>2
  <2>5. \A p \in 0..(flashFile.len - 1) : 0 + p = p
    BY <2>2
  <2>6. ImageMarked'
    BY <1>3, <2>2, <2>4, <2>5 DEF ImageMarked, GcMark, GcMarkDone
  <2>7. QED
    BY <2>1, <2>6 DEF BlankInv
<1>4. CASE GcPage
  <2>1. FreeIsBlank'
    BY <1>4, NextPageMarked, ProgramPageBlank
    DEF TypeInv, TypeOK, BlankInv, GcPage, GcPageDone, ProgramNextPage
  <2>2. ImageMarked'
    <3>1. boot = "pages" /\ UNCHANGED map
      BY <1>4 DEF GcPage, GcPageDone, ProgramNextPage
    <3>2. CASE LastPage
      BY <1>0, <1>4, <3>1, <3>2, MarkedKept DEF BlankInv, GcPage, GcPageDone
    <3>3. CASE ~LastPage
      <4>1. flashFile'.head = flashFile.head /\ flashFile'.len = flashFile.len
        BY <1>4, <3>3 DEF GcPage, GcPageDone, TypeInv, TypeOK, ImageOK, FileImages
      <4>2. QED
        BY <3>1, <4>1, MarkedKept DEF BlankInv
    <3>4. QED
      BY <3>2, <3>3
  <2>3. QED
    BY <2>1, <2>2 DEF BlankInv
<1>5. QED
  BY <1>1, <1>2, <1>3, <1>4 DEF BootStep

\* Where Save puts the file's pages.
LEMMA NewHeadType ==
  ASSUME TypeInv
  PROVE  /\ flashFile.head \in 0..N
         /\ flashFile.len \in 0..N
         /\ NewHead \in flashFile.head..N
<1>1. flashFile.head \in 0..N /\ flashFile.len \in 0..N
  BY DEF TypeInv, TypeOK, ImageOK, FileImages
<1>2. QED
  BY <1>1, RunEndFacts DEF NewHead

\* The run SaveMap marks for the new file.
LEMMA SaveMapRun ==
  ASSUME TypeInv, Fits, NEW p \in 0..(flashFile.len - 1)
  PROVE  NewHead + p \in Entries /\ SaveMap[NewHead + p] = CURRENT
<1>1. NewHead + p \in Entries
  BY NewHeadType, SectorAssumption DEF Fits, Entries
<1>2. NewHead + p \notin flashFile.head..(NewHead - 1)
  BY NewHeadType
<1>3. NewHead + p \in NewHead..(NewHead + flashFile.len - 1)
  BY NewHeadType
<1>4. QED
  BY <1>1, <1>2, <1>3 DEF SaveMap

LEMMA BlankSave ==
  ASSUME TypeInv, BlankInv, SaveStep
  PROVE  BlankInv'
<1> USE DEF writerOnly, flashVars
<1>0. boot = "up" /\ boot' = "up"
  BY DEF TypeInv, Phases, SaveStep, SaveOverflow, SaveMark, SaveMarkDone, SaveBuild, SavePage, SaveFail
<1>1. CASE SaveOverflow \/ SaveFail
  BY <1>0, <1>1 DEF BlankInv, FreeIsBlank, ImageMarked, SaveOverflow, SaveFail, Return
<1>2. CASE SaveMark
  <2>1. FreeIsBlank'
    BY <1>2, MapsType, ProgramMapBlank DEF TypeInv, TypeOK, BlankInv, SaveMark, SaveMarkDone
  <2>2. \A p \in 0..(flashFile.len - 1) : map'[NewHead + p] # FREE
    <3>1. \A q \in Entries : map'[q] = AndMark(map[q], SaveMap[q]) /\ map[q] \in Marks
      BY <1>2 DEF SaveMark, SaveMarkDone, ProgramMap, TypeInv, TypeOK, FlashOK
    <3>2. \A a \in Marks : AndMark(a, CURRENT) # FREE
      BY DEF AndMark, CURRENT, FREE, Marks
    <3>3. Fits
      BY <1>2 DEF SaveMark, SaveMarkDone
    <3>4. QED
      BY <3>1, <3>2, <3>3, SaveMapRun
  <2>3. flashFile'.head = NewHead /\ flashFile'.len = flashFile.len
    BY <1>2 DEF SaveMark, SaveMarkDone, TypeInv, TypeOK, ImageOK, FileImages
  <2>4. ImageMarked'
    BY <2>2, <2>3 DEF ImageMarked
  <2>5. QED
    BY <2>1, <2>4 DEF BlankInv
<1>3. CASE SaveBuild
  BY <1>0, <1>3 DEF BlankInv, FreeIsBlank, ImageMarked, SaveBuild
<1>4. CASE SavePage
  <2>1. FreeIsBlank'
    BY <1>4, NextPageMarked, ProgramPageBlank
    DEF TypeInv, TypeOK, BlankInv, SavePage, ProgramNextPage
  <2>2. ImageMarked'
    <3>1. wpc = "write" /\ UNCHANGED map
      BY <1>4 DEF SavePage, ProgramNextPage
    <3>2. CASE LastPage
      BY <1>0, <1>4, <3>1, <3>2, MarkedKept DEF BlankInv, SavePage, Return
    <3>3. CASE ~LastPage
      <4>1. flashFile'.head = flashFile.head /\ flashFile'.len = flashFile.len
        BY <1>4, <3>3 DEF SavePage, TypeInv, TypeOK, ImageOK, FileImages
      <4>2. QED
        BY <3>1, <4>1, MarkedKept DEF BlankInv
    <3>4. QED
      BY <3>2, <3>3
  <2>3. QED
    BY <2>1, <2>2 DEF BlankInv
<1>5. QED
  BY <1>1, <1>2, <1>3, <1>4 DEF SaveStep

\* Finding the current file for a Save changes its header alone.
LEMMA BlankSaveBegin ==
  ASSUME TypeInv, BlankInv, NEW v \in Values, SaveBegin(v)
  PROVE  BlankInv'
<1>1. ImageMarked'
  BY DEF ImageMarked, SaveBegin, SaveBeginDone, writerOnly
<1>2. ASSUME NEW i \in Entries, map'[i] = FREE
      PROVE  hdr'[i] = BlankHdr /\ dat'[i] = BlankBody
  <2>1. hdr[i] = BlankHdr /\ dat[i] = BlankBody /\ map[i] = FREE
    BY <1>2 DEF BlankInv, FreeIsBlank, SaveBegin, SaveBeginDone
  <2>2. HasFile(map) => map[FirstLive(map)] # FREE
    BY DEF HasFile, CURRENT, FREE
  <2>3. QED
    BY <2>1, <2>2 DEF SaveBegin, SaveBeginDone, TypeInv, TypeOK, FlashOK
<1>3. QED
  BY <1>1, <1>2 DEF BlankInv, FreeIsBlank

LEMMA BlankStep == TypeInv /\ BlankInv /\ [CheckedNext]_vars => BlankInv'
<1> SUFFICES ASSUME TypeInv, BlankInv, [CheckedNext]_vars PROVE BlankInv'
  OBVIOUS
<1>1. CASE UNCHANGED vars
  BY <1>1 DEF BlankInv, FreeIsBlank, ImageMarked, vars
<1>2. ASSUME NEW v \in Values, SaveBegin(v) PROVE BlankInv'
  BY <1>2, BlankSaveBegin
<1>3. CASE SaveRefused
  BY <1>3 DEF BlankInv, FreeIsBlank, ImageMarked, SaveRefused, flashVars, writerOnly
<1>4. CASE Erase
  <2>1. FreeIsBlank'
    BY <1>4, EraseBlank DEF BlankInv, FreeIsBlank, Erase, flashVars
  <2>2. ImageMarked'
    BY <1>4 DEF ImageMarked, Erase, writerOnly
  <2>3. QED
    BY <2>1, <2>2 DEF BlankInv
<1>5. ASSUME NEW r \in Readers,
             (\E op \in {"Read", "ReadDataPtr"} : ReadBegin(r, op)) \/ ReadStep(r)
      PROVE  BlankInv'
  <2>1. UNCHANGED readerOnly
    BY <1>5 DEF ReadBegin, ReadStep, ReadHeader, ReadCopy, ReadCheck, ReadFail
  <2>2. QED
    BY <2>1 DEF BlankInv, FreeIsBlank, ImageMarked, readerOnly, flashVars
<1>6. CASE PowerLoss
  BY <1>6 DEF BlankInv, FreeIsBlank, ImageMarked, PowerLoss, Reset, flashVars
<1>7. CASE TornMap
  <2>1. FreeIsBlank'
    BY <1>7, MapsType, TearMapBlank DEF TypeInv, TypeOK, BlankInv, TornMap
  <2>2. QED
    BY <1>7, <2>1 DEF BlankInv, ImageMarked, TornMap, Reset
<1>8. CASE TornPage
  <2>1. FreeIsBlank'
    BY <1>8, NextPageMarked, ProgramPageBlank DEF TypeInv, TypeOK, BlankInv, TornPage
  <2>2. QED
    BY <1>8, <2>1 DEF BlankInv, ImageMarked, TornPage, Reset
<1>9. QED
  BY <1>1, <1>2, <1>3, <1>4, <1>5, <1>6, <1>7, <1>8, BlankBoot, BlankSave DEF CheckedNext

LEMMA Checked ==
  ~LostPrograms => (Next <=> CheckedNext)
BY DEF Next, LostProgram

\* As long as every failing program is noticed, a page whose map entry is FREE
\* is erased, whatever else fails and wherever the power is lost, torn map
\* programs included: the next Save programs its file over nothing.
THEOREM FreePagesErased ==
  ASSUME ~LostPrograms
  PROVE  Spec => []FreeIsBlank
<1>1. BlankInv => FreeIsBlank
  BY DEF BlankInv
<1>2. [Next]_vars => [CheckedNext]_vars
  BY Checked
<1>3. QED
  BY <1>1, <1>2, TypeInvariant, BlankInit, BlankStep, PTL DEF Spec

-----------------------------------------------------------------------------
(***************************************************************************)
(* The layout of the sector while map programs are whole.                  *)
(***************************************************************************)
MapInv == WholeMarks /\ MapShape /\ SomeLive /\ Layout

LayoutInv == MapInv /\ RestBlank

LEMMA FirstLiveFound ==
  ASSUME SomeLive
  PROVE  FirstLive(map) \in Entries /\ Live(map, FirstLive(map))
<1>1. PICK i \in Entries : Live(map, i)
  BY DEF SomeLive
<1>2. i \notin 0..(FirstLive(map) - 1)
  BY <1>1, FirstLiveFacts
<1>3. FirstLive(map) < N
  BY <1>2, FirstLiveFacts, SectorAssumption DEF Entries
<1>4. QED
  BY <1>3, FirstLiveFacts, SectorAssumption DEF Entries

\* An erased sector, and one the compaction has just marked.
LEMMA EraseLayout ==
  ASSUME \A i \in Entries : map'[i] = FREE, map' \in [Entries -> Marks]
  PROVE  WholeMarks' /\ MapShape' /\ SomeLive'
<1>1. 0 \in Entries
  BY SectorAssumption DEF Entries
<1>2. SomeLive'
  BY <1>1 DEF SomeLive, Live
<1>3. MapShape'
  BY DEF MapShape, FREE
<1>4. QED
  BY <1>2, <1>3 DEF WholeMarks

\* When Save has room for the file, the map is split by the head of the
\* current run and the head of the new one.
LEMMA SaveRoom ==
  ASSUME TypeInv, MapInv, wpc = "mark", Fits
  PROVE  /\ flashFile.head \in 0..N /\ NewHead \in flashFile.head..N
         /\ NewHead < N
         /\ \A j \in Entries : /\ j < flashFile.head => map[j] = OLD
                               /\ flashFile.head <= j /\ j < NewHead => map[j] = CURRENT
                               /\ NewHead <= j => map[j] = FREE
<1> DEFINE h == flashFile.head
           e == NewHead
<1>1. h \in 0..N /\ e \in h..N /\ flashFile.len \in 0..N
  BY NewHeadType
<1>2. flashFile.next = 0 /\ flashFile.next < flashFile.len
  BY DEF TypeInv, TypeOK, ImageOK, Phases
<1>3. e < N
  BY <1>1, <1>2, SectorAssumption DEF Fits
<1>4. h = FirstLive(map) /\ h \in Entries /\ Live(map, h)
  BY FirstLiveFound DEF MapInv, Layout
<1>5. \A j \in Entries : j < h => map[j] = OLD
  <2>1. \A j \in 0..(h - 1) : ~Live(map, j)
    BY <1>4, FirstLiveFacts
  <2>2. \A j \in Entries : j < h => ~Live(map, j)
    BY <1>1, <2>1, SectorAssumption DEF Entries
  <2>3. QED
    BY <2>2 DEF MapInv, WholeMarks, Live
<1>6. /\ \A j \in h..(e - 1) : map[j] = CURRENT
      /\ map[e] # CURRENT
  BY <1>1, <1>3, RunEndFacts DEF NewHead
<1>7. e \in Entries /\ map[e] \in {OLD, CURRENT, FREE}
  BY <1>1, <1>3, SectorAssumption DEF Entries, MapInv, WholeMarks
<1>8. map[e] = FREE
  <2>1. CASE e = h
    BY <1>4, <1>6, <2>1 DEF Live
  <2>2. CASE e # h
    <3>1. h \in h..(e - 1) /\ h < e
      BY <1>1, <2>2
    <3>2. map[h] = CURRENT /\ map[h] <= map[e]
      BY <1>4, <1>6, <1>7, <3>1 DEF MapInv, MapShape
    <3>3. QED
      BY <1>6, <1>7, <3>2 DEF OLD, CURRENT, FREE
  <2>3. QED
    BY <2>1, <2>2
<1>9. \A j \in Entries : e <= j => map[j] = FREE
  <2>1. \A j \in Entries : e < j => map[e] <= map[j] /\ map[j] \in {OLD, CURRENT, FREE}
    BY <1>7 DEF MapInv, MapShape, WholeMarks
  <2>2. \A j \in Entries : e < j => map[j] = FREE
    BY <1>8, <2>1 DEF OLD, CURRENT, FREE
  <2>3. QED
    BY <1>1, <1>8, <2>2, SectorAssumption DEF Entries
<1>10. QED
  BY <1>1, <1>3, <1>5, <1>6, <1>9, SectorAssumption DEF Entries

LEMMA MapSaveMark ==
  ASSUME TypeInv, MapInv, SaveMark
  PROVE  MapInv'
<1> DEFINE h == flashFile.head
           e == NewHead
           k == NewHead + flashFile.len
<1>1. /\ h \in 0..N /\ e \in h..N /\ e < N
      /\ \A j \in Entries : /\ j < h => map[j] = OLD
                            /\ h <= j /\ j < e => map[j] = CURRENT
                            /\ e <= j => map[j] = FREE
  BY SaveRoom DEF SaveMark, SaveMarkDone
<1>2. flashFile.len \in 1..N /\ k \in (e + 1)..N
  <2>1. flashFile.len \in 0..N /\ flashFile.next = 0 /\ flashFile.next < flashFile.len
    BY NewHeadType DEF SaveMark, SaveMarkDone, TypeInv, TypeOK, ImageOK, Phases
  <2>2. QED
    BY <1>1, <2>1, SectorAssumption DEF SaveMark, SaveMarkDone, Fits
<1>3. ASSUME NEW j \in Entries
      PROVE  /\ j < e => map'[j] = OLD
             /\ e <= j /\ j < k => map'[j] = CURRENT
             /\ k <= j => map'[j] = FREE
  <2>1. map'[j] = AndMark(map[j], SaveMap[j])
    BY DEF SaveMark, SaveMarkDone, ProgramMap
  <2>2. j \in 0..(N - 1)
    BY DEF Entries
  <2>3. /\ j \in h..(e - 1) => SaveMap[j] = OLD
        /\ j \notin h..(e - 1) /\ j \in e..(k - 1) => SaveMap[j] = CURRENT
        /\ j \notin h..(e - 1) /\ j \notin e..(k - 1) => SaveMap[j] = map[j]
    BY <1>1, <1>2, <2>2 DEF SaveMap
  <2>4. CASE j < h
    BY <1>1, <1>2, <2>1, <2>2, <2>3, <2>4 DEF AndMark
  <2>5. CASE h <= j /\ j < e
    BY <1>1, <1>2, <2>1, <2>2, <2>3, <2>5 DEF AndMark, OLD, CURRENT
  <2>6. CASE e <= j /\ j < k
    BY <1>1, <1>2, <2>1, <2>2, <2>3, <2>6 DEF AndMark, CURRENT, FREE
  <2>7. CASE k <= j
    BY <1>1, <1>2, <2>1, <2>2, <2>3, <2>7 DEF AndMark
  <2>8. QED
    BY <1>1, <1>2, <2>2, <2>4, <2>5, <2>6, <2>7
<1>4. e \in Entries /\ \A j \in Entries : j \in 0..(N - 1)
  BY <1>1, SectorAssumption DEF Entries
<1> HIDE DEF h, e, k
<1>5. WholeMarks'
  <2>1. \A j \in Entries : map'[j] \in {OLD, CURRENT, FREE}
    BY <1>1, <1>2, <1>3, <1>4, SectorAssumption
  <2>2. map' = [j \in Entries |-> map'[j]]
    BY DEF SaveMark, SaveMarkDone, ProgramMap
  <2>3. QED
    BY <2>1, <2>2 DEF WholeMarks
<1>6. MapShape'
  <2>1. \A i, j \in Entries : i < j => map'[i] <= map'[j]
    BY <1>1, <1>2, <1>3, <1>4, SectorAssumption DEF OLD, CURRENT, FREE
  <2>2. QED
    BY <2>1 DEF MapShape
<1>7. SomeLive'
  <2>1. map'[e] = CURRENT
    BY <1>1, <1>2, <1>3, <1>4
  <2>2. QED
    BY <1>4, <2>1 DEF SomeLive, Live
<1>8. Layout'
  BY DEF SaveMark, SaveMarkDone, Layout, TypeInv, Phases, writerOnly
<1>9. QED
  BY <1>5, <1>6, <1>7, <1>8 DEF MapInv

\* The pages Save is about to program lie under FREE entries.
LEMMA RestSaveMark ==
  ASSUME TypeInv, BlankInv, MapInv, SaveMark
  PROVE  RestBlank'
<1>1. /\ flashFile.head \in 0..N /\ NewHead \in flashFile.head..N
      /\ \A j \in Entries : NewHead <= j => map[j] = FREE
  BY SaveRoom DEF SaveMark, SaveMarkDone
<1>2. flashFile.len \in 0..N /\ NewHead + flashFile.len <= N /\ flashFile.next = 0
  BY NewHeadType DEF SaveMark, SaveMarkDone, Fits, TypeInv, Phases
<1>3. /\ flashFile'.next = 0
      /\ flashFile'.head = NewHead
      /\ flashFile'.len = flashFile.len
  BY <1>2 DEF SaveMark, SaveMarkDone, TypeInv, TypeOK, ImageOK, FileImages
<1>4. \A p \in 0..(flashFile.len - 1) : NewHead + p \in Entries /\ NewHead <= NewHead + p
  BY <1>1, <1>2, SectorAssumption DEF Entries
<1>5. \A p \in 0..(flashFile.len - 1) :
        hdr[NewHead + p] = BlankHdr /\ dat[NewHead + p] = BlankBody
  BY <1>1, <1>4 DEF BlankInv, FreeIsBlank
<1>6. UNCHANGED <<hdr, dat>>
  BY DEF SaveMark
<1>7. QED
  BY <1>3, <1>5, <1>6 DEF RestBlank

LEMMA MapGcMark ==
  ASSUME TypeInv, MapInv, GcMark
  PROVE  MapInv'
<1>1. flashFile.len \in 1..N
  BY NextPageType DEF GcMark, GcMarkDone, TypeInv, TypeOK, Phases
<1>2. \A i \in Entries : map[i] = FREE
  BY DEF GcMark, GcMarkDone, MapInv, Layout
<1>3. map' = [i \in Entries |-> IF i < flashFile.len THEN CURRENT ELSE FREE]
  <2>1. \A i \in Entries : AndMark(map[i], GcMap[i]) = IF i < flashFile.len THEN CURRENT ELSE FREE
    BY <1>2 DEF GcMap, AndMark, CURRENT, FREE
  <2>2. QED
    BY <2>1 DEF GcMark, ProgramMap
<1>4. 0 \in Entries /\ \A i \in Entries : i \in 0..(N - 1)
  BY SectorAssumption DEF Entries
<1>5. WholeMarks' /\ SomeLive'
  BY <1>3, <1>4 DEF WholeMarks, SomeLive, Live
<1>6. MapShape'
  <2>1. \A i, j \in Entries : i < j => map'[i] <= map'[j]
    BY <1>1, <1>3, <1>4 DEF CURRENT, FREE
  <2>2. QED
    BY <2>1 DEF MapShape
<1>7. Layout'
  BY DEF GcMark, GcMarkDone, Layout, TypeInv, Phases, bootOnly
<1>8. QED
  BY <1>5, <1>6, <1>7 DEF MapInv

LEMMA RestGcMark ==
  ASSUME TypeInv, BlankInv, MapInv, GcMark
  PROVE  RestBlank'
<1>1. flashFile.len \in 1..N /\ flashFile.next = 0 /\ flashFile.head = 0
  BY NextPageType DEF GcMark, GcMarkDone, TypeInv, TypeOK, Phases
<1>2. \A i \in Entries : map[i] = FREE
  BY DEF GcMark, GcMarkDone, MapInv, Layout
<1>3. \A p \in 0..(flashFile.len - 1) : p \in Entries /\ 0 + p = p
  BY <1>1, SectorAssumption DEF Entries
<1>4. QED
  BY <1>1, <1>2, <1>3 DEF GcMark, GcMarkDone, BlankInv, FreeIsBlank, RestBlank, bootOnly

\* Programming a page leaves the rest of the image's pages erased.
LEMMA RestBlankPage ==
  ASSUME TypeInv, RestBlank, boot = "pages" \/ wpc = "write", ProgramNextPage,
         flashFile' = [flashFile EXCEPT !.next = @ + 1]
  PROVE  RestBlank'
<1>1. /\ flashFile.next \in 0..(flashFile.len - 1) /\ flashFile.len \in 0..N
      /\ flashFile.head \in 0..N
  BY NextPageType, NewHeadType DEF TypeInv, TypeOK
<1>2. /\ flashFile'.next = flashFile.next + 1
      /\ flashFile'.head = flashFile.head
      /\ flashFile'.len = flashFile.len
  BY DEF TypeInv, TypeOK, ImageOK, FileImages
<1>3. ASSUME NEW p \in (flashFile.next + 1)..(flashFile.len - 1)
      PROVE  LET i == flashFile.head + p IN hdr'[i] = BlankHdr /\ dat'[i] = BlankBody
  <2> DEFINE i == flashFile.head + p
  <2>1. p \in flashFile.next..(flashFile.len - 1) /\ i # NextPage
    BY <1>1 DEF NextPage
  <2>2. hdr[i] = BlankHdr /\ dat[i] = BlankBody
    BY <2>1 DEF RestBlank
  <2>3. i \in Entries
    BY <1>1, SectorAssumption DEF TypeInv, TypeOK, ImageOK, Entries, Phases
  <2> HIDE DEF i
  <2>4. hdr'[i] = hdr[i] /\ dat'[i] = dat[i]
    BY <2>1, <2>3 DEF ProgramNextPage, ProgramPage, TypeInv, TypeOK, FlashOK
  <2>5. QED
    BY <2>2, <2>4 DEF i
<1>4. QED
  BY <1>2, <1>3 DEF RestBlank

\* A step that keeps the map keeps its layout.
LEMMA MapKept ==
  ASSUME MapInv, UNCHANGED map, boot' # "map",
         wpc' = "mark" => flashFile'.head = FirstLive(map)
  PROVE  MapInv'
<1>1. FirstLive(map') = FirstLive(map)
  BY DEF FirstLive, Live
<1>2. QED
  BY <1>1 DEF MapInv, WholeMarks, MapShape, SomeLive, Live, Layout

LEMMA MapErased ==
  ASSUME EraseSector, wpc' # "mark"
  PROVE  MapInv'
<1>1. map' = [i \in Entries |-> FREE]
  BY DEF EraseSector
<1>2. WholeMarks' /\ MapShape' /\ SomeLive'
  BY <1>1, EraseLayout, MarkFacts
<1>3. QED
  BY <1>1, <1>2 DEF MapInv, Layout

LEMMA MapBoot ==
  ASSUME TypeInv, MapInv, BootStep \/ (LostProgram /\ boot # "up")
  PROVE  MapInv'
<1> USE DEF bootOnly
<1>1. wpc = "idle" /\ wpc' = "idle"
  BY DEF TypeInv, Phases, BootStep, GcKeep, GcDiscard, GcErase, GcFail, GcMark, GcMarkDone,
         GcPage, GcPageDone, Mirror, LostProgram, SaveMarkDone, SaveBeginDone
<1>2. CASE GcKeep \/ GcFail \/ Mirror
  BY <1>1, <1>2, MapKept DEF GcKeep, GcFail, Mirror, flashVars
<1>3. CASE GcDiscard \/ GcErase
  BY <1>1, <1>3, MapErased DEF GcDiscard, GcErase
<1>4. CASE GcMark
  BY <1>4, MapGcMark
<1>5. CASE GcPage
  BY <1>1, <1>5, MapKept DEF GcPage, GcPageDone, ProgramNextPage
<1>6. CASE LostProgram /\ boot # "up"
  BY <1>1, <1>6, MapKept
     DEF LostProgram, GcMarkDone, GcPageDone, SaveMarkDone, SaveBeginDone, flashVars, TypeInv, Phases
<1>7. QED
  BY <1>2, <1>3, <1>4, <1>5, <1>6 DEF BootStep

LEMMA MapSave ==
  ASSUME TypeInv, MapInv,
         \/ SaveRefused \/ SaveStep \/ Erase \/ \E v \in Values : SaveBegin(v)
         \/ LostProgram /\ boot = "up"
  PROVE  MapInv'
<1> USE DEF writerOnly, flashVars
<1>1. boot' = "up"
  BY DEF TypeInv, Phases, SaveBegin, SaveBeginDone, SaveRefused, Erase, SaveStep, SaveOverflow,
         SaveMark, SaveMarkDone, SaveBuild, SavePage, SaveFail, LostProgram, GcMarkDone, GcPageDone
<1>2. CASE SaveRefused
  BY <1>1, <1>2, MapKept DEF SaveRefused
<1>3. CASE SaveOverflow \/ SaveFail
  BY <1>1, <1>3, MapKept DEF SaveOverflow, SaveFail, Return
<1>4. CASE SaveMark
  BY <1>4, MapSaveMark
<1>5. CASE SaveBuild
  BY <1>1, <1>5, MapKept DEF SaveBuild
<1>6. CASE SavePage
  BY <1>1, <1>6, MapKept DEF SavePage, ProgramNextPage, Return
<1>7. CASE Erase
  BY <1>1, <1>7, MapErased, MapKept DEF Erase
<1>8. CASE \E v \in Values : SaveBegin(v)
  BY <1>1, <1>8, MapKept DEF SaveBegin, SaveBeginDone
<1>9. CASE LostProgram /\ boot = "up"
  BY <1>1, <1>9, MapKept DEF LostProgram, GcMarkDone, GcPageDone, SaveMarkDone, SaveBeginDone
<1>10. QED
  BY <1>2, <1>3, <1>4, <1>5, <1>6, <1>7, <1>8, <1>9 DEF SaveStep

LEMMA ReaderKeeps ==
  ASSUME NEW r \in Readers,
         (\E op \in {"Read", "ReadDataPtr"} : ReadBegin(r, op)) \/ ReadStep(r)
  PROVE  UNCHANGED readerOnly
BY DEF ReadBegin, ReadStep, ReadHeader, ReadCopy, ReadCheck, ReadFail

LEMMA MapSame ==
  ASSUME MapInv, UNCHANGED <<map, boot, wpc, flashFile>>
  PROVE  MapInv'
<1>1. FirstLive(map') = FirstLive(map)
  BY DEF FirstLive, Live
<1>2. QED
  BY <1>1 DEF MapInv, WholeMarks, MapShape, SomeLive, Live, Layout

LEMMA MapStep == ~TornMaps /\ TypeInv /\ MapInv /\ [Next]_vars => MapInv'
<1> SUFFICES ASSUME ~TornMaps, TypeInv, MapInv, [Next]_vars PROVE MapInv'
  OBVIOUS
<1>1. CASE UNCHANGED vars
  BY <1>1, MapSame DEF vars
<1>2. ASSUME NEW r \in Readers,
             (\E op \in {"Read", "ReadDataPtr"} : ReadBegin(r, op)) \/ ReadStep(r)
      PROVE  MapInv'
  BY <1>2, ReaderKeeps, MapSame DEF readerOnly, flashVars
<1>3. CASE PowerLoss \/ TornPage
  BY <1>3, MapKept DEF PowerLoss, TornPage, Reset, flashVars
<1>4. QED
  BY <1>1, <1>2, <1>3, MapBoot, MapSave, Zenon DEF Next, CheckedNext, TornMap

LEMMA RestBoot ==
  ASSUME TypeInv, BlankInv, LayoutInv, BootStep
  PROVE  RestBlank'
<1> USE DEF bootOnly, flashVars
<1>1. wpc = "idle" /\ wpc' = "idle"
  BY DEF TypeInv, Phases, BootStep, GcKeep, GcDiscard, GcErase, GcFail, GcMark, GcMarkDone,
         GcPage, GcPageDone, Mirror
<1>2. CASE GcKeep \/ GcDiscard \/ GcErase \/ GcFail \/ Mirror
  BY <1>1, <1>2 DEF RestBlank, GcKeep, GcDiscard, GcErase, GcFail, Mirror
<1>3. CASE GcMark
  BY <1>3, RestGcMark DEF LayoutInv
<1>4. CASE GcPage /\ LastPage
  BY <1>1, <1>4 DEF RestBlank, GcPage, GcPageDone
<1>5. CASE GcPage /\ ~LastPage
  BY <1>5, RestBlankPage DEF LayoutInv, GcPage, GcPageDone
<1>6. QED
  BY <1>2, <1>3, <1>4, <1>5 DEF BootStep

LEMMA RestSave ==
  ASSUME TypeInv, BlankInv, LayoutInv,
         SaveRefused \/ SaveStep \/ Erase \/ \E v \in Values : SaveBegin(v)
  PROVE  RestBlank'
<1> USE DEF writerOnly, flashVars
<1>1. boot = "up" /\ boot' = "up"
  BY DEF TypeInv, Phases, SaveBegin, SaveBeginDone, SaveRefused, Erase, SaveStep, SaveOverflow,
         SaveMark, SaveMarkDone, SaveBuild, SavePage, SaveFail
<1>2. CASE SaveRefused \/ SaveOverflow \/ SaveFail \/ Erase
  BY <1>1, <1>2 DEF SaveRefused, SaveOverflow, SaveFail, Erase, Return, RestBlank
<1>3. CASE \E v \in Values : SaveBegin(v)
  BY <1>1, <1>3 DEF SaveBegin, SaveBeginDone, RestBlank
<1>4. CASE SaveMark
  BY <1>4, RestSaveMark DEF LayoutInv
<1>5. CASE SaveBuild
  BY <1>1, <1>5 DEF SaveBuild, LayoutInv, RestBlank
<1>6. CASE SavePage /\ LastPage
  BY <1>1, <1>6 DEF SavePage, RestBlank, Return
<1>7. CASE SavePage /\ ~LastPage
  BY <1>7, RestBlankPage DEF LayoutInv, SavePage
<1>8. QED
  BY <1>2, <1>3, <1>4, <1>5, <1>6, <1>7 DEF SaveStep

LEMMA LayoutInit == Init => LayoutInv
<1> SUFFICES ASSUME Init PROVE LayoutInv
  OBVIOUS
<1>1. 0 \in Entries
  BY SectorAssumption DEF Entries
<1>2. WholeMarks /\ MapShape /\ SomeLive
  BY <1>1 DEF Init, WholeMarks, MapShape, SomeLive, Live, FREE
<1>3. Layout /\ RestBlank
  BY DEF Init, Layout, RestBlank
<1>4. QED
  BY <1>2, <1>3 DEF LayoutInv, MapInv

LEMMA LayoutStep ==
  ~TornMaps /\ TypeInv /\ BlankInv /\ LayoutInv /\ [CheckedNext]_vars => LayoutInv'
<1> SUFFICES ASSUME ~TornMaps, TypeInv, BlankInv, LayoutInv, [CheckedNext]_vars PROVE LayoutInv'
  OBVIOUS
<1>1. MapInv'
  BY MapStep DEF LayoutInv, Next
<1>2. CASE UNCHANGED vars
  BY <1>1, <1>2 DEF LayoutInv, RestBlank, vars
<1>3. ASSUME NEW r \in Readers,
             (\E op \in {"Read", "ReadDataPtr"} : ReadBegin(r, op)) \/ ReadStep(r)
      PROVE  LayoutInv'
  BY <1>1, <1>3, ReaderKeeps DEF LayoutInv, RestBlank, readerOnly, flashVars
<1>4. CASE PowerLoss \/ TornPage
  BY <1>1, <1>4 DEF LayoutInv, PowerLoss, TornPage, Reset, RestBlank
<1>5. CASE BootStep \/ SaveRefused \/ SaveStep \/ Erase \/ \E v \in Values : SaveBegin(v)
  BY <1>1, <1>5, RestBoot, RestSave DEF LayoutInv
<1>6. QED
  BY <1>2, <1>3, <1>4, <1>5, Zenon DEF CheckedNext, TornMap

LEMMA MapHolds ==
  ASSUME ~TornMaps
  PROVE  Spec => [](TypeInv /\ MapInv)
<1>1. Init => MapInv
  BY LayoutInit DEF LayoutInv
<1>2. TypeInv /\ MapInv /\ [Next]_vars => MapInv'
  BY MapStep
<1>3. QED
  BY <1>1, <1>2, TypeInvariant, PTL DEF Spec

LEMMA LayoutHolds ==
  ASSUME ~TornMaps, ~LostPrograms
  PROVE  Spec => [](TypeInv /\ LayoutInv)
<1>1. TypeInv /\ BlankInv /\ LayoutInv /\ [CheckedNext]_vars => LayoutInv'
  BY LayoutStep
<1>2. [Next]_vars => [CheckedNext]_vars
  BY Checked
<1>3. QED
  BY <1>1, <1>2, TypeInvariant, BlankInit, BlankStep, LayoutInit, PTL DEF Spec

\* While no map program is cut short, the map stays a run of OLD, then of
\* CURRENT, then of FREE entries, as the searches for the current image and
\* for the first free entry take for granted, programs that fail unnoticed
\* included.
THEOREM MapOrdered ==
  ASSUME ~TornMaps
  PROVE  Spec => []MapShape
<1>1. TypeInv /\ MapInv => MapShape
  BY DEF MapInv
<1>2. QED
  BY <1>1, MapHolds, PTL

\* While no map program is cut short and every failing program is noticed, no
\* Save or compaction programs a page that is not erased, whatever else fails
\* and wherever the power is lost.
THEOREM SectorLayout ==
  ASSUME ~TornMaps, ~LostPrograms
  PROVE  Spec => []ProgramsBlank
<1>1. TypeInv /\ LayoutInv => ProgramsBlank
  BY NextPageType
     DEF TypeInv, TypeOK, LayoutInv, RestBlank, ProgramsBlank, NextPage
<1>2. QED
  BY <1>1, LayoutHolds, PTL

\* While no map program is cut short, Save never ends with ENOENTRY3, from
\* which the clients do not recover: the map is not programmed before the room
\* is known to suffice, and a program that fails unnoticed retires nothing.
THEOREM SaveFindsEntry ==
  ASSUME ~TornMaps
  PROVE  Spec => []SectorUsable
<1>1. TypeInv /\ MapInv => SectorUsable
  BY FirstLiveFound, SectorAssumption DEF MapInv, SectorUsable, Entries
<1>2. QED
  BY <1>1, MapHolds, PTL

=============================================================================
