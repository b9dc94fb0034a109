------------------------------ MODULE FileData ------------------------------
(***************************************************************************)
(* What Save stores of the data of one file and what Read makes of it      *)
(* again: the size in the header, the padding and the encryption           *)
(* (sln_flash_mgmt.c, sln_encrypt.c).  Where the file lies in its sector   *)
(* is in SlnFlashMgmt.                                                     *)
(***************************************************************************)
EXTENDS Integers, Sequences, SequencesExt

CONSTANTS
  AES_BLOCK_SIZE,
  SLN_FLASH_FILE_HEADER_MAX_SIZE,  \* what fits into sizeBytes
  Bytes,      \* the bytes of a file; those below AES_BLOCK_SIZE may look like padding
  MaxLength,  \* of a file
  MaxBuffer,  \* of a reader
  Aligned,    \* whether an encrypted file may be a multiple of a block
  Garbage     \* a byte of a block decrypted with another chain, or not at all

ASSUME DataAssumption ==
  /\ AES_BLOCK_SIZE \in Nat \ {0, 1}
  /\ SLN_FLASH_FILE_HEADER_MAX_SIZE \in Nat \ {0}
  /\ Bytes \subseteq Nat
  /\ MaxLength \in Nat /\ MaxBuffer \in Nat
  /\ Aligned \in BOOLEAN
  /\ Garbage \notin Bytes

VARIABLES
  useEncryption,  \* isEncrypted in the table of files
  given,          \* what the last Save was given, or <<>>
  hdr,            \* sizeBytes, isSize14bits and extSizeBytes of its header
  blocks,         \* what it stored, in blocks
  damaged,        \* what is stored has changed since, so that its CRC is wrong
  answer          \* of the last Read; decrypted, whether the hardware worked, is
                  \* what the properties look at and no caller sees

vars == <<useEncryption, given, hdr, blocks, damaged, answer>>

NoAnswer ==
  [ret |-> "NONE", asked |-> 0, size |-> 0, data |-> <<>>, decrypted |-> TRUE]

Init ==
  /\ useEncryption \in BOOLEAN
  /\ given = <<>>
  /\ hdr = [sizeBytes |-> 0, isSize14bits |-> TRUE, extSizeBytes |-> 0]
  /\ blocks = <<>>
  /\ damaged = FALSE
  /\ answer = NoAnswer

-----------------------------------------------------------------------------
(* The size in the header *)

\* save_entry_file_size; a size that fits leaves the extension as it is.
EntrySize(size, old) ==
  [sizeBytes |-> size % SLN_FLASH_FILE_HEADER_MAX_SIZE,
   isSize14bits |-> size < SLN_FLASH_FILE_HEADER_MAX_SIZE,
   extSizeBytes |-> IF size < SLN_FLASH_FILE_HEADER_MAX_SIZE
                      THEN old ELSE size \div SLN_FLASH_FILE_HEADER_MAX_SIZE]

\* Mutant: isSize14bits is not looked at.
FileSizeAlwaysLong(entry) ==
  entry.sizeBytes + entry.extSizeBytes * SLN_FLASH_FILE_HEADER_MAX_SIZE

\* get_entry_file_size
FileSize(entry) ==
  entry.sizeBytes +
    (IF entry.isSize14bits THEN 0
     ELSE entry.extSizeBytes * SLN_FLASH_FILE_HEADER_MAX_SIZE)

-----------------------------------------------------------------------------
(* Encryption *)

\* SLN_Encrypt_Get_Crypt_Length
CryptLength(size) ==
  AES_BLOCK_SIZE * ((size + AES_BLOCK_SIZE - 1) \div AES_BLOCK_SIZE)

Block(data, i) == SubSeq(data, (i - 1) * AES_BLOCK_SIZE + 1, i * AES_BLOCK_SIZE)

WholeBlocks(data) ==
  [i \in 1..Len(data) \div AES_BLOCK_SIZE |-> Block(data, i)]

\* External: DCP_AES_EncryptCbc and DCP_AES_DecryptCbc, from the same vector at
\* every call.  A block depends on all of its chain: it stands for the blocks
\* of data up to it.
EncryptCbc(plain) == [i \in 1..Len(plain) |-> SubSeq(plain, 1, i)]

GarbageBlock == [b \in 1..AES_BLOCK_SIZE |-> Garbage]

DecryptCbc(cipher) ==
  [i \in 1..Len(cipher) |->
     LET chain == IF i = 1 THEN <<>> ELSE cipher[i - 1]
     IN  IF cipher[i] # <<>> /\ Front(cipher[i]) = chain
           THEN Last(cipher[i])
           ELSE GarbageBlock]

\* Mutant: the padding is one short.
PaddedOneShort(rest) ==
  LET pad == AES_BLOCK_SIZE - Len(rest)
  IN  rest \o [i \in 1..pad |-> pad - 1]

Padded(rest) ==
  LET pad == AES_BLOCK_SIZE - Len(rest)
  IN  rest \o [i \in 1..pad |-> pad]

\* SLN_Encrypt_AES_CBC_PKCS7: the last block is a chain of its own.
Encrypt(data) ==
  LET whole == WholeBlocks(data)
      rest  == SubSeq(data, Len(whole) * AES_BLOCK_SIZE + 1, Len(data))
  IN  EncryptCbc(whole) \o IF rest = <<>> THEN <<>> ELSE EncryptCbc(<<Padded(rest)>>)

\* What looks like padding is taken off.
Stripped(block) ==
  LET pad == Last(block)
      isPadding == /\ pad \in 1..AES_BLOCK_SIZE - 1
                   /\ \A i \in AES_BLOCK_SIZE - pad + 1..AES_BLOCK_SIZE : block[i] = pad
  IN  IF isPadding THEN SubSeq(block, 1, AES_BLOCK_SIZE - pad) ELSE block

\* The bytes of whole blocks, one block behind the other.
Joined(whole) ==
  [i \in 1..Len(whole) * AES_BLOCK_SIZE |->
     whole[(i - 1) \div AES_BLOCK_SIZE + 1][((i - 1) % AES_BLOCK_SIZE) + 1]]

\* SLN_Decrypt_AES_CBC_PKCS7
Decrypt(cipher) ==
  Joined(DecryptCbc(Front(cipher))) \o Stripped(DecryptCbc(<<Last(cipher)>>)[1])

\* It returns OK also when one of the two calls of the hardware fails: the
\* blocks from there on are what was in the buffer, and the caller's size, that
\* of all blocks, stands.
Undecrypted(cipher) ==
  {Joined([i \in DOMAIN cipher |->
             IF i <= done THEN DecryptCbc(Front(cipher))[i] ELSE GarbageBlock]) :
     done \in {0, Len(cipher) - 1}}

-----------------------------------------------------------------------------
(* Operations *)

\* External: the files there are.
Files ==
  {data \in UNION {[1..n -> Bytes] : n \in 1..MaxLength} :
     useEncryption /\ ~Aligned => Len(data) % AES_BLOCK_SIZE # 0}

\* Save: the buffer the header is built in may hold any extension.  A Save
\* does not depend on an earlier one, so there is one.
Save ==
  /\ given = <<>>
  /\ \E data \in Files :
       /\ given' = data
       /\ \E old \in {0, 1} :
            hdr' = EntrySize(IF useEncryption THEN CryptLength(Len(data)) ELSE Len(data), old)
       /\ blocks' = IF useEncryption THEN Encrypt(data) ELSE <<data>>
  /\ UNCHANGED <<useEncryption, damaged, answer>>

\* External: a block in flash changes.
Damage ==
  /\ given # <<>> /\ ~damaged
  /\ \E i \in 1..Len(blocks) :
       blocks' = [blocks EXCEPT ![i] =
                    IF useEncryption THEN <<>> ELSE [b \in DOMAIN @ |-> Garbage]]
  /\ damaged' = TRUE
  /\ answer' = NoAnswer
  /\ UNCHANGED <<useEncryption, given, hdr>>

\* The flash behind the file is read as well if the size says so.
Read(stored, size, other) ==
  [i \in 1..size |-> IF i <= Len(stored) THEN stored[i] ELSE other]

StoredBlocks == Read(blocks, FileSize(hdr) \div AES_BLOCK_SIZE, <<>>)

\* set_file_size_info and get_file_data
FileContent ==
  IF useEncryption THEN Decrypt(StoredBlocks)
                   ELSE Read(blocks[1], FileSize(hdr), Garbage)

\* What they come to, if the hardware decrypts and if it does not.
FileContents(decrypted) ==
  IF decrypted THEN {FileContent}
  ELSE IF useEncryption THEN Undecrypted(StoredBlocks) ELSE {}

Verified == IF damaged THEN "EENCRYPT2" ELSE "OK"

\* Read with no buffer only asks for the size.
ReadSize ==
  /\ given # <<>>
  /\ \E decrypted \in BOOLEAN : \E content \in FileContents(decrypted) :
       answer' = [ret |-> "OK", asked |-> -1, size |-> Len(content), data |-> <<>>,
                  decrypted |-> decrypted]
  /\ UNCHANGED <<useEncryption, given, hdr, blocks, damaged>>

\* A length of 0 asks for all.
Copied(asked, size) == IF asked = 0 \/ asked > size THEN size ELSE asked

ReadData ==
  /\ given # <<>>
  /\ \E asked \in 0..MaxBuffer, decrypted \in BOOLEAN :
       \E content \in FileContents(decrypted) :
         LET size == Copied(asked, Len(content))
         IN  answer' = [ret |-> Verified, asked |-> asked, size |-> size,
                        data |-> SubSeq(content, 1, size), decrypted |-> decrypted]
  /\ UNCHANGED <<useEncryption, given, hdr, blocks, damaged>>

Next == Save \/ Damage \/ ReadSize \/ ReadData

Spec == Init /\ [][Next]_vars

-----------------------------------------------------------------------------
\* A Read that returns OK gives back exactly the bytes the last Save was given,
\* or as many of them as the caller asked for: padding, encryption, the size
\* fields of the header and their stale bits add nothing and lose nothing, and
\* a file that has changed in flash is not taken for what was saved.  Excepted
\* is a Read whose hardware failed: it returns OK all the same.
RoundTrip ==
  answer.ret = "OK" /\ answer.asked >= 0 /\ answer.decrypted =>
    answer.data = SubSeq(given, 1, Copied(answer.asked, Len(given)))

\* Asking for the size alone gives the length of the data, not that of the
\* padded blocks that the header counts, unless the hardware failed.
SizeAnswered ==
  answer.asked = -1 /\ ~damaged /\ answer.decrypted => answer.size = Len(given)

=============================================================================
