--------------------------- MODULE FileDataProofs ---------------------------
(***************************************************************************)
(* Proofs that a file is read as it was saved: plain files of every length *)
(* and encrypted files of every length that is no multiple of a block      *)
(* (FileData).  No induction: Encrypt and Decrypt are defined by index, so *)
(* it is a matter of which byte of the data lies where.                    *)
(***************************************************************************)
EXTENDS FileData, SequenceTheorems, TLAPS

-----------------------------------------------------------------------------
(* Arithmetic *)

\* The quotient and the remainder.
LEMMA DivMod ==
  ASSUME NEW n \in Nat, NEW b \in Nat \ {0}
  PROVE  /\ n \div b \in Nat /\ n % b \in 0..b-1
         /\ n = b * (n \div b) + (n % b)
  OBVIOUS

\* A block less is at least a block's length less.
LEMMA Mono ==
  ASSUME NEW b \in Nat \ {0}, NEW p \in Nat, NEW q \in Nat, p < q
  PROVE  b * p + b <= b * q
<1>1. p + 1 <= q
  OBVIOUS
<1>2. b * (p + 1) <= b * q
  BY <1>1
<1>3. b * (p + 1) = b * p + b
  OBVIOUS
<1> QED BY <1>2, <1>3

\* There is one way to divide.
LEMMA DivUnique ==
  ASSUME NEW n \in Nat, NEW b \in Nat \ {0}, NEW q \in Nat, NEW r \in 0..b-1, n = b * q + r
  PROVE  n \div b = q /\ n % b = r
<1> DEFINE p == n \div b
           s == n % b
<1>1. p \in Nat /\ s \in 0..b-1 /\ n = b * p + s
  BY DivMod
<1>2. b * p \in Nat /\ b * q \in Nat
  BY <1>1
<1> HIDE DEF p, s
<1>3. ~(p < q)
  <2> SUFFICES ASSUME p < q PROVE FALSE
    OBVIOUS
  <2>1. b * p + b <= b * q
    BY <1>1, Mono
  <2> QED BY <1>1, <1>2, <2>1
<1>4. ~(q < p)
  <2> SUFFICES ASSUME q < p PROVE FALSE
    OBVIOUS
  <2>1. b * q + b <= b * p
    BY <1>1, Mono
  <2> QED BY <1>1, <1>2, <2>1
<1>5. p = q
  BY <1>1, <1>3, <1>4
<1>6. s = r
  BY <1>1, <1>2, <1>5
<1> QED BY <1>5, <1>6 DEF p, s

-----------------------------------------------------------------------------
(* The size in the header *)

\* Whatever the extension bits were before: the size that was put into a
\* header is the size that is got out of it.
LEMMA SizeKept ==
  ASSUME NEW size \in Nat, NEW old
  PROVE  FileSize(EntrySize(size, old)) = size
<1>1. SLN_FLASH_FILE_HEADER_MAX_SIZE \in Nat \ {0}
  BY DataAssumption
<1>2. CASE size < SLN_FLASH_FILE_HEADER_MAX_SIZE
  <2>1. size = SLN_FLASH_FILE_HEADER_MAX_SIZE * 0 + size
    BY <1>1
  <2>2. size \in 0..SLN_FLASH_FILE_HEADER_MAX_SIZE - 1
    BY <1>1, <1>2
  <2>3. size % SLN_FLASH_FILE_HEADER_MAX_SIZE = size
    BY <1>1, <2>1, <2>2, DivUnique
  <2> DEFINE entry == EntrySize(size, old)
  <2>4. entry.isSize14bits /\ entry.sizeBytes = size
    BY <1>2, <2>3 DEF EntrySize
  <2> HIDE DEF entry
  <2>5. FileSize(entry) = size + 0
    BY <2>4 DEF FileSize
  <2> QED BY <2>5 DEF entry
<1>3. CASE ~(size < SLN_FLASH_FILE_HEADER_MAX_SIZE)
  <2> DEFINE q == size \div SLN_FLASH_FILE_HEADER_MAX_SIZE
             r == size % SLN_FLASH_FILE_HEADER_MAX_SIZE
  <2>1. /\ q \in Nat /\ r \in Nat
        /\ size = SLN_FLASH_FILE_HEADER_MAX_SIZE * q + r
    BY <1>1, DivMod
  <2>2. FileSize(EntrySize(size, old)) = r + q * SLN_FLASH_FILE_HEADER_MAX_SIZE
    BY <1>3 DEF FileSize, EntrySize
  <2> HIDE DEF q, r
  <2> QED BY <1>1, <2>1, <2>2
<1> QED BY <1>2, <1>3

-----------------------------------------------------------------------------
(* Blocks of a file that is no multiple of a block *)

\* What a byte of a block can be.
Byte == Bytes \cup (1..AES_BLOCK_SIZE) \cup {Garbage}

Whole(n) == n \div AES_BLOCK_SIZE

Rest(data) ==
  SubSeq(data, Whole(Len(data)) * AES_BLOCK_SIZE + 1, Len(data))

\* The length in blocks: one more than there are whole ones.
LEMMA BlocksNeeded ==
  ASSUME NEW n \in Nat, n % AES_BLOCK_SIZE # 0
  PROVE  /\ Whole(n) \in Nat
         /\ n % AES_BLOCK_SIZE \in 1..AES_BLOCK_SIZE - 1
         /\ n = AES_BLOCK_SIZE * Whole(n) + (n % AES_BLOCK_SIZE)
         /\ CryptLength(n) = AES_BLOCK_SIZE * (Whole(n) + 1)
         /\ CryptLength(n) \in Nat
         /\ CryptLength(n) \div AES_BLOCK_SIZE = Whole(n) + 1
<1>1. AES_BLOCK_SIZE \in Nat \ {0}
  BY DataAssumption
<1> DEFINE q == Whole(n)
           r == n % AES_BLOCK_SIZE
<1>2. /\ q \in Nat /\ r \in 1..AES_BLOCK_SIZE - 1
      /\ n = AES_BLOCK_SIZE * q + r
  BY <1>1, DivMod DEF Whole
<1> HIDE DEF q, r
<1>3. /\ AES_BLOCK_SIZE * (q + 1) = AES_BLOCK_SIZE * q + AES_BLOCK_SIZE
      /\ AES_BLOCK_SIZE * q \in Nat /\ AES_BLOCK_SIZE * (q + 1) \in Nat
  BY <1>1, <1>2
<1>4. /\ n + AES_BLOCK_SIZE - 1 = AES_BLOCK_SIZE * (q + 1) + (r - 1)
      /\ n + AES_BLOCK_SIZE - 1 \in Nat
      /\ r - 1 \in 0..AES_BLOCK_SIZE - 1
  BY <1>1, <1>2, <1>3
<1>5. (n + AES_BLOCK_SIZE - 1) \div AES_BLOCK_SIZE = q + 1
  <2>1. q + 1 \in Nat
    BY <1>2
  <2> QED BY <1>1, <1>4, <2>1, DivUnique
<1>6. CryptLength(n) = AES_BLOCK_SIZE * (q + 1)
  BY <1>5 DEF CryptLength
<1>7. CryptLength(n) \div AES_BLOCK_SIZE = q + 1
  <2>1. /\ q + 1 \in Nat /\ 0 \in 0..AES_BLOCK_SIZE - 1
        /\ AES_BLOCK_SIZE * (q + 1) = AES_BLOCK_SIZE * (q + 1) + 0
    BY <1>1, <1>2, <1>3
  <2> QED BY <1>1, <1>3, <1>6, <2>1, DivUnique
<1> QED BY <1>2, <1>3, <1>6, <1>7 DEF q, r

-----------------------------------------------------------------------------
(* Encryption *)

\* The chain of a block is the one it was encrypted with: decrypting gives
\* back the blocks.
LEMMA CbcInverse ==
  ASSUME NEW S, NEW plain \in Seq(S)
  PROVE  /\ EncryptCbc(plain) \in Seq(Seq(S))
         /\ Len(EncryptCbc(plain)) = Len(plain)
         /\ DecryptCbc(EncryptCbc(plain)) = plain
<1> DEFINE n == Len(plain)
           cipher == EncryptCbc(plain)
<1>1. n \in Nat /\ plain \in [1..n -> S]
  BY LenProperties
<1>2. cipher = [i \in 1..n |-> SubSeq(plain, 1, i)]
  BY DEF EncryptCbc
<1>3. \A i \in 1..n : /\ SubSeq(plain, 1, i) \in Seq(S)
                      /\ Len(SubSeq(plain, 1, i)) = i
                      /\ \A j \in 1..i : SubSeq(plain, 1, i)[j] = plain[j]
  <2> SUFFICES ASSUME NEW i \in 1..n
               PROVE  /\ SubSeq(plain, 1, i) \in Seq(S)
                      /\ Len(SubSeq(plain, 1, i)) = i
                      /\ \A j \in 1..i : SubSeq(plain, 1, i)[j] = plain[j]
    OBVIOUS
  <2>1. i \in Int /\ 1 \in Int /\ 1 <= i /\ \A j \in 1..i : plain[j] \in S
    BY <1>1
  <2>2. /\ SubSeq(plain, 1, i) \in Seq(S)
        /\ Len(SubSeq(plain, 1, i)) = i - 1 + 1
        /\ \A j \in 1..i - 1 + 1 : SubSeq(plain, 1, i)[j] = plain[1 + j - 1]
    BY <2>1, SubSeqProperties
  <2> QED BY <2>1, <2>2
<1> HIDE DEF n, cipher
<1>4. cipher \in Seq(Seq(S)) /\ Len(cipher) = n
  <2>1. cipher \in [1..n -> Seq(S)]
    BY <1>2, <1>3
  <2> QED BY <1>1, <2>1
<1>5. ASSUME NEW i \in 1..n
      PROVE  /\ cipher[i] # <<>>
             /\ Last(cipher[i]) = plain[i]
             /\ Front(cipher[i]) = IF i = 1 THEN <<>> ELSE cipher[i - 1]
  <2>1. cipher[i] = SubSeq(plain, 1, i)
    BY <1>2
  <2>2. Len(cipher[i]) = i /\ cipher[i] \in Seq(S)
    BY <1>3, <2>1
  <2>3. cipher[i] # <<>>
    BY <2>2, <1>1
  <2>4. Last(cipher[i]) = plain[i]
    BY <1>1, <1>3, <2>1, <2>2 DEF Last
  <2>5. Front(cipher[i]) = SubSeq(cipher[i], 1, i - 1)
    BY <2>2 DEF Front
  <2>6. CASE i = 1
    <3>1. i - 1 < 1 /\ i - 1 \in Int
      BY <2>6
    <3>2. Front(cipher[i]) = <<>>
      BY <2>5, <3>1, SubSeqEmpty
    <3> QED BY <2>3, <2>4, <2>6, <3>2
  <2>7. CASE i # 1
    <3>1. /\ i \in 1..n /\ 1 \in 1..n /\ 1 \in 1..i - 1 + 1 /\ i - 1 \in 1..i - 1 + 1
          /\ i - 1 \in 1..n
      BY <1>1, <2>7
    <3>2. SubSeq(SubSeq(plain, 1, i), 1, i - 1) = SubSeq(plain, 1 + 1 - 1, 1 + (i - 1) - 1)
      BY <3>1, SubSeqOfSubSeq DEF n
    <3>3. 1 + 1 - 1 = 1 /\ 1 + (i - 1) - 1 = i - 1
      BY <3>1
    <3>4. cipher[i - 1] = SubSeq(plain, 1, i - 1)
      BY <1>2, <3>1
    <3>5. SubSeq(SubSeq(plain, 1, i), 1, i - 1) = SubSeq(plain, 1, i - 1)
      BY <3>2, <3>3
    <3>6. Front(cipher[i]) = cipher[i - 1]
      BY <2>1, <2>5, <3>4, <3>5
    <3> QED BY <2>3, <2>4, <2>7, <3>6
  <2> QED BY <2>3, <2>4, <2>6, <2>7
<1>6. DecryptCbc(cipher) = [i \in 1..n |-> plain[i]]
  BY <1>4, <1>5 DEF DecryptCbc
<1>7. DecryptCbc(cipher) = plain
  BY <1>1, <1>6
<1> QED BY <1>4, <1>7 DEF n, cipher

\* Padding is recognised and taken off, whatever the data before it ends with.
LEMMA PaddingComesOff ==
  ASSUME NEW rest \in Seq(Bytes), Len(rest) \in 1..AES_BLOCK_SIZE - 1
  PROVE  /\ Padded(rest) \in Seq(Byte)
         /\ Stripped(Padded(rest)) = rest
<1> DEFINE r == Len(rest)
           pad == AES_BLOCK_SIZE - r
           tail == [i \in 1..pad |-> pad]
           block == Padded(rest)
<1>1. AES_BLOCK_SIZE \in Nat /\ r \in 1..AES_BLOCK_SIZE - 1 /\ pad \in 1..AES_BLOCK_SIZE - 1
  BY DataAssumption
<1>2. rest \in Seq(Byte)
  <2>1. Bytes \subseteq Byte
    BY DEF Byte
  <2> QED BY <2>1, SeqMonotonic
<1>3. tail \in Seq(Byte) /\ Len(tail) = pad
  <2>1. pad \in Byte /\ pad \in Nat
    BY <1>1 DEF Byte
  <2>2. tail \in [1..pad -> Byte]
    BY <2>1
  <2> HIDE DEF tail, pad
  <2> QED BY <2>1, <2>2
<1>4. block = rest \o tail
  BY DEF Padded
<1> HIDE DEF block
<1>5. /\ block \in Seq(Byte)
      /\ Len(block) = r + pad
      /\ \A i \in 1..r + pad : block[i] = IF i <= r THEN rest[i] ELSE tail[i - r]
  <2> HIDE DEF tail, pad
  <2> QED BY <1>2, <1>3, <1>4, ConcatProperties
<1>6. r + pad = AES_BLOCK_SIZE
  BY <1>1
<1>7. \A i \in r + 1..AES_BLOCK_SIZE : block[i] = pad
  <2> SUFFICES ASSUME NEW i \in r + 1..AES_BLOCK_SIZE PROVE block[i] = pad
    OBVIOUS
  <2>1. i \in 1..r + pad /\ ~(i <= r) /\ i - r \in 1..pad
    BY <1>1, <1>6
  <2>2. block[i] = tail[i - r]
    BY <1>5, <2>1
  <2> QED BY <2>1, <2>2
<1>8. Last(block) = pad
  BY <1>1, <1>5, <1>6, <1>7 DEF Last
<1>9. AES_BLOCK_SIZE - pad = r
  BY <1>1
<1>10. Stripped(block) = SubSeq(block, 1, r)
  <2> HIDE DEF pad, r
  <2> QED BY <1>1, <1>7, <1>8, <1>9 DEF Stripped
<1>11. SubSeq(block, 1, r) = rest
  <2>1. SubSeq(rest \o tail, 1, r) = SubSeq(rest, 1, r)
    <3>1. 1 \in 1..r /\ r \in 1..r
      BY <1>1
    <3> HIDE DEF tail
    <3> QED BY <1>2, <1>3, <3>1, SubSeqOfConcat1
  <2>2. SubSeq(rest, 1, r) = rest
    BY SubSeqFull
  <2> QED BY <1>4, <2>1, <2>2
<1> QED BY <1>5, <1>10, <1>11 DEF block

\* What lies before the last block, and the last block itself.
LEMMA WholeBlocksAre ==
  ASSUME NEW data \in Seq(Bytes)
  PROVE  /\ Whole(Len(data)) \in Nat
         /\ Whole(Len(data)) * AES_BLOCK_SIZE \in 0..Len(data)
         /\ WholeBlocks(data) \in Seq(Seq(Byte))
         /\ Len(WholeBlocks(data)) = Whole(Len(data))
         /\ \A i \in 1..Whole(Len(data)), m \in 1..AES_BLOCK_SIZE :
              WholeBlocks(data)[i][m] = data[(i - 1) * AES_BLOCK_SIZE + m]
<1> DEFINE n == Len(data)
           q == Whole(n)
           blks == WholeBlocks(data)
<1>1. AES_BLOCK_SIZE \in Nat \ {0}
  BY DataAssumption
<1>2. n \in Nat /\ data \in [1..n -> Bytes]
  BY LenProperties
<1>3. /\ q \in Nat
      /\ n % AES_BLOCK_SIZE \in 0..AES_BLOCK_SIZE - 1
      /\ n = AES_BLOCK_SIZE * q + (n % AES_BLOCK_SIZE)
  BY <1>1, <1>2, DivMod DEF Whole
<1>4. blks = [i \in 1..q |-> SubSeq(data, (i - 1) * AES_BLOCK_SIZE + 1, i * AES_BLOCK_SIZE)]
  BY DEF WholeBlocks, Block, Whole
<1> HIDE DEF blks, q, n
<1>5. q * AES_BLOCK_SIZE \in 0..n
  <2>1. AES_BLOCK_SIZE * q \in Nat /\ AES_BLOCK_SIZE * q = q * AES_BLOCK_SIZE
    BY <1>1, <1>3
  <2> QED BY <1>1, <1>2, <1>3, <2>1
<1>6. ASSUME NEW i \in 1..q
      PROVE  /\ SubSeq(data, (i - 1) * AES_BLOCK_SIZE + 1, i * AES_BLOCK_SIZE) \in Seq(Byte)
             /\ \A m \in 1..AES_BLOCK_SIZE :
                  SubSeq(data, (i - 1) * AES_BLOCK_SIZE + 1, i * AES_BLOCK_SIZE)[m]
                    = data[(i - 1) * AES_BLOCK_SIZE + m]
  <2> DEFINE from == (i - 1) * AES_BLOCK_SIZE
             to   == i * AES_BLOCK_SIZE
  <2>1. from \in Nat /\ to \in Nat /\ to = from + AES_BLOCK_SIZE
    BY <1>1, <1>3
  <2>2. to <= n
    <3>1. CASE i = q
      BY <1>5, <3>1, <1>2
    <3>2. CASE i < q
      <4>1. AES_BLOCK_SIZE * i + AES_BLOCK_SIZE <= AES_BLOCK_SIZE * q
        BY <1>1, <1>3, <3>2, Mono
      <4>2. /\ AES_BLOCK_SIZE * i = to /\ AES_BLOCK_SIZE * q = q * AES_BLOCK_SIZE
        BY <1>1, <1>3
      <4> HIDE DEF to
      <4> QED BY <1>1, <1>2, <1>5, <2>1, <4>1, <4>2
    <3> QED BY <1>3, <3>1, <3>2
  <2> HIDE DEF from, to
  <2>3. \A j \in from + 1..to : data[j] \in Byte
    BY <1>2, <2>1, <2>2 DEF Byte
  <2>4. /\ SubSeq(data, from + 1, to) \in Seq(Byte)
        /\ \A m \in 1..to - (from + 1) + 1 :
             SubSeq(data, from + 1, to)[m] = data[from + 1 + m - 1]
    <3>1. from + 1 \in Int /\ to \in Int
      BY <2>1
    <3> QED BY <2>3, <3>1, SubSeqProperties
  <2>5. \A m \in 1..AES_BLOCK_SIZE : SubSeq(data, from + 1, to)[m] = data[from + m]
    <3> SUFFICES ASSUME NEW m \in 1..AES_BLOCK_SIZE
                 PROVE  SubSeq(data, from + 1, to)[m] = data[from + m]
      OBVIOUS
    <3>1. m \in 1..to - (from + 1) + 1 /\ from + 1 + m - 1 = from + m
      BY <1>1, <2>1
    <3> QED BY <2>4, <3>1
  <2> QED BY <2>4, <2>5 DEF from, to
<1>7. blks \in [1..q -> Seq(Byte)]
  BY <1>4, <1>6
<1>8. blks \in Seq(Seq(Byte)) /\ Len(blks) = q
  BY <1>3, <1>7
<1>9. \A i \in 1..q, m \in 1..AES_BLOCK_SIZE :
        blks[i][m] = data[(i - 1) * AES_BLOCK_SIZE + m]
  BY <1>4, <1>6
<1> QED BY <1>3, <1>5, <1>8, <1>9 DEF blks, q, n

\* The whole blocks, joined, are the data they were cut from.
LEMMA JoinedAreCut ==
  ASSUME NEW data \in Seq(Bytes)
  PROVE  Joined(WholeBlocks(data)) =
           SubSeq(data, 1, Whole(Len(data)) * AES_BLOCK_SIZE)
<1> DEFINE n == Len(data)
           q == Whole(n)
           size == q * AES_BLOCK_SIZE
           blks == WholeBlocks(data)
<1>1. AES_BLOCK_SIZE \in Nat \ {0}
  BY DataAssumption
<1>2. n \in Nat /\ data \in [1..n -> Bytes]
  BY LenProperties
<1>3. /\ q \in Nat /\ size \in 0..n /\ Len(blks) = q
      /\ \A i \in 1..q, m \in 1..AES_BLOCK_SIZE :
           blks[i][m] = data[(i - 1) * AES_BLOCK_SIZE + m]
  BY WholeBlocksAre
<1>4. Joined(blks) =
        [j \in 1..size |-> blks[(j - 1) \div AES_BLOCK_SIZE + 1][((j - 1) % AES_BLOCK_SIZE) + 1]]
  BY <1>3 DEF Joined
<1>5. ASSUME NEW j \in 1..size
      PROVE  blks[(j - 1) \div AES_BLOCK_SIZE + 1][((j - 1) % AES_BLOCK_SIZE) + 1] = data[j]
  <2> DEFINE k == (j - 1) \div AES_BLOCK_SIZE
             m == (j - 1) % AES_BLOCK_SIZE
  <2>1. j \in Nat /\ j - 1 \in Nat /\ j - 1 < size
    BY <1>2, <1>3
  <2>2. /\ k \in Nat /\ m \in 0..AES_BLOCK_SIZE - 1
        /\ j - 1 = AES_BLOCK_SIZE * k + m
    BY <1>1, <2>1, DivMod
  <2>3. /\ size = AES_BLOCK_SIZE * q
        /\ AES_BLOCK_SIZE * k \in Nat /\ AES_BLOCK_SIZE * k = k * AES_BLOCK_SIZE
    <3> HIDE DEF k
    <3> QED BY <1>1, <1>3, <2>2
  <2> HIDE DEF k, m, q, size, blks
  <2>4. k < q
    <3> SUFFICES ASSUME q <= k PROVE FALSE
      BY <1>3, <2>2
    <3>1. CASE q = k
      <4>1. size = AES_BLOCK_SIZE * k
        BY <2>3, <3>1
      <4> QED BY <1>1, <2>1, <2>2, <2>3, <4>1
    <3>2. CASE q < k
      <4>1. AES_BLOCK_SIZE * q + AES_BLOCK_SIZE <= AES_BLOCK_SIZE * k
        BY <1>1, <1>3, <2>2, <3>2, Mono
      <4>2. /\ size = AES_BLOCK_SIZE * q /\ AES_BLOCK_SIZE * k \in Nat
            /\ size \in Nat
        BY <1>2, <1>3, <2>3
      <4>3. size + AES_BLOCK_SIZE <= AES_BLOCK_SIZE * k
        BY <4>1, <4>2
      <4> QED BY <1>1, <2>1, <2>2, <4>2, <4>3
    <3> QED BY <1>3, <2>2, <3>1, <3>2
  <2>5. k + 1 \in 1..q /\ m + 1 \in 1..AES_BLOCK_SIZE /\ (k + 1) - 1 = k
    BY <1>1, <1>3, <2>2, <2>4
  <2>6. blks[k + 1][m + 1] = data[k * AES_BLOCK_SIZE + (m + 1)]
    BY <1>3, <2>5
  <2>7. k * AES_BLOCK_SIZE + (m + 1) = j
    BY <2>1, <2>2, <2>3
  <2> QED BY <2>6, <2>7 DEF k, m, blks
<1> HIDE DEF size, blks
<1>6. Joined(blks) = [j \in 1..size |-> data[j]]
  BY <1>4, <1>5
<1>7. SubSeq(data, 1, size) = [j \in 1..size |-> data[j]]
  <2>1. size \in Nat /\ size \in Int /\ 1 \in Int /\ \A j \in 1..size : data[j] \in Bytes
    BY <1>2, <1>3
  <2>2. /\ SubSeq(data, 1, size) \in Seq(Bytes)
        /\ Len(SubSeq(data, 1, size)) = IF 1 <= size THEN size - 1 + 1 ELSE 0
        /\ \A j \in 1..size - 1 + 1 : SubSeq(data, 1, size)[j] = data[1 + j - 1]
    BY <2>1, SubSeqProperties
  <2>3. Len(SubSeq(data, 1, size)) = size
    BY <2>1, <2>2
  <2>4. SubSeq(data, 1, size) \in [1..size -> Bytes]
    BY <2>2, <2>3, LenProperties
  <2>5. \A j \in 1..size : SubSeq(data, 1, size)[j] = data[j]
    BY <2>1, <2>2
  <2> QED BY <2>4, <2>5
<1> QED BY <1>6, <1>7 DEF size, blks

\* Every block that was encrypted is read, no block more, and Decrypt makes the
\* data of them again.
LEMMA DecryptsEncrypted ==
  ASSUME NEW data \in Seq(Bytes), Len(data) % AES_BLOCK_SIZE # 0
  PROVE  Decrypt(Read(Encrypt(data), Whole(Len(data)) + 1, <<>>)) = data
<1> DEFINE n     == Len(data)
           q     == Whole(n)
           blks  == WholeBlocks(data)
           rest  == Rest(data)
           final == Padded(rest)
           head  == EncryptCbc(blks)
           tail  == EncryptCbc(<<final>>)
           all   == head \o tail
<1>1. AES_BLOCK_SIZE \in Nat \ {0} /\ n \in Nat /\ data \in [1..n -> Bytes]
  BY DataAssumption, LenProperties
<1>2. /\ q \in Nat /\ q * AES_BLOCK_SIZE \in 0..n
      /\ blks \in Seq(Seq(Byte)) /\ Len(blks) = q
  BY WholeBlocksAre
<1>3. rest \in Seq(Bytes) /\ Len(rest) \in 1..AES_BLOCK_SIZE - 1
  <2> DEFINE size == q * AES_BLOCK_SIZE
  <2>1. /\ n % AES_BLOCK_SIZE \in 1..AES_BLOCK_SIZE - 1
        /\ n = AES_BLOCK_SIZE * q + (n % AES_BLOCK_SIZE)
    BY <1>1, BlocksNeeded
  <2>2. AES_BLOCK_SIZE * q = size
    BY <1>1, <1>2
  <2>3. rest = SubSeq(data, size + 1, n)
    BY DEF Rest
  <2> HIDE DEF size, q, n
  <2>4. n - (size + 1) + 1 = n % AES_BLOCK_SIZE /\ size \in 0..n
    BY <1>1, <1>2, <2>1, <2>2 DEF size
  <2>5. size + 1 <= n
    BY <1>1, <2>1, <2>4
  <2>6. \A i \in size + 1..n : data[i] \in Bytes
    BY <1>1, <2>4
  <2>7. /\ SubSeq(data, size + 1, n) \in Seq(Bytes)
        /\ Len(SubSeq(data, size + 1, n)) = n - (size + 1) + 1
    <3>1. size + 1 \in Int /\ n \in Int
      BY <1>1, <2>4
    <3> QED BY <2>5, <2>6, <3>1, SubSeqProperties
  <2> QED BY <2>1, <2>3, <2>4, <2>7
<1>4. final \in Seq(Byte) /\ Stripped(final) = rest
  BY <1>3, PaddingComesOff
<1>5. /\ head \in Seq(Seq(Seq(Byte))) /\ Len(head) = q
      /\ DecryptCbc(head) = blks
  BY <1>2, CbcInverse
<1>6. /\ tail \in Seq(Seq(Seq(Byte))) /\ Len(tail) = 1
      /\ DecryptCbc(tail) = <<final>>
  <2>1. <<final>> \in Seq(Seq(Byte)) /\ Len(<<final>>) = 1
    BY <1>4
  <2> QED BY <2>1, CbcInverse
<1>7. Encrypt(data) = all
  <2>1. rest # <<>>
    BY <1>1, <1>3
  <2>2. rest = SubSeq(data, Len(blks) * AES_BLOCK_SIZE + 1, Len(data))
    BY <1>2 DEF Rest
  <2> HIDE DEF rest
  <2> QED BY <2>1, <2>2 DEF Encrypt
<1> HIDE DEF n, q, blks, rest, final, head, tail
<1>8. /\ all \in Seq(Seq(Seq(Byte))) /\ Len(all) = q + 1
      /\ \A i \in 1..q + 1 : all[i] = IF i <= q THEN head[i] ELSE tail[i - q]
  <2>1. /\ head \o tail \in Seq(Seq(Seq(Byte)))
        /\ Len(head \o tail) = Len(head) + Len(tail)
        /\ \A i \in 1..Len(head) + Len(tail) :
             (head \o tail)[i] = IF i <= Len(head) THEN head[i] ELSE tail[i - Len(head)]
    BY <1>5, <1>6, ConcatProperties, Zenon
  <2> QED BY <1>5, <1>6, <2>1
<1> HIDE DEF all
<1>9. Read(all, q + 1, <<>>) = all
  <2>1. q + 1 \in Nat /\ all \in [1..q + 1 -> Seq(Seq(Byte))]
    BY <1>2, <1>8, LenProperties
  <2>2. Read(all, q + 1, <<>>) = [i \in 1..q + 1 |-> all[i]]
    BY <1>2, <1>8 DEF Read
  <2> QED BY <2>1, <2>2
<1>10. Front(all) = head
  <2>1. Front(all) = SubSeq(all, 1, q)
    BY <1>2, <1>8 DEF Front
  <2>2. \A i \in 1..q : all[i] \in Seq(Seq(Byte))
    BY <1>2, <1>8, ElementOfSeq
  <2>3. /\ SubSeq(all, 1, q) \in Seq(Seq(Seq(Byte)))
        /\ Len(SubSeq(all, 1, q)) = IF 1 <= q THEN q - 1 + 1 ELSE 0
        /\ \A i \in 1..q - 1 + 1 : SubSeq(all, 1, q)[i] = all[1 + i - 1]
    <3>1. q \in Int /\ 1 \in Int
      BY <1>2
    <3> QED BY <2>2, <3>1, SubSeqProperties
  <2>4. Len(SubSeq(all, 1, q)) = q
    BY <1>2, <2>3
  <2>5. \A i \in 1..q : SubSeq(all, 1, q)[i] = head[i]
    BY <1>2, <1>8, <2>3
  <2>6. SubSeq(all, 1, q) = head
    BY <1>5, <2>3, <2>4, <2>5, SeqEqual
  <2> QED BY <2>1, <2>6
<1>11. <<Last(all)>> = tail
  <2>1. Last(all) = tail[1]
    BY <1>2, <1>8 DEF Last
  <2>2. tail = <<tail[1]>>
    BY <1>6
  <2> QED BY <2>1, <2>2
<1>12. DecryptCbc(<<Last(all)>>)[1] = final
  BY <1>6, <1>11
<1>13. Decrypt(all) = Joined(blks) \o rest
  BY <1>4, <1>5, <1>10, <1>12 DEF Decrypt
<1>14. Joined(blks) \o rest = data
  <2> DEFINE size == q * AES_BLOCK_SIZE
  <2>1. Joined(blks) = SubSeq(data, 1, size)
    BY JoinedAreCut DEF blks, q, n
  <2>2. rest = SubSeq(data, size + 1, n)
    BY DEF rest, Rest, q, n
  <2> HIDE DEF size
  <2>3. /\ 1 \in 1..n + 1 /\ size \in 1 - 1..n /\ n \in size..n
    BY <1>1, <1>2 DEF size
  <2>4. SubSeq(data, 1, size) \o SubSeq(data, size + 1, n) = SubSeq(data, 1, n)
    BY <2>3, ConcatAdjacentSubSeq DEF n
  <2>5. SubSeq(data, 1, n) = data
    BY SubSeqFull DEF n
  <2> QED BY <2>1, <2>2, <2>4, <2>5
<1>15. Decrypt(Read(all, q + 1, <<>>)) = data
  BY <1>9, <1>13, <1>14
<1> QED BY <1>7, <1>15 DEF q, n

-----------------------------------------------------------------------------
(* The invariant *)

\* What is stored, as it was saved or damaged since: a Read decodes it to
\* what the Save was given.
Readable == given # <<>> /\ ~damaged => FileContent = given

DataInv ==
  /\ useEncryption \in BOOLEAN
  /\ given # <<>> => given \in Seq(Bytes)
  /\ given = <<>> => answer = NoAnswer
  /\ Readable
  /\ RoundTrip
  /\ SizeAnswered

LEMMA FilesAreBytes ==
  ASSUME NEW data \in Files
  PROVE  /\ data \in Seq(Bytes) /\ Len(data) \in Nat \ {0}
         /\ data \in [1..Len(data) -> Bytes]
         /\ useEncryption /\ ~Aligned => Len(data) % AES_BLOCK_SIZE # 0
<1>1. PICK n \in 1..MaxLength : data \in [1..n -> Bytes]
  BY DEF Files
<1>2. n \in Nat \ {0}
  BY DataAssumption
<1>3. data \in Seq(Bytes) /\ Len(data) = n
  BY <1>1, <1>2
<1>4. useEncryption /\ ~Aligned => Len(data) % AES_BLOCK_SIZE # 0
  BY DEF Files
<1> QED BY <1>1, <1>2, <1>3, <1>4

\* A plain file: its size is read, and its bytes.
LEMMA SavedPlain ==
  ASSUME NEW data \in Files, NEW old \in {0, 1}
  PROVE  Read(<<data>>[1], FileSize(EntrySize(Len(data), old)), Garbage) = data
<1>1. Len(data) \in Nat /\ data \in [1..Len(data) -> Bytes]
  BY FilesAreBytes
<1>2. FileSize(EntrySize(Len(data), old)) = Len(data)
  BY <1>1, SizeKept
<1>3. <<data>>[1] = data
  OBVIOUS
<1>4. Read(data, Len(data), Garbage) = [i \in 1..Len(data) |-> data[i]]
  BY <1>1 DEF Read
<1> QED BY <1>1, <1>2, <1>3, <1>4

\* An encrypted file: the size of its blocks is read, and its blocks.
LEMMA SavedEncrypted ==
  ASSUME ~Aligned, useEncryption, NEW data \in Files, NEW old \in {0, 1}
  PROVE  Decrypt(Read(Encrypt(data),
                      FileSize(EntrySize(CryptLength(Len(data)), old)) \div AES_BLOCK_SIZE,
                      <<>>)) = data
<1>1. data \in Seq(Bytes) /\ Len(data) \in Nat /\ Len(data) % AES_BLOCK_SIZE # 0
  BY FilesAreBytes
<1>2. /\ CryptLength(Len(data)) \in Nat
      /\ CryptLength(Len(data)) \div AES_BLOCK_SIZE = Whole(Len(data)) + 1
  BY <1>1, BlocksNeeded
<1>3. FileSize(EntrySize(CryptLength(Len(data)), old)) = CryptLength(Len(data))
  BY <1>2, SizeKept
<1> QED BY <1>1, <1>2, <1>3, DecryptsEncrypted

\* While the hardware decrypts, there is one thing a Read comes to.
LEMMA OneContent ==
  ASSUME NEW decrypted \in BOOLEAN, decrypted
  PROVE  FileContents(decrypted) = {FileContent}
  BY DEF FileContents

LEMMA InitData == Init => DataInv
<1> SUFFICES ASSUME Init PROVE DataInv
  OBVIOUS
<1>1. useEncryption \in BOOLEAN /\ given = <<>> /\ answer = NoAnswer
  BY DEF Init
<1>2. Readable
  BY <1>1 DEF Readable
<1>3. RoundTrip /\ SizeAnswered
  BY <1>1 DEF RoundTrip, SizeAnswered, NoAnswer
<1> QED BY <1>1, <1>2, <1>3 DEF DataInv

\* The file of a Save can be read; there is no answer yet.
LEMMA SaveData ==
  ASSUME ~Aligned, DataInv, Save
  PROVE  DataInv'
<1>1. /\ useEncryption \in BOOLEAN /\ useEncryption' = useEncryption
      /\ answer' = answer /\ answer = NoAnswer
  BY DEF DataInv, Save
<1>2. PICK data \in Files :
        /\ given' = data
        /\ \E old \in {0, 1} :
             hdr' = EntrySize(IF useEncryption THEN CryptLength(Len(data)) ELSE Len(data), old)
        /\ blocks' = IF useEncryption THEN Encrypt(data) ELSE <<data>>
  BY DEF Save
<1>3. PICK old \in {0, 1} :
        hdr' = EntrySize(IF useEncryption THEN CryptLength(Len(data)) ELSE Len(data), old)
  BY <1>2
<1>4. data \in Seq(Bytes) /\ data # <<>>
  BY FilesAreBytes
<1>5. FileContent' = data
  <2>1. CASE useEncryption
    <3>1. FileContent' = Decrypt(Read(blocks', FileSize(hdr') \div AES_BLOCK_SIZE, <<>>))
      BY <1>1, <2>1 DEF FileContent, StoredBlocks
    <3> QED BY <1>2, <1>3, <2>1, <3>1, SavedEncrypted
  <2>2. CASE ~useEncryption
    <3>1. FileContent' = Read(blocks'[1], FileSize(hdr'), Garbage)
      BY <1>1, <2>2 DEF FileContent
    <3> QED BY <1>2, <1>3, <2>2, <3>1, SavedPlain
  <2> QED BY <1>1, <2>1, <2>2
<1>6. Readable'
  BY <1>2, <1>5 DEF Readable
<1>7. RoundTrip' /\ SizeAnswered'
  BY <1>1 DEF RoundTrip, SizeAnswered, NoAnswer
<1> QED BY <1>1, <1>2, <1>4, <1>6, <1>7 DEF DataInv

\* A block that changes takes the file's word back: no answer counts before it
\* is read anew.
LEMMA DamageData ==
  ASSUME DataInv, Damage
  PROVE  DataInv'
<1>1. /\ damaged' = TRUE /\ answer' = NoAnswer /\ given # <<>>
      /\ useEncryption' = useEncryption /\ given' = given
  BY DEF Damage
<1>2. Readable'
  BY <1>1 DEF Readable
<1>3. RoundTrip' /\ SizeAnswered'
  BY <1>1 DEF RoundTrip, SizeAnswered, NoAnswer
<1> QED BY <1>1, <1>2, <1>3 DEF DataInv

LEMMA ReadSizeData ==
  ASSUME DataInv, ReadSize
  PROVE  DataInv'
<1>1. given # <<>> /\ UNCHANGED <<useEncryption, given, hdr, blocks, damaged>>
  BY DEF ReadSize
<1>2. PICK decrypted \in BOOLEAN :
        \E content \in FileContents(decrypted) :
          answer' = [ret |-> "OK", asked |-> -1, size |-> Len(content), data |-> <<>>,
                     decrypted |-> decrypted]
  BY DEF ReadSize
<1>3. FileContent' = FileContent
  BY <1>1 DEF FileContent, StoredBlocks
<1>4. Readable'
  BY <1>1, <1>3 DEF DataInv, Readable
<1>5. RoundTrip'
  BY <1>2 DEF RoundTrip
<1>6. SizeAnswered'
  <2>1. answer'.decrypted => answer'.size = Len(FileContent)
    <3> SUFFICES ASSUME answer'.decrypted PROVE answer'.size = Len(FileContent)
      OBVIOUS
    <3>1. answer'.decrypted = decrypted
      BY <1>2
    <3>2. decrypted
      BY <3>1
    <3>3. PICK content \in FileContents(decrypted) :
            answer' = [ret |-> "OK", asked |-> -1, size |-> Len(content),
                       data |-> <<>>, decrypted |-> decrypted]
      BY <1>2
    <3>4. content = FileContent
      BY <3>2, <3>3, OneContent
    <3>5. answer'.size = Len(content)
      BY <3>3
    <3> QED BY <3>4, <3>5
  <2>2. ~damaged => FileContent = given
    BY <1>1 DEF DataInv, Readable
  <2> QED BY <1>1, <2>1, <2>2 DEF SizeAnswered
<1> QED BY <1>1, <1>4, <1>5, <1>6 DEF DataInv

LEMMA ReadDataData ==
  ASSUME DataInv, ReadData
  PROVE  DataInv'
<1>1. given # <<>> /\ UNCHANGED <<useEncryption, given, hdr, blocks, damaged>>
  BY DEF ReadData
<1>2. PICK asked \in 0..MaxBuffer, decrypted \in BOOLEAN :
        \E content \in FileContents(decrypted) :
          answer' = [ret  |-> Verified, asked |-> asked,
                     size |-> Copied(asked, Len(content)),
                     data |-> SubSeq(content, 1, Copied(asked, Len(content))),
                     decrypted |-> decrypted]
  BY DEF ReadData
<1>3. FileContent' = FileContent
  BY <1>1 DEF FileContent, StoredBlocks
<1>4. Readable'
  BY <1>1, <1>3 DEF DataInv, Readable
<1>5. RoundTrip'
  <2> SUFFICES ASSUME answer'.ret = "OK", answer'.decrypted
               PROVE  answer'.data = SubSeq(given', 1, Copied(answer'.asked, Len(given')))
    BY DEF RoundTrip
  <2>1. ~damaged
    BY <1>2 DEF Verified
  <2>2. FileContent = given
    BY <1>1, <2>1 DEF DataInv, Readable
  <2>3. answer'.decrypted = decrypted
    BY <1>2
  <2>4. decrypted
    BY <2>3
  <2>5. PICK content \in FileContents(decrypted) :
          answer' = [ret  |-> Verified, asked |-> asked,
                     size |-> Copied(asked, Len(content)),
                     data |-> SubSeq(content, 1, Copied(asked, Len(content))),
                     decrypted |-> decrypted]
    BY <1>2
  <2>6. content = given
    BY <2>2, <2>4, <2>5, OneContent
  <2>7. /\ answer'.asked = asked
        /\ answer'.data = SubSeq(content, 1, Copied(asked, Len(content)))
    BY <2>5
  <2> QED BY <1>1, <2>6, <2>7
<1>6. SizeAnswered'
  <2>1. answer'.asked # -1
    BY <1>2, DataAssumption
  <2> QED BY <2>1 DEF SizeAnswered
<1> QED BY <1>1, <1>4, <1>5, <1>6 DEF DataInv

LEMMA NextData ==
  ASSUME ~Aligned, DataInv, [Next]_vars
  PROVE  DataInv'
<1>1. CASE Save
  BY <1>1, SaveData
<1>2. CASE Damage
  BY <1>2, DamageData
<1>3. CASE ReadSize
  BY <1>3, ReadSizeData
<1>4. CASE ReadData
  BY <1>4, ReadDataData
<1>5. CASE UNCHANGED vars
  <2>1. /\ useEncryption' = useEncryption /\ given' = given /\ hdr' = hdr
        /\ blocks' = blocks /\ damaged' = damaged /\ answer' = answer
    BY <1>5 DEF vars
  <2>2. FileContent' = FileContent
    BY <2>1 DEF FileContent, StoredBlocks
  <2> QED BY <2>1, <2>2 DEF DataInv, Readable, RoundTrip, SizeAnswered
<1> QED BY <1>1, <1>2, <1>3, <1>4, <1>5 DEF Next

LEMMA DataHolds ==
  ASSUME ~Aligned
  PROVE  Spec => []DataInv
<1>1. Init => DataInv
  BY InitData
<1>2. DataInv /\ [Next]_vars => DataInv'
  BY NextData
<1> QED BY <1>1, <1>2, PTL DEF Spec

-----------------------------------------------------------------------------
\* A Read that returns OK gives back what the last Save was given, or as much of
\* it as was asked for: for every block size, size of the header field and
\* bytes, although padding is only recognised by its bytes
\* (SLN_FLASH_MGMT_Save, SLN_FLASH_MGMT_Read), and whatever the hardware did at
\* earlier Reads.
THEOREM FilesRoundTrip ==
  ASSUME ~Aligned
  PROVE  Spec => []RoundTrip
<1>1. DataInv => RoundTrip
  BY DEF DataInv
<1> QED BY <1>1, DataHolds, PTL

\* Asking for the size alone gives the length of the data and not that of the
\* padded blocks, which is what the header counts (get_file_data with no
\* buffer).
THEOREM FileSizesAnswered ==
  ASSUME ~Aligned
  PROVE  Spec => []SizeAnswered
<1>1. DataInv => SizeAnswered
  BY DEF DataInv
<1> QED BY <1>1, DataHolds, PTL

=============================================================================
