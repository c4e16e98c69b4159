------------------------- MODULE InstallerDisk_proofs -------------------------
(***************************************************************************)
(* Theorems about the installer disk, for every number of files and every  *)
(* size of partition, sector and buffer that fits the integers of the code.*)
(***************************************************************************)
EXTENDS InstallerDisk, SequenceTheorems, TLAPS

(* The n bytes of the disk from an address on.                             *)
Image(from, n) ==
    [i \in 1 .. n |-> IF from + i - 1 < Size THEN from + i - 1 ELSE Blank]

GapsInv ==
    /\ \A f \in Index : files[f] = "absent" /\ f < seed => f \in spoiled
    /\ \A f \in Index : files[f] = "torn" => f \in spoiled \/ (writing /\ f = seed)

DiskInv == DiskTypeOK /\ GapsInv /\ Len(got) <= Asked /\ TransferIsImage

-----------------------------------------------------------------------------
(* The capacity that msc.begin announces exceeds the partition by less     *)
(* than a sector, and its last byte still has a 32-bit address.            *)
LEMMA Capacity ==
    /\ sector_count \in Nat
    /\ sector_count * SectorSize < Size + SectorSize
<1> DEFINE s == Size + (SectorSize - 1)
<1>1. s \in Nat /\ s < Word /\ SectorSize \in Nat \ {0} /\ Size \in Nat /\ Word \in Nat
  BY DiskAssumption
<1>2. s % Word = s
  BY <1>1
<1>3. s \div SectorSize \in Nat /\ (s \div SectorSize) * SectorSize <= s
  BY <1>1
<1>4. sector_count = s \div SectorSize
  BY <1>2 DEF sector_count
<1>5. s < Size + SectorSize
  BY <1>1
<1> HIDE DEF s
<1> QED
  BY <1>1, <1>3, <1>4, <1>5

(* A request's bytes lie within that capacity.                             *)
LEMMA RequestBound ==
    ASSUME NEW r \in Requests
    PROVE  /\ r.lba \in Nat /\ r.blocks \in Nat
           /\ r.lba * SectorSize \in Nat /\ r.blocks * SectorSize \in Nat
           /\ r.lba * SectorSize + r.blocks * SectorSize < Size + SectorSize
<1>1. r.lba \in Nat /\ r.blocks \in Nat /\ r.lba + r.blocks <= sector_count
  BY Capacity DEF Requests
<1>2. SectorSize \in Nat /\ Size \in Nat
  BY DiskAssumption
<1>3. (r.lba + r.blocks) * SectorSize <= sector_count * SectorSize
  BY <1>1, <1>2, Capacity
<1>4. /\ r.lba * SectorSize + r.blocks * SectorSize = (r.lba + r.blocks) * SectorSize
      /\ r.lba * SectorSize \in Nat /\ r.blocks * SectorSize \in Nat
  BY <1>1, <1>2
<1> QED
  BY <1>1, <1>2, <1>3, <1>4, Capacity

(* One call of msc_read_func, d bytes into a transfer: no sum overflows,   *)
(* and the bytes are those of the reference.                               *)
LEMMA ReadExact ==
    ASSUME NEW lba \in Nat, NEW d \in Nat, NEW n \in Nat,
           lba * SectorSize + d + n < Size + SectorSize
    PROVE  msc_read_func(lba + d \div SectorSize, d % SectorSize, n) =
               Image(lba * SectorSize + d, n)
<1> DEFINE q == d \div SectorSize
           a == lba * SectorSize + d
<1>1. SectorSize \in Nat \ {0} /\ Size \in Nat /\ Word \in Nat \ {0} /\ Size + SectorSize <= Word
  BY DiskAssumption
<1>2. q \in Nat /\ d % SectorSize \in Nat /\ q * SectorSize + (d % SectorSize) = d
  BY <1>1
<1>3. (lba + q) * SectorSize = lba * SectorSize + q * SectorSize
  BY <1>1, <1>2
<1>4. a \in Nat /\ a + n < Word
  BY <1>1
<1>5. ((lba + q) * SectorSize + (d % SectorSize)) % Word = a
  <2>1. lba * SectorSize \in Nat /\ q * SectorSize \in Nat
    BY <1>1, <1>2
  <2>2. (lba + q) * SectorSize + (d % SectorSize) = a
    BY <1>2, <1>3, <2>1
  <2> QED
    BY <1>1, <1>4, <2>2
<1>6. (a + n) % Word = a + n
  BY <1>1, <1>4
<1> HIDE DEF q, a
<1>7. msc_read_func(lba + q, d % SectorSize, n) = Image(a, n)
  BY <1>1, <1>4, <1>5, <1>6 DEF msc_read_func, Image
<1> QED
  BY <1>7 DEF q, a

-----------------------------------------------------------------------------
LEMMA DiskInitInv == Init => DiskInv
<1> SUFFICES ASSUME Init PROVE DiskInv
  OBVIOUS
<1>1. Asked = 0 /\ Len(got) = 0
  BY DiskAssumption DEF Init, Asked, Idle
<1>2. DiskTypeOK
  <2>1. got \in Seq(Nat \cup {Blank}) /\ seed \in 0 .. Done
    BY DiskAssumption DEF Init, Done
  <2> QED
    BY <2>1 DEF Init, DiskTypeOK
<1>3. GapsInv
  BY DiskAssumption DEF Init, GapsInv, Index
<1> QED
  BY <1>1, <1>2, <1>3 DEF DiskInv, TransferIsImage

LEMMA ReadInv == DiskInv /\ Read => DiskInv'
<1> SUFFICES ASSUME DiskInv, Read PROVE DiskInv'
  OBVIOUS
<1> DEFINE d == Len(got)
           base == request.lba * SectorSize
           Byte(k) == IF k < Size THEN k ELSE Blank
<1>1. PICK n \in 1 .. MaxBuf :
          /\ d + n <= Asked
          /\ got' = got \o msc_read_func(request.lba + d \div SectorSize,
                                         d % SectorSize, n)
  BY DEF Read
<1>2. request \in Requests /\ UNCHANGED <<seedVars, media, request>>
  BY DEF Read, DiskInv, DiskTypeOK
<1>3. n \in Nat /\ d \in Nat /\ got \in Seq(Nat \cup {Blank})
  BY DiskAssumption DEF DiskInv, DiskTypeOK
<1>4. request.lba \in Nat /\ base \in Nat /\ Asked \in Nat /\ base + d + n < Size + SectorSize
  <2>1. /\ request.lba \in Nat /\ base \in Nat /\ Asked \in Nat
        /\ base + Asked < Size + SectorSize
    BY <1>2, RequestBound DEF Asked
  <2>2. d + n <= Asked
    BY <1>1
  <2>3. Size \in Nat /\ SectorSize \in Nat
    BY DiskAssumption
  <2> HIDE DEF d, base
  <2> QED
    BY <1>3, <2>1, <2>2, <2>3
<1> HIDE DEF d, base
<1>5. got' = got \o Image(base + d, n)
  <2>1. request.lba * SectorSize + d + n < Size + SectorSize
    BY <1>4 DEF base
  <2>2. msc_read_func(request.lba + d \div SectorSize, d % SectorSize, n) =
            Image(request.lba * SectorSize + d, n)
    BY <1>3, <1>4, <2>1, ReadExact
  <2> QED
    BY <1>1, <2>2 DEF base
<1>6. Image(base + d, n) \in Seq(Nat \cup {Blank}) /\ Len(Image(base + d, n)) = n
  <2>1. Size \in Nat
    BY DiskAssumption
  <2>2. Image(base + d, n) \in Seq(Nat \cup {Blank})
    BY <1>3, <1>4, <2>1 DEF Image
  <2>3. Len(Image(base + d, n)) = n
    <3>1. DOMAIN Image(base + d, n) = 1 .. n
      BY DEF Image
    <3>2. /\ Len(Image(base + d, n)) \in Nat
          /\ DOMAIN Image(base + d, n) = 1 .. Len(Image(base + d, n))
      BY <2>2, LenProperties
    <3>3. \A k \in Nat : 1 .. k = 1 .. n => k = n
      BY <1>3
    <3> QED
      BY <3>1, <3>2, <3>3
  <2> QED
    BY <2>2, <2>3
<1>7. Len(got') = d + n /\ got' \in Seq(Nat \cup {Blank})
  BY <1>3, <1>5, <1>6, ConcatProperties DEF d
<1>8. TransferIsImage'
  <2> SUFFICES ASSUME NEW i \in 1 .. d + n PROVE got'[i] = Byte(base + i - 1)
    BY <1>2, <1>7 DEF TransferIsImage, base
  <2>1. CASE i <= d
    BY <1>3, <1>5, <1>6, <2>1 DEF DiskInv, TransferIsImage, d, base
  <2>2. CASE i > d
    <3>1. i - d \in 1 .. n /\ base + d + (i - d) - 1 = base + i - 1
      BY <1>3, <1>4, <2>2
    <3>2. Image(base + d, n)[i - d] = Byte(base + d + (i - d) - 1)
      BY <3>1 DEF Image
    <3>3. got'[i] = Image(base + d, n)[i - d]
      BY <1>3, <1>5, <1>6, <2>2, <3>1 DEF d
    <3> QED
      BY <3>1, <3>2, <3>3
  <2> QED
    BY <1>3, <2>1, <2>2
<1>9. (DiskTypeOK /\ GapsInv)'
  BY <1>2, <1>7 DEF DiskInv, DiskTypeOK, GapsInv, seedVars
<1> QED
  BY <1>1, <1>2, <1>7, <1>8, <1>9 DEF DiskInv, Asked

(* The transfer is untouched by the seeding, and the files by the reads.   *)
LEMMA SeedInv == DiskInv /\ Seeding => DiskInv'
<1> SUFFICES ASSUME DiskInv, Seeding PROVE DiskInv'
  OBVIOUS
<1> USE DiskAssumption DEF DiskInv, DiskTypeOK, GapsInv, Index, Done, mscVars
<1>1. UNCHANGED mscVars
  BY DEF Seeding, MountDisk, FormatDisk, FormatFails, FileThere, CreateFile,
         CreateFails, WriteFile, ShortWrite
<1>2. (Len(got) <= Asked /\ TransferIsImage)'
  BY <1>1 DEF Asked, TransferIsImage
<1>3. (DiskTypeOK /\ GapsInv)'
  <2>1. CASE MountDisk
    BY <2>1 DEF MountDisk
  <2>2. CASE FormatDisk
    <3>1. /\ damaged' \in BOOLEAN /\ writing' \in BOOLEAN /\ media' \in BOOLEAN
      BY <2>2 DEF FormatDisk
    <3>2. DiskTypeOK'
      BY <2>2, <3>1 DEF FormatDisk
    <3>3. GapsInv'
      BY <2>2 DEF FormatDisk
    <3> QED
      BY <3>2, <3>3
  <2>3. CASE FormatFails
    BY <2>3 DEF FormatFails
  <2>4. CASE FileThere
    BY <2>4 DEF FileThere
  <2>5. CASE CreateFile
    BY <2>5 DEF CreateFile
  <2>6. CASE CreateFails
    BY <2>6 DEF CreateFails
  <2>7. CASE WriteFile
    <3>1. /\ damaged' \in BOOLEAN /\ writing' \in BOOLEAN /\ media' \in BOOLEAN
      BY <2>7 DEF WriteFile
    <3>2. DiskTypeOK'
      BY <2>7, <3>1 DEF WriteFile
    <3>3. GapsInv'
      BY <2>7 DEF WriteFile
    <3> QED
      BY <3>2, <3>3
  <2>8. CASE ShortWrite
    <3>1. /\ damaged' \in BOOLEAN /\ writing' \in BOOLEAN /\ media' \in BOOLEAN
      BY <2>8 DEF ShortWrite
    <3>2. DiskTypeOK'
      BY <2>8, <3>1 DEF ShortWrite
    <3>3. GapsInv'
      BY <2>8 DEF ShortWrite
    <3> QED
      BY <3>2, <3>3
  <2> QED
    BY <2>1, <2>2, <2>3, <2>4, <2>5, <2>6, <2>7, <2>8 DEF Seeding
<1> QED
  BY <1>2, <1>3

LEMMA DiskNextInv == DiskInv /\ [Next]_vars => DiskInv'
<1> SUFFICES ASSUME DiskInv, [Next]_vars PROVE DiskInv'
  OBVIOUS
<1>1. CASE Seeding
  BY <1>1, SeedInv
<1>2. CASE Read
  BY <1>2, ReadInv
<1>3. CASE MscBegin
  BY <1>3 DEF MscBegin, DiskInv, DiskTypeOK, GapsInv, TransferIsImage, Asked, seedVars
<1>4. CASE StartRead
  <2>1. (DiskTypeOK /\ GapsInv)'
    BY <1>4 DEF StartRead, DiskInv, DiskTypeOK, GapsInv, seedVars
  <2>2. Len(got') = 0 /\ request' \in Requests
    BY <1>4 DEF StartRead
  <2>3. Asked' \in Nat
    BY <2>2, RequestBound DEF Asked
  <2> QED
    BY <2>1, <2>2, <2>3 DEF DiskInv, TransferIsImage
<1>5. CASE ReadEnds \/ PowerCut
  <2>1. (DiskTypeOK /\ GapsInv)'
    <3>1. CASE ReadEnds
      BY <1>5, <3>1 DEF ReadEnds, DiskInv, DiskTypeOK, GapsInv, seedVars
    <3>2. CASE PowerCut
      <4>1. /\ damaged' \in BOOLEAN /\ writing' \in BOOLEAN /\ media' \in BOOLEAN
            /\ ~writing' /\ spoiled' \subseteq Index
        BY <3>2 DEF PowerCut, DiskInv, DiskTypeOK
      <4>2. /\ seed' \in 0 .. Done /\ request' = Idle /\ got' = << >> /\ files' = files
        BY <3>2, DiskAssumption DEF PowerCut, Done
      <4>3. DiskTypeOK'
        BY <4>1, <4>2 DEF DiskInv, DiskTypeOK
      <4>4. GapsInv'
        BY <3>2, DiskAssumption DEF PowerCut, DiskInv, DiskTypeOK, GapsInv, Index
      <4> QED
        BY <4>3, <4>4
    <3> QED
      BY <1>5, <3>1, <3>2
  <2>2. Len(got') = 0 /\ Asked' = 0
    BY <1>5, DiskAssumption DEF ReadEnds, PowerCut, Asked, Idle
  <2> QED
    BY <2>1, <2>2 DEF DiskInv, TransferIsImage
<1>6. CASE UNCHANGED vars
  BY <1>6 DEF vars, seedVars, mscVars, DiskInv, DiskTypeOK, GapsInv, TransferIsImage, Asked
<1> QED
  BY <1>1, <1>2, <1>3, <1>4, <1>5, <1>6 DEF Next, Usb

LEMMA AlwaysDiskInv == Spec => []DiskInv
  BY DiskInitInv, DiskNextInv, PTL DEF Spec

(* The variables of the disk keep their types.                             *)
THEOREM DiskTypeCorrect == Spec => []DiskTypeOK
<1>1. DiskInv => DiskTypeOK
  BY DEF DiskInv
<1> QED
  BY <1>1, AlwaysDiskInv, PTL

(* The computer receives the bytes of the partition, and zeros beyond it,  *)
(* for all sizes whose sum fits in the code's 32-bit integers.             *)
THEOREM TransferAlwaysImage == Spec => []TransferIsImage
<1>1. DiskInv => TransferIsImage
  BY DEF DiskInv
<1> QED
  BY <1>1, AlwaysDiskInv, PTL

(* Once seeding is done, an installer file is missing or truncated only if *)
(* its own last seeding failed, for any number of files and boots.         *)
THEOREM GapsOnlyByFaults == Spec => []GapsAreFaults
<1>1. DiskInv => GapsAreFaults
  BY DiskAssumption DEF DiskInv, DiskTypeOK, GapsInv, GapsAreFaults, Index, Done
<1> QED
  BY <1>1, AlwaysDiskInv, PTL
=============================================================================
