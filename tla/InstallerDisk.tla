---------------------------- MODULE InstallerDisk ----------------------------
(***************************************************************************)
(* The FFat partition of the dongle: ensure_ffat_seed (ffat_seed.cpp)      *)
(* writes the installer files that are missing, and usb_msc.cpp shows the  *)
(* partition to the computer as a read-only disk.  main.cpp calls neither; *)
(* here a boot may call both, in any order.  Power is cut at any step.     *)
(***************************************************************************)
EXTENDS Integers, Sequences

CONSTANTS
    NFiles,      \* files to seed, in the order of the code
    Size,        \* ffat_part->size, in bytes
    SectorSize,  \* SECTOR_SIZE
    MaxBuf,      \* the largest buffer the USB stack asks to fill
    Word         \* 2^32, the range of uint32_t

(* partitions.csv gives the partition 0x160000 bytes, far below 2^32.      *)
ASSUME DiskAssumption ==
    /\ {NFiles, Size, SectorSize, MaxBuf, Word} \subseteq Nat \ {0}
    /\ Size + SectorSize <= Word

VARIABLES
    files,    \* the file of each index
    damaged,  \* whether FFat.begin finds no file system
    seed,     \* the file ensure_ffat_seed is at; 0 before it runs
    writing,  \* whether it has created that file
    spoiled,  \* history: files whose last seeding failed or lost its power
    media,    \* mediaPresent
    request,  \* the READ that the computer waits for
    got       \* the bytes it has received: the address of each, or Blank

seedVars == <<files, damaged, seed, writing, spoiled>>
mscVars  == <<media, request, got>>
vars     == <<seedVars, mscVars>>

Blank == -1
Idle  == [lba |-> 0, blocks |-> 0]
Index == 1 .. NFiles
Done  == NFiles + 1

sector_count == ((Size + (SectorSize - 1)) % Word) \div SectorSize
Requests == {r \in [lba : 0 .. sector_count - 1, blocks : 1 .. sector_count] :
                 r.lba + r.blocks <= sector_count}

DiskTypeOK ==
    /\ files \in [Index -> {"absent", "torn", "seeded", "uploaded"}]
    /\ damaged \in BOOLEAN /\ writing \in BOOLEAN /\ media \in BOOLEAN
    /\ spoiled \subseteq Index
    /\ seed \in 0 .. Done
    /\ writing => seed \in Index /\ files[seed] = "torn"
    /\ request \in Requests \cup {Idle}
    /\ got \in Seq(Nat \cup {Blank})

(* A new flash, or an image that uploadfs has put there.                   *)
Init ==
    /\ files \in [Index -> {"absent", "uploaded"}] /\ damaged \in BOOLEAN
    /\ seed = 0 /\ writing = FALSE /\ spoiled = {}
    /\ media = FALSE /\ request = Idle /\ got = << >>

-----------------------------------------------------------------------------
(* FFat.begin(false) mounts what is there.                                 *)
MountDisk ==
    /\ seed = 0 /\ ~damaged /\ seed' = 1
    /\ UNCHANGED <<files, damaged, writing, spoiled, mscVars>>

FormatDisk ==
    /\ seed = 0 /\ damaged /\ seed' = 1
    /\ files' = [f \in Index |-> "absent"] /\ damaged' = FALSE
    /\ spoiled' = {}
    /\ UNCHANGED <<writing, mscVars>>

FormatFails ==
    /\ seed = 0 /\ damaged /\ seed' = Done /\ spoiled' = Index
    /\ UNCHANGED <<files, damaged, writing, mscVars>>

(* FileThere, had the first file stood for all of them.                    *)
FirstIsEnough ==
    /\ seed \in Index /\ ~writing /\ files[seed] # "absent" /\ seed' = Done
    /\ UNCHANGED <<files, damaged, writing, spoiled, mscVars>>

(* write_file_if_missing only looks whether the file can be opened.        *)
FileThere ==
    /\ seed \in Index /\ ~writing /\ files[seed] # "absent" /\ seed' = seed + 1
    /\ UNCHANGED <<files, damaged, writing, spoiled, mscVars>>

(* A file whose opening for reading fails is taken for missing, whatever   *)
(* the reason, and FILE_WRITE truncates one that is there.                 *)
CreateFile ==
    /\ seed \in Index /\ ~writing
    /\ files' = [files EXCEPT ![seed] = "torn"] /\ writing' = TRUE
    /\ UNCHANGED <<damaged, seed, spoiled, mscVars>>

CreateFails ==
    /\ seed \in Index /\ ~writing
    /\ seed' = seed + 1 /\ spoiled' = spoiled \cup {seed}
    /\ UNCHANGED <<files, damaged, writing, mscVars>>

(* WriteFile, had it left its file open for the next one.                  *)
WriteNoClose ==
    /\ writing /\ seed' = seed + 1
    /\ files' = [files EXCEPT ![seed] = "seeded"] /\ spoiled' = spoiled \ {seed}
    /\ UNCHANGED <<damaged, writing, mscVars>>

WriteFile ==
    /\ writing /\ writing' = FALSE /\ seed' = seed + 1
    /\ files' = [files EXCEPT ![seed] = "seeded"] /\ spoiled' = spoiled \ {seed}
    /\ UNCHANGED <<damaged, mscVars>>

(* The result, w == len, is not looked at by ensure_ffat_seed.             *)
ShortWrite ==
    /\ writing /\ writing' = FALSE /\ seed' = seed + 1
    /\ spoiled' = spoiled \cup {seed}
    /\ UNCHANGED <<files, damaged, mscVars>>

-----------------------------------------------------------------------------
MscBegin ==
    /\ ~media /\ media' = TRUE
    /\ UNCHANGED <<seedVars, request, got>>

(* The computer reads within the capacity that it was told.                *)
StartRead ==
    /\ media /\ request = Idle /\ request' \in Requests /\ got' = << >>
    /\ UNCHANGED <<seedVars, media>>

(* msc_read_func, had the end of the partition been rounded to a sector.   *)
msc_read_sectors(lba, offset, bufsize) ==
    LET abs_off == (lba * SectorSize + offset) % Word
    IN  [i \in 1 .. bufsize |-> IF lba < sector_count THEN abs_off + i - 1 ELSE Blank]

(* What msc_read_func copies into the buffer.                              *)
msc_read_func(lba, offset, bufsize) ==
    LET abs_off == (lba * SectorSize + offset) % Word
        valid   == IF (abs_off + bufsize) % Word <= Size THEN bufsize
                   ELSE IF Size > abs_off THEN Size - abs_off ELSE 0
    IN  [i \in 1 .. bufsize |-> IF i <= valid THEN abs_off + i - 1 ELSE Blank]

Asked == request.blocks * SectorSize

(* The USB stack asks for as much as its buffer holds, again and again.    *)
Read ==
    /\ request # Idle
    /\ \E n \in 1 .. MaxBuf :
        /\ Len(got) + n <= Asked
        /\ got' = got \o msc_read_func(request.lba + Len(got) \div SectorSize,
                                       Len(got) % SectorSize, n)
    /\ UNCHANGED <<seedVars, media, request>>

(* The read is over; or the flash could not be read, and the stack gave up *)
(* (a callback that returns 0 and is repeated changes nothing).            *)
ReadEnds ==
    /\ request # Idle /\ request' = Idle /\ got' = << >>
    /\ UNCHANGED <<seedVars, media>>

(* Power cut while FAT is written may also damage the file system.         *)
PowerCut ==
    /\ seed' = 0 /\ writing' = FALSE /\ media' = FALSE
    /\ request' = Idle /\ got' = << >> /\ UNCHANGED files
    /\ spoiled' = IF writing THEN spoiled \cup {seed} ELSE spoiled
    /\ damaged' \in IF writing THEN BOOLEAN ELSE {damaged}

-----------------------------------------------------------------------------
Seeding == \/ MountDisk \/ FormatDisk \/ FormatFails \/ FileThere \/ CreateFile
           \/ CreateFails \/ WriteFile \/ ShortWrite

Usb == MscBegin \/ StartRead \/ Read \/ ReadEnds

Next == Seeding \/ Usb \/ PowerCut

Spec == Init /\ [][Next]_vars

-----------------------------------------------------------------------------
(* Whatever the sizes of sector and buffer, the computer receives the      *)
(* bytes it asked for, in order: those of the partition, and zeros in the  *)
(* part of the last sector that lies beyond it.                            *)
TransferIsImage ==
    \A i \in 1 .. Len(got) :
        LET address == request.lba * SectorSize + i - 1
        IN  got[i] = IF address < Size THEN address ELSE Blank

(* A file that stays absent or truncated although ensure_ffat_seed has     *)
(* returned (its results are not looked at) is one whose own seeding       *)
(* failed, at this boot or an earlier one: no fault of another file leaves *)
(* it out.                                                                 *)
GapsAreFaults ==
    seed = Done => \A f \in Index : files[f] \in {"absent", "torn"} => f \in spoiled
=============================================================================
