----------------------------- MODULE InodeTable -----------------------------
(***************************************************************************)
(* The root directory's operations of the kernel module and the inode      *)
(* bitmap: sjfs_iops_create, sjfs_iops_unlink and sjfs_iops_rename over    *)
(* inodes_bitmaps_cache.                                                   *)
(*                                                                         *)
(* The sizes are parameters: in the code a byte has 8 bits, the scan       *)
(* covers sizeof(SJFS_BLOCKSIZE) = 4 bytes, the cache has 1024, and the    *)
(* number 8 * i + j leaves the int range from byte i = 2^28 on, where it   *)
(* wraps to a negative value (the kernel is built with                     *)
(* -fno-strict-overflow).  The memory after the cache is whatever the      *)
(* allocator put there, up to the end of the mapping.                      *)
(*                                                                         *)
(* A write to a wild address has an open outcome: nothing that this model  *)
(* sees, or an oops, after which the thread holds the directory's lock for *)
(* good.  sjfs_write_block sends nothing, so no operation changes the      *)
(* disk.                                                                   *)
(***************************************************************************)
EXTENDS Integers, FiniteSetsExt

CONSTANTS
    Names,          \* names of files in the root directory
    None,           \* no file
    Bits,           \* bits of a byte
    ScanBytes,      \* sizeof(SJFS_BLOCKSIZE)
    CacheBytes,     \* SJFS_BLOCKSIZE
    IntBytes,       \* byte whose first number does not fit in an int
    MappedBytes     \* possible ends of the mapped memory, from the cache on

ASSUME TableAssumption ==
    /\ Bits \in Nat \ {0} /\ ScanBytes \in Nat \ {0}
    /\ CacheBytes \in Nat /\ IntBytes \in Nat /\ MappedBytes \subseteq Nat
    /\ ScanBytes <= CacheBytes /\ CacheBytes <= IntBytes
    /\ \A n \in MappedBytes : n >= CacheBytes
    /\ None \notin Int

VARIABLES
    memory,     \* the bits that are set in each byte of the cache and after it
    files,      \* inode number of each file, or None
    oops        \* the directory is locked for good

vars == <<memory, files, oops>>

Bit == 0 .. Bits - 1
IntEnd == Bits * IntBytes
Wrap(n) == IF n < IntEnd THEN n ELSE n - 2 * IntEnd
Unmapped == IntEnd      \* outcome of a scan that leaves the mapped memory

(* Mutant of Searching: a number of 0 also makes the loop go on.           *)
SearchingOnwards(i, number) == i < ScanBytes \/ number >= 0

(* The condition of the loop over the bytes.                               *)
Searching(i, number) == i < ScanBytes \/ number > 0

(* The number after the bytes below i: the lowest free bit of each byte    *)
(* replaces it, so it is that of the last byte that has one.               *)
Found(i) ==
    LET free == {k \in 0 .. i - 1 : ~(Bit \subseteq memory[k])}
    IN  IF free = {} THEN 0
        ELSE Wrap(Bits * Max(free) + Min(Bit \ memory[Max(free)]))

(* The loop ends before the first byte for which its condition fails.      *)
Scan ==
    LET ends == {i \in 0 .. Cardinality(DOMAIN memory) : ~Searching(i, Found(i))}
    IN  IF ends = {} THEN Unmapped ELSE Found(Min(ends))

(* The byte and the bit of a number, as create and unlink compute them:    *)
(* the byte is not divided by the size of a byte.                          *)
InodeBit(number) == number % Bits
InodeByte(number) == number - InodeBit(number)

(* A bit is set or cleared in memory that the model sees, or elsewhere.    *)
Touch(number, used) ==
    IF InodeByte(number) \in DOMAIN memory
    THEN /\ memory' = [memory EXCEPT ![InodeByte(number)] =
                           IF used THEN @ \cup {InodeBit(number)} ELSE @ \ {InodeBit(number)}]
         /\ UNCHANGED oops
    ELSE oops' \in BOOLEAN /\ UNCHANGED memory

(* Mutant of NoInodeFree: a number of 0 is taken.                          *)
NoInodeFreeNever(number) == FALSE

NoInodeFree(number) == number = 0

(* sjfs_set_disk_inode, where it shows: i_private is NULL, the block never *)
(* comes, or the copy goes past the end of the buffer (its offset is the   *)
(* number modulo the block size).                                          *)
SetDiskInodeStops == oops' = TRUE /\ UNCHANGED <<memory, files>>

(* sjfs_iops_create: no memory for the inode; ENOSPC, with the inode       *)
(* forgotten; the scan leaves the mapping; or a new file.                  *)
Create(n) ==
    /\ ~oops /\ files[n] = None
    /\ \/ UNCHANGED vars
       \/ NoInodeFree(Scan) /\ UNCHANGED vars
       \/ Scan = Unmapped /\ oops' = TRUE /\ UNCHANGED <<memory, files>>
       \/ /\ Scan # Unmapped /\ ~NoInodeFree(Scan)
          /\ \/ SetDiskInodeStops
             \/ /\ Touch(Scan, TRUE)
                /\ files' = [files EXCEPT ![n] = IF oops' THEN None ELSE Scan]

(* sjfs_iops_unlink.                                                       *)
Unlink(n) ==
    /\ ~oops /\ files[n] # None
    /\ Touch(files[n], FALSE)
    /\ files' = [files EXCEPT ![n] = IF oops' THEN @ ELSE None]

(* sjfs_iops_rename returns 0, whereupon the VFS moves the dentry; a file  *)
(* that was there goes without unlink.                                     *)
Rename(n, m) ==
    /\ ~oops /\ files[n] # None /\ n # m
    /\ files' = [files EXCEPT ![m] = files[n], ![n] = None]
    /\ UNCHANGED <<memory, oops>>

(* sjfs_fill_super has found the last bit of the first byte set.           *)
Init ==
    /\ \E size \in MappedBytes : memory \in [0 .. size - 1 -> SUBSET Bit]
    /\ Bits - 1 \in memory[0]
    /\ files = [n \in Names |-> None]
    /\ oops = FALSE

(* The rest of the kernel (external) changes the memory after the cache.   *)
Elsewhere ==
    /\ \E i \in DOMAIN memory \ 0 .. CacheBytes - 1, b \in SUBSET Bit :
            memory' = [memory EXCEPT ![i] = b]
    /\ UNCHANGED <<files, oops>>

(* The next operation on the locked directory never ends.                  *)
Stopped == oops /\ UNCHANGED vars

Next ==
    \/ \E n \in Names : Create(n) \/ Unlink(n)
    \/ \E n, m \in Names : Rename(n, m)
    \/ Elsewhere
    \/ Stopped

Spec == Init /\ [][Next]_vars

-----------------------------------------------------------------------------
(***************************************************************************)
(* Properties.                                                             *)
(***************************************************************************)

(* Every variable keeps its type; no file gets the root's number 0.        *)
TypeOK ==
    /\ memory \in [DOMAIN memory -> SUBSET Bit]
    /\ files \in [Names -> ((-IntEnd .. IntEnd - 1) \ {0}) \cup {None}]
    /\ oops \in BOOLEAN

(* A scan that meets no free bit is the end of sjfs_iops_create: it does   *)
(* not go on into the rest of the cache and the memory after it, and no    *)
(* file gets a number that no file had before.                             *)
ScanIsFull == \A k \in 0 .. ScanBytes - 1 : Bit \subseteq memory[k]

FullTableRefuses ==
    [][ScanIsFull => \A n \in Names : files'[n] # None => \E m \in Names : files[m] = files'[n]]_vars

(* What the comments of sjfs_iops_create ("get next free inode number",    *)
(* "set the inode bitmap bit") say: the number of every file is one of the *)
(* bitmap's, and its bit is set.  The loop does not stop at a free number  *)
(* but only at one that overflowed.                                        *)
BitmapRecordsFiles ==
    \A n \in Names : files[n] # None =>
        /\ files[n] \in 0 .. Bits * CacheBytes - 1
        /\ files[n] % Bits \in memory[files[n] \div Bits]
=============================================================================
