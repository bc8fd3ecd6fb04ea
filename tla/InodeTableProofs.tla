-------------------------- MODULE InodeTableProofs --------------------------
(***************************************************************************)
(* Proofs about InodeTable, for any sizes of the byte, of the scan, of the *)
(* cache and of the mapped memory, and any contents of that memory.        *)
(***************************************************************************)
EXTENDS InodeTable, WellFoundedInduction, FiniteSetTheorems, TLAPS

(***************************************************************************)
(* Least and greatest elements.                                            *)
(***************************************************************************)

LEMMA MinExists ==
    ASSUME NEW S \in SUBSET Nat, S # {}
    PROVE  Min(S) \in S /\ \A y \in S : Min(S) <= y
<1>1. \E x \in S : \A y \in S : ~(<<y, x>> \in OpToRel(<, Nat))
  BY NatLessThanWellFounded, WFMin
<1>2. PICK x \in S : \A y \in S : ~(<<y, x>> \in OpToRel(<, Nat))
  BY <1>1
<1>3. \A y \in S : x <= y
  <2> SUFFICES ASSUME NEW y \in S PROVE x <= y
    OBVIOUS
  <2>1. ~(y < x)
    BY <1>2 DEF OpToRel
  <2>2. QED
    BY <2>1
<1>4. QED
  BY <1>3 DEF Min

LEMMA MaxExists ==
    ASSUME NEW n \in Nat, NEW S \in SUBSET (0 .. n), S # {}
    PROVE  Max(S) \in S
<1> DEFINE T == {k \in Nat : \A y \in S : y <= k}
<1>1. n \in T
  OBVIOUS
<1>2. Min(T) \in T /\ \A k \in T : Min(T) <= k
  <2>1. T \in SUBSET Nat /\ T # {}
    BY <1>1
  <2> HIDE DEF T
  <2>2. QED
    BY <2>1, MinExists
<1>3. PICK k \in T : \A j \in T : k <= j
  BY <1>2
<1>4. k \in S
  <2> SUFFICES ASSUME k \notin S PROVE FALSE
    OBVIOUS
  <2>1. PICK y \in S : TRUE
    OBVIOUS
  <2>2. \A z \in S : z \in Nat /\ z < k
    BY <1>3
  <2>3. k - 1 \in T
    BY <2>1, <2>2, <1>3
  <2>4. QED
    BY <1>3, <2>3
<1>5. \A y \in S : k >= y
  BY <1>3
<1>6. QED
  BY <1>4, <1>5 DEF Max

-----------------------------------------------------------------------------
(***************************************************************************)
(* The numbers.                                                            *)
(***************************************************************************)

LEMMA Sizes == IntEnd \in Nat \ {0} /\ CacheBytes \in Nat \ {0}
<1>1. CacheBytes \in Nat \ {0} /\ IntBytes \in Nat \ {0} /\ Bits \in Nat \ {0}
  BY TableAssumption
<1>2. \A x, y \in Nat \ {0} : x * y \in Nat \ {0}
  OBVIOUS
<1>3. QED
  BY <1>1, <1>2 DEF IntEnd

(* Whatever the memory holds, the number that the loop has found before    *)
(* byte i is an int.                                                       *)
LEMMA FoundType ==
    ASSUME NEW i \in Nat
    PROVE  Found(i) \in Int /\ Found(i) >= -IntEnd
<1> DEFINE free == {k \in 0 .. i - 1 : ~(Bit \subseteq memory[k])}
<1>1. CASE free = {}
  BY <1>1, Sizes DEF Found
<1>2. CASE free # {}
  <2>1. Max(free) \in free
    <3>1. i - 1 \in Nat /\ free \in SUBSET (0 .. i - 1)
      BY <1>2
    <3> HIDE DEF free
    <3>2. QED
      BY <1>2, <3>1, MaxExists
  <2>2. Max(free) \in Nat /\ Bit \ memory[Max(free)] # {}
    <3>1. \A k \in free : k \in Nat /\ Bit \ memory[k] # {}
      OBVIOUS
    <3> HIDE DEF free
    <3>2. QED
      BY <2>1, <3>1
  <2>3. Bit \ memory[Max(free)] \in SUBSET Nat
    BY TableAssumption DEF Bit
  <2>4. Min(Bit \ memory[Max(free)]) \in Nat
    <3> HIDE DEF free
    <3>1. QED
      BY <2>2, <2>3, MinExists
  <2>5. Bits * Max(free) \in Nat
    <3>1. \A x, y \in Nat : x * y \in Nat
      OBVIOUS
    <3> HIDE DEF free
    <3>2. QED
      BY <2>2, <3>1, TableAssumption
  <2>6. Found(i) = Wrap(Bits * Max(free) + Min(Bit \ memory[Max(free)]))
    BY <1>2 DEF Found
  <2>7. \A n \in Nat : Wrap(n) \in Int /\ Wrap(n) >= -IntEnd
    BY Sizes DEF Wrap
  <2> HIDE DEF free
  <2>8. Bits * Max(free) + Min(Bit \ memory[Max(free)]) \in Nat
    BY <2>4, <2>5
  <2>9. QED
    BY <2>6, <2>7, <2>8
<1>3. QED
  BY <1>1, <1>2

(* The loop of sjfs_iops_create ends with a number only when that number   *)
(* is not positive: a free inode makes it go on.                           *)
LEMMA ScanResult == Scan = Unmapped \/ (Scan \in Int /\ Scan >= -IntEnd /\ Scan <= 0)
<1> DEFINE ends == {i \in 0 .. Cardinality(DOMAIN memory) : ~Searching(i, Found(i))}
<1>1. CASE ends = {}
  BY <1>1 DEF Scan
<1>2. CASE ends # {}
  <2>1. ends \in SUBSET Nat
    OBVIOUS
  <2>2. Min(ends) \in ends
    <3> HIDE DEF ends
    <3>1. QED
      BY <1>2, <2>1, MinExists
  <2>3. Min(ends) \in Nat /\ ~Searching(Min(ends), Found(Min(ends)))
    BY <2>2
  <2>4. Scan = Found(Min(ends))
    BY <1>2 DEF Scan
  <2> HIDE DEF ends
  <2>5. Found(Min(ends)) \in Int /\ Found(Min(ends)) >= -IntEnd
    BY <2>3, FoundType
  <2>6. ~(Found(Min(ends)) > 0)
    BY <2>3 DEF Searching
  <2>7. QED
    BY <2>4, <2>5, <2>6
<1>3. QED
  BY <1>1, <1>2

(* The byte that a negative number leads to is not in the cache, nor in    *)
(* the memory after it.                                                    *)
LEMMA NegativeByte ==
    ASSUME NEW n \in Int, n < 0
    PROVE  InodeByte(n) \in Int /\ InodeByte(n) < 0
<1>1. Bits \in Nat \ {0}
  BY TableAssumption
<1>2. n % Bits \in 0 .. Bits - 1
  BY <1>1
<1>3. QED
  BY <1>1, <1>2 DEF InodeByte, InodeBit

-----------------------------------------------------------------------------
(***************************************************************************)
(* The inductive invariant: file numbers are negative, so that no bit is   *)
(* ever set or cleared in memory the model sees.                           *)
(***************************************************************************)

Cache == [i \in 0 .. CacheBytes - 1 |-> memory[i]]

TableInv ==
    /\ TypeOK
    /\ \E size \in MappedBytes : DOMAIN memory = 0 .. size - 1
    /\ \A n \in Names : files[n] # None => files[n] < 0

Number == (-IntEnd .. IntEnd - 1) \ {0}

LEMMA TouchMisses ==
    ASSUME TableInv, NEW n \in Int, n < 0, NEW used, Touch(n, used)
    PROVE  memory' = memory /\ oops' \in BOOLEAN
<1>1. PICK size \in MappedBytes : DOMAIN memory = 0 .. size - 1
  BY DEF TableInv
<1>2. InodeByte(n) \notin DOMAIN memory
  BY <1>1, NegativeByte, TableAssumption
<1>3. QED
  BY <1>2 DEF Touch

LEMMA InitTable == Init => TableInv
<1> SUFFICES ASSUME Init PROVE TableInv
  OBVIOUS
<1>1. PICK size \in MappedBytes : memory \in [0 .. size - 1 -> SUBSET Bit]
  BY DEF Init
<1>2. files \in [Names -> Number \cup {None}] /\ \A n \in Names : files[n] = None
  BY DEF Init
<1>3. oops \in BOOLEAN
  BY DEF Init
<1>4. TypeOK
  BY <1>1, <1>2, <1>3 DEF TypeOK, Number
<1>5. QED
  BY <1>1, <1>2, <1>4 DEF TableInv

(* A step that leaves the memory alone.                                    *)
LEMMA TableStep ==
    ASSUME TableInv, memory' = memory, oops' \in BOOLEAN,
           files' \in [Names -> Number \cup {None}],
           \A n \in Names : files'[n] # None => files'[n] < 0
    PROVE  TableInv' /\ Cache' = Cache
BY DEF TableInv, TypeOK, Number, Cache

LEMMA NextTable == TableInv /\ [Next]_vars => TableInv' /\ Cache' = Cache
<1> SUFFICES ASSUME TableInv, [Next]_vars PROVE TableInv' /\ Cache' = Cache
  OBVIOUS
<1>a. files \in [Names -> Number \cup {None}] /\ \A n \in Names : files[n] # None => files[n] < 0
  BY DEF TableInv, TypeOK, Number
<1>b. ASSUME UNCHANGED <<memory, files>>, oops' \in BOOLEAN PROVE TableInv' /\ Cache' = Cache
  BY <1>a, <1>b, TableStep
<1>c. oops \in BOOLEAN
  BY DEF TableInv, TypeOK
<1>1. ASSUME NEW n \in Names, Create(n) PROVE TableInv' /\ Cache' = Cache
  <2>1. CASE UNCHANGED <<memory, files>> /\ oops' \in BOOLEAN
    BY <1>b, <2>1
  <2>2. CASE /\ Scan # Unmapped /\ ~NoInodeFree(Scan) /\ Touch(Scan, TRUE)
             /\ files' = [files EXCEPT ![n] = IF oops' THEN None ELSE Scan]
    <3>1. Scan \in Int /\ Scan < 0 /\ Scan >= -IntEnd
      BY <2>2, ScanResult DEF NoInodeFree
    <3>2. memory' = memory /\ oops' \in BOOLEAN
      BY <2>2, <3>1, TouchMisses
    <3>3. Scan \in Number
      BY <3>1, Sizes DEF Number
    <3>4. PICK x \in {None, Scan} : files' = [files EXCEPT ![n] = x]
      BY <2>2
    <3>5. files' \in [Names -> Number \cup {None}]
      BY <1>a, <3>3, <3>4
    <3>6. \A m \in Names : files'[m] # None => files'[m] < 0
      BY <1>a, <3>1, <3>4
    <3>7. QED
      BY <3>2, <3>5, <3>6, TableStep
  <2>3. QED
    BY <1>1, <1>c, <2>1, <2>2 DEF Create, SetDiskInodeStops, vars
<1>2. ASSUME NEW n \in Names, Unlink(n) PROVE TableInv' /\ Cache' = Cache
  <2>1. files[n] \in Int /\ files[n] < 0
    BY <1>2, <1>a, Sizes DEF Unlink, Number
  <2>2. memory' = memory /\ oops' \in BOOLEAN
    BY <1>2, <2>1, TouchMisses DEF Unlink
  <2>3. PICK x \in {None, files[n]} : files' = [files EXCEPT ![n] = x]
    BY <1>2 DEF Unlink
  <2>4. files' \in [Names -> Number \cup {None}]
    BY <1>a, <2>3
  <2>5. \A m \in Names : files'[m] # None => files'[m] < 0
    BY <1>a, <2>3
  <2>6. QED
    BY <2>2, <2>4, <2>5, TableStep
<1>3. ASSUME NEW n \in Names, NEW m \in Names, Rename(n, m) PROVE TableInv' /\ Cache' = Cache
  <2>1. files' = [files EXCEPT ![m] = files[n], ![n] = None] /\ UNCHANGED <<memory, oops>>
    BY <1>3 DEF Rename
  <2>2. files' \in [Names -> Number \cup {None}]
    BY <1>a, <2>1
  <2>3. \A k \in Names : files'[k] # None => files'[k] < 0
    BY <1>a, <2>1
  <2>4. QED
    BY <1>c, <2>1, <2>2, <2>3, TableStep
<1>4. ASSUME Elsewhere PROVE TableInv' /\ Cache' = Cache
  <2>1. PICK i \in DOMAIN memory \ 0 .. CacheBytes - 1, b \in SUBSET Bit :
            memory' = [memory EXCEPT ![i] = b]
    BY <1>4 DEF Elsewhere
  <2>2. UNCHANGED <<files, oops>>
    BY <1>4 DEF Elsewhere
  <2>3. PICK size \in MappedBytes : DOMAIN memory = 0 .. size - 1
    BY DEF TableInv
  <2>4. memory \in [0 .. size - 1 -> SUBSET Bit]
    BY <2>3 DEF TableInv, TypeOK
  <2>5. memory' \in [0 .. size - 1 -> SUBSET Bit]
    BY <2>1, <2>4
  <2>6. DOMAIN memory' = 0 .. size - 1
    BY <2>5
  <2>7. TypeOK'
    BY <1>a, <1>c, <2>2, <2>5, <2>6 DEF TypeOK, Number
  <2>8. \A k \in 0 .. CacheBytes - 1 : memory'[k] = memory[k]
    <3>1. 0 .. CacheBytes - 1 \subseteq 0 .. size - 1
      BY TableAssumption
    <3>2. QED
      BY <2>1, <2>4, <3>1
  <2>9. QED
    BY <1>a, <2>2, <2>6, <2>7, <2>8 DEF TableInv, Cache
<1>5. CASE UNCHANGED vars
  BY <1>b, <1>c, <1>5 DEF vars
<1>6. QED
  BY <1>1, <1>2, <1>3, <1>4, <1>5 DEF Next, Stopped

(* The inode table is type correct for any sizes: no file gets the root's  *)
(* number, and every number is an int.                                     *)
THEOREM TypeCorrect == Spec => []TypeOK
<1>1. TableInv => TypeOK
  BY DEF TableInv
<1>2. QED
  BY <1>1, InitTable, NextTable, PTL DEF Spec

-----------------------------------------------------------------------------
(***************************************************************************)
(* A full scan.                                                            *)
(***************************************************************************)

(* A scan that meets no free bit ends after ScanBytes bytes, with 0.       *)
LEMMA FullScan ==
    ASSUME TableInv, ScanIsFull
    PROVE  Scan = 0
<1> DEFINE ends == {i \in 0 .. Cardinality(DOMAIN memory) : ~Searching(i, Found(i))}
<1>1. ScanBytes \in Nat /\ ScanBytes \in 0 .. Cardinality(DOMAIN memory)
  <2>1. PICK size \in MappedBytes : DOMAIN memory = 0 .. size - 1
    BY DEF TableInv
  <2>2. size \in Nat /\ ScanBytes \in Nat /\ ScanBytes <= size
    BY TableAssumption
  <2>3. Cardinality(0 .. size - 1) = size
    BY <2>2, FS_Interval
  <2>4. QED
    BY <2>1, <2>2, <2>3
<1>2. Found(ScanBytes) = 0
  <2>1. {k \in 0 .. ScanBytes - 1 : ~(Bit \subseteq memory[k])} = {}
    BY DEF ScanIsFull
  <2>2. QED
    BY <2>1 DEF Found
<1>3. ScanBytes \in ends
  BY <1>1, <1>2 DEF Searching
<1>4. \A i \in ends : i \in Nat /\ i >= ScanBytes
  BY <1>1 DEF Searching
<1>5. Scan = Found(Min(ends))
  BY <1>3 DEF Scan
<1> HIDE DEF ends
<1>6. Min(ends) = ScanBytes
  <2>1. ends \in SUBSET Nat
    BY <1>4
  <2>2. Min(ends) \in ends /\ \A y \in ends : Min(ends) <= y
    BY <1>3, <2>1, MinExists
  <2>3. Min(ends) \in Nat /\ Min(ends) >= ScanBytes /\ Min(ends) <= ScanBytes
    BY <1>3, <1>4, <2>2
  <2>4. QED
    BY <1>1, <2>3
<1>7. QED
  BY <1>2, <1>5, <1>6

LEMMA FullStep ==
    ASSUME TableInv, ScanIsFull, [Next]_vars, NEW n \in Names, files'[n] # None
    PROVE  \E m \in Names : files[m] = files'[n]
<1>a. files \in [Names -> Number \cup {None}]
  BY DEF TableInv, TypeOK, Number
<1>1. ASSUME NEW k \in Names, Create(k) PROVE files' = files
  BY <1>1, FullScan DEF Create, NoInodeFree, SetDiskInodeStops, vars
<1>2. ASSUME NEW k \in Names, Unlink(k) PROVE files'[n] = files[n]
  <2>1. PICK x \in {None, files[k]} : files' = [files EXCEPT ![k] = x]
    BY <1>2 DEF Unlink
  <2>2. QED
    BY <1>a, <2>1
<1>3. ASSUME NEW k \in Names, NEW m \in Names, Rename(k, m)
      PROVE  files'[n] = files[n] \/ files'[n] = files[k]
  BY <1>a, <1>3 DEF Rename
<1>4. CASE Elsewhere \/ Stopped \/ UNCHANGED vars
  BY <1>4 DEF Elsewhere, Stopped, vars
<1>5. QED
  BY <1>1, <1>2, <1>3, <1>4 DEF Next

(* For any sizes and any contents of the memory: once the scan meets no    *)
(* free bit, create refuses, and no file gets a new number.                *)
THEOREM FullRefuses == Spec => FullTableRefuses
<1>1. TableInv /\ [Next]_vars =>
        [ScanIsFull => \A n \in Names :
            files'[n] # None => \E m \in Names : files[m] = files'[n]]_vars
  BY FullStep
<1>2. QED
  BY <1>1, InitTable, NextTable, PTL DEF Spec, FullTableRefuses

-----------------------------------------------------------------------------
(***************************************************************************)
(* How far the code is from what its comments say, which inode_bitmap      *)
(* refutes on an instance: for any sizes and contents, no file's number is *)
(* ever one of the bitmap's, and no bit of the bitmap is ever set or       *)
(* cleared.                                                                *)
(***************************************************************************)

NumbersOutsideBitmap ==
    \A n \in Names : files[n] # None => files[n] \notin 0 .. Bits * CacheBytes - 1

BitmapNeverChanges == [][Cache' = Cache]_vars

(* The loop of sjfs_iops_create gives no file a number that the bitmap     *)
(* can record, whatever is created, moved and removed.                     *)
THEOREM NumbersUnrecorded == Spec => []NumbersOutsideBitmap
<1>1. TableInv => NumbersOutsideBitmap
  BY DEF TableInv, NumbersOutsideBitmap
<1>2. QED
  BY <1>1, InitTable, NextTable, PTL DEF Spec

(* Neither create nor unlink, nor anything else, changes the bitmap in     *)
(* memory.                                                                 *)
THEOREM BitmapUnchanged == Spec => BitmapNeverChanges
<1>1. TableInv /\ [Next]_vars => [Cache' = Cache]_vars
  BY NextTable
<1>2. QED
  BY <1>1, InitTable, NextTable, PTL DEF Spec, BitmapNeverChanges
=============================================================================
