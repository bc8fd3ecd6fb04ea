-------------------------- MODULE InodeTreeProofs --------------------------
(***************************************************************************)
(* The in-memory file systems keep their link counts, their pins and their *)
(* tree: proofs for any number of inodes and names.                        *)
(*                                                                         *)
(* The counts are right because of the tree: a directory has one dentry,   *)
(* a removed one is empty, and a symlink under way keeps the lock of its   *)
(* directory.  TreeInv collects these facts.                               *)
(***************************************************************************)
EXTENDS InodeTree, FiniteSetTheorems, TLAPS

(***************************************************************************)
(* The inductive invariant.                                                *)
(***************************************************************************)

(* A directory that calls can reach.                                       *)
Live(d) == d = root \/ Referring(d) # {}

(* The root is a directory without a dentry, which no file holds open;     *)
(* without a root there is nothing.                                        *)
RootInv ==
    /\ root # None => type[root] = "dir" /\ Referring(root) = {} /\ root \notin open
    /\ root = None => \A i \in Inodes : type[i] = "free"

(* Dentries are in live directories and lead to inodes in memory, at most  *)
(* one to each directory.                                                  *)
EntryInv ==
    /\ \A l \in Links : entry[l] # None =>
          type[l[1]] = "dir" /\ Live(l[1]) /\ type[entry[l]] # "free"
    /\ \A l, m \in Links :
          entry[l] # None /\ entry[l] = entry[m] /\ type[entry[l]] = "dir" => l = m

(* An inode in memory has something that holds it.                         *)
HeldInv ==
    /\ \A i \in open : type[i] # "free"
    /\ \A i \in Inodes : type[i] # "free" => Live(i) \/ i \in open \/ i \in InMaking

(* The inode of a symlink under way belongs to that call alone, and so     *)
(* does the directory, which stays live.                                   *)
MakingInv ==
    /\ \A p \in making :
          /\ type[p[2]] = "lnk" /\ nlink[p[2]] = 1
          /\ Referring(p[2]) = {} /\ p[2] \notin open
          /\ type[p[1][1]] = "dir" /\ Live(p[1][1]) /\ entry[p[1]] = None
    /\ \A p, q \in making : p[1][1] = q[1][1] \/ p[2] = q[2] => p = q

(* Every inode that has a dentry is below the root.                        *)
ReachInv == \A i \in Inodes : Referring(i) # {} => Above(root, i)

TreeInv ==
    TypeOK /\ RootInv /\ EntryInv /\ HeldInv /\ MakingInv /\ LinkCounts /\ ReachInv

-----------------------------------------------------------------------------
(***************************************************************************)
(* Facts about the operators of the model.                                 *)
(***************************************************************************)

(* A dentry is a directory and a name.                                     *)
LEMMA LinkParts ==
    /\ \A l \in Links : l[1] \in Inodes /\ l[2] \in Names /\ l = <<l[1], l[2]>>
    /\ \A d \in Inodes, n \in Names :
          <<d, n>> \in Links /\ <<d, n>>[1] = d /\ <<d, n>>[2] = n
  BY DEF Links

(* The sets that are counted are finite.                                   *)
LEMMA Finite ==
    /\ \A i : IsFiniteSet(Referring(i)) /\ Cardinality(Referring(i)) \in Nat
    /\ \A d : IsFiniteSet(Subdirectories(d)) /\ Cardinality(Subdirectories(d)) \in Nat
<1>1. IsFiniteSet(Links)
  BY TreeAssumption, FS_Product DEF Links
<1>2. \A i : Referring(i) \subseteq Links
  BY DEF Referring
<1>3. \A d : Subdirectories(d) \subseteq Names
  BY DEF Subdirectories
<1>4. QED
  BY <1>1, <1>2, <1>3, TreeAssumption, FS_Subset, FS_CardinalityType

(* One element more, one less, one for another.                            *)
LEMMA CountMore ==
    ASSUME NEW S, NEW x, IsFiniteSet(S), x \notin S
    PROVE  Cardinality(S \cup {x}) = Cardinality(S) + 1
  BY FS_AddElement

LEMMA CountLess ==
    ASSUME NEW S, NEW x, IsFiniteSet(S), x \in S
    PROVE  Cardinality(S \ {x}) = Cardinality(S) - 1 /\ Cardinality(S) > 0
<1>1. Cardinality(S \ {x}) = Cardinality(S) - 1
  BY FS_RemoveElement
<1>2. IsFiniteSet(S \ {x})
  BY FS_RemoveElement
<1>3. Cardinality(S \ {x}) \in Nat /\ Cardinality(S) \in Nat
  BY <1>2, FS_CardinalityType
<1>4. QED
  BY <1>1, <1>3

LEMMA CountSame ==
    ASSUME NEW S, NEW x, NEW y, IsFiniteSet(S), x \in S, y \notin S
    PROVE  Cardinality((S \ {x}) \cup {y}) = Cardinality(S)
<1>1. IsFiniteSet(S \ {x}) /\ y \notin S \ {x}
  BY FS_RemoveElement
<1>2. Cardinality((S \ {x}) \cup {y}) = Cardinality(S \ {x}) + 1
  BY <1>1, CountMore
<1>3. Cardinality(S) \in Nat
  BY FS_CardinalityType
<1>4. QED
  BY <1>2, <1>3, CountLess

LEMMA CountNone == Cardinality({}) = 0
  BY FS_EmptySet

(* What LinkCounts asks of one inode.                                      *)
Counted(i) ==
    nlink[i] = IF type[i] # "dir" THEN Cardinality(Referring(i))
               ELSE IF Live(i) THEN 2 + Cardinality(Subdirectories(i)) ELSE 0

LEMMA CountsOfEach ==
    LinkCounts <=> \A i \in Inodes : type[i] # "free" /\ i \notin InMaking => Counted(i)
  BY DEF LinkCounts, Counted, Free, Live

LEMMA CountsNext ==
    ASSUME \A i \in Inodes : type'[i] # "free" /\ i \notin InMaking' => Counted(i)'
    PROVE  LinkCounts'
  BY DEF LinkCounts, Counted, Free, Live

(* An inode to which nothing happens stays counted.                        *)
LEMMA CountedFrame ==
    ASSUME NEW i \in Inodes, Counted(i),
           nlink'[i] = nlink[i], type'[i] = type[i], root' = root,
           Referring(i)' = Referring(i), Subdirectories(i)' = Subdirectories(i)
    PROVE  Counted(i)'
  BY DEF Counted, Live

(***************************************************************************)
(* The pins.                                                               *)
(***************************************************************************)

(* The part of the types that the pins need.                               *)
PinInv ==
    /\ root \in Inodes \cup {None}
    /\ entry \in [Links -> Inodes \cup {None}]
    /\ making \subseteq Links \X Inodes
    /\ EntriesPinned

(* A dentry that gets its inode is pinned.                                 *)
LEMMA InstantiatePins ==
    ASSUME PinInv, NEW l \in Links, NEW i \in Inodes, Instantiate(l, i)
    PROVE  entry' \in [Links -> Inodes \cup {None}] /\ EntriesPinned'
  BY TreeAssumption DEF PinInv, EntriesPinned, Instantiate

(* A dentry that goes takes its pin with it.                               *)
LEMMA RemovePins ==
    ASSUME PinInv, NEW l \in Links, Remove(l)
    PROVE  entry' \in [Links -> Inodes \cup {None}] /\ EntriesPinned'
  BY TreeAssumption DEF PinInv, EntriesPinned, Remove

LEMMA NextPins == PinInv /\ [Next]_vars => PinInv'
<1> SUFFICES ASSUME PinInv, [Next]_vars PROVE PinInv'
  OBVIOUS
<1> USE DEF PinInv
<1>0. ASSUME UNCHANGED tree PROVE PinInv'
  BY <1>0 DEF tree, EntriesPinned
<1>1. CASE FillSuper
  BY <1>1, <1>0 DEF FillSuper, EntriesPinned, Free
<1>2. CASE KillSb
  BY <1>2 DEF KillSb, EntriesPinned
<1>3. ASSUME NEW l \in Links, NEW t, NEW k, Mknod(l, t, k) PROVE PinInv'
  BY <1>3, <1>0, InstantiatePins DEF Mknod, Free
<1>4. ASSUME NEW l \in Links, Symlink(l) PROVE PinInv'
  <2>1. CASE UNCHANGED tree
    BY <2>1, <1>0
  <2>2. CASE \E i \in Free : /\ making' = making \cup {<<l, i>>}
                             /\ UNCHANGED <<root, entry, pinned>>
    BY <2>2 DEF Free, EntriesPinned
  <2>3. QED
    BY <1>4, <2>1, <2>2 DEF Symlink
<1>5. ASSUME NEW l \in Links, Refuse(l) PROVE PinInv'
  BY <1>5, <1>0 DEF Refuse, vars
<1>6. ASSUME NEW l \in Links, Unlink(l) PROVE PinInv'
  BY <1>6, RemovePins DEF Unlink
<1>7. ASSUME NEW l \in Links, Rmdir(l) PROVE PinInv'
  BY <1>7, <1>0, RemovePins DEF Rmdir
<1>8. ASSUME NEW p \in making, SymlinkDone(p) PROVE PinInv'
  <2>1. p[1] \in Links /\ p[2] \in Inodes
    OBVIOUS
  <2>2. QED
    BY <1>8, <2>1, InstantiatePins DEF SymlinkDone
<1>9. ASSUME NEW p \in making, SymlinkFails(p) PROVE PinInv'
  BY <1>9 DEF SymlinkFails, EntriesPinned
<1>10. ASSUME NEW l \in Links, NEW i \in Inodes, Link(l, i) PROVE PinInv'
  BY <1>10, InstantiatePins DEF Link
<1>11. ASSUME NEW l \in Links, NEW m \in Links, Rename(l, m) PROVE PinInv'
  <2>1. CASE UNCHANGED tree
    BY <2>1, <1>0
  <2>2. CASE /\ entry' = [entry EXCEPT ![l] = None, ![m] = entry[l]]
             /\ pinned' = (pinned \ {l, m}) \cup (IF l \in pinned THEN {m} ELSE {})
             /\ UNCHANGED <<root, open, making>>
    <3>1. entry[l] # None /\ l # m
      BY <1>11 DEF Rename, MayRename, Occupied
    <3>2. QED
      BY <2>2, <3>1, TreeAssumption DEF EntriesPinned
  <2>3. QED
    BY <1>11, <2>1, <2>2 DEF Rename
<1>12. ASSUME NEW i \in Inodes, Open(i) \/ Close(i) PROVE PinInv'
  BY <1>12 DEF Open, Close, EntriesPinned
<1>13. CASE UNCHANGED vars
  BY <1>13, <1>0 DEF vars
<1>14. QED
  BY <1>1, <1>2, <1>3, <1>4, <1>5, <1>6, <1>7, <1>8, <1>9, <1>10, <1>11, <1>12, <1>13
     DEF Next, Create, Mkdir

(* EntriesPinned holds in every state of every instance: each dentry that  *)
(* an operation creates, moves or removes has or loses its extra reference *)
(* (dget and dput) in the same step.                                       *)
THEOREM Pins == Spec => []EntriesPinned
<1>1. Init => PinInv
  BY TreeAssumption DEF Init, PinInv, EntriesPinned
<1>2. PinInv => EntriesPinned
  BY DEF PinInv
<1>3. QED
  BY <1>1, <1>2, NextPins, PTL DEF Spec

-----------------------------------------------------------------------------
(***************************************************************************)
(* What a change of the dentries does to the references and to the tree.   *)
(***************************************************************************)

(* A dentry that gets its inode refers to it, and no other changes.        *)
LEMMA InstantiateRefs ==
    ASSUME TypeOK, NEW l \in Links, NEW i \in Inodes, entry[l] = None, Instantiate(l, i)
    PROVE  /\ Referring(i)' = Referring(i) \cup {l}
           /\ l \notin Referring(i)
           /\ \A j \in Inodes \ {i} : Referring(j)' = Referring(j)
  BY TreeAssumption DEF TypeOK, Instantiate, Referring

(* A dentry that goes no longer refers.                                    *)
LEMMA RemoveRefs ==
    ASSUME TypeOK, NEW l \in Links, NEW x \in Inodes, entry[l] = x, Remove(l)
    PROVE  /\ Referring(x)' = Referring(x) \ {l}
           /\ l \in Referring(x)
           /\ \A j \in Inodes \ {x} : Referring(j)' = Referring(j)
  BY TreeAssumption DEF TypeOK, Remove, Referring

(* The dentry m takes the inode x of l.                                    *)
Move(l, m, x) ==
    entry'[l] = None /\ entry'[m] = x /\ \A k \in Links \ {l, m} : entry'[k] = entry[k]

(* The inode that m had loses m.                                           *)
LEMMA MoveRefs ==
    ASSUME TypeOK, NEW l \in Links, NEW m \in Links, l # m,
           NEW x \in Inodes, NEW y \in (Inodes \cup {None}) \ {x},
           entry[l] = x, entry[m] = y, Move(l, m, x)
    PROVE  /\ Referring(x)' = (Referring(x) \ {l}) \cup {m}
           /\ l \in Referring(x) /\ m \notin Referring(x)
           /\ y # None => Referring(y)' = Referring(y) \ {m} /\ m \in Referring(y)
           /\ \A j \in Inodes \ {x, y} : Referring(j)' = Referring(j)
  BY TreeAssumption DEF Move, Referring

(* Sets of inodes that hold the directory of each dentry of a member.      *)
Closed(S) == \A l \in Links : entry[l] \in S => l[1] \in S

LEMMA AboveClosed ==
    ASSUME NEW a, NEW d
    PROVE  Above(a, d) <=> \A S \in SUBSET Inodes : d \in S /\ Closed(S) => a \in S
  BY DEF Above, Closed

(* Live directories are below the root.                                    *)
LEMMA LiveBelow ==
    ASSUME ReachInv, NEW d \in Inodes, Live(d)
    PROVE  Above(root, d)
<1>1. CASE d = root
  BY <1>1 DEF Above
<1>2. CASE Referring(d) # {}
  BY <1>2 DEF ReachInv
<1>3. QED
  BY <1>1, <1>2 DEF Live

(* A new dentry in a live directory: nothing that was below the root loses *)
(* its way, and the inode gets one.                                        *)
LEMMA InstantiateReach ==
    ASSUME TypeOK, ReachInv, NEW l \in Links, NEW i \in Inodes,
           entry[l] = None, Live(l[1]), Instantiate(l, i), root' = root
    PROVE  ReachInv'
<1>1. ASSUME NEW S \in SUBSET Inodes, Closed(S)' PROVE Closed(S)
  BY <1>1, TreeAssumption DEF Closed, Instantiate, TypeOK
<1>2. ASSUME NEW d \in Inodes, Above(root, d) PROVE Above(root, d)'
  BY <1>1, <1>2 DEF Above, Closed
<1>3. Above(root, l[1])'
  BY <1>2, LiveBelow, LinkParts
<1>4. Above(root, i)'
  <2>1. entry'[l] = i
    BY DEF Instantiate, TypeOK
  <2>2. QED
    BY <2>1, <1>3, LinkParts DEF Above
<1>5. QED
  BY <1>2, <1>4, InstantiateRefs DEF ReachInv

(* A directory that the dentries of a call leave alone.                    *)
Childless(i) == \A l \in Links : entry[l] # None => l[1] # i

(* An inode without dentries in it loses one that refers to it.            *)
LEMMA RemoveReach ==
    ASSUME TypeOK, ReachInv, EntryInv, NEW l \in Links, NEW x \in Inodes,
           entry[l] = x, Childless(x), Remove(l), root' = root
    PROVE  ReachInv'
<1>2. ASSUME NEW d \in Inodes \ {x}, Above(root, d) PROVE Above(root, d)'
  <2>1. ASSUME NEW S \in SUBSET Inodes, Closed(S)' PROVE Closed(S \ {x})
    BY <2>1, TreeAssumption DEF Closed, Remove, TypeOK, Childless
  <2>2. ASSUME NEW S \in SUBSET Inodes, Closed(S)', d \in S PROVE root \in S
    BY <2>1, <2>2, <1>2 DEF Above, Closed
  <2>3. QED
    BY <2>2 DEF Above, Closed
<1>3. ASSUME Referring(x)' # {} PROVE Above(root, x)'
  <2>1. PICK k \in Links : k # l /\ entry[k] = x
    BY <1>3, RemoveRefs DEF Referring
  <2>2. Above(root, k[1])'
    <3>1. k[1] \in Inodes \ {x} /\ Live(k[1])
      BY <2>1, LinkParts, TreeAssumption DEF EntryInv, Childless
    <3>2. Above(root, k[1])
      BY <3>1, LiveBelow
    <3>3. QED
      BY <3>1, <3>2, <1>2
  <2>3. entry'[k] = x
    BY <2>1 DEF Remove, TypeOK
  <2>4. QED
    BY <2>2, <2>3, LinkParts DEF Above
<1>4. QED
  BY <1>2, <1>3, RemoveRefs DEF ReachInv

(* An inode moves to another live directory, not to one below itself, over *)
(* nothing or an inode without dentries in it.                             *)
LEMMA MoveReach ==
    ASSUME TypeOK, ReachInv, EntryInv, NEW l \in Links, NEW m \in Links, l # m,
           NEW x \in Inodes, NEW y \in (Inodes \cup {None}) \ {x},
           entry[l] = x, entry[m] = y, Live(m[1]), m[1] # x,
           Childless(x) \/ ~Above(x, m[1]),
           y # None => Childless(y),
           Move(l, m, x), root' = root
    PROVE  ReachInv'
<1>1. m[1] \in Inodes /\ m[1] # y
  BY LinkParts, TreeAssumption DEF TypeOK, Childless
<1>2. entry'[m] = x /\ entry'[l] = None /\ \A k \in Links \ {l, m} : entry'[k] = entry[k]
  BY DEF Move
<1>3. /\ l \in Referring(x)
      /\ y # None => Referring(y)' = Referring(y) \ {m}
      /\ \A j \in Inodes \ {x, y} : Referring(j)' = Referring(j)
  BY MoveRefs
<1>4. PICK T \in SUBSET Inodes : Closed(T) /\ m[1] \in T /\ x \notin T
  <2>1. CASE ~Above(x, m[1])
    BY <2>1 DEF Above, Closed
  <2>2. CASE Childless(x)
    <3>1. Closed(Inodes \ {x})
      BY <2>2, LinkParts, TreeAssumption DEF Closed, Childless
    <3>2. QED
      BY <3>1, <1>1
  <2>3. QED
    BY <2>1, <2>2
<1>5. ASSUME NEW d \in Inodes \ {y}, Above(root, d) PROVE Above(root, d)'
  <2>1. SUFFICES ASSUME NEW S \in SUBSET Inodes, Closed(S)', d \in S PROVE root \in S
    BY DEF Above, Closed
  <2>2. CASE x \notin S
    <3>1. Closed(S \ {y})
      BY <2>1, <2>2, <1>1, <1>2, TreeAssumption DEF Closed, Childless, TypeOK
    <3>2. QED
      BY <3>1, <2>1, <1>5 DEF Above, Closed
  <2>3. CASE x \in S
    <3>1. m[1] \in S
      BY <2>1, <2>3, <1>2 DEF Closed
    <3>2. Closed((S \cap T) \ {y})
      BY <2>1, <1>1, <1>2, <1>4, TreeAssumption DEF Closed, Childless, TypeOK
    <3>3. Above(root, m[1])
      BY <1>1, LiveBelow
    <3>4. QED
      BY <3>1, <3>2, <3>3, <1>1, <1>4 DEF Above, Closed
  <2>4. QED
    BY <2>2, <2>3
<1>6. ASSUME y # None, Referring(y)' # {} PROVE Above(root, y)'
  <2>1. PICK k \in Links : k # m /\ entry[k] = y
    BY <1>6, <1>3 DEF Referring
  <2>2. Above(root, k[1])'
    <3>1. k[1] \in Inodes \ {y} /\ Live(k[1])
      BY <2>1, <1>6, LinkParts, TreeAssumption DEF EntryInv, Childless
    <3>2. Above(root, k[1])
      BY <3>1, LiveBelow
    <3>3. QED
      BY <3>1, <3>2, <1>5
  <2>3. entry'[k] = y
    BY <2>1, <1>1, <1>2
  <2>4. SUFFICES ASSUME NEW S \in SUBSET Inodes, Closed(S)', y \in S PROVE root \in S
    BY DEF Above, Closed
  <2>5. k[1] \in S
    BY <2>3, <2>4 DEF Closed
  <2>6. QED
    BY <2>2, <2>4, <2>5 DEF Above, Closed
<1>7. Above(root, x)'
  BY <1>3, <1>5 DEF ReachInv
<1>8. ASSUME NEW j \in Inodes \ {x, y}, Referring(j)' # {} PROVE Above(root, j)'
  BY <1>3, <1>5, <1>8 DEF ReachInv
<1>9. QED
  BY <1>6, <1>7, <1>8, TreeAssumption DEF ReachInv

(***************************************************************************)
(* What a change of the dentries does to the subdirectories.               *)
(***************************************************************************)

(* A new dentry of i, whose type may be new too.                           *)
LEMMA InstantiateSubdirs ==
    ASSUME TypeOK, NEW l \in Links, NEW i \in Inodes, entry[l] = None, Instantiate(l, i),
           \A j \in Inodes \ {i} : type'[j] = type[j],
           type'[i] = type[i] \/ Referring(i) = {}
    PROVE  /\ l[2] \notin Subdirectories(l[1])
           /\ Subdirectories(l[1])' =
                 IF type'[i] = "dir" THEN Subdirectories(l[1]) \cup {l[2]}
                 ELSE Subdirectories(l[1])
           /\ \A j \in Inodes \ {l[1]} : Subdirectories(j)' = Subdirectories(j)
<1>1. entry'[l] = i /\ \A k \in Links \ {l} : entry'[k] = entry[k]
  BY DEF Instantiate, TypeOK
<1>2. \A k \in Links : entry[k] # None => entry[k] \in Inodes /\ type'[entry[k]] = type[entry[k]]
  BY DEF Referring, TypeOK
<1>3. \A j \in Inodes, n \in Names : <<j, n>> = l <=> j = l[1] /\ n = l[2]
  BY LinkParts
<1>4. QED
  BY <1>1, <1>2, <1>3, LinkParts, TreeAssumption DEF Subdirectories

(* The dentry l of x goes, and perhaps x with it.                          *)
LEMMA RemoveSubdirs ==
    ASSUME TypeOK, NEW l \in Links, NEW x \in Inodes, entry[l] = x, Remove(l),
           \A j \in Inodes \ {x} : type'[j] = type[j],
           IF type[x] = "dir" THEN Referring(x) = {l} ELSE type'[x] # "dir"
    PROVE  /\ type[x] = "dir" => l[2] \in Subdirectories(l[1])
           /\ Subdirectories(l[1])' =
                 IF type[x] = "dir" THEN Subdirectories(l[1]) \ {l[2]}
                 ELSE Subdirectories(l[1])
           /\ \A j \in Inodes \ {l[1]} : Subdirectories(j)' = Subdirectories(j)
<1>1. entry'[l] = None /\ \A k \in Links \ {l} : entry'[k] = entry[k]
  BY DEF Remove, TypeOK
<1>2. \A k \in Links \ {l} : entry[k] # None =>
         entry[k] \in Inodes /\ (type'[entry[k]] = "dir" <=> type[entry[k]] = "dir")
  BY DEF Referring, TypeOK
<1>3. \A j \in Inodes, n \in Names : <<j, n>> = l <=> j = l[1] /\ n = l[2]
  BY LinkParts
<1>4. QED
  BY <1>1, <1>2, <1>3, LinkParts, TreeAssumption DEF Subdirectories

(* The inode y that loses the dentry m to x is a directory like x, with    *)
(* no other dentry, or none of the two is one.                             *)
SameKind(x, y, m) ==
    y # None => IF type[x] = "dir" THEN type[y] = "dir" /\ Referring(y) = {m}
                ELSE type[y] # "dir" /\ type'[y] # "dir"

(* The dentry m takes the inode x of l, over y: for a directory the name   *)
(* of l goes from the one directory and that of m is in the other.         *)
LEMMA MoveSubdirs ==
    ASSUME TypeOK, NEW l \in Links, NEW m \in Links, l # m,
           NEW x \in Inodes, NEW y \in (Inodes \cup {None}) \ {x},
           entry[l] = x, entry[m] = y, Move(l, m, x),
           \A j \in Inodes \ {y} : type'[j] = type[j],
           SameKind(x, y, m)
    PROVE  /\ type[x] = "dir" =>
                 /\ l[2] \in Subdirectories(l[1])
                 /\ m[2] \in Subdirectories(m[1]) <=> y # None
           /\ \A j \in Inodes, n \in Names : n \in Subdirectories(j)' <=>
                 IF type[x] = "dir"
                 THEN \/ n \in Subdirectories(j) /\ ~(j = l[1] /\ n = l[2])
                      \/ j = m[1] /\ n = m[2]
                 ELSE n \in Subdirectories(j)
<1>1. entry'[l] = None /\ entry'[m] = x /\ \A k \in Links \ {l, m} : entry'[k] = entry[k]
  BY DEF Move
<1>2. \A k \in Links \ {l, m} : entry[k] # None =>
         entry[k] \in Inodes /\ (type'[entry[k]] = "dir" <=> type[entry[k]] = "dir")
  BY DEF Referring, TypeOK, SameKind
<1>3. /\ \A j \in Inodes, n \in Names : <<j, n>> = l <=> j = l[1] /\ n = l[2]
      /\ \A j \in Inodes, n \in Names : <<j, n>> = m <=> j = m[1] /\ n = m[2]
  BY LinkParts
<1>4. x # None /\ type'[x] = type[x]
  BY TreeAssumption
<1>5. type[x] = "dir" => /\ l[2] \in Subdirectories(l[1])
                         /\ m[2] \in Subdirectories(m[1]) <=> y # None
  BY <1>3, <1>4, LinkParts DEF Subdirectories, SameKind
<1>6. ASSUME NEW j \in Inodes, NEW n \in Names
      PROVE  n \in Subdirectories(j)' <=>
                IF type[x] = "dir"
                THEN (n \in Subdirectories(j) /\ <<j, n>> # l) \/ <<j, n>> = m
                ELSE n \in Subdirectories(j)
  <2>1. n \in Subdirectories(j) <=> entry[<<j, n>>] # None /\ type[entry[<<j, n>>]] = "dir"
    BY DEF Subdirectories
  <2>2. n \in Subdirectories(j)' <=> entry'[<<j, n>>] # None /\ type'[entry'[<<j, n>>]] = "dir"
    BY DEF Subdirectories
  <2>3. <<j, n>> \in Links
    BY LinkParts
  <2>4. CASE <<j, n>> = l
    BY <1>1, <1>4, <2>1, <2>2, <2>4
  <2>5. CASE <<j, n>> = m
    BY <1>1, <1>4, <2>1, <2>2, <2>5 DEF SameKind
  <2>6. CASE <<j, n>> \notin {l, m}
    BY <1>1, <1>2, <2>1, <2>2, <2>3, <2>6
  <2>7. QED
    BY <2>4, <2>5, <2>6
<1>7. QED
  BY <1>3, <1>5, <1>6

(***************************************************************************)
(* What TreeInv says where the operations start.                           *)
(***************************************************************************)

(* An inode without memory is in no use.                                   *)
LEMMA FreeUnused ==
    ASSUME TreeInv, NEW i \in Free
    PROVE  /\ i \in Inodes /\ i # root /\ i \notin open /\ i \notin InMaking
           /\ Referring(i) = {} /\ ~Live(i) /\ Childless(i)
<1>1. i \in Inodes /\ type[i] = "free"
  BY DEF Free
<1>2. Referring(i) = {}
  BY <1>1, TreeAssumption DEF TreeInv, EntryInv, Referring
<1>3. i # root
  BY <1>1, TreeAssumption DEF TreeInv, RootInv
<1>4. i \notin open /\ i \notin InMaking
  BY <1>1 DEF TreeInv, HeldInv, MakingInv, InMaking
<1>5. QED
  BY <1>1, <1>2, <1>3, <1>4 DEF Live, Childless, TreeInv, EntryInv

(* A directory with links is live.                                         *)
LEMMA LinkedLive ==
    ASSUME TreeInv, NEW d \in Inodes, type[d] = "dir", nlink[d] > 0
    PROVE  Live(d)
<1>1. d \notin InMaking
  BY DEF TreeInv, MakingInv, InMaking
<1>2. Counted(d)
  BY <1>1, CountsOfEach DEF TreeInv
<1>3. QED
  BY <1>2 DEF Counted

(* A live directory is in memory and nobody's new symlink.                 *)
LEMMA LiveCounted ==
    ASSUME TreeInv, NEW d \in Inodes, Live(d)
    PROVE  type[d] # "free" /\ d \notin InMaking /\ Counted(d)
<1>1. type[d] # "free"
  BY TreeAssumption DEF Live, TreeInv, RootInv, EntryInv, Referring
<1>2. d \notin InMaking
  BY DEF Live, TreeInv, MakingInv, RootInv, InMaking
<1>3. QED
  BY <1>1, <1>2, CountsOfEach DEF TreeInv

(* Only directories have dentries in them, and empty ones have none.       *)
LEMMA NoChildren ==
    ASSUME TreeInv, NEW x \in Inodes, type[x] # "dir" \/ Empty(x)
    PROVE  Childless(x)
  BY LinkParts DEF TreeInv, EntryInv, Childless, Empty

(* No directory is in itself: the root could not be above it.              *)
LEMMA NotInItself ==
    ASSUME TreeInv, NEW l \in Links, NEW x \in Inodes, entry[l] = x
    PROVE  l[1] # x
<1>1. SUFFICES ASSUME l[1] = x PROVE FALSE
  OBVIOUS
<1>2. type[x] = "dir" /\ \A k \in Links : entry[k] = x => k = l
  BY <1>1, TreeAssumption DEF TreeInv, EntryInv
<1>3. Closed({x})
  BY <1>1, <1>2 DEF Closed
<1>4. l \in Referring(x)
  BY DEF Referring
<1>5. Above(root, x)
  BY <1>4 DEF TreeInv, ReachInv
<1>6. root = x
  BY <1>3, <1>5, AboveClosed
<1>7. QED
  BY <1>4, <1>6, TreeAssumption DEF TreeInv, RootInv

LEMMA NoSubdirs ==
    ASSUME NEW x \in Inodes, Childless(x)
    PROVE  Subdirectories(x) = {} /\ Cardinality(Subdirectories(x)) = 0
<1>1. Subdirectories(x) = {}
  BY LinkParts DEF Childless, Subdirectories
<1>2. QED
  BY <1>1, CountNone

(* Symlinks under way whose inode and directory a step leaves alone.       *)
LEMMA MakingFrame ==
    ASSUME MakingInv, making' \subseteq making,
           \A p \in making' :
              /\ type'[p[2]] = type[p[2]] /\ nlink'[p[2]] = nlink[p[2]]
              /\ Referring(p[2])' = Referring(p[2]) /\ p[2] \notin open'
              /\ type'[p[1][1]] = type[p[1][1]] /\ Live(p[1][1])' /\ entry'[p[1]] = entry[p[1]]
    PROVE  MakingInv'
  BY DEF MakingInv

LEMMA Stutter ==
    ASSUME TreeInv, UNCHANGED <<variant, tree>>, failures' \in 0 .. MaxFailures
    PROVE  TreeInv'
<1>1. TypeOK' /\ RootInv' /\ EntryInv' /\ HeldInv' /\ MakingInv'
  BY DEF TreeInv, tree, TypeOK, RootInv, EntryInv, HeldInv, MakingInv, Referring, Live, InMaking
<1>2. LinkCounts'
  <2>1. /\ \A i : Referring(i)' = Referring(i) /\ Subdirectories(i)' = Subdirectories(i)
        /\ InMaking' = InMaking
    BY DEF tree, Referring, Subdirectories, InMaking
  <2>2. UNCHANGED <<root, type, nlink>>
    BY DEF tree
  <2>3. \A i \in Inodes : type[i] # "free" /\ i \notin InMaking => Counted(i)
    BY CountsOfEach DEF TreeInv
  <2>4. QED
    BY <2>1, <2>2, <2>3, CountedFrame, CountsNext
<1>3. ReachInv'
  BY DEF TreeInv, tree, ReachInv, Referring, Above
<1>4. QED
  BY <1>1, <1>2, <1>3 DEF TreeInv

-----------------------------------------------------------------------------
(***************************************************************************)
(* The operations preserve TreeInv, one lemma each.                        *)
(***************************************************************************)

LEMMA MknodStep ==
    ASSUME TreeInv, NEW l \in Links, NEW t \in {"reg", "dir", "special"}, NEW i \in Free,
           Vacant(l),
           type' = [type EXCEPT ![i] = t],
           nlink' = [nlink EXCEPT ![i] = InitialLinks(t),
                                  ![l[1]] = @ + (IF t = "dir" THEN 1 ELSE 0)],
           Instantiate(l, i),
           UNCHANGED <<variant, root, open, making, failures>>
    PROVE  TreeInv'
<1> DEFINE d == l[1]
<1>1. d \in Inodes /\ type[d] = "dir" /\ entry[l] = None /\ Live(d) /\ ~Locked(d)
  BY LinkedLive, LinkParts DEF Vacant
<1>2. /\ i \in Inodes /\ i # root /\ i \notin open /\ i \notin InMaking /\ i # d
      /\ Referring(i) = {} /\ ~Live(i) /\ Childless(i) /\ type[i] = "free"
  BY <1>1, FreeUnused DEF Free
<1>3. TypeOK
  BY DEF TreeInv
<1>4. /\ type'[i] = t /\ t # "free" /\ t # "lnk"
      /\ \A j \in Inodes \ {i} : type'[j] = type[j]
  BY <1>2, <1>3 DEF TypeOK
<1>5. /\ nlink'[i] = InitialLinks(t)
      /\ nlink'[d] = nlink[d] + (IF t = "dir" THEN 1 ELSE 0)
      /\ \A j \in Inodes \ {i, d} : nlink'[j] = nlink[j]
  BY <1>1, <1>2, <1>3 DEF TypeOK
<1>6. entry'[l] = i /\ \A k \in Links \ {l} : entry'[k] = entry[k]
  BY <1>3 DEF TypeOK, Instantiate
<1>7. Referring(i)' = {l} /\ \A j \in Inodes \ {i} : Referring(j)' = Referring(j)
  BY <1>1, <1>2, <1>3, InstantiateRefs
<1>8. \A j \in Inodes : Live(j)' <=> Live(j) \/ j = i
  BY <1>2, <1>7 DEF Live
<1>9. InMaking' = InMaking
  BY DEF InMaking
<1>10. TypeOK'
  <2>1. InitialLinks(t) \in Nat
    BY DEF InitialLinks
  <2>2. nlink' \in [Inodes -> Nat]
    BY <1>1, <1>2, <1>3, <2>1 DEF TypeOK
  <2>3. QED
    BY <1>2, <1>3, <2>2 DEF TypeOK, Instantiate
<1>11. RootInv'
  BY <1>1, <1>2, <1>3, <1>4, <1>7 DEF TreeInv, RootInv, TypeOK
<1>12. EntryInv'
  <2>1. \A k \in Links \ {l} : entry[k] # None =>
           entry[k] \in Inodes \ {i} /\ k[1] \in Inodes \ {i}
    BY <1>2, <1>3, LinkParts DEF Referring, Childless, TypeOK
  <2>2. \A k \in Links : entry'[k] # None =>
           type'[k[1]] = "dir" /\ Live(k[1])' /\ type'[entry'[k]] # "free"
    BY <1>1, <1>2, <1>4, <1>6, <1>8, <2>1 DEF TreeInv, EntryInv
  <2>3. \A k, m \in Links :
           entry'[k] # None /\ entry'[k] = entry'[m] /\ type'[entry'[k]] = "dir" => k = m
    BY <1>4, <1>6, <2>1 DEF TreeInv, EntryInv
  <2>4. QED
    BY <2>2, <2>3 DEF EntryInv
<1>13. HeldInv'
  BY <1>2, <1>3, <1>4, <1>8, <1>9 DEF TreeInv, HeldInv, TypeOK
<1>14. MakingInv'
  <2>1. ASSUME NEW p \in making
        PROVE  p[1] \in Links \ {l} /\ p[1][1] \in Inodes \ {i} /\ p[2] \in Inodes \ {i, d}
    BY <1>1, <1>2, <1>3, LinkParts DEF TypeOK, Locked, InMaking, TreeInv, MakingInv
  <2>2. ASSUME NEW p \in making'
        PROVE  /\ type'[p[2]] = type[p[2]] /\ nlink'[p[2]] = nlink[p[2]]
               /\ Referring(p[2])' = Referring(p[2]) /\ p[2] \notin open'
               /\ type'[p[1][1]] = type[p[1][1]] /\ Live(p[1][1])' /\ entry'[p[1]] = entry[p[1]]
    BY <1>4, <1>5, <1>6, <1>7, <1>8, <2>1 DEF TreeInv, MakingInv
  <2>3. QED
    BY <2>2, MakingFrame DEF TreeInv
<1>15. LinkCounts'
  <2>1. /\ l[2] \notin Subdirectories(d)
        /\ Subdirectories(d)' = IF t = "dir" THEN Subdirectories(d) \cup {l[2]}
                                ELSE Subdirectories(d)
        /\ \A j \in Inodes \ {d} : Subdirectories(j)' = Subdirectories(j)
    BY <1>1, <1>2, <1>3, <1>4, InstantiateSubdirs
  <2>2. Counted(i)'
    <3>1. Cardinality({l}) = 1
      BY FS_Singleton
    <3>2. Subdirectories(i)' = {} /\ Cardinality({}) = 0
      BY <1>2, <2>1, NoSubdirs, CountNone
    <3>3. QED
      BY <1>4, <1>5, <1>7, <1>8, <1>2, <3>1, <3>2 DEF Counted, InitialLinks
  <2>3. Counted(d)'
    <3>1. Counted(d)
      BY <1>1, LiveCounted
    <3>2. t = "dir" => Cardinality(Subdirectories(d)') = Cardinality(Subdirectories(d)) + 1
      BY <2>1, Finite, CountMore
    <3>3. nlink[d] = 2 + Cardinality(Subdirectories(d)) /\ Cardinality(Subdirectories(d)) \in Nat
      BY <1>1, <3>1, Finite DEF Counted
    <3>4. QED
      BY <1>1, <1>2, <1>4, <1>5, <1>8, <2>1, <3>2, <3>3 DEF Counted
  <2>4. ASSUME NEW j \in Inodes \ {i, d}, type'[j] # "free", j \notin InMaking'
        PROVE  Counted(j)'
    <3>1. Counted(j)
      BY <1>4, <1>9, <2>4, CountsOfEach DEF TreeInv
    <3>2. QED
      BY <1>4, <1>5, <1>7, <2>1, <3>1, CountedFrame
  <2>5. QED
    BY <2>2, <2>3, <2>4, CountsNext
<1>16. ReachInv'
  BY <1>1, <1>2, <1>3, InstantiateReach DEF TreeInv
<1>17. QED
  BY <1>10, <1>11, <1>12, <1>13, <1>14, <1>15, <1>16 DEF TreeInv

LEMMA SymlinkStep ==
    ASSUME TreeInv, NEW l \in Links, NEW i \in Free,
           Vacant(l),
           type' = [type EXCEPT ![i] = "lnk"],
           nlink' = [nlink EXCEPT ![i] = InitialLinks("lnk")],
           making' = making \cup {<<l, i>>},
           UNCHANGED <<variant, root, entry, pinned, open, failures>>
    PROVE  TreeInv'
<1> DEFINE d == l[1]
<1>1. d \in Inodes /\ type[d] = "dir" /\ entry[l] = None /\ Live(d) /\ ~Locked(d)
  BY LinkedLive, LinkParts DEF Vacant
<1>2. /\ i \in Inodes /\ i # root /\ i \notin open /\ i \notin InMaking /\ i # d
      /\ Referring(i) = {} /\ ~Live(i) /\ Childless(i) /\ type[i] = "free"
  BY <1>1, FreeUnused DEF Free
<1>3. TypeOK
  BY DEF TreeInv
<1>4. type'[i] = "lnk" /\ \A j \in Inodes \ {i} : type'[j] = type[j]
  BY <1>2, <1>3 DEF TypeOK
<1>5. nlink'[i] = 1 /\ \A j \in Inodes \ {i} : nlink'[j] = nlink[j]
  BY <1>2, <1>3 DEF TypeOK, InitialLinks
<1>6. \A j : Referring(j)' = Referring(j) /\ (Live(j)' <=> Live(j))
  BY DEF Referring, Live
<1>7. InMaking' = InMaking \cup {i}
  <2>1. <<l, i>>[2] = i /\ InMaking' = {p[2] : p \in making \cup {<<l, i>>}}
    BY DEF InMaking
  <2>2. \A j : j \in InMaking' <=> j \in InMaking \/ j = i
    BY <2>1 DEF InMaking
  <2>3. QED
    BY <2>2
<1>8. TypeOK'
  <2>1. nlink' \in [Inodes -> Nat]
    BY <1>2, <1>3 DEF TypeOK, InitialLinks
  <2>2. QED
    BY <1>2, <1>3, <2>1 DEF TypeOK
<1>9. RootInv'
  BY <1>1, <1>2, <1>3, <1>4, <1>6 DEF TreeInv, RootInv, TypeOK
<1>10. EntryInv'
  <2>1. \A k \in Links : entry[k] # None =>
           entry[k] \in Inodes \ {i} /\ k[1] \in Inodes \ {i}
    BY <1>2, <1>3, LinkParts DEF Referring, Childless, TypeOK
  <2>2. QED
    BY <1>4, <1>6, <2>1 DEF TreeInv, EntryInv
<1>11. HeldInv'
  BY <1>2, <1>3, <1>4, <1>6, <1>7 DEF TreeInv, HeldInv, TypeOK
<1>12. MakingInv'
  <2>1. /\ <<l, i>>[1] = l /\ <<l, i>>[2] = i
        /\ \A p \in making' : p \in making \/ p = <<l, i>>
    OBVIOUS
  <2>2. ASSUME NEW p \in making
        PROVE  p[1][1] \in Inodes \ {i, d} /\ p[2] \in Inodes \ {i}
    BY <1>1, <1>2, <1>3, LinkParts DEF TypeOK, Locked, InMaking, TreeInv, MakingInv
  <2>3. ASSUME NEW p \in making'
        PROVE  /\ type'[p[2]] = "lnk" /\ nlink'[p[2]] = 1
               /\ Referring(p[2])' = {} /\ p[2] \notin open'
               /\ type'[p[1][1]] = "dir" /\ Live(p[1][1])' /\ entry'[p[1]] = None
    BY <1>1, <1>2, <1>4, <1>5, <1>6, <2>1, <2>2 DEF TreeInv, MakingInv
  <2>4. ASSUME NEW p \in making', NEW q \in making', p[1][1] = q[1][1] \/ p[2] = q[2]
        PROVE  p = q
    BY <2>1, <2>2, <2>4 DEF TreeInv, MakingInv
  <2>5. QED
    BY <2>3, <2>4 DEF MakingInv
<1>13. LinkCounts'
  <2>1. ASSUME NEW j \in Inodes, type'[j] # "free", j \notin InMaking' PROVE Counted(j)'
    <3>1. j # i /\ Counted(j)
      BY <1>4, <1>7, <2>1, CountsOfEach DEF TreeInv
    <3>2. Subdirectories(j)' = Subdirectories(j)
      <4>1. \A n \in Names : entry[<<j, n>>] # None =>
               type'[entry[<<j, n>>]] = "dir" <=> type[entry[<<j, n>>]] = "dir"
        BY <1>2, <1>3, <1>4, LinkParts DEF Referring, TypeOK
      <4>2. QED
        BY <4>1 DEF Subdirectories
    <3>3. QED
      BY <1>4, <1>5, <1>6, <3>1, <3>2, CountedFrame
  <2>2. QED
    BY <2>1, CountsNext
<1>14. ReachInv'
  BY DEF TreeInv, ReachInv, Above, Referring
<1>15. QED
  BY <1>8, <1>9, <1>10, <1>11, <1>12, <1>13, <1>14 DEF TreeInv

(* Link, and the end of a symlink: the file i, not a directory, gets the   *)
(* dentry l and its links are those it has with l.                         *)
LEMMA AttachStep ==
    ASSUME TreeInv, NEW l \in Links, NEW i \in Inodes,
           type[i] # "dir", type[i] # "free",
           Live(l[1]), type[l[1]] = "dir", entry[l] = None,
           Instantiate(l, i),
           nlink'[i] = Cardinality(Referring(i)) + 1,
           nlink' \in [Inodes -> Nat], \A j \in Inodes \ {i} : nlink'[j] = nlink[j],
           making' \subseteq making, InMaking' = InMaking \ {i},
           \A p \in making' : p[1][1] # l[1],
           UNCHANGED <<variant, root, type, open, failures>>
    PROVE  TreeInv'
<1> DEFINE d == l[1]
<1>1. d \in Inodes /\ i # d
  BY LinkParts
<1>2. TypeOK
  BY DEF TreeInv
<1>3. i # root
  BY TreeAssumption DEF TreeInv, RootInv
<1>4. entry'[l] = i /\ \A k \in Links \ {l} : entry'[k] = entry[k]
  BY <1>2 DEF TypeOK, Instantiate
<1>5. /\ Referring(i)' = Referring(i) \cup {l} /\ l \notin Referring(i)
      /\ \A j \in Inodes \ {i} : Referring(j)' = Referring(j)
  BY <1>2, InstantiateRefs
<1>6. \A j \in Inodes : Live(j)' <=> Live(j) \/ j = i
  BY <1>5 DEF Live
<1>7. TypeOK'
  BY <1>2 DEF TypeOK, Instantiate
<1>8. RootInv'
  BY <1>2, <1>3, <1>5 DEF TreeInv, RootInv, TypeOK
<1>9. EntryInv'
  <2>1. \A k \in Links : k[1] \in Inodes
    BY LinkParts
  <2>2. \A k \in Links : entry'[k] # None =>
           type'[k[1]] = "dir" /\ Live(k[1])' /\ type'[entry'[k]] # "free"
    BY <1>4, <1>6, <2>1 DEF TreeInv, EntryInv
  <2>3. \A k, m \in Links :
           entry'[k] # None /\ entry'[k] = entry'[m] /\ type'[entry'[k]] = "dir" => k = m
    BY <1>4 DEF TreeInv, EntryInv
  <2>4. QED
    BY <2>2, <2>3 DEF EntryInv
<1>10. HeldInv'
  BY <1>2, <1>6 DEF TreeInv, HeldInv, TypeOK
<1>11. MakingInv'
  <2>1. ASSUME NEW p \in making'
        PROVE  p[1] \in Links \ {l} /\ p[1][1] \in Inodes /\ p[2] \in Inodes \ {i}
    BY <1>7, LinkParts DEF TypeOK, InMaking
  <2>2. ASSUME NEW p \in making'
        PROVE  /\ type'[p[2]] = type[p[2]] /\ nlink'[p[2]] = nlink[p[2]]
               /\ Referring(p[2])' = Referring(p[2]) /\ p[2] \notin open'
               /\ type'[p[1][1]] = type[p[1][1]] /\ Live(p[1][1])' /\ entry'[p[1]] = entry[p[1]]
    BY <1>4, <1>5, <1>6, <2>1 DEF TreeInv, MakingInv
  <2>3. QED
    BY <2>2, MakingFrame DEF TreeInv
<1>12. LinkCounts'
  <2>1. \A j \in Inodes : Subdirectories(j)' = Subdirectories(j)
    BY <1>1, <1>2, InstantiateSubdirs
  <2>2. Counted(i)'
    <3>1. Cardinality(Referring(i)') = Cardinality(Referring(i)) + 1
      BY <1>5, Finite, CountMore
    <3>2. QED
      BY <3>1 DEF Counted
  <2>3. ASSUME NEW j \in Inodes \ {i}, type'[j] # "free", j \notin InMaking' PROVE Counted(j)'
    <3>1. Counted(j)
      BY <2>3, CountsOfEach DEF TreeInv
    <3>2. QED
      BY <1>5, <2>1, <3>1, CountedFrame
  <2>4. QED
    BY <2>2, <2>3, CountsNext
<1>13. ReachInv'
  BY <1>2, InstantiateReach DEF TreeInv
<1>14. QED
  BY <1>7, <1>8, <1>9, <1>10, <1>11, <1>12, <1>13 DEF TreeInv

LEMMA LinkStep ==
    ASSUME TreeInv, NEW l \in Links, NEW i \in Inodes, Link(l, i)
    PROVE  TreeInv'
<1>1. TypeOK /\ l[1] \in Inodes
  BY LinkParts DEF TreeInv
<1>2. type[l[1]] = "dir" /\ Live(l[1]) /\ entry[l] = None /\ ~Locked(l[1])
  BY <1>1, LinkedLive DEF Link, Vacant
<1>3. Live(i) /\ type[i] # "dir"
  BY DEF Link, Live
<1>4. type[i] # "free" /\ i \notin InMaking /\ Counted(i)
  BY <1>3, LiveCounted
<1>5. nlink[i] = Cardinality(Referring(i))
  BY <1>3, <1>4 DEF Counted
<1>6. /\ nlink'[i] = nlink[i] + 1 /\ nlink' \in [Inodes -> Nat]
      /\ \A j \in Inodes \ {i} : nlink'[j] = nlink[j]
  BY <1>1 DEF Link, TypeOK
<1>7. making' = making /\ InMaking' = InMaking \ {i} /\ \A p \in making' : p[1][1] # l[1]
  BY <1>2, <1>4 DEF Link, InMaking, Locked
<1>8. Instantiate(l, i) /\ UNCHANGED <<variant, root, type, open, failures>>
  BY DEF Link
<1>9. QED
  BY <1>2, <1>3, <1>4, <1>5, <1>6, <1>7, <1>8, AttachStep

LEMMA SymlinkDoneStep ==
    ASSUME TreeInv, NEW p \in making, SymlinkDone(p)
    PROVE  TreeInv'
<1>1. TypeOK /\ p[1] \in Links /\ p[2] \in Inodes
  BY DEF TreeInv, TypeOK
<1> DEFINE l == p[1]
           i == p[2]
<1>2. /\ type[i] = "lnk" /\ nlink[i] = 1 /\ Referring(i) = {}
      /\ type[l[1]] = "dir" /\ Live(l[1]) /\ entry[l] = None
  BY DEF TreeInv, MakingInv
<1>3. nlink'[i] = Cardinality(Referring(i)) + 1 /\ nlink' = nlink
  BY <1>2, CountNone DEF SymlinkDone
<1>4. /\ making' = making \ {p}
      /\ \A q \in making' : q[1][1] # l[1] /\ q[2] # i
  BY DEF SymlinkDone, TreeInv, MakingInv
<1>5. InMaking' = InMaking \ {i}
  BY <1>4 DEF InMaking
<1>6. Instantiate(l, i) /\ UNCHANGED <<variant, root, type, open, failures>>
  BY DEF SymlinkDone
<1>7. nlink' \in [Inodes -> Nat]
  BY <1>1, <1>3 DEF TypeOK
<1> HIDE DEF l, i
<1>8. l \in Links /\ i \in Inodes
  BY <1>1 DEF l, i
<1>9. QED
  BY <1>2, <1>3, <1>4, <1>5, <1>6, <1>7, <1>8, AttachStep

LEMMA SymlinkFailsStep ==
    ASSUME TreeInv, NEW p \in making, SymlinkFails(p)
    PROVE  TreeInv'
<1>1. TypeOK /\ p[1] \in Links /\ p[2] \in Inodes
  BY DEF TreeInv, TypeOK
<1> DEFINE i == p[2]
<1>2. /\ type[i] = "lnk" /\ Referring(i) = {} /\ i \notin open /\ i # root /\ Childless(i)
  BY <1>1, NoChildren, TreeAssumption DEF TreeInv, MakingInv, RootInv
<1>3. making' = making \ {p} /\ \A q \in making' : q \in making /\ q[2] # i
  BY DEF SymlinkFails, TreeInv, MakingInv
<1>4. InMaking' = InMaking \ {i}
  BY <1>3 DEF InMaking
<1>5. type'[i] = "free" /\ \A j \in Inodes \ {i} : type'[j] = type[j]
  BY <1>1 DEF SymlinkFails, TypeOK
<1>6. UNCHANGED <<variant, root, nlink, entry, pinned, open>>
  BY DEF SymlinkFails
<1>7. \A j : Referring(j)' = Referring(j) /\ (Live(j)' <=> Live(j))
  BY <1>6 DEF Referring, Live
<1>8. TypeOK'
  BY <1>1, <1>3, <1>6, TreeAssumption DEF TypeOK, SymlinkFails, NoMemory
<1>9. RootInv'
  BY <1>1, <1>2, <1>5, <1>6, <1>7 DEF TreeInv, RootInv, TypeOK
<1>10. \A k \in Links : entry[k] # None => entry[k] \in Inodes \ {i} /\ k[1] \in Inodes \ {i}
  BY <1>1, <1>2, LinkParts DEF Referring, Childless, TypeOK
<1>11. EntryInv'
  BY <1>5, <1>6, <1>7, <1>10 DEF TreeInv, EntryInv
<1>12. HeldInv'
  BY <1>1, <1>2, <1>4, <1>5, <1>6, <1>7 DEF TreeInv, HeldInv, TypeOK
<1>13. MakingInv'
  <2>1. ASSUME NEW q \in making'
        PROVE  q[1] \in Links /\ q[1][1] \in Inodes \ {i} /\ q[2] \in Inodes \ {i}
    BY <1>2, <1>3, <1>8, LinkParts DEF TypeOK, TreeInv, MakingInv
  <2>2. ASSUME NEW q \in making'
        PROVE  /\ type'[q[2]] = type[q[2]] /\ nlink'[q[2]] = nlink[q[2]]
               /\ Referring(q[2])' = Referring(q[2]) /\ q[2] \notin open'
               /\ type'[q[1][1]] = type[q[1][1]] /\ Live(q[1][1])' /\ entry'[q[1]] = entry[q[1]]
    BY <1>3, <1>5, <1>6, <1>7, <2>1 DEF TreeInv, MakingInv
  <2>3. QED
    BY <1>3, <2>2, MakingFrame DEF TreeInv
<1>14. LinkCounts'
  <2>1. ASSUME NEW j \in Inodes, type'[j] # "free", j \notin InMaking' PROVE Counted(j)'
    <3>1. j # i /\ Counted(j)
      BY <1>4, <1>5, <2>1, CountsOfEach DEF TreeInv
    <3>2. Subdirectories(j)' = Subdirectories(j)
      <4>1. \A n \in Names : entry[<<j, n>>] # None =>
               type'[entry[<<j, n>>]] = "dir" <=> type[entry[<<j, n>>]] = "dir"
        BY <1>5, <1>10, LinkParts
      <4>2. QED
        BY <1>6, <4>1 DEF Subdirectories
    <3>3. QED
      BY <1>5, <1>6, <1>7, <3>1, <3>2, CountedFrame
  <2>2. QED
    BY <2>1, CountsNext
<1>15. ReachInv'
  BY <1>6 DEF TreeInv, ReachInv, Above, Referring
<1>16. QED
  BY <1>8, <1>9, <1>11, <1>12, <1>13, <1>14, <1>15 DEF TreeInv

LEMMA OpenStep ==
    ASSUME TreeInv, NEW i \in Inodes, Open(i)
    PROVE  TreeInv'
<1>1. TypeOK /\ Live(i)
  BY DEF TreeInv, Open, Live
<1>2. type[i] # "free" /\ i \notin InMaking
  BY <1>1, LiveCounted
<1>3. open' = open \cup {i} /\ UNCHANGED <<variant, root, type, nlink, entry, pinned, making, failures>>
  BY DEF Open
<1>4. \A j : /\ Referring(j)' = Referring(j) /\ (Live(j)' <=> Live(j))
             /\ Subdirectories(j)' = Subdirectories(j)
  BY <1>3 DEF Referring, Live, Subdirectories
<1>5. TypeOK'
  BY <1>1, <1>3 DEF TypeOK
<1>6. RootInv' /\ EntryInv'
  BY <1>3, <1>4 DEF TreeInv, RootInv, EntryInv, Open
<1>7. HeldInv'
  BY <1>2, <1>3, <1>4 DEF TreeInv, HeldInv, InMaking
<1>8. MakingInv'
  BY <1>2, <1>3, <1>4 DEF TreeInv, MakingInv, InMaking
<1>9. LinkCounts'
  <2>1. ASSUME NEW j \in Inodes, type'[j] # "free", j \notin InMaking' PROVE Counted(j)'
    <3>1. Counted(j)
      BY <1>3, <2>1, CountsOfEach DEF TreeInv, InMaking
    <3>2. QED
      BY <1>3, <1>4, <3>1, CountedFrame
  <2>2. QED
    BY <2>1, CountsNext
<1>10. ReachInv'
  BY <1>3 DEF TreeInv, ReachInv, Above, Referring
<1>11. QED
  BY <1>5, <1>6, <1>7, <1>8, <1>9, <1>10 DEF TreeInv

LEMMA CloseStep ==
    ASSUME TreeInv, NEW i \in Inodes, Close(i)
    PROVE  TreeInv'
<1>1. TypeOK /\ i \in open /\ type[i] # "free" /\ i \notin InMaking /\ i # root
  BY TreeAssumption DEF TreeInv, Close, HeldInv, MakingInv, InMaking, RootInv
<1>2. open' = open \ {i} /\ UNCHANGED <<variant, root, nlink, entry, pinned, making, failures>>
  BY DEF Close
<1>3. /\ type'[i] = IF Referring(i) = {} THEN "free" ELSE type[i]
      /\ \A j \in Inodes \ {i} : type'[j] = type[j]
  BY <1>1 DEF TypeOK, Close
<1>4. \A j : Referring(j)' = Referring(j) /\ (Live(j)' <=> Live(j))
  BY <1>2 DEF Referring, Live
<1>5. \A j \in Inodes : Live(j) => type'[j] = type[j]
  BY <1>1, <1>3 DEF Live
<1>6. \A k \in Links : entry[k] # None => entry[k] \in Inodes /\ Live(entry[k])
  BY <1>1 DEF Live, Referring, TypeOK
<1>7. TypeOK'
  BY <1>1, <1>2 DEF TypeOK, Close
<1>8. RootInv'
  BY <1>1, <1>2, <1>3, <1>4 DEF TreeInv, RootInv, TypeOK
<1>9. EntryInv'
  BY <1>2, <1>4, <1>5, <1>6, LinkParts DEF TreeInv, EntryInv
<1>10. HeldInv'
  BY <1>1, <1>2, <1>3, <1>4 DEF TreeInv, HeldInv, InMaking, Live, TypeOK
<1>11. MakingInv'
  <2>1. ASSUME NEW p \in making'
        PROVE  p[1] \in Links /\ p[1][1] \in Inodes /\ p[2] \in Inodes \ {i} /\ Live(p[1][1])
    BY <1>1, <1>2, <1>7, LinkParts DEF TypeOK, TreeInv, MakingInv, InMaking
  <2>2. ASSUME NEW p \in making'
        PROVE  /\ type'[p[2]] = type[p[2]] /\ nlink'[p[2]] = nlink[p[2]]
               /\ Referring(p[2])' = Referring(p[2]) /\ p[2] \notin open'
               /\ type'[p[1][1]] = type[p[1][1]] /\ Live(p[1][1])' /\ entry'[p[1]] = entry[p[1]]
    BY <1>2, <1>3, <1>4, <1>5, <2>1 DEF TreeInv, MakingInv
  <2>3. QED
    BY <1>2, <2>2, MakingFrame DEF TreeInv
<1>12. LinkCounts'
  <2>1. ASSUME NEW j \in Inodes, type'[j] # "free", j \notin InMaking' PROVE Counted(j)'
    <3>1. Counted(j) /\ type'[j] = type[j]
      BY <1>2, <1>3, <2>1, CountsOfEach DEF TreeInv, InMaking
    <3>2. Subdirectories(j)' = Subdirectories(j)
      <4>1. \A n \in Names : entry[<<j, n>>] # None =>
               type'[entry[<<j, n>>]] = type[entry[<<j, n>>]]
        BY <1>5, <1>6, LinkParts
      <4>2. QED
        BY <1>2, <4>1 DEF Subdirectories
    <3>3. QED
      BY <1>2, <1>4, <3>1, <3>2, CountedFrame
  <2>2. QED
    BY <2>1, CountsNext
<1>13. ReachInv'
  BY <1>2 DEF TreeInv, ReachInv, Above, Referring
<1>14. QED
  BY <1>7, <1>8, <1>9, <1>10, <1>11, <1>12, <1>13 DEF TreeInv

LEMMA FillSuperStep ==
    ASSUME TreeInv, root = None, NEW i \in Free,
           root' = i,
           type' = [type EXCEPT ![i] = "dir"],
           nlink' = [nlink EXCEPT ![i] = InitialLinks("dir")],
           UNCHANGED <<variant, entry, pinned, open, making, failures>>
    PROVE  TreeInv'
<1>1. TypeOK /\ i \in Inodes /\ \A j \in Inodes : type[j] = "free"
  BY DEF TreeInv, RootInv, Free
<1>2. open = {} /\ making = {} /\ \A k \in Links : entry[k] = None
  BY <1>1, TreeAssumption DEF TreeInv, HeldInv, MakingInv, EntryInv, TypeOK
<1>3. type'[i] = "dir" /\ \A j \in Inodes \ {i} : type'[j] = "free"
  BY <1>1 DEF TypeOK
<1>4. \A j \in Inodes : Referring(j)' = {}
  BY <1>2, TreeAssumption DEF Referring
<1>5. InMaking' = {}
  BY <1>2 DEF InMaking
<1>6. TypeOK'
  BY <1>1, TreeAssumption DEF TypeOK, InitialLinks
<1>7. RootInv'
  BY <1>1, <1>2, <1>3, <1>4, TreeAssumption DEF RootInv
<1>8. EntryInv' /\ MakingInv'
  BY <1>2 DEF EntryInv, MakingInv
<1>9. HeldInv'
  BY <1>2, <1>3 DEF HeldInv, Live
<1>10. LinkCounts'
  <2>1. Subdirectories(i)' = {}
    BY <1>1, <1>2, LinkParts DEF Subdirectories
  <2>2. nlink'[i] = 2
    BY <1>1 DEF TypeOK, InitialLinks
  <2>3. Counted(i)'
    BY <1>3, <2>1, <2>2, CountNone DEF Counted, Live
  <2>4. QED
    BY <1>3, <2>3, CountsNext
<1>11. ReachInv'
  BY <1>4 DEF ReachInv
<1>12. QED
  BY <1>6, <1>7, <1>8, <1>9, <1>10, <1>11 DEF TreeInv

LEMMA KillSbStep ==
    ASSUME TreeInv, EntriesPinned, KillSb
    PROVE  TreeInv'
<1>1. TypeOK /\ open' = {} /\ making' = {} /\ InMaking = {} /\ InMaking' = {}
  BY DEF TreeInv, KillSb, InMaking
<1>2. \A i \in Inodes : type'[i] = "free"
  BY <1>1 DEF TreeInv, HeldInv, KillSb, Live, TypeOK
<1>3. \A l \in Links : entry'[l] = None
  BY <1>1 DEF KillSb, EntriesPinned, TypeOK
<1>4. \A i \in Inodes : Referring(i)' = {}
  BY <1>3, TreeAssumption DEF Referring
<1>5. TypeOK'
  BY <1>1 DEF TypeOK, KillSb
<1>6. RootInv' /\ EntryInv' /\ HeldInv' /\ MakingInv'
  BY <1>1, <1>2, <1>3 DEF RootInv, EntryInv, HeldInv, MakingInv, KillSb
<1>7. LinkCounts'
  BY <1>2, CountsNext
<1>8. ReachInv'
  BY <1>4 DEF ReachInv
<1>9. QED
  BY <1>5, <1>6, <1>7, <1>8 DEF TreeInv

(* Unlink, and rmdir of an empty directory: the dentry l of x goes, x is   *)
(* deleted if nothing else holds it, and the links of x and of the         *)
(* directory are those they still have.                                    *)
LEMMA DetachStep ==
    ASSUME TreeInv, NEW l \in Links, NEW x \in Inodes, entry[l] = x,
           ~Locked(l[1]), ~Locked(x),
           type[x] = "dir" => Empty(x),
           nlink' \in [Inodes -> Int],
           nlink'[x] = nlink[x] - (IF type[x] = "dir" THEN 2 ELSE 1),
           nlink'[l[1]] = nlink[l[1]] - (IF type[x] = "dir" THEN 1 ELSE 0),
           \A j \in Inodes \ {x, l[1]} : nlink'[j] = nlink[j],
           type' = [type EXCEPT ![x] = AfterPut(x, Referring(x) \ {l})],
           Remove(l),
           UNCHANGED <<variant, root, open, making, failures>>
    PROVE  TreeInv'
<1> DEFINE d == l[1]
<1>1. TypeOK
  BY DEF TreeInv
<1>2. Childless(x)
  BY NoChildren
<1>3. /\ d \in Inodes /\ x # None /\ d # x /\ type[d] = "dir" /\ Live(d) /\ Live(x)
      /\ type[x] # "free" /\ x # root
  BY <1>2, LinkParts, TreeAssumption DEF TreeInv, EntryInv, RootInv, Childless, Live, Referring
<1>4. x \notin InMaking /\ Counted(x) /\ Counted(d)
  BY <1>3, LiveCounted
<1>5. /\ Referring(x)' = Referring(x) \ {l} /\ l \in Referring(x)
      /\ \A j \in Inodes \ {x} : Referring(j)' = Referring(j)
  BY <1>1, RemoveRefs
<1>6. type[x] = "dir" => Referring(x) = {l}
  BY <1>3 DEF TreeInv, EntryInv, Referring
<1>7. /\ type'[x] = AfterPut(x, Referring(x) \ {l})
      /\ type'[x] = IF Referring(x)' = {} /\ x \notin open THEN "free" ELSE type[x]
      /\ \A j \in Inodes \ {x} : type'[j] = type[j]
  BY <1>1, <1>5 DEF TypeOK, AfterPut
<1>8. entry'[l] = None /\ \A k \in Links \ {l} : entry'[k] = entry[k]
  BY <1>1 DEF TypeOK, Remove
<1>9. /\ nlink'[x] = nlink[x] - (IF type[x] = "dir" THEN 2 ELSE 1)
      /\ nlink'[d] = nlink[d] - (IF type[x] = "dir" THEN 1 ELSE 0)
      /\ \A j \in Inodes \ {x, d} : nlink'[j] = nlink[j]
  OBVIOUS
<1>10. \A j \in Inodes \ {x} : Live(j)' <=> Live(j)
  BY <1>5 DEF Live
<1>11. InMaking' = InMaking
  BY DEF InMaking
<1>12. /\ type[x] = "dir" => l[2] \in Subdirectories(d)
       /\ Subdirectories(d)' = IF type[x] = "dir" THEN Subdirectories(d) \ {l[2]}
                               ELSE Subdirectories(d)
       /\ \A j \in Inodes \ {d} : Subdirectories(j)' = Subdirectories(j)
  <2>1. IF type[x] = "dir" THEN Referring(x) = {l} ELSE type'[x] # "dir"
    BY <1>6, <1>7
  <2>2. \A j \in Inodes \ {x} : type'[j] = type[j]
    BY <1>7
  <2>3. QED
    BY <1>1, <2>1, <2>2, RemoveSubdirs
<1>13. Counted(x)' /\ nlink'[x] \in Nat
  <2>1. CASE type[x] = "dir"
    <3>1. nlink[x] = 2
      BY <1>2, <1>3, <1>4, <2>1, NoSubdirs DEF Counted
    <3>2. Referring(x)' = {}
      BY <1>5, <1>6, <2>1
    <3>3. CASE x \in open
      BY <1>3, <1>7, <1>9, <2>1, <3>1, <3>2, <3>3 DEF Counted, Live
    <3>4. CASE x \notin open
      BY <1>7, <1>9, <2>1, <3>1, <3>2, <3>4, CountNone DEF Counted
    <3>5. QED
      BY <3>3, <3>4, <3>1, <1>9, <2>1
  <2>2. CASE type[x] # "dir"
    <3>1. nlink[x] = Cardinality(Referring(x))
      BY <1>4, <2>2 DEF Counted
    <3>2. /\ Cardinality(Referring(x)') = Cardinality(Referring(x)) - 1
          /\ Cardinality(Referring(x)) > 0 /\ Cardinality(Referring(x)) \in Nat
      BY <1>5, Finite, CountLess
    <3>3. type'[x] # "dir"
      BY <1>7, <2>2
    <3>4. QED
      BY <1>9, <2>2, <3>1, <3>2, <3>3 DEF Counted
  <2>3. QED
    BY <2>1, <2>2
<1>14. Counted(d)' /\ nlink'[d] \in Nat
  <2>1. nlink[d] = 2 + Cardinality(Subdirectories(d)) /\ Cardinality(Subdirectories(d)) \in Nat
    BY <1>3, <1>4, Finite DEF Counted
  <2>2. type[x] = "dir" => Cardinality(Subdirectories(d)') = Cardinality(Subdirectories(d)) - 1
    BY <1>12, Finite, CountLess
  <2>3. type'[d] = "dir" /\ Live(d)'
    BY <1>3, <1>7, <1>10
  <2>4. QED
    BY <1>9, <1>12, <2>1, <2>2, <2>3 DEF Counted
<1>15. TypeOK'
  <2>1. nlink' \in [Inodes -> Nat]
    BY <1>1, <1>9, <1>13, <1>14 DEF TypeOK
  <2>2. type' \in [Inodes -> {"free", "reg", "dir", "lnk", "special"}]
    BY <1>1, <1>7 DEF TypeOK
  <2>3. QED
    BY <1>1, <2>1, <2>2 DEF TypeOK, Remove
<1>16. RootInv'
  BY <1>1, <1>3, <1>5, <1>7 DEF TreeInv, RootInv, TypeOK
<1>17. EntryInv'
  <2>1. \A k \in Links : entry'[k] # None =>
           k # l /\ entry'[k] = entry[k] /\ entry[k] \in Inodes /\ k[1] \in Inodes \ {x}
    BY <1>1, <1>2, <1>8, LinkParts DEF Childless, TypeOK
  <2>2. \A k \in Links : entry'[k] = x => Referring(x)' # {}
    BY DEF Referring
  <2>3. \A k \in Links : entry'[k] # None => type'[entry[k]] = type[entry[k]]
    BY <1>7, <2>1, <2>2
  <2> EntryInv
    BY DEF TreeInv
  <2>4. ASSUME NEW k \in Links, entry'[k] # None
        PROVE  type'[k[1]] = "dir" /\ Live(k[1])' /\ type'[entry'[k]] # "free"
    <3>1. entry'[k] = entry[k] /\ k[1] \in Inodes \ {x} /\ type'[entry[k]] = type[entry[k]]
      BY <2>1, <2>3, <2>4
    <3>2. type[k[1]] = "dir" /\ Live(k[1]) /\ type[entry[k]] # "free"
      BY <2>4, <3>1 DEF EntryInv
    <3>3. QED
      BY <1>7, <1>10, <3>1, <3>2
  <2>5. ASSUME NEW k \in Links, NEW m \in Links,
               entry'[k] # None, entry'[k] = entry'[m], type'[entry'[k]] = "dir"
        PROVE  k = m
    <3>1. entry'[k] = entry[k] /\ entry'[m] = entry[m] /\ type'[entry[k]] = type[entry[k]]
      BY <2>1, <2>3, <2>5
    <3>2. entry[k] # None /\ entry[k] = entry[m] /\ type[entry[k]] = "dir"
      BY <2>5, <3>1
    <3>3. QED
      BY <3>2, Zenon DEF EntryInv
  <2>6. QED
    BY <2>4, <2>5 DEF EntryInv
<1>18. HeldInv'
  BY <1>1, <1>3, <1>7, <1>10, <1>11 DEF TreeInv, HeldInv, TypeOK, Live
<1>19. MakingInv'
  <2>1. ASSUME NEW p \in making
        PROVE  /\ p[1] \in Links \ {l} /\ p[1][1] \in Inodes \ {x}
               /\ p[2] \in Inodes \ {x, d}
    BY <1>1, <1>3, <1>4, LinkParts DEF TypeOK, Locked, InMaking, TreeInv, MakingInv
  <2>2. ASSUME NEW p \in making'
        PROVE  /\ type'[p[2]] = type[p[2]] /\ nlink'[p[2]] = nlink[p[2]]
               /\ Referring(p[2])' = Referring(p[2]) /\ p[2] \notin open'
               /\ type'[p[1][1]] = type[p[1][1]] /\ Live(p[1][1])' /\ entry'[p[1]] = entry[p[1]]
    BY <1>5, <1>7, <1>8, <1>9, <1>10, <2>1 DEF TreeInv, MakingInv
  <2>3. QED
    BY <2>2, MakingFrame DEF TreeInv
<1>20. LinkCounts'
  <2>1. ASSUME NEW j \in Inodes \ {x, d}, type'[j] # "free", j \notin InMaking'
        PROVE  Counted(j)'
    <3>1. Counted(j)
      BY <1>7, <1>11, <2>1, CountsOfEach DEF TreeInv
    <3>2. QED
      BY <1>5, <1>7, <1>9, <1>12, <3>1, CountedFrame
  <2>2. QED
    BY <1>13, <1>14, <2>1, CountsNext
<1>21. ReachInv'
  BY <1>1, <1>2, RemoveReach DEF TreeInv
<1>22. QED
  BY <1>15, <1>16, <1>17, <1>18, <1>19, <1>20, <1>21 DEF TreeInv

LEMMA UnlinkStep ==
    ASSUME TreeInv, NEW l \in Links, Unlink(l)
    PROVE  TreeInv'
<1>1. PICK x \in Inodes : entry[l] = x
  BY DEF TreeInv, TypeOK, Unlink, Occupied
<1>2. TypeOK /\ type[x] # "dir" /\ ~Locked(l[1]) /\ l[1] \in Inodes
  BY <1>1, LinkParts DEF TreeInv, Unlink, Occupied
<1>3. ~Locked(x)
  BY <1>2 DEF TreeInv, MakingInv, Locked
<1>4. l[1] # x
  BY <1>1, <1>2, TreeAssumption DEF TreeInv, EntryInv
<1>5. /\ nlink' \in [Inodes -> Int]
      /\ nlink'[x] = nlink[x] - 1 /\ nlink'[l[1]] = nlink[l[1]] - 0
      /\ \A j \in Inodes \ {x, l[1]} : nlink'[j] = nlink[j]
  BY <1>1, <1>2, <1>4 DEF TypeOK, Unlink
<1>6. /\ type' = [type EXCEPT ![x] = AfterPut(x, Referring(x) \ {l})]
      /\ Remove(l) /\ UNCHANGED <<variant, root, open, making, failures>>
  BY <1>1 DEF Unlink
<1>7. QED
  BY <1>1, <1>2, <1>3, <1>5, <1>6, DetachStep

LEMMA RmdirStep ==
    ASSUME TreeInv, NEW l \in Links, Rmdir(l)
    PROVE  TreeInv'
<1>1. PICK x \in Inodes : entry[l] = x
  BY DEF TreeInv, TypeOK, Rmdir, Occupied
<1>2. type[x] = "dir" /\ ~Locked(l[1]) /\ ~Locked(x)
  BY <1>1 DEF Rmdir, Occupied
<1>3. CASE UNCHANGED tree
  BY <1>3, Stutter DEF Rmdir, TreeInv, TypeOK
<1>4. CASE /\ Empty(x)
           /\ nlink' = [nlink EXCEPT ![x] = @ - 2, ![l[1]] = @ - 1]
           /\ type' = [type EXCEPT ![x] = AfterPut(x, {})]
           /\ Remove(l)
           /\ UNCHANGED <<variant, root, open, making, failures>>
  <2>1. Referring(x) \ {l} = {}
    BY <1>1, <1>2, TreeAssumption DEF TreeInv, EntryInv, Referring
  <2>2. l[1] \in Inodes /\ l[1] # x
    BY <1>1, <1>4, NoChildren, LinkParts, TreeAssumption DEF Childless
  <2>3. /\ nlink' \in [Inodes -> Int]
        /\ nlink'[x] = nlink[x] - 2 /\ nlink'[l[1]] = nlink[l[1]] - 1
        /\ \A j \in Inodes \ {x, l[1]} : nlink'[j] = nlink[j]
    BY <1>4, <2>2 DEF TreeInv, TypeOK
  <2>4. QED
    BY <1>1, <1>2, <1>4, <2>1, <2>3, DetachStep
<1>5. QED
  BY <1>1, <1>3, <1>4 DEF Rmdir

(* What a rename of x from l to m does, over y or nothing.                 *)
RenameEffect(l, m, x, y) ==
    /\ nlink' = [i \in Inodes |->
          nlink[i] + (IF i = m[1] /\ type[x] = "dir" /\ y = None THEN 1 ELSE 0)
                   - ((IF i = l[1] /\ type[x] = "dir" THEN 1 ELSE 0)
                      + (IF i = y THEN (IF type[x] = "dir" THEN 2 ELSE 1) ELSE 0))]
    /\ type' = [i \in Inodes |-> IF i = y THEN AfterPut(i, Referring(i) \ {m}) ELSE type[i]]
    /\ entry' = [entry EXCEPT ![l] = None, ![m] = x]
    /\ pinned' \subseteq Links
    /\ UNCHANGED <<variant, root, open, making, failures>>

LEMMA MoveStep ==
    ASSUME TreeInv, NEW l \in Links, NEW m \in Links, l # m,
           NEW x \in Inodes, NEW y \in (Inodes \cup {None}) \ {x},
           entry[l] = x, entry[m] = y,
           ~Locked(l[1]), ~Locked(m[1]),
           type[m[1]] = "dir", nlink[m[1]] > 0,
           type[x] = "dir" => ~Above(x, m[1]),
           y # None => /\ ~Locked(y)
                       /\ type[y] = "dir" <=> type[x] = "dir"
                       /\ type[y] # "dir" \/ Empty(y),
           RenameEffect(l, m, x, y)
    PROVE  TreeInv'
<1> DEFINE d == l[1]
           e == m[1]
<1> USE DEF RenameEffect
<1>1. TypeOK /\ x # None /\ d \in Inodes /\ e \in Inodes
  BY LinkParts, TreeAssumption DEF TreeInv
<1>2. Move(l, m, x)
  BY <1>1 DEF TypeOK, Move
<1>3. y # None => y \in Inodes /\ Childless(y)
  BY NoChildren
<1>4. /\ type[d] = "dir" /\ Live(d) /\ type[x] # "free"
      /\ y # None => type[y] # "free"
  BY <1>1 DEF TreeInv, EntryInv
<1>5. Live(e)
  BY <1>1, LinkedLive
<1>6. x # d /\ x # e
  <2>1. x # d
    BY NotInItself
  <2>2. Above(x, x)
    BY DEF Above
  <2>3. QED
    BY <2>1, <2>2
<1>7. y # d /\ y # e
  BY <1>1, <1>3, TreeAssumption DEF Childless
<1>8. /\ Referring(x)' = (Referring(x) \ {l}) \cup {m}
      /\ l \in Referring(x) /\ m \notin Referring(x)
      /\ y # None => Referring(y)' = Referring(y) \ {m} /\ m \in Referring(y)
      /\ \A j \in Inodes \ {x, y} : Referring(j)' = Referring(j)
  BY <1>1, <1>2, MoveRefs
<1>9. x # root /\ (y # None => y # root)
  BY <1>1, <1>8, TreeAssumption DEF TreeInv, RootInv
<1>10. Live(x) /\ Live(x)' /\ \A j \in Inodes \ {y} : Live(j)' <=> Live(j)
  BY <1>8 DEF Live
<1>11. /\ y # None => type'[y] = IF Referring(y)' = {} /\ y \notin open THEN "free" ELSE type[y]
       /\ \A j \in Inodes \ {y} : type'[j] = type[j]
  BY <1>3, <1>8 DEF AfterPut
<1>12. entry'[l] = None /\ entry'[m] = x /\ \A k \in Links \ {l, m} : entry'[k] = entry[k]
  BY <1>2 DEF Move
<1>13. InMaking' = InMaking
  BY DEF InMaking
<1>14. y # None => /\ type[x] = "dir" => type[y] = "dir" /\ Referring(y) = {m}
                   /\ type[x] # "dir" => type[y] # "dir" /\ type'[y] # "dir"
  BY <1>11 DEF TreeInv, EntryInv, Referring
<1>15. /\ type[x] = "dir" => /\ l[2] \in Subdirectories(d)
                             /\ m[2] \in Subdirectories(e) <=> y # None
       /\ \A j \in Inodes, n \in Names : n \in Subdirectories(j)' <=>
             IF type[x] = "dir"
             THEN \/ n \in Subdirectories(j) /\ ~(j = d /\ n = l[2])
                  \/ j = e /\ n = m[2]
             ELSE n \in Subdirectories(j)
  <2>1. SameKind(x, y, m)
    BY <1>14 DEF SameKind
  <2>2. \A j \in Inodes \ {y} : type'[j] = type[j]
    BY <1>11
  <2>3. QED
    BY <1>1, <1>2, <2>1, <2>2, MoveSubdirs
<1> DEFINE Sub(j) == Subdirectories(j)
<1>16. l[2] \in Names /\ m[2] \in Names /\ (d = e => l[2] # m[2])
  BY LinkParts
<1>17. \A j : Sub(j) \subseteq Names /\ Sub(j)' \subseteq Names
  BY DEF Subdirectories
<1>18. ASSUME NEW j \in Inodes
       PROVE  /\ type[x] # "dir" \/ j \notin {d, e} => Sub(j)' = Sub(j)
              /\ type[x] = "dir" => l[2] \in Sub(d)
              /\ type[x] = "dir" /\ y = None => m[2] \notin Sub(e)
              /\ type[x] = "dir" /\ j = d /\ j = e /\ y = None =>
                    Sub(j)' = (Sub(j) \ {l[2]}) \cup {m[2]}
              /\ type[x] = "dir" /\ j = d /\ (j # e \/ y # None) => Sub(j)' = Sub(j) \ {l[2]}
              /\ type[x] = "dir" /\ j = e /\ j # d /\ y = None => Sub(j)' = Sub(j) \cup {m[2]}
              /\ type[x] = "dir" /\ j = e /\ j # d /\ y # None => Sub(j)' = Sub(j)
  BY <1>15, <1>16, <1>17
<1>19. \A j \in Inodes \ {d, e, y} : nlink'[j] = nlink[j]
  BY <1>1 DEF TypeOK
<1>20. Counted(x)'
  <2>1. Counted(x)
    BY <1>10, LiveCounted
  <2>2. nlink'[x] = nlink[x] /\ type'[x] = type[x]
    BY <1>6, <1>11, <1>19
  <2>3. Cardinality(Referring(x)') = Cardinality(Referring(x))
    BY <1>8, Finite, CountSame
  <2>4. Subdirectories(x)' = Subdirectories(x)
    BY <1>6, <1>18
  <2>5. QED
    BY <1>10, <2>1, <2>2, <2>3, <2>4 DEF Counted
<1>21. y # None => Counted(y)' /\ nlink'[y] \in Nat
  <2> SUFFICES ASSUME y # None PROVE Counted(y)' /\ nlink'[y] \in Nat
    OBVIOUS
  <2>1. Live(y) /\ nlink'[y] = nlink[y] - (IF type[x] = "dir" THEN 2 ELSE 1)
    BY <1>1, <1>3, <1>7, <1>8 DEF Live, TypeOK
  <2>2. Counted(y)
    BY <1>3, <2>1, LiveCounted
  <2>3. CASE type[x] = "dir"
    <3>1. nlink[y] = 2
      BY <1>3, <1>14, <2>1, <2>2, <2>3, NoSubdirs DEF Counted
    <3>2. Referring(y)' = {}
      BY <1>8, <1>14, <2>3
    <3>3. CASE y \in open
      BY <1>9, <1>11, <1>14, <2>1, <2>3, <3>1, <3>2, <3>3 DEF Counted, Live
    <3>4. CASE y \notin open
      BY <1>11, <2>1, <2>3, <3>1, <3>2, <3>4, CountNone DEF Counted
    <3>5. QED
      BY <2>1, <2>3, <3>1, <3>3, <3>4
  <2>4. CASE type[x] # "dir"
    <3>1. nlink[y] = Cardinality(Referring(y))
      BY <1>14, <2>2, <2>4 DEF Counted
    <3>2. /\ Cardinality(Referring(y)') = Cardinality(Referring(y)) - 1
          /\ Cardinality(Referring(y)) > 0 /\ Cardinality(Referring(y)) \in Nat
      BY <1>8, Finite, CountLess
    <3>3. QED
      BY <1>14, <2>1, <2>4, <3>1, <3>2 DEF Counted
  <2>5. QED
    BY <2>3, <2>4
<1>22. ASSUME NEW j \in {d, e}
       PROVE  Counted(j)' /\ nlink'[j] \in Nat
  <2>1. j \in Inodes /\ type'[j] = "dir" /\ Live(j) /\ Live(j)' /\ j # y
    BY <1>1, <1>4, <1>5, <1>7, <1>10, <1>11
  <2>2. type[j] = "dir" /\ Counted(j)
    BY <1>4, <2>1, LiveCounted
  <2>3. nlink[j] = 2 + Cardinality(Subdirectories(j)) /\ Cardinality(Subdirectories(j)) \in Nat
    BY <2>1, <2>2, Finite DEF Counted
  <2>4. nlink'[j] = nlink[j] + (IF j = e /\ type[x] = "dir" /\ y = None THEN 1 ELSE 0)
                             - (IF j = d /\ type[x] = "dir" THEN 1 ELSE 0)
    BY <2>1, <2>3
  <2>5. Cardinality(Subdirectories(j)') = nlink'[j] - 2 /\ nlink'[j] \in Nat
    <3>1. CASE type[x] # "dir"
      BY <2>1, <2>3, <2>4, <1>18, <3>1
    <3>2. CASE type[x] = "dir" /\ j = d /\ j = e /\ y = None
      <4>1. Cardinality(Subdirectories(j)') = Cardinality(Subdirectories(j))
        BY <2>1, <1>18, <3>2, Finite, CountSame
      <4>2. QED
        BY <4>1, <2>3, <2>4, <3>2
    <3>3. CASE type[x] = "dir" /\ j = d /\ (y # None \/ j # e)
      <4>1. /\ Cardinality(Subdirectories(j)') = Cardinality(Subdirectories(j)) - 1
            /\ Cardinality(Subdirectories(j)) > 0
        BY <2>1, <1>18, <3>3, Finite, CountLess
      <4>2. QED
        BY <4>1, <2>3, <2>4, <3>3
    <3>4. CASE type[x] = "dir" /\ j = e /\ j # d /\ y = None
      <4>1. Cardinality(Subdirectories(j)') = Cardinality(Subdirectories(j)) + 1
        BY <2>1, <1>18, <3>4, Finite, CountMore
      <4>2. QED
        BY <4>1, <2>3, <2>4, <3>4
    <3>5. CASE type[x] = "dir" /\ j = e /\ j # d /\ y # None
      BY <2>1, <2>3, <2>4, <1>18, <3>5
    <3>6. QED
      BY <3>1, <3>2, <3>3, <3>4, <3>5
  <2>6. QED
    BY <2>1, <2>3, <2>4, <2>5 DEF Counted
<1>23. TypeOK'
  <2>1. ASSUME NEW j \in Inodes PROVE nlink'[j] \in Nat
    <3>1. CASE j \in {d, e}
      BY <1>22, <3>1
    <3>2. CASE j = y
      BY <1>21, <3>2, TreeAssumption
    <3>3. CASE j \notin {d, e, y}
      BY <1>1, <1>19, <3>3 DEF TypeOK
    <3>4. QED
      BY <3>1, <3>2, <3>3
  <2>2. nlink' \in [Inodes -> Nat]
    BY <2>1
  <2>3. type' \in [Inodes -> {"free", "reg", "dir", "lnk", "special"}]
    BY <1>1 DEF TypeOK, AfterPut
  <2>4. entry' \in [Links -> Inodes \cup {None}]
    BY <1>1 DEF TypeOK
  <2>5. QED
    BY <1>1, <2>2, <2>3, <2>4 DEF TypeOK
<1>24. RootInv'
  BY <1>1, <1>8, <1>9, <1>11 DEF TreeInv, RootInv, TypeOK
<1>25. EntryInv'
  <2> EntryInv
    BY DEF TreeInv
  <2>1. \A k \in Links : entry'[k] = y => y = None \/ Referring(y)' # {}
    BY DEF Referring
  <2>2. ASSUME NEW k \in Links \ {m}, entry'[k] # None
        PROVE  /\ entry'[k] = entry[k] /\ entry[k] # None /\ k # l
               /\ k[1] \in Inodes \ {y} /\ type'[entry[k]] = type[entry[k]]
    <3>1. entry'[k] = entry[k] /\ k # l
      BY <1>12, <2>2
    <3>2. k[1] \in Inodes \ {y}
      BY <1>3, <2>2, <3>1, LinkParts, TreeAssumption DEF Childless
    <3>3. entry[k] \in Inodes
      BY <1>1, <2>2, <3>1 DEF TypeOK
    <3>4. QED
      BY <1>11, <2>1, <2>2, <3>1, <3>2, <3>3
  <2>3. ASSUME NEW k \in Links, entry'[k] # None
        PROVE  type'[k[1]] = "dir" /\ Live(k[1])' /\ type'[entry'[k]] # "free"
    <3>1. CASE k = m
      BY <1>1, <1>4, <1>5, <1>7, <1>10, <1>11, <1>12, <3>1
    <3>2. CASE k # m
      <4>1. type[k[1]] = "dir" /\ Live(k[1]) /\ type[entry[k]] # "free"
        BY <2>2, <2>3, <3>2 DEF EntryInv
      <4>2. QED
        BY <1>10, <1>11, <2>2, <2>3, <3>2, <4>1
    <3>3. QED
      BY <3>1, <3>2
  <2>4. ASSUME type[x] = "dir", NEW k \in Links, entry[k] = x PROVE k = l
    BY <1>1, <2>4 DEF EntryInv
  <2>5. ASSUME NEW k \in Links, NEW n \in Links,
               entry'[k] # None, entry'[k] = entry'[n], type'[entry'[k]] = "dir"
        PROVE  k = n
    <3>1. type'[x] = type[x]
      BY <1>11
    <3>2. CASE k # m /\ n # m
      <4>1. entry[k] # None /\ entry[k] = entry[n] /\ type[entry[k]] = "dir"
        BY <2>2, <2>5, <3>2
      <4>2. QED
        BY <4>1, Zenon DEF EntryInv
    <3>3. CASE k = m /\ n # m
      BY <1>12, <2>2, <2>4, <2>5, <3>1, <3>3
    <3>4. CASE k # m /\ n = m
      BY <1>12, <2>2, <2>4, <2>5, <3>1, <3>4
    <3>5. QED
      BY <3>2, <3>3, <3>4
  <2>6. QED
    BY <2>3, <2>5 DEF EntryInv
<1>26. HeldInv'
  <2> HeldInv
    BY DEF TreeInv
  <2>1. ASSUME NEW i \in open' PROVE type'[i] # "free"
    BY <1>1, <1>4, <1>11, TreeAssumption DEF HeldInv, TypeOK
  <2>2. ASSUME NEW i \in Inodes, type'[i] # "free"
        PROVE  Live(i)' \/ i \in open' \/ i \in InMaking'
    <3>1. CASE i = y
      BY <1>11, <2>2, <3>1, TreeAssumption DEF Live
    <3>2. CASE i # y
      BY <1>10, <1>11, <1>13, <2>2, <3>2 DEF HeldInv
    <3>3. QED
      BY <3>1, <3>2
  <2>3. QED
    BY <2>1, <2>2 DEF HeldInv
<1>27. MakingInv'
  <2>1. ASSUME NEW p \in making
        PROVE  /\ p[1] \in Links \ {l, m} /\ p[1][1] \in Inodes \ {y}
               /\ p[2] \in Inodes \ {x, y, d, e}
    <3>1. p[1] \in Links /\ p[1][1] \in Inodes /\ p[2] \in Inodes
      BY <1>1, LinkParts DEF TypeOK
    <3>2. p[1][1] # d /\ p[1][1] # e /\ p[1][1] # y
      BY <1>1, <3>1, TreeAssumption DEF Locked
    <3>3. type[p[2]] = "lnk" /\ Referring(p[2]) = {}
      BY DEF TreeInv, MakingInv
    <3>4. QED
      BY <1>4, <1>8, <3>1, <3>2, <3>3, TreeAssumption
  <2>2. ASSUME NEW p \in making'
        PROVE  /\ type'[p[2]] = type[p[2]] /\ nlink'[p[2]] = nlink[p[2]]
               /\ Referring(p[2])' = Referring(p[2]) /\ p[2] \notin open'
               /\ type'[p[1][1]] = type[p[1][1]] /\ Live(p[1][1])' /\ entry'[p[1]] = entry[p[1]]
    <3>1. p \in making /\ p[2] \notin open /\ Live(p[1][1])
      BY DEF TreeInv, MakingInv
    <3>2. QED
      BY <1>8, <1>10, <1>11, <1>12, <1>19, <2>1, <3>1
  <2>3. QED
    BY <2>2, MakingFrame DEF TreeInv
<1>28. LinkCounts'
  <2>1. ASSUME NEW j \in Inodes \ {x, y, d, e}, type'[j] # "free", j \notin InMaking'
        PROVE  Counted(j)'
    <3>1. Counted(j)
      BY <1>11, <1>13, <2>1, CountsOfEach DEF TreeInv
    <3>2. Subdirectories(j)' = Subdirectories(j)
      BY <1>18
    <3>3. QED
      BY <1>8, <1>11, <1>19, <3>1, <3>2, CountedFrame
  <2>2. QED
    BY <1>20, <1>21, <1>22, <2>1, CountsNext, TreeAssumption
<1>29. ReachInv'
  <2>1. Childless(x) \/ ~Above(x, e)
    BY NoChildren
  <2>2. TypeOK /\ ReachInv /\ EntryInv
    BY DEF TreeInv
  <2>3. QED
    BY <1>2, <1>3, <1>5, <1>6, <2>1, <2>2, MoveReach
<1>30. QED
  BY <1>23, <1>24, <1>25, <1>26, <1>27, <1>28, <1>29 DEF TreeInv

LEMMA RenameStep ==
    ASSUME TreeInv, NEW l \in Links, NEW m \in Links, Rename(l, m)
    PROVE  TreeInv'
<1>1. TypeOK
  BY DEF TreeInv
<1>2. PICK x \in Inodes, y \in Inodes \cup {None} : entry[l] = x /\ entry[m] = y
  BY <1>1 DEF TypeOK, Rename, MayRename, Occupied
<1>3. /\ l # m /\ ~Locked(l[1]) /\ ~Locked(m[1])
      /\ type[m[1]] = "dir" /\ nlink[m[1]] > 0
      /\ type[x] = "dir" => ~Above(x, m[1])
      /\ y # None => /\ y # x /\ ~Locked(y)
                     /\ type[y] = "dir" <=> type[x] = "dir"
  BY <1>2 DEF Rename, MayRename, Occupied
<1>4. y # x
  BY <1>3, TreeAssumption
<1>5. CASE UNCHANGED tree
  BY <1>1, <1>5, Stutter DEF Rename, TypeOK
<1>6. CASE ~ UNCHANGED tree
  <2>1. y # None => type[y] # "dir" \/ Empty(y)
    BY <1>2, <1>3, <1>6 DEF Rename, Occupied
  <2>2. RenameEffect(l, m, x, y)
    BY <1>1, <1>2, <1>6 DEF Rename, RenameEffect, TypeOK
  <2>3. QED
    BY <1>2, <1>3, <1>4, <2>1, <2>2, MoveStep
<1>7. QED
  BY <1>5, <1>6

-----------------------------------------------------------------------------
(***************************************************************************)
(* The theorems.                                                           *)
(***************************************************************************)

LEMMA InitTree == Init => TreeInv
<1> SUFFICES ASSUME Init PROVE TreeInv
  OBVIOUS
<1> USE DEF Init
<1>1. TypeOK
  BY TreeAssumption DEF TypeOK
<1>2. RootInv /\ EntryInv /\ HeldInv /\ MakingInv
  BY DEF RootInv, EntryInv, HeldInv, MakingInv
<1>3. LinkCounts
  BY DEF LinkCounts, Free
<1>4. ReachInv
  BY TreeAssumption DEF ReachInv, Referring
<1>5. QED
  BY <1>1, <1>2, <1>3, <1>4 DEF TreeInv

(* A failed allocation changes nothing but its count.                      *)
LEMMA FailedStep ==
    ASSUME TreeInv, NoMemory, UNCHANGED <<variant, tree>>
    PROVE  TreeInv'
<1>1. failures' \in 0 .. MaxFailures
  BY TreeAssumption DEF TreeInv, TypeOK, NoMemory
<1>2. QED
  BY <1>1, Stutter

LEMMA NextTree == TreeInv /\ EntriesPinned /\ [Next]_vars => TreeInv'
<1> SUFFICES ASSUME TreeInv, EntriesPinned, [Next]_vars PROVE TreeInv'
  OBVIOUS
<1>0. ASSUME UNCHANGED vars PROVE TreeInv'
  <2>1. UNCHANGED <<variant, tree>> /\ failures' \in 0 .. MaxFailures
    BY <1>0 DEF vars, TreeInv, TypeOK
  <2>2. QED
    BY <2>1, Stutter
<1>1. CASE FillSuper
  BY <1>1, FailedStep, FillSuperStep DEF FillSuper
<1>2. CASE KillSb
  BY <1>2, KillSbStep
<1>3. ASSUME NEW l \in Links, NEW t \in {"reg", "special"}, Mknod(l, t, 0) PROVE TreeInv'
  <2>1. CASE NoMemory /\ UNCHANGED tree
    BY <1>3, <2>1, FailedStep DEF Mknod
  <2>2. CASE \E i \in Free : /\ type' = [type EXCEPT ![i] = t]
                             /\ nlink' = [nlink EXCEPT ![i] = InitialLinks(t), ![l[1]] = @ + 0]
                             /\ Instantiate(l, i)
                             /\ UNCHANGED <<variant, root, open, making, failures>>
    <3>1. Vacant(l) /\ t # "dir"
      BY <1>3 DEF Mknod
    <3>2. QED
      BY <2>2, <3>1, MknodStep
  <2>3. QED
    BY <1>3, <2>1, <2>2 DEF Mknod
<1>4. ASSUME NEW l \in Links, Mkdir(l) PROVE TreeInv'
  <2>1. CASE NoMemory /\ UNCHANGED tree
    BY <1>4, <2>1, FailedStep DEF Mkdir, Mknod
  <2>2. CASE \E i \in Free : /\ type' = [type EXCEPT ![i] = "dir"]
                             /\ nlink' = [nlink EXCEPT ![i] = InitialLinks("dir"), ![l[1]] = @ + 1]
                             /\ Instantiate(l, i)
                             /\ UNCHANGED <<variant, root, open, making, failures>>
    <3>1. Vacant(l)
      BY <1>4 DEF Mkdir, Mknod
    <3>2. QED
      BY <2>2, <3>1, MknodStep
  <2>3. QED
    BY <1>4, <2>1, <2>2 DEF Mkdir, Mknod
<1>5. ASSUME NEW l \in Links, Symlink(l) PROVE TreeInv'
  <2>1. CASE NoMemory /\ UNCHANGED tree
    BY <1>5, <2>1, FailedStep DEF Symlink
  <2>2. CASE ~(NoMemory /\ UNCHANGED tree)
    BY <1>5, <2>2, SymlinkStep DEF Symlink
  <2>3. QED
    BY <2>1, <2>2
<1>6. ASSUME NEW l \in Links, Refuse(l) PROVE TreeInv'
  BY <1>6, <1>0 DEF Refuse
<1>7. ASSUME NEW l \in Links, Unlink(l) \/ Rmdir(l) PROVE TreeInv'
  BY <1>7, UnlinkStep, RmdirStep
<1>8. ASSUME NEW p \in making, SymlinkDone(p) \/ SymlinkFails(p) PROVE TreeInv'
  BY <1>8, SymlinkDoneStep, SymlinkFailsStep
<1>9. ASSUME NEW l \in Links, NEW i \in Inodes, Link(l, i) PROVE TreeInv'
  BY <1>9, LinkStep
<1>10. ASSUME NEW l \in Links, NEW m \in Links, Rename(l, m) PROVE TreeInv'
  BY <1>10, RenameStep
<1>11. ASSUME NEW i \in Inodes, Open(i) \/ Close(i) PROVE TreeInv'
  BY <1>11, OpenStep, CloseStep
<1>12. QED
  BY <1>0, <1>1, <1>2, <1>3, <1>4, <1>5, <1>6, <1>7, <1>8, <1>9, <1>10, <1>11 DEF Next, Create

LEMMA TreeInvariant == Spec => []TreeInv
  BY InitTree, NextTree, Pins, PTL DEF Spec

(* TypeOK holds in every state of every instance: no sequence of calls     *)
(* that drop links (unlink, rmdir, rename over something) takes i_nlink    *)
(* below zero.                                                             *)
THEOREM TypeCorrect == Spec => []TypeOK
<1>1. TreeInv => TypeOK
  BY DEF TreeInv
<1>2. QED
  BY <1>1, TreeInvariant, PTL

(* LinkCounts holds in every state of every instance: whatever calls run,  *)
(* i_nlink is the number of dentries of a file and two more than the       *)
(* number of subdirectories of a directory.                                *)
THEOREM LinksCounted == Spec => []LinkCounts
<1>1. TreeInv => LinkCounts
  BY DEF TreeInv
<1>2. QED
  BY <1>1, TreeInvariant, PTL

(* NoLeakedInode holds in every state of every instance: an error path     *)
(* puts the inode back, a removed or replaced inode goes with its last     *)
(* reference, no move cuts a directory off from the root, and the unmount  *)
(* leaves nothing.                                                         *)
THEOREM NothingLeaked == Spec => []NoLeakedInode
<1>1. TreeInv => NoLeakedInode
  <2> SUFFICES ASSUME TreeInv, NEW i \in Inodes, type[i] # "free",
                      i \notin open, i \notin InMaking
               PROVE  root # None /\ Above(root, i)
    BY DEF NoLeakedInode, Free
  <2>1. root # None
    BY DEF TreeInv, RootInv
  <2>2. Live(i)
    BY DEF TreeInv, HeldInv
  <2>3. QED
    BY <2>1, <2>2, LiveBelow DEF TreeInv
<1>2. QED
  BY <1>1, TreeInvariant, PTL
=============================================================================
