----------------------------- MODULE InodeTree -----------------------------
(***************************************************************************)
(* The in-memory file systems of the repository: the prototype in          *)
(* ramfs_test and the directory operations of the two backup plans, which  *)
(* are the same but for mkdir and symlink, refused by the prototype.       *)
(*                                                                         *)
(* The operations of libfs (simple_link, simple_unlink, simple_rmdir,      *)
(* simple_rename) and the checks that the VFS makes before it calls an     *)
(* operation are external.  The VFS holds the lock of the directory, so    *)
(* most operations are one step; sjfs_symlink is two, because other        *)
(* directories change and this one may be moved while it copies the name.  *)
(*                                                                         *)
(* An inode is in memory while a dentry or an open file refers to it, and  *)
(* is deleted when the last reference goes (generic_delete_inode).  A      *)
(* dentry stays in memory because of an extra reference (dget), its pin.   *)
(* Contents, times and inode numbers are left out.                         *)
(***************************************************************************)
EXTENDS Integers, FiniteSets

CONSTANTS
    Inodes,         \* memory for that many inodes, as a set of inodes
    Names,          \* names in a directory
    None,           \* no inode
    Variants,       \* file systems: "ramfs_test", "plan"
    MaxFailures     \* bound: allocations that fail

ASSUME TreeAssumption ==
    /\ IsFiniteSet(Inodes) /\ IsFiniteSet(Names)
    /\ None \notin Inodes
    /\ Variants \subseteq {"ramfs_test", "plan"}
    /\ MaxFailures \in Nat

VARIABLES
    variant,    \* which file system it is
    root,       \* inode of the root directory, None when not mounted
    type,       \* "free", "reg", "dir", "lnk" or "special"
    nlink,      \* i_nlink
    entry,      \* entry[d, n]: inode of the dentry n in directory d, or None
    pinned,     \* dentries that have their extra reference
    open,       \* inodes that a process holds open
    making,     \* symlinks under way: dentry and inode
    failures

tree == <<root, type, nlink, entry, pinned, open, making>>
vars == <<variant, tree, failures>>

Links == Inodes \X Names
Free == {i \in Inodes : type[i] = "free"}
Referring(i) == {l \in Links : entry[l] = i}

(* A symlink under way holds the lock of its directory.                    *)
Locked(d) == \E p \in making : p[1][1] = d

(* A live directory of the mounted file system in which l has no inode.    *)
Vacant(l) ==
    type[l[1]] = "dir" /\ nlink[l[1]] > 0 /\ entry[l] = None /\ ~Locked(l[1])
Occupied(l) == entry[l] # None /\ ~Locked(l[1])

NoMemory == failures < MaxFailures /\ failures' = failures + 1

(* The type of an inode that loses a dentry or a file: it is deleted when  *)
(* that was the last reference.                                            *)
AfterPut(i, others) == IF others = {} /\ i \notin open THEN "free" ELSE type[i]

(***************************************************************************)
(* sjfs_get_inode and the operations that call it.                         *)
(***************************************************************************)

(* Mutant of InitialLinks: inc_nlink is missing for directories.           *)
InitialLinksOne(t) == 1

(* sjfs_get_inode: new_inode has one link, and a directory gets another.   *)
InitialLinks(t) == IF t = "dir" THEN 2 ELSE 1

(* Mutant of Instantiate: the dget is missing.                             *)
InstantiateUnpinned(l, i) ==
    /\ entry' = [entry EXCEPT ![l] = i]
    /\ UNCHANGED pinned

(* d_instantiate and dget.                                                 *)
Instantiate(l, i) ==
    /\ entry' = [entry EXCEPT ![l] = i]
    /\ pinned' = pinned \cup {l}

(* sjfs_mknod with type t, and k more links for the directory: ENOSPC when *)
(* there is no memory for an inode.                                        *)
Mknod(l, t, k) ==
    /\ Vacant(l)
    /\ \/ NoMemory /\ UNCHANGED tree
       \/ \E i \in Free :
             /\ type' = [type EXCEPT ![i] = t]
             /\ nlink' = [nlink EXCEPT ![i] = InitialLinks(t), ![l[1]] = @ + k]
             /\ Instantiate(l, i)
             /\ UNCHANGED <<root, open, making, failures>>
    /\ UNCHANGED variant

Create(l) == Mknod(l, "reg", 0)

(* Mutant of Mkdir: the link to the parent is not counted.                 *)
MkdirUncounted(l) == variant = "plan" /\ Mknod(l, "dir", 0)

(* sjfs_mkdir: the new directory's ".." is a link to its parent.           *)
Mkdir(l) == variant = "plan" /\ Mknod(l, "dir", 1)

(* sjfs_symlink, up to page_symlink: the inode, or ENOSPC.                 *)
Symlink(l) ==
    /\ variant = "plan"
    /\ Vacant(l)
    /\ \/ NoMemory /\ UNCHANGED tree
       \/ \E i \in Free :
             /\ type' = [type EXCEPT ![i] = "lnk"]
             /\ nlink' = [nlink EXCEPT ![i] = InitialLinks("lnk")]
             /\ making' = making \cup {<<l, i>>}
             /\ UNCHANGED <<root, entry, pinned, open, failures>>
    /\ UNCHANGED variant

(* page_symlink has a page for the name: the dentry gets the inode.        *)
SymlinkDone(p) ==
    /\ p \in making
    /\ making' = making \ {p}
    /\ Instantiate(p[1], p[2])
    /\ UNCHANGED <<variant, root, type, nlink, open, failures>>

(* Mutant of SymlinkFails: the inode is not put back.                      *)
SymlinkFailsNoIput(p) ==
    /\ p \in making
    /\ NoMemory
    /\ making' = making \ {p}
    /\ UNCHANGED <<variant, root, type, nlink, entry, pinned, open>>

(* page_symlink fails: iput deletes the inode.                             *)
SymlinkFails(p) ==
    /\ p \in making
    /\ NoMemory
    /\ making' = making \ {p}
    /\ type' = [type EXCEPT ![p[2]] = "free"]
    /\ UNCHANGED <<variant, root, nlink, entry, pinned, open>>

(* mkdir and symlink of the prototype "will force error".                  *)
Refuse(l) ==
    /\ variant = "ramfs_test"
    /\ Vacant(l)
    /\ UNCHANGED vars

(***************************************************************************)
(* The operations taken from libfs.                                        *)
(***************************************************************************)

(* simple_link, of an inode that is in some directory and is not one.      *)
Link(l, i) ==
    /\ Vacant(l)
    /\ Referring(i) # {} /\ type[i] # "dir"
    /\ nlink' = [nlink EXCEPT ![i] = @ + 1]
    /\ Instantiate(l, i)
    /\ UNCHANGED <<variant, root, type, open, making, failures>>

(* The dentry l goes, with its pin.                                        *)
Remove(l) ==
    /\ entry' = [entry EXCEPT ![l] = None]
    /\ pinned' = pinned \ {l}

(* simple_unlink.                                                          *)
Unlink(l) ==
    /\ Occupied(l) /\ type[entry[l]] # "dir"
    /\ nlink' = [nlink EXCEPT ![entry[l]] = @ - 1]
    /\ type' = [type EXCEPT ![entry[l]] = AfterPut(entry[l], Referring(entry[l]) \ {l})]
    /\ Remove(l)
    /\ UNCHANGED <<variant, root, open, making, failures>>

Empty(d) == \A n \in Names : entry[<<d, n>>] = None

(* simple_rmdir: two links of the directory and one of its parent, or      *)
(* ENOTEMPTY.                                                              *)
Rmdir(l) ==
    /\ Occupied(l) /\ type[entry[l]] = "dir" /\ ~Locked(entry[l])
    /\ \/ /\ Empty(entry[l])
          /\ nlink' = [nlink EXCEPT ![entry[l]] = @ - 2, ![l[1]] = @ - 1]
          /\ type' = [type EXCEPT ![entry[l]] = AfterPut(entry[l], {})]
          /\ Remove(l)
          /\ UNCHANGED <<root, open, making>>
       \/ ~Empty(entry[l]) /\ UNCHANGED tree
    /\ UNCHANGED <<variant, failures>>

(* a is d or a directory above it.                                         *)
Above(a, d) ==
    \A S \in SUBSET Inodes :
        d \in S /\ (\A l \in Links : entry[l] \in S => l[1] \in S) => a \in S

(* What the VFS lets through to rename: not into the moved directory       *)
(* itself, nor over a directory above; directories only over directories.  *)
MayRename(l, m) ==
    /\ Occupied(l) /\ l # m
    /\ type[m[1]] = "dir" /\ nlink[m[1]] > 0 /\ ~Locked(m[1])
    /\ type[entry[l]] = "dir" => ~Above(entry[l], m[1])
    /\ Occupied(m) =>
          /\ entry[m] # entry[l] /\ ~Locked(entry[m])
          /\ type[entry[m]] = "dir" <=> type[entry[l]] = "dir"
          /\ ~Above(entry[m], l[1])

(* simple_rename, then d_move by the VFS, which takes the pin along; or    *)
(* ENOTEMPTY.                                                              *)
Rename(l, m) ==
    LET moved == entry[l]
        over  == entry[m]
        isDir == type[moved] = "dir"
        toNew == IF isDir /\ over = None THEN 1 ELSE 0
        Lost(i) == (IF i = l[1] /\ isDir THEN 1 ELSE 0)
                   + (IF i = over THEN (IF isDir THEN 2 ELSE 1) ELSE 0)
        Gained(i) == IF i = m[1] THEN toNew ELSE 0
    IN  /\ MayRename(l, m)
        /\ \/ /\ Occupied(m) => type[over] # "dir" \/ Empty(over)
              /\ nlink' = [i \in Inodes |-> nlink[i] + Gained(i) - Lost(i)]
              /\ type' = [i \in Inodes |->
                            IF i = over THEN AfterPut(i, Referring(i) \ {m}) ELSE type[i]]
              /\ entry' = [entry EXCEPT ![l] = None, ![m] = moved]
              /\ pinned' = (pinned \ {l, m}) \cup (IF l \in pinned THEN {m} ELSE {})
              /\ UNCHANGED <<root, open, making>>
           \/ Occupied(m) /\ type[over] = "dir" /\ ~Empty(over) /\ UNCHANGED tree
        /\ UNCHANGED <<variant, failures>>

(***************************************************************************)
(* Open files, mount and unmount.                                          *)
(***************************************************************************)
Open(i) ==
    /\ Referring(i) # {} /\ i \notin open
    /\ open' = open \cup {i}
    /\ UNCHANGED <<variant, root, type, nlink, entry, pinned, making, failures>>

Close(i) ==
    /\ i \in open
    /\ open' = open \ {i}
    /\ type' = [type EXCEPT ![i] = IF Referring(i) = {} THEN "free" ELSE @]
    /\ UNCHANGED <<variant, root, nlink, entry, pinned, making, failures>>

(* sjfs_fill_super: no inode, or no dentry for it (d_make_root then puts   *)
(* the inode back), fails the mount.                                       *)
FillSuper ==
    /\ root = None
    /\ \/ NoMemory /\ UNCHANGED tree
       \/ \E i \in Free :
             /\ root' = i
             /\ type' = [type EXCEPT ![i] = "dir"]
             /\ nlink' = [nlink EXCEPT ![i] = InitialLinks("dir")]
             /\ UNCHANGED <<entry, pinned, open, making, failures>>
    /\ UNCHANGED variant

(* sjfs_kill_sb: kill_litter_super drops all pins and with them the tree.  *)
(* The VFS does not unmount while files are open or calls are under way.   *)
KillSb ==
    /\ root # None /\ open = {} /\ making = {}
    /\ root' = None
    /\ pinned' = {}
    /\ entry' = [l \in Links |-> IF l \in pinned THEN None ELSE entry[l]]
    /\ type' = [i \in Inodes |-> IF i = root \/ Referring(i) # {} THEN "free" ELSE type[i]]
    /\ UNCHANGED <<variant, nlink, open, making, failures>>

Init ==
    /\ variant \in Variants
    /\ root = None
    /\ type = [i \in Inodes |-> "free"]
    /\ nlink = [i \in Inodes |-> 0]
    /\ entry = [l \in Links |-> None]
    /\ pinned = {}
    /\ open = {}
    /\ making = {}
    /\ failures = 0

Next ==
    \/ FillSuper \/ KillSb
    \/ \E l \in Links :
          \/ Create(l) \/ Mknod(l, "special", 0) \/ Mkdir(l) \/ Symlink(l) \/ Refuse(l)
          \/ Unlink(l) \/ Rmdir(l)
    \/ \E p \in making : SymlinkDone(p) \/ SymlinkFails(p)
    \/ \E l \in Links, i \in Inodes : Link(l, i)
    \/ \E l, m \in Links : Rename(l, m)
    \/ \E i \in Inodes : Open(i) \/ Close(i)

Spec == Init /\ [][Next]_vars

-----------------------------------------------------------------------------
(***************************************************************************)
(* Properties.                                                             *)
(***************************************************************************)

(* Every variable keeps its type; in particular i_nlink never goes below   *)
(* zero.                                                                   *)
TypeOK ==
    /\ variant \in Variants
    /\ root \in Inodes \cup {None}
    /\ type \in [Inodes -> {"free", "reg", "dir", "lnk", "special"}]
    /\ nlink \in [Inodes -> Nat]
    /\ entry \in [Links -> Inodes \cup {None}]
    /\ pinned \subseteq Links
    /\ open \subseteq Inodes
    /\ making \subseteq Links \X Inodes
    /\ failures \in 0 .. MaxFailures

Subdirectories(d) == {n \in Names : entry[<<d, n>>] # None /\ type[entry[<<d, n>>]] = "dir"}

InMaking == {p[2] : p \in making}

(* i_nlink counts what it stands for: the dentries of a file; of a         *)
(* directory its dentry, its "." and the ".." of each subdirectory, and    *)
(* nothing once it is removed.                                             *)
LinkCounts ==
    \A i \in Inodes \ (Free \cup InMaking) :
        nlink[i] = IF type[i] # "dir" THEN Cardinality(Referring(i))
                   ELSE IF i = root \/ Referring(i) # {} THEN 2 + Cardinality(Subdirectories(i))
                   ELSE 0

(* Nothing is leaked: an inode in memory can be reached from the root, is  *)
(* held open or is being made into a symlink; after the unmount none is    *)
(* left.                                                                   *)
NoLeakedInode ==
    \A i \in Inodes \ Free :
        i \in open \cup InMaking \/ (root # None /\ Above(root, i))

(* Every dentry of a file or directory has its extra reference, so that it *)
(* cannot vanish under memory pressure, and no removed one keeps it.       *)
EntriesPinned == pinned = {l \in Links : entry[l] # None}
=============================================================================
