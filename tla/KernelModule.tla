---------------------------- MODULE KernelModule ----------------------------
(***************************************************************************)
(* The life of the kernel module: sjfs_init and sjfs_exit, and the mounts  *)
(* and unmounts in between: sjfs_mount with its connector callback,        *)
(* sjfs_fill_super, which reads the disk through the helper, and           *)
(* sjfs_kill_sb.                                                           *)
(*                                                                         *)
(* mount_single gives the file system one superblock, modelled by sb: from *)
(* "none" to "filling" (sget has made it, fill_super runs under its lock)  *)
(* to "live" to "dying" (the last mount is gone) and back.  A thread that  *)
(* takes a fault in kernel mode stops where it is ("oops"), keeping its    *)
(* references.                                                             *)
(*                                                                         *)
(* A read is one step.  It returns when a bound helper that answers got    *)
(* the request; otherwise the reader sleeps for good ("lost").  do_work of *)
(* the helper as committed has no answer for a read: answers is FALSE for  *)
(* it, and TRUE for one whose do_work is finished (external).              *)
(* That the allocation of a request fails is left to BlockTransport.       *)
(* sjfs_get_disk_superblock reads a block into a buffer of                 *)
(* sizeof(SJFS_BLOCKSIZE) = 4 bytes: what that overwrites, or who          *)
(* overwrites it, is open, so the step may also end in an oops, and the    *)
(* next one may see another magic than the disk's.                         *)
(***************************************************************************)
EXTENDS Integers

CONSTANTS
    Threads,        \* threads that load, unload, mount and unmount
    Disks,          \* [magic, root : BOOLEAN, bitmaps : Nat]: magic is right, bit 7 of
                    \* the inode bitmap is set, number of data block bitmaps
    HelperStates,   \* states the helper may be in before the module is first loaded
    HelperAnswers,  \* whether it answers reads: a set of Booleans
    MaxFaults       \* bound: allocations that fail, faults of the overrun, helpers that end

ASSUME ModuleAssumption ==
    /\ Disks \subseteq [magic : BOOLEAN, root : BOOLEAN, bitmaps : Nat]
    /\ HelperStates \subseteq {"off", "starting", "bound"}
    /\ HelperAnswers \subseteq BOOLEAN
    /\ MaxFaults \in Nat

VARIABLES
    loaded,     \* the module is loaded and the file system registered
    helper,     \* "off", "starting" (executed, not yet bound) or "bound"
    answers,    \* the helper answers reads
    callback,   \* cn_callback is registered with the connector
    sb,         \* "none", "filling", "live" or "dying"
    disk,       \* what the disk holds
    pc,         \* next statement of each thread
    i,          \* loop variable of fill_super, data block bitmaps read
    leaked,     \* sget has failed after cn_add_callback succeeded
    faults

vars == <<loaded, helper, answers, callback, sb, disk, pc, i, leaked, faults>>
outer == <<loaded, helper, answers, disk>>

Goto(t, l) == pc' = [pc EXCEPT ![t] = l]
Fault == faults < MaxFaults /\ faults' = faults + 1

(* References on the module: mounts, and calls in progress.                *)
InUse == sb # "none" \/ \E t \in Threads : pc[t] # "idle"

(***************************************************************************)
(* Loading and unloading.                                                  *)
(***************************************************************************)

(* sjfs_init: the helper is executed, not waited for; that it could not be *)
(* is ignored.  A helper that runs already keeps its lock, the new one     *)
(* ends.                                                                   *)
sjfs_init ==
    /\ ~loaded
    /\ loaded' = TRUE
    /\ \/ /\ helper' = IF helper = "off" THEN "starting" ELSE helper
          /\ UNCHANGED faults
       \/ Fault /\ UNCHANGED helper
    /\ UNCHANGED <<answers, callback, sb, disk, pc, i, leaked>>

sjfs_exit ==
    /\ loaded /\ ~InUse
    /\ loaded' = FALSE
    /\ UNCHANGED <<helper, answers, callback, sb, disk, pc, i, leaked, faults>>

(* The helper (external) reaches bind().                                   *)
HelperBinds ==
    /\ helper = "starting"
    /\ helper' = "bound"
    /\ UNCHANGED <<loaded, answers, callback, sb, disk, pc, i, leaked, faults>>

(* A failed open, socket, bind, poll or recv ends the helper, and so does  *)
(* a signal; nothing restarts it before the next insmod.                   *)
HelperExits ==
    /\ helper # "off"
    /\ Fault
    /\ helper' = "off"
    /\ UNCHANGED <<loaded, answers, callback, sb, disk, pc, i, leaked>>

(***************************************************************************)
(* sjfs_mount.                                                             *)
(***************************************************************************)

(* Mutant of AddCallback: its result is not looked at.                     *)
AddCallbackUnchecked(t) ==
    /\ loaded
    /\ pc[t] = "idle"
    /\ callback' = TRUE
    /\ Goto(t, "sget")
    /\ UNCHANGED <<outer, sb, i, leaked, faults>>

(* cn_add_callback fails when the identifier is registered already or      *)
(* there is no memory.  sjfs_mount then returns NULL, which the VFS takes  *)
(* for a dentry and dereferences.                                          *)
AddCallback(t) ==
    /\ loaded
    /\ pc[t] = "idle"
    /\ \/ /\ ~callback
          /\ callback' = TRUE
          /\ Goto(t, "sget")
          /\ UNCHANGED faults
       \/ /\ callback
          /\ Goto(t, "oops")
          /\ UNCHANGED <<callback, faults>>
       \/ /\ Fault
          /\ Goto(t, "oops")
          /\ UNCHANGED callback
    /\ UNCHANGED <<outer, sb, i, leaked>>

(* mount_single (external): sget makes the superblock, to be filled.  It   *)
(* would wait for one that is being filled or killed, and share a live     *)
(* one, but never finds any (MountFindsNoSuperblock).  When sget has no    *)
(* memory mount_single returns its error, and nothing takes the callback   *)
(* back.                                                                   *)
MountSingle(t) ==
    /\ pc[t] = "sget"
    /\ \/ /\ sb = "none"
          /\ sb' = "filling"
          /\ Goto(t, "superblock")
          /\ UNCHANGED <<leaked, faults>>
       \/ /\ Fault
          /\ leaked' = TRUE
          /\ Goto(t, "idle")
          /\ UNCHANGED sb
    /\ UNCHANGED <<outer, callback, i>>

(***************************************************************************)
(* sjfs_fill_super.                                                        *)
(***************************************************************************)

Served == helper = "bound" /\ answers

(* A block is read when the helper is there to answer.                     *)
AfterRead(l) == IF Served THEN l ELSE "lost"

filling == <<outer, callback, sb, leaked>>

(* sjfs_get_disk_superblock: no memory for the first buffer makes it       *)
(* return NULL, which ends fill_super; the second one is not checked.      *)
GetDiskSuperblock(t) ==
    /\ pc[t] = "superblock"
    /\ \/ Goto(t, AfterRead("magic")) /\ UNCHANGED faults
       \/ Fault /\ Goto(t, "kill")
       \/ Fault /\ Goto(t, "oops")
    /\ UNCHANGED <<filling, i>>

(* The check of the magic, on the disk's superblock or an overwritten one. *)
CheckMagic(t) ==
    /\ pc[t] = "magic"
    /\ \/ Goto(t, IF disk.magic THEN "bitmap" ELSE "kill") /\ UNCHANGED faults
       \/ Fault /\ Goto(t, "kill")
    /\ UNCHANGED <<filling, i>>

(* The inode bitmap, into memory whose allocation is not checked.          *)
FillInodeBitmap(t) ==
    /\ pc[t] = "bitmap"
    /\ \/ Goto(t, AfterRead("datablocks")) /\ UNCHANGED faults
       \/ Fault /\ Goto(t, "oops")
    /\ UNCHANGED <<filling, i>>

(* Mutants of FillDatablockBitmap: one bitmap too many; i++ is forgotten.  *)
FillDatablockBitmapOneMore(t) ==
    /\ pc[t] = "datablocks"
    /\ i <= disk.bitmaps
    /\ i' = i + 1
    /\ Goto(t, AfterRead("datablocks"))
    /\ UNCHANGED <<filling, faults>>

FillDatablockBitmapSameOne(t) ==
    /\ pc[t] = "datablocks"
    /\ i < disk.bitmaps
    /\ Goto(t, AfterRead("datablocks"))
    /\ UNCHANGED <<filling, i, faults>>

(* The data block bitmaps, one read per turn of the loop; their memory is  *)
(* not checked either.                                                     *)
FillDatablockBitmap(t) ==
    /\ pc[t] = "datablocks"
    /\ i < disk.bitmaps
    /\ i' = i + 1
    /\ \/ Goto(t, AfterRead("datablocks")) /\ UNCHANGED faults
       \/ Fault /\ Goto(t, "oops")
    /\ UNCHANGED filling

(* sjfs_get_disk_inode(0), with one allocation checked and one not.        *)
GetDiskInode(t) ==
    /\ pc[t] = "datablocks"
    /\ i = disk.bitmaps
    /\ i' = 0
    /\ \/ Goto(t, AfterRead("root")) /\ UNCHANGED faults
       \/ Fault /\ Goto(t, "kill")
       \/ Fault /\ Goto(t, "oops")
    /\ UNCHANGED filling

(* The root's bit in the bitmap, new_inode and d_make_root.                *)
FillRoot(t) ==
    /\ pc[t] = "root"
    /\ \/ /\ disk.root
          /\ sb' = "live"
          /\ Goto(t, "idle")
          /\ UNCHANGED faults
       \/ /\ ~disk.root
          /\ Goto(t, "kill")
          /\ UNCHANGED <<sb, faults>>
       \/ /\ Fault
          /\ Goto(t, "kill")
          /\ UNCHANGED sb
    /\ UNCHANGED <<outer, callback, i, leaked>>

(***************************************************************************)
(* sjfs_kill_sb, called when fill_super fails and when the last mount goes.*)
(***************************************************************************)

(* The last umount (external).                                             *)
Umount(t) ==
    /\ pc[t] = "idle"
    /\ sb = "live"
    /\ sb' = "dying"
    /\ Goto(t, "kill")
    /\ UNCHANGED <<outer, callback, i, leaked, faults>>

(* Mutant of KillLitterSuper: the link is shut down first.                 *)
KillLinkFirst(t) ==
    /\ pc[t] = "kill"
    /\ callback' = FALSE
    /\ Goto(t, "del_callback")
    /\ UNCHANGED <<outer, sb, i, leaked, faults>>

(* kill_litter_super: the superblock is gone.                              *)
KillLitterSuper(t) ==
    /\ pc[t] = "kill"
    /\ sb' = "none"
    /\ Goto(t, "del_callback")
    /\ UNCHANGED <<outer, callback, i, leaked, faults>>

(* Mutant of DelCallback: the callback stays registered.                   *)
DelCallbackForgotten(t) ==
    /\ pc[t] = "del_callback"
    /\ Goto(t, "idle")
    /\ UNCHANGED <<outer, callback, sb, i, leaked, faults>>

DelCallback(t) ==
    /\ pc[t] = "del_callback"
    /\ callback' = FALSE
    /\ Goto(t, "idle")
    /\ UNCHANGED <<outer, sb, i, leaked, faults>>

(***************************************************************************)
(* The specification.                                                      *)
(***************************************************************************)
Init ==
    /\ loaded = FALSE
    /\ helper \in HelperStates /\ answers \in HelperAnswers
    /\ callback = FALSE
    /\ sb = "none"
    /\ disk \in Disks
    /\ pc = [t \in Threads |-> "idle"]
    /\ i = 0
    /\ leaked = FALSE
    /\ faults = 0

(* A step of a mount or an unmount under way.                              *)
MountStep(t) ==
    \/ MountSingle(t) \/ GetDiskSuperblock(t) \/ CheckMagic(t) \/ FillInodeBitmap(t)
    \/ FillDatablockBitmap(t) \/ GetDiskInode(t) \/ FillRoot(t)
    \/ KillLitterSuper(t) \/ DelCallback(t)

Next ==
    \/ sjfs_init \/ sjfs_exit \/ HelperBinds \/ HelperExits
    \/ \E t \in Threads : AddCallback(t) \/ Umount(t) \/ MountStep(t)

Spec == Init /\ [][Next]_vars

(* Threads in the kernel are scheduled, and so is the helper.              *)
FairSpec == Spec /\ WF_vars(HelperBinds) /\ \A t \in Threads : WF_vars(MountStep(t))

-----------------------------------------------------------------------------
(***************************************************************************)
(* Properties.                                                             *)
(***************************************************************************)
ThreadPc == {"idle", "sget", "superblock", "magic", "bitmap", "datablocks", "root",
             "kill", "del_callback", "lost", "oops"}

(* Every variable keeps its type.                                          *)
TypeOK ==
    /\ loaded \in BOOLEAN /\ callback \in BOOLEAN /\ leaked \in BOOLEAN
    /\ helper \in {"off", "starting", "bound"} /\ answers \in BOOLEAN
    /\ sb \in {"none", "filling", "live", "dying"}
    /\ disk \in Disks
    /\ pc \in [Threads -> ThreadPc]
    /\ i \in 0 .. disk.bitmaps
    /\ faults \in 0 .. MaxFaults

(* A superblock can be read from: as long as it exists, cn_callback is     *)
(* registered.  It is the thread that finds the callback gone, between the *)
(* two halves of another thread's sjfs_kill_sb, that makes this delicate.  *)
LinkedWhileMounted == sb # "none" => callback

(* The callback does not outlive the module: when it is registered there   *)
(* is a superblock, or a call that has not returned (it may never do so,   *)
(* after an oops or a lost request), so that sjfs_exit, which frees the    *)
(* code of cn_callback, leaves no registration behind.  The exception is   *)
(* an sget that failed after cn_add_callback.                              *)
CallbackHasOwner == callback /\ ~leaked => InUse

(* A mount never meets another one: when sjfs_mount goes on to             *)
(* mount_single there is no superblock, and no other thread is filling or  *)
(* taking one down.  The static bitmap caches are safe for this reason     *)
(* alone.                                                                  *)
MountFindsNoSuperblock ==
    \A t \in Threads :
        pc[t] = "sget" =>
            /\ sb = "none"
            /\ \A u \in Threads \ {t} : pc[u] \in {"idle", "oops"}

(* A mount comes to an end, with or without success, if the helper is      *)
(* bound and answers, and does not end before the mount does.  An unmount, *)
(* and the cleanup of a mount that failed, needs no helper.                *)
MountSettles ==
    \A t \in Threads :
        /\ pc[t] \in {"kill", "del_callback"} ~> pc[t] \in {"idle", "oops"}
        /\ pc[t] = "sget" ~> pc[t] \in {"idle", "oops"} \/ ~Served

(* Whenever a mount starts it comes to an end: install.sh mounts right     *)
(* after insmod, and a helper that answers is on its way.                  *)
EarlyMountSettles ==
    \A t \in Threads : pc[t] = "sget" ~> pc[t] \in {"idle", "oops"}
=============================================================================
