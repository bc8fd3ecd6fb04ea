------------------------- MODULE KernelModuleProofs -------------------------
(***************************************************************************)
(* Proofs about KernelModule, for any number of threads, any disk and any  *)
(* pattern of failures.                                                    *)
(***************************************************************************)
EXTENDS KernelModule, TLAPS

LEMMA FaultType == TypeOK /\ Fault => faults' \in 0 .. MaxFaults
BY ModuleAssumption DEF TypeOK, Fault

LEMMA InitType == Init => TypeOK
<1> SUFFICES ASSUME Init PROVE TypeOK
  OBVIOUS
<1>1. disk \in Disks /\ i = 0
  BY DEF Init
<1>2. disk.bitmaps \in Nat
  BY <1>1, ModuleAssumption
<1>3. i \in 0 .. disk.bitmaps
  BY <1>1, <1>2
<1>4. pc \in [Threads -> ThreadPc]
  BY DEF Init, ThreadPc
<1>5. /\ helper \in {"off", "starting", "bound"} /\ answers \in BOOLEAN
      /\ faults \in 0 .. MaxFaults
  BY ModuleAssumption DEF Init
<1>6. QED
  BY <1>1, <1>3, <1>4, <1>5 DEF Init, TypeOK

LEMMA NextType == TypeOK /\ [Next]_vars => TypeOK'
<1> SUFFICES ASSUME TypeOK, [Next]_vars PROVE TypeOK'
  OBVIOUS
<1> USE ModuleAssumption
<1> USE DEF Goto, ThreadPc, outer, filling, AfterRead, Served
<1>1. CASE sjfs_init
  BY <1>1, FaultType DEF sjfs_init, TypeOK
<1>2. CASE sjfs_exit
  BY <1>2 DEF sjfs_exit, TypeOK
<1>3. CASE HelperBinds
  BY <1>3 DEF HelperBinds, TypeOK
<1>4. ASSUME NEW t \in Threads, AddCallback(t) PROVE TypeOK'
  BY <1>4, FaultType DEF AddCallback, TypeOK
<1>5. ASSUME NEW t \in Threads, Umount(t) PROVE TypeOK'
  BY <1>5 DEF Umount, TypeOK
<1>6. ASSUME NEW t \in Threads, MountSingle(t) PROVE TypeOK'
  BY <1>6, FaultType DEF MountSingle, TypeOK
<1>7. ASSUME NEW t \in Threads, GetDiskSuperblock(t) PROVE TypeOK'
  BY <1>7, FaultType DEF GetDiskSuperblock, TypeOK
<1>8. ASSUME NEW t \in Threads, CheckMagic(t) PROVE TypeOK'
  BY <1>8, FaultType DEF CheckMagic, TypeOK
<1>9. ASSUME NEW t \in Threads, FillInodeBitmap(t) PROVE TypeOK'
  BY <1>9, FaultType DEF FillInodeBitmap, TypeOK
<1>10. ASSUME NEW t \in Threads, FillDatablockBitmap(t) PROVE TypeOK'
  <2>1. disk.bitmaps \in Nat
    BY DEF TypeOK
  <2>2. i' \in 0 .. disk'.bitmaps
    BY <1>10, <2>1 DEF FillDatablockBitmap, TypeOK
  <2>3. faults' \in 0 .. MaxFaults
    BY <1>10, FaultType DEF FillDatablockBitmap, TypeOK
  <2>4. QED
    BY <1>10, <2>2, <2>3 DEF FillDatablockBitmap, TypeOK
<1>11. ASSUME NEW t \in Threads, GetDiskInode(t) PROVE TypeOK'
  <2>1. i' \in 0 .. disk'.bitmaps
    BY <1>11 DEF GetDiskInode, TypeOK
  <2>2. faults' \in 0 .. MaxFaults
    BY <1>11, FaultType DEF GetDiskInode, TypeOK
  <2>3. QED
    BY <1>11, <2>1, <2>2 DEF GetDiskInode, TypeOK
<1>12. ASSUME NEW t \in Threads, FillRoot(t) PROVE TypeOK'
  BY <1>12, FaultType DEF FillRoot, TypeOK
<1>13. ASSUME NEW t \in Threads, KillLitterSuper(t) PROVE TypeOK'
  BY <1>13 DEF KillLitterSuper, TypeOK
<1>14. ASSUME NEW t \in Threads, DelCallback(t) PROVE TypeOK'
  BY <1>14 DEF DelCallback, TypeOK
<1>15. CASE HelperExits
  BY <1>15, FaultType DEF HelperExits, TypeOK
<1>16. CASE UNCHANGED vars
  BY <1>16 DEF vars, TypeOK
<1>17. QED
  BY <1>1, <1>2, <1>3, <1>4, <1>5, <1>6, <1>7, <1>8, <1>9, <1>10, <1>11, <1>12, <1>13,
     <1>14, <1>15, <1>16 DEF Next, MountStep

(* The module's life cycle is type correct; fill_super never reads past    *)
(* the last data block bitmap.                                             *)
THEOREM TypeCorrect == Spec => []TypeOK
BY InitType, NextType, PTL DEF Spec

-----------------------------------------------------------------------------
(***************************************************************************)
(* The link to user space.  One thread at a time is between                *)
(* cn_add_callback and the end of the mount, or between the last umount    *)
(* and cn_del_callback; the registration itself is what keeps others out.  *)
(***************************************************************************)
Busy(t) == pc[t] \notin {"idle", "oops"}

LinkInv ==
    /\ \A t, u \in Threads : Busy(t) /\ Busy(u) => t = u
    /\ \A t \in Threads : Busy(t) => callback
    /\ sb # "none" => callback
    /\ \A t \in Threads : pc[t] \in {"sget", "del_callback"} => sb = "none"
    /\ sb = "live" => \A t \in Threads : ~Busy(t)
    /\ callback /\ ~leaked => InUse

(* A step of fill_super of the thread that fills.                          *)
LEMMA FillStep ==
    ASSUME TypeOK, LinkInv, NEW t \in Threads, Busy(t),
           NEW l \in {"magic", "bitmap", "datablocks", "root", "kill", "lost", "oops"},
           pc' = [pc EXCEPT ![t] = l],
           UNCHANGED <<callback, sb, leaked>>
    PROVE  LinkInv'
<1>1. pc'[t] = l /\ \A u \in Threads : u # t => pc'[u] = pc[u]
  BY DEF TypeOK
<1>2. InUse'
  BY <1>1 DEF InUse
<1>3. \A u \in Threads : Busy(u)' => Busy(u)
  BY <1>1 DEF Busy
<1>4. \A u \in Threads : pc'[u] \in {"sget", "del_callback"} => sb' = "none"
  BY <1>1 DEF LinkInv
<1>5. QED
  BY <1>2, <1>3, <1>4 DEF LinkInv

LEMMA InitLink == Init => LinkInv
BY DEF Init, LinkInv, Busy

LEMMA NextLink == TypeOK /\ LinkInv /\ [Next]_vars => LinkInv'
<1> SUFFICES ASSUME TypeOK, LinkInv, [Next]_vars PROVE LinkInv'
  OBVIOUS
<1> USE DEF Goto, outer, filling
<1>0. ASSUME UNCHANGED <<callback, sb, leaked, pc>> PROVE LinkInv'
  BY <1>0 DEF LinkInv, Busy, InUse
<1>1. CASE sjfs_init
  BY <1>0, <1>1 DEF sjfs_init
<1>2. CASE sjfs_exit
  BY <1>0, <1>2 DEF sjfs_exit
<1>3. CASE HelperBinds
  BY <1>0, <1>3 DEF HelperBinds
<1>4. ASSUME NEW t \in Threads, AddCallback(t) PROVE LinkInv'
  <2>1. pc'[t] \in {"sget", "oops"} /\ \A u \in Threads : u # t => pc'[u] = pc[u]
    BY <1>4 DEF AddCallback, TypeOK
  <2>2. InUse'
    BY <2>1 DEF InUse
  <2>3. CASE pc'[t] = "sget"
    <3>1. ~callback /\ callback'
      BY <1>4, <2>3 DEF AddCallback, TypeOK
    <3>2. sb = "none" /\ \A u \in Threads : ~Busy(u)
      BY <3>1 DEF LinkInv
    <3>3. QED
      BY <1>4, <2>1, <2>2, <2>3, <3>1, <3>2 DEF AddCallback, LinkInv, Busy
  <2>4. CASE pc'[t] = "oops"
    <3>1. callback' = callback /\ sb' = sb
      BY <1>4, <2>4 DEF AddCallback, TypeOK
    <3>2. \A u \in Threads : Busy(u)' => Busy(u)
      BY <2>1, <2>4 DEF Busy
    <3>3. QED
      BY <2>1, <2>2, <2>4, <3>1, <3>2 DEF LinkInv
  <2>5. QED
    BY <2>1, <2>3, <2>4
<1>5. ASSUME NEW t \in Threads, Umount(t) PROVE LinkInv'
  <2>1. pc'[t] = "kill" /\ \A u \in Threads : u # t => pc'[u] = pc[u]
    BY <1>5 DEF Umount, TypeOK
  <2>2. InUse'
    BY <2>1 DEF InUse
  <2>3. callback /\ \A u \in Threads : ~Busy(u)
    BY <1>5 DEF Umount, LinkInv
  <2>4. QED
    BY <1>5, <2>1, <2>2, <2>3 DEF Umount, LinkInv, Busy
<1>6. ASSUME NEW t \in Threads, MountSingle(t) PROVE LinkInv'
  <2>1. /\ Busy(t) /\ callback /\ sb = "none"
        /\ \A u \in Threads : u # t => ~Busy(u)
    BY <1>6 DEF MountSingle, LinkInv, Busy
  <2>2. pc'[t] \in {"superblock", "idle"} /\ \A u \in Threads : u # t => pc'[u] = pc[u]
    BY <1>6 DEF MountSingle, TypeOK
  <2>3. CASE pc'[t] = "superblock"
    <3>1. InUse'
      BY <2>3 DEF InUse
    <3>2. sb' = "filling" /\ callback' = callback
      BY <1>6, <2>2, <2>3 DEF MountSingle, TypeOK
    <3>3. QED
      BY <2>1, <2>2, <2>3, <3>1, <3>2 DEF LinkInv, Busy
  <2>4. CASE pc'[t] = "idle"
    <3>1. leaked' /\ sb' = sb /\ callback' = callback
      BY <1>6, <2>2, <2>4 DEF MountSingle, TypeOK
    <3>2. QED
      BY <2>1, <2>2, <2>4, <3>1 DEF LinkInv, Busy
  <2>5. QED
    BY <2>2, <2>3, <2>4
<1>7. ASSUME NEW t \in Threads, GetDiskSuperblock(t) PROVE LinkInv'
  BY <1>7, FillStep DEF GetDiskSuperblock, AfterRead, Busy
<1>8. ASSUME NEW t \in Threads, CheckMagic(t) PROVE LinkInv'
  BY <1>8, FillStep DEF CheckMagic, Busy
<1>9. ASSUME NEW t \in Threads, FillInodeBitmap(t) PROVE LinkInv'
  BY <1>9, FillStep DEF FillInodeBitmap, AfterRead, Busy
<1>10. ASSUME NEW t \in Threads, FillDatablockBitmap(t) PROVE LinkInv'
  BY <1>10, FillStep DEF FillDatablockBitmap, AfterRead, Busy
<1>11. ASSUME NEW t \in Threads, GetDiskInode(t) PROVE LinkInv'
  BY <1>11, FillStep DEF GetDiskInode, AfterRead, Busy
<1>12. ASSUME NEW t \in Threads, FillRoot(t) PROVE LinkInv'
  <2>1. CASE sb' = sb /\ pc' = [pc EXCEPT ![t] = "kill"]
    BY <1>12, <2>1, FillStep DEF FillRoot, Busy
  <2>2. CASE sb' = "live" /\ pc' = [pc EXCEPT ![t] = "idle"]
    <3>1. callback /\ \A u \in Threads : u # t => ~Busy(u)
      BY <1>12 DEF FillRoot, LinkInv, Busy
    <3>2. pc'[t] = "idle" /\ \A u \in Threads : u # t => pc'[u] = pc[u]
      BY <2>2 DEF TypeOK
    <3>3. InUse'
      BY <2>2 DEF InUse
    <3>4. callback' = callback
      BY <1>12 DEF FillRoot
    <3>5. QED
      BY <2>2, <3>1, <3>2, <3>3, <3>4 DEF LinkInv, Busy
  <2>3. QED
    BY <1>12, <2>1, <2>2 DEF FillRoot
<1>13. ASSUME NEW t \in Threads, KillLitterSuper(t) PROVE LinkInv'
  <2>1. callback /\ \A u \in Threads : u # t => ~Busy(u)
    BY <1>13 DEF KillLitterSuper, LinkInv, Busy
  <2>2. pc'[t] = "del_callback" /\ \A u \in Threads : u # t => pc'[u] = pc[u]
    BY <1>13 DEF KillLitterSuper, TypeOK
  <2>3. InUse'
    BY <2>2 DEF InUse
  <2>4. QED
    BY <1>13, <2>1, <2>2, <2>3 DEF KillLitterSuper, LinkInv, Busy
<1>14. ASSUME NEW t \in Threads, DelCallback(t) PROVE LinkInv'
  <2>1. sb = "none" /\ \A u \in Threads : u # t => ~Busy(u)
    BY <1>14 DEF DelCallback, LinkInv, Busy
  <2>2. pc'[t] = "idle" /\ \A u \in Threads : u # t => pc'[u] = pc[u]
    BY <1>14 DEF DelCallback, TypeOK
  <2>3. QED
    BY <1>14, <2>1, <2>2 DEF DelCallback, LinkInv, Busy
<1>15. CASE HelperExits
  BY <1>0, <1>15 DEF HelperExits
<1>16. CASE UNCHANGED vars
  BY <1>0, <1>16 DEF vars
<1>17. QED
  BY <1>1, <1>2, <1>3, <1>4, <1>5, <1>6, <1>7, <1>8, <1>9, <1>10, <1>11, <1>12, <1>13,
     <1>14, <1>15, <1>16 DEF Next, MountStep

LEMMA LinkInvariance == Spec => [](TypeOK /\ LinkInv)
<1>1. Init => TypeOK /\ LinkInv
  BY InitType, InitLink
<1>2. (TypeOK /\ LinkInv) /\ [Next]_vars => (TypeOK /\ LinkInv)'
  BY NextType, NextLink
<1>3. QED
  BY <1>1, <1>2, PTL DEF Spec

(* As long as a superblock exists cn_callback is registered, in spite of   *)
(* failed mounts, faults and concurrent mounts and unmounts.               *)
THEOREM Linked == Spec => []LinkedWhileMounted
<1>1. LinkInv => LinkedWhileMounted
  BY DEF LinkInv, LinkedWhileMounted
<1>2. QED
  BY <1>1, LinkInvariance, PTL

(* A registration goes with a superblock or a call that has not returned,  *)
(* unless sget failed: unloading the module leaves none behind.            *)
THEOREM NoOrphanCallback == Spec => []CallbackHasOwner
<1>1. LinkInv => CallbackHasOwner
  BY DEF LinkInv, CallbackHasOwner
<1>2. QED
  BY <1>1, LinkInvariance, PTL

(* cn_add_callback serialises mounts: past it a mount finds no superblock  *)
(* and no other mount or unmount under way.                                *)
THEOREM MountsAlone == Spec => []MountFindsNoSuperblock
<1>1. LinkInv => MountFindsNoSuperblock
  BY DEF LinkInv, MountFindsNoSuperblock, Busy
<1>2. QED
  BY <1>1, LinkInvariance, PTL
=============================================================================
