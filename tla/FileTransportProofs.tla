------------------------ MODULE FileTransportProofs ------------------------
(***************************************************************************)
(* Proofs about FileTransport, for any number of threads, peers, loads and *)
(* faults.                                                                 *)
(***************************************************************************)
EXTENDS FileTransport, SemaphoreProofs, FiniteSetTheorems

(***************************************************************************)
(* Type correctness.  What is sent needs a request, and what the callback  *)
(* allocates an answer: both are tied to the program counters.             *)
(***************************************************************************)

ThreadPc == {"idle", "down_cb", "send", "await_cb", "up_cb", "copy", "write", "up_cn"}
CallbackPc == {"idle", "trylock", "ignore", "alloc", "copy", "signal", "return"} \cup Ended
Packets == Requests \cup {WriteRequest}

TypeInv ==
    /\ TypeOK
    /\ \A t \in Threads : pc[t] # "idle" => request[t] \in Packets
    /\ \A p \in Peers : cb_pc[p] \in {"trylock", "alloc"} => cb_msg[p] \in Requests

LEMMA FaultType == TypeOK /\ Fault => faults' \in 0 .. MaxFaults
BY FileAssumption DEF TypeOK, Fault

LEMMA NullType == NULL \in Buffer
BY DEF NULL, Buffer

(* A fresh semaphore.                                                      *)
LEMMA SemaInitType == SemaInit(1) \in SemaphoreOf(Threads)
BY DEF SemaInit, SemaphoreOf

(* A packet that is sent keeps the sockets' type.                          *)
LEMMA MulticastType ==
    ASSUME TypeOK, NEW r \in Packets, Multicast(r)
    PROVE  inbox' \in [Peers -> Seq(Packets)]
<1>1. ASSUME NEW p \in Peers PROVE inbox[p] \in Seq(Packets) /\ Append(inbox[p], r) \in Seq(Packets)
  <2>1. inbox[p] \in Seq(Packets)
    BY DEF TypeOK, Packets
  <2>2. QED
    BY <2>1
<1>2. QED
  BY <1>1 DEF Multicast

LEMMA InitType == Init => TypeInv
<1> SUFFICES ASSUME Init PROVE TypeInv
  OBVIOUS
<1>1. inbox \in [Peers -> Seq(Requests \cup {WriteRequest})]
  BY DEF Init
<1>2. /\ got \in [Threads -> Buffer] /\ sjfs_read_buffer \in Buffer
      /\ cn_sem \in SemaphoreOf(Threads) /\ cb_sem \in SemaphoreOf(Threads)
  BY NullType, SemaInitType DEF Init
<1>3. callback \in BOOLEAN /\ overrun \in BOOLEAN
  BY DEF Init
<1>4. /\ pc \in [Threads -> ThreadPc] /\ cb_pc \in [Peers -> CallbackPc]
      /\ request \in [Threads -> Requests \cup {WriteRequest, None}]
      /\ cb_msg \in [Peers -> Requests \cup {None}]
  BY DEF Init, ThreadPc, CallbackPc
<1>5. loads \in 0 .. MaxLoads /\ faults \in 0 .. MaxFaults
  BY FileAssumption DEF Init
<1>6. TypeOK
  BY <1>1, <1>2, <1>3, <1>4, <1>5 DEF Init, TypeOK, ThreadPc, CallbackPc
<1>7. QED
  BY <1>6 DEF Init, TypeInv

(* A step of a thread that is already inside its call.                     *)
LEMMA ThreadMoveType ==
    ASSUME TypeInv, NEW t \in Threads, NEW l \in ThreadPc, pc[t] # "idle",
           pc' = [pc EXCEPT ![t] = l],
           cn_sem' \in SemaphoreOf(Threads), cb_sem' \in SemaphoreOf(Threads),
           got' \in [Threads -> Buffer],
           inbox' \in [Peers -> Seq(Packets)],
           faults' \in 0 .. MaxFaults, overrun' \in BOOLEAN,
           UNCHANGED <<moduleVars, sjfs_read_buffer, request, answering, cb_pc, cb_msg>>
    PROVE  TypeInv'
<1>1. TypeOK'
  BY DEF TypeInv, TypeOK, ThreadPc, Packets, moduleVars
<1>2. \A u \in Threads : pc'[u] # "idle" => pc[u] # "idle"
  BY DEF TypeInv, TypeOK
<1>3. QED
  BY <1>1, <1>2 DEF TypeInv

(* A step of a peer.                                                       *)
LEMMA PeerMoveType ==
    ASSUME TypeInv, NEW p \in Peers, NEW l \in CallbackPc,
           cb_pc' = [cb_pc EXCEPT ![p] = l],
           cb_msg' \in [Peers -> Requests \cup {None}],
           \A q \in Peers : q # p => cb_msg'[q] = cb_msg[q],
           l \in {"trylock", "alloc"} => cb_msg'[p] \in Requests,
           cb_sem' \in SemaphoreOf(Threads),
           sjfs_read_buffer' \in Buffer,
           inbox' \in [Peers -> Seq(Packets)],
           faults' \in 0 .. MaxFaults,
           UNCHANGED <<moduleVars, cn_sem, threadVars, answering, overrun>>
    PROVE  TypeInv'
<1>1. TypeOK'
  BY DEF TypeInv, TypeOK, CallbackPc, Packets, moduleVars, threadVars
<1>2. \A q \in Peers : cb_pc'[q] = IF q = p THEN l ELSE cb_pc[q]
  BY DEF TypeInv, TypeOK
<1>3. QED
  BY <1>1, <1>2 DEF TypeInv, threadVars

LEMMA NextType == TypeInv /\ [Next]_vars => TypeInv'
<1> SUFFICES ASSUME TypeInv, [Next]_vars PROVE TypeInv'
  OBVIOUS
<1>a. TypeOK
  BY DEF TypeInv
<1>b. /\ cn_sem \in SemaphoreOf(Threads) /\ cb_sem \in SemaphoreOf(Threads)
      /\ sjfs_read_buffer \in Buffer
      /\ inbox \in [Peers -> Seq(Packets)]
      /\ cb_msg \in [Peers -> Requests \cup {None}]
      /\ got \in [Threads -> Buffer]
      /\ faults \in 0 .. MaxFaults /\ overrun \in BOOLEAN
  BY <1>a DEF TypeOK, Packets
<1>c. \A t \in Threads : Down(cn_sem, t) \in SemaphoreOf(Threads) /\ Down(cb_sem, t) \in SemaphoreOf(Threads)
  BY <1>b, DownType
<1>d. /\ Up(cn_sem) \in SemaphoreOf(Threads) /\ Up(cb_sem) \in SemaphoreOf(Threads)
      /\ Free(cb_sem) => Take(cb_sem) \in SemaphoreOf(Threads)
  BY <1>b, UpType
<1> USE DEF Goto, GotoCb
<1>1. ASSUME InitModule PROVE TypeInv'
  <2>1. faults' \in 0 .. MaxFaults
    BY <1>1, <1>a, <1>b, FaultType DEF InitModule
  <2>2. loads' \in 0 .. MaxLoads
    BY <1>1, <1>a, FileAssumption DEF InitModule, TypeOK
  <2>3. module' \in {"unloaded", "loaded", "oops"} /\ callback' \in BOOLEAN
    BY <1>1, <1>a DEF InitModule, TypeOK
  <2>4. TypeOK'
    BY <1>1, <1>a, <2>1, <2>2, <2>3, NullType, SemaInitType DEF InitModule, TypeOK, threadVars, peerVars
  <2>5. QED
    BY <1>1, <2>4 DEF InitModule, TypeInv, threadVars, peerVars
<1>2. ASSUME ExitModule PROVE TypeInv'
  <2>1. /\ cb_pc' \in [Peers -> CallbackPc]
        /\ \A p \in Peers : cb_pc'[p] \notin {"trylock", "alloc"}
    BY <1>2, <1>a DEF ExitModule, TypeOK, CallbackPc, Ended
  <2>2. QED
    BY <1>2, <2>1 DEF ExitModule, TypeInv, TypeOK, CallbackPc, threadVars
<1>3. ASSUME NEW t \in Threads, NEW r \in Packets, NEW l \in {"down_cb", "write"}, Enter(t, r, l)
      PROVE  TypeInv'
  <2>1. TypeOK'
    BY <1>3, <1>a, <1>c DEF Enter, TypeOK, Packets, moduleVars, peerVars
  <2>2. \A u \in Threads : pc'[u] # "idle" => request'[u] \in Packets
    BY <1>3, <1>a DEF Enter, TypeInv, TypeOK
  <2>3. QED
    BY <1>3, <2>1, <2>2 DEF Enter, TypeInv, peerVars
<1>4. ASSUME NEW t \in Threads, ReadDownCb(t) PROVE TypeInv'
  BY <1>4, <1>b, <1>c, ThreadMoveType DEF ReadDownCb, ThreadPc, peerVars
<1>5. ASSUME NEW t \in Threads, ReadSend(t) PROVE TypeInv'
  <2>1. request[t] \in Packets
    BY <1>5 DEF ReadSend, TypeInv
  <2>2. inbox' \in [Peers -> Seq(Packets)] /\ faults' \in 0 .. MaxFaults
    BY <1>5, <1>a, <1>b, <2>1, MulticastType, FaultType DEF ReadSend
  <2>3. overrun' \in BOOLEAN
    BY <1>5, <1>b DEF ReadSend
  <2>4. QED
    BY <1>5, <1>b, <2>2, <2>3, ThreadMoveType DEF ReadSend, ThreadPc
<1>6. ASSUME NEW t \in Threads, ReadAwaitCb(t) PROVE TypeInv'
  BY <1>6, <1>b, <1>c, ThreadMoveType DEF ReadAwaitCb, ThreadPc, peerVars
<1>7. ASSUME NEW t \in Threads, ReadUpCb(t) PROVE TypeInv'
  BY <1>7, <1>b, <1>d, ThreadMoveType DEF ReadUpCb, ThreadPc, peerVars
<1>8. ASSUME NEW t \in Threads, ReadCopy(t) PROVE TypeInv'
  BY <1>8, <1>b, ThreadMoveType DEF ReadCopy, ThreadPc, peerVars
<1>9. ASSUME NEW t \in Threads, WriteSend(t) PROVE TypeInv'
  <2>1. request[t] \in Packets
    BY <1>9 DEF WriteSend, TypeInv
  <2>2. inbox' \in [Peers -> Seq(Packets)] /\ faults' \in 0 .. MaxFaults
    BY <1>9, <1>a, <1>b, <2>1, MulticastType, FaultType DEF WriteSend
  <2>3. QED
    BY <1>9, <1>b, <2>2, ThreadMoveType DEF WriteSend, ThreadPc
<1>10. ASSUME NEW t \in Threads, Return(t) PROVE TypeInv'
  <2>1. TypeOK'
    BY <1>10, <1>a, <1>d, NullType DEF Return, TypeOK, moduleVars, peerVars
  <2>2. \A u \in Threads : pc'[u] # "idle" => request'[u] \in Packets
    BY <1>10, <1>a DEF Return, TypeInv, TypeOK
  <2>3. QED
    BY <1>10, <2>1, <2>2 DEF Return, TypeInv, peerVars
<1>11. ASSUME NEW p \in Peers, Recv(p) PROVE TypeInv'
  <2>1. inbox[p] \in Seq(Packets) /\ inbox[p] # <<>>
    BY <1>11, <1>b DEF Recv
  <2>2. Head(inbox[p]) \in Packets /\ Tail(inbox[p]) \in Seq(Packets)
    BY <2>1
  <2>3. inbox' \in [Peers -> Seq(Packets)]
    BY <1>11, <1>b, <2>2 DEF Recv
  <2>4. CASE UNCHANGED <<cb_pc, cb_msg>>
    <3>1. TypeOK'
      BY <1>11, <1>a, <2>3, <2>4 DEF Recv, TypeOK, Packets, moduleVars, threadVars
    <3>2. QED
      BY <1>11, <2>4, <3>1 DEF Recv, TypeInv, threadVars
  <2>5. CASE ~UNCHANGED <<cb_pc, cb_msg>>
    <3>1. /\ Head(inbox[p]) \in Requests
          /\ cb_msg' = [cb_msg EXCEPT ![p] = Head(inbox[p])]
          /\ \E l \in {"trylock", "oops"} : cb_pc' = [cb_pc EXCEPT ![p] = l]
      BY <1>11, <2>2, <2>5 DEF Recv, Packets
    <3>2. /\ cb_msg' \in [Peers -> Requests \cup {None}]
          /\ cb_msg'[p] \in Requests
          /\ \A q \in Peers : q # p => cb_msg'[q] = cb_msg[q]
      BY <1>b, <3>1
    <3>3. PICK l \in {"trylock", "oops"} : cb_pc' = [cb_pc EXCEPT ![p] = l]
      BY <3>1
    <3>4. QED
      BY <1>11, <1>b, <2>3, <3>2, <3>3, PeerMoveType DEF Recv, CallbackPc, Ended
  <2>6. QED
    BY <2>4, <2>5
<1>12. ASSUME NEW p \in Peers, RecvFails(p) PROVE TypeInv'
  <2>1. faults' \in 0 .. MaxFaults
    BY <1>12, <1>a, FaultType DEF RecvFails
  <2>2. inbox' \in [Peers -> Seq(Packets)]
    BY <1>12, <1>b DEF RecvFails
  <2>3. QED
    BY <1>12, <1>b, <2>1, <2>2, PeerMoveType DEF RecvFails, CallbackPc, Ended
<1>13. ASSUME NEW p \in Peers, CallbackTrylock(p) PROVE TypeInv'
  <2>1. cb_sem' \in SemaphoreOf(Threads) /\ cb_msg[p] \in Requests
    BY <1>13, <1>b, <1>d DEF CallbackTrylock, TypeInv
  <2>2. PICK l \in {"ignore", "alloc"} : cb_pc' = [cb_pc EXCEPT ![p] = l]
    BY <1>13 DEF CallbackTrylock
  <2>3. QED
    BY <1>13, <1>b, <2>1, <2>2, PeerMoveType DEF CallbackTrylock, CallbackPc
<1>14. ASSUME NEW p \in Peers, CallbackAlloc(p) PROVE TypeInv'
  <2>1. faults' \in 0 .. MaxFaults
    BY <1>14, <1>a, <1>b, FaultType DEF CallbackAlloc
  <2>2. cb_msg[p] \in Requests
    BY <1>14 DEF CallbackAlloc, TypeInv
  <2>3. sjfs_read_buffer' \in Buffer
    BY <1>14, <2>2, NullType DEF CallbackAlloc, Buffer
  <2>4. QED
    BY <1>14, <1>b, <2>1, <2>3, PeerMoveType DEF CallbackAlloc, CallbackPc
<1>15. ASSUME NEW p \in Peers, CallbackCopy(p) PROVE TypeInv'
  <2>1. sjfs_read_buffer' \in Buffer
    BY <1>15, <1>b, NullType DEF CallbackCopy, Buffer
  <2>2. QED
    BY <1>15, <1>b, <2>1, PeerMoveType DEF CallbackCopy, CallbackPc
<1>16. ASSUME NEW p \in Peers, CallbackUp(p) PROVE TypeInv'
  <2>1. /\ cb_msg' \in [Peers -> Requests \cup {None}]
        /\ \A q \in Peers : q # p => cb_msg'[q] = cb_msg[q]
    BY <1>16, <1>b DEF CallbackUp
  <2>2. QED
    BY <1>16, <1>b, <1>d, <2>1, PeerMoveType DEF CallbackUp, CallbackPc
<1>17. ASSUME NEW p \in Peers, CallbackReturn(p) PROVE TypeInv'
  BY <1>17, <1>b, PeerMoveType DEF CallbackReturn, CallbackPc
<1>18. CASE UNCHANGED vars
  BY <1>18 DEF vars, TypeInv, TypeOK, moduleVars, threadVars, peerVars
<1>19. QED
  BY <1>1, <1>2, <1>3, <1>4, <1>5, <1>6, <1>7, <1>8, <1>9, <1>10, <1>11, <1>12, <1>13,
     <1>14, <1>15, <1>16, <1>17, <1>18 DEF Next, ThreadStep, PeerStep, Read, Write, Packets

(* Plan a's transport is type correct: a request is sent only with a       *)
(* packet, and an answer's buffer has the size of some request.            *)
THEOREM TypeCorrect == Spec => []TypeOK
<1>1. TypeInv => TypeOK
  BY DEF TypeInv
<1>2. QED
  BY <1>1, InitType, NextType, PTL DEF Spec
-----------------------------------------------------------------------------
(***************************************************************************)
(* Mutual exclusion, whatever fails.  The invariant adds who may sleep on  *)
(* cn_sem, that a free unit means that nobody is inside, and that threads  *)
(* are inside only while the module is loaded, since insmod resets the     *)
(* semaphore.                                                              *)
(***************************************************************************)

CnInv ==
    /\ cn_sem.count \in {0, 1}
    /\ Distinct(cn_sem)
    /\ \A t \in Threads : Sleeps(cn_sem, t) => pc[t] \in {"down_cb", "write"}
    /\ cn_sem.count = 1 => \A t \in Threads : ~HoldsCn(t)
    /\ module # "loaded" => \A t \in Threads : pc[t] = "idle"
    /\ MutualExclusion

(* A thread that enters down(&cn_sem) goes inside or to sleep.             *)
LEMMA CnEnter ==
    ASSUME TypeInv, CnInv, NEW t \in Threads, NEW l \in {"down_cb", "write"},
           pc[t] = "idle", module = "loaded", module' = "loaded",
           pc' = [pc EXCEPT ![t] = l],
           cn_sem' = Down(cn_sem, t)
    PROVE  CnInv'
<1>1. cn_sem \in SemaphoreOf(Threads) /\ pc \in [Threads -> ThreadPc]
  BY DEF TypeInv, TypeOK, ThreadPc
<1>2. ~Sleeps(cn_sem, t) /\ Distinct(cn_sem)
  BY DEF CnInv
<1>3. Distinct(cn_sem)'
  BY <1>1, <1>2, DistinctPreserved DEF Distinct
<1>4. /\ pc'[t] = l
      /\ \A u \in Threads : u # t => pc'[u] = pc[u]
  BY <1>1
<1>5. CASE cn_sem.count = 1
  <2>1. cn_sem'.count = 0
    BY <1>1, <1>5 DEF Down, SemaphoreOf
  <2>2. \A u \in Threads : Sleeps(cn_sem, u)' <=> Sleeps(cn_sem, u)
    BY <1>1, <1>5, SleepsAfterDown
  <2>3. \A u \in Threads : u # t => ~HoldsCn(u)'
    BY <1>4, <1>5, <2>2 DEF CnInv, HoldsCn
  <2>4. MutualExclusion'
    BY <2>3 DEF MutualExclusion
  <2>5. QED
    BY <1>3, <1>4, <2>1, <2>2, <2>4 DEF CnInv
<1>6. CASE cn_sem.count = 0
  <2>1. cn_sem'.count = 0
    BY <1>1, <1>6 DEF Down, SemaphoreOf
  <2>2. \A u \in Threads : Sleeps(cn_sem, u)' <=> Sleeps(cn_sem, u) \/ u = t
    BY <1>1, <1>6, SleepsAfterDown
  <2>3. \A u \in Threads : HoldsCn(u)' => HoldsCn(u)
    BY <1>4, <2>2 DEF HoldsCn
  <2>4. MutualExclusion'
    BY <2>3 DEF CnInv, MutualExclusion
  <2>5. QED
    BY <1>3, <1>4, <2>1, <2>2, <2>4 DEF CnInv
<1>7. QED
  BY <1>5, <1>6 DEF CnInv

(* up(&cn_sem) by the thread inside lets nobody or the first sleeper in.   *)
LEMMA CnLeave ==
    ASSUME TypeInv, CnInv, NEW t \in Threads, HoldsCn(t), ~Sleeps(cn_sem, t),
           pc' = [pc EXCEPT ![t] = "idle"],
           cn_sem' = Up(cn_sem), module' = module
    PROVE  CnInv'
<1>1. cn_sem \in SemaphoreOf(Threads) /\ pc \in [Threads -> ThreadPc]
  BY DEF TypeInv, TypeOK, ThreadPc
<1>2. Distinct(cn_sem) /\ cn_sem.count = 0
  BY DEF CnInv
<1>3. Distinct(cn_sem)'
  BY <1>1, <1>2, DistinctPreserved DEF Distinct
<1>4. /\ pc'[t] = "idle"
      /\ \A u \in Threads : u # t => pc'[u] = pc[u]
  BY <1>1
<1>5. \A u \in Threads : u # t => ~HoldsCn(u)
  BY DEF CnInv, MutualExclusion
<1>a. module = "loaded"
  BY DEF CnInv, HoldsCn
<1>6. CASE cn_sem.sleepers = <<>>
  <2>1. cn_sem'.count = 1
    BY <1>1, <1>2, <1>6 DEF Up, SemaphoreOf
  <2>2. \A u \in Threads : ~Sleeps(cn_sem, u) /\ ~Sleeps(cn_sem, u)'
    BY <1>1, <1>2, <1>6, SleepsAfterUp
  <2>3. \A u \in Threads : ~HoldsCn(u)'
    BY <1>4, <1>5, <2>2 DEF HoldsCn
  <2>4. QED
    BY <1>a, <1>3, <2>1, <2>2, <2>3 DEF CnInv, MutualExclusion
<1>7. CASE cn_sem.sleepers # <<>>
  <2>1. cn_sem'.count = 0
    BY <1>1, <1>2, <1>7 DEF Up, SemaphoreOf
  <2>2. \A u \in Threads : Sleeps(cn_sem, u)'
                              <=> Sleeps(cn_sem, u) /\ u # Head(cn_sem.sleepers)
    BY <1>1, <1>2, <1>7, SleepsAfterUp
  <2>3. \A u \in Threads : HoldsCn(u)' => u = Head(cn_sem.sleepers)
    BY <1>4, <1>5, <2>2 DEF HoldsCn
  <2>4. QED
    BY <1>a, <1>3, <1>4, <2>1, <2>2, <2>3 DEF CnInv, MutualExclusion
<1>8. QED
  BY <1>6, <1>7

(* A step of a thread inside that keeps it inside.                         *)
LEMMA CnStay ==
    ASSUME TypeInv, CnInv, NEW t \in Threads, HoldsCn(t), NEW l,
           pc' = [pc EXCEPT ![t] = l], UNCHANGED <<cn_sem, module>>
    PROVE  CnInv'
<1>1. /\ pc'[t] = l
      /\ \A u \in Threads : u # t => pc'[u] = pc[u]
  BY DEF TypeInv, TypeOK
<1>2. \A u \in Threads : Sleeps(cn_sem, u)' <=> Sleeps(cn_sem, u)
  BY DEF Sleeps
<1>3. module' = "loaded" /\ cn_sem'.count = 0
  BY DEF CnInv, HoldsCn
<1>4. \A u \in Threads : HoldsCn(u)' => HoldsCn(u)
  BY <1>1, <1>2 DEF HoldsCn
<1>5. Distinct(cn_sem)' /\ MutualExclusion'
  BY <1>4 DEF CnInv, Distinct, MutualExclusion
<1>6. QED
  BY <1>1, <1>2, <1>3, <1>5 DEF CnInv, HoldsCn

(* Nobody inside, and the semaphore as sema_init leaves it.                *)
LEMMA CnFresh ==
    ASSUME cn_sem = SemaInit(1), \A t \in Threads : pc[t] = "idle"
    PROVE  CnInv
<1>1. cn_sem.count = 1 /\ cn_sem.sleepers = <<>>
  BY DEF SemaInit
<1>2. \A t \in Threads : ~HoldsCn(t) /\ ~Sleeps(cn_sem, t)
  BY <1>1 DEF HoldsCn, Sleeps
<1>3. Distinct(cn_sem)
  BY <1>1 DEF Distinct
<1>4. QED
  BY <1>1, <1>2, <1>3 DEF CnInv, MutualExclusion

LEMMA NextCnInv == TypeInv /\ CnInv /\ [Next]_vars => CnInv'
<1> SUFFICES ASSUME TypeInv, CnInv, [Next]_vars PROVE CnInv'
  OBVIOUS
<1>a. \A t \in Threads : pc[t] \notin {"down_cb", "write"} => ~Sleeps(cn_sem, t)
  BY DEF CnInv
<1> USE DEF Goto
<1>1. ASSUME InitModule PROVE CnInv'
  <2>1. cn_sem' = SemaInit(1) /\ \A t \in Threads : pc'[t] = "idle"
    BY <1>1 DEF InitModule, CnInv, threadVars
  <2>2. cn_sem'.count = 1 /\ cn_sem'.sleepers = <<>>
    BY <2>1 DEF SemaInit
  <2>3. \A t \in Threads : ~HoldsCn(t)' /\ ~Sleeps(cn_sem, t)'
    BY <2>1, <2>2 DEF HoldsCn, Sleeps
  <2>4. Distinct(cn_sem)'
    BY <2>2 DEF Distinct
  <2>5. QED
    BY <2>1, <2>2, <2>3, <2>4 DEF CnInv, MutualExclusion
<1>2. ASSUME UNCHANGED <<cn_sem, pc>>, module' = module \/ \A t \in Threads : pc[t] = "idle" PROVE CnInv'
  <2>1. \A t \in Threads : (HoldsCn(t)' <=> HoldsCn(t)) /\ (Sleeps(cn_sem, t)' <=> Sleeps(cn_sem, t))
    BY <1>2 DEF HoldsCn, Sleeps
  <2>2. Distinct(cn_sem)'
    BY <1>2 DEF CnInv, Distinct
  <2>3. MutualExclusion'
    BY <2>1 DEF CnInv, MutualExclusion
  <2>4. QED
    BY <1>2, <2>1, <2>2, <2>3 DEF CnInv
<1>3. ASSUME ExitModule PROVE CnInv'
  BY <1>2, <1>3 DEF ExitModule, threadVars
<1>4. ASSUME NEW t \in Threads, NEW r, NEW l \in {"down_cb", "write"}, Enter(t, r, l) PROVE CnInv'
  BY <1>4, CnEnter DEF Enter, moduleVars
<1>5. ASSUME NEW t \in Threads, ReadDownCb(t) PROVE CnInv'
  BY <1>5, CnStay DEF ReadDownCb, HoldsCn, moduleVars
<1>6. ASSUME NEW t \in Threads, ReadSend(t) PROVE CnInv'
  BY <1>6, <1>a, CnStay DEF ReadSend, HoldsCn, moduleVars
<1>7. ASSUME NEW t \in Threads, ReadAwaitCb(t) PROVE CnInv'
  BY <1>7, <1>a, CnStay DEF ReadAwaitCb, HoldsCn, moduleVars
<1>8. ASSUME NEW t \in Threads, ReadUpCb(t) PROVE CnInv'
  BY <1>8, <1>a, CnStay DEF ReadUpCb, HoldsCn, moduleVars
<1>9. ASSUME NEW t \in Threads, ReadCopy(t) PROVE CnInv'
  BY <1>9, <1>a, CnStay DEF ReadCopy, HoldsCn, moduleVars
<1>10. ASSUME NEW t \in Threads, WriteSend(t) PROVE CnInv'
  BY <1>10, CnStay DEF WriteSend, HoldsCn, moduleVars
<1>11. ASSUME NEW t \in Threads, Return(t) PROVE CnInv'
  BY <1>11, <1>a, CnLeave DEF Return, HoldsCn, moduleVars
<1>12. ASSUME NEW p \in Peers, PeerStep(p) \/ RecvFails(p) PROVE CnInv'
  <2>1. UNCHANGED <<cn_sem, pc, module>>
    BY <1>12 DEF PeerStep, Recv, RecvFails, CallbackTrylock, CallbackAlloc, CallbackCopy,
                 CallbackUp, CallbackReturn, moduleVars, threadVars
  <2>2. QED
    BY <1>2, <2>1
<1>13. CASE UNCHANGED vars
  BY <1>2, <1>13 DEF vars, moduleVars, threadVars
<1>14. QED
  BY <1>1, <1>3, <1>4, <1>5, <1>6, <1>7, <1>8, <1>9, <1>10, <1>11, <1>12, <1>13
     DEF Next, ThreadStep, Read, Write

(* cn_sem admits one call of sjfs_fops_read or sjfs_fops_write at a time,  *)
(* for any number of threads, across unloading and loading and whatever    *)
(* allocation or system call fails.                                        *)
THEOREM Exclusive == Spec => []MutualExclusion
<1>1. Init => TypeInv /\ CnInv
  BY InitType, CnFresh DEF Init
<1>2. (TypeInv /\ CnInv) /\ [Next]_vars => (TypeInv /\ CnInv)'
  BY NextType, NextCnInv
<1>3. CnInv => MutualExclusion
  BY DEF CnInv
<1>4. QED
  BY <1>1, <1>2, <1>3, PTL DEF Spec

-----------------------------------------------------------------------------
(***************************************************************************)
(* Who answers what.  A reader has sent a read request, only a process     *)
(* that answers enters the callback, and as long as nothing has failed     *)
(* every helper is alive.                                                  *)
(***************************************************************************)

Reading == {"down_cb", "send", "await_cb", "up_cb", "copy"}

RouteInv ==
    /\ module = "loaded" => callback
    /\ \A t \in Threads : pc[t] \in Reading => request[t] \in Requests
    /\ \A t \in Threads : pc[t] = "write" => request[t] = WriteRequest
    /\ \A p \in Peers \ answering : cb_pc[p] \in {"idle", "exited"}
    /\ faults = 0 => \A p \in Peers : cb_pc[p] # "exited"

(* A fault is never forgotten.                                             *)
LEMMA FaultSticks == TypeInv /\ Fault => faults' # 0
BY DEF TypeInv, TypeOK, Fault

LEMMA InitRoute == Init => RouteInv
BY DEF Init, RouteInv, Reading

(* A step of a thread.                                                     *)
LEMMA RouteThread ==
    ASSUME TypeInv, RouteInv, NEW t \in Threads, NEW l,
           pc' = [pc EXCEPT ![t] = l],
           \A u \in Threads : u # t => request'[u] = request[u],
           l \in Reading => request'[t] \in Requests,
           l = "write" => request'[t] = WriteRequest,
           faults' = 0 => faults = 0,
           UNCHANGED <<module, callback, answering, cb_pc>>
    PROVE  RouteInv'
<1>1. /\ pc'[t] = l
      /\ \A u \in Threads : u # t => pc'[u] = pc[u]
  BY DEF TypeInv, TypeOK
<1>2. \A u \in Threads : pc'[u] \in Reading => request'[u] \in Requests
  BY <1>1 DEF RouteInv
<1>3. \A u \in Threads : pc'[u] = "write" => request'[u] = WriteRequest
  BY <1>1 DEF RouteInv
<1>4. (module = "loaded" => callback)' /\ \A p \in Peers \ answering' : cb_pc'[p] \in {"idle", "exited"}
  BY DEF RouteInv
<1>5. faults' = 0 => \A p \in Peers : cb_pc'[p] # "exited"
  BY DEF RouteInv
<1>6. QED
  BY <1>2, <1>3, <1>4, <1>5 DEF RouteInv

(* A step of a peer.                                                       *)
LEMMA RoutePeer ==
    ASSUME TypeInv, RouteInv, NEW p \in Peers, NEW l,
           cb_pc' = [cb_pc EXCEPT ![p] = l],
           p \in answering \/ l \in {"idle", "exited"},
           faults' = 0 => faults = 0 /\ l # "exited",
           UNCHANGED <<moduleVars, threadVars, answering>>
    PROVE  RouteInv'
<1>1. /\ cb_pc'[p] = l
      /\ \A q \in Peers : q # p => cb_pc'[q] = cb_pc[q]
  BY DEF TypeInv, TypeOK
<1>2. /\ (module = "loaded" => callback)'
      /\ \A t \in Threads : pc'[t] \in Reading => request'[t] \in Requests
      /\ \A t \in Threads : pc'[t] = "write" => request'[t] = WriteRequest
  BY DEF RouteInv, moduleVars, threadVars
<1>3. \A q \in Peers \ answering' : cb_pc'[q] \in {"idle", "exited"}
  BY <1>1 DEF RouteInv
<1>4. faults' = 0 => \A q \in Peers : cb_pc'[q] # "exited"
  BY <1>1 DEF RouteInv
<1>5. QED
  BY <1>2, <1>3, <1>4 DEF RouteInv

LEMMA NextRoute == TypeInv /\ RouteInv /\ [Next]_vars => RouteInv'
<1> SUFFICES ASSUME TypeInv, RouteInv, [Next]_vars PROVE RouteInv'
  OBVIOUS
<1> USE DEF Goto, GotoCb
<1>b. Fault => faults' # 0
  BY FaultSticks
<1>1. ASSUME InitModule PROVE RouteInv'
  <2>1. module' = "loaded" => callback'
    BY <1>1 DEF InitModule, RouteInv
  <2>2. faults' = 0 => faults = 0
    BY <1>1, <1>b DEF InitModule
  <2>3. QED
    BY <1>1, <2>1, <2>2 DEF InitModule, RouteInv, threadVars, peerVars
<1>2. ASSUME ExitModule PROVE RouteInv'
  <2>1. module' # "loaded"
    BY <1>2 DEF ExitModule
  <2>2. /\ \A p \in Peers \ answering : cb_pc'[p] \in {"idle", "exited"}
        /\ \A p \in Peers : cb_pc[p] # "exited" => cb_pc'[p] # "exited"
    BY <1>2 DEF ExitModule, RouteInv
  <2>3. QED
    BY <1>2, <2>1, <2>2 DEF ExitModule, RouteInv, threadVars
<1>3. ASSUME NEW t \in Threads, NEW r \in Requests, Read(t, r) PROVE RouteInv'
  <2>1. request'[t] = r /\ \A u \in Threads : u # t => request'[u] = request[u]
    BY <1>3 DEF Read, Enter, TypeInv, TypeOK
  <2>2. QED
    BY <1>3, <2>1, RouteThread DEF Read, Enter, moduleVars, peerVars
<1>4. ASSUME NEW t \in Threads, Write(t) PROVE RouteInv'
  <2>1. request'[t] = WriteRequest /\ \A u \in Threads : u # t => request'[u] = request[u]
    BY <1>4 DEF Write, Enter, TypeInv, TypeOK
  <2>2. QED
    BY <1>4, <2>1, RouteThread DEF Write, Enter, Reading, moduleVars, peerVars
<1>5. ASSUME NEW t \in Threads, ReadDownCb(t) \/ ReadAwaitCb(t) \/ ReadUpCb(t) \/ ReadCopy(t)
      PROVE  RouteInv'
  <2>1. PICK l \in {"send", "up_cb", "copy", "up_cn"} : pc' = [pc EXCEPT ![t] = l]
    BY <1>5 DEF ReadDownCb, ReadAwaitCb, ReadUpCb, ReadCopy
  <2>2. UNCHANGED <<module, callback, request, answering, inbox, cb_pc, faults>>
    BY <1>5 DEF ReadDownCb, ReadAwaitCb, ReadUpCb, ReadCopy, moduleVars, peerVars
  <2>3. request[t] \in Requests
    BY <1>5 DEF ReadDownCb, ReadAwaitCb, ReadUpCb, ReadCopy, RouteInv, Reading
  <2>4. QED
    BY <2>1, <2>2, <2>3, RouteThread
<1>6. ASSUME NEW t \in Threads, ReadSend(t) PROVE RouteInv'
  <2>1. request[t] \in Requests
    BY <1>6 DEF ReadSend, RouteInv, Reading
  <2>2. faults' = 0 => faults = 0
    BY <1>6, <1>b DEF ReadSend
  <2>3. QED
    BY <1>6, <2>1, <2>2, RouteThread DEF ReadSend, moduleVars
<1>7. ASSUME NEW t \in Threads, WriteSend(t) PROVE RouteInv'
  <2>1. faults' = 0 => faults = 0
    BY <1>7, <1>b DEF WriteSend
  <2>2. QED
    BY <1>7, <2>1, RouteThread DEF WriteSend, Reading, moduleVars
<1>8. ASSUME NEW t \in Threads, Return(t) PROVE RouteInv'
  <2>1. \A u \in Threads : u # t => request'[u] = request[u]
    BY <1>8 DEF Return, TypeInv, TypeOK
  <2>2. QED
    BY <1>8, <2>1, RouteThread DEF Return, Reading, moduleVars, peerVars
<1>9. ASSUME NEW p \in Peers, Recv(p) PROVE RouteInv'
  <2>1. PICK l : /\ cb_pc' = [cb_pc EXCEPT ![p] = l] /\ l # "exited"
                 /\ p \in answering \/ l = "idle"
    <3>1. CASE cb_pc' = cb_pc
      <4>1. cb_pc' = [cb_pc EXCEPT ![p] = "idle"]
        BY <1>9, <3>1 DEF Recv, TypeInv, TypeOK
      <4>2. QED
        BY <4>1
    <3>2. CASE cb_pc' # cb_pc
      BY <1>9, <3>2 DEF Recv
    <3>3. QED
      BY <3>1, <3>2
  <2>2. QED
    BY <1>9, <2>1, RoutePeer DEF Recv
<1>10. ASSUME NEW p \in Peers, RecvFails(p) PROVE RouteInv'
  BY <1>10, <1>b, RoutePeer DEF RecvFails
<1>11. ASSUME NEW p \in Peers,
              \/ CallbackTrylock(p) \/ CallbackAlloc(p) \/ CallbackCopy(p)
              \/ CallbackUp(p) \/ CallbackReturn(p)
       PROVE  RouteInv'
  <2> USE DEF CallbackTrylock, CallbackAlloc, CallbackCopy, CallbackUp, CallbackReturn
  <2>1. PICK l \in {"ignore", "alloc", "copy", "signal", "return", "idle"} :
                cb_pc' = [cb_pc EXCEPT ![p] = l]
    BY <1>11
  <2>2. p \in answering
    BY <1>11 DEF RouteInv
  <2>3. faults' = 0 => faults = 0
    BY <1>11, <1>b
  <2>4. UNCHANGED <<moduleVars, threadVars, answering>>
    BY <1>11
  <2>5. QED
    BY <2>1, <2>2, <2>3, <2>4, RoutePeer
<1>12. CASE UNCHANGED vars
  BY <1>12 DEF vars, moduleVars, threadVars, peerVars, RouteInv
<1>13. QED
  BY <1>1, <1>2, <1>3, <1>4, <1>5, <1>6, <1>7, <1>8, <1>9, <1>10, <1>11, <1>12
     DEF Next, ThreadStep, PeerStep

-----------------------------------------------------------------------------
(***************************************************************************)
(* No wakeup is lost.  However many processes answer, the unit of cb_sem   *)
(* is free, or a thread or a callback has it, or a request is on its way   *)
(* that gives one back.  insmod brings a new unit, so that this is said of *)
(* a loaded module.                                                        *)
(***************************************************************************)

PeerActive == \E p \in answering : Answers(p)
Awake == \E u \in Threads : pc[u] \in {"send", "up_cb"} /\ ~Sleeps(cb_sem, u)

WakeInv ==
    /\ Distinct(cb_sem)
    /\ cb_sem.sleepers # <<>> => cb_sem.count = 0
    /\ \A t \in Threads : Sleeps(cb_sem, t) => pc[t] \in {"send", "up_cb"}
    /\ module = "loaded" /\ Healthy => cb_sem.count > 0 \/ PeerActive \/ Awake

(* down(&cb_sem): the unit is now the caller's, or still where it was.     *)
LEMMA WakeDown ==
    ASSUME TypeInv, WakeInv, NEW t \in Threads, NEW l \in {"send", "up_cb"},
           pc[t] \notin {"send", "up_cb"},
           pc' = [pc EXCEPT ![t] = l],
           cb_sem' = Down(cb_sem, t),
           UNCHANGED <<module, answering, inbox, cb_pc, faults, overrun>>
    PROVE  WakeInv'
<1>1. cb_sem \in SemaphoreOf(Threads) /\ cb_sem.count \in Nat
  BY DEF TypeInv, TypeOK, SemaphoreOf
<1>2. /\ pc'[t] = l
      /\ \A u \in Threads : u # t => pc'[u] = pc[u]
  BY DEF TypeInv, TypeOK
<1>3. ~Sleeps(cb_sem, t) /\ Distinct(cb_sem)
  BY DEF WakeInv
<1>4. Distinct(cb_sem)'
  BY <1>1, <1>3, DistinctPreserved DEF Distinct
<1>5. (PeerActive' <=> PeerActive) /\ (Healthy' <=> Healthy)
  BY DEF PeerActive, Answers, HasReadRequest, Healthy
<1>6. CASE cb_sem.count > 0
  <2>1. cb_sem'.sleepers = cb_sem.sleepers /\ cb_sem.sleepers = <<>>
    BY <1>1, <1>6 DEF Down, SemaphoreOf, WakeInv
  <2>2. \A u \in Threads : Sleeps(cb_sem, u)' <=> Sleeps(cb_sem, u)
    BY <2>1 DEF Sleeps
  <2>3. Awake'
    BY <1>2, <1>3, <2>2 DEF Awake
  <2>4. \A u \in Threads : Sleeps(cb_sem, u)' => pc'[u] \in {"send", "up_cb"}
    BY <1>2, <2>2 DEF WakeInv
  <2>5. QED
    BY <1>4, <2>1, <2>3, <2>4 DEF WakeInv
<1>7. CASE cb_sem.count = 0
  <2>1. cb_sem'.count = 0
    BY <1>1, <1>7 DEF Down, SemaphoreOf
  <2>2. \A u \in Threads : Sleeps(cb_sem, u)' <=> Sleeps(cb_sem, u) \/ u = t
    BY <1>1, <1>7, SleepsAfterDown
  <2>3. Awake => Awake'
    BY <1>2, <2>2 DEF Awake
  <2>4. \A u \in Threads : Sleeps(cb_sem, u)' => pc'[u] \in {"send", "up_cb"}
    BY <1>2, <2>2 DEF WakeInv
  <2>5. module' = "loaded" /\ Healthy' => PeerActive' \/ Awake'
    BY <1>5, <1>7, <2>3 DEF WakeInv
  <2>6. QED
    BY <1>4, <2>1, <2>4, <2>5 DEF WakeInv
<1>8. QED
  BY <1>1, <1>6, <1>7

(* up(&cb_sem), by a thread or by a callback: the unit is free, or the     *)
(* first sleeper's.                                                        *)
LEMMA WakeUp ==
    ASSUME TypeInv, WakeInv, cb_sem' = Up(cb_sem),
           \A u \in Threads : Sleeps(cb_sem, u) => pc'[u] = pc[u]
    PROVE  WakeInv'
<1>1. cb_sem \in SemaphoreOf(Threads) /\ cb_sem.count \in Nat /\ Distinct(cb_sem)
  BY DEF TypeInv, TypeOK, SemaphoreOf, WakeInv
<1>2. CASE cb_sem.sleepers = <<>>
  <2>1. cb_sem'.count > 0 /\ cb_sem'.sleepers = <<>>
    BY <1>1, <1>2 DEF Up, SemaphoreOf
  <2>2. Distinct(cb_sem)' /\ \A u \in Threads : ~Sleeps(cb_sem, u)'
    BY <2>1 DEF Distinct, Sleeps
  <2>3. QED
    BY <2>1, <2>2 DEF WakeInv
<1>3. CASE cb_sem.sleepers # <<>>
  <2> DEFINE h == Head(cb_sem.sleepers)
  <2>1. h \in Threads
    BY <1>1, <1>3 DEF SemaphoreOf
  <2>2. Sleeps(cb_sem, h)
    BY <1>1, <1>3, <2>1, SleepsAfterUp
  <2>3. \A u \in Threads : Sleeps(cb_sem, u)' <=> Sleeps(cb_sem, u) /\ u # h
    BY <1>1, <1>3, SleepsAfterUp
  <2>4. cb_sem'.count = 0
    BY <1>1, <1>3 DEF Up, SemaphoreOf, WakeInv
  <2>5. Distinct(cb_sem)'
    <3>1. Distinct(Up(cb_sem))
      BY <1>1, <2>1, DistinctPreserved
    <3>2. QED
      BY <3>1 DEF Distinct
  <2> HIDE DEF h
  <2>6. \A u \in Threads : Sleeps(cb_sem, u)' => pc'[u] \in {"send", "up_cb"}
    BY <2>3 DEF WakeInv
  <2>7. Awake'
    BY <2>1, <2>2, <2>3 DEF Awake, WakeInv
  <2>8. QED
    BY <2>4, <2>5, <2>6, <2>7 DEF WakeInv
<1>4. QED
  BY <1>2, <1>3

(* A step that leaves cb_sem alone: when the holder of the unit gives up   *)
(* its place or an active peer comes to rest, a peer is active afterwards. *)
LEMMA WakeKeep ==
    ASSUME WakeInv, cb_sem' = cb_sem,
           \A u \in Threads : Sleeps(cb_sem, u) => pc'[u] = pc[u],
           module' = "loaded" /\ Healthy' =>
               /\ module = "loaded" /\ Healthy
               /\ PeerActive => PeerActive'
               /\ \A u \in Threads : pc[u] \in {"send", "up_cb"} => pc'[u] = pc[u] \/ PeerActive'
    PROVE  WakeInv'
<1>1. \A u \in Threads : Sleeps(cb_sem, u)' <=> Sleeps(cb_sem, u)
  BY DEF Sleeps
<1>2. Distinct(cb_sem)'
  BY DEF WakeInv, Distinct
<1>3. module' = "loaded" /\ Healthy' => cb_sem'.count > 0 \/ PeerActive' \/ Awake'
  <2> SUFFICES ASSUME module' = "loaded", Healthy'
               PROVE  cb_sem'.count > 0 \/ PeerActive' \/ Awake'
    OBVIOUS
  <2>1. Awake => Awake' \/ PeerActive'
    BY <1>1 DEF Awake
  <2>2. QED
    BY <2>1 DEF WakeInv
<1>4. QED
  BY <1>1, <1>2, <1>3 DEF WakeInv

(* A fresh cb_sem: nobody sleeps, and its unit is free.                    *)
LEMMA WakeFresh ==
    ASSUME cb_sem = SemaInit(1)
    PROVE  WakeInv
<1>1. cb_sem.count = 1 /\ cb_sem.sleepers = <<>>
  BY DEF SemaInit
<1>2. Distinct(cb_sem) /\ \A t \in Threads : ~Sleeps(cb_sem, t)
  BY <1>1 DEF Distinct, Sleeps
<1>3. QED
  BY <1>1, <1>2 DEF WakeInv

(* A read request stays in a socket when another packet is queued behind   *)
(* it and when a write is taken from before it.                            *)
LEMMA ReadRequestStays ==
    ASSUME NEW s \in Seq(Packets), NEW r \in Packets
    PROVE  /\ HasReadRequest(s) => HasReadRequest(Append(s, r))
           /\ r # WriteRequest => HasReadRequest(Append(s, r))
           /\ s # <<>> /\ HasReadRequest(s) /\ Head(s) = WriteRequest => HasReadRequest(Tail(s))
<1>1. /\ Len(s) \in Nat
      /\ Len(Append(s, r)) = Len(s) + 1
      /\ Append(s, r)[Len(s) + 1] = r
      /\ \A i \in 1 .. Len(s) : Append(s, r)[i] = s[i]
  OBVIOUS
<1>2. HasReadRequest(s) => HasReadRequest(Append(s, r))
  BY <1>1 DEF HasReadRequest
<1>3. r # WriteRequest => HasReadRequest(Append(s, r))
  BY <1>1 DEF HasReadRequest
<1>4. ASSUME s # <<>>, HasReadRequest(s), Head(s) = WriteRequest PROVE HasReadRequest(Tail(s))
  <2>1. PICK i \in 1 .. Len(s) : s[i] # WriteRequest
    BY <1>4 DEF HasReadRequest
  <2>2. /\ Len(Tail(s)) = Len(s) - 1
        /\ Head(s) = s[1]
        /\ \A j \in 1 .. Len(s) - 1 : Tail(s)[j] = s[j + 1]
    BY <1>4
  <2>3. i # 1
    BY <1>4, <2>1, <2>2
  <2>4. i - 1 \in 1 .. Len(s) - 1 /\ Tail(s)[i - 1] = s[i]
    BY <1>1, <2>2, <2>3
  <2>5. QED
    BY <2>1, <2>2, <2>4 DEF HasReadRequest
<1>5. QED
  BY <1>2, <1>3, <1>4

(* A request that is sent reaches a peer that answers, unless none has     *)
(* room.                                                                   *)
LEMMA SendReaches ==
    ASSUME TypeInv, RouteInv, NEW t \in Threads, ReadSend(t), Healthy'
    PROVE  PeerActive'
<1>1. faults' = 0 /\ answering' = answering /\ ~overrun'
  BY DEF Healthy, ReadSend
<1>2. Multicast(request[t]) /\ \E p \in answering : HasRoom(p)
  BY <1>1, FaultSticks DEF ReadSend
<1>3. PICK p \in answering : p \in Peers /\ HasRoom(p)
  BY <1>2 DEF TypeInv, TypeOK
<1>4. request[t] \in Packets /\ request[t] # WriteRequest
  BY FileAssumption DEF ReadSend, RouteInv, Reading, Packets
<1>5. inbox[p] \in Seq(Packets)
  BY <1>3 DEF TypeInv, TypeOK, Packets
<1>6. inbox'[p] = Append(inbox[p], request[t])
  BY <1>2, <1>3 DEF Multicast
<1>7. HasReadRequest(inbox'[p])
  BY <1>4, <1>5, <1>6, ReadRequestStays
<1>8. QED
  BY <1>1, <1>3, <1>7 DEF PeerActive, Answers

(* A request that an answering peer takes is a write, or leads it into the *)
(* callback.                                                               *)
LEMMA RecvStaysActive ==
    ASSUME TypeInv, RouteInv, NEW p \in Peers, Recv(p), module' = "loaded", PeerActive
    PROVE  PeerActive'
<1>1. /\ answering' = answering /\ module = "loaded" /\ callback /\ answering \subseteq Peers
      /\ cb_pc[p] = "idle" /\ inbox[p] # <<>> /\ inbox'[p] = Tail(inbox[p])
      /\ \A q \in Peers : q # p => inbox'[q] = inbox[q]
      /\ inbox[p] \in Seq(Packets)
  BY DEF Recv, moduleVars, RouteInv, TypeInv, TypeOK, Packets
<1>2. PICK q \in answering : Answers(q)
  BY DEF PeerActive
<1>3. CASE q # p
  <2>1. cb_pc'[q] = cb_pc[q] /\ inbox'[q] = inbox[q]
    BY <1>1, <1>3 DEF Recv, GotoCb, TypeInv, TypeOK
  <2>2. QED
    BY <1>1, <1>2, <2>1 DEF PeerActive, Answers
<1>4. CASE q = p /\ Head(inbox[p]) # WriteRequest
  <2>1. cb_pc'[p] = "trylock"
    BY <1>1, <1>2, <1>4 DEF Recv, GotoCb, TypeInv, TypeOK
  <2>2. QED
    BY <1>1, <1>2, <1>4, <2>1 DEF PeerActive, Answers
<1>5. CASE q = p /\ Head(inbox[p]) = WriteRequest
  <2>1. HasReadRequest(inbox[p])
    BY <1>1, <1>2, <1>5 DEF Answers
  <2>2. HasReadRequest(inbox'[p])
    BY <1>1, <1>5, <2>1, ReadRequestStays DEF Packets
  <2>3. QED
    BY <1>1, <1>2, <1>5, <2>2 DEF PeerActive, Answers
<1>6. QED
  BY <1>3, <1>4, <1>5

LEMMA NextWakeInv == TypeInv /\ CnInv /\ RouteInv /\ WakeInv /\ [Next]_vars => WakeInv'
<1> SUFFICES ASSUME TypeInv, CnInv, RouteInv, WakeInv, [Next]_vars PROVE WakeInv'
  OBVIOUS
<1> USE DEF Goto
<1>a. \A t \in Threads : pc[t] \notin {"send", "up_cb"} => ~Sleeps(cb_sem, t)
  BY DEF WakeInv
<1>1. ASSUME InitModule PROVE WakeInv'
  <2>1. cb_sem'.count = 1 /\ cb_sem'.sleepers = <<>>
    BY <1>1 DEF InitModule, SemaInit
  <2>2. Distinct(cb_sem)' /\ \A t \in Threads : ~Sleeps(cb_sem, t)'
    BY <2>1 DEF Distinct, Sleeps
  <2>3. QED
    BY <2>1, <2>2 DEF WakeInv
<1>2. ASSUME ExitModule PROVE WakeInv'
  <2>1. module' # "loaded" /\ pc' = pc /\ cb_sem' = cb_sem
    BY <1>2 DEF ExitModule, threadVars
  <2>2. QED
    BY <2>1, WakeKeep
<1>3. ASSUME NEW t \in Threads, NEW l, pc' = [pc EXCEPT ![t] = l],
             pc[t] \notin {"send", "up_cb"}, cb_sem' = cb_sem,
             UNCHANGED <<module, answering, cb_pc>>,
             faults' = 0 => faults = 0, overrun' = overrun,
             \A p \in answering : HasReadRequest(inbox[p]) => HasReadRequest(inbox'[p])
      PROVE  WakeInv'
  <2>1. \A u \in Threads : u # t => pc'[u] = pc[u]
    BY <1>3 DEF TypeInv, TypeOK
  <2>2. Healthy' => Healthy
    BY <1>3 DEF Healthy
  <2>3. PeerActive => PeerActive'
    BY <1>3 DEF PeerActive, Answers
  <2>4. QED
    BY <1>3, <1>a, <2>1, <2>2, <2>3, WakeKeep
<1>4. ASSUME NEW t \in Threads, NEW r, NEW l, Enter(t, r, l) PROVE WakeInv'
  BY <1>3, <1>4 DEF Enter, moduleVars, peerVars
<1>5. ASSUME NEW t \in Threads, ReadCopy(t) \/ Return(t) PROVE WakeInv'
  BY <1>3, <1>5 DEF ReadCopy, Return, moduleVars, peerVars
<1>6. ASSUME NEW t \in Threads, WriteSend(t) PROVE WakeInv'
  <2>1. faults' = 0 => faults = 0
    BY <1>6, FaultSticks DEF WriteSend
  <2>2. ASSUME NEW p \in answering, HasReadRequest(inbox[p]) PROVE HasReadRequest(inbox'[p])
    <3>1. /\ p \in Peers /\ inbox[p] \in Seq(Packets)
          /\ request[t] \in Packets
      BY <1>6 DEF TypeInv, TypeOK, Packets, WriteSend
    <3>2. inbox'[p] \in {inbox[p], Append(inbox[p], request[t])}
      BY <1>6, <3>1 DEF WriteSend, Multicast
    <3>3. QED
      BY <2>2, <3>1, <3>2, ReadRequestStays
  <2>3. QED
    BY <1>3, <1>6, <2>1, <2>2 DEF WriteSend, moduleVars
<1>7. ASSUME NEW t \in Threads, ReadDownCb(t) \/ ReadAwaitCb(t) PROVE WakeInv'
  BY <1>7, WakeDown DEF ReadDownCb, ReadAwaitCb, moduleVars, peerVars
<1>8. ASSUME NEW t \in Threads, ReadSend(t) PROVE WakeInv'
  <2>1. \A u \in Threads : u # t => pc'[u] = pc[u]
    BY <1>8 DEF ReadSend, TypeInv, TypeOK
  <2>2. ~Sleeps(cb_sem, t) /\ cb_sem' = cb_sem /\ module' = module
    BY <1>8 DEF ReadSend, moduleVars
  <2>3. Healthy' => PeerActive'
    BY <1>8, SendReaches
  <2>4. Healthy' => Healthy
    BY <1>8, FaultSticks DEF ReadSend, Healthy
  <2>5. QED
    BY <2>1, <2>2, <2>3, <2>4, WakeKeep
<1>9. ASSUME NEW t \in Threads, ReadUpCb(t) PROVE WakeInv'
  <2>1. \A u \in Threads : u # t => pc'[u] = pc[u]
    BY <1>9 DEF ReadUpCb, TypeInv, TypeOK
  <2>2. QED
    BY <1>9, <2>1, WakeUp DEF ReadUpCb
<1>10. ASSUME NEW p \in Peers, CallbackUp(p) PROVE WakeInv'
  BY <1>10, WakeUp DEF CallbackUp, threadVars
<1>b. ASSUME NEW p \in Peers, NEW l, cb_pc' = [cb_pc EXCEPT ![p] = l], cb_pc[p] # "oops",
             answering' = answering, faults' = 0 => faults = 0, overrun' = overrun
      PROVE  Healthy' => Healthy
  <2>1. \A q \in Peers : q # p => cb_pc'[q] = cb_pc[q]
    BY <1>b DEF TypeInv, TypeOK
  <2>2. QED
    BY <1>b, <2>1 DEF Healthy
<1>11. ASSUME NEW p \in Peers, Recv(p) PROVE WakeInv'
  <2>1. pc' = pc /\ cb_sem' = cb_sem /\ module' = module
    BY <1>11 DEF Recv, threadVars, moduleVars
  <2>2. Healthy' => Healthy
    <3>1. CASE cb_pc' = cb_pc
      BY <1>11, <3>1 DEF Recv, Healthy
    <3>2. CASE cb_pc' # cb_pc
      BY <1>11, <1>b, <3>2 DEF Recv, GotoCb
    <3>3. QED
      BY <3>1, <3>2
  <2>3. module' = "loaded" /\ PeerActive => PeerActive'
    BY <1>11, RecvStaysActive
  <2>4. QED
    BY <2>1, <2>2, <2>3, WakeKeep
<1>12. ASSUME NEW p \in Peers, RecvFails(p) PROVE WakeInv'
  <2>1. pc' = pc /\ cb_sem' = cb_sem /\ ~Healthy'
    BY <1>12, FaultSticks DEF RecvFails, threadVars, Healthy
  <2>2. QED
    BY <2>1, WakeKeep
<1>13. ASSUME NEW p \in Peers, CallbackAlloc(p) \/ CallbackCopy(p) PROVE WakeInv'
  <2>1. pc' = pc /\ cb_sem' = cb_sem /\ module' = module /\ answering' = answering /\ overrun' = overrun
    BY <1>13 DEF CallbackAlloc, CallbackCopy, threadVars, moduleVars
  <2>2. PICK l \in {"copy", "signal"} : cb_pc' = [cb_pc EXCEPT ![p] = l]
    BY <1>13 DEF CallbackAlloc, CallbackCopy, GotoCb
  <2>3. p \in answering /\ cb_pc[p] # "oops"
    BY <1>13 DEF CallbackAlloc, CallbackCopy, RouteInv
  <2>4. PeerActive'
    BY <2>1, <2>2, <2>3 DEF PeerActive, Answers, TypeInv, TypeOK
  <2>5. faults' = 0 => faults = 0
    BY <1>13, FaultSticks DEF CallbackAlloc, CallbackCopy
  <2>6. Healthy' => Healthy
    BY <1>b, <2>1, <2>2, <2>3, <2>5
  <2>7. QED
    BY <2>1, <2>4, <2>6, WakeKeep
<1>14. ASSUME NEW p \in Peers, CallbackTrylock(p) PROVE WakeInv'
  <2>1. pc' = pc /\ module' = module /\ UNCHANGED <<answering, faults, overrun>>
    BY <1>14 DEF CallbackTrylock, threadVars, moduleVars
  <2>2. PICK l \in {"ignore", "alloc"} : cb_pc' = [cb_pc EXCEPT ![p] = l]
    BY <1>14 DEF CallbackTrylock, GotoCb
  <2>3. p \in answering /\ cb_pc[p] # "oops"
    BY <1>14 DEF CallbackTrylock, RouteInv
  <2>4. PeerActive'
    BY <2>1, <2>2, <2>3 DEF PeerActive, Answers, TypeInv, TypeOK
  <2>5. Healthy' => Healthy
    BY <1>b, <2>1, <2>2, <2>3
  <2>6. CASE cb_sem' = cb_sem
    BY <2>1, <2>4, <2>5, <2>6, WakeKeep
  <2>7. CASE Free(cb_sem) /\ cb_sem' = Take(cb_sem)
    <3>1. cb_sem \in SemaphoreOf(Threads)
      BY DEF TypeInv, TypeOK
    <3>2. cb_sem'.sleepers = cb_sem.sleepers /\ cb_sem.sleepers = <<>>
      BY <2>7, <3>1 DEF Free, Take, SemaphoreOf, WakeInv
    <3>3. Distinct(cb_sem)' /\ \A t \in Threads : ~Sleeps(cb_sem, t)'
      BY <3>2 DEF Distinct, Sleeps
    <3>4. QED
      BY <2>4, <3>2, <3>3 DEF WakeInv
  <2>8. QED
    BY <1>14, <2>6, <2>7 DEF CallbackTrylock
<1>15. ASSUME NEW p \in Peers, CallbackReturn(p) PROVE WakeInv'
  <2>1. UNCHANGED <<cb_sem, pc, inbox, module, answering, faults, overrun>> /\ cb_pc[p] = "return"
    BY <1>15 DEF CallbackReturn, threadVars, moduleVars
  <2>2. cb_pc'[p] = "idle" /\ \A q \in Peers : q # p => cb_pc'[q] = cb_pc[q]
    BY <1>15 DEF CallbackReturn, GotoCb, TypeInv, TypeOK
  <2>3. PeerActive => PeerActive'
    BY <2>1, <2>2 DEF PeerActive, Answers, TypeInv, TypeOK
  <2>4. Healthy' => Healthy
    BY <2>1, <2>2 DEF Healthy
  <2>5. QED
    BY <2>1, <2>3, <2>4, WakeKeep
<1>16. CASE UNCHANGED vars
  <2>1. UNCHANGED <<cb_sem, pc, inbox, cb_pc, answering, module, faults, overrun>>
    BY <1>16 DEF vars, threadVars, moduleVars, peerVars
  <2>2. (PeerActive => PeerActive') /\ (Healthy' => Healthy)
    BY <2>1 DEF PeerActive, Answers, Healthy
  <2>3. QED
    BY <2>1, <2>2, WakeKeep
<1>17. QED
  BY <1>1, <1>2, <1>4, <1>5, <1>6, <1>7, <1>8, <1>9, <1>10, <1>11, <1>12, <1>13, <1>14,
     <1>15, <1>16 DEF Next, ThreadStep, PeerStep, Read, Write

(* No reader of backup plan a is left asleep on cb_sem with nobody to wake *)
(* it, however many processes answer and however often the module is       *)
(* loaded, as long as one process answers, nothing has failed and no       *)
(* request found every socket full: the requests that are sent are enough. *)
THEOREM NobodyStranded == Spec => []NoStrandedReader
<1> DEFINE Inv == TypeInv /\ CnInv /\ RouteInv /\ WakeInv
<1>1. Init => Inv
  BY InitType, CnFresh, InitRoute, WakeFresh DEF Init
<1>2. Inv /\ [Next]_vars => Inv'
  BY NextType, NextCnInv, NextRoute, NextWakeInv
<1>3. Inv => NoStrandedReader
  <2> SUFFICES ASSUME CnInv, WakeInv, Healthy, NEW t \in Threads, Sleeps(cb_sem, t)
               PROVE  PeerActive \/ Awake
    BY DEF NoStrandedReader, PeerActive, Awake
  <2>1. cb_sem.sleepers # <<>>
    BY DEF Sleeps
  <2>2. module = "loaded"
    BY DEF WakeInv, CnInv
  <2>3. QED
    BY <2>1, <2>2 DEF WakeInv
<1>4. QED
  BY <1>1, <1>2, <1>3, PTL DEF Spec

-----------------------------------------------------------------------------
(***************************************************************************)
(* The exchange of one request and one answer, when one process answers.   *)
(* The state of cb_sem, of that process and of the buffer is determined by *)
(* how far the thread inside has come.  Write requests, which nobody       *)
(* answers, may stand in the socket all the same.                          *)
(***************************************************************************)

Alone == \A p, q \in answering : p = q

OnlyWrites(s) == \A i \in 1 .. Len(s) : s[i] = WriteRequest

(* Beside writes, the sequence s holds r at most once.                     *)
AtMostOne(s, r) ==
    /\ \A i \in 1 .. Len(s) : s[i] \in {WriteRequest, r}
    /\ \A i, j \in 1 .. Len(s) : s[i] = r /\ s[j] = r => i = j

Fresh(r) == [bytes |-> Bytes[r], data |-> None]
Own(r) == [bytes |-> Bytes[r], data |-> r]

(* Outside the callback, or with only its return before it.                *)
Resting(p) == cb_pc[p] \in {"idle", "return"} \cup Ended
PeersQuiet == \A p \in answering : Resting(p) /\ OnlyWrites(inbox[p])

(* The answer to t's request is still to come, unless it was not sent.     *)
Pending(t) ==
    \A p \in answering :
        \/ Resting(p) /\ AtMostOne(inbox[p], request[t])
        \/ /\ cb_pc[p] \in {"trylock", "alloc", "copy", "signal"}
           /\ OnlyWrites(inbox[p])
           /\ cb_msg[p] = request[t]
           /\ cb_pc[p] = "copy" => sjfs_read_buffer \in {NULL, Fresh(request[t])}
           /\ cb_pc[p] = "signal" => sjfs_read_buffer \in {NULL, Own(request[t])}

(* t's answer is in the buffer, or there was no memory for it.             *)
Answered(t) == PeersQuiet /\ sjfs_read_buffer \in {NULL, Own(request[t])}

CbFree == PeersQuiet /\ cb_sem.count = 1 /\ cb_sem.sleepers = <<>>

Waiting(t) ==
    /\ Pending(t)
    /\ cb_sem.count = 0
    /\ \/ pc[t] = "await_cb" /\ cb_sem.sleepers = <<>>
       \/ pc[t] = "up_cb" /\ cb_sem.sleepers = <<t>>

Phase(t) ==
    /\ pc[t] = "send" => PeersQuiet /\ cb_sem.count = 0 /\ cb_sem.sleepers = <<>>
    /\ pc[t] = "await_cb" =>
          \/ Waiting(t)
          \/ cb_sem.count = 1 /\ cb_sem.sleepers = <<>> /\ Answered(t)
    /\ pc[t] = "up_cb" =>
          \/ Waiting(t)
          \/ cb_sem.count = 0 /\ cb_sem.sleepers = <<>> /\ Answered(t)
    /\ pc[t] = "copy" => Answered(t)
    /\ pc[t] = "up_cn" /\ request[t] # WriteRequest => got[t] \in {NULL, Own(request[t])}

Exchange == {"send", "await_cb", "up_cb"}
Inside == Exchange \cup {"copy", "up_cn"}

CbInv ==
    /\ (\A t \in Threads : pc[t] \notin Exchange) => CbFree
    /\ \A t \in Threads : Phase(t)

(* What the sockets hold after a message is queued or taken.               *)
LEMMA SocketFacts ==
    ASSUME NEW s \in Seq(Packets), NEW r \in Requests
    PROVE  /\ OnlyWrites(s) => AtMostOne(s, r) /\ AtMostOne(Append(s, r), r)
           /\ s # <<>> /\ AtMostOne(s, r) =>
                /\ Head(s) \in {WriteRequest, r}
                /\ AtMostOne(Tail(s), r)
                /\ Head(s) = r => OnlyWrites(Tail(s))
<1>1. r # WriteRequest
  BY FileAssumption
<1>2. ASSUME NEW x
      PROVE  /\ Len(Append(s, x)) = Len(s) + 1
             /\ Append(s, x)[Len(s) + 1] = x
             /\ \A i \in 1 .. Len(s) : Append(s, x)[i] = s[i]
             /\ Len(s) \in Nat
  OBVIOUS
<1>3. OnlyWrites(s) => AtMostOne(s, r)
  BY <1>1 DEF OnlyWrites, AtMostOne
<1>4. ASSUME OnlyWrites(s) PROVE AtMostOne(Append(s, r), r)
  BY <1>1, <1>2, <1>4 DEF OnlyWrites, AtMostOne
<1>5. ASSUME s # <<>>, AtMostOne(s, r)
      PROVE  /\ Head(s) \in {WriteRequest, r}
             /\ AtMostOne(Tail(s), r)
             /\ Head(s) = r => OnlyWrites(Tail(s))
  <2>1. /\ Len(s) \in Nat \ {0}
        /\ Len(Tail(s)) = Len(s) - 1
        /\ Head(s) = s[1]
        /\ \A i \in 1 .. Len(s) - 1 : Tail(s)[i] = s[i + 1]
    BY <1>5
  <2>2. /\ 1 \in 1 .. Len(s)
        /\ \A i \in 1 .. Len(s) - 1 : i + 1 \in 1 .. Len(s) /\ i + 1 # 1
    BY <2>1
  <2>3. Head(s) \in {WriteRequest, r} /\ AtMostOne(Tail(s), r)
    BY <1>5, <2>1, <2>2 DEF AtMostOne
  <2>4. ASSUME Head(s) = r PROVE OnlyWrites(Tail(s))
    BY <1>5, <2>1, <2>2, <2>4 DEF AtMostOne, OnlyWrites
  <2>5. QED
    BY <2>3, <2>4
<1>6. QED
  BY <1>3, <1>4, <1>5

(* A write that is queued behind writes.                                   *)
LEMMA WritesAppend ==
    ASSUME NEW s \in Seq(Packets), OnlyWrites(s)
    PROVE  OnlyWrites(Append(s, WriteRequest))
<1>1. /\ Len(Append(s, WriteRequest)) = Len(s) + 1
      /\ Append(s, WriteRequest)[Len(s) + 1] = WriteRequest
      /\ \A i \in 1 .. Len(s) : Append(s, WriteRequest)[i] = s[i]
      /\ Len(s) \in Nat
  OBVIOUS
<1>2. QED
  BY <1>1 DEF OnlyWrites

LEMMA WritesTail ==
    ASSUME NEW s \in Seq(Packets), OnlyWrites(s), s # <<>>
    PROVE  OnlyWrites(Tail(s)) /\ Head(s) = WriteRequest
<1>1. /\ Len(s) \in Nat \ {0}
      /\ Len(Tail(s)) = Len(s) - 1
      /\ Head(s) = s[1]
      /\ \A i \in 1 .. Len(s) - 1 : Tail(s)[i] = s[i + 1]
  OBVIOUS
<1>2. /\ 1 \in 1 .. Len(s)
      /\ \A i \in 1 .. Len(s) - 1 : i + 1 \in 1 .. Len(s)
  BY <1>1
<1>3. QED
  BY <1>1, <1>2 DEF OnlyWrites

(* The other threads are outside while t is inside.                        *)
LEMMA OthersOutside ==
    ASSUME CnInv, NEW t \in Threads, HoldsCn(t)
    PROVE  \A u \in Threads : u # t => pc[u] \notin Inside
BY DEF CnInv, MutualExclusion, HoldsCn, Inside, Exchange

(* A step outside the exchange, or out of it, disturbs no exchange.        *)
LEMMA CbKeep ==
    ASSUME CbInv,
           UNCHANGED <<cb_sem, sjfs_read_buffer, answering>>,
           \A p \in answering : inbox'[p] = inbox[p] /\ cb_pc'[p] = cb_pc[p] /\ cb_msg'[p] = cb_msg[p],
           \A u \in Threads : pc'[u] \in Inside =>
               pc'[u] = pc[u] /\ request'[u] = request[u] /\ got'[u] = got[u],
           \A u \in Threads : pc[u] \in Exchange => pc'[u] = pc[u]
    PROVE  CbInv'
<1>1. PeersQuiet' <=> PeersQuiet
  BY DEF PeersQuiet, Resting
<1>2. (\A t \in Threads : pc'[t] \notin Exchange) => CbFree'
  BY <1>1 DEF CbInv, CbFree
<1>3. ASSUME NEW t \in Threads PROVE Phase(t)'
  <2>1. CASE pc'[t] \in Inside
    <3>1. pc'[t] = pc[t] /\ request'[t] = request[t] /\ got'[t] = got[t] /\ Phase(t)
      BY <2>1 DEF CbInv
    <3>2. Answered(t)' <=> Answered(t)
      BY <1>1, <3>1 DEF Answered
    <3>3. Pending(t)' <=> Pending(t)
      BY <3>1 DEF Pending, Resting
    <3>4. Waiting(t)' <=> Waiting(t)
      BY <3>1, <3>3 DEF Waiting
    <3>5. QED
      BY <1>1, <3>1, <3>2, <3>4 DEF Phase
  <2>2. CASE pc'[t] \notin Inside
    BY <2>2 DEF Phase, Inside, Exchange
  <2>3. QED
    BY <2>1, <2>2
<1>4. QED
  BY <1>2, <1>3 DEF CbInv

(* For a step of the thread inside, its own new phase is all there is to   *)
(* show.                                                                   *)
LEMMA CbInside ==
    ASSUME TypeInv, CnInv, CbInv, NEW t \in Threads, NEW l \in Inside, HoldsCn(t),
           pc' = [pc EXCEPT ![t] = l],
           l \notin Exchange => CbFree',
           Phase(t)'
    PROVE  CbInv'
<1>1. /\ pc'[t] = l
      /\ \A u \in Threads : u # t => pc'[u] = pc[u]
  BY DEF TypeInv, TypeOK
<1>2. \A u \in Threads : u # t => pc'[u] \notin Inside
  BY <1>1, OthersOutside
<1>3. \A u \in Threads : Phase(u)'
  BY <1>2 DEF Phase, Inside, Exchange
<1>4. (\A u \in Threads : pc'[u] \notin Exchange) => CbFree'
  BY <1>1
<1>5. QED
  BY <1>3, <1>4 DEF CbInv

(* For a step of a peer, it is enough that it keeps a quiet state and that *)
(* it serves the thread that waits.                                        *)
LEMMA CbPeer ==
    ASSUME CbInv, UNCHANGED <<pc, request, got>>,
           PeersQuiet => PeersQuiet' /\ UNCHANGED <<cb_sem, sjfs_read_buffer>>,
           \A t \in Threads : Waiting(t) => Phase(t)'
    PROVE  CbInv'
<1>1. (\A t \in Threads : pc'[t] \notin Exchange) => CbFree'
  BY DEF CbInv, CbFree
<1>2. ASSUME NEW t \in Threads PROVE Phase(t)'
  <2>1. CASE Waiting(t)
    BY <2>1
  <2>2. CASE ~Waiting(t)
    <3>1. Phase(t)
      BY DEF CbInv
    <3>2. pc[t] \in Exchange \cup {"copy"} => PeersQuiet
      BY <2>2, <3>1 DEF Phase, Answered, Exchange
    <3>3. Answered(t) => Answered(t)'
      BY DEF Answered
    <3>4. QED
      BY <2>2, <3>1, <3>2, <3>3 DEF Phase, Exchange
  <2>3. QED
    BY <2>1, <2>2
<1>3. QED
  BY <1>1, <1>2 DEF CbInv

(* The request of a thread that waits is a read.                           *)
LEMMA WaitingRequest ==
    ASSUME RouteInv, NEW t \in Threads, Waiting(t)
    PROVE  request[t] \in Requests /\ request[t] # WriteRequest
BY FileAssumption DEF RouteInv, Waiting, Reading

LEMMA InitCbInv == Init => CbInv
<1> SUFFICES ASSUME Init PROVE CbInv
  OBVIOUS
<1>1. PeersQuiet
  BY DEF Init, PeersQuiet, Resting, Ended, OnlyWrites
<1>2. CbFree
  BY <1>1 DEF Init, SemaInit, CbFree
<1>3. \A t \in Threads : Phase(t)
  BY DEF Init, Phase
<1>4. QED
  BY <1>2, <1>3 DEF CbInv

(* The steps of the threads and of the module.                             *)
LEMMA ThreadCbInv ==
    ASSUME TypeInv, CnInv, RouteInv, CbInv,
           InitModule \/ ExitModule
           \/ \E t \in Threads : (\E r \in Requests : Read(t, r)) \/ Write(t) \/ ThreadStep(t)
    PROVE  CbInv'
<1> USE DEF Goto
<1>a. \A t \in Threads : Phase(t)
  BY DEF CbInv
<1>b. answering \subseteq Peers
  BY DEF TypeInv, TypeOK
<1>1. ASSUME InitModule PROVE CbInv'
  <2>1. \A t \in Threads : pc[t] = "idle" /\ pc'[t] = "idle"
    BY <1>1 DEF InitModule, CnInv, threadVars
  <2>2. PeersQuiet'
    BY <1>1, <2>1 DEF InitModule, CbInv, CbFree, Exchange, PeersQuiet, Resting, peerVars
  <2>3. CbFree'
    BY <1>1, <2>2 DEF InitModule, SemaInit, CbFree
  <2>4. \A t \in Threads : Phase(t)'
    BY <2>1 DEF Phase
  <2>5. QED
    BY <2>3, <2>4 DEF CbInv
<1>2. ASSUME ExitModule PROVE CbInv'
  <2>1. \A t \in Threads : pc[t] = "idle" /\ pc'[t] = "idle"
    BY <1>2 DEF ExitModule, threadVars
  <2>2. CbFree
    BY <2>1 DEF CbInv, Exchange
  <2>3. CbFree'
    BY <1>2, <1>b, <2>2 DEF ExitModule, CbFree, PeersQuiet, Resting, Ended
  <2>4. QED
    BY <2>1, <2>3 DEF CbInv, Phase
<1>3. ASSUME NEW t \in Threads, NEW r, NEW l \in {"down_cb", "write"}, Enter(t, r, l) PROVE CbInv'
  <2>1. pc'[t] = l /\ \A u \in Threads : u # t => pc'[u] = pc[u] /\ request'[u] = request[u]
    BY <1>3 DEF Enter, TypeInv, TypeOK
  <2>2. pc[t] = "idle" /\ got' = got
    BY <1>3 DEF Enter
  <2>3. QED
    BY <1>3, <2>1, <2>2, CbKeep DEF Enter, peerVars, Inside, Exchange
<1>4. ASSUME NEW t \in Threads, ReadDownCb(t) PROVE CbInv'
  <2>1. HoldsCn(t) /\ pc[t] = "down_cb"
    BY <1>4 DEF ReadDownCb, HoldsCn
  <2>2. CbFree
    BY <2>1, OthersOutside DEF Inside, Exchange, CbInv
  <2>3. cb_sem'.count = 0 /\ cb_sem'.sleepers = <<>>
    BY <1>4, <2>2 DEF ReadDownCb, CbFree, Down, TypeInv, TypeOK, SemaphoreOf
  <2>4. pc'[t] = "send"
    BY <1>4 DEF ReadDownCb, TypeInv, TypeOK
  <2>5. PeersQuiet'
    BY <1>4, <2>2 DEF ReadDownCb, CbFree, PeersQuiet, Resting, peerVars
  <2>6. Phase(t)'
    BY <2>3, <2>4, <2>5 DEF Phase
  <2>7. QED
    BY <1>4, <2>1, <2>6, CbInside DEF ReadDownCb, Inside, Exchange
<1>5. ASSUME NEW t \in Threads, ReadSend(t) PROVE CbInv'
  <2>1. HoldsCn(t) /\ pc[t] = "send"
    BY <1>5 DEF ReadSend, HoldsCn, CnInv
  <2>2. PeersQuiet /\ cb_sem.count = 0 /\ cb_sem.sleepers = <<>>
    BY <1>a, <2>1 DEF Phase
  <2>3. request[t] \in Requests
    BY <2>1 DEF RouteInv, Reading
  <2>4. ASSUME NEW p \in answering PROVE AtMostOne(inbox'[p], request[t])
    <3>1. inbox[p] \in Seq(Packets) /\ OnlyWrites(inbox[p])
      BY <1>b, <2>2 DEF TypeInv, TypeOK, Packets, PeersQuiet
    <3>2. inbox'[p] \in {inbox[p], Append(inbox[p], request[t])}
      BY <1>5, <1>b DEF ReadSend, Multicast
    <3>3. QED
      BY <2>3, <3>1, <3>2, SocketFacts
  <2>5. Pending(t)'
    BY <1>5, <2>2, <2>4 DEF ReadSend, Pending, PeersQuiet, Resting
  <2>6. pc'[t] = "await_cb"
    BY <1>5 DEF ReadSend, TypeInv, TypeOK
  <2>7. Waiting(t)'
    BY <1>5, <2>2, <2>5, <2>6 DEF ReadSend, Waiting
  <2>8. Phase(t)'
    BY <2>6, <2>7 DEF Phase
  <2>9. QED
    BY <1>5, <2>1, <2>8, CbInside DEF ReadSend, Inside, Exchange
<1>6. ASSUME NEW t \in Threads, ReadAwaitCb(t) PROVE CbInv'
  <2>1. HoldsCn(t) /\ pc[t] = "await_cb"
    BY <1>6 DEF ReadAwaitCb, HoldsCn, CnInv
  <2>2. cb_sem \in SemaphoreOf(Threads)
    BY DEF TypeInv, TypeOK
  <2>3. pc'[t] = "up_cb"
    BY <1>6 DEF ReadAwaitCb, TypeInv, TypeOK
  <2>4. ASSUME Waiting(t) PROVE Phase(t)'
    <3>1. cb_sem.count = 0 /\ cb_sem.sleepers = <<>>
      BY <2>1, <2>4 DEF Waiting
    <3>2. cb_sem' = Down(cb_sem, t) /\ Append(<<>>, t) = <<t>>
      BY <1>6 DEF ReadAwaitCb
    <3>3. cb_sem'.count = 0 /\ cb_sem'.sleepers = <<t>>
      BY <2>2, <3>1, <3>2 DEF Down, SemaphoreOf
    <3>4. Pending(t)'
      BY <1>6, <2>4 DEF ReadAwaitCb, Pending, Waiting, Resting, peerVars
    <3>5. QED
      BY <2>3, <3>3, <3>4 DEF Phase, Waiting
  <2>5. ASSUME cb_sem.count = 1, cb_sem.sleepers = <<>>, Answered(t) PROVE Phase(t)'
    <3>1. cb_sem'.count = 0 /\ cb_sem'.sleepers = <<>>
      BY <1>6, <2>2, <2>5 DEF ReadAwaitCb, Down, SemaphoreOf
    <3>2. Answered(t)'
      BY <1>6, <2>5 DEF ReadAwaitCb, Answered, PeersQuiet, Resting, peerVars
    <3>3. QED
      BY <2>3, <3>1, <3>2 DEF Phase
  <2>6. Phase(t)'
    BY <1>a, <2>1, <2>4, <2>5 DEF Phase
  <2>7. QED
    BY <1>6, <2>1, <2>6, CbInside DEF ReadAwaitCb, Inside, Exchange
<1>7. ASSUME NEW t \in Threads, ReadUpCb(t) PROVE CbInv'
  <2>1. HoldsCn(t) /\ pc[t] = "up_cb"
    BY <1>7 DEF ReadUpCb, HoldsCn, CnInv
  <2>2. cb_sem.sleepers # <<t>>
    <3>1. Len(<<t>>) = 1 /\ <<t>>[1] = t
      OBVIOUS
    <3>2. cb_sem.sleepers = <<t>> => Sleeps(cb_sem, t)
      BY <3>1 DEF Sleeps
    <3>3. QED
      BY <1>7, <3>2 DEF ReadUpCb
  <2>3. cb_sem.count = 0 /\ cb_sem.sleepers = <<>> /\ Answered(t)
    BY <1>a, <2>1, <2>2 DEF Phase, Waiting
  <2>4. cb_sem'.count = 1 /\ cb_sem'.sleepers = <<>>
    BY <1>7, <2>3 DEF ReadUpCb, Up, TypeInv, TypeOK, SemaphoreOf
  <2>5. Answered(t)' /\ PeersQuiet'
    BY <1>7, <2>3 DEF ReadUpCb, Answered, PeersQuiet, Resting, peerVars
  <2>6. pc'[t] = "copy"
    BY <1>7 DEF ReadUpCb, TypeInv, TypeOK
  <2>7. Phase(t)' /\ CbFree'
    BY <2>4, <2>5, <2>6 DEF Phase, CbFree
  <2>8. QED
    BY <1>7, <2>1, <2>7, CbInside DEF ReadUpCb, Inside, Exchange
<1>8. ASSUME NEW t \in Threads, ReadCopy(t) PROVE CbInv'
  <2>1. HoldsCn(t) /\ pc[t] = "copy"
    BY <1>8 DEF ReadCopy, HoldsCn, CnInv
  <2>2. CbFree
    BY <2>1, OthersOutside DEF Inside, Exchange, CbInv
  <2>3. CbFree'
    BY <1>8, <2>2 DEF ReadCopy, CbFree, PeersQuiet, Resting, peerVars
  <2>4. got'[t] = sjfs_read_buffer /\ pc'[t] = "up_cn" /\ request' = request
    BY <1>8 DEF ReadCopy, TypeInv, TypeOK
  <2>5. Phase(t)'
    BY <1>a, <2>1, <2>4 DEF Phase, Answered
  <2>6. QED
    BY <1>8, <2>1, <2>3, <2>5, CbInside DEF ReadCopy, Inside, Exchange
<1>9. ASSUME NEW t \in Threads, WriteSend(t) PROVE CbInv'
  <2>1. HoldsCn(t) /\ pc[t] = "write" /\ request[t] = WriteRequest
    BY <1>9 DEF WriteSend, HoldsCn, RouteInv
  <2>2. CbFree
    BY <2>1, OthersOutside DEF Inside, Exchange, CbInv
  <2>3. ASSUME NEW p \in answering PROVE OnlyWrites(inbox'[p])
    <3>1. inbox[p] \in Seq(Packets) /\ OnlyWrites(inbox[p])
      BY <1>b, <2>2 DEF TypeInv, TypeOK, Packets, CbFree, PeersQuiet
    <3>2. inbox'[p] \in {inbox[p], Append(inbox[p], WriteRequest)}
      BY <1>9, <1>b, <2>1 DEF WriteSend, Multicast
    <3>3. OnlyWrites(Append(inbox[p], WriteRequest))
      BY <3>1, WritesAppend
    <3>4. QED
      BY <3>1, <3>2, <3>3
  <2>4. CbFree'
    BY <1>9, <2>2, <2>3 DEF WriteSend, CbFree, PeersQuiet, Resting
  <2>5. pc'[t] = "up_cn" /\ request'[t] = WriteRequest
    BY <1>9, <2>1 DEF WriteSend, TypeInv, TypeOK
  <2>6. Phase(t)'
    BY <2>5 DEF Phase
  <2>7. QED
    BY <1>9, <2>1, <2>4, <2>6, CbInside DEF WriteSend, Inside, Exchange
<1>10. ASSUME NEW t \in Threads, Return(t) PROVE CbInv'
  <2>1. /\ pc'[t] = "idle" /\ pc[t] = "up_cn"
        /\ \A u \in Threads : u # t =>
              pc'[u] = pc[u] /\ request'[u] = request[u] /\ got'[u] = got[u]
    BY <1>10 DEF Return, TypeInv, TypeOK
  <2>2. QED
    BY <1>10, <2>1, CbKeep DEF Return, peerVars, Inside, Exchange
<1>11. QED
  BY <1>1, <1>2, <1>3, <1>4, <1>5, <1>6, <1>7, <1>8, <1>9, <1>10 DEF ThreadStep, Read, Write

(* A step of the one peer that answers: what Pending says of it.           *)
LEMMA WaitingStep ==
    ASSUME Alone, NEW p \in answering, NEW t \in Threads, Waiting(t),
           UNCHANGED <<pc, request, answering, cb_sem>>,
           \/ Resting(p)' /\ AtMostOne(inbox'[p], request[t])
           \/ /\ cb_pc'[p] \in {"trylock", "alloc", "copy", "signal"}
              /\ OnlyWrites(inbox'[p])
              /\ cb_msg'[p] = request[t]
              /\ cb_pc'[p] = "copy" => sjfs_read_buffer' \in {NULL, Fresh(request[t])}
              /\ cb_pc'[p] = "signal" => sjfs_read_buffer' \in {NULL, Own(request[t])}
    PROVE  Phase(t)'
<1>1. \A q \in answering' : q = p
  BY DEF Alone
<1>2. Pending(t)'
  BY <1>1 DEF Pending, Resting
<1>3. Waiting(t)'
  BY <1>2 DEF Waiting
<1>4. pc'[t] \in {"await_cb", "up_cb"}
  BY DEF Waiting
<1>5. QED
  BY <1>3, <1>4 DEF Phase

(* The steps of the peers.                                                 *)
LEMMA PeerCbInv ==
    ASSUME Alone, TypeInv, CnInv, RouteInv, CbInv, NEW p \in Peers, PeerStep(p) \/ RecvFails(p)
    PROVE  CbInv'
<1> USE DEF GotoCb
<1>a. UNCHANGED <<pc, request, got, answering>>
  BY DEF PeerStep, RecvFails, Recv, CallbackTrylock, CallbackAlloc, CallbackCopy, CallbackUp,
         CallbackReturn, threadVars
<1>b. inbox[p] \in Seq(Packets) /\ answering \subseteq Peers
  BY DEF TypeInv, TypeOK, Packets
<1>1. CASE p \notin answering
  <2>1. Recv(p) \/ RecvFails(p)
    BY <1>1 DEF PeerStep, CallbackTrylock, CallbackAlloc, CallbackCopy, CallbackUp, CallbackReturn, RouteInv
  <2>2. \A q \in answering : inbox'[q] = inbox[q] /\ cb_pc'[q] = cb_pc[q] /\ cb_msg'[q] = cb_msg[q]
    BY <1>1, <1>b, <2>1 DEF Recv, RecvFails, TypeInv, TypeOK
  <2>3. UNCHANGED <<cb_sem, sjfs_read_buffer>>
    BY <2>1 DEF Recv, RecvFails
  <2>4. QED
    BY <1>a, <2>2, <2>3, CbKeep
<1>2. ASSUME p \in answering, Recv(p) PROVE CbInv'
  <2>1. /\ UNCHANGED <<cb_sem, sjfs_read_buffer>>
        /\ inbox[p] # <<>> /\ inbox'[p] = Tail(inbox[p]) /\ cb_pc[p] = "idle"
    BY <1>2 DEF Recv, TypeInv, TypeOK
  <2>2. ASSUME PeersQuiet PROVE PeersQuiet'
    <3>1. OnlyWrites(inbox[p])
      BY <1>2, <2>2 DEF PeersQuiet
    <3>2. Head(inbox[p]) = WriteRequest /\ OnlyWrites(Tail(inbox[p]))
      BY <1>b, <2>1, <3>1, WritesTail
    <3>3. cb_pc' = cb_pc
      BY <1>2, <3>2 DEF Recv
    <3>4. QED
      BY <1>2, <1>a, <2>1, <2>2, <3>2, <3>3 DEF PeersQuiet, Resting, Ended, Alone
  <2>3. ASSUME NEW t \in Threads, Waiting(t) PROVE Phase(t)'
    <3>1. request[t] \in Requests /\ request[t] # WriteRequest
      BY <2>3, WaitingRequest
    <3>2. AtMostOne(inbox[p], request[t])
      BY <1>2, <2>1, <2>3 DEF Waiting, Pending
    <3>3. CASE Head(inbox[p]) = WriteRequest
      <4>1. cb_pc' = cb_pc /\ AtMostOne(Tail(inbox[p]), request[t])
        BY <1>2, <1>b, <2>1, <3>1, <3>2, <3>3, SocketFacts DEF Recv
      <4>2. Resting(p)' /\ AtMostOne(inbox'[p], request[t])
        BY <2>1, <4>1 DEF Resting, Ended
      <4>3. QED
        BY <1>2, <1>a, <2>1, <2>3, <4>2, WaitingStep
    <3>4. CASE Head(inbox[p]) = request[t]
      <4>1. OnlyWrites(Tail(inbox[p]))
        BY <1>b, <2>1, <3>1, <3>2, <3>4, SocketFacts
      <4>2. module = "loaded" /\ callback
        BY <2>3 DEF Waiting, CnInv, RouteInv
      <4>3. cb_pc'[p] = "trylock" /\ cb_msg'[p] = request[t]
        BY <1>2, <3>1, <3>4, <4>2 DEF Recv, TypeInv, TypeOK
      <4>4. QED
        BY <1>2, <1>a, <2>1, <2>3, <4>1, <4>3, WaitingStep
    <3>5. QED
      BY <1>b, <2>1, <3>1, <3>2, <3>3, <3>4, SocketFacts
  <2>4. QED
    BY <1>a, <2>1, <2>2, <2>3, CbPeer
<1>3. ASSUME p \in answering, RecvFails(p) PROVE CbInv'
  <2>1. UNCHANGED <<cb_sem, sjfs_read_buffer>> /\ inbox'[p] = <<>> /\ cb_pc'[p] = "exited"
    BY <1>3 DEF RecvFails, TypeInv, TypeOK
  <2>2. OnlyWrites(inbox'[p]) /\ \A r \in Requests : AtMostOne(inbox'[p], r)
    BY <2>1 DEF OnlyWrites, AtMostOne
  <2>3. PeersQuiet'
    BY <1>3, <1>a, <2>1, <2>2 DEF PeersQuiet, Resting, Ended, Alone
  <2>4. ASSUME NEW t \in Threads, Waiting(t) PROVE Phase(t)'
    <3>1. AtMostOne(inbox'[p], request[t]) /\ Resting(p)'
      BY <2>1, <2>2, <2>4, WaitingRequest DEF Resting, Ended
    <3>2. QED
      BY <1>3, <1>a, <2>1, <2>4, <3>1, WaitingStep
  <2>5. QED
    BY <1>a, <2>1, <2>3, <2>4, CbPeer
<1>4. ASSUME p \in answering, cb_pc[p] \in {"trylock", "ignore", "alloc", "copy", "signal"},
             \A t \in Threads : Waiting(t) => Phase(t)'
      PROVE  CbInv'
  <2>1. ~PeersQuiet
    BY <1>4 DEF PeersQuiet, Resting, Ended
  <2>2. QED
    BY <1>4, <1>a, <2>1, CbPeer
<1>c. ASSUME NEW t \in Threads, Waiting(t), p \in answering,
             cb_pc[p] \in {"trylock", "ignore", "alloc", "copy", "signal"}
      PROVE  /\ cb_pc[p] # "ignore" /\ OnlyWrites(inbox[p]) /\ cb_msg[p] = request[t]
             /\ cb_pc[p] = "copy" => sjfs_read_buffer \in {NULL, Fresh(request[t])}
             /\ cb_pc[p] = "signal" => sjfs_read_buffer \in {NULL, Own(request[t])}
  BY <1>c DEF Waiting, Pending, Resting, Ended
<1>5. ASSUME p \in answering, CallbackTrylock(p) PROVE CbInv'
  <2>1. cb_pc[p] = "trylock" /\ UNCHANGED <<inbox, cb_msg>>
    BY <1>5 DEF CallbackTrylock
  <2>2. ASSUME NEW t \in Threads, Waiting(t) PROVE Phase(t)'
    <3>1. cb_sem' = cb_sem /\ cb_pc'[p] = "alloc"
      BY <1>5, <2>2 DEF CallbackTrylock, Waiting, Free, TypeInv, TypeOK
    <3>2. OnlyWrites(inbox[p]) /\ cb_msg[p] = request[t]
      BY <1>5, <1>c, <2>1, <2>2
    <3>3. QED
      BY <1>5, <1>a, <2>1, <2>2, <3>1, <3>2, WaitingStep
  <2>3. QED
    BY <1>4, <1>5, <2>1, <2>2
<1>6. ASSUME p \in answering, CallbackAlloc(p) PROVE CbInv'
  <2>1. /\ cb_pc[p] = "alloc" /\ UNCHANGED <<inbox, cb_msg, cb_sem>> /\ cb_pc'[p] = "copy"
        /\ sjfs_read_buffer' \in {NULL, [bytes |-> Bytes[cb_msg[p]], data |-> None]}
    BY <1>6 DEF CallbackAlloc, TypeInv, TypeOK
  <2>2. ASSUME NEW t \in Threads, Waiting(t) PROVE Phase(t)'
    <3>1. OnlyWrites(inbox[p]) /\ cb_msg[p] = request[t]
      BY <1>6, <1>c, <2>1, <2>2
    <3>2. sjfs_read_buffer' \in {NULL, Fresh(request[t])}
      BY <2>1, <3>1 DEF Fresh
    <3>3. QED
      BY <1>6, <1>a, <2>1, <2>2, <3>1, <3>2, WaitingStep
  <2>3. QED
    BY <1>4, <1>6, <2>1, <2>2
<1>7. ASSUME p \in answering, CallbackCopy(p) PROVE CbInv'
  <2>1. /\ cb_pc[p] = "copy" /\ UNCHANGED <<inbox, cb_msg, cb_sem>> /\ cb_pc'[p] = "signal"
        /\ sjfs_read_buffer' = IF sjfs_read_buffer = NULL THEN NULL
                               ELSE [sjfs_read_buffer EXCEPT !.data = cb_msg[p]]
    BY <1>7 DEF CallbackCopy, TypeInv, TypeOK
  <2>2. ASSUME NEW t \in Threads, Waiting(t) PROVE Phase(t)'
    <3>1. /\ OnlyWrites(inbox[p]) /\ cb_msg[p] = request[t]
          /\ sjfs_read_buffer \in {NULL, Fresh(request[t])}
      BY <1>7, <1>c, <2>1, <2>2
    <3>2. [Fresh(request[t]) EXCEPT !.data = request[t]] = Own(request[t])
      BY DEF Fresh, Own
    <3>3. sjfs_read_buffer' \in {NULL, Own(request[t])}
      BY <2>1, <3>1, <3>2
    <3>4. QED
      BY <1>7, <1>a, <2>1, <2>2, <3>1, <3>3, WaitingStep
  <2>3. QED
    BY <1>4, <1>7, <2>1, <2>2
<1>8. ASSUME p \in answering, CallbackUp(p) PROVE CbInv'
  <2>1. /\ cb_pc[p] \in {"ignore", "signal"} /\ UNCHANGED <<inbox, sjfs_read_buffer>>
        /\ cb_sem' = Up(cb_sem) /\ cb_pc'[p] = "return"
    BY <1>8 DEF CallbackUp, TypeInv, TypeOK
  <2>2. ASSUME NEW t \in Threads, Waiting(t) PROVE Phase(t)'
    <3>1. /\ OnlyWrites(inbox[p])
          /\ sjfs_read_buffer \in {NULL, Own(request[t])}
      BY <1>8, <1>c, <2>1, <2>2
    <3>2. PeersQuiet'
      BY <1>8, <1>a, <2>1, <3>1 DEF PeersQuiet, Resting, Ended, Alone
    <3>3. Answered(t)'
      BY <1>a, <2>1, <3>1, <3>2 DEF Answered
    <3>4. cb_sem \in SemaphoreOf(Threads) /\ cb_sem.count = 0
      BY <2>2 DEF TypeInv, TypeOK, Waiting
    <3>5. CASE pc[t] = "await_cb"
      <4>1. cb_sem.sleepers = <<>>
        BY <2>2, <3>5 DEF Waiting
      <4>2. cb_sem'.count = 1 /\ cb_sem'.sleepers = <<>>
        BY <2>1, <3>4, <4>1 DEF Up, SemaphoreOf
      <4>3. QED
        BY <1>a, <3>3, <3>5, <4>2 DEF Phase
    <3>6. CASE pc[t] = "up_cb"
      <4>1. cb_sem.sleepers = <<t>>
        BY <2>2, <3>6 DEF Waiting
      <4>2. <<t>> # <<>> /\ Tail(<<t>>) = <<>>
        OBVIOUS
      <4>3. cb_sem'.count = 0 /\ cb_sem'.sleepers = <<>>
        BY <2>1, <3>4, <4>1, <4>2 DEF Up, SemaphoreOf
      <4>4. QED
        BY <1>a, <3>3, <3>6, <4>3 DEF Phase
    <3>7. QED
      BY <2>2, <3>5, <3>6 DEF Waiting
  <2>3. QED
    BY <1>4, <1>8, <2>1, <2>2
<1>9. ASSUME p \in answering, CallbackReturn(p) PROVE CbInv'
  <2>1. UNCHANGED <<inbox, sjfs_read_buffer, cb_sem>> /\ cb_pc[p] = "return" /\ cb_pc'[p] = "idle"
    BY <1>9 DEF CallbackReturn, TypeInv, TypeOK
  <2>2. PeersQuiet => PeersQuiet'
    BY <1>9, <1>a, <2>1 DEF PeersQuiet, Resting, Ended, Alone
  <2>3. ASSUME NEW t \in Threads, Waiting(t) PROVE Phase(t)'
    <3>1. Resting(p)' /\ AtMostOne(inbox'[p], request[t])
      BY <1>9, <2>1, <2>3 DEF Waiting, Pending, Resting, Ended
    <3>2. QED
      BY <1>9, <1>a, <2>1, <2>3, <3>1, WaitingStep
  <2>4. QED
    BY <1>a, <2>1, <2>2, <2>3, CbPeer
<1>10. QED
  BY <1>1, <1>2, <1>3, <1>5, <1>6, <1>7, <1>8, <1>9 DEF PeerStep

(* One process answers: the set of those that do never changes.            *)
FileInv == TypeInv /\ CnInv /\ RouteInv /\ (Alone => CbInv)

LEMMA FileInvariance == Spec => []FileInv
<1>1. Init => FileInv
  BY InitType, CnFresh, InitRoute, InitCbInv DEF Init, FileInv
<1>2. FileInv /\ [Next]_vars => FileInv'
  <2> SUFFICES ASSUME FileInv, [Next]_vars PROVE FileInv'
    OBVIOUS
  <2>1. TypeInv' /\ CnInv' /\ RouteInv'
    BY NextType, NextCnInv, NextRoute DEF FileInv
  <2>2. answering' = answering
    BY DEF Next, vars, InitModule, ExitModule, Read, Write, Enter, ThreadStep, PeerStep, ReadDownCb,
           ReadSend, ReadAwaitCb, ReadUpCb, ReadCopy, WriteSend, Return, Recv, RecvFails,
           CallbackTrylock, CallbackAlloc, CallbackCopy, CallbackUp, CallbackReturn, peerVars
  <2>3. Alone' <=> Alone
    BY <2>2 DEF Alone
  <2>4. ASSUME Alone PROVE CbInv'
    <3>1. CbInv /\ TypeInv /\ CnInv /\ RouteInv
      BY <2>4 DEF FileInv
    <3>2. CASE UNCHANGED vars
      BY <3>1, <3>2, CbKeep DEF vars, threadVars, peerVars
    <3>3. QED
      BY <2>4, <3>1, <3>2, ThreadCbInv, PeerCbInv DEF Next
  <2>5. QED
    BY <2>1, <2>3, <2>4 DEF FileInv
<1>3. QED
  BY <1>1, <1>2, PTL DEF Spec

FinitePeers == IsFiniteSet(Peers)

(* OneAnswers, without the cardinality.                                    *)
LEMMA AnswersAlone ==
    ASSUME FinitePeers, TypeInv, OneAnswers
    PROVE  Alone
<1>1. IsFiniteSet(answering)
  BY FS_Subset DEF FinitePeers, TypeInv, TypeOK
<1>2. Cardinality(answering) \in Nat /\ Cardinality(answering) <= 1
  BY <1>1, FS_CardinalityType DEF OneAnswers
<1>3. CASE Cardinality(answering) = 0
  <2>1. answering = {}
    BY <1>1, <1>3, FS_EmptySet
  <2>2. QED
    BY <2>1 DEF Alone
<1>4. CASE Cardinality(answering) = 1
  <2>1. \E x : answering = {x}
    BY <1>1, <1>4, FS_Singleton
  <2>2. QED
    BY <2>1 DEF Alone
<1>5. QED
  BY <1>2, <1>3, <1>4

(* sjfs_fops_read returns the answer to its own request, and reads it from *)
(* a buffer of the length it copies, for any number of threads, loads and  *)
(* faults, as long as one process answers.                                 *)
THEOREM ReadsAreRight ==
    ASSUME FinitePeers
    PROVE  Spec => []ReadGetsOwnAnswer
<1>1. FileInv => ReadGetsOwnAnswer
  BY AnswersAlone DEF FileInv, CbInv, Phase, ReadGetsOwnAnswer, Own
<1>2. QED
  BY <1>1, FileInvariance, PTL

(* rmmod leaves no callback of backup plan a without code except one that  *)
(* has only to return, and no answer enters the callback of a module that  *)
(* is gone, as long as one process answers: rmmod waits for the readers,   *)
(* and the answers are signalled when they leave.                          *)
THEOREM CodeOutlivesCallback ==
    ASSUME FinitePeers
    PROVE  Spec => OnlyReturnLosesCode
<1>1. ASSUME FileInv, [Next]_vars
      PROVE  [OneAnswers => \A p \in Peers :
                 cb_pc[p] # "oops" /\ cb_pc'[p] = "oops" => cb_pc[p] = "return"]_vars
  <2> SUFFICES ASSUME Next, OneAnswers, NEW p \in Peers, cb_pc[p] # "oops", cb_pc'[p] = "oops"
               PROVE  cb_pc[p] = "return"
    BY <1>1
  <2>1. CbInv /\ TypeInv /\ CnInv /\ RouteInv
    BY <1>1, AnswersAlone DEF FileInv
  <2>2. CASE ExitModule
    <3>1. PeersQuiet
      BY <2>1, <2>2 DEF ExitModule, CbInv, CbFree, Exchange
    <3>2. Resting(p)
      BY <2>1, <3>1 DEF PeersQuiet, RouteInv, Resting, Ended
    <3>3. QED
      BY <2>2, <3>2 DEF ExitModule, Resting, Ended
  <2>3. ASSUME NEW q \in Peers, Recv(q) PROVE FALSE
    <3>1. /\ q = p /\ p \in answering /\ module # "loaded"
          /\ inbox[p] # <<>> /\ Head(inbox[p]) # WriteRequest
      BY <2>1, <2>3 DEF Recv, GotoCb, TypeInv, TypeOK
    <3>2. OnlyWrites(inbox[p])
      BY <2>1, <3>1 DEF CnInv, CbInv, CbFree, Exchange, PeersQuiet
    <3>3. QED
      BY <2>1, <3>1, <3>2, WritesTail DEF TypeInv, TypeOK, Packets
  <2>4. ASSUME \/ InitModule
               \/ \E t \in Threads : (\E r \in Requests : Read(t, r)) \/ Write(t) \/ ThreadStep(t)
        PROVE  FALSE
    BY <2>4 DEF InitModule, Read, Write, Enter, ThreadStep, ReadDownCb, ReadSend, ReadAwaitCb,
                ReadUpCb, ReadCopy, WriteSend, Return, peerVars
  <2>5. ASSUME NEW q \in Peers,
               \/ CallbackTrylock(q) \/ CallbackAlloc(q) \/ CallbackCopy(q)
               \/ CallbackUp(q) \/ CallbackReturn(q) \/ RecvFails(q)
        PROVE  FALSE
    BY <2>1, <2>5 DEF CallbackTrylock, CallbackAlloc, CallbackCopy, CallbackUp, CallbackReturn,
                      RecvFails, GotoCb, TypeInv, TypeOK
  <2>6. QED
    BY <2>2, <2>3, <2>4, <2>5 DEF Next, PeerStep
<1>2. QED
  BY <1>1, FileInvariance, PTL DEF Spec, OnlyReturnLosesCode
=============================================================================
