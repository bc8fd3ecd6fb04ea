------------------------ MODULE BlockTransportProofs ------------------------
(***************************************************************************)
(* Proofs about BlockTransport, for any number of threads, addresses and   *)
(* pieces.                                                                 *)
(***************************************************************************)
EXTENDS BlockTransport, SemaphoreProofs

(***************************************************************************)
(* Type correctness.  TypeOK is not inductive: that a memcpy of a thread   *)
(* stays inside the block needs its progress to be tied to the program     *)
(* counter.                                                                *)
(***************************************************************************)

CopyProgress ==
    \A t \in Threads :
        /\ pc[t] = "copy" => copied[t] < Pieces
        /\ pc[t] \notin {"copy", "up_cn"} => copied[t] = 0

TypeInv == TypeOK /\ CopyProgress

(* The value sent for an address, Zeroes included, is a block's contents.  *)
LEMMA EncodeType ==
    ASSUME NEW a \in Addresses \cup {Zeroes}
    PROVE  EncodeAddress(a) \in Contents
<1>1. CASE a = Zeroes
  BY <1>1 DEF EncodeAddress, Contents, Zeroes
<1>2. CASE a \in Addresses
  BY <1>2 DEF Contents
<1>3. QED
  BY <1>1, <1>2

LEMMA InitTypeInv == Init => TypeInv
<1> SUFFICES ASSUME Init PROVE TypeInv
  OBVIOUS
<1> USE DEF Init
<1>1. SemaInit(1) \in SemaphoreOf(Threads)
  BY DEF SemaInit, SemaphoreOf
<1>2. Blank \in [Piece -> Contents]
  BY DEF Blank, Contents
<1>3. NoMessage \in [contents : Contents, len : ReplyLengths \cup {0}]
  BY DEF NoMessage, Contents
<1>4. TypeOK
  BY <1>1, <1>2, <1>3, TransportAssumption DEF TypeOK, ThreadPc, CallbackPc
<1>5. CopyProgress
  BY DEF CopyProgress
<1>6. QED
  BY <1>4, <1>5 DEF TypeInv

LEMMA NextTypeInv == TypeInv /\ [Next]_vars => TypeInv'
<1> SUFFICES ASSUME TypeInv, [Next]_vars PROVE TypeInv'
  OBVIOUS
<1> USE DEF TypeInv
<1> USE TransportAssumption
<1>1. ASSUME NEW t \in Threads, NEW a \in Addresses, ReadBlock(t, a) PROVE TypeInv'
  <2>1. /\ pc' \in [Threads -> ThreadPc]
        /\ \A u \in Threads : pc'[u] = "copy" => pc[u] = "copy"
        /\ \A u \in Threads : pc'[u] \notin {"copy", "up_cn"}
                                  => pc[u] \notin {"copy", "up_cn"}
    BY <1>1 DEF ReadBlock, TypeOK, ThreadPc
  <2>2. allocFailures' \in 0 .. MaxAllocFailures
    BY <1>1 DEF ReadBlock, TypeOK
  <2>3. TypeOK'
    BY <1>1, <2>1, <2>2 DEF ReadBlock, TypeOK, callbackVars
  <2>4. CopyProgress'
    BY <1>1, <2>1 DEF ReadBlock, CopyProgress
  <2>5. QED
    BY <2>3, <2>4
<1>2. ASSUME NEW t \in Threads, NEW a \in Addresses, WriteBlock(t, a) PROVE TypeInv'
  BY <1>2, DownType DEF WriteBlock, TypeOK, CopyProgress, ThreadPc, callbackVars, faultVars
<1>3. ASSUME NEW t \in Threads, ReadDownCn(t) PROVE TypeInv'
  BY <1>3, DownType DEF ReadDownCn, TypeOK, CopyProgress, ThreadPc, callbackVars, faultVars
<1>4. ASSUME NEW t \in Threads, ReadDownCb(t) PROVE TypeInv'
  BY <1>4, DownType DEF ReadDownCb, TypeOK, CopyProgress, ThreadPc, callbackVars, faultVars
<1>5. ASSUME NEW t \in Threads, ReadSend(t) PROVE TypeInv'
  <2>1. EncodeAddress(address[t]) \in Contents
    BY EncodeType DEF TypeOK
  <2>2. inbox' \in [Peers -> Seq(Contents)]
    BY <1>5, <2>1 DEF ReadSend, TypeOK
  <2>3. lost' \in 0 .. MaxLost
    BY <1>5 DEF ReadSend, TypeOK
  <2>4. QED
    BY <1>5, <2>2, <2>3 DEF ReadSend, TypeOK, CopyProgress, ThreadPc, callbackVars
<1>6. ASSUME NEW t \in Threads, ReadAwaitCb(t) PROVE TypeInv'
  BY <1>6, DownType DEF ReadAwaitCb, TypeOK, CopyProgress, ThreadPc, callbackVars, faultVars
<1>7. ASSUME NEW t \in Threads, ReadUpCb(t) PROVE TypeInv'
  BY <1>7, UpType DEF ReadUpCb, TypeOK, CopyProgress, ThreadPc, callbackVars, faultVars
<1>8. ASSUME NEW t \in Threads, ReadCopy(t) PROVE TypeInv'
  BY <1>8 DEF ReadCopy, TypeOK, CopyProgress, ThreadPc, Piece, callbackVars, faultVars
<1>9. ASSUME NEW t \in Threads, ReadReturn(t) PROVE TypeInv'
  <2>1. Blank \in [Piece -> Contents]
    BY DEF Blank, Contents
  <2>2. QED
    BY <1>9, <2>1, UpType DEF ReadReturn, TypeOK, CopyProgress, ThreadPc, callbackVars, faultVars
<1>10. ASSUME NEW t \in Threads, WriteReturn(t) PROVE TypeInv'
  BY <1>10, UpType DEF WriteReturn, TypeOK, CopyProgress, ThreadPc, callbackVars, faultVars
<1>11. ASSUME NEW p \in Peers, PeerAnswers(p) PROVE TypeInv'
  <2>1. inbox[p] \in Seq(Contents) /\ inbox[p] # <<>>
    BY <1>11 DEF PeerAnswers, TypeOK
  <2>2. Head(inbox[p]) \in Contents /\ Tail(inbox[p]) \in Seq(Contents)
    BY <2>1
  <2>3. QED
    BY <1>11, <2>2 DEF PeerAnswers, TypeOK, CopyProgress, CallbackPc, threadVars, faultVars
<1>12. ASSUME NEW p \in Peers, CallbackTrylock(p) PROVE TypeInv'
  <2>1. cb_sem' \in SemaphoreOf(Threads)
    <3>1. Free(cb_sem) => Take(cb_sem) \in SemaphoreOf(Threads)
      BY UpType DEF TypeOK
    <3>2. QED
      BY <1>12, <3>1 DEF CallbackTrylock, TypeOK
  <2>2. QED
    BY <1>12, <2>1 DEF CallbackTrylock, TypeOK, CopyProgress, CallbackPc, threadVars, faultVars
<1>13. ASSUME NEW p \in Peers, CallbackIgnore(p) PROVE TypeInv'
  <2>1. NoMessage \in [contents : Contents, len : ReplyLengths \cup {0}]
    BY DEF NoMessage, Contents
  <2>2. QED
    BY <1>13, <2>1, UpType DEF CallbackIgnore, TypeOK, CopyProgress, CallbackPc, threadVars, faultVars
<1>14. ASSUME NEW p \in Peers, CallbackCopy(p) PROVE TypeInv'
  BY <1>14 DEF CallbackCopy, CopyLength, TypeOK, CopyProgress, CallbackPc, Piece, threadVars, faultVars
<1>15. ASSUME NEW p \in Peers, CallbackSignal(p) PROVE TypeInv'
  <2>1. NoMessage \in [contents : Contents, len : ReplyLengths \cup {0}]
    BY DEF NoMessage, Contents
  <2>2. QED
    BY <1>15, <2>1, UpType DEF CallbackSignal, TypeOK, CopyProgress, CallbackPc, threadVars, faultVars
<1>16. CASE UNCHANGED vars
  BY <1>16 DEF vars, TypeOK, CopyProgress, threadVars, callbackVars, faultVars
<1>17. QED
  BY <1>1, <1>2, <1>3, <1>4, <1>5, <1>6, <1>7, <1>8, <1>9, <1>10, <1>11, <1>12,
     <1>13, <1>14, <1>15, <1>16 DEF Next, ThreadStep, PeerStep

(* The transport is type correct for every value of its constants; no      *)
(* memcpy of sjfs_read_block or cn_callback leaves its buffer.             *)
THEOREM TypeCorrect == Spec => []TypeOK
<1>1. TypeInv => TypeOK
  BY DEF TypeInv
<1>2. QED
  BY <1>1, InitTypeInv, NextTypeInv, PTL DEF Spec

-----------------------------------------------------------------------------
(***************************************************************************)
(* Mutual exclusion.  A thread whose kzalloc fails releases cn_sem without *)
(* having taken it, so the property needs allocations to succeed.  The     *)
(* invariant adds who may sleep on cn_sem, and that a free unit means that *)
(* nobody is inside.                                                       *)
(***************************************************************************)

NoAllocFailure == MaxAllocFailures = 0

CnInv ==
    /\ cn_sem.count \in {0, 1}
    /\ Distinct(cn_sem)
    /\ \A t \in Threads : Sleeps(cn_sem, t) => pc[t] \in {"down_cb", "write"}
    /\ cn_sem.count = 1 => \A t \in Threads : ~HoldsCn(t)
    /\ MutualExclusion

(* A thread that enters down(&cn_sem) goes inside or to sleep.             *)
LEMMA CnEnter ==
    ASSUME TypeInv, CnInv, NEW t \in Threads, NEW l \in {"down_cb", "write"},
           pc[t] \in {"idle", "down_cn"},
           pc' = [pc EXCEPT ![t] = l],
           cn_sem' = Down(cn_sem, t)
    PROVE  CnInv'
<1>1. cn_sem \in SemaphoreOf(Threads) /\ pc \in [Threads -> ThreadPc]
  BY DEF TypeInv, TypeOK
<1>2. ~Sleeps(cn_sem, t) /\ Distinct(cn_sem)
  BY DEF CnInv
<1>3. Distinct(cn_sem)'
  BY <1>1, <1>2, DistinctPreserved DEF Distinct
<1>4. /\ pc'[t] = l
      /\ \A u \in Threads : u # t => pc'[u] = pc[u]
  BY <1>1
<1>5. CASE cn_sem.count = 1
  <2>1. cn_sem'.count = 0
    BY <1>1, <1>5 DEF Down, SemaphoreOf
  <2>2. \A u \in Threads : Sleeps(cn_sem, u)' <=> Sleeps(cn_sem, u)
    BY <1>1, <1>5, SleepsAfterDown
  <2>3. \A u \in Threads : u # t => ~HoldsCn(u)'
    BY <1>4, <1>5, <2>2 DEF CnInv, HoldsCn
  <2>4. MutualExclusion'
    BY <2>3 DEF MutualExclusion
  <2>5. QED
    BY <1>3, <1>4, <2>1, <2>2, <2>4 DEF CnInv
<1>6. CASE cn_sem.count = 0
  <2>1. cn_sem'.count = 0
    BY <1>1, <1>6 DEF Down, SemaphoreOf
  <2>2. \A u \in Threads : Sleeps(cn_sem, u)' <=> Sleeps(cn_sem, u) \/ u = t
    BY <1>1, <1>6, SleepsAfterDown
  <2>3. \A u \in Threads : HoldsCn(u)' => HoldsCn(u)
    BY <1>4, <2>2 DEF HoldsCn
  <2>4. MutualExclusion'
    BY <2>3 DEF CnInv, MutualExclusion
  <2>5. QED
    BY <1>3, <1>4, <2>1, <2>2, <2>4 DEF CnInv
<1>7. QED
  BY <1>5, <1>6 DEF CnInv

(* up(&cn_sem) by the thread inside lets nobody or the first sleeper in.   *)
LEMMA CnLeave ==
    ASSUME TypeInv, CnInv, NEW t \in Threads, HoldsCn(t), ~Sleeps(cn_sem, t),
           pc' = [pc EXCEPT ![t] = "idle"],
           cn_sem' = Up(cn_sem)
    PROVE  CnInv'
<1>1. cn_sem \in SemaphoreOf(Threads) /\ pc \in [Threads -> ThreadPc]
  BY DEF TypeInv, TypeOK
<1>2. Distinct(cn_sem) /\ cn_sem.count = 0
  BY DEF CnInv
<1>3. Distinct(cn_sem)'
  BY <1>1, <1>2, DistinctPreserved DEF Distinct
<1>4. /\ pc'[t] = "idle"
      /\ \A u \in Threads : u # t => pc'[u] = pc[u]
  BY <1>1
<1>5. \A u \in Threads : u # t => ~HoldsCn(u)
  BY DEF CnInv, MutualExclusion
<1>6. CASE cn_sem.sleepers = <<>>
  <2>1. cn_sem'.count = 1
    BY <1>1, <1>2, <1>6 DEF Up, SemaphoreOf
  <2>2. \A u \in Threads : ~Sleeps(cn_sem, u) /\ ~Sleeps(cn_sem, u)'
    BY <1>1, <1>2, <1>6, SleepsAfterUp
  <2>3. \A u \in Threads : ~HoldsCn(u)'
    BY <1>4, <1>5, <2>2 DEF HoldsCn
  <2>4. QED
    BY <1>3, <2>1, <2>2, <2>3 DEF CnInv, MutualExclusion
<1>7. CASE cn_sem.sleepers # <<>>
  <2>1. cn_sem'.count = 0
    BY <1>1, <1>2, <1>7 DEF Up, SemaphoreOf
  <2>2. \A u \in Threads : Sleeps(cn_sem, u)'
                              <=> Sleeps(cn_sem, u) /\ u # Head(cn_sem.sleepers)
    BY <1>1, <1>2, <1>7, SleepsAfterUp
  <2>3. \A u \in Threads : HoldsCn(u)' => u = Head(cn_sem.sleepers)
    BY <1>4, <1>5, <2>2 DEF HoldsCn
  <2>4. QED
    BY <1>3, <1>4, <2>1, <2>2, <2>3 DEF CnInv, MutualExclusion
<1>8. QED
  BY <1>6, <1>7

(* A step that leaves cn_sem alone lets no thread in.                      *)
LEMMA CnKeep ==
    ASSUME CnInv, cn_sem' = cn_sem,
           \A u \in Threads : HoldsCn(u)' => HoldsCn(u),
           \A u \in Threads : Sleeps(cn_sem, u) => pc'[u] = pc[u]
    PROVE  CnInv'
<1>1. \A u \in Threads : Sleeps(cn_sem, u)' <=> Sleeps(cn_sem, u)
  BY DEF Sleeps
<1>2. Distinct(cn_sem)'
  BY DEF CnInv, Distinct
<1>3. MutualExclusion'
  BY DEF CnInv, MutualExclusion
<1>4. QED
  BY <1>1, <1>2, <1>3 DEF CnInv

(* The same, when the step is one of a thread that is inside or outside    *)
(* before and after it.                                                    *)
LEMMA CnKeepThread ==
    ASSUME TypeInv, CnInv, cn_sem' = cn_sem, NEW t \in Threads, NEW l,
           ~Sleeps(cn_sem, t),
           pc' = [pc EXCEPT ![t] = l],
           HoldsCn(t) \/ l \in {"idle", "down_cn"}
    PROVE  CnInv'
<1>1. /\ pc'[t] = l
      /\ \A u \in Threads : u # t => pc'[u] = pc[u]
  BY DEF TypeInv, TypeOK
<1>2. \A u \in Threads : Sleeps(cn_sem, u)' <=> Sleeps(cn_sem, u)
  BY DEF Sleeps
<1>3. \A u \in Threads : HoldsCn(u)' => HoldsCn(u)
  BY <1>1, <1>2 DEF HoldsCn
<1>4. QED
  BY <1>1, <1>3, CnKeep

LEMMA InitCnInv == Init => CnInv
<1> SUFFICES ASSUME Init PROVE CnInv
  OBVIOUS
<1>1. cn_sem.count = 1 /\ cn_sem.sleepers = <<>> /\ \A t \in Threads : pc[t] = "idle"
  BY DEF Init, SemaInit
<1>2. \A t \in Threads : ~HoldsCn(t) /\ ~Sleeps(cn_sem, t)
  BY <1>1 DEF HoldsCn, Sleeps
<1>3. Distinct(cn_sem)
  BY <1>1 DEF Distinct
<1>4. QED
  BY <1>1, <1>2, <1>3 DEF CnInv, MutualExclusion

LEMMA NextCnInv == NoAllocFailure /\ TypeInv /\ CnInv /\ [Next]_vars => CnInv'
<1> SUFFICES ASSUME NoAllocFailure, TypeInv, CnInv, [Next]_vars PROVE CnInv'
  OBVIOUS
<1>a. \A t \in Threads : pc[t] \notin {"down_cb", "write"} => ~Sleeps(cn_sem, t)
  BY DEF CnInv
<1>1. ASSUME NEW t \in Threads, NEW a \in Addresses, ReadBlock(t, a) PROVE CnInv'
  <2>1. ~(allocFailures < MaxAllocFailures)
    BY DEF NoAllocFailure, TypeInv, TypeOK
  <2>2. QED
    BY <1>1, <1>a, <2>1, CnKeepThread DEF ReadBlock
<1>2. ASSUME NEW t \in Threads, NEW a \in Addresses, WriteBlock(t, a) PROVE CnInv'
  BY <1>2, CnEnter DEF WriteBlock
<1>3. ASSUME NEW t \in Threads, ReadDownCn(t) PROVE CnInv'
  BY <1>3, CnEnter DEF ReadDownCn
<1>4. ASSUME NEW t \in Threads, ReadDownCb(t) PROVE CnInv'
  BY <1>4, CnKeepThread DEF ReadDownCb, HoldsCn
<1>5. ASSUME NEW t \in Threads, ReadSend(t) PROVE CnInv'
  BY <1>5, <1>a, CnKeepThread DEF ReadSend, HoldsCn
<1>6. ASSUME NEW t \in Threads, ReadAwaitCb(t) PROVE CnInv'
  BY <1>6, <1>a, CnKeepThread DEF ReadAwaitCb, HoldsCn
<1>7. ASSUME NEW t \in Threads, ReadUpCb(t) PROVE CnInv'
  BY <1>7, <1>a, CnKeepThread DEF ReadUpCb, HoldsCn
<1>8. ASSUME NEW t \in Threads, ReadCopy(t) PROVE CnInv'
  BY <1>8, <1>a, CnKeepThread DEF ReadCopy, HoldsCn
<1>9. ASSUME NEW t \in Threads, ReadReturn(t) PROVE CnInv'
  BY <1>9, <1>a, CnLeave DEF ReadReturn, HoldsCn
<1>10. ASSUME NEW t \in Threads, WriteReturn(t) PROVE CnInv'
  BY <1>10, CnLeave DEF WriteReturn, HoldsCn
<1>11. ASSUME UNCHANGED <<cn_sem, pc>> PROVE CnInv'
  BY <1>11, CnKeep DEF HoldsCn
<1>12. ASSUME NEW p \in Peers, PeerStep(p) PROVE UNCHANGED <<cn_sem, pc>>
  BY <1>12 DEF PeerStep, PeerAnswers, CallbackTrylock, CallbackIgnore, CallbackCopy,
               CallbackSignal, threadVars
<1>13. CASE UNCHANGED vars
  BY <1>11, <1>13 DEF vars, threadVars
<1>14. QED
  BY <1>1, <1>2, <1>3, <1>4, <1>5, <1>6, <1>7, <1>8, <1>9, <1>10, <1>11, <1>12, <1>13
     DEF Next, ThreadStep

(* cn_sem makes block operations exclusive, for any number of threads and  *)
(* of peers, whatever is lost: only a failed allocation can break it.      *)
THEOREM Exclusive ==
    ASSUME NoAllocFailure
    PROVE  Spec => []MutualExclusion
<1>1. Init => TypeInv /\ CnInv
  BY InitTypeInv, InitCnInv
<1>2. (TypeInv /\ CnInv) /\ [Next]_vars => (TypeInv /\ CnInv)'
  BY NextTypeInv, NextCnInv
<1>3. CnInv => MutualExclusion
  BY DEF CnInv
<1>4. QED
  BY <1>1, <1>2, <1>3, PTL DEF Spec

-----------------------------------------------------------------------------
(***************************************************************************)
(* The exchange of one request and one answer.  With a single peer that    *)
(* sends whole blocks, the state of cb_sem, of the peer and of the buffer  *)
(* is determined by how far the thread inside has come.                    *)
(***************************************************************************)

ServiceAssumption ==
    /\ NoAllocFailure
    /\ \A p, q \in Peers : p = q
    /\ \A n \in ReplyLengths : n >= Pieces

(* Nothing is on its way to or from the peer.                              *)
PeersQuiet == \A p \in Peers : inbox[p] = <<>> /\ cb_pc[p] = "idle"

(* The answer to t's request is still to come, unless it was lost.         *)
Pending(t) ==
    \A p \in Peers :
        \/ cb_pc[p] = "idle" /\ inbox[p] = <<>>
        \/ cb_pc[p] = "idle" /\ inbox[p] = <<EncodeAddress(address[t])>>
        \/ /\ cb_pc[p] \in {"trylock", "copy"}
           /\ inbox[p] = <<>>
           /\ cb_msg[p].contents = EncodeAddress(address[t])
           /\ cb_msg[p].len >= Pieces
           /\ \A k \in 1 .. cb_copied[p] : read_block_buffer[k] = EncodeAddress(address[t])

(* The answer to t's request is in the buffer.                             *)
Answered(t) == PeersQuiet /\ \A k \in Piece : read_block_buffer[k] = EncodeAddress(address[t])

CbFree == PeersQuiet /\ cb_sem.count = 1 /\ cb_sem.sleepers = <<>>

(* What the place of thread t says about its exchange.                     *)
Phase(t) ==
    /\ pc[t] = "send" => PeersQuiet /\ cb_sem.count = 0 /\ cb_sem.sleepers = <<>>
    /\ pc[t] = "await_cb" =>
          /\ cb_sem.sleepers = <<>>
          /\ \/ cb_sem.count = 0 /\ Pending(t)
             \/ cb_sem.count = 1 /\ Answered(t)
    /\ pc[t] = "up_cb" =>
          /\ cb_sem.count = 0
          /\ \/ cb_sem.sleepers = <<t>> /\ Pending(t)
             \/ cb_sem.sleepers = <<>> /\ Answered(t)
    /\ pc[t] \in {"copy", "up_cn"} =>
          /\ Answered(t)
          /\ \A k \in 1 .. copied[t] : block[t][k] = EncodeAddress(address[t])
    /\ pc[t] = "up_cn" => copied[t] = Pieces

CbInv ==
    /\ \A t \in Threads : pc[t] # "idle" => address[t] \in Addresses
    /\ \A p \in Peers : cb_pc[p] # "copy" => cb_copied[p] = 0
    /\ (\A t \in Threads : pc[t] \notin {"send", "await_cb", "up_cb"}) => CbFree
    /\ \A t \in Threads : Phase(t)

Inside == {"send", "await_cb", "up_cb", "copy", "up_cn"}

(* The other threads are outside while t is inside.                        *)
LEMMA OthersOutside ==
    ASSUME CnInv, NEW t \in Threads, HoldsCn(t)
    PROVE  \A u \in Threads : u # t => pc[u] \notin Inside
BY DEF CnInv, MutualExclusion, HoldsCn, Inside

(* A step of t outside the exchange, or out of it, disturbs no exchange.   *)
LEMMA CbKeep ==
    ASSUME TypeInv, CbInv, NEW t \in Threads, NEW l,
           pc[t] \notin {"send", "await_cb", "up_cb"}, l \notin Inside,
           pc' = [pc EXCEPT ![t] = l],
           l # "idle" => address'[t] \in Addresses,
           \A u \in Threads : u # t => address'[u] = address[u]
                                    /\ block'[u] = block[u] /\ copied'[u] = copied[u],
           UNCHANGED <<cb_sem, read_block_buffer, inbox, cb_pc, cb_msg, cb_copied>>
    PROVE  CbInv'
<1>1. /\ pc'[t] = l
      /\ \A u \in Threads : u # t => pc'[u] = pc[u]
  BY DEF TypeInv, TypeOK
<1>2. \A u \in Threads : pc'[u] # "idle" => address'[u] \in Addresses
  BY <1>1 DEF CbInv
<1>3. \A p \in Peers : cb_pc'[p] # "copy" => cb_copied'[p] = 0
  BY DEF CbInv
<1>4. (\A u \in Threads : pc'[u] \notin {"send", "await_cb", "up_cb"}) => CbFree'
  BY <1>1 DEF CbInv, CbFree, PeersQuiet
<1>5. ASSUME NEW u \in Threads PROVE Phase(u)'
  <2>1. CASE u = t
    BY <1>1, <2>1 DEF Phase, Inside
  <2>2. CASE u # t
    <3>1. Phase(u)
      BY DEF CbInv
    <3>2. (Pending(u)' <=> Pending(u)) /\ (Answered(u)' <=> Answered(u)) /\ (PeersQuiet' <=> PeersQuiet)
      BY <2>2 DEF Pending, Answered, PeersQuiet
    <3>3. QED
      BY <1>1, <2>2, <3>1, <3>2 DEF Phase
  <2>3. QED
    BY <2>1, <2>2
<1>6. QED
  BY <1>2, <1>3, <1>4, <1>5 DEF CbInv

(* For a step of the thread inside, its own new phase is all there is to   *)
(* show.                                                                   *)
LEMMA CbInside ==
    ASSUME TypeInv, CnInv, CbInv, NEW t \in Threads, NEW l \in Inside, HoldsCn(t),
           pc[t] # "idle",
           pc' = [pc EXCEPT ![t] = l], address' = address,
           UNCHANGED <<cb_pc, cb_msg, cb_copied>>,
           l \in {"copy", "up_cn"} => CbFree',
           Phase(t)'
    PROVE  CbInv'
<1>1. /\ pc'[t] = l
      /\ \A u \in Threads : u # t => pc'[u] = pc[u]
  BY DEF TypeInv, TypeOK
<1>2. \A u \in Threads : u # t => pc'[u] \notin Inside
  BY <1>1, OthersOutside
<1>3. \A u \in Threads : Phase(u)'
  BY <1>2 DEF Phase, Inside
<1>4. (\A u \in Threads : pc'[u] \notin {"send", "await_cb", "up_cb"}) => CbFree'
  BY <1>1 DEF Inside
<1>5. QED
  BY <1>1, <1>3, <1>4 DEF CbInv

(* A busy peer serves the one thread that waits.                           *)
LEMMA PeerBusy ==
    ASSUME CbInv, NEW p \in Peers, inbox[p] # <<>> \/ cb_pc[p] # "idle"
    PROVE  \E t \in Threads :
              /\ Pending(t)
              /\ cb_sem.count = 0
              /\ \/ pc[t] = "await_cb" /\ cb_sem.sleepers = <<>>
                 \/ pc[t] = "up_cb" /\ cb_sem.sleepers = <<t>>
<1>1. ~PeersQuiet
  BY DEF PeersQuiet
<1>2. PICK t \in Threads : pc[t] \in {"send", "await_cb", "up_cb"}
  BY <1>1 DEF CbInv, CbFree
<1>3. Phase(t)
  BY DEF CbInv
<1>4. QED
  BY <1>1, <1>2, <1>3 DEF Phase, Answered

(* For a step of the only peer that changes no thread, the phase of the    *)
(* thread that waits is all there is to show.                              *)
LEMMA CbPeer ==
    ASSUME CnInv, CbInv, NEW t \in Threads, pc[t] \in {"await_cb", "up_cb"},
           UNCHANGED <<pc, address, block, copied>>,
           \A q \in Peers : cb_pc'[q] # "copy" => cb_copied'[q] = 0,
           Phase(t)'
    PROVE  CbInv'
<1>1. HoldsCn(t)
  BY DEF HoldsCn
<1>2. \A u \in Threads : u # t => pc'[u] \notin Inside
  BY <1>1, OthersOutside
<1>3. \A u \in Threads : Phase(u)'
  BY <1>2 DEF Phase, Inside
<1>4. QED
  BY <1>3 DEF CbInv

LEMMA InitCbInv == Init => CbInv
<1> SUFFICES ASSUME Init PROVE CbInv
  OBVIOUS
<1>1. CbFree
  BY DEF Init, SemaInit, CbFree, PeersQuiet
<1>2. \A t \in Threads : Phase(t)
  BY DEF Init, Phase
<1>3. QED
  BY <1>1, <1>2 DEF Init, CbInv

LEMMA NextCbInv == ServiceAssumption /\ TypeInv /\ CnInv /\ CbInv /\ [Next]_vars => CbInv'
<1> SUFFICES ASSUME ServiceAssumption, TypeInv, CnInv, CbInv, [Next]_vars PROVE CbInv'
  OBVIOUS
<1>a. \A t \in Threads : Phase(t)
  BY DEF CbInv
<1>1. ASSUME NEW t \in Threads, NEW a \in Addresses, ReadBlock(t, a) PROVE CbInv'
  <2>1. ~(allocFailures < MaxAllocFailures)
    BY DEF ServiceAssumption, NoAllocFailure, TypeInv, TypeOK
  <2>2. pc' = [pc EXCEPT ![t] = "down_cn"]
    BY <1>1, <2>1 DEF ReadBlock
  <2>3. address'[t] = a /\ \A u \in Threads : u # t => address'[u] = address[u]
    BY <1>1 DEF ReadBlock, TypeInv, TypeOK
  <2>4. QED
    BY <1>1, <2>2, <2>3, CbKeep DEF ReadBlock, callbackVars, Inside
<1>2. ASSUME NEW t \in Threads, NEW a \in Addresses, WriteBlock(t, a) PROVE CbInv'
  <2>1. address'[t] = a /\ \A u \in Threads : u # t => address'[u] = address[u]
    BY <1>2 DEF WriteBlock, TypeInv, TypeOK
  <2>2. QED
    BY <1>2, <2>1, CbKeep DEF WriteBlock, callbackVars, Inside
<1>3. ASSUME NEW t \in Threads, ReadDownCn(t) PROVE CbInv'
  <2>1. address'[t] \in Addresses
    BY <1>3 DEF ReadDownCn, CbInv
  <2>2. QED
    BY <1>3, <2>1, CbKeep DEF ReadDownCn, callbackVars, Inside
<1>4. ASSUME NEW t \in Threads, ReadDownCb(t) PROVE CbInv'
  <2>1. HoldsCn(t)
    BY <1>4 DEF ReadDownCb, HoldsCn
  <2>2. \A u \in Threads : pc[u] \notin {"send", "await_cb", "up_cb"}
    BY <1>4, <2>1, OthersOutside DEF ReadDownCb, Inside
  <2>3. CbFree
    BY <2>2 DEF CbInv
  <2>4. cb_sem'.count = 0 /\ cb_sem'.sleepers = <<>>
    BY <1>4, <2>3 DEF ReadDownCb, CbFree, Down, TypeInv, TypeOK, SemaphoreOf
  <2>5. pc'[t] = "send"
    BY <1>4 DEF ReadDownCb, TypeInv, TypeOK
  <2>6. Phase(t)'
    BY <1>4, <2>3, <2>4, <2>5 DEF ReadDownCb, Phase, CbFree, PeersQuiet, callbackVars
  <2>7. QED
    BY <1>4, <2>1, <2>6, CbInside DEF ReadDownCb, callbackVars, Inside
<1>5. ASSUME NEW t \in Threads, ReadSend(t) PROVE CbInv'
  <2>1. HoldsCn(t)
    BY <1>5 DEF ReadSend, HoldsCn
  <2>2. PeersQuiet /\ cb_sem.count = 0 /\ cb_sem.sleepers = <<>>
    BY <1>5, <1>a DEF ReadSend, Phase
  <2>4. ASSUME NEW p \in Peers PROVE inbox'[p] = <<>> \/ inbox'[p] = <<EncodeAddress(address[t])>>
    <3>1. inbox[p] = <<>>
      BY <2>2 DEF PeersQuiet
    <3>2. inbox'[p] \in {inbox[p], Append(inbox[p], EncodeAddress(address[t]))}
      BY <1>5 DEF ReadSend
    <3>3. QED
      BY <3>1, <3>2
  <2>5. Pending(t)'
    BY <1>5, <2>2, <2>4 DEF ReadSend, Pending, PeersQuiet, callbackVars
  <2>6. pc'[t] = "await_cb"
    BY <1>5 DEF ReadSend, TypeInv, TypeOK
  <2>7. Phase(t)'
    BY <1>5, <2>2, <2>5, <2>6 DEF ReadSend, Phase
  <2>8. QED
    BY <1>5, <2>1, <2>7, CbInside DEF ReadSend, callbackVars, Inside
<1>6. ASSUME NEW t \in Threads, ReadAwaitCb(t) PROVE CbInv'
  <2>1. HoldsCn(t)
    BY <1>6 DEF ReadAwaitCb, HoldsCn
  <2>2. cb_sem \in SemaphoreOf(Threads) /\ cb_sem.sleepers = <<>>
    BY <1>6, <1>a DEF ReadAwaitCb, Phase, TypeInv, TypeOK
  <2>3. pc'[t] = "up_cb"
    BY <1>6 DEF ReadAwaitCb, TypeInv, TypeOK
  <2>4. ASSUME cb_sem.count = 0 /\ Pending(t) PROVE Phase(t)'
    <3>1. cb_sem'.count = 0 /\ cb_sem'.sleepers = <<t>>
      BY <1>6, <2>2, <2>4 DEF ReadAwaitCb, Down, SemaphoreOf
    <3>2. Pending(t)'
      BY <1>6, <2>4 DEF ReadAwaitCb, Pending, callbackVars
    <3>3. QED
      BY <2>3, <3>1, <3>2 DEF Phase
  <2>5. ASSUME cb_sem.count = 1 /\ Answered(t) PROVE Phase(t)'
    <3>1. cb_sem'.count = 0 /\ cb_sem'.sleepers = <<>>
      BY <1>6, <2>2, <2>5 DEF ReadAwaitCb, Down, SemaphoreOf
    <3>2. Answered(t)'
      BY <1>6, <2>5 DEF ReadAwaitCb, Answered, PeersQuiet, callbackVars
    <3>3. QED
      BY <2>3, <3>1, <3>2 DEF Phase
  <2>6. Phase(t)'
    BY <1>6, <1>a, <2>4, <2>5 DEF ReadAwaitCb, Phase
  <2>7. QED
    BY <1>6, <2>1, <2>6, CbInside DEF ReadAwaitCb, callbackVars, Inside
<1>7. ASSUME NEW t \in Threads, ReadUpCb(t) PROVE CbInv'
  <2>1. HoldsCn(t)
    BY <1>7 DEF ReadUpCb, HoldsCn
  <2>2. cb_sem.sleepers # <<t>>
    BY <1>7 DEF ReadUpCb, Sleeps
  <2>3. cb_sem.count = 0 /\ cb_sem.sleepers = <<>> /\ Answered(t)
    BY <1>7, <1>a, <2>2 DEF ReadUpCb, Phase
  <2>4. cb_sem'.count = 1 /\ cb_sem'.sleepers = <<>>
    BY <1>7, <2>3 DEF ReadUpCb, Up, TypeInv, TypeOK, SemaphoreOf
  <2>5. Answered(t)' /\ PeersQuiet'
    BY <1>7, <2>3 DEF ReadUpCb, Answered, PeersQuiet, callbackVars
  <2>6. pc'[t] = "copy" /\ copied'[t] = 0
    BY <1>7 DEF ReadUpCb, TypeInv, TypeOK, CopyProgress
  <2>7. Phase(t)' /\ CbFree'
    BY <2>4, <2>5, <2>6 DEF Phase, CbFree
  <2>8. QED
    BY <1>7, <2>1, <2>7, CbInside DEF ReadUpCb, callbackVars, Inside
<1>8. ASSUME NEW t \in Threads, ReadCopy(t) PROVE CbInv'
  <2>1. HoldsCn(t)
    BY <1>8 DEF ReadCopy, HoldsCn
  <2>2. Answered(t) /\ \A k \in 1 .. copied[t] : block[t][k] = EncodeAddress(address[t])
    BY <1>8, <1>a DEF ReadCopy, Phase
  <2>3. \A u \in Threads : pc[u] \notin {"send", "await_cb", "up_cb"}
    BY <1>8, <2>1, OthersOutside DEF ReadCopy, Inside
  <2>4. CbFree
    BY <2>3 DEF CbInv
  <2>5. CbFree' /\ Answered(t)'
    BY <1>8, <2>2, <2>4 DEF ReadCopy, CbFree, Answered, PeersQuiet, callbackVars
  <2>6. /\ pc'[t] = IF copied[t] + 1 = Pieces THEN "up_cn" ELSE "copy"
        /\ copied'[t] = copied[t] + 1
        /\ copied[t] \in Nat /\ copied[t] < Pieces
        /\ address'[t] = address[t]
    BY <1>8, TransportAssumption DEF ReadCopy, TypeInv, TypeOK, CopyProgress
  <2>7. \A k \in 1 .. copied[t] + 1 : block'[t][k] = EncodeAddress(address[t])
    <3>1. block'[t] = [block[t] EXCEPT ![copied[t] + 1] = read_block_buffer[copied[t] + 1]]
      BY <1>8 DEF ReadCopy, TypeInv, TypeOK
    <3>2. copied[t] + 1 \in Piece /\ 1 .. copied[t] + 1 \subseteq Piece
      BY <2>6, TransportAssumption DEF Piece
    <3>3. block[t] \in [Piece -> Contents]
      BY DEF TypeInv, TypeOK
    <3>4. read_block_buffer[copied[t] + 1] = EncodeAddress(address[t])
      BY <2>2, <3>2 DEF Answered
    <3>5. QED
      BY <2>2, <2>6, <3>1, <3>2, <3>3, <3>4
  <2>8. Phase(t)'
    BY <2>5, <2>6, <2>7 DEF Phase
  <2>9. QED
    BY <1>8, <2>1, <2>5, <2>8, CbInside DEF ReadCopy, callbackVars, Inside
<1>9. ASSUME NEW t \in Threads, ReadReturn(t) PROVE CbInv'
  <2>1. \A u \in Threads : u # t => /\ address'[u] = address[u]
                                    /\ block'[u] = block[u] /\ copied'[u] = copied[u]
    BY <1>9 DEF ReadReturn, TypeInv, TypeOK
  <2>2. QED
    BY <1>9, <2>1, CbKeep DEF ReadReturn, callbackVars, Inside
<1>10. ASSUME NEW t \in Threads, WriteReturn(t) PROVE CbInv'
  <2>1. \A u \in Threads : u # t => address'[u] = address[u]
    BY <1>10 DEF WriteReturn, TypeInv, TypeOK
  <2>2. QED
    BY <1>10, <2>1, CbKeep DEF WriteReturn, callbackVars, Inside
<1>11. ASSUME NEW p \in Peers, PeerAnswers(p) PROVE CbInv'
  <2>1. PICK t \in Threads : /\ Pending(t) /\ cb_sem.count = 0
                             /\ \/ pc[t] = "await_cb" /\ cb_sem.sleepers = <<>>
                                \/ pc[t] = "up_cb" /\ cb_sem.sleepers = <<t>>
    BY <1>11, PeerBusy DEF PeerAnswers
  <2>2. inbox[p] = <<EncodeAddress(address[t])>>
    BY <1>11, <2>1 DEF PeerAnswers, Pending
  <2>3. Head(inbox[p]) = EncodeAddress(address[t]) /\ Tail(inbox[p]) = <<>>
    BY <2>2
  <2>4. /\ inbox'[p] = <<>>
        /\ cb_pc'[p] = "trylock"
        /\ cb_msg'[p].contents = EncodeAddress(address[t])
        /\ cb_msg'[p].len >= Pieces
    BY <1>11, <2>3 DEF PeerAnswers, ServiceAssumption, TypeInv, TypeOK
  <2>5. cb_copied'[p] = 0
    BY <1>11 DEF PeerAnswers, CbInv
  <2>6. Pending(t)'
    BY <1>11, <2>4, <2>5 DEF PeerAnswers, Pending, ServiceAssumption, threadVars
  <2>7. Phase(t)'
    BY <1>11, <2>1, <2>6 DEF PeerAnswers, Phase, threadVars
  <2>8. QED
    BY <1>11, <2>1, <2>5, <2>7, CbPeer DEF PeerAnswers, ServiceAssumption, threadVars
<1>12. ASSUME NEW p \in Peers, CallbackTrylock(p) PROVE CbInv'
  <2>1. PICK t \in Threads : /\ Pending(t) /\ cb_sem.count = 0
                             /\ \/ pc[t] = "await_cb" /\ cb_sem.sleepers = <<>>
                                \/ pc[t] = "up_cb" /\ cb_sem.sleepers = <<t>>
    BY <1>12, PeerBusy DEF CallbackTrylock
  <2>2. cb_sem' = cb_sem /\ cb_pc' = [cb_pc EXCEPT ![p] = "copy"]
    BY <1>12, <2>1 DEF CallbackTrylock, Free
  <2>3. cb_pc'[p] = "copy"
    BY <2>2 DEF TypeInv, TypeOK
  <2>4. Pending(t)'
    BY <1>12, <2>1, <2>3 DEF CallbackTrylock, Pending, ServiceAssumption, threadVars
  <2>5. Phase(t)'
    BY <1>12, <2>1, <2>2, <2>4 DEF CallbackTrylock, Phase, threadVars
  <2>6. QED
    BY <1>12, <2>1, <2>3, <2>5, CbPeer DEF CallbackTrylock, ServiceAssumption, threadVars
<1>13. ASSUME NEW p \in Peers, CallbackIgnore(p) PROVE CbInv'
  <2>1. PICK t \in Threads : Pending(t)
    BY <1>13, PeerBusy DEF CallbackIgnore
  <2>2. QED
    BY <1>13, <2>1 DEF CallbackIgnore, Pending
<1>14. ASSUME NEW p \in Peers, CallbackCopy(p) PROVE CbInv'
  <2>1. PICK t \in Threads : /\ Pending(t) /\ cb_sem.count = 0
                             /\ \/ pc[t] = "await_cb" /\ cb_sem.sleepers = <<>>
                                \/ pc[t] = "up_cb" /\ cb_sem.sleepers = <<t>>
    BY <1>14, PeerBusy DEF CallbackCopy
  <2>2. /\ cb_msg[p].contents = EncodeAddress(address[t]) /\ cb_msg[p].len >= Pieces
        /\ inbox[p] = <<>>
        /\ \A k \in 1 .. cb_copied[p] : read_block_buffer[k] = EncodeAddress(address[t])
    BY <1>14, <2>1 DEF CallbackCopy, Pending
  <2>3. /\ cb_copied[p] \in Nat /\ cb_copied'[p] = cb_copied[p] + 1
        /\ cb_copied[p] + 1 \in Piece /\ 1 .. cb_copied[p] + 1 \subseteq Piece
    BY <1>14, TransportAssumption DEF CallbackCopy, CopyLength, Piece, TypeInv, TypeOK
  <2>4. \A k \in 1 .. cb_copied'[p] : read_block_buffer'[k] = EncodeAddress(address[t])
    <3>1. read_block_buffer' = [read_block_buffer EXCEPT ![cb_copied[p] + 1] = EncodeAddress(address[t])]
      BY <1>14, <2>2 DEF CallbackCopy
    <3>2. read_block_buffer \in [Piece -> Contents]
      BY DEF TypeInv, TypeOK
    <3>3. QED
      BY <2>2, <2>3, <3>1, <3>2
  <2>5. Pending(t)'
    BY <1>14, <2>2, <2>4 DEF CallbackCopy, Pending, ServiceAssumption, threadVars
  <2>6. Phase(t)'
    BY <1>14, <2>1, <2>5 DEF CallbackCopy, Phase, threadVars
  <2>7. QED
    BY <1>14, <2>1, <2>6, CbPeer DEF CallbackCopy, ServiceAssumption, threadVars
<1>15. ASSUME NEW p \in Peers, CallbackSignal(p) PROVE CbInv'
  <2>1. PICK t \in Threads : /\ Pending(t) /\ cb_sem.count = 0
                             /\ \/ pc[t] = "await_cb" /\ cb_sem.sleepers = <<>>
                                \/ pc[t] = "up_cb" /\ cb_sem.sleepers = <<t>>
    BY <1>15, PeerBusy DEF CallbackSignal
  <2>2. /\ cb_msg[p].len >= Pieces /\ inbox[p] = <<>>
        /\ \A k \in 1 .. cb_copied[p] : read_block_buffer[k] = EncodeAddress(address[t])
    BY <1>15, <2>1 DEF CallbackSignal, Pending
  <2>3. cb_copied[p] = Pieces
    BY <1>15, <2>2, TransportAssumption DEF CallbackSignal, CopyLength, TypeInv, TypeOK
  <2>4. cb_pc'[p] = "idle" /\ cb_copied'[p] = 0 /\ inbox'[p] = <<>>
    BY <1>15, <2>2 DEF CallbackSignal, TypeInv, TypeOK
  <2>5. Answered(t)'
    BY <1>15, <2>2, <2>3, <2>4 DEF CallbackSignal, Answered, PeersQuiet, Piece,
                                   ServiceAssumption, threadVars
  <2>6. /\ pc[t] = "await_cb" => cb_sem'.count = 1 /\ cb_sem'.sleepers = <<>>
        /\ pc[t] = "up_cb" => cb_sem'.count = 0 /\ cb_sem'.sleepers = <<>>
    <3>1. cb_sem' = Up(cb_sem) /\ cb_sem \in SemaphoreOf(Threads)
      BY <1>15 DEF CallbackSignal, TypeInv, TypeOK
    <3>2. pc[t] = "await_cb" => cb_sem'.count = 1 /\ cb_sem'.sleepers = <<>>
      BY <2>1, <3>1 DEF Up, SemaphoreOf
    <3>3. <<t>> # <<>> /\ Tail(<<t>>) = <<>>
      OBVIOUS
    <3>4. pc[t] = "up_cb" => cb_sem'.count = 0 /\ cb_sem'.sleepers = <<>>
      BY <2>1, <3>1, <3>3 DEF Up, SemaphoreOf
    <3>5. QED
      BY <3>2, <3>4
  <2>7. Phase(t)'
    BY <1>15, <2>1, <2>5, <2>6 DEF CallbackSignal, Phase, threadVars
  <2>8. QED
    BY <1>15, <2>1, <2>4, <2>7, CbPeer DEF CallbackSignal, ServiceAssumption, threadVars
<1>16. CASE UNCHANGED vars
  <2>1. UNCHANGED <<cb_sem, read_block_buffer, pc, address, block, copied, inbox,
                    cb_pc, cb_msg, cb_copied>>
    BY <1>16 DEF vars, threadVars, callbackVars
  <2>2. QED
    <3>1. PeersQuiet' <=> PeersQuiet
      BY <2>1 DEF PeersQuiet
    <3>2. CbFree' <=> CbFree
      BY <2>1, <3>1 DEF CbFree
    <3>3. ASSUME NEW t \in Threads PROVE Phase(t)'
      <4>1. (Pending(t)' <=> Pending(t)) /\ (Answered(t)' <=> Answered(t))
        BY <2>1, <3>1 DEF Pending, Answered
      <4>2. QED
        BY <1>a, <2>1, <3>1, <4>1 DEF Phase
    <3>4. QED
      BY <2>1, <3>2, <3>3 DEF CbInv
<1>17. QED
  BY <1>1, <1>2, <1>3, <1>4, <1>5, <1>6, <1>7, <1>8, <1>9, <1>10, <1>11, <1>12,
     <1>13, <1>14, <1>15, <1>16 DEF Next, ThreadStep, PeerStep

(* The whole invariant.                                                    *)
TransportInv == TypeInv /\ CnInv /\ CbInv

LEMMA TransportInvariance ==
    ASSUME ServiceAssumption
    PROVE  Spec => []TransportInv
<1>1. Init => TransportInv
  BY InitTypeInv, InitCnInv, InitCbInv DEF TransportInv
<1>2. TransportInv /\ [Next]_vars => TransportInv'
  BY NextTypeInv, NextCnInv, NextCbInv DEF TransportInv, ServiceAssumption
<1>3. QED
  BY <1>1, <1>2, PTL DEF Spec

(* A reader that is past its memcpy has the block it asked for.            *)
LEMMA RightWhenInvariant == TransportInv => ReadReturnsRequestedBlock
<1> SUFFICES ASSUME TransportInv, NEW t \in Threads, pc[t] = "up_cn", address[t] < 1000
             PROVE  block[t] = [k \in Piece |-> address[t]]
  BY DEF ReadReturnsRequestedBlock
<1>1. Phase(t) /\ block[t] \in [Piece -> Contents]
  BY DEF TransportInv, CbInv, TypeInv, TypeOK
<1>2. \A k \in Piece : block[t][k] = EncodeAddress(address[t])
  BY <1>1 DEF Phase, Piece
<1>3. EncodeAddress(address[t]) = address[t]
  BY DEF EncodeAddress
<1>4. QED
  BY <1>1, <1>2, <1>3

(* sjfs_read_block returns the block it was asked for, whole, as long as   *)
(* one peer answers with whole blocks, allocations succeed and its number  *)
(* has at most three digits: no thread ever leaves with another thread's   *)
(* block, whatever the interleaving, whichever requests are lost and       *)
(* whatever is cut off the numbers of others.                              *)
THEOREM ReadsAreRight ==
    ASSUME ServiceAssumption
    PROVE  Spec => []ReadReturnsRequestedBlock
BY RightWhenInvariant, TransportInvariance, PTL

(* Under the same assumption cb_sem never holds more than one unit, so no  *)
(* read can pass its wait on the strength of an earlier answer.            *)
THEOREM SignalIsBinary ==
    ASSUME ServiceAssumption
    PROVE  Spec => []SignalNeverAccumulates
<1>1. TransportInv => SignalNeverAccumulates
  <2> SUFFICES ASSUME TransportInv PROVE cb_sem.count <= 1
    BY DEF SignalNeverAccumulates
  <2>1. CASE \A t \in Threads : pc[t] \notin {"send", "await_cb", "up_cb"}
    BY <2>1 DEF TransportInv, CbInv, CbFree
  <2>2. CASE \E t \in Threads : pc[t] \in {"send", "await_cb", "up_cb"}
    <3>1. PICK t \in Threads : pc[t] \in {"send", "await_cb", "up_cb"}
      BY <2>2
    <3>2. Phase(t)
      BY DEF TransportInv, CbInv
    <3>3. QED
      BY <3>1, <3>2 DEF Phase
  <2>3. QED
    BY <2>1, <2>2
<1>2. QED
  BY <1>1, TransportInvariance, PTL

(* Under the same assumption cn_callback writes the buffer only while a    *)
(* reader waits for the answer.                                            *)
THEOREM CallbackOnlyForWaiter ==
    ASSUME ServiceAssumption
    PROVE  Spec => UnneededMessageIgnored
<1>1. ASSUME TransportInv, [Next]_vars
      PROVE  [read_block_buffer' # read_block_buffer
                 => \E t \in Threads : AwaitsAnswer(t)]_vars
  <2> SUFFICES ASSUME read_block_buffer' # read_block_buffer
               PROVE  \E t \in Threads : AwaitsAnswer(t)
    OBVIOUS
  <2>1. \E p \in Peers : CallbackCopy(p)
    BY <1>1 DEF Next, vars, ThreadStep, PeerStep, ReadBlock, WriteBlock, ReadDownCn, ReadDownCb,
                ReadSend, ReadAwaitCb, ReadUpCb, ReadCopy, ReadReturn, WriteReturn,
                PeerAnswers, CallbackTrylock, CallbackIgnore, CallbackSignal
  <2>2. PICK p \in Peers : cb_pc[p] = "copy"
    BY <2>1 DEF CallbackCopy
  <2>3. PICK t \in Threads : \/ pc[t] = "await_cb"
                             \/ pc[t] = "up_cb" /\ cb_sem.sleepers = <<t>>
    BY <1>1, <2>2, PeerBusy DEF TransportInv
  <2>4. AwaitsAnswer(t)
    <3>1. Len(<<t>>) = 1 /\ <<t>>[1] = t
      OBVIOUS
    <3>2. cb_sem.sleepers = <<t>> => Sleeps(cb_sem, t)
      BY <3>1 DEF Sleeps
    <3>3. QED
      BY <2>3, <3>2 DEF AwaitsAnswer
  <2>5. QED
    BY <2>4
<1>2. QED
  BY <1>1, TransportInvariance, PTL DEF Spec, UnneededMessageIgnored

-----------------------------------------------------------------------------
(***************************************************************************)
(* No wakeup is lost.  Nothing is assumed here about allocations or about  *)
(* how many peers answer, so mutual exclusion and the exchange above are   *)
(* not available: any number of threads may sleep on cb_sem.  It is enough *)
(* that whoever takes the unit of cb_sem gives it on: a reader to the      *)
(* request it sends, a peer to its callback, a callback to the first       *)
(* sleeper.                                                                *)
(***************************************************************************)

DeliveryAssumption == Peers # {} /\ MaxLost = 0

PeerActive == \E p \in Peers : inbox[p] # <<>> \/ cb_pc[p] # "idle"
Awake == \E u \in Threads : pc[u] \in {"send", "up_cb"} /\ ~Sleeps(cb_sem, u)

WakeInv ==
    /\ Distinct(cb_sem)
    /\ cb_sem.sleepers # <<>> => cb_sem.count = 0
    /\ \A t \in Threads : Sleeps(cb_sem, t) => pc[t] \in {"send", "up_cb"}
    /\ cb_sem.count > 0 \/ PeerActive \/ Awake

(* down(&cb_sem): the unit is now the caller's, or still where it was.     *)
LEMMA WakeDown ==
    ASSUME TypeInv, WakeInv, NEW t \in Threads, NEW l \in {"send", "up_cb"},
           pc[t] \notin {"send", "up_cb"},
           pc' = [pc EXCEPT ![t] = l],
           cb_sem' = Down(cb_sem, t),
           UNCHANGED <<inbox, cb_pc>>
    PROVE  WakeInv'
<1>1. cb_sem \in SemaphoreOf(Threads) /\ cb_sem.count \in Nat
  BY DEF TypeInv, TypeOK, SemaphoreOf
<1>2. /\ pc'[t] = l
      /\ \A u \in Threads : u # t => pc'[u] = pc[u]
  BY DEF TypeInv, TypeOK
<1>3. ~Sleeps(cb_sem, t) /\ Distinct(cb_sem)
  BY DEF WakeInv
<1>4. Distinct(cb_sem)'
  BY <1>1, <1>3, DistinctPreserved DEF Distinct
<1>5. PeerActive' <=> PeerActive
  BY DEF PeerActive
<1>6. CASE cb_sem.count > 0
  <2>1. cb_sem'.sleepers = cb_sem.sleepers /\ cb_sem.sleepers = <<>>
    BY <1>1, <1>6 DEF Down, SemaphoreOf, WakeInv
  <2>2. \A u \in Threads : Sleeps(cb_sem, u)' <=> Sleeps(cb_sem, u)
    BY <2>1 DEF Sleeps
  <2>3. Awake'
    BY <1>2, <1>3, <2>2 DEF Awake
  <2>4. \A u \in Threads : Sleeps(cb_sem, u)' => pc'[u] \in {"send", "up_cb"}
    BY <1>2, <2>2 DEF WakeInv
  <2>5. QED
    BY <1>4, <2>1, <2>3, <2>4 DEF WakeInv
<1>7. CASE cb_sem.count = 0
  <2>1. cb_sem'.count = 0
    BY <1>1, <1>7 DEF Down, SemaphoreOf
  <2>2. \A u \in Threads : Sleeps(cb_sem, u)' <=> Sleeps(cb_sem, u) \/ u = t
    BY <1>1, <1>7, SleepsAfterDown
  <2>3. Awake => Awake'
    BY <1>2, <2>2 DEF Awake
  <2>4. \A u \in Threads : Sleeps(cb_sem, u)' => pc'[u] \in {"send", "up_cb"}
    BY <1>2, <2>2 DEF WakeInv
  <2>5. PeerActive' \/ Awake'
    BY <1>5, <1>7, <2>3 DEF WakeInv
  <2>6. QED
    BY <1>4, <2>1, <2>4, <2>5 DEF WakeInv
<1>8. QED
  BY <1>1, <1>6, <1>7

(* up(&cb_sem), by a thread or by a callback: the unit is free, or the     *)
(* first sleeper's.                                                        *)
LEMMA WakeUp ==
    ASSUME TypeInv, WakeInv, cb_sem' = Up(cb_sem),
           \A u \in Threads : Sleeps(cb_sem, u) => pc'[u] = pc[u]
    PROVE  WakeInv'
<1>1. cb_sem \in SemaphoreOf(Threads) /\ cb_sem.count \in Nat /\ Distinct(cb_sem)
  BY DEF TypeInv, TypeOK, SemaphoreOf, WakeInv
<1>2. CASE cb_sem.sleepers = <<>>
  <2>1. cb_sem'.count > 0 /\ cb_sem'.sleepers = <<>>
    BY <1>1, <1>2 DEF Up, SemaphoreOf
  <2>2. Distinct(cb_sem)' /\ \A u \in Threads : ~Sleeps(cb_sem, u)'
    BY <2>1 DEF Distinct, Sleeps
  <2>3. QED
    BY <2>1, <2>2 DEF WakeInv
<1>3. CASE cb_sem.sleepers # <<>>
  <2> DEFINE h == Head(cb_sem.sleepers)
  <2>1. h \in Threads
    BY <1>1, <1>3 DEF SemaphoreOf
  <2>2. Sleeps(cb_sem, h)
    BY <1>1, <1>3, <2>1, SleepsAfterUp
  <2>3. \A u \in Threads : Sleeps(cb_sem, u)' <=> Sleeps(cb_sem, u) /\ u # h
    BY <1>1, <1>3, SleepsAfterUp
  <2>4. cb_sem'.count = 0
    BY <1>1, <1>3 DEF Up, SemaphoreOf, WakeInv
  <2>5. Distinct(cb_sem)'
    <3>1. Distinct(Up(cb_sem))
      BY <1>1, <2>1, DistinctPreserved
    <3>2. QED
      BY <3>1 DEF Distinct
  <2> HIDE DEF h
  <2>6. \A u \in Threads : Sleeps(cb_sem, u)' => pc'[u] \in {"send", "up_cb"}
    BY <2>3 DEF WakeInv
  <2>7. Awake'
    BY <2>1, <2>2, <2>3 DEF Awake, WakeInv
  <2>8. QED
    BY <2>4, <2>5, <2>6, <2>7 DEF WakeInv
<1>4. QED
  BY <1>2, <1>3

(* A step that leaves cb_sem alone, and the holder of the unit in place.   *)
LEMMA WakeKeep ==
    ASSUME WakeInv, cb_sem' = cb_sem,
           \A u \in Threads : pc[u] \in {"send", "up_cb"} => pc'[u] = pc[u] \/ PeerActive',
           \A u \in Threads : Sleeps(cb_sem, u) => pc'[u] = pc[u],
           PeerActive => PeerActive'
    PROVE  WakeInv'
<1>1. \A u \in Threads : Sleeps(cb_sem, u)' <=> Sleeps(cb_sem, u)
  BY DEF Sleeps
<1>2. Distinct(cb_sem)'
  BY DEF WakeInv, Distinct
<1>3. Awake => Awake' \/ PeerActive'
  BY <1>1 DEF Awake
<1>4. cb_sem'.count > 0 \/ PeerActive' \/ Awake'
  BY <1>3 DEF WakeInv
<1>5. QED
  BY <1>1, <1>2, <1>4 DEF WakeInv

LEMMA InitWakeInv == Init => WakeInv
<1> SUFFICES ASSUME Init PROVE WakeInv
  OBVIOUS
<1>1. cb_sem.count = 1 /\ cb_sem.sleepers = <<>>
  BY DEF Init, SemaInit
<1>2. Distinct(cb_sem) /\ \A t \in Threads : ~Sleeps(cb_sem, t)
  BY <1>1 DEF Distinct, Sleeps
<1>3. QED
  BY <1>1, <1>2 DEF WakeInv

(* A request that is sent reaches a peer, or every peer has requests.      *)
LEMMA SendReaches ==
    ASSUME DeliveryAssumption, TypeInv, NEW t \in Threads, ReadSend(t)
    PROVE  PeerActive'
<1>1. PICK p \in Peers : TRUE
  BY DEF DeliveryAssumption
<1>2. ~(lost < MaxLost)
  BY DEF DeliveryAssumption, TypeInv, TypeOK
<1>3. inbox'[p] = IF p \in Listening THEN Append(inbox[p], EncodeAddress(address[t])) ELSE inbox[p]
  BY <1>2 DEF ReadSend
<1>4. inbox[p] \in Seq(Contents)
  BY DEF TypeInv, TypeOK
<1>5. CASE p \in Listening
  <2>1. Append(inbox[p], EncodeAddress(address[t])) # <<>>
    BY <1>4
  <2>2. QED
    BY <1>3, <1>5, <2>1 DEF PeerActive
<1>6. CASE p \notin Listening
  <2>1. Len(inbox[p]) # 0
    BY <1>4, <1>6, TransportAssumption DEF Listening
  <2>2. inbox'[p] # <<>>
    BY <1>3, <1>4, <1>6, <2>1
  <2>3. QED
    BY <2>2 DEF PeerActive
<1>7. QED
  BY <1>5, <1>6

LEMMA NextWakeInv == DeliveryAssumption /\ TypeInv /\ WakeInv /\ [Next]_vars => WakeInv'
<1> SUFFICES ASSUME DeliveryAssumption, TypeInv, WakeInv, [Next]_vars PROVE WakeInv'
  OBVIOUS
<1>a. \A t \in Threads : pc[t] \notin {"send", "up_cb"} => ~Sleeps(cb_sem, t)
  BY DEF WakeInv
<1>1. ASSUME NEW t \in Threads, NEW l, pc' = [pc EXCEPT ![t] = l],
             pc[t] \notin {"send", "up_cb"}, cb_sem' = cb_sem, UNCHANGED <<inbox, cb_pc>>
      PROVE  WakeInv'
  <2>1. \A u \in Threads : u # t => pc'[u] = pc[u]
    BY <1>1 DEF TypeInv, TypeOK
  <2>2. PeerActive => PeerActive'
    BY <1>1 DEF PeerActive
  <2>3. QED
    BY <1>1, <1>a, <2>1, <2>2, WakeKeep
<1>2. ASSUME NEW t \in Threads, NEW a \in Addresses, ReadBlock(t, a) \/ WriteBlock(t, a)
      PROVE  WakeInv'
  BY <1>1, <1>2 DEF ReadBlock, WriteBlock, callbackVars
<1>3. ASSUME NEW t \in Threads, ReadDownCn(t) \/ ReadCopy(t) \/ ReadReturn(t) \/ WriteReturn(t)
      PROVE  WakeInv'
  BY <1>1, <1>3 DEF ReadDownCn, ReadCopy, ReadReturn, WriteReturn, callbackVars
<1>4. ASSUME NEW t \in Threads, ReadDownCb(t) PROVE WakeInv'
  BY <1>4, WakeDown DEF ReadDownCb, callbackVars
<1>5. ASSUME NEW t \in Threads, ReadSend(t) PROVE WakeInv'
  <2>1. PeerActive'
    BY <1>5, SendReaches
  <2>2. \A u \in Threads : u # t => pc'[u] = pc[u]
    BY <1>5 DEF ReadSend, TypeInv, TypeOK
  <2>3. ~Sleeps(cb_sem, t) /\ cb_sem' = cb_sem
    BY <1>5 DEF ReadSend
  <2>4. QED
    BY <2>1, <2>2, <2>3, WakeKeep
<1>6. ASSUME NEW t \in Threads, ReadAwaitCb(t) PROVE WakeInv'
  BY <1>6, WakeDown DEF ReadAwaitCb, callbackVars
<1>7. ASSUME NEW t \in Threads, ReadUpCb(t) PROVE WakeInv'
  <2>1. \A u \in Threads : u # t => pc'[u] = pc[u]
    BY <1>7 DEF ReadUpCb, TypeInv, TypeOK
  <2>2. QED
    BY <1>7, <2>1, WakeUp DEF ReadUpCb
<1>8. ASSUME NEW p \in Peers, CallbackIgnore(p) \/ CallbackSignal(p) PROVE WakeInv'
  BY <1>8, WakeUp DEF CallbackIgnore, CallbackSignal, threadVars
<1>9. ASSUME NEW p \in Peers, cb_pc'[p] # "idle", cb_sem' = cb_sem, pc' = pc PROVE WakeInv'
  <2>1. PeerActive'
    BY <1>9 DEF PeerActive
  <2>2. QED
    BY <1>9, <2>1, WakeKeep
<1>10. ASSUME NEW p \in Peers, PeerAnswers(p) PROVE WakeInv'
  <2>1. cb_pc'[p] # "idle"
    BY <1>10 DEF PeerAnswers, TypeInv, TypeOK
  <2>2. QED
    BY <1>9, <1>10, <2>1 DEF PeerAnswers, threadVars
<1>11. ASSUME NEW p \in Peers, CallbackTrylock(p) PROVE WakeInv'
  <2>1. cb_pc'[p] # "idle" /\ pc' = pc
    BY <1>11 DEF CallbackTrylock, TypeInv, TypeOK, threadVars
  <2>2. CASE cb_sem' = cb_sem
    BY <1>9, <2>1, <2>2
  <2>3. CASE Free(cb_sem) /\ cb_sem' = Take(cb_sem)
    <3>1. cb_sem \in SemaphoreOf(Threads)
      BY DEF TypeInv, TypeOK
    <3>2. cb_sem'.sleepers = cb_sem.sleepers /\ cb_sem.sleepers = <<>>
      BY <2>3, <3>1 DEF Free, Take, SemaphoreOf, WakeInv
    <3>3. Distinct(cb_sem)' /\ \A t \in Threads : ~Sleeps(cb_sem, t)'
      BY <3>2 DEF Distinct, Sleeps
    <3>4. PeerActive'
      BY <2>1 DEF PeerActive
    <3>5. QED
      BY <3>2, <3>3, <3>4 DEF WakeInv
  <2>4. QED
    BY <1>11, <2>2, <2>3 DEF CallbackTrylock
<1>12. ASSUME NEW p \in Peers, CallbackCopy(p) PROVE WakeInv'
  BY <1>9, <1>12 DEF CallbackCopy, threadVars
<1>13. CASE UNCHANGED vars
  <2>1. UNCHANGED <<cb_sem, pc, inbox, cb_pc>>
    BY <1>13 DEF vars, threadVars, callbackVars
  <2>2. PeerActive => PeerActive'
    BY <2>1 DEF PeerActive
  <2>3. QED
    BY <2>1, <2>2, WakeKeep
<1>14. QED
  BY <1>2, <1>3, <1>4, <1>5, <1>6, <1>7, <1>8, <1>10, <1>11, <1>12, <1>13
     DEF Next, ThreadStep, PeerStep

(* No reader is left asleep on cb_sem with nobody to wake it, for any      *)
(* number of threads and of peers, with failing allocations too and with   *)
(* the torn exchanges they cause: only a request that no peer receives can *)
(* strand one.                                                             *)
THEOREM NobodyStranded ==
    ASSUME DeliveryAssumption
    PROVE  Spec => []NoStrandedReader
<1>1. TypeInv /\ WakeInv => NoStrandedReader
  <2> SUFFICES ASSUME TypeInv, WakeInv, NEW t \in Threads, Sleeps(cb_sem, t)
               PROVE  PeerActive \/ Awake
    BY DEF NoStrandedReader, PeerActive, Awake
  <2>1. cb_sem.sleepers # <<>>
    BY DEF Sleeps
  <2>2. QED
    BY <2>1 DEF WakeInv
<1>2. Init => TypeInv /\ WakeInv
  BY InitTypeInv, InitWakeInv
<1>3. (TypeInv /\ WakeInv) /\ [Next]_vars => (TypeInv /\ WakeInv)'
  BY NextTypeInv, NextWakeInv
<1>4. QED
  BY <1>1, <1>2, <1>3, PTL DEF Spec
=============================================================================
