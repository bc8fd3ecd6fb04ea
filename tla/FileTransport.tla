---------------------------- MODULE FileTransport ----------------------------
(***************************************************************************)
(* Backup plan a: file reads and writes sent to user space over the        *)
(* connector, with the two semaphores of the socket level used in another  *)
(* order (the request is allocated after the downs) and a buffer that the  *)
(* callback allocates.  Loading and unloading of the module are part of it.*)
(*                                                                         *)
(* A read request is a number; it stands for the inode, the position and   *)
(* the count of bytes, Bytes[r], which may be 0.  The answer to r carries  *)
(* r and has as many bytes.  A write request is the number WriteRequest:   *)
(* nobody answers it.  The sequence number is left out: both ends only     *)
(* print it.                                                               *)
(*                                                                         *)
(* The helper as committed receives requests and drops them, because a     *)
(* break stands before its do_work().  The processes of the variable       *)
(* answering are others that answer (external); the connector runs the     *)
(* callback in their context.                                              *)
(***************************************************************************)
EXTENDS Integers, Sequences, FiniteSets, Semaphore

CONSTANTS
    Threads,        \* kernel threads that read and write files
    Peers,          \* processes bound to the multicast group
    Requests,       \* read requests
    Bytes,          \* the count of bytes of each
    InboxCapacity,  \* requests that fit in a socket's receive buffer
    MaxLoads,       \* bound: insmod
    MaxFaults       \* bound: failed allocations and system calls

WriteRequest == 0
None == -1          \* no request; NULL

ASSUME FileAssumption ==
    /\ Requests \subseteq Nat \ {WriteRequest}
    /\ Bytes \in [Requests -> Nat]
    /\ InboxCapacity \in Nat \ {0}
    /\ MaxLoads \in Nat /\ MaxFaults \in Nat

VARIABLES
    module,             \* "unloaded", "loaded", "oops" (in rmmod)
    callback,           \* the connector calls cn_sjfs_callback
    cn_sem, cb_sem,
    sjfs_read_buffer,   \* NULL or [bytes, data]: its size, and whose answer it holds
    pc, request,        \* next statement and packet of each thread
    got,                \* what copy_to_user gave the reader: a buffer, or NULL
    answering,          \* peers that answer reads
    inbox,              \* requests in each peer's socket
    cb_pc, cb_msg,      \* next statement and answer of the peer's callback
    loads, faults,      \* used up of the bounds
    overrun             \* a read request found no room with any peer that answers

moduleVars == <<module, callback, loads>>
threadVars == <<pc, request, got>>
peerVars == <<answering, inbox, cb_pc, cb_msg>>
vars == <<moduleVars, cn_sem, cb_sem, sjfs_read_buffer, threadVars, peerVars, faults, overrun>>

NULL == [bytes |-> None, data |-> None]
Fault == faults < MaxFaults /\ faults' = faults + 1
Goto(t, l) == pc' = [pc EXCEPT ![t] = l]

(***************************************************************************)
(* Loading and unloading.                                                  *)
(***************************************************************************)

(* init_sjfs_fs: when cn_add_callback fails nothing is left behind; when   *)
(* register_filesystem fails the callback stays registered.                *)
InitModule ==
    /\ module = "unloaded"
    /\ loads < MaxLoads
    /\ loads' = loads + 1
    /\ cn_sem' = SemaInit(1)
    /\ cb_sem' = SemaInit(1)
    /\ sjfs_read_buffer' = NULL
    /\ \/ /\ ~callback
          /\ module' = "loaded"
          /\ callback' = TRUE
          /\ UNCHANGED faults
       \/ Fault /\ UNCHANGED <<module, callback>>
       \/ Fault /\ callback' = TRUE /\ UNCHANGED module
       \/ callback /\ UNCHANGED <<module, callback, faults>>
    /\ UNCHANGED <<threadVars, peerVars, overrun>>

(* exit_sjfs_fs, which the kernel does not call while files are in use.    *)
(* cn_del_callback does not wait for a callback under way, which is left   *)
(* without code.  Both semaphores are given to kfree, though they are      *)
(* static: rmmod may end in an oops.                                       *)
ExitModule ==
    /\ module = "loaded"
    /\ \A t \in Threads : pc[t] = "idle"
    /\ callback' = FALSE
    /\ module' \in {"unloaded", "oops"}
    /\ cb_pc' = [p \in Peers |-> IF cb_pc[p] \in {"idle", "exited"} THEN cb_pc[p] ELSE "oops"]
    /\ UNCHANGED <<loads, cn_sem, cb_sem, sjfs_read_buffer, threadVars, answering, inbox, cb_msg, faults, overrun>>

(***************************************************************************)
(* sjfs_fops_read and sjfs_fops_write.                                     *)
(***************************************************************************)

Ended == {"exited", "oops"}

HasRoom(p) == Len(inbox[p]) < InboxCapacity /\ cb_pc[p] \notin Ended

(* cn_netlink_send: a copy for every peer with room.                       *)
Multicast(r) ==
    inbox' = [p \in Peers |-> IF HasRoom(p) THEN Append(inbox[p], r) ELSE inbox[p]]

(* The packet and down(&cn_sem).                                           *)
Enter(t, r, l) ==
    /\ module = "loaded"
    /\ pc[t] = "idle"
    /\ request' = [request EXCEPT ![t] = r]
    /\ cn_sem' = Down(cn_sem, t)
    /\ Goto(t, l)
    /\ UNCHANGED <<moduleVars, cb_sem, sjfs_read_buffer, got, peerVars, faults, overrun>>

Read(t, r) == Enter(t, r, "down_cb")
Write(t) == Enter(t, WriteRequest, "write")

ReadDownCb(t) ==
    /\ pc[t] = "down_cb"
    /\ ~Sleeps(cn_sem, t)
    /\ cb_sem' = Down(cb_sem, t)
    /\ Goto(t, "send")
    /\ UNCHANGED <<moduleVars, cn_sem, sjfs_read_buffer, request, got, peerVars, faults, overrun>>

(* Mutant of ReadSend: without memory cn_sem is released, and again at the *)
(* end.                                                                    *)
ReadSendReleases(t) ==
    /\ pc[t] = "send"
    /\ ~Sleeps(cb_sem, t)
    /\ Fault
    /\ cn_sem' = Up(cn_sem)
    /\ cb_sem' = Up(cb_sem)
    /\ Goto(t, "up_cn")
    /\ UNCHANGED <<moduleVars, sjfs_read_buffer, request, got, peerVars, overrun>>

(* Without memory for the message nothing is sent, and the reader waits    *)
(* all the same.                                                           *)
ReadSend(t) ==
    /\ pc[t] = "send"
    /\ ~Sleeps(cb_sem, t)
    /\ \/ /\ Multicast(request[t])
          /\ overrun' = (overrun \/ \A p \in answering : ~HasRoom(p))
          /\ UNCHANGED faults
       \/ Fault /\ UNCHANGED <<inbox, overrun>>
    /\ Goto(t, "await_cb")
    /\ UNCHANGED <<moduleVars, cn_sem, cb_sem, sjfs_read_buffer, request, got, answering, cb_pc, cb_msg>>

(* Mutant of ReadAwaitCb: the reader does not wait.                        *)
ReadAwaitCbForgotten(t) ==
    /\ pc[t] = "await_cb"
    /\ Goto(t, "up_cb")
    /\ UNCHANGED <<moduleVars, cn_sem, cb_sem, sjfs_read_buffer, request, got, peerVars, faults, overrun>>

ReadAwaitCb(t) ==
    /\ pc[t] = "await_cb"
    /\ cb_sem' = Down(cb_sem, t)
    /\ Goto(t, "up_cb")
    /\ UNCHANGED <<moduleVars, cn_sem, sjfs_read_buffer, request, got, peerVars, faults, overrun>>

ReadUpCb(t) ==
    /\ pc[t] = "up_cb"
    /\ ~Sleeps(cb_sem, t)
    /\ cb_sem' = Up(cb_sem)
    /\ Goto(t, "copy")
    /\ UNCHANGED <<moduleVars, cn_sem, sjfs_read_buffer, request, got, peerVars, faults, overrun>>

(* copy_to_user: from NULL it copies nothing, and its result is ignored.   *)
ReadCopy(t) ==
    /\ pc[t] = "copy"
    /\ got' = [got EXCEPT ![t] = sjfs_read_buffer]
    /\ Goto(t, "up_cn")
    /\ UNCHANGED <<moduleVars, cn_sem, cb_sem, sjfs_read_buffer, request, peerVars, faults, overrun>>

(* Two allocations, and copy_from_user returns the bytes it did not copy:  *)
(* the request is sent only when that is count, which is so for a write of *)
(* no bytes, and for another one when its first byte faults.               *)
WriteSend(t) ==
    /\ pc[t] = "write"
    /\ ~Sleeps(cn_sem, t)
    /\ Multicast(request[t]) \/ UNCHANGED inbox
    /\ Fault \/ UNCHANGED faults
    /\ Goto(t, "up_cn")
    /\ UNCHANGED <<moduleVars, cn_sem, cb_sem, sjfs_read_buffer, request, got, answering, cb_pc, cb_msg, overrun>>

(* up(&cn_sem) and return count, of either function.                       *)
Return(t) ==
    /\ pc[t] = "up_cn"
    /\ cn_sem' = Up(cn_sem)
    /\ request' = [request EXCEPT ![t] = None]
    /\ got' = [got EXCEPT ![t] = NULL]
    /\ Goto(t, "idle")
    /\ UNCHANGED <<moduleVars, cb_sem, sjfs_read_buffer, peerVars, faults, overrun>>

(***************************************************************************)
(* The peer: main() of the helper.                                         *)
(***************************************************************************)
GotoCb(p, l) == cb_pc' = [cb_pc EXCEPT ![p] = l]

(* poll, recv and the switch, which drops every message; a process that    *)
(* answers then sends to the connector, which finds a callback, perhaps    *)
(* one whose code is gone, or none.                                        *)
Recv(p) ==
    /\ cb_pc[p] = "idle"
    /\ inbox[p] # <<>>
    /\ inbox' = [inbox EXCEPT ![p] = Tail(@)]
    /\ IF p \in answering /\ Head(inbox[p]) # WriteRequest /\ callback
       THEN GotoCb(p, IF module = "loaded" THEN "trylock" ELSE "oops") /\ cb_msg' = [cb_msg EXCEPT ![p] = Head(inbox[p])]
       ELSE UNCHANGED <<cb_pc, cb_msg>>
    /\ UNCHANGED <<moduleVars, cn_sem, cb_sem, sjfs_read_buffer, threadVars, answering, faults, overrun>>

(* A failed socket, bind, poll or recv ends the helper.                    *)
RecvFails(p) ==
    /\ cb_pc[p] = "idle"
    /\ Fault
    /\ GotoCb(p, "exited")
    /\ inbox' = [inbox EXCEPT ![p] = <<>>]
    /\ UNCHANGED <<moduleVars, cn_sem, cb_sem, sjfs_read_buffer, threadVars, answering, cb_msg, overrun>>

(***************************************************************************)
(* cn_sjfs_callback.                                                       *)
(***************************************************************************)

(* Mutant of CallbackTrylock: the result of the trylock is not looked at.  *)
CallbackTrylockUnchecked(p) ==
    /\ cb_pc[p] = "trylock"
    /\ cb_sem' = Take(cb_sem)
    /\ GotoCb(p, "alloc")
    /\ UNCHANGED <<moduleVars, cn_sem, sjfs_read_buffer, threadVars, answering, inbox, cb_msg, faults, overrun>>

(* down_trylock: when it gets the semaphore no read is taken to be waiting.*)
CallbackTrylock(p) ==
    /\ cb_pc[p] = "trylock"
    /\ \/ Free(cb_sem) /\ cb_sem' = Take(cb_sem) /\ GotoCb(p, "ignore")
       \/ ~Free(cb_sem) /\ UNCHANGED cb_sem /\ GotoCb(p, "alloc")
    /\ UNCHANGED <<moduleVars, cn_sem, sjfs_read_buffer, threadVars, answering, inbox, cb_msg, faults, overrun>>

(* sjfs_read_buffer = kzalloc(packet->count): the old one is forgotten.    *)
CallbackAlloc(p) ==
    /\ cb_pc[p] = "alloc"
    /\ \/ /\ sjfs_read_buffer' = [bytes |-> Bytes[cb_msg[p]], data |-> None]
          /\ UNCHANGED faults
       \/ Fault /\ sjfs_read_buffer' = NULL
    /\ GotoCb(p, "copy")
    /\ UNCHANGED <<moduleVars, cn_sem, cb_sem, threadVars, answering, inbox, cb_msg, overrun>>

(* memcpy, if there is a buffer: whichever is there by now.                *)
CallbackCopy(p) ==
    /\ cb_pc[p] = "copy"
    /\ sjfs_read_buffer' = IF sjfs_read_buffer = NULL THEN NULL
                           ELSE [sjfs_read_buffer EXCEPT !.data = cb_msg[p]]
    /\ GotoCb(p, "signal")
    /\ UNCHANGED <<moduleVars, cn_sem, cb_sem, threadVars, answering, inbox, cb_msg, faults, overrun>>

(* Mutant of CallbackUp: the reader is not woken.                         *)
CallbackUpForgotten(p) ==
    /\ cb_pc[p] \in {"ignore", "signal"}
    /\ cb_msg' = [cb_msg EXCEPT ![p] = None]
    /\ GotoCb(p, "return")
    /\ UNCHANGED <<moduleVars, cn_sem, cb_sem, sjfs_read_buffer, threadVars, answering, inbox, faults, overrun>>

(* up(&cb_sem), after the trylock or after the copy.  A reader that is     *)
(* woken goes on while the callback is still to return.                    *)
CallbackUp(p) ==
    /\ cb_pc[p] \in {"ignore", "signal"}
    /\ cb_sem' = Up(cb_sem)
    /\ cb_msg' = [cb_msg EXCEPT ![p] = None]
    /\ GotoCb(p, "return")
    /\ UNCHANGED <<moduleVars, cn_sem, sjfs_read_buffer, threadVars, answering, inbox, faults, overrun>>

CallbackReturn(p) ==
    /\ cb_pc[p] = "return"
    /\ GotoCb(p, "idle")
    /\ UNCHANGED <<moduleVars, cn_sem, cb_sem, sjfs_read_buffer, threadVars, answering, inbox, cb_msg, faults, overrun>>

Init ==
    /\ module = "unloaded" /\ callback = FALSE
    /\ cn_sem = SemaInit(1) /\ cb_sem = SemaInit(1)
    /\ sjfs_read_buffer = NULL
    /\ pc = [t \in Threads |-> "idle"]
    /\ request = [t \in Threads |-> None]
    /\ got = [t \in Threads |-> NULL]
    /\ answering \in SUBSET Peers
    /\ inbox = [p \in Peers |-> <<>>]
    /\ cb_pc = [p \in Peers |-> "idle"]
    /\ cb_msg = [p \in Peers |-> None]
    /\ loads = 0 /\ faults = 0 /\ overrun = FALSE

ThreadStep(t) ==
    \/ ReadDownCb(t) \/ ReadSend(t) \/ ReadAwaitCb(t) \/ ReadUpCb(t) \/ ReadCopy(t)
    \/ WriteSend(t) \/ Return(t)

PeerStep(p) ==
    \/ Recv(p)
    \/ CallbackTrylock(p) \/ CallbackAlloc(p) \/ CallbackCopy(p) \/ CallbackUp(p) \/ CallbackReturn(p)

Next ==
    \/ InitModule \/ ExitModule
    \/ \E t \in Threads : (\E r \in Requests : Read(t, r)) \/ Write(t) \/ ThreadStep(t)
    \/ \E p \in Peers : PeerStep(p) \/ RecvFails(p)

Spec == Init /\ [][Next]_vars

-----------------------------------------------------------------------------
(***************************************************************************)
(* Properties.                                                             *)
(***************************************************************************)
Buffer == [bytes : {Bytes[r] : r \in Requests} \cup {None}, data : Requests \cup {None}]

(* Every variable keeps its type.                                          *)
TypeOK ==
    /\ module \in {"unloaded", "loaded", "oops"} /\ callback \in BOOLEAN
    /\ cn_sem \in SemaphoreOf(Threads) /\ cb_sem \in SemaphoreOf(Threads)
    /\ sjfs_read_buffer \in Buffer
    /\ pc \in [Threads -> {"idle", "down_cb", "send", "await_cb", "up_cb", "copy", "write", "up_cn"}]
    /\ request \in [Threads -> Requests \cup {WriteRequest, None}]
    /\ got \in [Threads -> Buffer]
    /\ answering \subseteq Peers
    /\ inbox \in [Peers -> Seq(Requests \cup {WriteRequest})]
    /\ cb_pc \in [Peers -> {"idle", "trylock", "ignore", "alloc", "copy", "signal", "return"} \cup Ended]
    /\ cb_msg \in [Peers -> Requests \cup {None}]
    /\ loads \in 0 .. MaxLoads /\ faults \in 0 .. MaxFaults /\ overrun \in BOOLEAN

HoldsCn(t) == pc[t] # "idle" /\ ~Sleeps(cn_sem, t)

(* cn_sem admits one reader or writer at a time, whatever fails: unlike    *)
(* in the socket level every path that reaches the up went through the     *)
(* down.                                                                   *)
MutualExclusion == \A t, u \in Threads : HoldsCn(t) /\ HoldsCn(u) => t = u

OneAnswers == Cardinality(answering) <= 1

(* When one process answers, a read returns the answer to its own request, *)
(* and copy_to_user stays inside the buffer; or the buffer could not be    *)
(* allocated, and it returns nothing.                                      *)
ReadGetsOwnAnswer ==
    OneAnswers => \A t \in Threads :
        pc[t] = "up_cn" /\ request[t] # WriteRequest =>
            got[t] \in {NULL, [bytes |-> Bytes[request[t]], data |-> request[t]]}

(* When one process answers, rmmod takes the code away from no callback    *)
(* that has more to do than to return: a reader has its answer, and the    *)
(* callback is past its up(&cb_sem), before the file can be closed and the *)
(* module removed.  Nor does an answer enter a callback that a failed      *)
(* register_filesystem has left registered.                                *)
OnlyReturnLosesCode ==
    [][OneAnswers => \A p \in Peers :
          cb_pc[p] # "oops" /\ cb_pc'[p] = "oops" => cb_pc[p] = "return"]_vars

Healthy ==
    /\ answering # {}
    /\ faults = 0 /\ ~overrun
    /\ \A p \in Peers : cb_pc[p] # "oops"

HasReadRequest(s) == \E i \in 1 .. Len(s) : s[i] # WriteRequest

(* A peer that answers has a read request before it, or an answer it has   *)
(* not signalled.                                                          *)
Answers(p) == HasReadRequest(inbox[p]) \/ cb_pc[p] \in {"trylock", "ignore", "alloc", "copy", "signal"}

(* A reader sleeps on cb_sem without an answer or another thread's up on   *)
(* the way only if nobody answers, something failed, or writes that nobody *)
(* had taken yet filled the socket when a request was sent.                *)
NoStrandedReader ==
    Healthy /\ (\E t \in Threads : Sleeps(cb_sem, t)) =>
        \/ \E p \in answering : Answers(p)
        \/ \E u \in Threads : pc[u] \in {"send", "up_cb"} /\ ~Sleeps(cb_sem, u)
=============================================================================
