--------------------------- MODULE BlockTransport ---------------------------
(***************************************************************************)
(* The socket level of the kernel module: how sjfs_read_block and          *)
(* sjfs_write_block share one netlink connector and one static buffer, and *)
(* how cn_callback hands the answer of user space to the sleeping reader.  *)
(*                                                                         *)
(*   cn_sem  serialises the users of the connector (initially 1);          *)
(*   cb_sem  is a signal: a reader takes it before it sends its request    *)
(*           and takes it again, sleeping, until cn_callback gives it back.*)
(*                                                                         *)
(* A thread's program counter names the statement it executes next.  A     *)
(* thread that has entered down() and sleeps keeps the counter of the      *)
(* statement after it, and that statement's action is guarded by the       *)
(* thread not sleeping.                                                    *)
(*                                                                         *)
(* A peer is a process on the other end of the connector that answers      *)
(* requests.  The connector runs cn_callback in the sender's context, so   *)
(* the callbacks of one peer are sequential and those of two peers are     *)
(* concurrent.  Requests are multicast: every peer gets its own copy.      *)
(*                                                                         *)
(* Data.  The contents of the block with address n is the value n: no      *)
(* operation of the program changes a block on disk.  A block is copied    *)
(* piece by piece (Pieces of them), so that two concurrent memcpy calls    *)
(* can tear it.  m->seq and cn_counter are left out: both ends only print  *)
(* them, no condition reads them.                                          *)
(***************************************************************************)
EXTENDS Integers, Sequences, Semaphore

CONSTANTS
    Threads,        \* kernel threads that call the two functions
    Peers,          \* user processes that answer read requests
    Addresses,      \* block addresses the threads ask for
    Pieces,         \* a block (SJFS_BLOCKSIZE bytes) is copied in this many pieces
    ReplyLengths,   \* msg->len of the answers, in pieces
    InboxCapacity,  \* requests that fit in a peer's socket receive buffer
    MaxAllocFailures,   \* bound: calls of kzalloc(GFP_ATOMIC) that return NULL
    MaxLost         \* bound: sends that miss a peer whose buffer has room

ASSUME TransportAssumption ==
    /\ Addresses \subseteq Nat
    /\ Pieces \in Nat \ {0}
    /\ ReplyLengths \subseteq Nat
    /\ InboxCapacity \in Nat \ {0}
    /\ MaxAllocFailures \in Nat
    /\ MaxLost \in Nat

VARIABLES
    cn_sem, cb_sem,       \* the two semaphores
    read_block_buffer,    \* the static buffer, piece by piece
    pc,                   \* next statement of each thread
    address,              \* argument of the thread's call
    block,                \* destination buffer of the thread's call
    copied,               \* pieces the thread's memcpy has copied
    inbox,                \* requests delivered to a peer, not yet answered
    cb_pc, cb_msg,        \* next statement and message of the peer's cn_callback
    cb_copied,            \* pieces the callback's memcpy has copied
    allocFailures, lost   \* failed allocations and lost sends so far

threadVars == <<pc, address, block, copied>>
callbackVars == <<cb_pc, cb_msg, cb_copied>>
faultVars == <<allocFailures, lost>>
vars == <<cn_sem, cb_sem, read_block_buffer, threadVars, inbox, callbackVars, faultVars>>

Zeroes == -1                              \* contents of a piece never written
Piece == 1 .. Pieces
Blank == [k \in Piece |-> Zeroes]
NoMessage == [contents |-> Zeroes, len |-> 0]

(***************************************************************************)
(* The request is printed with scnprintf("%c%u", opcode, address) into     *)
(* five bytes: the opcode, a terminating zero, and what is left for the    *)
(* decimal digits of the address, its three leading ones.                  *)
(***************************************************************************)
EncodeAddress(a) ==
    IF a < 1000
    THEN a
    ELSE CHOOSE n \in 100 .. 999 : \E k \in 1 .. 7 : n = a \div 10^k

(***************************************************************************)
(* sjfs_read_block.                                                        *)
(***************************************************************************)

(* Entry.  kzalloc fails or builds the request; when it fails the whole    *)
(* sending branch, both downs included, is skipped.                        *)
ReadBlock(t, a) ==
    /\ pc[t] = "idle"
    /\ address' = [address EXCEPT ![t] = a]
    /\ \/ /\ pc' = [pc EXCEPT ![t] = "down_cn"]
          /\ UNCHANGED allocFailures
       \/ /\ allocFailures < MaxAllocFailures
          /\ allocFailures' = allocFailures + 1
          /\ pc' = [pc EXCEPT ![t] = "await_cb"]
    /\ UNCHANGED <<cn_sem, cb_sem, read_block_buffer, block, copied, inbox, callbackVars, lost>>

(* Mutant of ReadDownCn: the connector is not locked.                      *)
ReadDownCnForgotten(t) ==
    /\ pc[t] = "down_cn"
    /\ pc' = [pc EXCEPT ![t] = "down_cb"]
    /\ UNCHANGED <<cn_sem, cb_sem, read_block_buffer, address, block, copied, inbox, callbackVars, faultVars>>

ReadDownCn(t) ==
    /\ pc[t] = "down_cn"
    /\ cn_sem' = Down(cn_sem, t)
    /\ pc' = [pc EXCEPT ![t] = "down_cb"]
    /\ UNCHANGED <<cb_sem, read_block_buffer, address, block, copied, inbox, callbackVars, faultVars>>

(* Mutant of ReadDownCb: the signal is not taken before the request is     *)
(* sent, so the reader does not wait for the answer.                       *)
ReadDownCbForgotten(t) ==
    /\ pc[t] = "down_cb"
    /\ ~Sleeps(cn_sem, t)
    /\ pc' = [pc EXCEPT ![t] = "send"]
    /\ UNCHANGED <<cn_sem, cb_sem, read_block_buffer, address, block, copied, inbox, callbackVars, faultVars>>

ReadDownCb(t) ==
    /\ pc[t] = "down_cb"
    /\ ~Sleeps(cn_sem, t)
    /\ cb_sem' = Down(cb_sem, t)
    /\ pc' = [pc EXCEPT ![t] = "send"]
    /\ UNCHANGED <<cn_sem, read_block_buffer, address, block, copied, inbox, callbackVars, faultVars>>

(* The peers whose socket can take one more request.                       *)
Listening == {p \in Peers : Len(inbox[p]) < InboxCapacity}

(* cn_netlink_send multicasts the request; its result is ignored, so a     *)
(* copy that finds no listener or no buffer space is silently lost.        *)
ReadSend(t) ==
    /\ pc[t] = "send"
    /\ ~Sleeps(cb_sem, t)
    /\ \E reached \in SUBSET Listening :
          /\ inbox' = [p \in Peers |-> IF p \in reached
                                       THEN Append(inbox[p], EncodeAddress(address[t]))
                                       ELSE inbox[p]]
          /\ \/ reached = Listening /\ lost' = lost
             \/ reached # Listening /\ lost < MaxLost /\ lost' = lost + 1
    /\ pc' = [pc EXCEPT ![t] = "await_cb"]
    /\ UNCHANGED <<cn_sem, cb_sem, read_block_buffer, address, block, copied, callbackVars, allocFailures>>

(* Mutant of ReadAwaitCb: the reader does not wait.                        *)
ReadAwaitCbForgotten(t) ==
    /\ pc[t] = "await_cb"
    /\ pc' = [pc EXCEPT ![t] = "up_cb"]
    /\ UNCHANGED <<cn_sem, cb_sem, read_block_buffer, address, block, copied, inbox, callbackVars, faultVars>>

(* The second down(&cb_sem): sleeps until the callback.                    *)
ReadAwaitCb(t) ==
    /\ pc[t] = "await_cb"
    /\ cb_sem' = Down(cb_sem, t)
    /\ pc' = [pc EXCEPT ![t] = "up_cb"]
    /\ UNCHANGED <<cn_sem, read_block_buffer, address, block, copied, inbox, callbackVars, faultVars>>

(* Mutant of ReadUpCb: the wait is repeated.                               *)
ReadUpCbWaitsAgain(t) ==
    /\ pc[t] = "up_cb"
    /\ ~Sleeps(cb_sem, t)
    /\ cb_sem' = Up(cb_sem)
    /\ pc' = [pc EXCEPT ![t] = "await_cb"]
    /\ UNCHANGED <<cn_sem, read_block_buffer, address, block, copied, inbox, callbackVars, faultVars>>

ReadUpCb(t) ==
    /\ pc[t] = "up_cb"
    /\ ~Sleeps(cb_sem, t)
    /\ cb_sem' = Up(cb_sem)
    /\ pc' = [pc EXCEPT ![t] = "copy"]
    /\ UNCHANGED <<cn_sem, read_block_buffer, address, block, copied, inbox, callbackVars, faultVars>>

(* memcpy(block, read_block_buffer, SJFS_BLOCKSIZE), one piece.            *)
ReadCopy(t) ==
    /\ pc[t] = "copy"
    /\ block' = [block EXCEPT ![t][copied[t] + 1] = read_block_buffer[copied[t] + 1]]
    /\ copied' = [copied EXCEPT ![t] = @ + 1]
    /\ pc' = [pc EXCEPT ![t] = IF copied[t] + 1 = Pieces THEN "up_cn" ELSE "copy"]
    /\ UNCHANGED <<cn_sem, cb_sem, read_block_buffer, address, inbox, callbackVars, faultVars>>

(* Mutant of ReadReturn: the wrong semaphore is released.                  *)
ReadReturnUpsCb(t) ==
    /\ pc[t] = "up_cn"
    /\ cb_sem' = Up(cb_sem)
    /\ pc' = [pc EXCEPT ![t] = "idle"]
    /\ address' = [address EXCEPT ![t] = Zeroes]
    /\ block' = [block EXCEPT ![t] = Blank]
    /\ copied' = [copied EXCEPT ![t] = 0]
    /\ UNCHANGED <<cn_sem, read_block_buffer, inbox, callbackVars, faultVars>>

(* up(&cn_sem) and return; the caller's frame is forgotten.                *)
ReadReturn(t) ==
    /\ pc[t] = "up_cn"
    /\ cn_sem' = Up(cn_sem)
    /\ pc' = [pc EXCEPT ![t] = "idle"]
    /\ address' = [address EXCEPT ![t] = Zeroes]
    /\ block' = [block EXCEPT ![t] = Blank]
    /\ copied' = [copied EXCEPT ![t] = 0]
    /\ UNCHANGED <<cb_sem, read_block_buffer, inbox, callbackVars, faultVars>>

(***************************************************************************)
(* sjfs_write_block: between the two semaphore operations it only has a    *)
(* comment where the request would be sent.                                *)
(***************************************************************************)
WriteBlock(t, a) ==
    /\ pc[t] = "idle"
    /\ address' = [address EXCEPT ![t] = a]
    /\ cn_sem' = Down(cn_sem, t)
    /\ pc' = [pc EXCEPT ![t] = "write"]
    /\ UNCHANGED <<cb_sem, read_block_buffer, block, copied, inbox, callbackVars, faultVars>>

WriteReturn(t) ==
    /\ pc[t] = "write"
    /\ ~Sleeps(cn_sem, t)
    /\ cn_sem' = Up(cn_sem)
    /\ pc' = [pc EXCEPT ![t] = "idle"]
    /\ address' = [address EXCEPT ![t] = Zeroes]
    /\ UNCHANGED <<cb_sem, read_block_buffer, block, copied, inbox, callbackVars, faultVars>>

(***************************************************************************)
(* The peer (external) takes a request from its socket and sends the block *)
(* it names; the connector then calls cn_callback.                         *)
(***************************************************************************)
PeerAnswers(p) ==
    /\ cb_pc[p] = "idle"
    /\ inbox[p] # <<>>
    /\ \E n \in ReplyLengths :
          cb_msg' = [cb_msg EXCEPT ![p] = [contents |-> Head(inbox[p]), len |-> n]]
    /\ inbox' = [inbox EXCEPT ![p] = Tail(@)]
    /\ cb_pc' = [cb_pc EXCEPT ![p] = "trylock"]
    /\ UNCHANGED <<cn_sem, cb_sem, read_block_buffer, threadVars, cb_copied, faultVars>>

(***************************************************************************)
(* cn_callback.                                                            *)
(***************************************************************************)

(* down_trylock: when it gets the semaphore no read is taken to be waiting.*)
CallbackTrylock(p) ==
    /\ cb_pc[p] = "trylock"
    /\ \/ /\ Free(cb_sem)
          /\ cb_sem' = Take(cb_sem)
          /\ cb_pc' = [cb_pc EXCEPT ![p] = "ignore"]
       \/ /\ ~Free(cb_sem)
          /\ cb_pc' = [cb_pc EXCEPT ![p] = "copy"]
          /\ UNCHANGED cb_sem
    /\ UNCHANGED <<cn_sem, read_block_buffer, threadVars, inbox, cb_msg, cb_copied, faultVars>>

CallbackIgnore(p) ==
    /\ cb_pc[p] = "ignore"
    /\ cb_sem' = Up(cb_sem)
    /\ cb_pc' = [cb_pc EXCEPT ![p] = "idle"]
    /\ cb_msg' = [cb_msg EXCEPT ![p] = NoMessage]
    /\ UNCHANGED <<cn_sem, read_block_buffer, threadVars, inbox, cb_copied, faultVars>>

(* Mutant of CopyLength: the length of the message is trusted.             *)
CopyLengthUnclipped(m) == m.len

(* min(msg->len, SJFS_BLOCKSIZE), in pieces.                               *)
CopyLength(m) == IF m.len > Pieces THEN Pieces ELSE m.len

(* memcpy(read_block_buffer, msg->data, ...), one piece.                   *)
CallbackCopy(p) ==
    /\ cb_pc[p] = "copy"
    /\ cb_copied[p] < CopyLength(cb_msg[p])
    /\ read_block_buffer' = [read_block_buffer EXCEPT ![cb_copied[p] + 1] = cb_msg[p].contents]
    /\ cb_copied' = [cb_copied EXCEPT ![p] = @ + 1]
    /\ UNCHANGED <<cn_sem, cb_sem, threadVars, inbox, cb_pc, cb_msg, faultVars>>

(* Mutant of CallbackSignal: the reader is not woken.                      *)
CallbackSignalForgotten(p) ==
    /\ cb_pc[p] = "copy"
    /\ cb_copied[p] = CopyLength(cb_msg[p])
    /\ cb_pc' = [cb_pc EXCEPT ![p] = "idle"]
    /\ cb_msg' = [cb_msg EXCEPT ![p] = NoMessage]
    /\ cb_copied' = [cb_copied EXCEPT ![p] = 0]
    /\ UNCHANGED <<cn_sem, cb_sem, read_block_buffer, threadVars, inbox, faultVars>>

(* up(&cb_sem) after the copy: the signal the reader sleeps for.           *)
CallbackSignal(p) ==
    /\ cb_pc[p] = "copy"
    /\ cb_copied[p] = CopyLength(cb_msg[p])
    /\ cb_sem' = Up(cb_sem)
    /\ cb_pc' = [cb_pc EXCEPT ![p] = "idle"]
    /\ cb_msg' = [cb_msg EXCEPT ![p] = NoMessage]
    /\ cb_copied' = [cb_copied EXCEPT ![p] = 0]
    /\ UNCHANGED <<cn_sem, read_block_buffer, threadVars, inbox, faultVars>>

(***************************************************************************)
(* The specification.  sjfs_init initialises both semaphores to 1; the     *)
(* static buffer starts zeroed.                                            *)
(***************************************************************************)
Init ==
    /\ cn_sem = SemaInit(1)
    /\ cb_sem = SemaInit(1)
    /\ read_block_buffer = Blank
    /\ pc = [t \in Threads |-> "idle"]
    /\ address = [t \in Threads |-> Zeroes]
    /\ block = [t \in Threads |-> Blank]
    /\ copied = [t \in Threads |-> 0]
    /\ inbox = [p \in Peers |-> <<>>]
    /\ cb_pc = [p \in Peers |-> "idle"]
    /\ cb_msg = [p \in Peers |-> NoMessage]
    /\ cb_copied = [p \in Peers |-> 0]
    /\ allocFailures = 0
    /\ lost = 0

(* A step of a call already made.                                          *)
ThreadStep(t) ==
    \/ ReadDownCn(t) \/ ReadDownCb(t) \/ ReadSend(t) \/ ReadAwaitCb(t)
    \/ ReadUpCb(t) \/ ReadCopy(t) \/ ReadReturn(t) \/ WriteReturn(t)

PeerStep(p) ==
    \/ PeerAnswers(p) \/ CallbackTrylock(p) \/ CallbackIgnore(p)
    \/ CallbackCopy(p) \/ CallbackSignal(p)

Next ==
    \/ \E t \in Threads, a \in Addresses : ReadBlock(t, a) \/ WriteBlock(t, a)
    \/ \E t \in Threads : ThreadStep(t)
    \/ \E p \in Peers : PeerStep(p)

Spec == Init /\ [][Next]_vars

(* Runnable kernel threads are scheduled, and a peer that serves its       *)
(* socket in a loop answers what it receives.  Nobody has to call.         *)
Fairness ==
    /\ \A t \in Threads : WF_vars(ThreadStep(t))
    /\ \A p \in Peers : WF_vars(PeerStep(p))

FairSpec == Spec /\ Fairness

-----------------------------------------------------------------------------
(***************************************************************************)
(* Properties.                                                             *)
(***************************************************************************)

ThreadPc == {"idle", "down_cn", "down_cb", "send", "await_cb", "up_cb", "copy", "up_cn", "write"}
CallbackPc == {"idle", "trylock", "ignore", "copy"}
Contents == {EncodeAddress(a) : a \in Addresses} \cup {Zeroes}

(* Every variable keeps its type; in particular no memcpy runs past the    *)
(* end of read_block_buffer or of the caller's block.                      *)
TypeOK ==
    /\ cn_sem \in SemaphoreOf(Threads)
    /\ cb_sem \in SemaphoreOf(Threads)
    /\ read_block_buffer \in [Piece -> Contents]
    /\ pc \in [Threads -> ThreadPc]
    /\ address \in [Threads -> Addresses \cup {Zeroes}]
    /\ block \in [Threads -> [Piece -> Contents]]
    /\ copied \in [Threads -> 0 .. Pieces]
    /\ inbox \in [Peers -> Seq(Contents)]
    /\ cb_pc \in [Peers -> CallbackPc]
    /\ cb_msg \in [Peers -> [contents : Contents, len : ReplyLengths \cup {0}]]
    /\ cb_copied \in [Peers -> 0 .. Pieces]
    /\ allocFailures \in 0 .. MaxAllocFailures
    /\ lost \in 0 .. MaxLost

(* The thread is past its down(&cn_sem) and has not executed the up.       *)
HoldsCn(t) ==
    \/ pc[t] \in {"send", "await_cb", "up_cb", "copy", "up_cn"}
    \/ pc[t] \in {"down_cb", "write"} /\ ~Sleeps(cn_sem, t)

(* cn_sem makes the transfer of a block exclusive: from the down to the up *)
(* of cn_sem there is never a second thread, reader or writer.             *)
MutualExclusion == \A t, u \in Threads : HoldsCn(t) /\ HoldsCn(u) => t = u

(* Two threads are never both between down(&cn_sem) and cn_netlink_send.   *)
OneSender ==
    \A t, u \in Threads :
        /\ pc[t] = "send" \/ (pc[t] = "down_cb" /\ ~Sleeps(cn_sem, t))
        /\ pc[u] = "send" \/ (pc[u] = "down_cb" /\ ~Sleeps(cn_sem, u))
        => t = u

(* When sjfs_read_block is about to return, the caller's buffer holds the  *)
(* block it asked for, whole: not the answer to another request, not a mix.*)
(* Its number has to fit in the request; those of other threads may not.   *)
ReadReturnsRequestedBlock ==
    \A t \in Threads :
        pc[t] = "up_cn" /\ address[t] < 1000 => block[t] = [k \in Piece |-> address[t]]

(* cb_sem is used as a binary signal: it never collects a second unit,     *)
(* which would let a later read return without waiting for its answer.     *)
SignalNeverAccumulates == cb_sem.count <= 1

(* The thread has sent its request and still waits for the callback.       *)
AwaitsAnswer(t) == pc[t] = "await_cb" \/ (pc[t] = "up_cb" /\ Sleeps(cb_sem, t))

(* "if we dont need a read, just do nothing": a message changes the        *)
(* buffer only while some reader waits for an answer.                      *)
UnneededMessageIgnored ==
    [][read_block_buffer' # read_block_buffer => \E t \in Threads : AwaitsAnswer(t)]_vars

(* No wakeup is lost: when a thread sleeps on cb_sem somebody will give it *)
(* up, a thread that is past its own wait or has still to send, or a peer  *)
(* with a request to answer or a callback under way.                       *)
NoStrandedReader ==
    \A t \in Threads :
        Sleeps(cb_sem, t) =>
            \/ \E p \in Peers : inbox[p] # <<>> \/ cb_pc[p] # "idle"
            \/ \E u \in Threads : pc[u] \in {"send", "up_cb"} /\ ~Sleeps(cb_sem, u)

(* Every call returns: no reader or writer waits forever.                  *)
CallsReturn == \A t \in Threads : pc[t] # "idle" ~> pc[t] = "idle"

(* The socket level implements the block service: one call at a time, and  *)
(* the requested block.                                                    *)
Service == INSTANCE BlockService WITH
    op      <- [t \in Threads |-> IF pc[t] \in {"idle", "write"} THEN pc[t] ELSE "read"],
    arg     <- address,
    result  <- [t \in Threads |-> IF pc[t] = "up_cn" THEN block[t] ELSE Blank],
    serving <- {t \in Threads : HoldsCn(t)}

ImplementsBlockService == Service!Spec
=============================================================================
