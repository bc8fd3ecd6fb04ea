---------------------------- MODULE HelperProcess ----------------------------
(***************************************************************************)
(* The user space application, sjfs_helper: main() with its lock file,     *)
(* options, format() of a new disk, netlink socket, poll loop and          *)
(* do_work().  Several invocations may run at once, started by sjfs_init   *)
(* or by a user; they share the lock file, the disk image and the          *)
(* multicast group of the connector.                                       *)
(*                                                                         *)
(* Data.  The disk image is its length in bytes, or Absent.  A message is  *)
(* its nlmsg_type.  The pid file lock is the set of processes that hold it *)
(* (flock is released when the process ends).  Once an instance runs       *)
(* without the lock two may write the image, each at its own offset, and   *)
(* its length is not exact any more; no property is about it then.         *)
(*                                                                         *)
(* The file uses BLOCK_SIZE and MIN_BLOCKS, which blocks.h spells          *)
(* SJFS_BLOCKSIZE and SJFS_MIN_BLOCKS; sizeof(sb) and sizeof(zeroBlock)    *)
(* are the size of a pointer.                                              *)
(***************************************************************************)
EXTENDS Integers, Sequences

CONSTANTS
    Processes,      \* invocations of the helper that may run at the same time
    CommandLines,   \* [new : BOOLEAN, size : Int, file : BOOLEAN]: -n, its value, <filename>
    DiskLengths,    \* possible lengths of the image before anything runs
    PointerSize,    \* sizeof of a pointer
    QueueCapacity,  \* messages that fit in a socket's receive buffer
    MaxStarts,      \* bound: invocations
    MaxMessages,    \* bound: messages from the kernel
    MaxFaults       \* bound: system calls that fail, signals included

BLOCK_SIZE == 1024
MIN_BLOCKS == 6
Absent == -1

ASSUME HelperAssumption ==
    /\ CommandLines \subseteq [new : BOOLEAN, size : Int, file : BOOLEAN]
    /\ DiskLengths \subseteq Nat \cup {Absent}
    /\ PointerSize \in Nat \ {0}
    /\ QueueCapacity \in Nat \ {0}
    /\ MaxStarts \in Nat /\ MaxMessages \in Nat /\ MaxFaults \in Nat

VARIABLES
    pc,         \* next statement of each process, "off" when it does not run
    args,       \* its command line
    filled,     \* bytes format() has counted, its loop variable i
    lock,       \* processes that hold the flock
    disk,       \* length of the disk image
    queue,      \* messages in each process's socket
    short,      \* processes whose format() had an fwrite that failed
    unprotected,    \* an instance has gone on without the lock
    starts, messages, faults    \* used up of the bounds

vars == <<pc, args, filled, lock, disk, queue, short, unprotected, starts, messages, faults>>

NoArgs == [new |-> FALSE, size |-> 0, file |-> FALSE]

Goto(p, l) == pc' = [pc EXCEPT ![p] = l]

(* The process ends: the kernel closes its files, which frees the flock    *)
(* and leaves the multicast group.                                         *)
Exit(p) ==
    /\ Goto(p, "off")
    /\ args' = [args EXCEPT ![p] = NoArgs]
    /\ filled' = [filled EXCEPT ![p] = 0]
    /\ lock' = lock \ {p}
    /\ queue' = [queue EXCEPT ![p] = <<>>]
    /\ short' = short \ {p}

(* A system call of p fails.                                               *)
Fault == faults < MaxFaults /\ faults' = faults + 1

local == <<args, filled, lock, queue, short>>
outer == <<unprotected, starts, messages>>

Start(p, c) ==
    /\ pc[p] = "off"
    /\ starts < MaxStarts
    /\ starts' = starts + 1
    /\ Goto(p, "protect")
    /\ args' = [args EXCEPT ![p] = c]
    /\ UNCHANGED <<filled, lock, disk, queue, short, unprotected, messages, faults>>

(* open() or flock() fails for another reason than EWOULDBLOCK: main goes  *)
(* on without the lock.                                                    *)
GoesUnprotected(p) ==
    /\ Fault
    /\ unprotected' = TRUE
    /\ Goto(p, "options")
    /\ UNCHANGED local

TakesLock(p) ==
    /\ lock = {}
    /\ lock' = {p}
    /\ Goto(p, "options")
    /\ UNCHANGED <<args, filled, queue, short, unprotected, faults>>

(* Mutants of Protect: EWOULDBLOCK is not fatal; LOCK_NB is missing.       *)
ProtectIgnoresLock(p) ==
    /\ pc[p] = "protect"
    /\ \/ GoesUnprotected(p)
       \/ TakesLock(p)
       \/ lock # {} /\ Goto(p, "options") /\ UNCHANGED <<local, unprotected, faults>>
    /\ UNCHANGED <<disk, starts, messages>>

ProtectWaits(p) ==
    /\ pc[p] = "protect"
    /\ GoesUnprotected(p) \/ TakesLock(p)
    /\ UNCHANGED <<disk, starts, messages>>

(* open() and flock(LOCK_EX | LOCK_NB).  Only EWOULDBLOCK ends the program:*)
(* when the pid file cannot be opened flock fails with EBADF.              *)
Protect(p) ==
    /\ pc[p] = "protect"
    /\ \/ GoesUnprotected(p)
       \/ TakesLock(p)
       \/ lock # {} /\ Exit(p) /\ UNCHANGED <<unprotected, faults>>
    /\ UNCHANGED <<disk, starts, messages>>

(* getopt, the check of -n and of <filename>; a disk is formatted when -n  *)
(* is given.                                                               *)
ParseOptions(p) ==
    /\ pc[p] = "options"
    /\ IF (args[p].new => args[p].size >= MIN_BLOCKS) /\ args[p].file
       THEN Goto(p, IF args[p].new THEN "format" ELSE "open") /\ UNCHANGED local
       ELSE Exit(p)
    /\ UNCHANGED <<disk, outer, faults>>

(***************************************************************************)
(* format().                                                               *)
(***************************************************************************)

(* What has reached the image when format() is cut short or a flush fails: *)
(* the stream is buffered, so any beginning of what was written.           *)
Flushed == 0 .. disk

(* Mutant of FormatOpen: the image is opened "ab".                         *)
FormatOpenAppends(p) ==
    /\ pc[p] = "format"
    /\ disk' = IF disk = Absent THEN 0 ELSE disk
    /\ Goto(p, "superblock")
    /\ UNCHANGED <<local, faults, outer>>

(* calloc and fopen(filename, "wb"), which truncates the image.            *)
FormatOpen(p) ==
    /\ pc[p] = "format"
    /\ \/ /\ Fault
          /\ Exit(p)
          /\ UNCHANGED disk
       \/ /\ disk' = 0
          /\ Goto(p, "superblock")
          /\ UNCHANGED <<local, faults>>
    /\ UNCHANGED outer

(* The superblock: sizeof(sb) bytes.  A short write ends the program, and  *)
(* so does calloc of the zero block after it.                              *)
FormatSuperblock(p) ==
    /\ pc[p] = "superblock"
    /\ \/ /\ Fault
          /\ Exit(p)
          /\ disk' \in {disk, disk + PointerSize}
       \/ /\ disk' = disk + PointerSize
          /\ filled' = [filled EXCEPT ![p] = BLOCK_SIZE]
          /\ Goto(p, "fill")
          /\ UNCHANGED <<args, lock, queue, short, faults>>
    /\ UNCHANGED outer

(* One turn of the loop over i: sizeof(zeroBlock) bytes.  When the buffer  *)
(* is full and cannot be written out it is lost with this piece and        *)
(* earlier ones; the result of fwrite is not looked at.                    *)
FormatFill(p) ==
    /\ pc[p] = "fill"
    /\ filled[p] < args[p].size
    /\ filled' = [filled EXCEPT ![p] = @ + BLOCK_SIZE]
    /\ \/ Fault /\ disk' \in Flushed /\ short' = short \cup {p}
       \/ disk' = disk + PointerSize /\ UNCHANGED <<short, faults>>
    /\ UNCHANGED <<pc, args, lock, queue, outer>>

(* fclose writes out the buffer and decides what format() returns; it does *)
(* not report an fwrite that failed before.                                *)
FormatClose(p) ==
    /\ pc[p] = "fill"
    /\ filled[p] >= args[p].size
    /\ \/ /\ Fault
          /\ Exit(p)
          /\ disk' \in Flushed
       \/ /\ Goto(p, "open")
          /\ UNCHANGED <<local, disk, faults>>
    /\ UNCHANGED outer

(***************************************************************************)
(* Disk file and socket.                                                   *)
(***************************************************************************)

(* fopen(filename, "a+b") creates the image when there is none.            *)
OpenDisk(p) ==
    /\ pc[p] = "open"
    /\ \/ /\ Fault
          /\ Exit(p)
          /\ UNCHANGED disk
       \/ /\ disk' = IF disk = Absent THEN 0 ELSE disk
          /\ Goto(p, "socket")
          /\ UNCHANGED <<local, faults>>
    /\ UNCHANGED outer

(* socket() and bind() to every group: from here the process receives.     *)
SocketBind(p) ==
    /\ pc[p] = "socket"
    /\ \/ /\ Fault
          /\ Exit(p)
       \/ /\ Goto(p, "poll")
          /\ UNCHANGED <<local, faults>>
    /\ UNCHANGED <<disk, outer>>

(***************************************************************************)
(* The loop.                                                               *)
(***************************************************************************)
Bound == {"poll", "recv", "work", "cleanup"}

(* Mutant of Poll: an interrupted call falls through to recv.              *)
PollFallsThrough(p) ==
    /\ pc[p] = "poll"
    /\ \/ queue[p] # <<>> /\ Goto(p, "recv") /\ UNCHANGED faults
       \/ Fault /\ Goto(p, "recv")
       \/ Fault /\ Goto(p, "cleanup")
    /\ UNCHANGED <<local, disk, outer>>

(* poll(-1): a message is there; or EINTR, try again; or another error,    *)
(* which sets need_exit.                                                   *)
Poll(p) ==
    /\ pc[p] = "poll"
    /\ \/ queue[p] # <<>> /\ Goto(p, "recv") /\ UNCHANGED faults
       \/ Fault /\ UNCHANGED pc
       \/ Fault /\ Goto(p, "cleanup")
    /\ UNCHANGED <<local, disk, outer>>

(* Mutant of Recv: the message stays in the socket (MSG_PEEK).             *)
RecvPeeks(p) ==
    /\ pc[p] = "recv"
    /\ Goto(p, IF Head(queue[p]) = "NLMSG_DONE" THEN "work" ELSE "poll")
    /\ UNCHANGED <<local, disk, outer, faults>>

(* recv and the switch on nlmsg_type: an error skips the packet, and only  *)
(* NLMSG_DONE is worked on.                                                *)
Recv(p) ==
    /\ pc[p] = "recv"
    /\ \/ /\ Fault
          /\ Goto(p, "poll")
          /\ UNCHANGED queue
       \/ /\ Goto(p, IF Head(queue[p]) = "NLMSG_DONE" THEN "work" ELSE "poll")
          /\ queue' = [queue EXCEPT ![p] = Tail(@)]
          /\ UNCHANGED faults
    /\ UNCHANGED <<args, filled, lock, short, disk, outer>>

(* Mutant of DoWork: a write request is carried out on the "a+b" stream,   *)
(* which appends wherever the seek went.                                   *)
DoWorkAppends(p) ==
    /\ pc[p] = "work"
    /\ disk' = disk + BLOCK_SIZE
    /\ Goto(p, "poll")
    /\ UNCHANGED <<local, outer, faults>>

(* do_work: seeks, and every case of the switch on the opcode ends without *)
(* an answer.  A failed seek is reported and the loop goes on.             *)
DoWork(p) ==
    /\ pc[p] = "work"
    /\ Goto(p, "poll")
    /\ UNCHANGED <<local, disk, outer, faults>>

Cleanup(p) ==
    /\ pc[p] = "cleanup"
    /\ Exit(p)
    /\ UNCHANGED <<disk, outer, faults>>

(***************************************************************************)
(* The surroundings (external): the kernel multicasts to every bound       *)
(* socket that has room; a process can be killed at any point.             *)
(***************************************************************************)
Deliver(type) ==
    /\ messages < MaxMessages
    /\ messages' = messages + 1
    /\ queue' = [p \in Processes |->
                    IF pc[p] \in Bound /\ Len(queue[p]) < QueueCapacity
                    THEN Append(queue[p], type) ELSE queue[p]]
    /\ UNCHANGED <<pc, args, filled, lock, disk, short, unprotected, starts, faults>>

Kill(p) ==
    /\ pc[p] # "off"
    /\ Fault
    /\ Exit(p)
    /\ disk' \in IF pc[p] \in {"superblock", "fill"} THEN Flushed ELSE {disk}
    /\ UNCHANGED outer

MessageTypes == {"NLMSG_DONE", "NLMSG_ERROR"}

Init ==
    /\ pc = [p \in Processes |-> "off"]
    /\ args = [p \in Processes |-> NoArgs]
    /\ filled = [p \in Processes |-> 0]
    /\ lock = {}
    /\ disk \in DiskLengths
    /\ queue = [p \in Processes |-> <<>>]
    /\ short = {}
    /\ unprotected = FALSE
    /\ starts = 0
    /\ messages = 0
    /\ faults = 0

ProcessStep(p) ==
    \/ Protect(p) \/ ParseOptions(p)
    \/ FormatOpen(p) \/ FormatSuperblock(p) \/ FormatFill(p) \/ FormatClose(p)
    \/ OpenDisk(p) \/ SocketBind(p)
    \/ Poll(p) \/ Recv(p) \/ DoWork(p) \/ Cleanup(p)

Next ==
    \/ \E p \in Processes, c \in CommandLines : Start(p, c)
    \/ \E p \in Processes : ProcessStep(p) \/ Kill(p)
    \/ \E m \in MessageTypes : Deliver(m)

Spec == Init /\ [][Next]_vars

(* The scheduler runs a process that can run; nothing has to fail.         *)
FairSpec == Spec /\ \A p \in Processes : WF_vars(ProcessStep(p) /\ UNCHANGED faults)

-----------------------------------------------------------------------------
(***************************************************************************)
(* Properties.                                                             *)
(***************************************************************************)
ProcessPc == {"off", "protect", "options", "format", "superblock", "fill", "open",
              "socket", "poll", "recv", "work", "cleanup"}

(* Every variable keeps its type; recv never runs without a message.       *)
TypeOK ==
    /\ pc \in [Processes -> ProcessPc]
    /\ args \in [Processes -> CommandLines \cup {NoArgs}]
    /\ filled \in [Processes -> Nat]
    /\ lock \subseteq Processes
    /\ disk \in Nat \cup {Absent}
    /\ queue \in [Processes -> Seq(MessageTypes)]
    /\ \A p \in Processes : pc[p] = "recv" => queue[p] # <<>>
    /\ short \subseteq Processes /\ unprotected \in BOOLEAN
    /\ starts \in 0 .. MaxStarts /\ messages \in 0 .. MaxMessages /\ faults \in 0 .. MaxFaults

Running(p) == pc[p] \notin {"off", "protect"}

(* "only allow a single instance of this program to be run at any given    *)
(* time": two processes are never both past the protection, as long as     *)
(* every instance that went on could open and lock the pid file.           *)
SingleInstance == ~unprotected => \A p, q \in Processes : Running(p) /\ Running(q) => p = q

(* While a process has the disk file open and serves it, nobody formats    *)
(* or grows the image, with the same proviso.                              *)
ServedDiskIsStable ==
    [][~unprotected /\ (\E p \in Processes : pc[p] \in {"socket"} \cup Bound) => disk' = disk]_vars

(* Bytes that format() writes for a size: one piece for the superblock and *)
(* one for each turn of its loop.                                          *)
ImageLength(size) == PointerSize * (1 + (size - 1) \div BLOCK_SIZE)

(* An instance that was asked for a new disk serves the one it formatted,  *)
(* of the length that belongs to its size, shorter if an fwrite failed:    *)
(* nothing is left of an older image, nor of one whose format() failed or  *)
(* was killed half way.                                                    *)
ServesItsFormat ==
    ~unprotected => \A p \in Processes :
        pc[p] \in {"open", "socket"} \cup Bound /\ args[p].new =>
            /\ p \notin short => disk = ImageLength(args[p].size)
            /\ p \in short => disk \in 0 .. ImageLength(args[p].size) - 1

(* An invocation never waits for another one, though it may find the lock  *)
(* taken by one that stays: it ends or reaches the loop.                   *)
StartSettles ==
    \A p \in Processes : pc[p] # "off" ~> pc[p] \in {"off"} \cup Bound

(* The loop keeps draining the socket, through failed receives, other      *)
(* message types and interrupted polls.                                    *)
MessagesConsumed == \A p \in Processes : queue[p] # <<>> ~> queue[p] = <<>>
=============================================================================
