------------------------ MODULE HelperProcessProofs ------------------------
(***************************************************************************)
(* Proofs about HelperProcess, for any number of invocations.              *)
(***************************************************************************)
EXTENDS HelperProcess, TLAPS

(***************************************************************************)
(* Type correctness.                                                       *)
(***************************************************************************)

(* The end of a process keeps the types of what it resets.                 *)
LEMMA ExitType ==
    ASSUME TypeOK, NEW p \in Processes, Exit(p)
    PROVE  /\ pc' \in [Processes -> ProcessPc]
           /\ args' \in [Processes -> CommandLines \cup {NoArgs}]
           /\ filled' \in [Processes -> Nat]
           /\ lock' \subseteq Processes /\ short' \subseteq Processes
           /\ queue' \in [Processes -> Seq(MessageTypes)]
           /\ \A q \in Processes : pc'[q] = "recv" => queue'[q] # <<>>
BY DEF TypeOK, Exit, Goto, ProcessPc

LEMMA FaultType == TypeOK /\ Fault => faults' \in 0 .. MaxFaults
BY HelperAssumption DEF TypeOK, Fault

LEMMA FlushedType == Flushed \subseteq Nat
BY DEF Flushed

(* A step of p to another statement than recv that only touches its loop   *)
(* variable, the image and the count of faults.                            *)
LEMMA MoveType ==
    ASSUME TypeOK, NEW p \in Processes, NEW l \in ProcessPc \ {"recv"},
           pc' = [pc EXCEPT ![p] = l],
           UNCHANGED <<args, lock, queue, short, unprotected, starts, messages>>,
           filled' \in [Processes -> Nat],
           disk' \in Nat \cup {Absent},
           faults' \in 0 .. MaxFaults
    PROVE  TypeOK'
BY DEF TypeOK

LEMMA ExitKeepsType ==
    ASSUME TypeOK, NEW p \in Processes, Exit(p), UNCHANGED <<unprotected, starts, messages>>,
           disk' \in Nat \cup {Absent},
           faults' \in 0 .. MaxFaults
    PROVE  TypeOK'
BY ExitType DEF TypeOK

LEMMA InitType == Init => TypeOK
<1> SUFFICES ASSUME Init PROVE TypeOK
  OBVIOUS
<1>1. unprotected \in BOOLEAN
  BY DEF Init
<1>2. disk \in Nat \cup {Absent} /\ faults \in 0 .. MaxFaults
  BY HelperAssumption DEF Init
<1>3. starts \in 0 .. MaxStarts /\ messages \in 0 .. MaxMessages
  BY HelperAssumption DEF Init
<1>4. pc \in [Processes -> ProcessPc] /\ \A p \in Processes : pc[p] = "off"
  BY DEF Init, ProcessPc
<1>5. QED
  BY <1>1, <1>2, <1>3, <1>4 DEF Init, TypeOK

LEMMA NextType == TypeOK /\ [Next]_vars => TypeOK'
<1> SUFFICES ASSUME TypeOK, [Next]_vars PROVE TypeOK'
  OBVIOUS
<1> USE HelperAssumption
<1> USE DEF Goto, ProcessPc, local, outer
<1>1. ASSUME NEW p \in Processes, NEW c \in CommandLines, Start(p, c) PROVE TypeOK'
  BY <1>1 DEF Start, TypeOK
<1>2. ASSUME NEW p \in Processes, Protect(p) PROVE TypeOK'
  <2>1. CASE GoesUnprotected(p)
    BY <1>2, <2>1, FaultType DEF Protect, GoesUnprotected, TypeOK
  <2>2. CASE TakesLock(p)
    BY <1>2, <2>2 DEF Protect, TakesLock, TypeOK
  <2>3. CASE Exit(p) /\ UNCHANGED <<unprotected, faults>>
    BY <1>2, <2>3, ExitKeepsType DEF Protect, TypeOK
  <2>4. QED
    BY <1>2, <2>1, <2>2, <2>3 DEF Protect
<1>3. ASSUME NEW p \in Processes, ParseOptions(p) PROVE TypeOK'
  BY <1>3, ExitType DEF ParseOptions, TypeOK
<1>4. ASSUME NEW p \in Processes, FormatOpen(p) PROVE TypeOK'
  <2>1. disk' \in Nat \cup {Absent} /\ faults' \in 0 .. MaxFaults
    BY <1>4, FaultType DEF FormatOpen, TypeOK
  <2>2. CASE Exit(p)
    BY <1>4, <2>1, <2>2, ExitKeepsType DEF FormatOpen
  <2>3. CASE ~Exit(p)
    BY <1>4, <2>1, <2>3, MoveType DEF FormatOpen, TypeOK
  <2>4. QED
    BY <2>2, <2>3
<1>5. ASSUME NEW p \in Processes, FormatSuperblock(p) PROVE TypeOK'
  <2>1. disk + PointerSize \in Nat
    BY DEF TypeOK, Absent
  <2>2. disk' \in Nat \cup {Absent} /\ faults' \in 0 .. MaxFaults
    BY <1>5, <2>1, FaultType DEF FormatSuperblock, TypeOK
  <2>3. CASE Exit(p)
    BY <1>5, <2>2, <2>3, ExitKeepsType DEF FormatSuperblock
  <2>4. CASE ~Exit(p)
    <3>1. filled' = [filled EXCEPT ![p] = 1024]
      BY <1>5, <2>4 DEF FormatSuperblock, BLOCK_SIZE
    <3>2. filled' \in [Processes -> Nat]
      BY <3>1 DEF TypeOK
    <3>3. QED
      BY <1>5, <2>2, <2>4, <3>2, MoveType DEF FormatSuperblock
  <2>5. QED
    BY <2>3, <2>4
<1>6. ASSUME NEW p \in Processes, FormatFill(p) PROVE TypeOK'
  <2>1. disk + PointerSize \in Nat
    BY DEF TypeOK, Absent
  <2>2. disk' \in Nat \cup {Absent} /\ faults' \in 0 .. MaxFaults
    BY <1>6, <2>1, FaultType, FlushedType DEF FormatFill, TypeOK
  <2>3. filled' \in [Processes -> Nat]
    BY <1>6 DEF FormatFill, TypeOK, BLOCK_SIZE
  <2>4. QED
    BY <1>6, <2>2, <2>3 DEF FormatFill, TypeOK
<1>7. ASSUME NEW p \in Processes, FormatClose(p) PROVE TypeOK'
  <2>1. disk' \in Nat \cup {Absent} /\ faults' \in 0 .. MaxFaults
    BY <1>7, FaultType, FlushedType DEF FormatClose, TypeOK
  <2>2. CASE Exit(p)
    BY <1>7, <2>1, <2>2, ExitKeepsType DEF FormatClose
  <2>3. CASE ~Exit(p)
    BY <1>7, <2>1, <2>3, MoveType DEF FormatClose, TypeOK
  <2>4. QED
    BY <2>2, <2>3
<1>8. ASSUME NEW p \in Processes, OpenDisk(p) PROVE TypeOK'
  <2>1. disk' \in Nat \cup {Absent} /\ faults' \in 0 .. MaxFaults
    BY <1>8, FaultType DEF OpenDisk, TypeOK
  <2>2. CASE Exit(p)
    BY <1>8, <2>1, <2>2, ExitKeepsType DEF OpenDisk
  <2>3. CASE ~Exit(p)
    BY <1>8, <2>1, <2>3, MoveType DEF OpenDisk, TypeOK
  <2>4. QED
    BY <2>2, <2>3
<1>9. ASSUME NEW p \in Processes, SocketBind(p) PROVE TypeOK'
  BY <1>9, ExitType, FaultType DEF SocketBind, TypeOK
<1>10. ASSUME NEW p \in Processes, Poll(p) PROVE TypeOK'
  BY <1>10, FaultType DEF Poll, TypeOK
<1>11. ASSUME NEW p \in Processes, Recv(p) PROVE TypeOK'
  <2>1. faults' \in 0 .. MaxFaults
    BY <1>11, FaultType DEF Recv, TypeOK
  <2>2. queue[p] \in Seq(MessageTypes) /\ queue[p] # <<>>
    BY <1>11 DEF Recv, TypeOK
  <2>3. Tail(queue[p]) \in Seq(MessageTypes)
    BY <2>2
  <2>4. queue' \in [Processes -> Seq(MessageTypes)]
    BY <1>11, <2>3 DEF Recv, TypeOK
  <2>5. /\ pc' \in [Processes -> ProcessPc]
        /\ pc'[p] # "recv"
        /\ \A q \in Processes : q # p => pc'[q] = pc[q] /\ queue'[q] = queue[q]
    BY <1>11 DEF Recv, TypeOK
  <2>6. QED
    BY <1>11, <2>1, <2>4, <2>5 DEF Recv, TypeOK
<1>12. ASSUME NEW p \in Processes, DoWork(p) PROVE TypeOK'
  BY <1>12 DEF DoWork, TypeOK
<1>13. ASSUME NEW p \in Processes, Cleanup(p) PROVE TypeOK'
  BY <1>13, ExitType DEF Cleanup, TypeOK
<1>14. ASSUME NEW p \in Processes, Kill(p) PROVE TypeOK'
  <2>1. disk' \in Nat \cup {Absent} /\ faults' \in 0 .. MaxFaults
    BY <1>14, FaultType, FlushedType DEF Kill, TypeOK
  <2>2. QED
    BY <1>14, <2>1, ExitKeepsType DEF Kill
<1>15. ASSUME NEW m \in MessageTypes, Deliver(m) PROVE TypeOK'
  <2>1. ASSUME NEW p \in Processes
        PROVE  Append(queue[p], m) \in Seq(MessageTypes) /\ Append(queue[p], m) # <<>>
    <3>1. queue[p] \in Seq(MessageTypes)
      BY DEF TypeOK
    <3>2. QED
      BY <3>1
  <2>2. /\ queue' \in [Processes -> Seq(MessageTypes)]
        /\ \A p \in Processes : queue[p] # <<>> => queue'[p] # <<>>
    BY <1>15, <2>1 DEF Deliver, TypeOK
  <2>3. messages' \in 0 .. MaxMessages
    BY <1>15 DEF Deliver, TypeOK
  <2>4. QED
    BY <1>15, <2>2, <2>3 DEF Deliver, TypeOK
<1>16. CASE UNCHANGED vars
  BY <1>16 DEF vars, TypeOK
<1>17. QED
  BY <1>1, <1>2, <1>3, <1>4, <1>5, <1>6, <1>7, <1>8, <1>9, <1>10, <1>11, <1>12, <1>13,
     <1>14, <1>15, <1>16 DEF Next, ProcessStep

(* The helper is type correct; recv is reached only with a message there.  *)
THEOREM TypeCorrect == Spec => []TypeOK
BY InitType, NextType, PTL DEF Spec

-----------------------------------------------------------------------------
(***************************************************************************)
(* A single instance.  What makes it inductive is that who runs holds the  *)
(* lock, and that the lock has one holder.                                 *)
(***************************************************************************)
LockInv ==
    /\ \A p \in Processes : Running(p) => p \in lock
    /\ \A p, q \in lock : p = q

(* A step that only moves a running process, or ends it.                   *)
LEMMA LockKeep ==
    ASSUME TypeOK, LockInv, NEW p \in Processes, Running(p), NEW l,
           pc' = [pc EXCEPT ![p] = l], lock' = lock
    PROVE  LockInv'
BY DEF TypeOK, LockInv, Running

LEMMA LockExit ==
    ASSUME TypeOK, LockInv, NEW p \in Processes, Exit(p)
    PROVE  LockInv'
BY DEF TypeOK, LockInv, Running, Exit, Goto

LEMMA InitLock == Init => LockInv
BY DEF Init, LockInv, Running

(* An instance that went on without the lock is not forgotten.             *)
LEMMA UnprotectedSticks == unprotected /\ [Next]_vars => unprotected'
BY DEF Next, vars, ProcessStep, Start, Protect, GoesUnprotected, TakesLock, ParseOptions, FormatOpen,
       FormatSuperblock, FormatFill, FormatClose, OpenDisk, SocketBind, Poll, Recv, DoWork,
       Cleanup, Kill, Deliver, outer

LEMMA NextLock == ~unprotected' /\ TypeOK /\ LockInv /\ [Next]_vars => LockInv'
<1> SUFFICES ASSUME ~unprotected', TypeOK, LockInv, [Next]_vars PROVE LockInv'
  OBVIOUS
<1> USE DEF Goto, local
<1>1. ASSUME NEW p \in Processes, NEW c \in CommandLines, Start(p, c) PROVE LockInv'
  BY <1>1 DEF Start, TypeOK, LockInv, Running
<1>2. ASSUME NEW p \in Processes, Protect(p) PROVE LockInv'
  <2>1. CASE TakesLock(p)
    BY <2>1 DEF TakesLock, TypeOK, LockInv, Running
  <2>2. CASE Exit(p)
    BY <2>2, LockExit
  <2>3. QED
    BY <1>2, <2>1, <2>2 DEF Protect, GoesUnprotected
<1>3. ASSUME NEW p \in Processes, ParseOptions(p) PROVE LockInv'
  BY <1>3, LockExit, LockKeep DEF ParseOptions, Running
<1>4. ASSUME NEW p \in Processes, FormatOpen(p) PROVE LockInv'
  BY <1>4, LockExit, LockKeep DEF FormatOpen, Running
<1>5. ASSUME NEW p \in Processes, FormatSuperblock(p) PROVE LockInv'
  BY <1>5, LockExit, LockKeep DEF FormatSuperblock, Running
<1>6. ASSUME NEW p \in Processes, FormatFill(p) PROVE LockInv'
  BY <1>6 DEF FormatFill, LockInv, Running
<1>7. ASSUME NEW p \in Processes, FormatClose(p) PROVE LockInv'
  BY <1>7, LockExit, LockKeep DEF FormatClose, Running
<1>8. ASSUME NEW p \in Processes, OpenDisk(p) PROVE LockInv'
  BY <1>8, LockExit, LockKeep DEF OpenDisk, Running
<1>9. ASSUME NEW p \in Processes, SocketBind(p) PROVE LockInv'
  BY <1>9, LockExit, LockKeep DEF SocketBind, Running
<1>10. ASSUME NEW p \in Processes, Poll(p) PROVE LockInv'
  BY <1>10 DEF Poll, TypeOK, LockInv, Running
<1>11. ASSUME NEW p \in Processes, Recv(p) PROVE LockInv'
  BY <1>11, LockKeep DEF Recv, Running
<1>12. ASSUME NEW p \in Processes, DoWork(p) PROVE LockInv'
  BY <1>12, LockKeep DEF DoWork, Running
<1>13. ASSUME NEW p \in Processes, Cleanup(p) PROVE LockInv'
  BY <1>13, LockExit DEF Cleanup
<1>14. ASSUME NEW p \in Processes, Kill(p) PROVE LockInv'
  BY <1>14, LockExit DEF Kill
<1>15. ASSUME NEW m \in MessageTypes, Deliver(m) PROVE LockInv'
  BY <1>15 DEF Deliver, LockInv, Running
<1>16. CASE UNCHANGED vars
  BY <1>16 DEF vars, LockInv, Running
<1>17. QED
  BY <1>1, <1>2, <1>3, <1>4, <1>5, <1>6, <1>7, <1>8, <1>9, <1>10, <1>11, <1>12, <1>13,
     <1>14, <1>15, <1>16 DEF Next, ProcessStep

(* The flock admits one instance, no matter how many are started, fail or  *)
(* are killed, as long as each that went on could open and lock the pid    *)
(* file.                                                                   *)
THEOREM OneInstance == Spec => []SingleInstance
<1> DEFINE Inv == TypeOK /\ (~unprotected => LockInv)
<1>1. Init => Inv
  BY InitType, InitLock
<1>2. Inv /\ [Next]_vars => Inv'
  BY NextType, NextLock, UnprotectedSticks
<1>3. Inv => SingleInstance
  BY DEF LockInv, SingleInstance
<1>4. QED
  BY <1>1, <1>2, <1>3, PTL DEF Spec

(* Nobody changes the image while an instance has it open to serve it, as  *)
(* long as each could lock the pid file: no other instance is there to     *)
(* format it, and do_work writes nothing.                                  *)
THEOREM ServedDisk == Spec => ServedDiskIsStable
<1> DEFINE Inv == TypeOK /\ (~unprotected => LockInv)
<1>1. ASSUME Inv, [Next]_vars
      PROVE  [~unprotected /\ (\E p \in Processes : pc[p] \in {"socket"} \cup Bound)
                  => disk' = disk]_vars
  <2> SUFFICES ASSUME ~unprotected, NEW p \in Processes, pc[p] \in {"socket"} \cup Bound
               PROVE  disk' = disk
    OBVIOUS
  <2>1. \A q \in Processes : Running(q) => q = p
    BY <1>1 DEF LockInv, Running, Bound
  <2>2. \A q \in Processes : pc[q] \notin {"format", "superblock", "fill", "open"}
    BY <2>1 DEF Running, Bound
  <2>3. QED
    BY <1>1, <2>2 DEF Next, vars, ProcessStep, Start, Protect, ParseOptions, FormatOpen,
       FormatSuperblock, FormatFill, FormatClose, OpenDisk, SocketBind, Poll, Recv, DoWork,
       Cleanup, Kill, Deliver
<1>2. Init => Inv
  BY InitType, InitLock
<1>3. Inv /\ [Next]_vars => Inv'
  BY NextType, NextLock, UnprotectedSticks
<1>4. QED
  BY <1>1, <1>2, <1>3, PTL DEF Spec, ServedDiskIsStable

-----------------------------------------------------------------------------
(***************************************************************************)
(* The image that is served.  Along format() the length of the image       *)
(* follows the loop variable: when i is k blocks k pieces are due, and the *)
(* image has them all, or fewer after an fwrite that failed.               *)
(***************************************************************************)

(* Pieces that format() writes for a size.                                 *)
Pieces(size) == 1 + (size - 1) \div BLOCK_SIZE

(* Of the k pieces of p that are due.                                      *)
Written(p, k) ==
    /\ disk \in Nat
    /\ p \notin short => disk = PointerSize * k
    /\ p \in short => disk < PointerSize * k

Formatting == {"format", "superblock", "fill"}
Serving == {"open", "socket"} \cup Bound

(* Where process p stands with its new disk.                               *)
FormatAt(p) ==
    /\ p \in short => pc[p] \in {"fill"} \cup Serving
    /\ pc[p] \in Formatting => args[p].new
    /\ pc[p] \in Formatting \cup Serving /\ args[p].new =>
          /\ args[p].size >= MIN_BLOCKS
          /\ pc[p] = "superblock" => disk = 0
          /\ pc[p] = "fill" =>
                \E k \in Nat \ {0} : /\ filled[p] = BLOCK_SIZE * k
                                     /\ BLOCK_SIZE * (k - 1) < args[p].size
                                     /\ Written(p, k)
          /\ pc[p] \in Serving => Written(p, Pieces(args[p].size))

FormatInv == \A p \in Processes : FormatAt(p)

(* One piece more is due when one is written, and also when fwrite fails.  *)
LEMMA OnePieceMore ==
    ASSUME NEW p \in Processes, NEW k \in Nat, Written(p, k),
           \/ disk' = disk + PointerSize /\ short' = short
           \/ disk' \in 0 .. disk /\ short' = short \cup {p}
    PROVE  Written(p, k + 1)'
<1>1. \A a, b \in Nat : a * (b + 1) = a * b + a /\ a * b \in Nat
  OBVIOUS
<1>2. /\ PointerSize * (k + 1) = PointerSize * k + PointerSize
      /\ PointerSize * k \in Nat
  BY <1>1, HelperAssumption
<1>3. CASE disk' = disk + PointerSize /\ short' = short
  BY <1>2, <1>3, HelperAssumption DEF Written
<1>4. CASE disk' \in 0 .. disk /\ short' = short \cup {p}
  BY <1>2, <1>4, HelperAssumption DEF Written
<1>5. QED
  BY <1>3, <1>4

(* The loop ends with the pieces that belong to the size.                  *)
LEMMA AllPieces ==
    ASSUME NEW k \in Nat \ {0}, NEW size \in Int,
           BLOCK_SIZE * (k - 1) < size, size <= BLOCK_SIZE * k
    PROVE  Pieces(size) = k
  BY DEF Pieces, BLOCK_SIZE

LEMMA PiecesType ==
    ASSUME NEW size \in Int, size >= MIN_BLOCKS
    PROVE  Pieces(size) \in Nat
  BY DEF Pieces, BLOCK_SIZE, MIN_BLOCKS

(* The arguments of a process are of their types.                          *)
LEMMA ArgsType ==
    ASSUME TypeOK, NEW p \in Processes
    PROVE  args[p].new \in BOOLEAN /\ args[p].size \in Int
<1>1. args[p] \in CommandLines \cup {NoArgs}
  BY DEF TypeOK
<1>2. args[p] \in [new : BOOLEAN, size : Int, file : BOOLEAN]
  <2>1. NoArgs \in [new : BOOLEAN, size : Int, file : BOOLEAN]
    BY DEF NoArgs
  <2>2. QED
    BY <1>1, <2>1, HelperAssumption
<1>3. QED
  BY <1>2

(* A process that does not format or serve has nothing to show.            *)
LEMMA FormatIdle ==
    ASSUME NEW p \in Processes, pc'[p] \notin Formatting \cup Serving, p \notin short'
    PROVE  FormatAt(p)'
  BY DEF FormatAt

LEMMA FormatExit ==
    ASSUME TypeOK, NEW p \in Processes, Exit(p)
    PROVE  FormatAt(p)'
<1>1. pc'[p] = "off" /\ p \notin short'
  BY DEF Exit, Goto, TypeOK
<1>2. QED
  BY <1>1, FormatIdle DEF Formatting, Serving, Bound

(* A process that stands still keeps its image while nobody writes.        *)
LEMMA FormatKeep ==
    ASSUME NEW p \in Processes, FormatAt(p),
           pc'[p] = pc[p], args'[p] = args[p], filled'[p] = filled[p],
           disk' = disk, p \in short' <=> p \in short
    PROVE  FormatAt(p)'
<1>1. \A k : Written(p, k)' <=> Written(p, k)
  BY DEF Written
<1>2. Written(p, Pieces(args[p].size))' <=> Written(p, Pieces(args[p].size))
  BY DEF Written, Pieces
<1>3. QED
  BY <1>1, <1>2 DEF FormatAt

(* Steps of one process leave the others where they are; and the image     *)
(* too, when another one is running.                                       *)
LEMMA FormatOthers ==
    ASSUME TypeOK, LockInv, FormatInv, NEW p \in Processes, NEW q \in Processes \ {p},
           (\E c \in CommandLines : Start(p, c)) \/ ProcessStep(p) \/ Kill(p)
    PROVE  FormatAt(q)'
<1>1. /\ pc'[q] = pc[q] /\ args'[q] = args[q] /\ filled'[q] = filled[q]
      /\ q \in short' <=> q \in short
  <2> USE DEF TypeOK, Goto, Exit, local
  <2>1. CASE \E c \in CommandLines : Start(p, c)
    BY <2>1 DEF Start
  <2>2. CASE Protect(p) \/ ParseOptions(p) \/ FormatOpen(p) \/ FormatSuperblock(p)
    BY <2>2 DEF Protect, GoesUnprotected, TakesLock, ParseOptions, FormatOpen, FormatSuperblock
  <2>3. CASE FormatFill(p) \/ FormatClose(p) \/ OpenDisk(p) \/ SocketBind(p)
    BY <2>3 DEF FormatFill, FormatClose, OpenDisk, SocketBind
  <2>4. CASE Poll(p) \/ Recv(p) \/ DoWork(p) \/ Cleanup(p) \/ Kill(p)
    BY <2>4 DEF Poll, Recv, DoWork, Cleanup, Kill
  <2>5. QED
    BY <2>1, <2>2, <2>3, <2>4 DEF ProcessStep
<1>2. CASE Running(q)
  <2>1. ~Running(p)
    BY <1>2 DEF LockInv
  <2>2. disk' = disk
    BY <2>1 DEF Running, Start, ProcessStep, Protect, ParseOptions, FormatOpen,
       FormatSuperblock, FormatFill, FormatClose, OpenDisk, SocketBind, Poll, Recv, DoWork,
       Cleanup, Kill
  <2>3. QED
    BY <1>1, <2>2, FormatKeep DEF FormatInv
<1>3. CASE ~Running(q)
  <2>1. q \notin short /\ pc'[q] \notin Formatting \cup Serving
    BY <1>1, <1>3 DEF FormatInv, FormatAt, Running, Formatting, Serving, Bound
  <2>2. QED
    BY <1>1, <2>1, FormatIdle
<1>4. QED
  BY <1>2, <1>3

(* A process that goes on serving.                                         *)
LEMMA FormatServe ==
    ASSUME NEW p \in Processes, FormatAt(p),
           pc[p] \in Serving, pc'[p] \in Serving, args'[p] = args[p],
           disk' = disk, p \in short' <=> p \in short
    PROVE  FormatAt(p)'
<1>1. pc'[p] \notin Formatting
  BY DEF Serving, Formatting, Bound
<1>2. Written(p, Pieces(args[p].size))' <=> Written(p, Pieces(args[p].size))
  BY DEF Written, Pieces
<1>3. QED
  BY <1>1, <1>2 DEF FormatAt, Formatting

(* The step of a process as seen by itself.                                *)
LEMMA FormatStep ==
    ASSUME TypeOK, FormatInv, NEW p \in Processes, ProcessStep(p)
    PROVE  FormatAt(p)'
<1>1. FormatAt(p) /\ pc \in [Processes -> ProcessPc] /\ args[p].size \in Int
  BY ArgsType DEF FormatInv, TypeOK
<1>2. CASE Exit(p)
  BY <1>2, FormatExit
<1>3. CASE ~Exit(p)
  <2> USE DEF Goto, local
  <2>1. CASE Protect(p)
    <3>1. pc'[p] = "options" /\ pc[p] = "protect" /\ short' = short
      BY <1>1, <1>3, <2>1 DEF Protect, GoesUnprotected, TakesLock
    <3>2. QED
      BY <1>1, <3>1, FormatIdle DEF FormatAt, Formatting, Serving, Bound
  <2>2. CASE ParseOptions(p)
    <3>1. /\ pc'[p] = IF args[p].new THEN "format" ELSE "open"
          /\ args[p].new => args[p].size >= MIN_BLOCKS
          /\ args' = args /\ short' = short /\ pc[p] = "options"
      BY <1>1, <1>3, <2>2 DEF ParseOptions
    <3>2. CASE args[p].new
      BY <1>1, <3>1, <3>2 DEF FormatAt, Formatting, Serving, Bound
    <3>3. CASE ~args[p].new
      BY <1>1, <3>1, <3>3 DEF FormatAt, Formatting, Serving, Bound
    <3>4. QED
      BY <3>2, <3>3
  <2>3. CASE FormatOpen(p)
    <3>1. pc[p] = "format" /\ pc'[p] = "superblock" /\ disk' = 0 /\ args' = args /\ short' = short
      BY <1>1, <1>3, <2>3 DEF FormatOpen
    <3>2. QED
      BY <1>1, <3>1 DEF FormatAt, Formatting, Serving, Bound
  <2>4. CASE FormatSuperblock(p)
    <3>1. /\ pc[p] = "superblock" /\ pc'[p] = "fill" /\ args' = args
          /\ disk' = disk + PointerSize /\ short' = short
          /\ filled' = [filled EXCEPT ![p] = BLOCK_SIZE]
      BY <1>1, <1>3, <2>4 DEF FormatSuperblock
    <3>2. disk = 0 /\ args[p].new /\ args[p].size >= MIN_BLOCKS /\ p \notin short
      BY <1>1, <3>1 DEF FormatAt, Formatting, Serving, Bound
    <3>3. /\ filled'[p] = BLOCK_SIZE * 1
          /\ BLOCK_SIZE * (1 - 1) < args'[p].size
      BY <1>1, <3>1, <3>2 DEF TypeOK, BLOCK_SIZE, MIN_BLOCKS
    <3>4. Written(p, 1)'
      <4>1. PointerSize * 1 = PointerSize
        BY HelperAssumption
      <4>2. QED
        BY <3>1, <3>2, <4>1, HelperAssumption DEF Written
    <3>5. \E k \in Nat \ {0} : /\ filled'[p] = BLOCK_SIZE * k
                               /\ BLOCK_SIZE * (k - 1) < args'[p].size
                               /\ Written(p, k)'
      BY <3>3, <3>4
    <3>6. QED
      BY <3>1, <3>2, <3>5 DEF FormatAt, Formatting, Serving, Bound
  <2>5. CASE FormatFill(p)
    <3>1. /\ pc[p] = "fill" /\ pc'[p] = "fill" /\ args' = args
          /\ filled[p] < args[p].size
          /\ filled'[p] = filled[p] + BLOCK_SIZE
          /\ \/ disk' = disk + PointerSize /\ short' = short
             \/ disk' \in 0 .. disk /\ short' = short \cup {p}
      BY <1>1, <2>5 DEF FormatFill, Flushed, TypeOK
    <3>2. /\ args[p].new /\ args[p].size >= MIN_BLOCKS
          /\ \E k \in Nat \ {0} : filled[p] = BLOCK_SIZE * k /\ Written(p, k)
      BY <1>1, <3>1 DEF FormatAt, Formatting
    <3>3. PICK k \in Nat \ {0} : filled[p] = BLOCK_SIZE * k /\ Written(p, k)
      BY <3>2
    <3>4. Written(p, k + 1)'
      BY <1>1, <3>1, <3>3, OnePieceMore
    <3>5. /\ filled'[p] = BLOCK_SIZE * (k + 1)
          /\ BLOCK_SIZE * ((k + 1) - 1) < args'[p].size
          /\ k + 1 \in Nat \ {0}
      BY <3>1, <3>3 DEF BLOCK_SIZE
    <3>6. \E j \in Nat \ {0} : /\ filled'[p] = BLOCK_SIZE * j
                               /\ BLOCK_SIZE * (j - 1) < args'[p].size
                               /\ Written(p, j)'
      BY <3>4, <3>5
    <3>7. QED
      BY <3>1, <3>2, <3>6 DEF FormatAt, Formatting, Serving, Bound
  <2>6. CASE FormatClose(p)
    <3>1. /\ pc[p] = "fill" /\ pc'[p] = "open" /\ args' = args
          /\ filled[p] >= args[p].size
          /\ disk' = disk /\ short' = short
      BY <1>1, <1>3, <2>6 DEF FormatClose
    <3>2. /\ args[p].new /\ args[p].size >= MIN_BLOCKS
          /\ \E k \in Nat \ {0} : /\ filled[p] = BLOCK_SIZE * k
                                  /\ BLOCK_SIZE * (k - 1) < args[p].size
                                  /\ Written(p, k)
      BY <1>1, <3>1 DEF FormatAt, Formatting
    <3>3. PICK k \in Nat \ {0} : /\ filled[p] = BLOCK_SIZE * k
                                 /\ BLOCK_SIZE * (k - 1) < args[p].size
                                 /\ Written(p, k)
      BY <3>2
    <3>4. args[p].size <= BLOCK_SIZE * k
      BY <1>1, <3>1, <3>3 DEF BLOCK_SIZE
    <3>5. Pieces(args[p].size) = k
      BY <1>1, <3>3, <3>4, AllPieces
    <3>6. Written(p, Pieces(args[p].size))'
      BY <3>1, <3>3, <3>5 DEF Written, Pieces
    <3>7. QED
      BY <3>1, <3>2, <3>6 DEF FormatAt, Formatting, Serving
  <2>7. CASE OpenDisk(p)
    <3>1. pc[p] = "open" /\ pc'[p] = "socket" /\ args' = args /\ short' = short
      BY <1>1, <1>3, <2>7 DEF OpenDisk
    <3>2. CASE args[p].new
      <4>1. disk \in Nat
        BY <1>1, <3>1, <3>2 DEF FormatAt, Serving, Written
      <4>2. disk' = disk
        BY <1>3, <2>7, <4>1 DEF OpenDisk, Absent
      <4>3. QED
        BY <1>1, <3>1, <4>2, FormatServe DEF Serving
    <3>3. CASE ~args[p].new
      BY <1>1, <3>1, <3>3 DEF FormatAt, Formatting, Serving, Bound
    <3>4. QED
      BY <3>2, <3>3
  <2>8. CASE SocketBind(p) \/ Poll(p) \/ Recv(p) \/ DoWork(p) \/ Cleanup(p)
    <3>1. /\ pc[p] \in Serving /\ pc'[p] \in Serving
          /\ args' = args /\ disk' = disk /\ short' = short
      BY <1>1, <1>3, <2>8 DEF SocketBind, Poll, Recv, DoWork, Cleanup, Serving, Bound
    <3>2. QED
      BY <1>1, <3>1, FormatServe
  <2>9. QED
    BY <2>1, <2>2, <2>3, <2>4, <2>5, <2>6, <2>7, <2>8 DEF ProcessStep
<1>4. QED
  BY <1>2, <1>3

LEMMA NextFormat == TypeOK /\ LockInv /\ FormatInv /\ [Next]_vars => FormatInv'
<1> SUFFICES ASSUME TypeOK, LockInv, FormatInv, [Next]_vars PROVE FormatInv'
  OBVIOUS
<1>1. ASSUME NEW p \in Processes, NEW c \in CommandLines, Start(p, c) PROVE FormatInv'
  <2>1. pc[p] = "off" /\ pc'[p] = "protect" /\ short' = short
    BY <1>1 DEF Start, Goto, TypeOK
  <2>2. FormatAt(p)'
    BY <2>1, FormatIdle DEF FormatInv, FormatAt, Formatting, Serving, Bound
  <2>3. QED
    BY <1>1, <2>2, FormatOthers DEF FormatInv
<1>2. ASSUME NEW p \in Processes, ProcessStep(p) PROVE FormatInv'
  BY <1>2, FormatStep, FormatOthers DEF FormatInv
<1>3. ASSUME NEW p \in Processes, Kill(p) PROVE FormatInv'
  <2>1. FormatAt(p)'
    BY <1>3, FormatExit DEF Kill
  <2>2. QED
    BY <1>3, <2>1, FormatOthers DEF FormatInv
<1>4. ASSUME UNCHANGED <<pc, args, filled, disk, short>> PROVE FormatInv'
  BY <1>4, FormatKeep DEF FormatInv
<1>5. QED
  BY <1>1, <1>2, <1>3, <1>4 DEF Next, Deliver, vars

(* An instance that was asked for a new disk serves the one it formatted,  *)
(* however earlier instances ended, as long as each could lock the pid     *)
(* file: format() truncates the image, and the lock keeps everybody else   *)
(* off it until the instance is gone.                                      *)
THEOREM FormatServed == Spec => []ServesItsFormat
<1> DEFINE Inv == TypeOK /\ (~unprotected => LockInv /\ FormatInv)
<1>1. Init => Inv
  <2>1. Init => FormatInv
    BY DEF Init, FormatInv, FormatAt, Formatting, Serving, Bound
  <2>2. QED
    BY <2>1, InitType, InitLock
<1>2. Inv /\ [Next]_vars => Inv'
  BY NextType, NextLock, NextFormat, UnprotectedSticks
<1>3. Inv => ServesItsFormat
  <2> SUFFICES ASSUME Inv, ~unprotected, NEW p \in Processes, pc[p] \in Serving, args[p].new
               PROVE  /\ p \notin short => disk = ImageLength(args[p].size)
                      /\ p \in short => disk \in 0 .. ImageLength(args[p].size) - 1
    BY DEF ServesItsFormat, Serving
  <2>1. Written(p, Pieces(args[p].size)) /\ args[p].size >= MIN_BLOCKS
    BY DEF FormatInv, FormatAt
  <2>2. args[p].size \in Int
    BY ArgsType
  <2>3. Pieces(args[p].size) \in Nat
    BY <2>1, <2>2, PiecesType
  <2>4. ImageLength(args[p].size) = PointerSize * Pieces(args[p].size)
    BY DEF ImageLength, Pieces
  <2>5. \A a, b \in Nat : a * b \in Nat
    OBVIOUS
  <2>6. ImageLength(args[p].size) \in Nat
    BY <2>3, <2>4, <2>5, HelperAssumption
  <2>7. QED
    BY <2>1, <2>4, <2>6 DEF Written
<1>4. QED
  BY <1>1, <1>2, <1>3, PTL DEF Spec
=============================================================================
