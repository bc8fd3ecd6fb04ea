---------------------------- MODULE BlockService ----------------------------
(***************************************************************************)
(* What the socket level promises to the rest of the kernel module: block  *)
(* operations are carried out one at a time, and a read returns the block  *)
(* whose address the caller gave, whole.                                   *)
(*                                                                         *)
(* The contents of block a is represented by the value a in each of its    *)
(* pieces.  A write transfers nothing: this is the service the code offers,*)
(* not the one its comments announce.                                      *)
(***************************************************************************)
EXTENDS Integers

CONSTANTS Threads, Addresses, Pieces

VARIABLES
    op,        \* what each thread is calling: "idle", "read" or "write"
    arg,       \* the block address it gave
    result,    \* the destination buffer of its read
    serving    \* the thread being served, as a set of at most one thread

svcVars == <<op, arg, result, serving>>

Nothing == [k \in 1 .. Pieces |-> -1]
BlockAt(a) == [k \in 1 .. Pieces |-> a]

Init ==
    /\ op = [t \in Threads |-> "idle"]
    /\ arg = [t \in Threads |-> -1]
    /\ result = [t \in Threads |-> Nothing]
    /\ serving = {}

(* A call is queued, or served at once when the service is free.           *)
Call(t, o, a) ==
    /\ op[t] = "idle"
    /\ op' = [op EXCEPT ![t] = o]
    /\ arg' = [arg EXCEPT ![t] = a]
    /\ \/ serving' = serving
       \/ serving = {} /\ serving' = {t}
    /\ UNCHANGED result

Serve(t) ==
    /\ op[t] # "idle"
    /\ serving = {}
    /\ serving' = {t}
    /\ UNCHANGED <<op, arg, result>>

Fetch(t) ==
    /\ serving = {t}
    /\ op[t] = "read"
    /\ result[t] = Nothing
    /\ result' = [result EXCEPT ![t] = BlockAt(arg[t])]
    /\ UNCHANGED <<op, arg, serving>>

(* The service is released, or handed to a thread that waits for it.       *)
Return(t) ==
    /\ serving = {t}
    /\ op[t] = "read" => result[t] = BlockAt(arg[t])
    /\ op' = [op EXCEPT ![t] = "idle"]
    /\ arg' = [arg EXCEPT ![t] = -1]
    /\ result' = [result EXCEPT ![t] = Nothing]
    /\ \/ serving' = {}
       \/ \E u \in Threads \ {t} : op[u] # "idle" /\ serving' = {u}

Next ==
    \/ \E t \in Threads, o \in {"read", "write"}, a \in Addresses : Call(t, o, a)
    \/ \E t \in Threads : Serve(t) \/ Fetch(t) \/ Return(t)

Spec == Init /\ [][Next]_svcVars
=============================================================================
