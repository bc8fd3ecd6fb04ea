----------------------------- MODULE Semaphore -----------------------------
(***************************************************************************)
(* The counting semaphore of <linux/semaphore.h>, as the kernel code of    *)
(* this repository uses it: sema_init, down, down_trylock and up.          *)
(*                                                                         *)
(* A caller of down() that finds the count at zero joins the end of a      *)
(* queue of sleepers; up() hands the semaphore to the first sleeper        *)
(* without touching the count and raises the count only when nobody        *)
(* sleeps.  The semaphore is therefore fair (first come, first served),    *)
(* and down_trylock(), which looks at the count alone, can never overtake  *)
(* a sleeper.                                                              *)
(***************************************************************************)
EXTENDS Naturals, Sequences

(* sema_init(s, n).                                                        *)
SemaInit(n) == [count |-> n, sleepers |-> <<>>]

(* Thread t has entered down(s) and has not yet been let through.          *)
Sleeps(s, t) == \E i \in 1 .. Len(s.sleepers) : s.sleepers[i] = t

(* down(s) by thread t: take one unit, or join the sleepers.               *)
Down(s, t) ==
    IF s.count > 0 THEN [s EXCEPT !.count = @ - 1]
                   ELSE [s EXCEPT !.sleepers = Append(@, t)]

(* down_trylock(s) succeeds exactly when a unit is free ...                *)
Free(s) == s.count > 0

(* ... and then takes it.                                                  *)
Take(s) == [s EXCEPT !.count = @ - 1]

(* up(s): wake the first sleeper, or give the unit back.                   *)
Up(s) ==
    IF s.sleepers = <<>> THEN [s EXCEPT !.count = @ + 1]
                         ELSE [s EXCEPT !.sleepers = Tail(@)]

(* The values a semaphore used by the threads of S can take.               *)
SemaphoreOf(S) == [count : Nat, sleepers : Seq(S)]
=============================================================================
