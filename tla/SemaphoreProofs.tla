-------------------------- MODULE SemaphoreProofs --------------------------
(***************************************************************************)
(* Facts about the kernel semaphore, for the proofs about the two          *)
(* transports that use it.                                                 *)
(***************************************************************************)
EXTENDS Semaphore, TLAPS

(* No thread sleeps twice on the same semaphore.                           *)
Distinct(s) ==
    \A i, j \in 1 .. Len(s.sleepers) : s.sleepers[i] = s.sleepers[j] => i = j

(* up() and a successful down_trylock() yield semaphores.                  *)
LEMMA UpType ==
    ASSUME NEW S, NEW s \in SemaphoreOf(S)
    PROVE  /\ Up(s) \in SemaphoreOf(S)
           /\ Free(s) => Take(s) \in SemaphoreOf(S)
<1>1. s.count \in Nat /\ s.sleepers \in Seq(S)
  BY DEF SemaphoreOf
<1>2. s.count > 0 => [s EXCEPT !.count = @ - 1] \in SemaphoreOf(S)
  BY <1>1 DEF SemaphoreOf
<1>3. [s EXCEPT !.count = @ + 1] \in SemaphoreOf(S)
  BY <1>1 DEF SemaphoreOf
<1>4. s.sleepers # <<>> => Tail(s.sleepers) \in Seq(S)
  BY <1>1
<1>5. s.sleepers # <<>> => [s EXCEPT !.sleepers = Tail(@)] \in SemaphoreOf(S)
  BY <1>1, <1>4 DEF SemaphoreOf
<1>6. QED
  BY <1>2, <1>3, <1>5 DEF Up, Free, Take

(* down() yields a semaphore.                                              *)
LEMMA DownType ==
    ASSUME NEW S, NEW s \in SemaphoreOf(S), NEW t \in S
    PROVE  Down(s, t) \in SemaphoreOf(S)
<1>1. s.count \in Nat /\ s.sleepers \in Seq(S)
  BY DEF SemaphoreOf
<1>2. s.count > 0 => [s EXCEPT !.count = @ - 1] \in SemaphoreOf(S)
  BY <1>1 DEF SemaphoreOf
<1>3. [s EXCEPT !.sleepers = Append(@, t)] \in SemaphoreOf(S)
  BY <1>1 DEF SemaphoreOf
<1>4. QED
  BY <1>2, <1>3 DEF Down

(* Who sleeps after a down(): as before, and the caller if no unit is free.*)
LEMMA SleepsAfterDown ==
    ASSUME NEW S, NEW s \in SemaphoreOf(S), NEW t \in S, NEW u \in S
    PROVE  /\ s.count > 0 => (Sleeps(Down(s, t), u) <=> Sleeps(s, u))
           /\ s.count = 0 => (Sleeps(Down(s, t), u) <=> Sleeps(s, u) \/ u = t)
<1>1. CASE s.count > 0
  BY <1>1 DEF SemaphoreOf, Down, Sleeps
<1>2. CASE s.count = 0
  <2>1. Down(s, t).sleepers = Append(s.sleepers, t)
    BY <1>2 DEF SemaphoreOf, Down
  <2>2. /\ Len(Append(s.sleepers, t)) = Len(s.sleepers) + 1
        /\ Append(s.sleepers, t)[Len(s.sleepers) + 1] = t
        /\ \A i \in 1 .. Len(s.sleepers) : Append(s.sleepers, t)[i] = s.sleepers[i]
        /\ Len(s.sleepers) \in Nat
    BY DEF SemaphoreOf
  <2>3. QED
    BY <1>2, <2>1, <2>2 DEF Sleeps
<1>3. QED
  BY <1>1, <1>2 DEF SemaphoreOf

(* Who sleeps after an up(): everybody but the first sleeper, who is let   *)
(* through.                                                                *)
LEMMA SleepsAfterUp ==
    ASSUME NEW S, NEW s \in SemaphoreOf(S), Distinct(s), NEW u \in S
    PROVE  /\ s.sleepers = <<>> => ~Sleeps(s, u) /\ ~Sleeps(Up(s), u)
           /\ s.sleepers # <<>> =>
                /\ Sleeps(s, Head(s.sleepers))
                /\ Sleeps(Up(s), u) <=> Sleeps(s, u) /\ u # Head(s.sleepers)
<1>1. CASE s.sleepers = <<>>
  BY <1>1 DEF SemaphoreOf, Up, Sleeps
<1>2. CASE s.sleepers # <<>>
  <2>1. Up(s).sleepers = Tail(s.sleepers)
    BY <1>2 DEF SemaphoreOf, Up
  <2>2. /\ Len(s.sleepers) \in Nat \ {0}
        /\ Len(Tail(s.sleepers)) = Len(s.sleepers) - 1
        /\ Head(s.sleepers) = s.sleepers[1]
        /\ \A i \in 1 .. Len(s.sleepers) - 1 : Tail(s.sleepers)[i] = s.sleepers[i + 1]
    BY <1>2 DEF SemaphoreOf
  <2>3. Sleeps(s, Head(s.sleepers))
    BY <2>2 DEF Sleeps
  <2>4. ASSUME Sleeps(Up(s), u)
        PROVE  Sleeps(s, u) /\ u # Head(s.sleepers)
    <3>1. PICK i \in 1 .. Len(s.sleepers) - 1 : s.sleepers[i + 1] = u
      BY <2>1, <2>2, <2>4 DEF Sleeps
    <3>2. i + 1 \in 1 .. Len(s.sleepers) /\ i + 1 # 1 /\ 1 \in 1 .. Len(s.sleepers)
      BY <2>2
    <3>3. QED
      BY <2>2, <3>1, <3>2 DEF Sleeps, Distinct
  <2>5. ASSUME Sleeps(s, u), u # Head(s.sleepers)
        PROVE  Sleeps(Up(s), u)
    <3>1. PICK i \in 1 .. Len(s.sleepers) : s.sleepers[i] = u
      BY <2>5 DEF Sleeps
    <3>2. i # 1
      BY <2>2, <2>5, <3>1
    <3>3. i - 1 \in 1 .. Len(s.sleepers) - 1 /\ Tail(s.sleepers)[i - 1] = u
      BY <2>2, <3>1, <3>2
    <3>4. QED
      BY <2>1, <2>2, <3>3 DEF Sleeps
  <2>6. QED
    BY <1>2, <2>3, <2>4, <2>5
<1>3. QED
  BY <1>1, <1>2

(* The sleepers stay distinct.                                             *)
LEMMA DistinctPreserved ==
    ASSUME NEW S, NEW s \in SemaphoreOf(S), Distinct(s), NEW t \in S
    PROVE  /\ ~Sleeps(s, t) => Distinct(Down(s, t))
           /\ Distinct(Up(s))
<1>1. ASSUME ~Sleeps(s, t) PROVE Distinct(Down(s, t))
  <2>1. CASE s.count > 0
    BY <2>1 DEF SemaphoreOf, Down, Distinct
  <2>2. CASE ~(s.count > 0)
    <3>1. Down(s, t).sleepers = Append(s.sleepers, t)
      BY <2>2 DEF SemaphoreOf, Down
    <3>2. /\ Len(Append(s.sleepers, t)) = Len(s.sleepers) + 1
          /\ Append(s.sleepers, t)[Len(s.sleepers) + 1] = t
          /\ \A i \in 1 .. Len(s.sleepers) : Append(s.sleepers, t)[i] = s.sleepers[i]
          /\ Len(s.sleepers) \in Nat
      BY DEF SemaphoreOf
    <3>3. QED
      BY <1>1, <3>1, <3>2 DEF Sleeps, Distinct
  <2>3. QED
    BY <2>1, <2>2
<1>2. Distinct(Up(s))
  <2>1. CASE s.sleepers = <<>>
    BY <2>1 DEF SemaphoreOf, Up, Distinct
  <2>2. CASE s.sleepers # <<>>
    <3>1. Up(s).sleepers = Tail(s.sleepers)
      BY <2>2 DEF SemaphoreOf, Up
    <3>2. /\ Len(s.sleepers) \in Nat \ {0}
          /\ Len(Tail(s.sleepers)) = Len(s.sleepers) - 1
          /\ \A i \in 1 .. Len(s.sleepers) - 1 : Tail(s.sleepers)[i] = s.sleepers[i + 1]
      BY <2>2 DEF SemaphoreOf
    <3>3. \A i \in 1 .. Len(s.sleepers) - 1 : i + 1 \in 1 .. Len(s.sleepers)
      BY <3>2
    <3>4. QED
      BY <3>1, <3>2, <3>3 DEF Distinct
  <2>3. QED
    BY <2>1, <2>2
<1>3. QED
  BY <1>1, <1>2
=============================================================================
