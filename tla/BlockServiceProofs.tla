------------------------- MODULE BlockServiceProofs -------------------------
(***************************************************************************)
(* The socket level implements the block service: every step of            *)
(* BlockTransport is a step of BlockService, or changes nothing that the   *)
(* service shows.                                                          *)
(***************************************************************************)
EXTENDS BlockTransportProofs

(* The service as it is seen through the mapping of BlockTransport.        *)
Op == [t \in Threads |-> IF pc[t] \in {"idle", "write"} THEN pc[t] ELSE "read"]
Result == [t \in Threads |-> IF pc[t] = "up_cn" THEN block[t] ELSE Blank]
Serving == {t \in Threads : HoldsCn(t)}

ThreeDigits == \A a \in Addresses : a < 1000

(***************************************************************************)
(* Who is served.                                                          *)
(***************************************************************************)

LEMMA ServingHolder ==
    ASSUME CnInv, NEW t \in Threads, HoldsCn(t)
    PROVE  Serving = {t}
BY DEF CnInv, MutualExclusion, Serving

(* A caller of down(&cn_sem) is served when nobody else is.                *)
LEMMA ServingEnter ==
    ASSUME TypeInv, CnInv, NEW t \in Threads, NEW l \in {"down_cb", "write"},
           pc[t] \in {"idle", "down_cn"},
           pc' = [pc EXCEPT ![t] = l],
           cn_sem' = Down(cn_sem, t)
    PROVE  Serving' = Serving \/ (Serving = {} /\ Serving' = {t})
<1>1. cn_sem \in SemaphoreOf(Threads)
  BY DEF TypeInv, TypeOK
<1>2. /\ pc'[t] = l
      /\ \A u \in Threads : u # t => pc'[u] = pc[u]
  BY DEF TypeInv, TypeOK
<1>3. ~HoldsCn(t) /\ ~Sleeps(cn_sem, t)
  BY DEF HoldsCn, CnInv
<1>4. CASE cn_sem.count = 1
  <2>1. \A u \in Threads : Sleeps(cn_sem, u)' <=> Sleeps(cn_sem, u)
    BY <1>1, <1>4, SleepsAfterDown
  <2>2. \A u \in Threads : HoldsCn(u)' <=> u = t
    BY <1>2, <1>3, <1>4, <2>1 DEF CnInv, HoldsCn
  <2>3. QED
    BY <1>4, <2>2 DEF CnInv, Serving
<1>5. CASE cn_sem.count = 0
  <2>1. \A u \in Threads : Sleeps(cn_sem, u)' <=> Sleeps(cn_sem, u) \/ u = t
    BY <1>1, <1>5, SleepsAfterDown
  <2>2. \A u \in Threads : HoldsCn(u)' <=> HoldsCn(u)
    BY <1>2, <1>3, <2>1 DEF HoldsCn
  <2>3. QED
    BY <2>2 DEF Serving
<1>6. QED
  BY <1>4, <1>5 DEF CnInv

(* up(&cn_sem) ends the service or hands it to a thread that waits.        *)
LEMMA ServingLeave ==
    ASSUME TypeInv, CnInv, NEW t \in Threads, HoldsCn(t), ~Sleeps(cn_sem, t),
           pc' = [pc EXCEPT ![t] = "idle"],
           cn_sem' = Up(cn_sem)
    PROVE  \/ Serving' = {}
           \/ \E u \in Threads \ {t} : pc[u] \in {"down_cb", "write"} /\ Serving' = {u}
<1>1. cn_sem \in SemaphoreOf(Threads) /\ Distinct(cn_sem)
  BY DEF TypeInv, TypeOK, CnInv
<1>2. /\ pc'[t] = "idle"
      /\ \A u \in Threads : u # t => pc'[u] = pc[u]
  BY DEF TypeInv, TypeOK
<1>3. \A u \in Threads : u # t => ~HoldsCn(u)
  BY DEF CnInv, MutualExclusion
<1>4. CASE cn_sem.sleepers = <<>>
  <2>1. \A u \in Threads : ~Sleeps(cn_sem, u)' /\ ~Sleeps(cn_sem, u)
    BY <1>1, <1>4, SleepsAfterUp
  <2>2. \A u \in Threads : ~HoldsCn(u)'
    BY <1>2, <1>3, <2>1 DEF HoldsCn
  <2>3. QED
    BY <2>2 DEF Serving
<1>5. CASE cn_sem.sleepers # <<>>
  <2> DEFINE u == Head(cn_sem.sleepers)
  <2>1. u \in Threads
    BY <1>1, <1>5 DEF SemaphoreOf
  <2>2. Sleeps(cn_sem, u)
    BY <1>1, <1>5, <2>1, SleepsAfterUp
  <2>3. \A v \in Threads : Sleeps(cn_sem, v)' <=> Sleeps(cn_sem, v) /\ v # u
    BY <1>1, <1>5, SleepsAfterUp
  <2>4. u # t /\ pc[u] \in {"down_cb", "write"}
    BY <2>1, <2>2 DEF CnInv
  <2>5. \A v \in Threads : HoldsCn(v)' <=> v = u
    <3> HIDE DEF u
    <3>1. QED
      BY <1>2, <1>3, <2>1, <2>3, <2>4 DEF HoldsCn
  <2>6. Serving' = {u}
    <3> HIDE DEF u
    <3>1. QED
      BY <2>1, <2>5 DEF Serving
  <2>7. QED
    BY <2>1, <2>4, <2>6
<1>6. QED
  BY <1>4, <1>5

(* A step of a thread that stays inside.                                   *)
LEMMA ServingKeep ==
    ASSUME TypeInv, NEW t \in Threads, NEW l, HoldsCn(t),
           pc' = [pc EXCEPT ![t] = l], cn_sem' = cn_sem,
           l \in {"send", "await_cb", "up_cb", "copy", "up_cn"}
    PROVE  Serving' = Serving
<1>1. /\ pc'[t] = l
      /\ \A u \in Threads : u # t => pc'[u] = pc[u]
  BY DEF TypeInv, TypeOK
<1>2. \A u \in Threads : Sleeps(cn_sem, u)' <=> Sleeps(cn_sem, u)
  BY DEF Sleeps
<1>3. \A u \in Threads : HoldsCn(u)' <=> HoldsCn(u)
  BY <1>1, <1>2 DEF HoldsCn
<1>4. QED
  BY <1>3 DEF Serving

-----------------------------------------------------------------------------
(***************************************************************************)
(* The steps.                                                              *)
(***************************************************************************)

(* The actions of the service, in the names above.                         *)
LEMMA CallStep ==
    ASSUME NEW t \in Threads, NEW o \in {"read", "write"}, NEW a \in Addresses,
           Op[t] = "idle", Op' = [Op EXCEPT ![t] = o],
           address' = [address EXCEPT ![t] = a],
           Serving' = Serving \/ (Serving = {} /\ Serving' = {t}),
           Result' = Result
    PROVE  Service!Next
<1>1. Service!Call(t, o, a)
  BY DEF Service!Call, Op, Result, Serving
<1>2. QED
  BY <1>1 DEF Service!Next

LEMMA ServeStep ==
    ASSUME NEW t \in Threads, Op[t] # "idle", Serving = {}, Serving' = {t},
           Op' = Op, address' = address, Result' = Result
    PROVE  Service!Next
<1>1. Service!Serve(t)
  BY DEF Service!Serve, Op, Result, Serving
<1>2. QED
  BY <1>1 DEF Service!Next

LEMMA FetchStep ==
    ASSUME NEW t \in Threads, Op[t] = "read", Serving = {t},
           Result[t] = Blank,
           Result' = [Result EXCEPT ![t] = [k \in Piece |-> address[t]]],
           Op' = Op, address' = address, Serving' = Serving
    PROVE  Service!Next
<1>1. Service!Fetch(t)
  BY DEF Service!Fetch, Service!BlockAt, Service!Nothing, Blank, Zeroes, Piece, Op, Result, Serving
<1>2. QED
  BY <1>1 DEF Service!Next

LEMMA ReturnStep ==
    ASSUME NEW t \in Threads, Serving = {t},
           Op[t] = "read" => Result[t] = [k \in Piece |-> address[t]],
           Op' = [Op EXCEPT ![t] = "idle"],
           address' = [address EXCEPT ![t] = Zeroes],
           Result' = [Result EXCEPT ![t] = Blank],
           \/ Serving' = {}
           \/ \E u \in Threads \ {t} : Op[u] # "idle" /\ Serving' = {u}
    PROVE  Service!Next
<1>1. Service!Return(t)
  BY DEF Service!Return, Service!BlockAt, Service!Nothing, Blank, Zeroes, Piece, Op, Result, Serving
<1>2. QED
  BY <1>1 DEF Service!Next

LEMMA ServiceStutter ==
    ASSUME Op' = Op, address' = address, Result' = Result, Serving' = Serving
    PROVE  UNCHANGED Service!svcVars
BY DEF Service!svcVars, Op, Result, Serving

(* What the service shows of a step that moves thread t to l.              *)
LEMMA OpStep ==
    ASSUME TypeInv, NEW t \in Threads, NEW l, pc' = [pc EXCEPT ![t] = l]
    PROVE  Op' = [Op EXCEPT ![t] = IF l \in {"idle", "write"} THEN l ELSE "read"]
BY DEF TypeInv, TypeOK, Op

(* A step that moves t between two places that the service does not tell   *)
(* apart.                                                                  *)
LEMMA HiddenStep ==
    ASSUME TypeInv, NEW t \in Threads, NEW l,
           pc[t] \notin {"idle", "write", "up_cn"}, l \notin {"idle", "write", "up_cn"},
           pc' = [pc EXCEPT ![t] = l],
           \A u \in Threads : u # t => block'[u] = block[u]
    PROVE  Op' = Op /\ Result' = Result
<1>1. /\ pc'[t] = l
      /\ \A u \in Threads : u # t => pc'[u] = pc[u]
  BY DEF TypeInv, TypeOK
<1>2. Op' = Op
  BY <1>1 DEF Op
<1>3. Result' = Result
  BY <1>1 DEF Result
<1>4. QED
  BY <1>2, <1>3

(* Every step of the transport is a step of the service or a stutter.      *)
LEMMA ServiceNext ==
    ASSUME ServiceAssumption, ThreeDigits, TransportInv, TransportInv', [Next]_vars
    PROVE  [Service!Next]_(Service!svcVars)
<1>a. TypeInv /\ CnInv /\ CbInv /\ ReadReturnsRequestedBlock
  BY RightWhenInvariant DEF TransportInv
<1>b. ReadReturnsRequestedBlock'
  BY RightWhenInvariant, PTL
<1>1. ASSUME NEW t \in Threads, NEW a \in Addresses, ReadBlock(t, a) PROVE Service!Next
  <2>1. ~(allocFailures < MaxAllocFailures)
    BY <1>a DEF ServiceAssumption, NoAllocFailure, TypeInv, TypeOK
  <2>2. pc' = [pc EXCEPT ![t] = "down_cn"] /\ pc[t] = "idle" /\ block' = block
    BY <1>1, <2>1 DEF ReadBlock
  <2>3. /\ pc'[t] = "down_cn"
        /\ \A u \in Threads : u # t => pc'[u] = pc[u]
    BY <1>a, <2>2 DEF TypeInv, TypeOK
  <2>4. Op' = [Op EXCEPT ![t] = "read"] /\ Op[t] = "idle"
    <3>1. Op' = [Op EXCEPT ![t] = IF "down_cn" \in {"idle", "write"} THEN "down_cn" ELSE "read"]
      BY <1>a, <2>2, OpStep
    <3>2. QED
      BY <2>2, <3>1 DEF Op
  <2>5. Result' = Result
    BY <2>2, <2>3 DEF Result
  <2>6. \A u \in Threads : Sleeps(cn_sem, u)' <=> Sleeps(cn_sem, u)
    BY <1>1 DEF ReadBlock, Sleeps
  <2>7. \A u \in Threads : HoldsCn(u)' <=> HoldsCn(u)
    BY <2>2, <2>3, <2>6 DEF HoldsCn
  <2>8. Serving' = Serving
    BY <2>7 DEF Serving
  <2>9. QED
    BY <1>1, <2>4, <2>5, <2>8, CallStep DEF ReadBlock
<1>2. ASSUME NEW t \in Threads, NEW a \in Addresses, WriteBlock(t, a) PROVE Service!Next
  <2>1. pc' = [pc EXCEPT ![t] = "write"] /\ pc[t] = "idle" /\ block' = block
    BY <1>2 DEF WriteBlock
  <2>2. /\ pc'[t] = "write"
        /\ \A u \in Threads : u # t => pc'[u] = pc[u]
    BY <1>a, <2>1 DEF TypeInv, TypeOK
  <2>3. Op' = [Op EXCEPT ![t] = "write"] /\ Op[t] = "idle"
    BY <1>a, <2>1, OpStep DEF Op
  <2>4. Result' = Result
    BY <2>1, <2>2 DEF Result
  <2>5. Serving' = Serving \/ (Serving = {} /\ Serving' = {t})
    BY <1>2, <1>a, <2>1, ServingEnter DEF WriteBlock
  <2>6. QED
    BY <1>2, <2>3, <2>4, <2>5, CallStep DEF WriteBlock
<1>3. ASSUME NEW t \in Threads, ReadDownCn(t) PROVE Service!Next \/ UNCHANGED Service!svcVars
  <2>1. Op' = Op /\ Result' = Result /\ Op[t] # "idle" /\ address' = address
    BY <1>3, <1>a, HiddenStep DEF ReadDownCn, Op
  <2>2. Serving' = Serving \/ (Serving = {} /\ Serving' = {t})
    BY <1>3, <1>a, ServingEnter DEF ReadDownCn
  <2>3. QED
    BY <2>1, <2>2, ServeStep, ServiceStutter
<1>4. ASSUME NEW t \in Threads, ReadDownCb(t) \/ ReadSend(t) \/ ReadAwaitCb(t) \/ ReadUpCb(t)
      PROVE  UNCHANGED Service!svcVars
  <2>1. PICK l \in {"send", "await_cb", "up_cb", "copy"} :
           pc' = [pc EXCEPT ![t] = l] /\ cn_sem' = cn_sem /\ address' = address /\ block' = block
    BY <1>4 DEF ReadDownCb, ReadSend, ReadAwaitCb, ReadUpCb
  <2>2. HoldsCn(t) /\ pc[t] \notin {"idle", "write", "up_cn"}
    BY <1>4 DEF ReadDownCb, ReadSend, ReadAwaitCb, ReadUpCb, HoldsCn
  <2>3. Op' = Op /\ Result' = Result
    BY <1>a, <2>1, <2>2, HiddenStep
  <2>4. Serving' = Serving
    BY <1>a, <2>1, <2>2, ServingKeep
  <2>5. QED
    BY <2>1, <2>3, <2>4, ServiceStutter
<1>5. ASSUME NEW t \in Threads, ReadCopy(t) PROVE Service!Next \/ UNCHANGED Service!svcVars
  <2>1. HoldsCn(t) /\ pc[t] = "copy" /\ cn_sem' = cn_sem /\ address' = address
    BY <1>5 DEF ReadCopy, HoldsCn
  <2>2. PICK l \in {"up_cn", "copy"} : pc' = [pc EXCEPT ![t] = l]
    BY <1>5 DEF ReadCopy
  <2>3. \A u \in Threads : u # t => block'[u] = block[u]
    BY <1>5, <1>a DEF ReadCopy, TypeInv, TypeOK
  <2>4. Serving' = Serving
    BY <1>a, <2>1, <2>2, ServingKeep
  <2>5. CASE l = "copy"
    <3>1. Op' = Op /\ Result' = Result
      BY <1>a, <2>1, <2>2, <2>3, <2>5, HiddenStep
    <3>2. QED
      BY <2>1, <2>4, <3>1, ServiceStutter
  <2>6. CASE l = "up_cn"
    <3>1. /\ pc'[t] = "up_cn"
          /\ \A u \in Threads : u # t => pc'[u] = pc[u]
      BY <1>a, <2>2, <2>6 DEF TypeInv, TypeOK
    <3>2. address[t] < 1000
      BY <1>a, <2>1 DEF CbInv, ThreeDigits
    <3>3. block'[t] = [k \in Piece |-> address[t]]
      BY <1>b, <2>1, <3>1, <3>2 DEF ReadReturnsRequestedBlock
    <3>4. Result[t] = Blank /\ Result' = [Result EXCEPT ![t] = [k \in Piece |-> address[t]]]
      BY <2>1, <2>3, <3>1, <3>3 DEF Result
    <3>5. Op[t] = "read" /\ Op' = Op
      BY <2>1, <3>1 DEF Op
    <3>6. Serving = {t}
      BY <1>a, <2>1, ServingHolder
    <3>7. QED
      BY <2>1, <2>4, <3>4, <3>5, <3>6, FetchStep
  <2>7. QED
    BY <2>5, <2>6
<1>6. ASSUME NEW t \in Threads, ReadReturn(t) \/ WriteReturn(t) PROVE Service!Next
  <2>1. /\ pc[t] \in {"up_cn", "write"} /\ pc' = [pc EXCEPT ![t] = "idle"]
        /\ cn_sem' = Up(cn_sem) /\ address' = [address EXCEPT ![t] = Zeroes]
    BY <1>6 DEF ReadReturn, WriteReturn
  <2>2. HoldsCn(t) /\ ~Sleeps(cn_sem, t)
    BY <1>6, <1>a DEF ReadReturn, WriteReturn, HoldsCn, CnInv
  <2>3. \A u \in Threads : u # t => block'[u] = block[u]
    BY <1>6, <1>a DEF ReadReturn, WriteReturn, TypeInv, TypeOK
  <2>4. /\ pc'[t] = "idle"
        /\ \A u \in Threads : u # t => pc'[u] = pc[u]
    BY <1>a, <2>1 DEF TypeInv, TypeOK
  <2>5. Op' = [Op EXCEPT ![t] = "idle"]
    BY <1>a, <2>1, OpStep
  <2>6. Result' = [Result EXCEPT ![t] = Blank]
    BY <2>3, <2>4 DEF Result
  <2>7. Op[t] = "read" => Result[t] = [k \in Piece |-> address[t]]
    <3>1. Op[t] = "read" => pc[t] = "up_cn"
      BY <2>1 DEF Op
    <3>2. address[t] < 1000
      BY <1>a, <2>1 DEF CbInv, ThreeDigits
    <3>3. QED
      BY <1>a, <3>1, <3>2 DEF ReadReturnsRequestedBlock, Result
  <2>8. Serving = {t}
    BY <1>a, <2>2, ServingHolder
  <2>9. \/ Serving' = {}
        \/ \E u \in Threads \ {t} : Op[u] # "idle" /\ Serving' = {u}
    <3>1. \/ Serving' = {}
          \/ \E u \in Threads \ {t} : pc[u] \in {"down_cb", "write"} /\ Serving' = {u}
      BY <1>a, <2>1, <2>2, ServingLeave
    <3>2. \A u \in Threads : pc[u] \in {"down_cb", "write"} => Op[u] # "idle"
      BY DEF Op
    <3>3. QED
      BY <3>1, <3>2
  <2>10. QED
    BY <2>1, <2>5, <2>6, <2>7, <2>8, <2>9, ReturnStep
<1>7. ASSUME UNCHANGED <<cn_sem, pc, address, block>> PROVE UNCHANGED Service!svcVars
  <2>1. Op' = Op /\ Result' = Result
    BY <1>7 DEF Op, Result
  <2>2. \A u \in Threads : HoldsCn(u)' <=> HoldsCn(u)
    BY <1>7 DEF HoldsCn, Sleeps
  <2>3. Serving' = Serving
    BY <2>2 DEF Serving
  <2>4. QED
    BY <1>7, <2>1, <2>3, ServiceStutter
<1>8. ASSUME NEW p \in Peers, PeerStep(p) PROVE UNCHANGED <<cn_sem, pc, address, block>>
  BY <1>8 DEF PeerStep, PeerAnswers, CallbackTrylock, CallbackIgnore, CallbackCopy,
              CallbackSignal, threadVars
<1>9. CASE UNCHANGED vars
  BY <1>7, <1>9 DEF vars, threadVars
<1>10. QED
  BY <1>1, <1>2, <1>3, <1>4, <1>5, <1>6, <1>7, <1>8, <1>9 DEF Next, ThreadStep

LEMMA ServiceInit == Init => Service!Init
<1> SUFFICES ASSUME Init PROVE Service!Init
  OBVIOUS
<1>1. \A t \in Threads : ~HoldsCn(t)
  BY DEF Init, HoldsCn
<1>2. Serving = {}
  BY <1>1 DEF Serving
<1>3. QED
  BY <1>2 DEF Init, Service!Init, Service!Nothing, Serving, Blank, Zeroes, Piece

(* The socket level of the kernel module implements the block service for  *)
(* any number of threads, blocks and pieces: calls are served one at a     *)
(* time, a read returns exactly the block it was asked for, and nothing    *)
(* else is visible to the callers, whatever the interleaving and whichever *)
(* requests are lost; as long as one peer answers with whole blocks,       *)
(* allocations succeed and block numbers have at most three digits.        *)
THEOREM TransportImplementsService ==
    ASSUME ServiceAssumption, ThreeDigits
    PROVE  Spec => ImplementsBlockService
<1>1. Init => Service!Init
  BY ServiceInit
<1>2. TransportInv /\ TransportInv' /\ [Next]_vars => [Service!Next]_(Service!svcVars)
  BY ServiceNext
<1>3. Spec => []TransportInv
  BY TransportInvariance
<1>4. QED
  BY <1>1, <1>2, <1>3, PTL DEF Spec, ImplementsBlockService, Service!Spec
=============================================================================
