---------------------------- MODULE SqRingProofs ----------------------------
(***************************************************************************)
(* Proofs about the send ring (SqRing), for every size of the ring and     *)
(* width of the counters the assumptions allow.                            *)
(***************************************************************************)
EXTENDS SqRing, RingArith, TLAPS

(* The low 16 bits of sq_cur_post: the index of the next WQE.             *)
PostIdx == sqPost % PiMod

(* Every WQE built and not yet executed is intact in its slot.             *)
Intact ==
  \A k \in 0 .. InFlight - 1 :
    WellFormed(wqe[((hwSqCi + k) % PiMod) % WQE_CNT], (hwSqCi + k) % PiMod)

(* The inductive strengthening of DoorbellCoversBuilt: between two calls   *)
(* of local_write the HCA knows of every WQE built; while one is being     *)
(* triggered it is built, intact, in a slot no outstanding WQE uses.       *)
SqIInv ==
  /\ SqTypeOK
  /\ hwSqKnown = PostIdx
  /\ InFlight <= WQE_CNT
  /\ sqPc = "ring" =>
       /\ InFlight < WQE_CNT
       /\ WellFormed(wqe[sqPost % WQE_CNT], PostIdx)
  /\ Intact

-----------------------------------------------------------------------------
(* The sizes: the ring divides the index range and is at most half of it.  *)
LEMMA SqSizeFacts ==
  /\ WQE_CNT \in Nat \ {0}
  /\ PiMod \in Nat \ {0}
  /\ SqMod \in Nat \ {0}
  /\ PiMod % WQE_CNT = 0
  /\ SqMod % PiMod = 0
  /\ WQE_CNT < PiMod
  /\ BF_SIZE \in Nat
<1>1. /\ WQE_CNT \in Nat \ {0} /\ PiMod \in Nat \ {0} /\ SqMod \in Nat \ {0}
      /\ PiMod % (2 * WQE_CNT) = 0 /\ SqMod % PiMod = 0
  BY SqModAssumption
<1>2. PiMod % WQE_CNT = 0 /\ 2 * WQE_CNT <= PiMod
  BY <1>1, DoubleDivides
<1>3. BF_SIZE \in Nat
  BY SqAssumption
<1>4. QED
  BY <1>1, <1>2, <1>3, SMT

(* The counters of a state of the right type, and the distance between    *)
(* the WQE index and the HCA's.                                            *)
LEMMA SqCounterFacts ==
  ASSUME SqTypeOK
  PROVE  /\ sqPost \in Int /\ hwSqCi \in 0 .. PiMod - 1
         /\ PostIdx \in 0 .. PiMod - 1
         /\ InFlight \in 0 .. PiMod - 1
         /\ (hwSqCi + InFlight) % PiMod = PostIdx
         /\ sqPost % WQE_CNT = PostIdx % WQE_CNT
         /\ sqPost % WQE_CNT \in 0 .. WQE_CNT - 1
<1>1. sqPost \in Int /\ hwSqCi \in 0 .. PiMod - 1
  BY DEF SqTypeOK
<1>2. PostIdx \in 0 .. PiMod - 1
  BY <1>1, SqSizeFacts, DivMod DEF PostIdx
<1>3. (PostIdx - hwSqCi) % PiMod \in 0 .. PiMod - 1
      /\ (hwSqCi + ((PostIdx - hwSqCi) % PiMod)) % PiMod = PostIdx
  <2>1. PiMod \in Nat \ {0} /\ hwSqCi \in Int
    BY <1>1, SqSizeFacts
  <2>2. QED
    BY <1>2, <2>1, DistFacts, Zenon
<1>4. InFlight = (PostIdx - hwSqCi) % PiMod
  BY DEF InFlight, PostIdx
<1>5. (sqPost % PiMod) % WQE_CNT = sqPost % WQE_CNT
  BY <1>1, SqSizeFacts, ModMod
<1>6. sqPost % WQE_CNT \in 0 .. WQE_CNT - 1
  BY <1>1, SqSizeFacts, DivMod
<1>7. QED
  BY <1>1, <1>2, <1>3, <1>4, <1>5, <1>6 DEF PostIdx

(* The WQE local_write builds has the type of a WQE.                       *)
LEMMA BuiltWqeType ==
  ASSUME NEW i \in 0 .. PiMod - 1
  PROVE  [pi |-> i, opcode |-> MLX5_OPCODE_RDMA_WRITE,
          ds |-> (CtrlSegSize + RaddrSegSize + DataSegSize) \div 16,
          ce |-> TRUE] \in Wqe
BY DEF Wqe, MLX5_OPCODE_RDMA_WRITE, CtrlSegSize, RaddrSegSize, DataSegSize

(* The initial state has the right type.                                  *)
LEMMA SqTypeInit == SqInit => SqTypeOK
<1> SUFFICES ASSUME SqInit PROVE SqTypeOK
  OBVIOUS
<1>1. 0 \in 0 .. SqMod - 1 /\ 0 \in 0 .. PiMod - 1 /\ BF_SIZE \in Nat
  BY SqSizeFacts
<1>2. NoWqe \in Wqe
  BY <1>1 DEF NoWqe, Wqe
<1>3. QED
  BY <1>1, <1>2 DEF SqInit, SqTypeOK

(* Every step keeps the type.                                              *)
LEMMA SqTypeNext == SqTypeOK /\ [SqNext]_sqVars => SqTypeOK'
<1> SUFFICES ASSUME SqTypeOK, [SqNext]_sqVars PROVE SqTypeOK'
  OBVIOUS
<1>1. CASE PostWqe
  <2>1. sqPost % WQE_CNT \in 0 .. WQE_CNT - 1 /\ sqPost % PiMod \in 0 .. PiMod - 1
    BY SqCounterFacts DEF PostIdx
  <2>2. QED
    BY <1>1, <2>1, BuiltWqeType DEF PostWqe, SqTypeOK
<1>2. CASE RingDoorbell
  <2>1. sqPost % WQE_CNT \in 0 .. WQE_CNT - 1
    BY SqCounterFacts
  <2>2. wqe[sqPost % WQE_CNT].pi + 1 \in Int
    BY <2>1 DEF SqTypeOK, Wqe
  <2>3. (wqe[sqPost % WQE_CNT].pi + 1) % PiMod \in 0 .. PiMod - 1
    BY <2>2, SqSizeFacts, DivMod
  <2>4. (sqPost + 1) % SqMod \in 0 .. SqMod - 1
    BY SqSizeFacts, DivMod DEF SqTypeOK
  <2>5. BF_SIZE - bfOffset \in {0, BF_SIZE}
    BY SqSizeFacts DEF SqTypeOK
  <2>6. QED
    BY <1>2, <2>3, <2>4, <2>5 DEF RingDoorbell, SqTypeOK
<1>3. CASE HwExecuteWqe
  <2>1. hwSqCi % WQE_CNT \in 0 .. WQE_CNT - 1
    BY SqSizeFacts, DivMod DEF SqTypeOK
  <2>2. (hwSqCi + 1) % PiMod \in 0 .. PiMod - 1
    BY SqSizeFacts, DivMod DEF SqTypeOK
  <2>3. QED
    BY <1>3, <2>1, <2>2 DEF HwExecuteWqe, SqTypeOK
<1>4. CASE UNCHANGED sqVars
  BY <1>4 DEF sqVars, SqTypeOK
<1>5. QED
  BY <1>1, <1>2, <1>3, <1>4 DEF SqNext

(* Type correctness of the send ring: local_write keeps sq_cur_post in its *)
(* 32 bits and bf_offset on one of the two halves of the BlueFlame        *)
(* register, and the HCA's indices in 16 bits.                             *)
THEOREM SqTypeCorrect == SqSpec => []SqTypeOK
BY SqTypeInit, SqTypeNext, PTL DEF SqSpec

-----------------------------------------------------------------------------
(* The strengthened invariant holds initially: nothing is built or known.  *)
LEMMA SqIInvInit == SqInit => SqIInv
<1> SUFFICES ASSUME SqInit PROVE SqIInv
  OBVIOUS
<1>1. SqTypeOK
  BY SqTypeInit
<1>2. PostIdx = 0 /\ InFlight = 0
  BY SqSizeFacts DEF SqInit, PostIdx, InFlight
<1>3. InFlight <= WQE_CNT
  BY <1>2, SqSizeFacts
<1>4. Intact
  BY <1>2 DEF Intact
<1>5. QED
  BY <1>1, <1>2, <1>3, <1>4 DEF SqInit, SqIInv

(* post_wqe (lines 918-945) writes the slot of the next index, which no    *)
(* WQE still in flight occupies while the ring is not full.               *)
LEMMA SqIInvPost ==
  ASSUME SqIInv, PostWqe, CallerAvoidsFull
  PROVE  SqIInv'
<1>1. SqTypeOK'
  BY SqTypeNext, SqIInv, PostWqe, CallerAvoidsFull DEF SqIInv, SqNext
<1>2. PostIdx' = PostIdx /\ InFlight' = InFlight /\ hwSqKnown' = hwSqKnown
      /\ hwSqCi' = hwSqCi /\ sqPost' = sqPost
  BY PostWqe DEF PostWqe, PostIdx, InFlight
<1>3. /\ sqPost \in Int /\ hwSqCi \in 0 .. PiMod - 1
      /\ InFlight \in 0 .. PiMod - 1
      /\ (hwSqCi + InFlight) % PiMod = PostIdx
      /\ sqPost % WQE_CNT = PostIdx % WQE_CNT
      /\ sqPost % WQE_CNT \in 0 .. WQE_CNT - 1
  BY SqCounterFacts, SqIInv DEF SqIInv
<1>4. InFlight < WQE_CNT
  BY CallerAvoidsFull DEF CallerAvoidsFull
<1>5. wqe \in [0 .. WQE_CNT - 1 -> Wqe]
  BY SqIInv DEF SqIInv, SqTypeOK
<1>6. WellFormed(wqe'[sqPost' % WQE_CNT], PostIdx')
  BY PostWqe, <1>2, <1>3, <1>5 DEF PostWqe, WellFormed, PostIdx
<1>7. Intact'
  <2> SUFFICES ASSUME NEW k \in 0 .. InFlight - 1
               PROVE  WellFormed(wqe'[((hwSqCi + k) % PiMod) % WQE_CNT],
                                 (hwSqCi + k) % PiMod)
    BY <1>2 DEF Intact
  <2>1. k \in 0 .. WQE_CNT - 1 /\ InFlight \in 0 .. WQE_CNT - 1 /\ k < InFlight
    BY <1>3, <1>4, SqSizeFacts
  <2>2. PiMod \in Nat \ {0} /\ WQE_CNT \in Nat \ {0} /\ PiMod % WQE_CNT = 0
        /\ hwSqCi \in Int
    BY <1>3, SqSizeFacts
  <2>3. ((hwSqCi + k) % PiMod) % WQE_CNT # ((hwSqCi + InFlight) % PiMod) % WQE_CNT
    BY <2>1, <2>2, SlotDistinct, Zenon
  <2>4. ((hwSqCi + k) % PiMod) % WQE_CNT # sqPost % WQE_CNT
    BY <2>3, <1>3
  <2>5. ((hwSqCi + k) % PiMod) % WQE_CNT \in 0 .. WQE_CNT - 1
    BY <2>2, DivMod
  <2>6. wqe'[((hwSqCi + k) % PiMod) % WQE_CNT] = wqe[((hwSqCi + k) % PiMod) % WQE_CNT]
    BY PostWqe, <1>5, <2>4, <2>5 DEF PostWqe
  <2>7. QED
    BY <2>6, SqIInv DEF SqIInv, Intact
<1>8. QED
  BY <1>1, <1>2, <1>3, <1>4, <1>6, <1>7, SqIInv, PostWqe DEF SqIInv, PostWqe

(* The doorbell (lines 957-968) tells the HCA of exactly the WQE just      *)
(* built and advances sq_cur_post past it: the new index is one more than  *)
(* the old one, in 16 bits, and the WQE joins the ones in flight.          *)
LEMMA SqIInvRing ==
  ASSUME SqIInv, RingDoorbell
  PROVE  SqIInv' /\ InFlight' = InFlight + 1
<1>1. SqTypeOK'
  BY SqTypeNext, SqIInv, RingDoorbell DEF SqIInv, SqNext
<1>2. /\ sqPost \in Int /\ hwSqCi \in 0 .. PiMod - 1
      /\ PostIdx \in 0 .. PiMod - 1
      /\ InFlight \in 0 .. PiMod - 1
      /\ (hwSqCi + InFlight) % PiMod = PostIdx
      /\ sqPost % WQE_CNT = PostIdx % WQE_CNT
  BY SqCounterFacts, SqIInv DEF SqIInv
<1>3. InFlight < WQE_CNT /\ WellFormed(wqe[sqPost % WQE_CNT], PostIdx)
  BY SqIInv, RingDoorbell DEF SqIInv, RingDoorbell
<1>4. hwSqKnown' = (PostIdx + 1) % PiMod
  BY <1>3, RingDoorbell DEF RingDoorbell, WellFormed
<1>5. PostIdx' = (PostIdx + 1) % PiMod
  <2>1. PostIdx' = ((sqPost + 1) % SqMod) % PiMod
    BY RingDoorbell DEF RingDoorbell, PostIdx
  <2>2. ((sqPost + 1) % SqMod) % PiMod = (sqPost + 1) % PiMod
    <3>1. sqPost + 1 \in Int /\ SqMod \in Nat \ {0} /\ PiMod \in Nat \ {0}
          /\ SqMod % PiMod = 0
      BY <1>2, SqSizeFacts
    <3>2. QED
      BY <3>1, ModMod, Zenon
  <2>3. ((sqPost % PiMod) + 1) % PiMod = (sqPost + 1) % PiMod
    <3>1. sqPost \in Int /\ 1 \in Int /\ PiMod \in Nat \ {0}
      BY <1>2, SqSizeFacts
    <3>2. QED
      BY <3>1, ModAdd, Zenon
  <2>4. QED
    BY <2>1, <2>2, <2>3 DEF PostIdx
<1>6. InFlight' = InFlight + 1
  <2>1. InFlight = (PostIdx - hwSqCi) % PiMod /\ InFlight' = (PostIdx' - hwSqCi) % PiMod
    BY RingDoorbell DEF RingDoorbell, InFlight, PostIdx
  <2>2. (PostIdx - hwSqCi) % PiMod < PiMod - 1
    BY <1>3, <2>1, SqSizeFacts
  <2>3. PiMod \in Nat \ {0} /\ PostIdx \in Int /\ hwSqCi \in Int
    BY <1>2, SqSizeFacts
  <2>4. (((PostIdx + 1) % PiMod) - hwSqCi) % PiMod = ((PostIdx - hwSqCi) % PiMod) + 1
    BY <2>2, <2>3, DistAdvance, Zenon
  <2>5. QED
    BY <1>5, <2>1, <2>4
<1>7. Intact'
  <2> SUFFICES ASSUME NEW k \in 0 .. InFlight
               PROVE  WellFormed(wqe[((hwSqCi + k) % PiMod) % WQE_CNT],
                                 (hwSqCi + k) % PiMod)
    <3>1. wqe' = wqe /\ hwSqCi' = hwSqCi
      BY RingDoorbell DEF RingDoorbell
    <3>2. InFlight \in Int
      BY <1>2
    <3>3. QED
      BY <1>6, <3>1, <3>2 DEF Intact
  <2>1. CASE k < InFlight
    BY <2>1, SqIInv, <1>2 DEF SqIInv, Intact
  <2>2. CASE k = InFlight
    BY <2>2, <1>2, <1>3
  <2>3. QED
    BY <2>1, <2>2, <1>2
<1>8. InFlight' <= WQE_CNT
  BY <1>2, <1>3, <1>6, SqSizeFacts
<1>9. (sqPc = "ring" => /\ InFlight < WQE_CNT
                        /\ WellFormed(wqe[sqPost % WQE_CNT], PostIdx))'
  BY RingDoorbell DEF RingDoorbell
<1>10. QED
  BY <1>1, <1>4, <1>5, <1>6, <1>8, <1>9, <1>7 DEF SqIInv

(* The HCA executes its oldest outstanding WQE: since it knows exactly the *)
(* posted index, that WQE is in flight, and the rest stay intact.          *)
LEMMA SqIInvExec ==
  ASSUME SqIInv, HwExecuteWqe
  PROVE  SqIInv' /\ InFlight' = InFlight - 1
<1>1. SqTypeOK'
  BY SqTypeNext, SqIInv, HwExecuteWqe DEF SqIInv, SqNext
<1>2. /\ hwSqCi \in 0 .. PiMod - 1
      /\ PostIdx \in 0 .. PiMod - 1
      /\ InFlight \in 0 .. PiMod - 1
  BY SqCounterFacts, SqIInv DEF SqIInv
<1>3. /\ PostIdx' = PostIdx /\ hwSqKnown' = hwSqKnown /\ wqe' = wqe
      /\ sqPc' = sqPc /\ sqPost' = sqPost
      /\ hwSqCi' = (hwSqCi + 1) % PiMod
  BY HwExecuteWqe DEF HwExecuteWqe, PostIdx
<1>4. InFlight = (PostIdx - hwSqCi) % PiMod /\ InFlight' = (PostIdx - hwSqCi') % PiMod
  BY <1>3 DEF InFlight, PostIdx
<1>5. InFlight > 0
  <2>1. HwOutstanding = InFlight
    BY <1>4, SqIInv DEF SqIInv, HwOutstanding
  <2>2. QED
    BY <2>1, <1>2, HwExecuteWqe DEF HwExecuteWqe
<1>6. InFlight' = InFlight - 1
  <2>1. PiMod \in Nat \ {0} /\ PostIdx \in Int /\ hwSqCi \in Int
    BY <1>2, SqSizeFacts
  <2>2. (PostIdx - hwSqCi) % PiMod > 0
    BY <1>4, <1>5
  <2>3. (PostIdx - ((hwSqCi + 1) % PiMod)) % PiMod = ((PostIdx - hwSqCi) % PiMod) - 1
    BY <2>1, <2>2, DistRetreat, Zenon
  <2>4. QED
    BY <1>3, <1>4, <2>3
<1>7. Intact'
  <2> SUFFICES ASSUME NEW k \in 0 .. InFlight - 2
               PROVE  WellFormed(wqe[((hwSqCi' + k) % PiMod) % WQE_CNT],
                                 (hwSqCi' + k) % PiMod)
    BY <1>2, <1>3, <1>6 DEF Intact
  <2>1. (((hwSqCi + 1) % PiMod) + k) % PiMod = (hwSqCi + (k + 1)) % PiMod
    <3>1. PiMod \in Nat \ {0} /\ hwSqCi \in Int /\ k \in Int
      BY <1>2, SqSizeFacts
    <3>2. QED
      BY <3>1, DistShift, Zenon
  <2>2. k + 1 \in 0 .. InFlight - 1
    BY <1>2
  <2>3. WellFormed(wqe[((hwSqCi + (k + 1)) % PiMod) % WQE_CNT],
                   (hwSqCi + (k + 1)) % PiMod)
    BY <2>2, SqIInv DEF SqIInv, Intact
  <2>4. QED
    BY <1>3, <2>1, <2>3
<1>8. InFlight' <= WQE_CNT /\ InFlight' < InFlight
  <2>1. InFlight <= WQE_CNT
    BY SqIInv DEF SqIInv
  <2>2. QED
    BY <1>2, <1>6, <2>1, SqSizeFacts
<1>9. (sqPc = "ring" => /\ InFlight < WQE_CNT
                        /\ WellFormed(wqe[sqPost % WQE_CNT], PostIdx))'
  <2>1. sqPc = "ring" => /\ InFlight < WQE_CNT
                        /\ WellFormed(wqe[sqPost % WQE_CNT], PostIdx)
    BY SqIInv DEF SqIInv
  <2>2. WellFormed(wqe[sqPost % WQE_CNT], PostIdx)' = WellFormed(wqe[sqPost % WQE_CNT], PostIdx)
    BY <1>3 DEF WellFormed
  <2>3. InFlight' < WQE_CNT \/ ~(InFlight < WQE_CNT)
    BY <1>2, <1>6, SqSizeFacts
  <2>4. QED
    BY <1>3, <2>1, <2>2, <2>3
<1>10. QED
  BY <1>1, <1>3, <1>6, <1>8, <1>9, <1>7, SqIInv DEF SqIInv

(* The WQE the HCA fetches is the one local_write built for its index:   *)
(* it is told only of posted WQEs, and those are intact.                   *)
LEMMA ExecWellFormed ==
  ASSUME SqIInv, HwExecuteWqe
  PROVE  WellFormed(fetched', hwSqCi) /\ InFlight > 0
<1>1. hwSqCi \in 0 .. PiMod - 1 /\ InFlight \in 0 .. PiMod - 1
  BY SqCounterFacts, SqIInv DEF SqIInv
<1>2. InFlight > 0
  <2>1. HwOutstanding = InFlight
    BY SqIInv DEF SqIInv, HwOutstanding, InFlight, PostIdx
  <2>2. QED
    BY <1>1, <2>1, HwExecuteWqe DEF HwExecuteWqe
<1>3. (hwSqCi + 0) % PiMod = hwSqCi
  BY <1>1, SqSizeFacts, ModSmall
<1>4. WellFormed(wqe[((hwSqCi + 0) % PiMod) % WQE_CNT], (hwSqCi + 0) % PiMod)
  <2>1. 0 \in 0 .. InFlight - 1
    BY <1>1, <1>2
  <2>2. QED
    BY <2>1, SqIInv DEF SqIInv, Intact
<1>5. fetched' = wqe[hwSqCi % WQE_CNT]
  BY HwExecuteWqe DEF HwExecuteWqe
<1>6. QED
  BY <1>2, <1>3, <1>4, <1>5

(* A stuttering step keeps the strengthened invariant.                     *)
LEMMA SqIInvStutter ==
  ASSUME SqIInv, UNCHANGED sqVars
  PROVE  SqIInv'
BY DEF SqIInv, sqVars, SqTypeOK, PostIdx, InFlight, Intact, WellFormed

(* Every step of the send ring keeps the strengthened invariant.           *)
LEMMA SqIInvNext == SqIInv /\ [SqNext]_sqVars => SqIInv'
BY SqIInvPost, SqIInvRing, SqIInvExec, SqIInvStutter DEF SqNext

(* The strengthened invariant implies the property: the HCA knows exactly  *)
(* the posted index, so what it was told of is what is in flight.          *)
LEMMA SqIInvCovers == SqIInv => DoorbellCoversBuilt
<1> SUFFICES ASSUME SqIInv PROVE DoorbellCoversBuilt
  OBVIOUS
<1>1. HwOutstanding = InFlight
  BY DEF SqIInv, HwOutstanding, InFlight, PostIdx
<1>2. InFlight \in Int
  BY SqCounterFacts DEF SqIInv
<1>3. QED
  BY <1>1, <1>2 DEF SqIInv, Intact, DoorbellCoversBuilt

(* For every ring size and counter width: local_write rings the doorbell   *)
(* only for the WQE it has just built (the ctrl segment's 16-bit index is  *)
(* sq_cur_post's), and no WQE the HCA has yet to execute is overwritten    *)
(* while the caller never posts into a full ring.                          *)
THEOREM DoorbellCovered == SqSpec => []DoorbellCoversBuilt
<1>1. SqInit => SqIInv
  BY SqIInvInit
<1>2. SqIInv /\ [SqNext]_sqVars => SqIInv'
  BY SqIInvNext
<1>3. SqIInv => DoorbellCoversBuilt
  BY SqIInvCovers
<1>4. QED
  BY <1>1, <1>2, <1>3, PTL DEF SqSpec

=============================================================================
