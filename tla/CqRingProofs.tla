---------------------------- MODULE CqRingProofs ----------------------------
(***************************************************************************)
(* Proofs about the completion ring (CqRing), for every size of the ring,  *)
(* width of the counters and set of opcodes the assumptions allow.         *)
(***************************************************************************)
EXTENDS CqRing, RingArith, TLAPS

(* The inductive strengthening of NoOverrun.  Besides the type and the     *)
(* overrun invariant it says that                                          *)
(*  - the doorbell record holds the low bits of the consumer index;        *)
(*  - a slot of the ring that is not pending holds either the INVALID CQE  *)
(*    of init_cq_buf or a CQE whose owner bit is not the one expected at   *)
(*    its index: the CQE of the previous lap;                              *)
(*  - between the two steps of manual_poll_cq, an opcode other than        *)
(*    INVALID was loaded from a slot that is no longer INVALID, and an     *)
(*    owner bit matching the expected one was loaded only from a pending   *)
(*    CQE.                                                                 *)
StaleSlots ==
  \A k \in Pending .. CQE_CNT - 1 :
    LET i == (ci + k) % CiMod
    IN  \/ slot[Pos(i)].op = MLX5_CQE_INVALID
        \/ slot[Pos(i)].owner # HwOwner(i)

LoadedSound ==
  pc = "loaded" =>
    /\ lop # MLX5_CQE_INVALID => slot[Pos(ci)].op # MLX5_CQE_INVALID
    /\ (lop # MLX5_CQE_INVALID /\ lown = HwOwner(ci)) => Pending > 0

(* Between the two steps of manual_poll_cq, an opcode and an owner bit    *)
(* that pass both tests came from the slot as it still is: the HCA writes *)
(* only into free slots, and a CQE with the expected owner is pending.     *)
LoadedCurrent ==
  (pc = "loaded" /\ lop # MLX5_CQE_INVALID /\ lown = HwOwner(ci))
    => lop = slot[Pos(ci)].op

IInv ==
  /\ TypeOK
  /\ dbrec = ci % DbMod
  /\ NoOverrun
  /\ StaleSlots
  /\ LoadedSound

-----------------------------------------------------------------------------
(* The sizes: the ring divides both counter ranges and fits in the         *)
(* doorbell's.                                                             *)
LEMMA SizeFacts ==
  /\ CQE_CNT \in Nat \ {0}
  /\ CiMod \in Nat \ {0}
  /\ DbMod \in Nat \ {0}
  /\ CiMod % CQE_CNT = 0
  /\ CiMod % DbMod = 0
  /\ CiMod % (2 * CQE_CNT) = 0
  /\ CQE_CNT < DbMod
  /\ CQE_CNT < CiMod
<1>1. /\ CQE_CNT \in Nat \ {0} /\ CiMod \in Nat \ {0} /\ DbMod \in Nat \ {0}
      /\ DbMod % (2 * CQE_CNT) = 0 /\ CiMod % DbMod = 0
      /\ CiMod % (2 * CQE_CNT) = 0
  BY RingModAssumption
<1>2. 2 * CQE_CNT <= DbMod
  BY <1>1, DoubleDivides
<1>3. CiMod % CQE_CNT = 0 /\ 2 * CQE_CNT <= CiMod
  BY <1>1, DoubleDivides
<1>4. QED
  BY <1>1, <1>2, <1>3, SMT

(* The slot of an index is a slot of the ring.                             *)
LEMMA PosType ==
  ASSUME NEW i \in Int
  PROVE  Pos(i) \in 0 .. CQE_CNT - 1
BY SizeFacts, DivMod DEF Pos

(* The owner bit of an index is a bit.                                     *)
LEMMA HwOwnerType ==
  ASSUME NEW i \in Int
  PROVE  HwOwner(i) \in 0 .. 1
<1>1. i \div CQE_CNT \in Int
  BY SizeFacts, DivMod
<1>2. QED
  BY <1>1, DivMod DEF HwOwner

(* What the decoder returns for a recognised opcode is a work completion.  *)
LEMMA DecodeType ==
  ASSUME NEW op \in KnownOps, NEW c \in Cqe
  PROVE  Decode(op, c) \in Wc
<1>1. ReqWcOpcode(c.sub) \in {IBV_WC_SEND, IBV_WC_RDMA_WRITE, IBV_WC_RDMA_READ}
  BY DEF ReqWcOpcode
<1>2. QED
  BY <1>1 DEF Decode, Wc, Cqe, KnownOps

(* Ring index k places after c, and its slot.                             *)
LEMMA IdxFacts ==
  ASSUME NEW c \in Int, NEW k \in Int
  PROVE  /\ (c + k) % CiMod \in 0 .. CiMod - 1
         /\ Pos((c + k) % CiMod) = (c + k) % CQE_CNT
<1>1. c + k \in Int /\ CiMod \in Nat \ {0} /\ CQE_CNT \in Nat \ {0}
      /\ CiMod % CQE_CNT = 0
  BY SizeFacts
<1>2. (c + k) % CiMod \in 0 .. CiMod - 1
  BY <1>1, DivMod, ZenonT(30)
<1>3. ((c + k) % CiMod) % CQE_CNT = (c + k) % CQE_CNT
  BY <1>1, ModMod, ZenonT(30)
<1>4. QED
  BY <1>2, <1>3 DEF Pos

(* Indices less than cqe_cnt apart are in different slots.                 *)
LEMMA PosDistinct ==
  ASSUME NEW c \in Int, NEW k1 \in 0 .. CQE_CNT - 1, NEW k2 \in 0 .. CQE_CNT - 1,
         k1 # k2
  PROVE  Pos((c + k1) % CiMod) # Pos((c + k2) % CiMod)
<1>1. Pos((c + k1) % CiMod) = (c + k1) % CQE_CNT
      /\ Pos((c + k2) % CiMod) = (c + k2) % CQE_CNT
  BY IdxFacts, SizeFacts
<1>2. SUFFICES ASSUME (c + k1) % CQE_CNT = (c + k2) % CQE_CNT PROVE FALSE
  BY <1>1
<1>3. c + k1 \in Int /\ c + k2 \in Int /\ CQE_CNT \in Nat \ {0}
  BY SizeFacts
<1>4. CASE k1 < k2
  <2>1. 0 <= (c + k2) - (c + k1) /\ (c + k2) - (c + k1) < CQE_CNT
    BY <1>4, SizeFacts
  <2>2. c + k1 = c + k2
    BY <1>2, <1>3, <2>1, ModInjective, ZenonT(30)
  <2>3. QED
    BY <2>2, <1>4
<1>5. CASE k2 < k1
  <2>1. 0 <= (c + k1) - (c + k2) /\ (c + k1) - (c + k2) < CQE_CNT
    BY <1>5, SizeFacts
  <2>2. c + k2 = c + k1
    BY <1>2, <1>3, <2>1, ModInjective, ZenonT(30)
  <2>3. QED
    BY <2>2, <1>5
<1>6. QED
  BY <1>4, <1>5, SizeFacts

(* Facts about the counters of a state of the right type.                  *)
LEMMA CounterFacts ==
  ASSUME TypeOK
  PROVE  /\ hwPi \in Int /\ ci \in Int /\ dbrec \in Int
         /\ hwPi - ci \in Int /\ hwPi + 1 \in Int /\ ci + 1 \in Int
         /\ CiMod \in Nat \ {0} /\ DbMod \in Nat \ {0}
BY SizeFacts DEF TypeOK

(* The consumer index is the pending distance behind the HCA's.            *)
LEMMA PendingFacts ==
  ASSUME TypeOK
  PROVE  /\ Pending \in 0 .. CiMod - 1
         /\ (ci + Pending) % CiMod = hwPi
<1>1. Pending \in 0 .. CiMod - 1
  <2>1. hwPi - ci \in Int /\ CiMod \in Nat \ {0}
    BY CounterFacts
  <2>2. QED
    BY <2>1, DivMod, ZenonT(30) DEF Pending
<1>2. (((hwPi - ci) % CiMod) + ci) % CiMod = ((hwPi - ci) + ci) % CiMod
  <2>1. hwPi - ci \in Int /\ ci \in Int /\ CiMod \in Nat \ {0}
    BY CounterFacts, SizeFacts
  <2>2. QED
    BY <2>1, ModAdd, ZenonT(30)
<1>3. hwPi % CiMod = hwPi
  BY CounterFacts, ModSmall DEF TypeOK
<1>4. QED
  BY <1>1, <1>2, <1>3, CounterFacts DEF Pending

(* The HCA's full test, on the 24-bit doorbell value, is the test on the   *)
(* pending count while the doorbell holds the low bits of the index.       *)
LEMMA GuardIsPending ==
  ASSUME TypeOK, dbrec = ci % DbMod, Pending <= CQE_CNT
  PROVE  (hwPi - dbrec) % DbMod = Pending
<1>1. (hwPi - (ci % DbMod)) % DbMod = (hwPi - ci) % DbMod
  <2>1. ci \in Int /\ hwPi \in Int /\ DbMod \in Nat \ {0}
    BY CounterFacts, SizeFacts
  <2>2. QED
    BY <2>1, ModAdd, ZenonT(30)
<1>2. ((hwPi - ci) % CiMod) % DbMod = (hwPi - ci) % DbMod
  <2>1. hwPi - ci \in Int /\ DbMod \in Nat \ {0} /\ CiMod \in Nat \ {0}
        /\ CiMod % DbMod = 0
    BY CounterFacts, SizeFacts
  <2>2. QED
    BY <2>1, ModMod, ZenonT(30)
<1>3. Pending \in 0 .. DbMod - 1
  BY PendingFacts, SizeFacts
<1>4. Pending % DbMod = Pending
  BY <1>3, CounterFacts, ModSmall
<1>5. QED
  BY <1>1, <1>2, <1>4 DEF Pending

(* A write of the HCA adds one to the pending count.                       *)
LEMMA WritePending ==
  ASSUME TypeOK, Pending < CQE_CNT
  PROVE  (((hwPi + 1) % CiMod) - ci) % CiMod = Pending + 1
<1>1. (((hwPi + 1) % CiMod) + (-ci)) % CiMod = ((hwPi + 1) + (-ci)) % CiMod
  <2>1. hwPi + 1 \in Int /\ -ci \in Int /\ CiMod \in Nat \ {0}
    BY CounterFacts
  <2>2. QED
    BY <2>1, ModAdd, ZenonT(30)
<1>2. (((hwPi - ci) % CiMod) + 1) % CiMod = ((hwPi - ci) + 1) % CiMod
  <2>1. hwPi - ci \in Int /\ 1 \in Int /\ CiMod \in Nat \ {0}
    BY CounterFacts
  <2>2. QED
    BY <2>1, ModAdd, ZenonT(30)
<1>3. (Pending + 1) % CiMod = Pending + 1
  BY PendingFacts, SizeFacts, ModSmall
<1>4. QED
  BY <1>1, <1>2, <1>3, CounterFacts DEF Pending

(* A consumption takes one from the pending count.                         *)
LEMMA ConsumePending ==
  ASSUME TypeOK, Pending > 0
  PROVE  (hwPi - ((ci + 1) % CiMod)) % CiMod = Pending - 1
<1>1. (hwPi - ((ci + 1) % CiMod)) % CiMod = (hwPi - (ci + 1)) % CiMod
  <2>1. ci + 1 \in Int /\ hwPi \in Int /\ CiMod \in Nat \ {0}
    BY CounterFacts, SizeFacts
  <2>2. QED
    BY <2>1, ModAdd, ZenonT(30)
<1>2. (((hwPi - ci) % CiMod) + (-1)) % CiMod = ((hwPi - ci) + (-1)) % CiMod
  <2>1. hwPi - ci \in Int /\ -1 \in Int /\ CiMod \in Nat \ {0}
    BY CounterFacts
  <2>2. QED
    BY <2>1, ModAdd, ZenonT(30)
<1>3. (Pending - 1) % CiMod = Pending - 1
  BY PendingFacts, SizeFacts, ModSmall
<1>4. QED
  BY <1>1, <1>2, <1>3, CounterFacts DEF Pending

(* Index k after the incremented consumer index is index k + 1 after the   *)
(* old one.                                                                *)
LEMMA IdxShift ==
  ASSUME NEW c \in Int, NEW k \in Int
  PROVE  (((c + 1) % CiMod) + k) % CiMod = (c + (k + 1)) % CiMod
<1>1. c + 1 \in Int /\ CiMod \in Nat \ {0}
  BY SizeFacts
<1>2. (((c + 1) % CiMod) + k) % CiMod = ((c + 1) + k) % CiMod
  BY <1>1, ModAdd, ZenonT(30)
<1>3. QED
  BY <1>2

(* The index one lap after c uses the same slot with the other owner bit.  *)
LEMMA NextLap ==
  ASSUME NEW c \in 0 .. CiMod - 1
  PROVE  /\ Pos((c + CQE_CNT) % CiMod) = Pos(c)
         /\ HwOwner((c + CQE_CNT) % CiMod) # HwOwner(c)
<1>1. c \in Int /\ c + CQE_CNT \in Int /\ CQE_CNT \in Nat \ {0} /\ CQE_CNT \in Int
      /\ CiMod \in Nat \ {0} /\ CiMod % (2 * CQE_CNT) = 0 /\ 1 \in Int
  BY SizeFacts
<1>2. Pos((c + CQE_CNT) % CiMod) = (c + CQE_CNT) % CQE_CNT
  BY <1>1, IdxFacts, ZenonT(30)
<1>3. (c + CQE_CNT * 1) % CQE_CNT = c % CQE_CNT
  BY <1>1, ModShift, ZenonT(30)
<1>4. (((c + CQE_CNT) % CiMod) \div CQE_CNT) % 2 = ((c + CQE_CNT) \div CQE_CNT) % 2
  BY <1>1, LapOfMod, ZenonT(30)
<1>5. ((c + CQE_CNT) \div CQE_CNT) % 2 # (c \div CQE_CNT) % 2
  BY <1>1, LapNext, ZenonT(30)
<1>6. QED
  BY <1>2, <1>3, <1>4, <1>5, <1>1 DEF Pos, HwOwner

-----------------------------------------------------------------------------
(* The initial state has the right type.                                  *)
LEMMA TypeInit == Init => TypeOK
<1> SUFFICES ASSUME Init PROVE TypeOK
  OBVIOUS
<1>1. 0 \in 0 .. CiMod - 1 /\ 0 \in 0 .. DbMod - 1
  BY SizeFacts
<1>2. [op |-> MLX5_CQE_INVALID, owner |-> 0, sub |-> 0, tag |-> 0] \in Cqe
  BY <1>1 DEF Cqe, MLX5_CQE_INVALID
<1>3. NoWc \in Wc
  BY <1>1 DEF NoWc, Wc
<1>4. QED
  BY <1>2, <1>3, <1>1 DEF Init, TypeOK, MLX5_CQE_INVALID
(* Every step keeps the type.                                              *)
LEMMA TypeNext == TypeOK /\ [Next]_vars => TypeOK'
<1> SUFFICES ASSUME TypeOK, [Next]_vars PROVE TypeOK'
  OBVIOUS
<1>1. ASSUME NEW op \in HwOps, NEW sub \in SubOps, HwWriteCqeOf(op, sub)
      PROVE  TypeOK'
  <2>1. Pos(hwPi) \in 0 .. CQE_CNT - 1 /\ HwOwner(hwPi) \in 0 .. 1
    BY PosType, HwOwnerType DEF TypeOK
  <2>2. (hwPi + 1) % CiMod \in 0 .. CiMod - 1
    BY SizeFacts, DivMod DEF TypeOK
  <2>3. [op |-> op, owner |-> HwOwner(hwPi), sub |-> sub, tag |-> hwPi] \in Cqe
    BY <2>1, OpcodeAssumption DEF TypeOK, Cqe
  <2>4. QED
    BY <1>1, <2>1, <2>2, <2>3 DEF HwWriteCqeOf, TypeOK
<1>2. CASE PollLoadOp
  <2>1. Pos(ci) \in 0 .. CQE_CNT - 1
    BY PosType DEF TypeOK
  <2>2. QED
    BY <1>2, <2>1 DEF PollLoadOp, TypeOK, Cqe
<1>3. CASE PollEmpty \/ PollStale \/ PollSkipUnknown
  BY <1>3 DEF PollEmpty, PollStale, PollSkipUnknown, TypeOK
<1>4. CASE PollConsume
  <2>1. Pos(ci) \in 0 .. CQE_CNT - 1
    BY PosType DEF TypeOK
  <2>2. Decode(lop, slot[Pos(ci)]) \in Wc
    BY <1>4, <2>1, DecodeType DEF PollConsume, TypeOK
  <2>3. (ci + 1) % CiMod \in 0 .. CiMod - 1
    BY SizeFacts, DivMod DEF TypeOK
  <2>4. ((ci + 1) % CiMod) % DbMod \in 0 .. DbMod - 1
    <3>1. (ci + 1) % CiMod \in Int /\ DbMod \in Nat \ {0}
      BY <2>3, SizeFacts
    <3>2. QED
      BY <3>1, DivMod, ZenonT(30)
  <2>5. QED
    BY <1>4, <2>2, <2>3, <2>4 DEF PollConsume, TypeOK
<1>5. CASE UNCHANGED vars
  BY <1>5 DEF vars, TypeOK
<1>6. QED
  BY <1>1, <1>2, <1>3, <1>4, <1>5 DEF Next, HwWriteCqe, PollCheck
(* Type correctness of the ring: every step of the HCA and of              *)
(* manual_poll_cq keeps the counters in their widths, the slots CQEs and   *)
(* the returned work completion one the decoder can produce.               *)
THEOREM TypeCorrect == Spec => []TypeOK
BY TypeInit, TypeNext, PTL DEF Spec

-----------------------------------------------------------------------------
(* The index 0 places after the consumer index is the consumer index.      *)
LEMMA IdxZero ==
  ASSUME TypeOK
  PROVE  (ci + 0) % CiMod = ci
BY CounterFacts, ModSmall DEF TypeOK

(* The initial state satisfies the strengthened invariant.                 *)
LEMMA IInvInit == Init => IInv
<1> SUFFICES ASSUME Init PROVE IInv
  OBVIOUS
<1>1. TypeOK
  BY TypeInit
<1>2. dbrec = ci % DbMod
  BY SizeFacts, ModSmall DEF Init
<1>3. Pending = 0
  BY SizeFacts, ModSmall DEF Init, Pending
<1>4. \A p \in 0 .. CQE_CNT - 1 : slot[p].op = MLX5_CQE_INVALID
  BY DEF Init
<1>5. StaleSlots
  <2> SUFFICES ASSUME NEW k \in Pending .. CQE_CNT - 1
               PROVE  slot[Pos((ci + k) % CiMod)].op = MLX5_CQE_INVALID
    BY DEF StaleSlots
  <2>1. Pos((ci + k) % CiMod) \in 0 .. CQE_CNT - 1
    BY <1>1, CounterFacts, PosType, IdxFacts
  <2>2. QED
    BY <1>4, <2>1
<1>6. QED
  BY <1>1, <1>2, <1>3, <1>5, SizeFacts DEF IInv, NoOverrun, LoadedSound, Init

(* A write of the HCA keeps the strengthened invariant: the guard on the  *)
(* doorbell value leaves a free slot, and the slot written is one that is  *)
(* not pending.                                                            *)
LEMMA IInvWrite ==
  ASSUME IInv, NEW op \in HwOps, NEW sub \in SubOps, HwWriteCqeOf(op, sub)
  PROVE  IInv' /\ Pending' = Pending + 1
<1>1. TypeOK /\ TypeOK'
  BY TypeNext DEF IInv, Next, HwWriteCqe
<1>2. Pending < CQE_CNT
  BY <1>1, GuardIsPending DEF IInv, NoOverrun, HwWriteCqeOf
<1>3. Pending' = Pending + 1
  BY <1>1, <1>2, WritePending DEF Pending, HwWriteCqeOf
<1>4. (ci + Pending) % CiMod = hwPi /\ Pending \in 0 .. CQE_CNT - 1
  BY <1>1, <1>2, PendingFacts, SizeFacts
<1>. DEFINE new == [op |-> op, owner |-> HwOwner(hwPi), sub |-> sub, tag |-> hwPi]
            Idx(k) == (ci + k) % CiMod
<1>5. slot' = [slot EXCEPT ![Pos(hwPi)] = new] /\ ci' = ci /\ dbrec' = dbrec
      /\ pc' = pc /\ lop' = lop /\ lown' = lown
  BY DEF HwWriteCqeOf
<1>6. Pos(hwPi) \in DOMAIN slot
  BY <1>1, PosType DEF TypeOK
<1>7. ASSUME NEW k \in 0 .. CQE_CNT - 1, k # Pending
      PROVE  slot'[Pos(Idx(k))] = slot[Pos(Idx(k))]
  <2>1. Pos(Idx(k)) # Pos(hwPi)
    BY <1>1, <1>4, <1>7, PosDistinct, CounterFacts
  <2>2. QED
    BY <1>5, <2>1
<1>8. NoOverrun'
  <2>1. Pending' <= CQE_CNT
    BY <1>2, <1>3, <1>4, SizeFacts
  <2>2. ASSUME NEW k \in 0 .. Pending' - 1
        PROVE  /\ slot'[Pos(Idx(k))].tag = Idx(k)
               /\ slot'[Pos(Idx(k))].owner = HwOwner(Idx(k))
               /\ slot'[Pos(Idx(k))].op \in HwOps
    <3>1. CASE k = Pending
      <4>1. Idx(k) = hwPi
        BY <1>4, <3>1
      <4>2. slot'[Pos(hwPi)] = new
        BY <1>5, <1>6
      <4>3. QED
        BY <4>1, <4>2
    <3>2. CASE k # Pending
      <4>1. k \in 0 .. Pending - 1 /\ k \in 0 .. CQE_CNT - 1
        BY <1>3, <1>4, <3>2, SizeFacts
      <4>2. QED
        BY <1>7, <4>1, <3>2 DEF IInv, NoOverrun
    <3>3. QED
      BY <3>1, <3>2
  <2>3. QED
    BY <2>1, <2>2, <1>5 DEF NoOverrun
<1>9. StaleSlots'
  <2> SUFFICES ASSUME NEW k \in Pending' .. CQE_CNT - 1
               PROVE  \/ slot'[Pos(Idx(k))].op = MLX5_CQE_INVALID
                      \/ slot'[Pos(Idx(k))].owner # HwOwner(Idx(k))
    BY <1>5 DEF StaleSlots
  <2>1. k \in Pending .. CQE_CNT - 1 /\ k # Pending /\ k \in 0 .. CQE_CNT - 1
    BY <1>3, <1>4
  <2>2. QED
    BY <1>7, <2>1 DEF IInv, StaleSlots
<1>10. LoadedSound'
  <2> SUFFICES ASSUME pc' = "loaded", lop' # MLX5_CQE_INVALID
               PROVE  slot'[Pos(ci)].op # MLX5_CQE_INVALID
    BY <1>3, <1>4, <1>5 DEF LoadedSound
  <2>1. CASE Pos(ci) = Pos(hwPi)
    <3>1. op \in 0 .. 14
      BY OpcodeAssumption
    <3>2. QED
      BY <1>5, <1>6, <2>1, <3>1 DEF MLX5_CQE_INVALID
  <2>2. CASE Pos(ci) # Pos(hwPi)
    BY <1>5, <2>2 DEF IInv, LoadedSound
  <2>3. QED
    BY <2>1, <2>2
<1>11. QED
  BY <1>1, <1>3, <1>5, <1>8, <1>9, <1>10 DEF IInv

(* A slot the HCA has not written in this lap, at the consumer index,     *)
(* never shows the expected owner with a valid opcode.                     *)
LEMMA EmptyHead ==
  ASSUME IInv, Pending = 0,
         slot[Pos(ci)].op # MLX5_CQE_INVALID
  PROVE  slot[Pos(ci)].owner # HwOwner(ci)
<1>1. TypeOK
  BY DEF IInv
<1>2. 0 \in Pending .. CQE_CNT - 1
  BY SizeFacts
<1>3. (ci + 0) % CiMod = ci
  BY <1>1, IdxZero
<1>4. QED
  BY <1>2, <1>3 DEF IInv, StaleSlots

(* The first step of manual_poll_cq keeps the strengthened invariant.      *)
LEMMA IInvLoad ==
  ASSUME IInv, PollLoadOp
  PROVE  IInv'
<1>1. TypeOK'
  BY TypeNext DEF IInv, Next
<1>2. UNCHANGED <<slot, hwPi, ci, dbrec>>
  BY DEF PollLoadOp
<1>3. (dbrec = ci % DbMod)' /\ NoOverrun' /\ StaleSlots'
  BY <1>2 DEF IInv, NoOverrun, StaleSlots, Pending
<1>4. LoadedSound'
  <2>1. /\ lop' = slot[Pos(ci)].op /\ lown' = slot[Pos(ci)].owner
        /\ pc' = "loaded"
    BY DEF PollLoadOp
  <2>2. lop' # MLX5_CQE_INVALID => slot'[Pos(ci')].op # MLX5_CQE_INVALID
    BY <1>2, <2>1
  <2>3. ASSUME lop' # MLX5_CQE_INVALID, lown' = HwOwner(ci')
        PROVE  Pending' > 0
    <3>1. Pending' = Pending
      BY <1>2 DEF Pending
    <3>2. Pending \in 0 .. CiMod - 1
      BY PendingFacts DEF IInv
    <3>3. Pending # 0
      <4> SUFFICES ASSUME Pending = 0 PROVE FALSE
        OBVIOUS
      <4>1. slot[Pos(ci)].op # MLX5_CQE_INVALID
            /\ slot[Pos(ci)].owner = HwOwner(ci)
        BY <1>2, <2>1, <2>3
      <4>2. QED
        BY <4>1, EmptyHead
    <3>4. QED
      BY <3>1, <3>2, <3>3
  <2>4. QED
    BY <2>2, <2>3 DEF LoadedSound
<1>5. QED
  BY <1>1, <1>3, <1>4 DEF IInv

(* A return 0 of manual_poll_cq changes nothing but its program counter.  *)
LEMMA IInvNoCqe ==
  ASSUME IInv, PollEmpty \/ PollStale \/ PollSkipUnknown
  PROVE  IInv'
<1>1. TypeOK'
  BY TypeNext DEF IInv, Next, PollCheck
<1>2. UNCHANGED <<slot, hwPi, ci, dbrec>> /\ pc' = "idle"
  BY DEF PollEmpty, PollStale, PollSkipUnknown
<1>3. QED
  BY <1>1, <1>2 DEF IInv, NoOverrun, StaleSlots, Pending, LoadedSound

(* The owner test of manual_poll_cq lets only a pending CQE through,      *)
(* whether the owner bit is loaded again or not.                           *)
LEMMA ConsumeHasPending ==
  ASSUME IInv, PollConsume
  PROVE  Pending > 0
<1>1. TypeOK
  BY DEF IInv
<1> SUFFICES ASSUME Pending = 0 PROVE FALSE
  BY <1>1, PendingFacts
<1>2. lop # MLX5_CQE_INVALID /\ pc = "loaded" /\ LoadedOwner = HwOwner(ci)
  BY DEF PollConsume, ExpectedOwner, HwOwner
<1>3. CASE RELOAD_OP_OWN
  <2>1. slot[Pos(ci)].op # MLX5_CQE_INVALID
    BY <1>2 DEF IInv, LoadedSound
  <2>2. slot[Pos(ci)].owner = HwOwner(ci)
    BY <1>2, <1>3 DEF LoadedOwner
  <2>3. QED
    BY <2>1, <2>2, EmptyHead
<1>4. CASE ~RELOAD_OP_OWN
  <2>1. lown = HwOwner(ci)
    BY <1>2, <1>4 DEF LoadedOwner
  <2>2. QED
    BY <1>2, <2>1 DEF IInv, LoadedSound
<1>5. QED
  BY <1>3, <1>4

(* A successful poll keeps the strengthened invariant: the owner test     *)
(* only lets a pending CQE through, and the slot it frees holds, for the   *)
(* index one lap on, the owner bit of the wrong lap.                       *)
LEMMA IInvConsume ==
  ASSUME IInv, PollConsume
  PROVE  IInv' /\ Pending' = Pending - 1
<1>1. TypeOK /\ TypeOK'
  BY TypeNext DEF IInv, Next, PollCheck
<1>. DEFINE Idx(k) == (ci + k) % CiMod
<1>2. Pending > 0
  BY ConsumeHasPending
<1>3. Pending' = Pending - 1 /\ Pending \in 1 .. CQE_CNT
  BY <1>1, <1>2, ConsumePending, PendingFacts, SizeFacts
     DEF Pending, PollConsume, IInv, NoOverrun
<1>4. UNCHANGED slot /\ ci' = (ci + 1) % CiMod /\ pc' = "idle"
      /\ dbrec' = ci' % DbMod
  BY DEF PollConsume
<1>5. ASSUME NEW k \in Int
      PROVE  (ci' + k) % CiMod = Idx(k + 1)
  BY <1>1, <1>4, IdxShift, CounterFacts
<1>6. NoOverrun'
  <2>1. ASSUME NEW k \in 0 .. Pending' - 1
        PROVE  /\ slot[Pos(Idx(k + 1))].tag = Idx(k + 1)
               /\ slot[Pos(Idx(k + 1))].owner = HwOwner(Idx(k + 1))
               /\ slot[Pos(Idx(k + 1))].op \in HwOps
    <3>1. k + 1 \in 0 .. Pending - 1
      BY <1>3
    <3>2. QED
      BY <3>1 DEF IInv, NoOverrun
  <2>2. \A k \in 0 .. Pending' - 1 : (ci' + k) % CiMod = Idx(k + 1)
    BY <1>5, <1>3
  <2>3. Pending' <= CQE_CNT
    BY <1>3, SizeFacts
  <2>4. ASSUME NEW k \in 0 .. Pending' - 1
        PROVE  /\ slot'[Pos((ci' + k) % CiMod)].tag = (ci' + k) % CiMod
               /\ slot'[Pos((ci' + k) % CiMod)].owner = HwOwner((ci' + k) % CiMod)
               /\ slot'[Pos((ci' + k) % CiMod)].op \in HwOps
    <3>1. (ci' + k) % CiMod = Idx(k + 1)
      BY <2>2
    <3>2. QED
      BY <1>4, <2>1, <3>1
  <2>5. QED
    BY <2>3, <2>4 DEF NoOverrun
<1>7. StaleSlots'
  <2> SUFFICES ASSUME NEW k \in Pending' .. CQE_CNT - 1
               PROVE  \/ slot[Pos(Idx(k + 1))].op = MLX5_CQE_INVALID
                      \/ slot[Pos(Idx(k + 1))].owner # HwOwner(Idx(k + 1))
    BY <1>3, <1>4, <1>5 DEF StaleSlots
  <2>1. CASE k < CQE_CNT - 1
    <3>1. k + 1 \in Pending .. CQE_CNT - 1
      BY <1>3, <2>1, SizeFacts
    <3>2. QED
      BY <3>1 DEF IInv, StaleSlots
  <2>2. CASE k = CQE_CNT - 1
    <3>1. Idx(k + 1) = (ci + CQE_CNT) % CiMod
      BY <2>2, SizeFacts
    <3>2. Pos(Idx(k + 1)) = Pos(ci) /\ HwOwner(Idx(k + 1)) # HwOwner(ci)
      BY <1>1, <3>1, NextLap DEF TypeOK
    <3>3. slot[Pos(ci)].owner = HwOwner(ci)
      <4>1. 0 \in 0 .. Pending - 1 /\ (ci + 0) % CiMod = ci
        BY <1>1, <1>3, IdxZero
      <4>2. QED
        BY <4>1 DEF IInv, NoOverrun
    <3>4. QED
      BY <3>2, <3>3
  <2>3. QED
    BY <2>1, <2>2, <1>3, SizeFacts
<1>8. QED
  BY <1>1, <1>3, <1>4, <1>6, <1>7 DEF IInv, LoadedSound

(* Every step keeps the strengthened invariant.                            *)
LEMMA IInvNext == IInv /\ [Next]_vars => IInv'
<1> SUFFICES ASSUME IInv, [Next]_vars PROVE IInv'
  OBVIOUS
<1>1. CASE HwWriteCqe
  BY <1>1, IInvWrite DEF HwWriteCqe
<1>2. CASE PollLoadOp
  BY <1>2, IInvLoad
<1>3. CASE PollEmpty \/ PollStale \/ PollSkipUnknown
  BY <1>3, IInvNoCqe
<1>4. CASE PollConsume
  BY <1>4, IInvConsume
<1>5. CASE UNCHANGED vars
  BY <1>5 DEF vars, IInv, TypeOK, NoOverrun, StaleSlots, LoadedSound,
              Pending, LoadedOwner
<1>6. QED
  BY <1>1, <1>2, <1>3, <1>4, <1>5 DEF Next, PollCheck

(* No overrun of the completion ring, for every ring size, counter width   *)
(* and set of opcodes: the consumer index manual_poll_cq publishes in the  *)
(* doorbell record after each completion keeps the HCA from overwriting a  *)
(* CQE before it is consumed, across the wrap of cq_cons_index and of the  *)
(* 24-bit doorbell value, and whether or not the build reloads op_own.     *)
THEOREM NoOverrunInvariant == Spec => []NoOverrun
<1>1. IInv => NoOverrun
  BY DEF IInv
<1>2. QED
  BY IInvInit, IInvNext, <1>1, PTL DEF Spec


-----------------------------------------------------------------------------
(* The loaded opcode stays that of the slot.  The HCA writes its next CQE  *)
(* into the slot hwPi; while an opcode and the expected owner bit are      *)
(* loaded, the CQE at the consumer index is pending and not full, so that  *)
(* slot is another one.                                                    *)
LEMMA LoadedCurrentWrite ==
  ASSUME IInv, LoadedCurrent, NEW op \in HwOps, NEW sub \in SubOps,
         HwWriteCqeOf(op, sub)
  PROVE  LoadedCurrent'
<1> SUFFICES ASSUME pc' = "loaded", lop' # MLX5_CQE_INVALID, lown' = HwOwner(ci')
             PROVE  lop' = slot'[Pos(ci')].op
  BY DEF LoadedCurrent
<1>1. TypeOK
  BY DEF IInv
<1>2. UNCHANGED <<ci, pc, lop, lown>>
      /\ slot' = [slot EXCEPT ![Pos(hwPi)] =
                    [op |-> op, owner |-> HwOwner(hwPi), sub |-> sub, tag |-> hwPi]]
  BY DEF HwWriteCqeOf
<1>3. lop = slot[Pos(ci)].op /\ Pending > 0
  BY <1>2 DEF IInv, LoadedSound, LoadedCurrent
<1>4. Pending < CQE_CNT
  BY <1>1, GuardIsPending DEF IInv, NoOverrun, HwWriteCqeOf
<1>5. Pos(ci) # Pos(hwPi)
  <2>1. Pending \in 0 .. CQE_CNT - 1 /\ 0 \in 0 .. CQE_CNT - 1 /\ ci \in Int
    BY <1>1, <1>3, <1>4, PendingFacts, SizeFacts DEF TypeOK
  <2>2. 0 # Pending
    BY <1>3
  <2>3. Pos((ci + 0) % CiMod) # Pos((ci + Pending) % CiMod)
    BY <2>1, <2>2, PosDistinct, ZenonT(30)
  <2>4. (ci + 0) % CiMod = ci /\ (ci + Pending) % CiMod = hwPi
    BY <1>1, IdxZero, PendingFacts
  <2>5. QED
    BY <2>3, <2>4
<1>6. QED
  BY <1>2, <1>3, <1>5

(* Every step keeps the loaded opcode that of the slot.                    *)
LEMMA LoadedCurrentNext ==
  IInv /\ LoadedCurrent /\ [Next]_vars => LoadedCurrent'
<1> SUFFICES ASSUME IInv, LoadedCurrent, [Next]_vars PROVE LoadedCurrent'
  OBVIOUS
<1>1. CASE HwWriteCqe
  BY <1>1, LoadedCurrentWrite DEF HwWriteCqe
<1>2. CASE PollLoadOp
  BY <1>2 DEF PollLoadOp, LoadedCurrent
<1>3. CASE PollCheck
  BY <1>3 DEF PollCheck, PollEmpty, PollStale, PollSkipUnknown, PollConsume,
             LoadedCurrent
<1>4. CASE UNCHANGED vars
  BY <1>4 DEF vars, LoadedCurrent
<1>5. QED
  BY <1>1, <1>2, <1>3, <1>4 DEF Next

(* A step that moves the consumer index consumes, when the build merges    *)
(* the loads of op_own, the CQE written for that index, decoded from its   *)
(* own opcode.                                                             *)
LEMMA ConsumeStep ==
  ASSUME IInv, LoadedCurrent, ~RELOAD_OP_OWN, [Next]_vars, ci' # ci
  PROVE  /\ slot[Pos(ci)].tag = ci
         /\ wc' = Decode(slot[Pos(ci)].op, slot[Pos(ci)])
         /\ slot[Pos(ci)].op \in HwOps
<1>1. PollConsume
  BY DEF Next, HwWriteCqe, HwWriteCqeOf, PollLoadOp, PollCheck, PollEmpty,
         PollStale, PollSkipUnknown, vars
<1>2. Pending > 0
  BY <1>1, ConsumeHasPending
<1>3. slot[Pos(ci)].tag = ci /\ slot[Pos(ci)].op \in HwOps
  <2>1. 0 \in 0 .. Pending - 1 /\ (ci + 0) % CiMod = ci
    BY <1>2, IdxZero, PendingFacts DEF IInv
  <2>2. QED
    BY <2>1 DEF IInv, NoOverrun
<1>4. lop # MLX5_CQE_INVALID /\ pc = "loaded" /\ lown = HwOwner(ci)
  BY <1>1 DEF PollConsume, LoadedOwner, ExpectedOwner, HwOwner
<1>5. lop = slot[Pos(ci)].op
  BY <1>4 DEF LoadedCurrent
<1>6. QED
  BY <1>1, <1>3, <1>5 DEF PollConsume

(* When the build merges the two loads of op_own (cqe64 not volatile),     *)
(* every poll of manual_poll_cq that returns a completion returns the CQE  *)
(* the HCA wrote for the consumer index, decoded from that CQE's own       *)
(* opcode and body, for every ring size, counter width and set of opcodes. *)
(* With two loads the property fails (run cq_stale_opcode).                *)
THEOREM ConsumedAsWrittenMerged ==
  ~RELOAD_OP_OWN => (Spec => ConsumedAsWritten)
<1> SUFFICES ASSUME ~RELOAD_OP_OWN PROVE Spec => ConsumedAsWritten
  OBVIOUS
<1>1. Init => IInv /\ LoadedCurrent
  BY IInvInit DEF Init, LoadedCurrent
<1>2. IInv /\ LoadedCurrent /\ [Next]_vars => (IInv /\ LoadedCurrent)'
  BY IInvNext, LoadedCurrentNext
<1>3. IInv /\ LoadedCurrent /\ [Next]_vars
        => [ci' # ci => /\ slot[Pos(ci)].tag = ci
                        /\ wc' = Decode(slot[Pos(ci)].op, slot[Pos(ci)])]_vars
  BY ConsumeStep
<1>4. QED
  BY <1>1, <1>2, <1>3, PTL DEF Spec, ConsumedAsWritten

=============================================================================
