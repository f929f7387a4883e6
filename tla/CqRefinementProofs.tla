------------------------- MODULE CqRefinementProofs -------------------------
(***************************************************************************)
(* The completion ring implements the bounded FIFO of CqFifo, safety part: *)
(* under the refinement mapping Fifo of CqRing (the queue is the sequence  *)
(* of pending CQEs from the consumer index on, the producer count is hwPi, *)
(* the output is the returned work completion), every step of the ring is *)
(* a step of the FIFO or leaves the mapped state alone.                    *)
(***************************************************************************)
EXTENDS CqRingProofs, SequenceTheorems, TLAPS

(* The entry the mapping takes from slot array s at ring index i, the     *)
(* queue of n entries from index c on, and the entries a queue holds.      *)
AbsAt(s, i) == [op |-> s[Pos(i)].op, sub |-> s[Pos(i)].sub, tag |-> s[Pos(i)].tag]

QOf(s, c, n) == [k \in 1 .. n |-> AbsAt(s, (c + k - 1) % CiMod)]

Ent == [op : 0 .. 15, sub : 0 .. 255, tag : 0 .. CiMod - 1]

(* The queue of the mapping Fifo.                                          *)
Q == QOf(slot, ci, Pending)

-----------------------------------------------------------------------------
(* A function on 1 .. n is a sequence of length n.                         *)
LEMMA FunIsSeq ==
  ASSUME NEW S, NEW n \in Nat, NEW f \in [1 .. n -> S]
  PROVE  f \in Seq(S) /\ Len(f) = n
<1>1. f \in Seq(S)
  BY SeqDef
<1>2. Len(f) \in Nat /\ DOMAIN f = 1 .. Len(f)
  BY <1>1, LenProperties
<1>3. DOMAIN f = 1 .. n
  OBVIOUS
<1>4. QED
  BY <1>1, <1>2, <1>3

(* The entry the mapping takes from a slot.                                *)
LEMMA AbsAtType ==
  ASSUME NEW s \in [0 .. CQE_CNT - 1 -> Cqe], NEW i \in Int
  PROVE  AbsAt(s, i) \in Ent
<1>1. Pos(i) \in 0 .. CQE_CNT - 1
  BY PosType
<1>2. QED
  BY <1>1 DEF AbsAt, Cqe, Ent

(* A queue of n entries taken from the slots is a sequence of length n.    *)
LEMMA QOfFacts ==
  ASSUME NEW s \in [0 .. CQE_CNT - 1 -> Cqe], NEW c \in Int, NEW n \in Nat
  PROVE  QOf(s, c, n) \in Seq(Ent) /\ Len(QOf(s, c, n)) = n
<1>1. \A k \in 1 .. n : (c + k - 1) % CiMod \in Int
  BY SizeFacts
<1>2. QOf(s, c, n) \in [1 .. n -> Ent]
  BY <1>1, AbsAtType DEF QOf
<1>3. QED
  BY <1>2, FunIsSeq

(* The mapping of CqRing is Q.                                             *)
LEMMA QMapped ==
  [k \in 1 .. Pending |-> AbsEntry((ci + k - 1) % CiMod)] = Q
BY DEF Q, QOf, AbsAt, AbsEntry

(* The mapping after a step is Q after the step.                           *)
LEMMA QMappedPrime ==
  ([k \in 1 .. Pending |-> AbsEntry((ci + k - 1) % CiMod)])' = Q'
BY DEF Q, QOf, AbsAt, AbsEntry

(* The queue holds the Pending entries of the ring, as a sequence.        *)
LEMMA QType ==
  ASSUME TypeOK
  PROVE  Q \in Seq(Ent) /\ Len(Q) = Pending
<1>1. Pending \in Nat
  BY PendingFacts, SizeFacts
<1>2. slot \in [0 .. CQE_CNT - 1 -> Cqe] /\ ci \in Int
  BY DEF TypeOK
<1>3. QED
  BY <1>1, <1>2, QOfFacts DEF Q

-----------------------------------------------------------------------------
(* The initial ring maps to the empty FIFO: no CQE is pending.             *)
LEMMA RefInit ==
  Init => Fifo!Init
<1> SUFFICES ASSUME Init PROVE Fifo!Init
  OBVIOUS
<1>1. TypeOK
  BY TypeInit
<1>2. Pending = 0
  BY SizeFacts DEF Init, Pending
<1>3. Q = <<>>
  <2>1. Q \in Seq(Ent) /\ Len(Q) = 0
    BY <1>1, <1>2, QType
  <2>2. QED
    BY <2>1, EmptySeq
<1>4. QED
  BY <1>3, QMapped DEF Fifo!Init, Init

(* A CQE the HCA writes is appended to the queue: the guard on the        *)
(* doorbell value leaves room, the slots of the pending CQEs are not the   *)
(* one written, and the new CQE carries the producer count.               *)
LEMMA RefWrite ==
  ASSUME IInv, NEW op \in HwOps, NEW sub \in SubOps, HwWriteCqeOf(op, sub)
  PROVE  /\ Len(Q) < CQE_CNT
         /\ Q' = Append(Q, [op |-> op, sub |-> sub, tag |-> hwPi])
<1>0. ci \in Int
  <2>1. TypeOK
    BY DEF IInv
  <2>2. QED
    BY <2>1, CounterFacts
<1>1. TypeOK /\ TypeOK'
  BY TypeNext DEF IInv, Next, HwWriteCqe
<1>2. Pending < CQE_CNT /\ Pending' = Pending + 1
  BY IInvWrite, GuardIsPending DEF IInv, NoOverrun, HwWriteCqeOf
<1>3. (ci + Pending) % CiMod = hwPi /\ Pending \in 0 .. CQE_CNT - 1
  BY <1>1, <1>2, PendingFacts, SizeFacts
<1>. DEFINE E == [op |-> op, sub |-> sub, tag |-> hwPi]
            new == [op |-> op, owner |-> HwOwner(hwPi), sub |-> sub, tag |-> hwPi]
<1>4. Q \in Seq(Ent) /\ Len(Q) = Pending
  BY <1>1, QType
<1>5. Q' = QOf(slot', ci, Pending + 1)
  BY <1>2 DEF Q, HwWriteCqeOf
<1>6. Q' \in Seq(Ent) /\ Len(Q') = Pending + 1
  <2>1. slot' \in [0 .. CQE_CNT - 1 -> Cqe] /\ ci \in Int /\ Pending + 1 \in Nat
    BY <1>1, <1>3 DEF TypeOK
  <2>2. QED
    BY <1>5, <2>1, QOfFacts
<1>7. E \in Ent
  BY <1>1, OpcodeAssumption DEF TypeOK, Ent
<1>8. Append(Q, E) \in Seq(Ent) /\ Len(Append(Q, E)) = Pending + 1
      /\ \A k \in 1 .. Pending : Append(Q, E)[k] = Q[k]
      /\ Append(Q, E)[Pending + 1] = E
  BY <1>4, <1>7, AppendProperties
<1>9. slot' = [slot EXCEPT ![Pos(hwPi)] = new] /\ Pos(hwPi) \in DOMAIN slot
  BY <1>1, PosType DEF HwWriteCqeOf, TypeOK
<1>10. ASSUME NEW k \in 1 .. Pending + 1 PROVE Q'[k] = Append(Q, E)[k]
  <2>1. Q'[k] = AbsAt(slot', (ci + (k - 1)) % CiMod)
    BY <1>5 DEF QOf
  <2>2. CASE k = Pending + 1
    <3>1. (ci + (k - 1)) % CiMod = hwPi
      BY <1>3, <2>2
    <3>2. slot'[Pos(hwPi)] = new
      BY <1>9
    <3>3. QED
      BY <1>8, <2>1, <2>2, <3>1, <3>2 DEF AbsAt
  <2>3. CASE k # Pending + 1
    <3>1. k - 1 \in 0 .. CQE_CNT - 1 /\ k - 1 # Pending /\ k \in 1 .. Pending
      BY <1>3, <2>3, SizeFacts
    <3>2. ci \in Int
      BY <1>0
    <3>3. Pos((ci + (k - 1)) % CiMod) # Pos((ci + Pending) % CiMod)
      BY <1>3, <3>1, <3>2, PosDistinct
    <3>4. slot'[Pos((ci + (k - 1)) % CiMod)] = slot[Pos((ci + (k - 1)) % CiMod)]
      BY <1>3, <1>9, <3>3
    <3>5. Q[k] = AbsAt(slot, (ci + (k - 1)) % CiMod)
      BY <3>1 DEF Q, QOf
    <3>6. QED
      BY <1>8, <2>1, <3>1, <3>4, <3>5 DEF AbsAt
  <2>4. QED
    BY <2>2, <2>3
<1>11. QED
  BY <1>2, <1>4, <1>6, <1>8, <1>10, SeqEqual

(* The decoder reads of a CQE only its sub-opcode and body.                *)
LEMMA DecodeSame ==
  ASSUME NEW op, NEW c1, NEW c2, c1.sub = c2.sub, c1.tag = c2.tag
  PROVE  Decode(op, c1) = Decode(op, c2)
BY DEF Decode

(* A successful poll removes the head of the queue and returns its        *)
(* decoding: the CQE at the consumer index is pending, its opcode is the   *)
(* one the poll loaded, and the queue from the next index on is the tail.  *)
LEMMA RefConsume ==
  ASSUME IInv, LoadedCurrent, ~RELOAD_OP_OWN, PollConsume
  PROVE  /\ Q # <<>>
         /\ Head(Q).op \in KnownOps
         /\ wc' = Decode(Head(Q).op, Head(Q))
         /\ Q' = Tail(Q)
<1>0. TypeOK /\ ci \in Int
  <2>1. TypeOK
    BY DEF IInv
  <2>2. QED
    BY <2>1, CounterFacts
<1>1. Pending > 0 /\ Pending' = Pending - 1
  BY ConsumeHasPending, IInvConsume
<1>2. Q \in Seq(Ent) /\ Len(Q) = Pending
  BY <1>0, QType
<1>3. Q # <<>>
  BY <1>1, <1>2
<1>4. Head(Q) = AbsAt(slot, ci)
  <2>1. 1 \in 1 .. Pending
    BY <1>0, <1>1, PendingFacts
  <2>2. (ci + 1 - 1) % CiMod = ci
    <3>1. (ci + 0) % CiMod = ci
      BY <1>0, IdxZero
    <3>2. QED
      BY <1>0, <3>1
  <2>3. Q[1] = AbsAt(slot, (ci + 1 - 1) % CiMod)
    BY <2>1 DEF Q, QOf
  <2>4. QED
    BY <1>3, <2>2, <2>3
<1>5. lop = slot[Pos(ci)].op /\ lop \in KnownOps
  <2>1. pc = "loaded" /\ lop # MLX5_CQE_INVALID /\ lown = HwOwner(ci)
    BY DEF PollConsume, LoadedOwner, ExpectedOwner, HwOwner
  <2>2. QED
    BY <2>1 DEF LoadedCurrent, PollConsume
<1>6. wc' = Decode(Head(Q).op, Head(Q))
  <2>1. wc' = Decode(lop, slot[Pos(ci)])
    BY DEF PollConsume
  <2>2. QED
    BY <1>4, <1>5, <2>1, DecodeSame DEF AbsAt
<1>7. Q' = Tail(Q)
  <2>1. Tail(Q) \in Seq(Ent) /\ Len(Tail(Q)) = Pending - 1
        /\ \A i \in 1 .. Pending - 1 : Tail(Q)[i] = Q[i + 1]
    BY <1>2, <1>3, HeadTailProperties
  <2>2. Q' = QOf(slot, (ci + 1) % CiMod, Pending - 1)
    BY <1>1 DEF Q, PollConsume
  <2>3. (ci + 1) % CiMod \in Int /\ Pending - 1 \in Nat
    BY <1>0, <1>1, PendingFacts, SizeFacts
  <2>4. Q' \in Seq(Ent) /\ Len(Q') = Pending - 1
    BY <1>0, <2>2, <2>3, QOfFacts DEF TypeOK
  <2>5. ASSUME NEW i \in 1 .. Pending - 1 PROVE Q'[i] = Tail(Q)[i]
    <3>1. (((ci + 1) % CiMod) + (i - 1)) % CiMod = (ci + ((i + 1) - 1)) % CiMod
      BY <1>0, IdxShift
    <3>2. Q'[i] = AbsAt(slot, (((ci + 1) % CiMod) + i - 1) % CiMod)
      BY <2>2 DEF QOf
    <3>3. Q[i + 1] = AbsAt(slot, (ci + (i + 1) - 1) % CiMod)
      BY <1>0, <1>1, PendingFacts DEF Q, QOf
    <3>4. QED
      BY <2>1, <3>1, <3>2, <3>3
  <2>6. QED
    BY <2>1, <2>4, <2>5, SeqEqual
<1>8. QED
  BY <1>3, <1>4, <1>5, <1>6, <1>7 DEF AbsAt

(* Every step of the ring, under the strengthened invariant and with the  *)
(* loads of op_own merged, is a step of the FIFO or leaves the mapped      *)
(* state alone: a write of the HCA produces, a successful poll consumes,   *)
(* and the load and the polls that return 0 change nothing mapped.         *)
LEMMA RefNext ==
  ASSUME IInv, LoadedCurrent, ~RELOAD_OP_OWN, [Next]_vars
  PROVE  [Fifo!Next]_Fifo!fifoVars
<1>1. CASE HwWriteCqe
  <2>1. PICK op \in HwOps, sub \in SubOps : HwWriteCqeOf(op, sub)
    BY <1>1 DEF HwWriteCqe
  <2>2. Len(Q) < CQE_CNT /\ Q' = Append(Q, [op |-> op, sub |-> sub, tag |-> hwPi])
    BY <2>1, RefWrite
  <2>3. Fifo!Produce
    BY <2>1, <2>2, QMapped, QMappedPrime DEF Fifo!Produce, HwWriteCqeOf
  <2>4. QED
    BY <2>3 DEF Fifo!Next
<1>2. CASE PollConsume
  <2>1. /\ Q # <<>>
        /\ Head(Q).op \in KnownOps
        /\ wc' = Decode(Head(Q).op, Head(Q))
        /\ Q' = Tail(Q)
    BY <1>2, RefConsume
  <2>2. Fifo!Consume
    BY <1>2, <2>1, QMapped, QMappedPrime DEF Fifo!Consume, PollConsume
  <2>3. QED
    BY <2>2 DEF Fifo!Next
<1>3. CASE UNCHANGED <<slot, hwPi, ci, wc>>
  <2>1. Q' = Q
    BY <1>3 DEF Q, Pending
  <2>2. QED
    BY <1>3, <2>1, QMapped, QMappedPrime DEF Fifo!fifoVars
<1>4. QED
  BY <1>1, <1>2, <1>3 DEF Next, PollCheck, PollLoadOp, PollEmpty, PollStale,
     PollSkipUnknown, vars

-----------------------------------------------------------------------------
(* The completion ring, as manual_poll_cq reads it with the loads of      *)
(* op_own merged, implements the safety part of the FIFO CqFifo, for every *)
(* ring size, counter width and set of opcodes: the HCA appends, and a     *)
(* poll that returns 1 returns the decoding of the oldest CQE not yet      *)
(* consumed.  Fairness (every pending CQE is eventually polled) is checked *)
(* by TLC only, run cq_refines.                                            *)
THEOREM RefinesFifoSafety ==
  ~RELOAD_OP_OWN => (Spec => Fifo!Init /\ [][Fifo!Next]_Fifo!fifoVars)
<1> SUFFICES ASSUME ~RELOAD_OP_OWN
             PROVE  Spec => Fifo!Init /\ [][Fifo!Next]_Fifo!fifoVars
  OBVIOUS
<1>1. Init => IInv /\ LoadedCurrent
  BY IInvInit DEF Init, LoadedCurrent
<1>2. IInv /\ LoadedCurrent /\ [Next]_vars => (IInv /\ LoadedCurrent)'
  BY IInvNext, LoadedCurrentNext
<1>3. IInv /\ LoadedCurrent /\ [Next]_vars => [Fifo!Next]_Fifo!fifoVars
  BY RefNext
<1>4. Init => Fifo!Init
  BY RefInit
<1>5. QED
  BY <1>1, <1>2, <1>3, <1>4, PTL DEF Spec

=============================================================================
