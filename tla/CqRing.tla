------------------------------- MODULE CqRing -------------------------------
(***************************************************************************)
(* The completion ring of src/libibverbs/examples/mlx5dv_manual_trigger.c *)
(* (manual_poll_cq) together with the HCA that fills it.                   *)
(*                                                                         *)
(* The HCA is the producer: it writes the CQE of its n-th completion into  *)
(* slot n % cqe_cnt with owner bit !!(n & cqe_cnt), and only while the     *)
(* ring is not full according to the 24-bit consumer index software       *)
(* publishes in the doorbell record.  Software is the consumer: it loads   *)
(* op_own, drops INVALID and stale slots, decodes the CQE, increments      *)
(* cq_cons_index and publishes it.                                         *)
(*                                                                         *)
(* manual_poll_cq is split into two steps at the point where the HCA can   *)
(* interleave: the load of the opcode (before the owner test and the       *)
(* barrier) and the rest.  Whether the owner bit is loaded again in the    *)
(* second step or taken from the same load of op_own depends on the build *)
(* (cqe64 is not volatile, so the compiler may merge the two loads):       *)
(* RELOAD_OP_OWN selects the outcome.                                      *)
(*                                                                         *)
(* Counters keep their width: cq_cons_index is a uint32_t (CI_BITS) and    *)
(* the doorbell record carries its low 24 bits (DB_BITS).                  *)
(***************************************************************************)
EXTENDS Integers

CONSTANTS
  CQE_CNT,        \* mlx5dv_cq.cqe_cnt, a power of two
  CI_BITS,        \* width of cq_cons_index (32 in the code)
  DB_BITS,        \* width of the doorbell value (24: & 0xffffff)
  HwOps,          \* CQE opcodes the HCA may write
  SubOps,         \* WQE opcodes the HCA may report in sop_drop_qpn >> 24
  RELOAD_OP_OWN   \* TRUE: the build loads op_own again for the owner test

CiMod == 2 ^ CI_BITS
DbMod == 2 ^ DB_BITS

(* CQE opcodes (mlx5dv.h).  4 bits: 15 is MLX5_CQE_INVALID.               *)
MLX5_CQE_REQ          == 0
MLX5_CQE_RESP_WR_IMM  == 1
MLX5_CQE_RESP_SEND    == 2
MLX5_CQE_RESP_SEND_IMM == 3
MLX5_CQE_REQ_ERR      == 13
MLX5_CQE_RESP_ERR     == 14
MLX5_CQE_INVALID      == 15

(* WQE opcodes carried in the high byte of sop_drop_qpn of a REQ CQE.     *)
MLX5_OPCODE_SEND_INVAL     == 1
MLX5_OPCODE_RDMA_WRITE     == 8
MLX5_OPCODE_RDMA_WRITE_IMM == 9
MLX5_OPCODE_SEND           == 10
MLX5_OPCODE_SEND_IMM       == 11
MLX5_OPCODE_RDMA_READ      == 16

(* ibv_wc_opcode and ibv_wc_status values used by the decoder.            *)
IBV_WC_SEND               == 0
IBV_WC_RDMA_WRITE         == 1
IBV_WC_RDMA_READ          == 2
IBV_WC_RECV               == 128
IBV_WC_RECV_RDMA_WITH_IMM == 129
IBV_WC_SUCCESS            == 0
IBV_WC_GENERAL_ERR        == 21

ASSUME CqeCntAssumption ==
  /\ DB_BITS \in Nat \ {0}
  /\ CI_BITS \in Nat /\ DB_BITS <= CI_BITS
  /\ CQE_CNT \in {2 ^ k : k \in 0 .. DB_BITS - 1}

(* What the ring arithmetic needs of the sizes, as divisibilities: it      *)
(* follows from CqeCntAssumption (2 * cqe_cnt is a power of two not above  *)
(* 2^24, which divides 2^32) and is stated apart because the provers do    *)
(* not know exponentiation.                                                *)
ASSUME RingModAssumption ==
  /\ CQE_CNT \in Nat \ {0}
  /\ DbMod \in Nat \ {0}
  /\ CiMod \in Nat \ {0}
  /\ DbMod % (2 * CQE_CNT) = 0
  /\ CiMod % DbMod = 0
  /\ CiMod % (2 * CQE_CNT) = 0

ASSUME OpcodeAssumption ==
  /\ HwOps \subseteq 0 .. 14
  /\ HwOps # {}
  /\ SubOps \subseteq 0 .. 255
  /\ SubOps # {}
  /\ RELOAD_OP_OWN \in BOOLEAN

(* The slot of a ring index: cons_index & (cqe_cnt - 1).                   *)
Pos(i) == i % CQE_CNT

(* The owner bit the HCA writes for its completion i: !!(i & cqe_cnt).    *)
HwOwner(i) == (i \div CQE_CNT) % 2

(* The opcodes the switch of manual_poll_cq recognises.                   *)
KnownOps == {MLX5_CQE_REQ, MLX5_CQE_RESP_SEND, MLX5_CQE_RESP_SEND_IMM,
             MLX5_CQE_RESP_WR_IMM, MLX5_CQE_REQ_ERR, MLX5_CQE_RESP_ERR}

(* A CQE as far as the decoder tells it apart: op_own split in opcode and  *)
(* owner, the WQE opcode of sop_drop_qpn, and "tag", the completion index  *)
(* the HCA wrote it for, which stands for the rest of the body (qpn,       *)
(* byte_cnt, wqe_counter, immediate).                                      *)
Cqe == [op : 0 .. 15, owner : 0 .. 1, sub : 0 .. 255, tag : 0 .. CiMod - 1]

(* The ibv_wc the decoder fills; qpn stands for qp_num and byte_len.       *)
Wc == [status : {IBV_WC_SUCCESS, IBV_WC_GENERAL_ERR},
       opcode : {IBV_WC_SEND, IBV_WC_RDMA_WRITE, IBV_WC_RDMA_READ,
                 IBV_WC_RECV, IBV_WC_RECV_RDMA_WITH_IMM},
       withImm : BOOLEAN, qpn : 0 .. CiMod - 1]

(* The memset(wc, 0, ...) work completion.                                 *)
NoWc == [status |-> IBV_WC_SUCCESS, opcode |-> IBV_WC_SEND,
         withImm |-> FALSE, qpn |-> 0]

(* The wc opcode of a REQ completion, from the WQE opcode.                 *)
ReqWcOpcode(sub) ==
  CASE sub \in {MLX5_OPCODE_RDMA_WRITE, MLX5_OPCODE_RDMA_WRITE_IMM} -> IBV_WC_RDMA_WRITE
    [] sub \in {MLX5_OPCODE_SEND, MLX5_OPCODE_SEND_IMM, MLX5_OPCODE_SEND_INVAL} -> IBV_WC_SEND
    [] sub = MLX5_OPCODE_RDMA_READ -> IBV_WC_RDMA_READ
    [] OTHER -> IBV_WC_SEND

(* The work completion decoded from opcode op (a known one) and the body   *)
(* of CQE c.                                                               *)
Decode(op, c) ==
  LET wc(status, opcode, imm) ==
        [status |-> status, opcode |-> opcode, withImm |-> imm, qpn |-> c.tag]
  IN CASE op = MLX5_CQE_REQ ->
            wc(IBV_WC_SUCCESS, ReqWcOpcode(c.sub),
               c.sub \in {MLX5_OPCODE_RDMA_WRITE_IMM, MLX5_OPCODE_SEND_IMM})
       [] op = MLX5_CQE_RESP_SEND -> wc(IBV_WC_SUCCESS, IBV_WC_RECV, FALSE)
       [] op = MLX5_CQE_RESP_SEND_IMM -> wc(IBV_WC_SUCCESS, IBV_WC_RECV, TRUE)
       [] op = MLX5_CQE_RESP_WR_IMM ->
            wc(IBV_WC_SUCCESS, IBV_WC_RECV_RDMA_WITH_IMM, TRUE)
       [] op \in {MLX5_CQE_REQ_ERR, MLX5_CQE_RESP_ERR} ->
            wc(IBV_WC_GENERAL_ERR, IBV_WC_SEND, FALSE)

VARIABLES
  slot,    \* the CQ buffer: slot p holds a CQE
  hwPi,    \* the HCA's completion counter (index of its next CQE)
  ci,      \* res->cq_cons_index
  dbrec,   \* mlx5dv_cq.dbrec[MLX5_CQ_SET_CI], as the HCA reads it
  pc,      \* "idle" between calls, "loaded" after the load of the opcode
  lop,     \* the opcode loaded by the first step
  lown,    \* the owner bit that came with the same load of op_own
  wc       \* the work completion returned by the last successful poll

vars == <<slot, hwPi, ci, dbrec, pc, lop, lown, wc>>

(* Number of CQEs written by the HCA and not yet consumed.                 *)
Pending == (hwPi - ci) % CiMod

-----------------------------------------------------------------------------
(* init_cq_buf: every CQE has opcode INVALID and owner 0; both counters and *)
(* the doorbell record start at 0 (resources_create sets cq_cons_index).   *)
Init ==
  /\ slot = [p \in 0 .. CQE_CNT - 1 |->
               [op |-> MLX5_CQE_INVALID, owner |-> 0, sub |-> 0, tag |-> 0]]
  /\ hwPi = 0
  /\ ci = 0
  /\ dbrec = 0
  /\ pc = "idle"
  /\ lop = MLX5_CQE_INVALID
  /\ lown = 0
  /\ wc = NoWc

(* The HCA writes its next CQE, whole, with opcode op and WQE opcode sub, *)
(* when the ring is not full according to the 24-bit doorbell value; the  *)
(* owner bit is that of its own lap.                                       *)
HwWriteCqeOf(op, sub) ==
  /\ (hwPi - dbrec) % DbMod < CQE_CNT
  /\ slot' = [slot EXCEPT ![Pos(hwPi)] =
               [op |-> op, owner |-> HwOwner(hwPi), sub |-> sub, tag |-> hwPi]]
  /\ hwPi' = (hwPi + 1) % CiMod
  /\ UNCHANGED <<ci, dbrec, pc, lop, lown, wc>>

(* Any completion the HCA may produce.                                     *)
HwWriteCqe == \E op \in HwOps, sub \in SubOps : HwWriteCqeOf(op, sub)

(* manual_poll_cq, first step: compute the slot and load op_own for the    *)
(* opcode (and, in the same load, the owner bit).                          *)
PollLoadOp ==
  /\ pc = "idle"
  /\ pc' = "loaded"
  /\ lop' = slot[Pos(ci)].op
  /\ lown' = slot[Pos(ci)].owner
  /\ UNCHANGED <<slot, hwPi, ci, dbrec, wc>>

(* The owner bit the owner test sees.                                      *)
LoadedOwner == IF RELOAD_OP_OWN THEN slot[Pos(ci)].owner ELSE lown

(* Mutant: the mask cqe_cnt - 1 used in place of cqe_cnt.                  *)
ExpectedOwnerMaskBug(i) == IF (i % CQE_CNT) # 0 THEN 1 ELSE 0

(* Mutant: the bit above cqe_cnt tested (cqe_cnt << 1).                    *)
ExpectedOwnerBitBug(i) == (i \div (2 * CQE_CNT)) % 2

(* expected_owner = !!(cq_cons_index & cqe_cnt).                           *)
ExpectedOwner(i) == (i \div CQE_CNT) % 2

(* manual_poll_cq, second step: the INVALID test, the owner test, the      *)
(* barrier, the decode, the increment and the doorbell update.  Every      *)
(* return 0 leaves the index and the doorbell alone.                       *)
PollEmpty ==
  /\ pc = "loaded"
  /\ lop = MLX5_CQE_INVALID
  /\ pc' = "idle"
  /\ UNCHANGED <<slot, hwPi, ci, dbrec, lop, lown, wc>>

PollStale ==
  /\ pc = "loaded"
  /\ lop # MLX5_CQE_INVALID
  /\ LoadedOwner # ExpectedOwner(ci)
  /\ pc' = "idle"
  /\ UNCHANGED <<slot, hwPi, ci, dbrec, lop, lown, wc>>

PollSkipUnknown ==
  /\ pc = "loaded"
  /\ lop # MLX5_CQE_INVALID
  /\ LoadedOwner = ExpectedOwner(ci)
  /\ lop \notin KnownOps
  /\ pc' = "idle"
  /\ UNCHANGED <<slot, hwPi, ci, dbrec, lop, lown, wc>>

(* Mutant: the doorbell value published without the 24-bit mask.          *)
PollConsumeNoMask ==
  /\ pc = "loaded"
  /\ lop # MLX5_CQE_INVALID
  /\ LoadedOwner = ExpectedOwner(ci)
  /\ lop \in KnownOps
  /\ wc' = Decode(lop, slot[Pos(ci)])
  /\ ci' = (ci + 1) % CiMod
  /\ dbrec' = (ci + 1) % CiMod
  /\ pc' = "idle"
  /\ UNCHANGED <<slot, hwPi, lop, lown>>

(* Mutant: the owner test dropped.                                         *)
PollConsumeNoOwnerTest ==
  /\ pc = "loaded"
  /\ lop # MLX5_CQE_INVALID
  /\ lop \in KnownOps
  /\ wc' = Decode(lop, slot[Pos(ci)])
  /\ ci' = (ci + 1) % CiMod
  /\ dbrec' = ((ci + 1) % CiMod) % DbMod
  /\ pc' = "idle"
  /\ UNCHANGED <<slot, hwPi, lop, lown>>

PollConsume ==
  /\ pc = "loaded"
  /\ lop # MLX5_CQE_INVALID
  /\ LoadedOwner = ExpectedOwner(ci)
  /\ lop \in KnownOps
  /\ wc' = Decode(lop, slot[Pos(ci)])
  /\ ci' = (ci + 1) % CiMod
  /\ dbrec' = ((ci + 1) % CiMod) % DbMod
  /\ pc' = "idle"
  /\ UNCHANGED <<slot, hwPi, lop, lown>>

PollCheck == PollEmpty \/ PollStale \/ PollSkipUnknown \/ PollConsume

Next == HwWriteCqe \/ PollLoadOp \/ PollCheck

(* The caller keeps polling (poll_completion spins on manual_poll_cq); the *)
(* HCA is not required to produce anything.                               *)
Fairness == WF_vars(PollLoadOp) /\ WF_vars(PollCheck)

Spec == Init /\ [][Next]_vars /\ Fairness

-----------------------------------------------------------------------------
(* Type invariant.                                                         *)
TypeOK ==
  /\ slot \in [0 .. CQE_CNT - 1 -> Cqe]
  /\ hwPi \in 0 .. CiMod - 1
  /\ ci \in 0 .. CiMod - 1
  /\ dbrec \in 0 .. DbMod - 1
  /\ pc \in {"idle", "loaded"}
  /\ lop \in 0 .. 15
  /\ lown \in 0 .. 1
  /\ wc \in Wc

(* No overrun: every CQE the HCA has written and software has not yet      *)
(* consumed is still intact in its slot, with the owner bit of its lap,    *)
(* and at most cqe_cnt are outstanding.  This is what the 24-bit doorbell  *)
(* value published after each consumption (dbrec[MLX5_CQ_SET_CI]) must     *)
(* guarantee to the HCA, across the wrap of both counters.                 *)
NoOverrun ==
  /\ Pending <= CQE_CNT
  /\ \A k \in 0 .. Pending - 1 :
       LET i == (ci + k) % CiMod
       IN  /\ slot[Pos(i)].tag = i
           /\ slot[Pos(i)].owner = HwOwner(i)
           /\ slot[Pos(i)].op \in HwOps

(* A poll that returns a completion returns the CQE the HCA wrote for the  *)
(* consumer index (never a stale CQE of an earlier lap), decoded from that *)
(* CQE's own opcode and body (never the opcode of one CQE with the body of *)
(* another).  This is what the owner test and the barrier of               *)
(* manual_poll_cq are for.                                                 *)
ConsumedAsWritten ==
  [][ci' # ci => /\ slot[Pos(ci)].tag = ci
                 /\ wc' = Decode(slot[Pos(ci)].op, slot[Pos(ci)])]_vars

(* While the caller keeps polling, every CQE the HCA has written is        *)
(* eventually consumed: the reader never stays stuck on a slot.            *)
EventuallyConsumed ==
  \A i \in 0 .. CiMod - 1 : (Pending > 0 /\ ci = i) ~> (ci # i)

-----------------------------------------------------------------------------
(* The ring implements a bounded FIFO of completions (CqFifo): the queue   *)
(* is the sequence of CQEs in the slots from the consumer index on, the    *)
(* HCA's write appends to it, a successful poll takes its head.            *)
AbsEntry(i) == [op |-> slot[Pos(i)].op, sub |-> slot[Pos(i)].sub,
                tag |-> slot[Pos(i)].tag]

Fifo == INSTANCE CqFifo WITH
          CAP <- CQE_CNT, SEQ_MOD <- CiMod, NoOut <- NoWc,
          Decoded <- LAMBDA e : Decode(e.op, e),
          Consumable <- LAMBDA e : e.op \in KnownOps,
          queue <- [k \in 1 .. Pending |-> AbsEntry((ci + k - 1) % CiMod)],
          next <- hwPi, out <- wc

(* The ring refines the FIFO, fairness included.                           *)
FifoSpec == Fifo!Spec

=============================================================================
