------------------------------- MODULE SqRing -------------------------------
(***************************************************************************)
(* The send ring of mlx5dv_manual_trigger.c (local_write) together with    *)
(* the HCA's send-queue engine.                                            *)
(*                                                                         *)
(* Software builds the RDMA-write WQE (ctrl + raddr + data segments) in    *)
(* slot sq_cur_post % wqe_cnt, with the low 16 bits of sq_cur_post as its  *)
(* index, issues the barrier, writes the first 8 bytes of the ctrl segment *)
(* to the BlueFlame register at bf.reg + bf_offset, increments             *)
(* sq_cur_post and flips bf_offset.  The HCA learns from the doorbell the  *)
(* index of the last posted WQE and executes, in order, every WQE up to    *)
(* it, reading each from its slot.                                         *)
(*                                                                         *)
(* The two software steps are the build (up to and including the barrier) *)
(* and the trigger; the HCA can fetch between them and after them.         *)
(***************************************************************************)
EXTENDS Integers

CONSTANTS
  WQE_CNT,   \* mlx5dv_qp.sq.wqe_cnt, a power of two
  SQ_BITS,   \* width of sq_cur_post (32 in the code)
  PI_BITS,   \* width of the WQE index in the ctrl segment (16: & 0xffff)
  BF_SIZE    \* mlx5dv_qp.bf.size

SqMod == 2 ^ SQ_BITS
PiMod == 2 ^ PI_BITS

ASSUME SqAssumption ==
  /\ PI_BITS \in Nat \ {0}
  /\ SQ_BITS \in Nat /\ PI_BITS <= SQ_BITS
  /\ WQE_CNT \in {2 ^ k : k \in 0 .. PI_BITS - 1}
  /\ BF_SIZE \in Nat \ {0}

(* What the index arithmetic needs of the sizes, as divisibilities: it     *)
(* follows from SqAssumption (2 * wqe_cnt is a power of two not above      *)
(* 2^16, which divides 2^32) and is stated apart because the provers do    *)
(* not know exponentiation.                                                *)
ASSUME SqModAssumption ==
  /\ WQE_CNT \in Nat \ {0}
  /\ PiMod \in Nat \ {0}
  /\ SqMod \in Nat \ {0}
  /\ PiMod % (2 * WQE_CNT) = 0
  /\ SqMod % PiMod = 0

MLX5_OPCODE_RDMA_WRITE == 8

(* Segment sizes of the non-inline RDMA-write WQE, in bytes.               *)
CtrlSegSize  == 16
RaddrSegSize == 16
DataSegSize  == 16

(* A WQE as the HCA tells it apart: the index and opcode of                *)
(* opmod_idx_opcode, the ds of qpn_ds and the CQ_UPDATE bit of fm_ce_se.  *)
(* The addresses and keys of the raddr and data segments are left out.    *)
Wqe == [pi : 0 .. PiMod - 1, opcode : 0 .. 255, ds : 0 .. 63, ce : BOOLEAN]

(* The content of a slot never written: zeroed memory.                    *)
NoWqe == [pi |-> 0, opcode |-> 0, ds |-> 0, ce |-> FALSE]

VARIABLES
  sqPost,     \* res->sq_cur_post
  bfOffset,   \* res->bf_offset
  sqPc,       \* "build": next step builds a WQE; "ring": next step triggers
  wqe,        \* the send queue buffer: slot -> WQE
  hwSqKnown,  \* index after the last WQE the HCA was told of (16 bits)
  hwSqCi,     \* index of the next WQE the HCA executes (16 bits)
  fetched     \* the WQE the HCA fetched last

sqVars == <<sqPost, bfOffset, sqPc, wqe, hwSqKnown, hwSqCi, fetched>>

(* WQEs the HCA was told of and has not yet executed.                      *)
HwOutstanding == (hwSqKnown - hwSqCi) % PiMod

(* WQEs built and not yet executed, as the 16-bit counters see them.       *)
InFlight == ((sqPost % PiMod) - hwSqCi) % PiMod

(* Whether w is the RDMA-write WQE local_write builds for index i.         *)
WellFormed(w, i) ==
  /\ w.pi = i
  /\ w.opcode = MLX5_OPCODE_RDMA_WRITE
  /\ w.ds = (CtrlSegSize + RaddrSegSize + DataSegSize) \div 16
  /\ w.ce

-----------------------------------------------------------------------------
(* resources_create: sq_cur_post = 0, bf_offset = 0; the HCA's counters    *)
(* start at 0 on the transition to RTS.                                    *)
SqInit ==
  /\ sqPost = 0
  /\ bfOffset = 0
  /\ sqPc = "build"
  /\ wqe = [s \in 0 .. WQE_CNT - 1 |-> NoWqe]
  /\ hwSqKnown = 0
  /\ hwSqCi = 0
  /\ fetched = NoWqe

(* Mutant: the WQE index taken with an 8-bit mask.                         *)
PostWqeNarrowPi ==
  /\ sqPc = "build"
  /\ wqe' = [wqe EXCEPT ![sqPost % WQE_CNT] =
               [pi |-> sqPost % (PiMod \div 2), opcode |-> MLX5_OPCODE_RDMA_WRITE,
                ds |-> (CtrlSegSize + RaddrSegSize + DataSegSize) \div 16,
                ce |-> TRUE]]
  /\ sqPc' = "ring"
  /\ UNCHANGED <<sqPost, bfOffset, hwSqKnown, hwSqCi, fetched>>

(* Mutant: the WQE built one slot too far.                                *)
PostWqeSlotOffByOne ==
  /\ sqPc = "build"
  /\ wqe' = [wqe EXCEPT ![(sqPost + 1) % WQE_CNT] =
               [pi |-> sqPost % PiMod, opcode |-> MLX5_OPCODE_RDMA_WRITE,
                ds |-> (CtrlSegSize + RaddrSegSize + DataSegSize) \div 16,
                ce |-> TRUE]]
  /\ sqPc' = "ring"
  /\ UNCHANGED <<sqPost, bfOffset, hwSqKnown, hwSqCi, fetched>>

(* local_write, from the computation of the WQE address to the barrier:   *)
(* the ctrl segment (index pi = sq_cur_post & 0xffff, RDMA_WRITE,          *)
(* CQ_UPDATE, ds = 3), the raddr and the data segments, in slot            *)
(* sq_cur_post % wqe_cnt.  Nothing checks that the slot is free.           *)
PostWqe ==
  /\ sqPc = "build"
  /\ wqe' = [wqe EXCEPT ![sqPost % WQE_CNT] =
               [pi |-> sqPost % PiMod, opcode |-> MLX5_OPCODE_RDMA_WRITE,
                ds |-> (CtrlSegSize + RaddrSegSize + DataSegSize) \div 16,
                ce |-> TRUE]]
  /\ sqPc' = "ring"
  /\ UNCHANGED <<sqPost, bfOffset, hwSqKnown, hwSqCi, fetched>>

(* Mutant: the doorbell written after sq_cur_post++, from a ctrl segment   *)
(* rebuilt with the incremented index.                                     *)
RingDoorbellLate ==
  /\ sqPc = "ring"
  /\ hwSqKnown' = (((sqPost + 1) % PiMod) + 1) % PiMod
  /\ sqPost' = (sqPost + 1) % SqMod
  /\ bfOffset' = BF_SIZE - bfOffset
  /\ sqPc' = "build"
  /\ UNCHANGED <<wqe, hwSqCi, fetched>>

(* Mutant: sq_cur_post not incremented.                                   *)
RingDoorbellNoIncrement ==
  /\ sqPc = "ring"
  /\ hwSqKnown' = (wqe[sqPost % WQE_CNT].pi + 1) % PiMod
  /\ bfOffset' = BF_SIZE - bfOffset
  /\ sqPc' = "build"
  /\ UNCHANGED <<sqPost, wqe, hwSqCi, fetched>>

(* Mutant: bf_offset advanced by bf.size instead of toggled.              *)
RingDoorbellAddOffset ==
  /\ sqPc = "ring"
  /\ hwSqKnown' = (wqe[sqPost % WQE_CNT].pi + 1) % PiMod
  /\ sqPost' = (sqPost + 1) % SqMod
  /\ bfOffset' = bfOffset + BF_SIZE
  /\ sqPc' = "build"
  /\ UNCHANGED <<wqe, hwSqCi, fetched>>

(* local_write, the trigger: the first 8 bytes of the ctrl segment go to   *)
(* bf.reg + bf_offset, and the HCA learns that every WQE up to its index   *)
(* is posted; then sq_cur_post++ and bf_offset ^= bf.size (bf_offset is   *)
(* 0 or bf.size, so the exclusive or is bf.size - bf_offset).              *)
RingDoorbell ==
  /\ sqPc = "ring"
  /\ hwSqKnown' = (wqe[sqPost % WQE_CNT].pi + 1) % PiMod
  /\ sqPost' = (sqPost + 1) % SqMod
  /\ bfOffset' = BF_SIZE - bfOffset
  /\ sqPc' = "build"
  /\ UNCHANGED <<wqe, hwSqCi, fetched>>

(* The HCA fetches and executes its next WQE, once told of it.             *)
HwExecuteWqe ==
  /\ HwOutstanding # 0
  /\ fetched' = wqe[hwSqCi % WQE_CNT]
  /\ hwSqCi' = (hwSqCi + 1) % PiMod
  /\ UNCHANGED <<sqPost, bfOffset, sqPc, wqe, hwSqKnown>>

(* On its own the poster relies on its caller not to post into a full      *)
(* ring (the code does not check); the composition checks that main does   *)
(* not.                                                                    *)
CallerAvoidsFull == InFlight < WQE_CNT

SqNext ==
  \/ PostWqe /\ CallerAvoidsFull
  \/ RingDoorbell
  \/ HwExecuteWqe

SqSpec == SqInit /\ [][SqNext]_sqVars

-----------------------------------------------------------------------------
(* Type invariant.                                                         *)
SqTypeOK ==
  /\ sqPost \in 0 .. SqMod - 1
  /\ bfOffset \in {0, BF_SIZE}
  /\ sqPc \in {"build", "ring"}
  /\ wqe \in [0 .. WQE_CNT - 1 -> Wqe]
  /\ hwSqKnown \in 0 .. PiMod - 1
  /\ hwSqCi \in 0 .. PiMod - 1
  /\ fetched \in Wqe

(* The HCA is never told of a WQE software has not posted, and every WQE   *)
(* posted and not yet executed is intact in its slot, built for its index. *)
DoorbellCoversBuilt ==
  /\ HwOutstanding <= InFlight
  /\ \A k \in 0 .. InFlight - 1 :
       WellFormed(wqe[((hwSqCi + k) % PiMod) % WQE_CNT], (hwSqCi + k) % PiMod)

=============================================================================
