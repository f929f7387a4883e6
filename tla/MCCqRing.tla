------------------------------ MODULE MCCqRing ------------------------------
(***************************************************************************)
(* Model-checking instances of CqRing.  A ring of 2 (or 4) CQEs, a         *)
(* consumer index of 3 (or 4) bits and a doorbell value of 2 (or 3) bits:  *)
(* the widths keep the code's proportions (the doorbell narrower than the  *)
(* index, both multiples of 2 * cqe_cnt) and make both counters wrap.      *)
(***************************************************************************)
EXTENDS CqRing

(* Completions this program's QP can produce: successful and failed        *)
(* requests, and a receive with immediate.                                 *)
MCHwOpsKnown == {MLX5_CQE_REQ, MLX5_CQE_REQ_ERR, MLX5_CQE_RESP_SEND_IMM}

(* The same, plus an opcode the decoder does not know (5: RESIZE_CQ).      *)
MCHwOpsUnknown == MCHwOpsKnown \cup {5}

(* RDMA write with and without immediate, and an atomic (default branch).  *)
MCSubOps == {MLX5_OPCODE_RDMA_WRITE, MLX5_OPCODE_RDMA_WRITE_IMM, 17}

(* A smaller opcode set for the larger ring.                               *)
MCHwOpsSmall == {MLX5_CQE_REQ, MLX5_CQE_REQ_ERR}
MCSubOpsSmall == {MLX5_OPCODE_RDMA_WRITE}

=============================================================================
