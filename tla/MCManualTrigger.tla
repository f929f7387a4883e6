--------------------------- MODULE MCManualTrigger ---------------------------
(***************************************************************************)
(* Model-checking instances of ManualTrigger: a CQ of 2 CQEs and a send    *)
(* ring of 2 WQEs, 3-bit counters (the index of the doorbell and of the    *)
(* WQE 2 bits), and 10 iterations of the RDMA write loop (4 in the run     *)
(* that reloads the opcode), so that both rings are reused and the         *)
(* counters wrap.                                                          *)
(***************************************************************************)
EXTENDS ManualTrigger

=============================================================================
