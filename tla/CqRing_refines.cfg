\* Through the refinement mapping the ring behaves as the bounded FIFO CqFifo.
CONSTANTS
  CQE_CNT = 2
  CI_BITS = 3
  DB_BITS = 2
  HwOps <- MCHwOpsKnown
  SubOps <- MCSubOps
  RELOAD_OP_OWN = FALSE
SPECIFICATION Spec
PROPERTY FifoSpec
