\* The HCA may write a CQE whose opcode the decoder's switch does not know.
CONSTANTS
  CQE_CNT = 2
  CI_BITS = 3
  DB_BITS = 2
  HwOps <- MCHwOpsUnknown
  SubOps <- MCSubOps
  RELOAD_OP_OWN = FALSE
SPECIFICATION Spec
PROPERTY EventuallyConsumed
