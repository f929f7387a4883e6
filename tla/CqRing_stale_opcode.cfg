\* The build loads op_own twice: the opcode before the HCA's write, the owner after.
CONSTANTS
  CQE_CNT = 2
  CI_BITS = 3
  DB_BITS = 2
  HwOps <- MCHwOpsKnown
  SubOps <- MCSubOps
  RELOAD_OP_OWN = TRUE
SPECIFICATION Spec
PROPERTY ConsumedAsWritten
