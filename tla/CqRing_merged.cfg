\* The build merges the two loads of op_own; the HCA writes known opcodes only.
CONSTANTS
  CQE_CNT = 2
  CI_BITS = 3
  DB_BITS = 2
  HwOps <- MCHwOpsKnown
  SubOps <- MCSubOps
  RELOAD_OP_OWN = FALSE
SPECIFICATION Spec
PROPERTY ConsumedAsWritten
