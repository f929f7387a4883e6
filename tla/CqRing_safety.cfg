\* Both counters wrap; an unknown opcode may appear; the build reloads op_own.
CONSTANTS
  CQE_CNT = 2
  CI_BITS = 3
  DB_BITS = 2
  HwOps <- MCHwOpsUnknown
  SubOps <- MCSubOps
  RELOAD_OP_OWN = TRUE
SPECIFICATION Spec
INVARIANT TypeOK NoOverrun
