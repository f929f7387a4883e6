\* Ten RDMA writes; the build merges the two loads of op_own.
CONSTANTS
  CQE_CNT = 2
  WQE_CNT = 2
  CNT_BITS = 3
  DB_BITS = 2
  PI_BITS = 2
  BF_SIZE = 256
  REPEAT = 10
  RELOAD_OP_OWN = FALSE
SPECIFICATION Spec
CHECK_DEADLOCK FALSE
INVARIANT TypeOK SendRingIntact
PROPERTY VerdictSound
