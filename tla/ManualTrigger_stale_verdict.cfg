\* Four RDMA writes; the build loads op_own twice.
CONSTANTS
  CQE_CNT = 2
  WQE_CNT = 2
  CNT_BITS = 3
  DB_BITS = 2
  PI_BITS = 2
  BF_SIZE = 256
  REPEAT = 4
  RELOAD_OP_OWN = TRUE
SPECIFICATION Spec
CHECK_DEADLOCK FALSE
PROPERTY VerdictSound
