\* Ten RDMA writes under fairness of main and the HCA, with no reliance on the timeout.
CONSTANTS
  CQE_CNT = 2
  WQE_CNT = 2
  CNT_BITS = 3
  DB_BITS = 2
  PI_BITS = 2
  BF_SIZE = 256
  REPEAT = 10
  RELOAD_OP_OWN = FALSE
SPECIFICATION Spec
CHECK_DEADLOCK FALSE
PROPERTY PollEventuallyReturns
