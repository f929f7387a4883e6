\* Poster and HCA send engine; the caller never posts into a full ring.
CONSTANTS
  WQE_CNT = 4
  SQ_BITS = 4
  PI_BITS = 3
  BF_SIZE = 256
SPECIFICATION SqSpec
INVARIANT SqTypeOK DoorbellCoversBuilt
