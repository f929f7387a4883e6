\* A failed ibv_dereg_mr followed by free(res->buf): the registered buffer is freed under a live MR.
CONSTANTS
  REPEAT <- MCRepeat
  INLINE_MAX <- MCInlineMax
INIT Init
NEXT Next
CHECK_DEADLOCK FALSE
INVARIANT RegisteredBufferLive
