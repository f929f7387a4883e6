\* Every path through main: creation failures and their cleanup, connect failures, write failures and the release failures of resources_destroy.
CONSTANTS
  REPEAT <- MCRepeat
  INLINE_MAX <- MCInlineMax
INIT Init
NEXT Next
CHECK_DEADLOCK FALSE
INVARIANT ResTypeOK NoDoubleRelease WritesOnRts ResultSound
