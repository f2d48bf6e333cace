CONSTANTS
  MAX_CLIENTS = 2
  CLIENT_OUTPUT_BUFFER_SIZE = 4
  MaskBits = 1
  num_getchar_clients = 1
  CR = CR  LF = LF  x = x  y = y
  Ordinary = {x}
  Uses <- MCOverflow
  DigitOf <- MCNoDigits
SPECIFICATION Spec
INVARIANT OverflowFlushes
