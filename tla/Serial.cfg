CONSTANTS
  MAX_CLIENTS = 3
  CLIENT_OUTPUT_BUFFER_SIZE = 3
  MaskBits = 2
  num_getchar_clients = 2
  CR = CR  LF = LF  x = x  y = y
  Ordinary = {x}
  Uses <- MCUses
  DigitOf <- MCDigitOf
SPECIFICATION FairSpec
INVARIANTS TypeOK ColourMatches MaskCovers
PROPERTIES ShownInOrder CutsAlone Drained
