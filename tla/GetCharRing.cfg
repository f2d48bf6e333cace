SPECIFICATION Spec
CONSTANTS
    ServerSize = 6
    ClientSize = 7
    MaxChars = 13
INVARIANTS InOrder Announced
CHECK_DEADLOCK FALSE
