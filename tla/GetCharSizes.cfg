SPECIFICATION Spec
CONSTANTS
    ServerSize = 4
    ClientSize = 5
    MaxChars = 6
INVARIANT HeadInRing
CHECK_DEADLOCK FALSE
