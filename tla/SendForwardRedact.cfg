SPECIFICATION Spec
CONSTANTS
    c1 = c1
    c2 = c2
    ClientNodes = {1}
    NoCall = 0
    Nodes <- MCNodes
    Calls <- MCCalls
    Ctypes <- MCCtypes
    Caps <- MCCaps
    MaxEvents = 2
INVARIANTS
    RelayedRedactUnderstood
CHECK_DEADLOCK FALSE
