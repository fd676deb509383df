SPECIFICATION Spec
CONSTANTS
    H = 4
    IntBits = 3
    ByteBits = 3
    Numbers <- MCWideNumbers
    Strings <- MCNoStrings
INVARIANTS
    BitsTellOrder
CHECK_DEADLOCK FALSE
