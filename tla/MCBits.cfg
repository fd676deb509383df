SPECIFICATION Spec
CONSTANTS
    H = 9
    IntBits = 9
    ByteBits = 3
    Numbers <- MCNumbers
    Strings <- MCStrings
INVARIANTS
    PrefixesTyped
    BitsTellPrefix
    BitsTellOrder
    BytesSpellNumber
CHECK_DEADLOCK FALSE
