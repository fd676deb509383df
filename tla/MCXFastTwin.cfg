SPECIFICATION Spec
CONSTANTS
    H = 3
    AnyKey <- MCAnyKey
    shift <- MCShift
    extract_bit <- MCBit
    Leaf <- MCTwinLeaf
    KeyOf <- MCTwinKeyOf
INVARIANTS
    ReplacedLeafGone
