SPECIFICATION GuardedSpec
CONSTANTS
    H = 4
    AnyKey <- MCAnyKey
    shift <- MCShift
    extract_bit <- MCBit
    Leaf <- MCLeaf
    KeyOf <- MCKeyOf
INVARIANTS
    TypeOK
    LinksSorted
    PrefixesExact
    DescendantsExact
    SearchExact
    QueriesExact
PROPERTIES
    ImplementsSortedSet
