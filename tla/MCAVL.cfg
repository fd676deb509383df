SPECIFICATION GuardedSpec
CONSTANTS
    Node <- MCNode
    KeyOf <- MCKeyOf
INVARIANTS
    TypeOK
    TreesSorted
    TreesLinked
    TreesSized
    TreesBalanced
    RootsInRange
PROPERTIES
    ImplementsSortedSet
