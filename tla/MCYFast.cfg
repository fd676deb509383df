SPECIFICATION Spec
CONSTANTS
    Key <- MCKey
    TREE_SPLIT_THRESHOLD = 5
    TREE_MERGE_THRESHOLD = 2
    RebuildWrap = 2
INVARIANTS
    TypeOK
    TreesOrdered
    SeparatorsInRange
    TreeSizes
    TreesBounded
    SizeExact
    FindExact
    NeighboursExact
PROPERTIES
    RegroupingCounted
    ImplementsSortedSet
