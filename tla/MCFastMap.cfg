SPECIFICATION GuardedSpec
CONSTANTS
    Key <- MCKey
    TREE_SPLIT_THRESHOLD = 5
    TREE_MERGE_THRESHOLD = 2
    RebuildWrap = 3
    Iterator = {i}
INVARIANTS
    IteratorsTyped
    CacheExact
    StepsExact
PROPERTIES
    ImplementsCursors
