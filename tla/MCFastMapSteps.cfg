SPECIFICATION MapSpec
CONSTANTS
    Key <- MCKey
    TREE_SPLIT_THRESHOLD = 5
    TREE_MERGE_THRESHOLD = 2
    RebuildWrap = 3
    Iterator = {i}
INVARIANTS
    StepsDefined
