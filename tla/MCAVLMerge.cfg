SPECIFICATION Spec
CONSTANTS
    Node <- MCNode
    KeyOf <- MCKeyOf
PROPERTIES
    MergeIsWhole
