SPECIFICATION Spec
CONSTANTS
    Node <- MCNode
    KeyOf <- MCKeyOf
INVARIANTS
    TypeOK
    TreeLinked
    TreeSized
    TreeWalked
    TreeAnswers
PROPERTIES
    ImplementsSortedSet
