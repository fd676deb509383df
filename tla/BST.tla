-------------------------------- MODULE BST ----------------------------------
(***************************************************************************)
(* impl::BST (src/include/yfast/impl/bst.h) on its own: a binary search    *)
(* tree that nothing balances, so that every shape comes up.               *)
(***************************************************************************)
EXTENDS BinaryTree

VARIABLE tree

Init == tree = NoTree

Insert(n) ==
    /\ n \notin NodesOf(tree)
    /\ tree' = BSTInsert(tree, n).tree

Remove(n) ==
    /\ n \in NodesOf(tree)
    /\ tree' = Blanked(BSTRemove(tree, n).tree, n)

Next == \E n \in Node : Insert(n) \/ Remove(n)

Spec == Init /\ [][Next]_tree

-----------------------------------------------------------------------------
(* Properties.                                                             *)

(* The members hold nodes, or nullptr, and counts.                         *)
TypeOK == Typed(tree)

(* Relinking up to five nodes in remove leaves no child that names another *)
(* node as its parent.                                                     *)
TreeLinked == Linked(tree)

(* The paths walked to correct the sizes are the ones that changed.        *)
TreeSized == Sized(tree)

(* pred(node) and succ(node), by which iterators move, visit the nodes in  *)
(* order.                                                                  *)
TreeWalked == Walked(tree)

(* find, pred, succ, leftmost and rightmost answer as for a sorted set.    *)
TreeAnswers == Answers(tree)

(* The tree is the sorted set of its keys: no node is lost or left behind  *)
(* in any relinking.                                                       *)
Abstract == INSTANCE SortedSet WITH keys <- KeysOf(tree)
ImplementsSortedSet == Abstract!Spec
=============================================================================
