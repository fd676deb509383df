----------------------------- MODULE BinaryTree ------------------------------
(***************************************************************************)
(* impl::BST (src/include/yfast/impl/bst.h) as operators on a heap of      *)
(* nodes.  A tree is a record: the field root is _root, and the fields     *)
(* left, right, parent, heavy and size are functions from nodes to what    *)
(* the node's member holds.  Trees that share the heap differ in root      *)
(* alone.  left and right also name the sides: the code spells every       *)
(* operation out for both, the model takes the side as a parameter.        *)
(*                                                                         *)
(* Every insert overwrites all members of its node, so a node outside the  *)
(* trees is kept blank, a tree by itself, whatever its members were when   *)
(* it left.                                                                *)
(***************************************************************************)
EXTENDS OrderedKeys, Sequences

CONSTANTS
    Node,       \* the node objects, naturals
    KeyOf       \* Node::key

ASSUME NodeAssumption ==
    /\ Node \subseteq Nat /\ IsFiniteSet(Node)
    /\ KeyOf \in [Node -> Nat]

Key == {KeyOf[n] : n \in Node}
Pointer == Node \cup {NULL}
Sides == {"left", "right"}
Other(side) == IF side = "left" THEN "right" ELSE "left"

NoTree == [root |-> NULL,
           left |-> [n \in Node |-> NULL],
           right |-> [n \in Node |-> NULL],
           parent |-> [n \in Node |-> NULL],
           heavy |-> [n \in Node |-> "none"],
           size |-> [n \in Node |-> 1]]

Blanked(t, n) ==
    [t EXCEPT !.left[n] = NULL, !.right[n] = NULL, !.parent[n] = NULL,
              !.heavy[n] = "none", !.size[n] = 1]

-----------------------------------------------------------------------------
(* Links and sizes.                                                        *)

(* Mutant: the child is not told of its parent.                            *)
Link_DownOnly(t, parent, child, side) ==
    IF parent = NULL THEN t ELSE [t EXCEPT ![side][parent] = child]

(* link_left and link_right                                                *)
Link(t, parent, child, side) ==
    LET down == IF parent = NULL THEN t ELSE [t EXCEPT ![side][parent] = child]
    IN  IF child = NULL THEN down ELSE [down EXCEPT !.parent[child] = parent]

SideOf(t, parent, child) ==
    IF parent # NULL /\ child = t.left[parent] THEN "left" ELSE "right"

(* child goes where a child of parent was, or becomes the root.            *)
Attach(t, parent, child, side) ==
    IF parent # NULL THEN Link(t, parent, child, side)
    ELSE Link([t EXCEPT !.root = child], NULL, child, side)

SizeAt(t, n) == IF n = NULL THEN 0 ELSE t.size[n]

update_size(t, n) ==
    [t EXCEPT !.size[n] = 1 + SizeAt(t, t.left[n]) + SizeAt(t, t.right[n])]

(* Mutant: only the node itself is corrected.                              *)
add_size_path_NodeOnly(t, n, d) ==
    IF n = NULL THEN t ELSE [t EXCEPT !.size[n] = @ + d]

(* The nodes from n up to the root.                                        *)
Path(t, n) ==
    LET Up[m \in Pointer] == IF m = NULL THEN {} ELSE {m} \cup Up[t.parent[m]]
    IN  Up[n]

(* inc_size_path and dec_size_path                                         *)
add_size_path(t, n, d) ==
    LET path == Path(t, n)
    IN  [t EXCEPT !.size =
            [m \in Node |-> IF m \in path THEN @[m] + d ELSE @[m]]]

-----------------------------------------------------------------------------
(* Walks.                                                                  *)

(* _leftmost and _rightmost of the subtree at n                            *)
Outermost(t, n, side) ==
    LET Out[m \in Node] == IF t[side][m] = NULL THEN m ELSE Out[t[side][m]]
    IN  Out[n]

EndOf(t, side) == IF t.root = NULL THEN NULL ELSE Outermost(t, t.root, side)

(* The walk from the root down to k's node or place: probe is the node,    *)
(* or NULL, and hangs on `side' of parent.                                 *)
Place(t, k) ==
    LET Walk[n \in Node] ==
            LET side == IF k < KeyOf[n] THEN "left" ELSE "right"
                probe == t[side][n]
            IN  IF probe = NULL \/ KeyOf[probe] = k
                THEN [probe |-> probe, parent |-> n, side |-> side]
                ELSE Walk[probe]
    IN  IF t.root = NULL \/ KeyOf[t.root] = k
        THEN [probe |-> t.root, parent |-> NULL, side |-> "left"]
        ELSE Walk[t.root]

find(t, k) == Place(t, k).probe

seek(t, k) ==
    LET place == Place(t, k)
    IN  IF place.probe # NULL THEN place.probe ELSE place.parent

(* Mutant: the parent is taken, whichever side n is on.                    *)
Turn_NoClimb(t, n, side) == t.parent[n]

(* The nearest ancestor of n that has n on the given side.                 *)
Turn(t, n, side) ==
    LET Up[m \in Node] ==
            LET p == t.parent[m]
            IN  IF p = NULL THEN NULL
                ELSE IF m = t[side][p] THEN p ELSE Up[p]
    IN  Up[n]

(* pred(node) with side = "left", succ(node) with side = "right"           *)
Neighbour(t, n, side) ==
    IF t[side][n] # NULL THEN Outermost(t, t[side][n], Other(side))
    ELSE Turn(t, n, Other(side))

(* Mutant: `strict' is not looked at.                                      *)
pred_NeverStrict(t, k, strict) ==
    LET n == seek(t, k)
    IN  IF n = NULL THEN NULL
        ELSE IF KeyOf[n] <= k THEN n ELSE Neighbour(t, n, "left")

pred(t, k, strict) ==
    LET n == seek(t, k)
    IN  IF n = NULL THEN NULL
        ELSE IF KeyOf[n] < k \/ (KeyOf[n] = k /\ ~strict) THEN n
        ELSE Neighbour(t, n, "left")

succ(t, k, strict) ==
    LET n == seek(t, k)
    IN  IF n = NULL THEN NULL
        ELSE IF k < KeyOf[n] \/ (KeyOf[n] = k /\ ~strict) THEN n
        ELSE Neighbour(t, n, "right")

-----------------------------------------------------------------------------
(* Updates.                                                                *)

(* Mutant: the replaced node's size is not taken over.                     *)
BSTInsert_SizeLost(t, n) ==
    LET place == Place(t, KeyOf[n])
        old == place.probe
        hung == Attach(t, place.parent, n, place.side)
        taken == Link(Link(hung, n, t.left[old], "left"), n, t.right[old], "right")
        leaf == [hung EXCEPT !.left[n] = NULL, !.right[n] = NULL, !.size[n] = 1]
    IN  [tree |-> IF old # NULL THEN Blanked(taken, old)
                  ELSE add_size_path(leaf, place.parent, 1),
         replaced |-> old]

(* BST::insert of n, which takes over all of the replaced node's links.    *)
BSTInsert(t, n) ==
    LET place == Place(t, KeyOf[n])
        old == place.probe
        hung == Attach(t, place.parent, n, place.side)
        taken == [Link(Link(hung, n, t.left[old], "left"),
                       n, t.right[old], "right")
                     EXCEPT !.size[n] = t.size[old]]
        leaf == [hung EXCEPT !.left[n] = NULL, !.right[n] = NULL, !.size[n] = 1]
    IN  [tree |-> IF old # NULL THEN Blanked(taken, old)
                  ELSE add_size_path(leaf, place.parent, 1),
         replaced |-> old]

(* The RemoveReport of BST::remove, and the tree it leaves.                *)
Removal(t, substitution, parent, child, side) ==
    [tree |-> add_size_path(t, parent, -1), substitution |-> substitution,
     subtree_parent |-> parent, subtree_child |-> child, side |-> side]

(* Mutant: a right child is forgotten.                                     *)
BSTRemoveOuter_LeftOnly(t, n) ==
    LET parent == t.parent[n]
        side == SideOf(t, parent, n)
        child == t.left[n]
    IN  Removal(Attach(t, parent, child, side), child, parent, child, side)

BSTRemoveOuter(t, n) ==
    LET parent == t.parent[n]
        side == SideOf(t, parent, n)
        child == IF t.left[n] = NULL THEN t.right[n] ELSE t.left[n]
    IN  Removal(Attach(t, parent, child, side), child, parent, child, side)

(* n has two children: its successor s takes its place.                    *)
BSTRemoveInner(t, n) ==
    LET s == Neighbour(t, n, "right")
        below == s = t.right[n]
        freed == IF below THEN t
                 ELSE Link(Link(t, t.parent[s], t.right[s], "left"),
                           s, t.right[n], "right")
        moved == [Link(freed, s, t.left[n], "left") EXCEPT !.size[s] = t.size[n]]
        parent == t.parent[n]
    IN  Removal(Attach(moved, parent, s, SideOf(t, parent, n)),
                s, IF below THEN s ELSE t.parent[s], t.right[s],
                IF below THEN "right" ELSE "left")

BSTRemove(t, n) ==
    IF t.left[n] = NULL \/ t.right[n] = NULL
    THEN BSTRemoveOuter(t, n) ELSE BSTRemoveInner(t, n)

-----------------------------------------------------------------------------
(* What should hold of a tree.                                             *)

NodesAt(t, n) ==
    LET At[m \in Pointer] ==
            IF m = NULL THEN {} ELSE {m} \cup At[t.left[m]] \cup At[t.right[m]]
    IN  At[n]

NodesOf(t) == NodesAt(t, t.root)
KeysOf(t) == {KeyOf[n] : n \in NodesOf(t)}
NodeOf(t, k) == IF k = NULL THEN NULL
                ELSE CHOOSE n \in NodesOf(t) : KeyOf[n] = k

Typed(t) ==
    t \in [root : Pointer,
           left : [Node -> Pointer],
           right : [Node -> Pointer],
           parent : [Node -> Pointer],
           heavy : [Node -> Sides \cup {"none"}],
           size : [Node -> Nat]]

(* Smaller keys on the left, greater ones on the right, of every node.     *)
Sorted(t) ==
    \A n \in NodesOf(t) :
        /\ \A m \in NodesAt(t, t.left[n]) : KeyOf[m] < KeyOf[n]
        /\ \A m \in NodesAt(t, t.right[n]) : KeyOf[n] < KeyOf[m]

(* The parent links are the child links turned round.                      *)
Linked(t) ==
    /\ t.root # NULL => t.parent[t.root] = NULL
    /\ \A n \in NodesOf(t), side \in Sides :
        t[side][n] # NULL => t.parent[t[side][n]] = n

(* Every node counts the nodes of its subtree.                             *)
Sized(t) == \A n \in NodesOf(t) : t.size[n] = Cardinality(NodesAt(t, n))

(* From node to node, the tree is walked in key order.                     *)
Walked(t) ==
    \A n \in NodesOf(t) :
        /\ Neighbour(t, n, "left") = NodeOf(t, PredIn(KeysOf(t), KeyOf[n], TRUE))
        /\ Neighbour(t, n, "right") = NodeOf(t, SuccIn(KeysOf(t), KeyOf[n], TRUE))

(* The queries by key, of keys inside and outside the tree, are exact.     *)
Answers(t) ==
    /\ EndOf(t, "left") = NodeOf(t, LeastOf(KeysOf(t)))
    /\ EndOf(t, "right") = NodeOf(t, GreatestOf(KeysOf(t)))
    /\ \A k \in Key :
        /\ find(t, k) = NodeOf(t, IF k \in KeysOf(t) THEN k ELSE NULL)
        /\ \A strict \in BOOLEAN :
            /\ pred(t, k, strict) = NodeOf(t, PredIn(KeysOf(t), k, strict))
            /\ succ(t, k, strict) = NodeOf(t, SuccIn(KeysOf(t), k, strict))
=============================================================================
