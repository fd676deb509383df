------------------------------ MODULE TreeShape ------------------------------
(***************************************************************************)
(* What the shape of an AVL tree (src/include/yfast/impl/avl.h) says about *)
(* the key at its root.  The modules that abstract a tree to its set of    *)
(* keys use it to say which key root() may return; the module of the tree  *)
(* itself checks that every tree it builds obeys it.                       *)
(***************************************************************************)
EXTENDS Integers, FiniteSets

(* The nodes of the tree of height h with subtrees of heights h - 1 and    *)
(* h - d below every node of height two or more.                           *)
SizesBy(d) ==
    LET Nodes[h \in Nat] == IF h < 2 THEN h ELSE Nodes[h - 1] + Nodes[h - d] + 1
    IN  Nodes

(* An AVL tree of height h has at least Sparsest[h] nodes, at most         *)
(* Fullest[h].                                                             *)
Sparsest == SizesBy(2)
Fullest == SizesBy(1)

HasHeight(n, h) == Sparsest[h] <= n /\ n <= Fullest[h]

(* Subtrees of l and r nodes can hang from one balanced node.              *)
AvlSizes(l, r) ==
    \E h \in 0 .. l, g \in 0 .. r :
        /\ HasHeight(l, h)
        /\ HasHeight(r, g)
        /\ h - g \in {-1, 0, 1}

(* The keys of t that the root of an AVL tree over t may hold.             *)
AvlRoots(t) ==
    {m \in t : AvlSizes(Cardinality({x \in t : x < m}),
                        Cardinality({x \in t : m < x}))}
=============================================================================
