-------------------------------- MODULE AVL ----------------------------------
(***************************************************************************)
(* impl::AVL (src/include/yfast/impl/avl.h): the balancing of BST, and the *)
(* split and merge YFastTrie builds on.  heavy[n] is the pair of flags of  *)
(* a node: "none" is is_balanced().                                        *)
(*                                                                         *)
(* The state is two trees on one heap, as YFastTrie has them side by side: *)
(* lo below hi in key order.  split makes two trees of lo when hi is       *)
(* empty, merge makes one tree of both.                                    *)
(***************************************************************************)
EXTENDS BinaryTree, TreeShape

-----------------------------------------------------------------------------
(* Rotations.                                                              *)

(* Mutants: the wrong grandchild is moved over; the moved one is not told; *)
(* the sizes are computed top down; the flags are those of insert only.    *)
Rotate_WrongChild(t, parent, child, side) ==
    LET turned == Link(Link(t, parent, t[side][child], side),
                       child, parent, Other(side))
    IN  [update_size(update_size(turned, parent), child) EXCEPT
            !.heavy[parent] = "none", !.heavy[child] = "none"]

Rotate_OneWay(t, parent, child, side) ==
    LET other == Other(side)
        turned == Link([t EXCEPT ![side][parent] = t[other][child]],
                       child, parent, other)
        even == t.heavy[child] = "none"
    IN  [update_size(update_size(turned, parent), child) EXCEPT
            !.heavy[parent] = IF even THEN side ELSE "none",
            !.heavy[child] = IF even THEN other ELSE "none"]

Rotate_TopDown(t, parent, child, side) ==
    LET other == Other(side)
        turned == Link(Link(t, parent, t[other][child], side),
                       child, parent, other)
        even == t.heavy[child] = "none"
    IN  [update_size(update_size(turned, child), parent) EXCEPT
            !.heavy[parent] = IF even THEN side ELSE "none",
            !.heavy[child] = IF even THEN other ELSE "none"]

Rotate_NeverEven(t, parent, child, side) ==
    LET other == Other(side)
        turned == Link(Link(t, parent, t[other][child], side),
                       child, parent, other)
    IN  [update_size(update_size(turned, parent), child) EXCEPT
            !.heavy[parent] = "none", !.heavy[child] = "none"]

(* rotate_left is Rotate with side = "right": child, on that side of       *)
(* parent, becomes the root of the subtree.                                *)
Rotate(t, parent, child, side) ==
    LET other == Other(side)
        turned == Link(Link(t, parent, t[other][child], side),
                       child, parent, other)
        sized == update_size(update_size(turned, parent), child)
        even == t.heavy[child] = "none"
    IN  [sized EXCEPT !.heavy[parent] = IF even THEN side ELSE "none",
                      !.heavy[child] = IF even THEN other ELSE "none"]

(* rotate_right_left is RotateTwice with side = "right": the child of      *)
(* child on the other side becomes the root of the subtree.                *)
RotateTwice(t, parent, child, side) ==
    LET other == Other(side)
        top == t[other][child]
        lower == Link(Link(t, child, t[side][top], other), top, child, side)
        turned == Link(Link(lower, parent, t[other][top], side),
                       top, parent, other)
        sized == update_size(update_size(update_size(turned, parent), child), top)
    IN  [sized EXCEPT
            !.heavy[parent] = IF t.heavy[top] = side THEN other ELSE "none",
            !.heavy[child] = IF t.heavy[top] = other THEN side ELSE "none",
            !.heavy[top] = "none"]

(* The rotation for a child that leans away from its side is the double    *)
(* one; node is the new root of the subtree.                               *)
Rotation(t, parent, child, side) ==
    IF t.heavy[child] = Other(side)
    THEN [tree |-> RotateTwice(t, parent, child, side),
          node |-> t[Other(side)][child]]
    ELSE [tree |-> Rotate(t, parent, child, side), node |-> child]

height(t, n) ==
    LET Down[m \in Pointer] ==
            IF m = NULL THEN 0
            ELSE IF t.heavy[m] = "right" THEN 2 + Down[t.left[m]]
            ELSE IF t.heavy[m] = "left" THEN 2 + Down[t.right[m]]
            ELSE 1 + Down[t.right[m]]
    IN  Down[n]

-----------------------------------------------------------------------------
(* insert and remove.                                                      *)

(* A loop, by the Step from what it holds in one round to what it holds in *)
(* the next; a Step leaves what a finished loop holds as it is.  Every     *)
(* loop here moves up a tree: it ends within as many rounds as there are   *)
(* nodes.                                                                  *)
Loop(Step(_), first) ==
    LET Round[k \in 0 .. Cardinality(Node)] ==
            IF k = 0 THEN first ELSE Step(Round[k - 1])
    IN  Round[Cardinality(Node)]

(* The loops that rebalance hold the tree and a node, NULL once finished,  *)
(* whose subtree on `side' has changed its height.                         *)
Going(t, at, side) == [tree |-> t, at |-> at, side |-> side]

(* Mutant: nothing is rotated.                                             *)
Grown_Never(t, probe) == t

(* The loop of insert: the subtree at probe has grown by one level.        *)
GrownRound(c) ==
    LET t == c.tree
        parent == c.at
        probe == t[c.side][parent]
        grand == t.parent[parent]
        up == SideOf(t, grand, parent)
        r == Rotation(t, parent, probe, c.side)
    IN  IF parent = NULL THEN c
        ELSE IF t.heavy[parent] = c.side
            THEN Going(Attach(r.tree, grand, r.node, up), NULL, up)
        ELSE IF t.heavy[parent] = Other(c.side)
            THEN Going([t EXCEPT !.heavy[parent] = "none"], NULL, up)
        ELSE Going([t EXCEPT !.heavy[parent] = c.side], grand, up)

Grown(t, probe) ==
    LET parent == t.parent[probe]
    IN  Loop(GrownRound, Going(t, parent, SideOf(t, parent, probe))).tree

AVLInsert(t, n) ==
    LET b == BSTInsert(t, n)
    IN  IF b.replaced # NULL
        THEN [b.tree EXCEPT !.heavy[n] = t.heavy[b.replaced]]
        ELSE Grown([b.tree EXCEPT !.heavy[n] = "none"], n)

(* The loop of remove: the child of parent on `side' is a level shorter.   *)
ShrunkRound(c) ==
    LET t == c.tree
        parent == c.at
        other == Other(c.side)
        sibling == t[other][parent]
        grand == t.parent[parent]
        up == SideOf(t, grand, parent)
        r == Rotation(t, parent, sibling, other)
        attached == Attach(r.tree, grand, r.node, up)
    IN  IF parent = NULL THEN c
        ELSE IF t.heavy[parent] = other
            THEN Going(attached,
                       IF t.heavy[sibling] = "none" THEN NULL ELSE grand, up)
        ELSE IF t.heavy[parent] = "none"
            THEN Going([t EXCEPT !.heavy[parent] = other], NULL, up)
        ELSE Going([t EXCEPT !.heavy[parent] = "none"], grand, up)

Shrunk(t, parent, side) == Loop(ShrunkRound, Going(t, parent, side)).tree

AVLRemove(t, n) ==
    LET b == BSTRemove(t, n)
        flagged == IF b.substitution # b.subtree_child
                   THEN [b.tree EXCEPT !.heavy[b.substitution] = t.heavy[n]]
                   ELSE b.tree
    IN  Shrunk(Blanked(flagged, n), b.subtree_parent, b.side)

-----------------------------------------------------------------------------
(* split and merge.                                                        *)

(* The tree at n by itself, as the constructor from a root makes it.       *)
Rooted(t, n) == Attach(t, NULL, n, "left")

(* Both halves of t; its root goes into the left one.                      *)
AVLSplit(t) ==
    LET right == Rooted(Blanked(t, t.root), t.right[t.root])
        left == AVLInsert(Rooted(right, t.left[t.root]), t.root)
    IN  [tree |-> left, left |-> left.root, right |-> right.root]

(* Up a spine from its end to the first subtree of at least height h.      *)
ClimbedRound(c) ==
    LET p == c.tree.parent[c.probe]
    IN  IF c.height >= c.enough THEN c
        ELSE [c EXCEPT !.probe = p,
                       !.height = @ + IF c.tree.heavy[p] = Other(c.side) THEN 2 ELSE 1]

Climbed(t, probe, probe_height, h, side) ==
    Loop(ClimbedRound, [tree |-> t, side |-> side, enough |-> h,
                        probe |-> probe, height |-> probe_height])

(* The loop of merge up the spine: the subtree at node has grown.          *)
SpineRound(c) ==
    LET t == c.tree
        parent == c.at
        node == t[c.side][parent]
        grand == t.parent[parent]
        r == Rotation(t, parent, node, c.side)
        attached == Attach(r.tree, grand, r.node, c.side)
    IN  IF parent = NULL THEN c
        ELSE IF t.heavy[parent] = c.side
            THEN Going(attached,
                       IF \/ t.heavy[node] = Other(c.side)
                          \/ attached.heavy[r.node] = "none"
                       THEN NULL ELSE grand,
                       c.side)
        ELSE IF t.heavy[parent] = Other(c.side)
            THEN Going([t EXCEPT !.heavy[parent] = "none"], NULL, c.side)
        ELSE Going([t EXCEPT !.heavy[parent] = c.side], grand, c.side)

SpineGrown(t, parent, side) == Loop(SpineRound, Going(t, parent, side)).tree

Heavier(a, b) == IF a > b THEN "left" ELSE IF a < b THEN "right" ELSE "none"

(* Every size on the way up from n, computed anew from n on.               *)
update_size_path(t, n) ==
    LET path == Path(t, n)
        Size[m \in Pointer] ==
            IF m = NULL THEN 0
            ELSE IF m \notin path THEN t.size[m]
            ELSE 1 + Size[t.left[m]] + Size[t.right[m]]
    IN  [t EXCEPT !.size = [m \in Node |-> Size[m]]]

(* t, the taller tree, takes in node and the tree at low on `side'.        *)
MergeTaller(t, node, low, low_height, side) ==
    LET end == Outermost(t, t.root, side)
        at == Climbed(t, end, height(t, end), low_height, side)
        parent == t.parent[at.probe]
        inner == Link(t, node, at.probe, Other(side))
        joined == Link(Link(inner, node, low, side), parent, node, side)
        lean == IF at.height > low_height THEN Other(side)
                ELSE IF at.height < low_height THEN side ELSE "none"
        sized == update_size_path(joined, node)
    IN  SpineGrown([sized EXCEPT !.heavy[node] = lean], parent, side)

(* Mutant: the right tree is not linked.                                   *)
MergeEven_OneSided(t, node, left, right, left_height, right_height) ==
    LET joined == Link(t, node, left, "left")
    IN  Rooted([update_size(joined, node) EXCEPT !.heavy[node] = "left"], node)

MergeEven(t, node, left, right, left_height, right_height) ==
    LET joined == Link(Link(t, node, left, "left"), node, right, "right")
        lean == IF left_height > right_height THEN "left"
                ELSE IF left_height < right_height THEN "right" ELSE "none"
    IN  Rooted([update_size(joined, node) EXCEPT !.heavy[node] = lean], node)

(* t is the greater tree without its least node, left the other one's root. *)
MergeAround(t, left, node) ==
    LET right == t.root
        lh == height(t, left)
        rh == height(t, right)
    IN  IF lh > rh + 1
            THEN MergeTaller([t EXCEPT !.root = left], node, right, rh, "right")
        ELSE IF rh > lh + 1 THEN MergeTaller(t, node, left, lh, "left")
        ELSE MergeEven(t, node, left, right, lh, rh)

(* merge of the trees at a and b, in whichever order.                      *)
AVLMerge(heap, a, b) ==
    LET first_is_less == KeyOf[a] < KeyOf[b]
        greater == [heap EXCEPT !.root = IF first_is_less THEN b ELSE a]
        node == EndOf(greater, "left")
    IN  MergeAround(AVLRemove(greater, node), IF first_is_less THEN a ELSE b, node)

-----------------------------------------------------------------------------
(* The two trees.                                                          *)

VARIABLES
    heap,       \* the members of the nodes
    lo, hi      \* the roots of the two trees

vars == <<heap, lo, hi>>

Lo == [heap EXCEPT !.root = lo]
Hi == [heap EXCEPT !.root = hi]
Members == NodesOf(Lo) \cup NodesOf(Hi)
Contents == {KeyOf[n] : n \in Members}

Init ==
    /\ heap = NoTree
    /\ lo = NULL
    /\ hi = NULL

Heap(t) == [t EXCEPT !.root = NULL]

LoBecomes(t) ==
    /\ heap' = Heap(t)
    /\ lo' = t.root
    /\ UNCHANGED hi

HiBecomes(t) ==
    /\ heap' = Heap(t)
    /\ hi' = t.root
    /\ UNCHANGED lo

(* Into the tree whose range n does not leave, as YFastTrie::insert does.  *)
Insert(n) ==
    \/ /\ hi # NULL => KeyOf[n] < KeyOf[EndOf(Hi, "left")]
       /\ LoBecomes(AVLInsert(Lo, n))
    \/ /\ hi # NULL
       /\ lo # NULL => KeyOf[EndOf(Lo, "right")] < KeyOf[n]
       /\ HiBecomes(AVLInsert(Hi, n))

Remove ==
    \/ \E n \in NodesOf(Lo) : LoBecomes(AVLRemove(Lo, n))
    \/ \E n \in NodesOf(Hi) : HiBecomes(AVLRemove(Hi, n))

Split ==
    /\ lo # NULL /\ hi = NULL
    /\ LET s == AVLSplit(Lo)
       IN  /\ heap' = Heap(s.tree)
           /\ lo' = s.left
           /\ hi' = s.right

(* The arguments may come in either order.                                 *)
Merge ==
    /\ lo # NULL /\ hi # NULL
    /\ \E t \in {AVLMerge(heap, lo, hi), AVLMerge(heap, hi, lo)} :
        /\ heap' = Heap(t)
        /\ lo' = t.root
        /\ hi' = NULL

Next ==
    \/ \E n \in Node \ Members : Insert(n)
    \/ Remove
    \/ Split
    \/ Merge

Spec == Init /\ [][Next]_vars

(* merge goes wrong where the greater tree is a single node, so that       *)
(* nothing is left of it to hang beside a subtree of the other's spine,    *)
(* and the end of that spine has a child.                                  *)
StrandsMerge ==
    /\ lo # NULL
    /\ SizeAt(heap, hi) = 1
    /\ heap.left[EndOf(Lo, "right")] # NULL

GuardedNext ==
    \/ \E n \in Node \ Members : Insert(n)
    \/ Remove
    \/ Split
    \/ ~StrandsMerge /\ Merge

GuardedSpec == Init /\ [][GuardedNext]_vars

-----------------------------------------------------------------------------
(* Properties.                                                             *)

(* The members hold nodes, or nullptr, flags and counts.                   *)
TypeOK ==
    /\ lo \in Pointer /\ hi \in Pointer
    /\ Typed(heap)

(* Rotations, split and merge keep every key on its side of every node.    *)
TreesSorted == Sorted(Lo) /\ Sorted(Hi)

(* A rotation or a join moves up to six links; none is left pointing at    *)
(* where a node was.                                                       *)
TreesLinked == Linked(Lo) /\ Linked(Hi)

(* Every node knows the size of its subtree, after rotations that only     *)
(* recompute two or three nodes of the path: YFastTrie splits by it.       *)
TreesSized == Sized(Lo) /\ Sized(Hi)

(* The flags tell the exact difference of the two heights, which is at     *)
(* most one: the loops stop at the right node, and height() may follow     *)
(* the flags down one path.                                                *)
Levels(t, n) ==
    LET Deep[m \in Pointer] ==
            IF m = NULL THEN 0
            ELSE LET l == Deep[t.left[m]]
                     r == Deep[t.right[m]]
                 IN  1 + IF l > r THEN l ELSE r
    IN  Deep[n]

FlagsExact(t) ==
    \A n \in NodesOf(t) :
        LET l == Levels(t, t.left[n])
            r == Levels(t, t.right[n])
        IN  /\ l - r \in {-1, 0, 1}
            /\ t.heavy[n] = Heavier(l, r)

TreesBalanced == FlagsExact(Lo) /\ FlagsExact(Hi)

(* YFastTrie names a tree by the key at its root: AvlRoots bounds it.      *)
RootsInRange ==
    \A t \in {Lo, Hi} : t.root # NULL => KeyOf[t.root] \in AvlRoots(KeysOf(t))

(* The two trees are one sorted set, that split and merge do not change.   *)
Abstract == INSTANCE SortedSet WITH keys <- Contents
ImplementsSortedSet == Abstract!Spec

(* src/include/yfast/impl/avl.h:250-254: merge two trees; undefined        *)
(* behavior unless the maximal key in either tree is less than the minimal *)
(* key in the other; returns the merged tree.  That tree would be an AVL   *)
(* tree of all the keys of both.                                           *)
MergeIsWhole ==
    [][Merge => Contents' = Contents /\ FlagsExact(Lo)']_vars
=============================================================================
