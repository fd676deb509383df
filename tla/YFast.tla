------------------------------- MODULE YFast ---------------------------------
(***************************************************************************)
(* impl::YFastTrie (src/include/yfast/impl/yfast.h): the keys of the       *)
(* container, cut into AVL trees of bounded size, each hanging from one    *)
(* leaf (`xleaf') of an x-fast trie.                                       *)
(*                                                                         *)
(* The two structures below it are taken at their contracts: the x-fast    *)
(* trie is the ordered set of its leaf keys, and a tree is its set of      *)
(* keys, with any key AvlRoots allows at its root.  Modules XFast and AVL  *)
(* check when the code keeps these contracts.                              *)
(***************************************************************************)
EXTENDS OrderedKeys, TreeShape

CONSTANTS
    Key,                    \* the keys, naturals
    TREE_SPLIT_THRESHOLD,   \* 2 * H in the code
    TREE_MERGE_THRESHOLD,   \* H / 4 in the code
    RebuildWrap             \* 2^32 in the code: _rebuilds is an unsigned int

ASSUME KeyAssumption == Key \subseteq Nat /\ IsFiniteSet(Key)

(* H >= 8 (the static_assert of yfast.h) makes these at least 16 and 2.    *)
ASSUME ThresholdAssumption ==
    /\ TREE_SPLIT_THRESHOLD \in Nat /\ TREE_SPLIT_THRESHOLD >= 5
    /\ TREE_MERGE_THRESHOLD \in Nat /\ TREE_MERGE_THRESHOLD >= 2

ASSUME WrapAssumption == RebuildWrap \in Nat /\ RebuildWrap >= 2

VARIABLES
    value,      \* [key of an xleaf -> keys of its tree]
    size,       \* _size
    rebuilds    \* _rebuilds

vars == <<value, size, rebuilds>>

-----------------------------------------------------------------------------
(* The x-fast trie, at its contract.                                       *)

XLeaves == DOMAIN value
Contents == UNION {value[x] : x \in XLeaves}

XPred(k, strict) == PredIn(XLeaves, k, strict)
XSucc(k, strict) == SuccIn(XLeaves, k, strict)
Prv(x) == PredIn(XLeaves, x, TRUE)
Nxt(x) == SuccIn(XLeaves, x, TRUE)

(* _trie.remove of the leaves in `gone', then _trie.insert of `new'.       *)
Rehang(gone, new) ==
    value' = [x \in (XLeaves \ gone) \cup DOMAIN new |->
                 IF x \in DOMAIN new THEN new[x] ELSE value[x]]

-----------------------------------------------------------------------------
(* Queries.                                                                *)

Where(xleaf, leaf) == [xleaf |-> xleaf, leaf |-> leaf]
Nowhere == Where(NULL, NULL)

Leftmost ==
    LET x == LeastOf(XLeaves)
    IN  IF x = NULL THEN Nowhere ELSE Where(x, LeastOf(value[x]))

Rightmost ==
    LET x == GreatestOf(XLeaves)
    IN  IF x = NULL THEN Nowhere ELSE Where(x, GreatestOf(value[x]))

(* Mutant: nothing but the successor of an xleaf is looked at.             *)
SuccOfPred_NoFirst(k) ==
    LET pred == XPred(k, FALSE)
    IN  IF pred # NULL THEN Nxt(pred) ELSE NULL

(* The xleaf after the predecessor of k, or the first one.                 *)
SuccOfPred(k) ==
    LET pred == XPred(k, FALSE)
    IN  IF pred # NULL THEN Nxt(pred) ELSE LeastOf(XLeaves)

Find(k) ==
    LET pred == XPred(k, FALSE)
        succ == SuccOfPred(k)
    IN  IF pred # NULL /\ k \in value[pred] THEN Where(pred, k)
        ELSE IF succ # NULL /\ k \in value[succ] THEN Where(succ, k)
        ELSE Nowhere

(* Mutant: the minimum of the next tree is taken to be an answer.          *)
Pred_NoLeafCheck(k, strict) ==
    LET pred == XPred(k, strict)
        succ == IF pred # NULL THEN Nxt(pred) ELSE LeastOf(XLeaves)
        pred_max == GreatestOf(value[pred])
        leaf == PredIn(value[succ], k, strict)
    IN  IF pred = NULL
            THEN IF succ = NULL THEN Nowhere ELSE Where(succ, leaf)
        ELSE IF pred_max >= k
            THEN Where(pred, PredIn(value[pred], k, strict))
        ELSE IF succ # NULL /\ LeastOf(value[succ]) <= k
            THEN Where(succ, leaf)
        ELSE Where(pred, pred_max)

Pred(k, strict) ==
    LET pred == XPred(k, strict)
        succ == IF pred # NULL THEN Nxt(pred) ELSE LeastOf(XLeaves)
        pred_max == GreatestOf(value[pred])
        leaf == PredIn(value[succ], k, strict)
    IN  IF pred = NULL
            THEN IF succ = NULL THEN Nowhere ELSE Where(succ, leaf)
        ELSE IF pred_max >= k
            THEN Where(pred, PredIn(value[pred], k, strict))
        ELSE IF succ # NULL /\ LeastOf(value[succ]) <= k /\ leaf # NULL
            THEN Where(succ, leaf)
        ELSE Where(pred, pred_max)

Succ(k, strict) ==
    LET succ == XSucc(k, strict)
        pred == IF succ # NULL THEN Prv(succ) ELSE GreatestOf(XLeaves)
        succ_min == LeastOf(value[succ])
        leaf == SuccIn(value[pred], k, strict)
    IN  IF succ = NULL
            THEN IF pred = NULL THEN Nowhere ELSE Where(pred, leaf)
        ELSE IF succ_min <= k
            THEN Where(succ, SuccIn(value[succ], k, strict))
        ELSE IF pred # NULL /\ k <= GreatestOf(value[pred]) /\ leaf # NULL
            THEN Where(pred, leaf)
        ELSE Where(succ, succ_min)

-----------------------------------------------------------------------------
(* Updates.                                                                *)

Init ==
    /\ value = [x \in {} |-> {}]
    /\ size = 0
    /\ rebuilds = 0

(* Mutant: the count is taken to be unbounded.                             *)
CountRebuild_NoWrap == rebuilds' = rebuilds + 1

CountRebuild == rebuilds' = (rebuilds + 1) % RebuildWrap

(* Replace the xleaves in `gone' by one for the tree t, keyed by its root. *)
HangTree(gone, t) ==
    \E r \in AvlRoots(t) : Rehang(gone, [x \in {r} |-> t])

(* split() t at its root, which goes left, and hang both halves.           *)
HangHalves(gone, t) ==
    \E m \in AvlRoots(t) :
        LET left == {x \in t : x <= m}
            right == {x \in t : m < x}
        IN  \E l \in AvlRoots(left), r \in AvlRoots(right) :
                Rehang(gone, [x \in {l, r} |-> IF x = l THEN left ELSE right])

(* Mutant: the minimum of the next tree is not compared.                   *)
InsertionLeaf_NoCompare(k) ==
    LET pred == XPred(k, FALSE)
    IN  IF pred # NULL THEN pred ELSE SuccOfPred(k)

(* The xleaf whose tree an insert of k goes to; NULL in an empty trie.     *)
InsertionLeaf(k) ==
    LET pred == XPred(k, FALSE)
        succ == SuccOfPred(k)
    IN  IF pred # NULL /\ succ # NULL
            THEN IF k < LeastOf(value[succ]) THEN pred ELSE succ
        ELSE IF pred # NULL THEN pred ELSE succ

(* Mutant: ++_size is left out of the case of the empty trie.              *)
InsertFirst_NotCounted(k, x) ==
    /\ x = NULL
    /\ Rehang({}, [y \in {k} |-> {k}])
    /\ UNCHANGED <<size, rebuilds>>

InsertFirst(k, x) ==
    /\ x = NULL
    /\ Rehang({}, [y \in {k} |-> {k}])
    /\ size' = size + 1
    /\ UNCHANGED rebuilds

(* Mutant: a replacement counts as an insertion.                           *)
InsertReplace_Counted(k, x) ==
    /\ x # NULL
    /\ k \in value[x]
    /\ size' = size + 1
    /\ UNCHANGED <<value, rebuilds>>

(* The new leaf takes the place of the one with the equal key.             *)
InsertReplace(k, x) ==
    /\ x # NULL
    /\ k \in value[x]
    /\ UNCHANGED vars

(* Mutant: the threshold is checked before the tree has grown.             *)
InsertGrow_LateSplit(k, x) ==
    /\ x # NULL
    /\ k \notin value[x]
    /\ Cardinality(value[x]) <= TREE_SPLIT_THRESHOLD
    /\ value' = [value EXCEPT ![x] = @ \cup {k}]
    /\ size' = size + 1
    /\ UNCHANGED rebuilds

InsertGrow(k, x) ==
    /\ x # NULL
    /\ k \notin value[x]
    /\ Cardinality(value[x] \cup {k}) <= TREE_SPLIT_THRESHOLD
    /\ value' = [value EXCEPT ![x] = @ \cup {k}]
    /\ size' = size + 1
    /\ UNCHANGED rebuilds

(* Mutant: ++_rebuilds is left out.                                        *)
InsertSplit_NotCounted(k, x) ==
    /\ x # NULL
    /\ k \notin value[x]
    /\ Cardinality(value[x] \cup {k}) > TREE_SPLIT_THRESHOLD
    /\ HangHalves({x}, value[x] \cup {k})
    /\ size' = size + 1
    /\ UNCHANGED rebuilds

InsertSplit(k, x) ==
    /\ x # NULL
    /\ k \notin value[x]
    /\ Cardinality(value[x] \cup {k}) > TREE_SPLIT_THRESHOLD
    /\ HangHalves({x}, value[x] \cup {k})
    /\ size' = size + 1
    /\ CountRebuild

Insert(k) ==
    \E x \in {InsertionLeaf(k)} :
        \/ InsertFirst(k, x) \/ InsertReplace(k, x)
        \/ InsertGrow(k, x) \/ InsertSplit(k, x)

(* Mutant: the first tree is taken to have no neighbour.                   *)
PickNeighbor_PredOnly(x, t) == Prv(x)

(* pick_neighbor(x), where t is what x's tree holds by now.                *)
PickNeighbor(x, t) ==
    LET pred == Prv(x)
        succ == Nxt(x)
        with_pred == Cardinality(value[pred]) + Cardinality(t)
        with_succ == Cardinality(value[succ]) + Cardinality(t)
        pred_fits == with_pred <= TREE_SPLIT_THRESHOLD
        succ_fits == with_succ <= TREE_SPLIT_THRESHOLD
    IN  IF pred = NULL THEN succ
        ELSE IF succ = NULL THEN pred
        ELSE IF pred_fits /\ succ_fits
            THEN IF with_pred < with_succ THEN pred ELSE succ
        ELSE IF pred_fits THEN pred
        ELSE IF succ_fits THEN succ
        ELSE IF with_pred > with_succ THEN pred ELSE succ

(* Mutant: what merge returns is taken to be in the neighbour already.     *)
RemoveMerge_Unmerged(x, t) ==
    LET neighbor == PickNeighbor(x, t)
    IN  /\ Cardinality(t) < TREE_MERGE_THRESHOLD
        /\ neighbor # NULL
        /\ HangTree({x, neighbor}, value[neighbor])
        /\ CountRebuild

(* The steps of remove once k is out of x's tree, which leaves t.          *)
RemoveMerge(x, t) ==
    LET neighbor == PickNeighbor(x, t)
        merged == t \cup value[neighbor]
    IN  /\ Cardinality(t) < TREE_MERGE_THRESHOLD
        /\ neighbor # NULL
        /\ IF Cardinality(merged) > TREE_SPLIT_THRESHOLD
           THEN HangHalves({x, neighbor}, merged)
           ELSE HangTree({x, neighbor}, merged)
        /\ CountRebuild

RemoveLast(x, t) ==
    /\ t = {}
    /\ PickNeighbor(x, t) = NULL
    /\ Rehang({x}, [y \in {} |-> {}])
    /\ CountRebuild

(* Mutant: only the lower end of the tree is looked at.                    *)
OutOfRange_LowerOnly(x, t) == x < LeastOf(t)

(* x's key has fallen outside the range of its tree: a new xleaf.          *)
OutOfRange(x, t) == x < LeastOf(t) \/ GreatestOf(t) < x

RemoveReinsert(x, t) ==
    /\ Cardinality(t) >= TREE_MERGE_THRESHOLD
    /\ OutOfRange(x, t)
    /\ HangTree({x}, t)
    /\ UNCHANGED rebuilds

RemoveKeep(x, t) ==
    /\ IF Cardinality(t) < TREE_MERGE_THRESHOLD
       THEN PickNeighbor(x, t) = NULL /\ t # {}
       ELSE ~OutOfRange(x, t)
    /\ value' = [value EXCEPT ![x] = t]
    /\ UNCHANGED rebuilds

(* The xleaf remove works on: the caller's hint if it is right.            *)
RemovalLeaf(k, hint) ==
    IF hint = NULL \/ k \notin value[hint] THEN Find(k).xleaf ELSE hint

(* remove(leaf, hint): leaf must be in the trie, and hint an existing      *)
(* xleaf or nullptr.                                                       *)
RemoveFrom(k, hint) ==
    /\ k \in Contents
    /\ \E x \in {RemovalLeaf(k, hint)} : \E t \in {value[x] \ {k}} :
        \/ RemoveMerge(x, t)
        \/ RemoveLast(x, t)
        \/ RemoveReinsert(x, t)
        \/ RemoveKeep(x, t)
    /\ size' = size - 1

Remove(k) == \E hint \in XLeaves \cup {NULL} : RemoveFrom(k, hint)

Clear ==
    /\ value' = [x \in {} |-> {}]
    /\ size' = 0
    /\ rebuilds' = 0

Next ==
    \/ \E k \in Key : Insert(k) \/ Remove(k)
    \/ Clear

Spec == Init /\ [][Next]_vars

-----------------------------------------------------------------------------
(* Properties.                                                             *)

(* Every tree is a set of keys hanging from a key; the counters are in     *)
(* the ranges of their types.                                              *)
TypeOK ==
    /\ XLeaves \subseteq Key
    /\ \A x \in XLeaves : value[x] \subseteq Key
    /\ size \in Nat
    /\ rebuilds \in 0 .. RebuildWrap - 1

(* The trees lie in the order of the xleaves they hang from: insert places *)
(* a key by its two neighbouring xleaves alone, and a merge or a split     *)
(* never lets two trees overlap.                                           *)
TreesOrdered ==
    \A r, s \in XLeaves : r < s => \A x \in value[r], y \in value[s] : x < y

(* Beside another tree, an xleaf's key lies within the range of its own    *)
(* tree, though the key itself may have been removed from it: otherwise    *)
(* find, which only looks at two trees, would look at the wrong ones.      *)
Several == \E r, s \in XLeaves : r # s

SeparatorsInRange ==
    Several =>
        \A r \in XLeaves :
            /\ \E x \in value[r] : x <= r
            /\ \E y \in value[r] : r <= y

(* No xleaf is left without keys.  A tree beside another one keeps at      *)
(* least two keys, so that what remove hands to AVL::merge is never empty, *)
(* and from H = 12 on at least three, so that neither operand of the merge *)
(* is a single node, for which merge goes wrong (see AVL).                 *)
SmallestTree ==
    IF TREE_MERGE_THRESHOLD >= 3 /\ TREE_SPLIT_THRESHOLD >= 10 THEN 3 ELSE 2

TreeSizes ==
    \A x \in XLeaves :
        /\ value[x] # {}
        /\ Several => Cardinality(value[x]) >= SmallestTree

(* No tree outgrows the split threshold, in which find is O(log H): not    *)
(* the one that a merge made, nor either part it was split into again.     *)
TreesBounded ==
    \A x \in XLeaves : Cardinality(value[x]) <= TREE_SPLIT_THRESHOLD

(* size() counts the keys: an insert that replaced a leaf and a remove     *)
(* that rebuilt a tree have kept _size right.                              *)
SizeExact == size = Cardinality(Contents)

(* find answers with the tree that holds the key, and with nowhere just    *)
(* when no tree does.                                                      *)
FindExact ==
    \A k \in Key :
        IF k \in Contents
        THEN /\ Find(k).leaf = k
             /\ Find(k).xleaf \in XLeaves
             /\ k \in value[Find(k).xleaf]
        ELSE Find(k) = Nowhere

(* pred and succ answer with the neighbour of the key in the whole         *)
(* container, leftmost and rightmost with its ends, whichever tree they    *)
(* are in, and name that tree.                                             *)
AnswersWith(where, k) ==
    /\ where.leaf = k
    /\ k # NULL => where.xleaf \in XLeaves /\ k \in value[where.xleaf]

NeighboursExact ==
    /\ \A k \in Key, strict \in BOOLEAN :
        /\ AnswersWith(Pred(k, strict), PredIn(Contents, k, strict))
        /\ AnswersWith(Succ(k, strict), SuccIn(Contents, k, strict))
    /\ AnswersWith(Leftmost, LeastOf(Contents))
    /\ AnswersWith(Rightmost, GreatestOf(Contents))

(* Whenever two keys that stay come into one tree or are parted, the       *)
(* rebuild count changes: it is what an iterator looks at before it steps  *)
(* to the neighbouring node of its tree.                                   *)
Together(x, y) == \E r \in XLeaves : {x, y} \subseteq value[r]

RegroupingCounted ==
    [][\A x, y \in Contents \cap Contents' :
            Together(x, y) # Together(x, y)' => rebuilds' # rebuilds]_vars

(* The container is the sorted set of its keys.                            *)
Abstract == INSTANCE SortedSet WITH keys <- Contents
ImplementsSortedSet == Abstract!Spec
=============================================================================
