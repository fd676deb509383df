------------------------------- MODULE XFast ---------------------------------
(***************************************************************************)
(* impl::XFastTrie (src/include/yfast/impl/xfast.h): a doubly linked list  *)
(* of leaves in the order of their H-bit keys, under one hash table per    *)
(* level h.  _hash[h] holds a node for every prefix (key >> h) of a leaf   *)
(* in the trie, _hash[0] the leaves themselves, and _root stands for the   *)
(* empty prefix.  A node knows which of its two children are present; one  *)
(* with a single child also points to the leaf next to the gap: the        *)
(* greatest leaf below it if the right child is absent, the least one if   *)
(* the left child is.  A node with two children keeps whatever pointer it  *)
(* had; that leaf may be long gone.                                        *)
(*                                                                         *)
(* A leaf is an object with a key and two links.  YFastTrie makes a leaf   *)
(* anew for each insert and destroys it after remove, so the links of a    *)
(* leaf outside the trie are those of a fresh one, NULL.                   *)
(***************************************************************************)
EXTENDS OrderedKeys

CONSTANTS
    H,                  \* the key length in bits
    AnyKey,             \* the keys of H bits
    shift(_, _),        \* BitExtractor::shift: a key without its lower bits
    extract_bit(_, _),  \* BitExtractor::extract_bit
    Leaf,               \* the leaf objects, naturals
    KeyOf               \* Leaf::key

ASSUME LengthAssumption == H \in Nat /\ H >= 2
ASSUME LeafAssumption ==
    /\ AnyKey \subseteq Nat
    /\ Leaf \subseteq Nat /\ IsFiniteSet(Leaf)
    /\ KeyOf \in [Leaf -> AnyKey]

(* Two keys have the same nodes down to level h; all keys have the root.   *)
SamePath(k, l, h) == h = H \/ shift(k, h) = shift(l, h)

(* What the trie asks of its BitExtractor: the bits tell of one trie, and  *)
(* of the order in which Compare has the keys.  See BitKeys.               *)
ASSUME BitsAssumption ==
    \A k, l \in AnyKey :
        /\ shift(k, 0) = shift(l, 0) => k = l
        /\ \A n \in 0 .. H - 1 :
            /\ extract_bit(k, n) \in BOOLEAN
            /\ shift(k, n) = shift(l, n) <=>
                   /\ SamePath(k, l, n + 1)
                   /\ extract_bit(k, n) = extract_bit(l, n)
            /\ SamePath(k, l, n + 1) /\ ~extract_bit(k, n) /\ extract_bit(l, n)
                   => k < l

VARIABLES
    root,       \* _root
    hash,       \* _hash
    prv, nxt,   \* Leaf::prv and Leaf::nxt
    leftmost,   \* _leftmost
    rightmost   \* _rightmost

vars == <<root, hash, prv, nxt, leftmost, rightmost>>

Key == {KeyOf[x] : x \in Leaf}
Pointer == Leaf \cup {NULL}

(* The leaves and the keys in the trie.                                    *)
Leaves == {hash[0][p] : p \in DOMAIN hash[0]}
Contents == {KeyOf[x] : x \in Leaves}

-----------------------------------------------------------------------------
(* Nodes.                                                                  *)

Node(leaf, left, right) == [leaf |-> leaf, left |-> left, right |-> right]

WithChild(node, right) ==
    IF right THEN [node EXCEPT !.right = TRUE] ELSE [node EXCEPT !.left = TRUE]

WithoutChild(node, right) ==
    IF right THEN [node EXCEPT !.right = FALSE] ELSE [node EXCEPT !.left = FALSE]

HasChild(node, right) == IF right THEN node.right ELSE node.left

-----------------------------------------------------------------------------
(* Queries.                                                                *)

Contains(k, h) == shift(k, h) \in DOMAIN hash[h]

(* Mutant: the search stops with two levels left.                          *)
SearchLevel_StopsEarly(k) ==
    LET Search[b \in (0 .. H) \X (0 .. H)] ==
            LET l == b[1]
                r == b[2]
                m == (r + l) \div 2
            IN  IF r - l > 2
                    THEN IF Contains(k, m) THEN Search[<<l, m>>]
                                           ELSE Search[<<m, r>>]
                ELSE IF Contains(k, l) THEN l ELSE r
    IN  Search[<<0, H>>]

(* The level of the longest prefix of k in the trie, by binary search.     *)
SearchLevel(k) ==
    LET Search[b \in (0 .. H) \X (0 .. H)] ==
            LET l == b[1]
                r == b[2]
                m == (r + l) \div 2
            IN  IF r - l > 1
                    THEN IF Contains(k, m) THEN Search[<<l, m>>]
                                           ELSE Search[<<m, r>>]
                ELSE IF Contains(k, l) THEN l ELSE r
    IN  Search[<<0, H>>]

Report(leaf, missed, level) ==
    [leaf |-> leaf, missed |-> missed, level |-> level]

approx(k) ==
    LET m == SearchLevel(k)
        node == IF m < H THEN hash[m][shift(k, m)] ELSE root
    IN  IF ~root.left /\ ~root.right THEN Report(NULL, "EMPTY", H)
        ELSE IF m = 0 THEN Report(hash[0][shift(k, 0)], "ON_TARGET", 0)
        ELSE IF node.left THEN Report(node.leaf, "MISSED_LEFT", m)
        ELSE Report(node.leaf, "MISSED_RIGHT", m)

find(k) == IF Contains(k, 0) THEN hash[0][shift(k, 0)] ELSE NULL

pred(k, strict) ==
    LET a == approx(k)
    IN  CASE a.missed = "EMPTY" -> NULL
          [] a.missed = "MISSED_LEFT" -> a.leaf
          [] a.missed = "ON_TARGET" -> IF strict THEN prv[a.leaf] ELSE a.leaf
          [] a.missed = "MISSED_RIGHT" -> prv[a.leaf]

(* Mutant: `strict' is not looked at.                                      *)
succ_NeverStrict(k, strict) ==
    LET a == approx(k)
    IN  CASE a.missed = "EMPTY" -> NULL
          [] a.missed = "MISSED_LEFT" -> nxt[a.leaf]
          [] a.missed = "ON_TARGET" -> a.leaf
          [] a.missed = "MISSED_RIGHT" -> a.leaf

succ(k, strict) ==
    LET a == approx(k)
    IN  CASE a.missed = "EMPTY" -> NULL
          [] a.missed = "MISSED_LEFT" -> nxt[a.leaf]
          [] a.missed = "ON_TARGET" -> IF strict THEN nxt[a.leaf] ELSE a.leaf
          [] a.missed = "MISSED_RIGHT" -> a.leaf

-----------------------------------------------------------------------------
(* Updates.                                                                *)

NoNodes == [p \in {} |-> NULL]

(* Mutant: one table too many.                                             *)
Init_ExtraTable ==
    /\ root = Node(NULL, FALSE, FALSE)
    /\ hash = [h \in 0 .. H |-> NoNodes]
    /\ prv = [x \in Leaf |-> NULL]
    /\ nxt = [x \in Leaf |-> NULL]
    /\ leftmost = NULL
    /\ rightmost = NULL

Init ==
    /\ root = Node(NULL, FALSE, FALSE)
    /\ hash = [h \in 0 .. H - 1 |-> NoNodes]
    /\ prv = [x \in Leaf |-> NULL]
    /\ nxt = [x \in Leaf |-> NULL]
    /\ leftmost = NULL
    /\ rightmost = NULL

(* x becomes the descendant of a one-child node if it is nearer the gap.   *)
Widened(node, x) ==
    IF \/ ~node.left /\ KeyOf[x] < KeyOf[node.leaf]
       \/ ~node.right /\ KeyOf[node.leaf] < KeyOf[x]
    THEN [node EXCEPT !.leaf = x]
    ELSE node

(* The node on x's path at level h, once x is below it.                    *)
InsertedNode(x, h, level) ==
    LET p == shift(KeyOf[x], h)
        bit == extract_bit(KeyOf[x], h - 1)
        old == IF h >= level THEN Widened(hash[h][p], x) ELSE hash[h][p]
    IN  IF h > level THEN old
        ELSE IF p \in DOMAIN hash[h] THEN Widened(WithChild(old, bit), x)
        ELSE Node(x, ~bit, bit)

(* Mutant: the shift is one bit too far.                                   *)
Stored_ShiftedOn(h, p, entry) ==
    [q \in DOMAIN hash[h] \cup {p \div 2} |->
        IF q = p \div 2 THEN entry ELSE hash[h][q]]

(* _hash[h][p] = entry                                                     *)
Stored(h, p, entry) ==
    [q \in DOMAIN hash[h] \cup {p} |-> IF q = p THEN entry ELSE hash[h][q]]

InsertedRoot(x, a) ==
    LET k == KeyOf[x]
        start == IF a.missed = "EMPTY" THEN Node(x, FALSE, FALSE) ELSE root
        grown == IF a.level = H THEN WithChild(start, extract_bit(k, H - 1))
                 ELSE start
    IN  IF ~HasChild(grown, extract_bit(k, a.level - 1))
        THEN [grown EXCEPT !.leaf = x]
        ELSE grown

(* Mutant: the leaf before x keeps its link.                               *)
LinkIn_OneWay(x, before, after) ==
    /\ prv' = [y \in Leaf |->
                  IF y = x THEN before ELSE IF y = after THEN x ELSE prv[y]]
    /\ nxt' = [nxt EXCEPT ![x] = after]

LinkIn(x, before, after) ==
    /\ prv' = [y \in Leaf |->
                  IF y = x THEN before ELSE IF y = after THEN x ELSE prv[y]]
    /\ nxt' = [y \in Leaf |->
                  IF y = x THEN after ELSE IF y = before THEN x ELSE nxt[y]]

(* insert(x) where the trie has no leaf with x's key.                      *)
InsertNew(x) ==
    LET k == KeyOf[x]
        a == approx(k)
        before == CASE a.missed = "EMPTY" -> NULL
                    [] a.missed = "MISSED_LEFT" -> a.leaf
                    [] a.missed = "MISSED_RIGHT" -> prv[a.leaf]
        after == CASE a.missed = "EMPTY" -> NULL
                   [] a.missed = "MISSED_LEFT" -> nxt[a.leaf]
                   [] a.missed = "MISSED_RIGHT" -> a.leaf
    IN  /\ a.missed # "ON_TARGET"
        /\ LinkIn(x, before, after)
        /\ root' = InsertedRoot(x, a)
        /\ hash' = [h \in 0 .. H - 1 |->
                       Stored(h, shift(k, h),
                              IF h = 0 THEN x ELSE InsertedNode(x, h, a.level))]
        /\ leftmost' = IF leftmost = NULL \/ k < KeyOf[leftmost]
                       THEN x ELSE leftmost
        /\ rightmost' = IF rightmost = NULL \/ KeyOf[rightmost] < k
                        THEN x ELSE rightmost

(* insert(x) where the trie has one: it is replaced in _hash[0] alone.     *)
InsertOnTarget(x) ==
    /\ approx(KeyOf[x]).missed = "ON_TARGET"
    /\ hash' = [hash EXCEPT ![0][shift(KeyOf[x], 0)] = x]
    /\ UNCHANGED <<root, prv, nxt, leftmost, rightmost>>

Insert(x) ==
    /\ x \notin Leaves
    /\ InsertNew(x) \/ InsertOnTarget(x)

(* Mutant: the leaf beside x is not looked at.                             *)
SubtreeRemoved_NoSibling(x, h) ==
    \A g \in 2 .. h - 1 :
        ~HasChild(hash[g][shift(KeyOf[x], g)], ~extract_bit(KeyOf[x], g - 1))

(* The removal of x empties the subtree of its path below level h.         *)
SubtreeRemoved(x, h) ==
    \A g \in 1 .. h - 1 :
        ~HasChild(hash[g][shift(KeyOf[x], g)], ~extract_bit(KeyOf[x], g - 1))

(* Mutant: a node that points to x is left alone.                          *)
Repointed_Never(node, x) == node

(* A one-child node that points to x moves on to the leaf beyond it.       *)
Repointed(node, x) ==
    IF node.leaf # x \/ (node.left /\ node.right) THEN node
    ELSE [node EXCEPT !.leaf = IF node.right THEN nxt[x] ELSE prv[x]]

(* The node at level h loses the child that held nothing but x; what is    *)
(* left of it, if anything, lies on the other side.                        *)
Pruned(node, x, h) ==
    LET bit == extract_bit(KeyOf[x], h - 1)
        other == HasChild(node, ~bit)
    IN  [WithoutChild(node, bit) EXCEPT
            !.leaf = IF ~other THEN NULL ELSE IF bit THEN prv[x] ELSE nxt[x]]

RemovedNode(node, x, h) ==
    IF SubtreeRemoved(x, h) THEN Pruned(node, x, h) ELSE Repointed(node, x)

Remove(x) ==
    LET k == KeyOf[x]
    IN  /\ x \in Leaves
        /\ prv' = [y \in Leaf |->
                      IF y = x THEN NULL ELSE IF y = nxt[x] THEN prv[x] ELSE prv[y]]
        /\ nxt' = [y \in Leaf |->
                      IF y = x THEN NULL ELSE IF y = prv[x] THEN nxt[x] ELSE nxt[y]]
        /\ root' = RemovedNode(root, x, H)
        /\ hash' = [h \in 0 .. H - 1 |->
                       LET gone == IF SubtreeRemoved(x, h + 1)
                                   THEN {shift(k, h)} ELSE {}
                       IN  [p \in DOMAIN hash[h] \ gone |->
                               IF p = shift(k, h)
                               THEN RemovedNode(hash[h][p], x, h)
                               ELSE hash[h][p]]]
        /\ leftmost' = IF leftmost = x THEN nxt[x] ELSE leftmost
        /\ rightmost' = IF rightmost = x THEN prv[x] ELSE rightmost

Clear ==
    /\ root' = Node(NULL, FALSE, FALSE)
    /\ hash' = [h \in 0 .. H - 1 |-> NoNodes]
    /\ prv' = [x \in Leaf |-> NULL]
    /\ nxt' = [x \in Leaf |-> NULL]
    /\ leftmost' = NULL
    /\ rightmost' = NULL

Next ==
    \/ \E x \in Leaf : Insert(x) \/ Remove(x)
    \/ Clear

Spec == Init /\ [][Next]_vars

(* The code keeps its promises for as long as two kinds of insert are left *)
(* out: one with the key of a leaf in the trie (YFastTrie never does it),  *)
(* and, while all keys have the same first bit, one that xfast.h:183       *)
(* mistakes for the leaf nearest the gap since it branches off towards the *)
(* gap, at a level of its own.                                             *)
MisdirectsRoot(x) ==
    LET k == KeyOf[x]
        a == approx(k)
    IN  /\ a.level < H
        /\ ~HasChild(root, extract_bit(k, a.level - 1))
        /\ Widened(root, x) = root

GuardedInsert(x) ==
    /\ x \notin Leaves
    /\ InsertNew(x)
    /\ ~MisdirectsRoot(x)

GuardedNext ==
    \/ \E x \in Leaf : GuardedInsert(x) \/ Remove(x)
    \/ Clear

GuardedSpec == Init /\ [][GuardedNext]_vars

-----------------------------------------------------------------------------
(* Properties.                                                             *)

Nodes == [leaf : Pointer, left : BOOLEAN, right : BOOLEAN]

(* _hash[0] maps prefixes to leaves, the tables above it to nodes.         *)
TypeOK ==
    /\ root \in Nodes
    /\ DOMAIN hash = 0 .. H - 1
    /\ \A p \in DOMAIN hash[0] : hash[0][p] \in Leaf
    /\ \A h \in 1 .. H - 1 : \A p \in DOMAIN hash[h] : hash[h][p] \in Nodes
    /\ prv \in [Leaf -> Pointer] /\ nxt \in [Leaf -> Pointer]
    /\ leftmost \in Pointer /\ rightmost \in Pointer

LeafOf(k) == IF k = NULL THEN NULL ELSE hash[0][shift(k, 0)]

(* The list runs through exactly the leaves of the trie in key order,      *)
(* both ways and from end to end.                                          *)
LinksSorted ==
    /\ leftmost = LeafOf(LeastOf(Contents))
    /\ rightmost = LeafOf(GreatestOf(Contents))
    /\ \A x \in Leaves :
        /\ prv[x] = LeafOf(PredIn(Contents, KeyOf[x], TRUE))
        /\ nxt[x] = LeafOf(SuccIn(Contents, KeyOf[x], TRUE))

(* The keys below a node.                                                  *)
Group(p, h) == {k \in Contents : shift(k, h) = p}

(* The tables hold exactly the prefixes of the leaves, and a node knows    *)
(* just those children that have one: the binary search needs it on every  *)
(* level at once.                                                          *)
ChildrenExact(node, below, h) ==
    \A right \in BOOLEAN :
        HasChild(node, right) <=> \E k \in below : extract_bit(k, h - 1) = right

PrefixesExact ==
    /\ ChildrenExact(root, Contents, H)
    /\ \A p \in DOMAIN hash[0] : shift(KeyOf[hash[0][p]], 0) = p
    /\ \A h \in 1 .. H - 1 :
        /\ DOMAIN hash[h] = {shift(k, h) : k \in Contents}
        /\ \A p \in DOMAIN hash[h] : ChildrenExact(hash[h][p], Group(p, h), h)

(* The descendant of a one-child node is the leaf in the trie next to the  *)
(* gap: never one that has been removed, whatever the node pointed to      *)
(* while it had two children.                                              *)
NextToGap(node, below) ==
    node.left # node.right =>
        node.leaf = LeafOf(IF node.left THEN GreatestOf(below) ELSE LeastOf(below))

DescendantsExact ==
    /\ NextToGap(root, Contents)
    /\ \A h \in 1 .. H - 1 :
        \A p \in DOMAIN hash[h] : NextToGap(hash[h][p], Group(p, h))

(* The binary search ends on the longest prefix of the key in the trie,    *)
(* though it never looks at the levels in between.                         *)
SearchExact ==
    Leaves # {} =>
        \A k \in AnyKey :
            SearchLevel(k) = LeastOf({h \in 0 .. H - 1 : Contains(k, h)} \cup {H})

(* src/include/yfast/impl/xfast.h:92-97: pred returns the leaf with the    *)
(* maximal key either not greater or strictly less than the key.           *)
PredExact ==
    \A k \in AnyKey, strict \in BOOLEAN :
        pred(k, strict) = LeafOf(PredIn(Contents, k, strict))

(* pred, succ and find answer every key, in the trie or not, with the leaf *)
(* of the sorted set: the three ways into the list, from the leaf itself   *)
(* and from either side of a gap, lead to the same place.                  *)
QueriesExact ==
    /\ PredExact
    /\ \A k \in AnyKey :
        /\ find(k) = LeafOf(IF k \in Contents THEN k ELSE NULL)
        /\ \A strict \in BOOLEAN :
            succ(k, strict) = LeafOf(SuccIn(Contents, k, strict))

(* src/include/yfast/impl/xfast.h:133: insert a new leaf, replacing leaf   *)
(* with the equal key.  The old leaf, the caller's again, would then be    *)
(* out of reach of every query.                                            *)
ReplacedLeafGone ==
    /\ {leftmost, rightmost} \subseteq Leaves \cup {NULL}
    /\ \A x \in Leaves : {prv[x], nxt[x]} \subseteq Leaves \cup {NULL}

(* The trie is the sorted set of its leaves' keys.                         *)
Abstract == INSTANCE SortedSet WITH keys <- Contents
ImplementsSortedSet == Abstract!Spec
=============================================================================
