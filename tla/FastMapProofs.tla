---------------------------- MODULE FastMapProofs ----------------------------
(***************************************************************************)
(* Theorems about FastMap, for every set of keys and of iterators: what an *)
(* iterator has cached is right whenever it is going to use it, every step *)
(* is then defined and leads to the neighbouring entry of the container,   *)
(* and the iterators are the cursors of module Cursors.                    *)
(***************************************************************************)
EXTENDS FastMap, YFastProofs

-----------------------------------------------------------------------------
(* The invariant of one iterator `it', in a container with the trees v and *)
(* the rebuild count n.                                                    *)

Held(k, v) == \E x \in DOMAIN v : k \in v[x]

Cached(it, v) == it.xleaf \in DOMAIN v /\ it.leaf \in v[it.xleaf]

Good(it, v, n) ==
    /\ it \in Iterators
    /\ ~IsSet(it) => it.reverse = FALSE
    /\ OnEntry(it) => /\ Held(it.leaf, v)
                      /\ it.last <= n
                      /\ ~(n > it.last) => Cached(it, v)

AllGood(its, v, n) ==
    its \in [Iterator -> Iterators] /\ \A i \in Iterator : Good(its[i], v, n)

MapInvariant ==
    /\ Trees
    /\ rebuilds \in 0 .. RebuildWrap - 1
    /\ size = Cardinality(Contents) /\ size \in Nat
    /\ AllGood(iters, value, rebuilds)

LEMMA HeldFact == \A k : Held(k, value) <=> k \in Contents
BY DEF Held, Contents, XLeaves

LEMMA MapInvariantParts ==
    MapInvariant => Invariant /\ IteratorsTyped /\ CacheExact
<1>1. ASSUME MapInvariant PROVE CacheExact
    <2> SUFFICES ASSUME NEW i \in Iterator, NEW it, it = iters[i], OnEntry(it)
                 PROVE  /\ it.leaf \in Contents
                        /\ it.last <= rebuilds
                        /\ ~Outdated(it) => /\ it.xleaf \in XLeaves
                                            /\ it.leaf \in value[it.xleaf]
        BY DEF CacheExact
    <2>1. Good(it, value, rebuilds)
        BY <1>1 DEF MapInvariant, AllGood
    <2> QED BY <2>1, HeldFact DEF Good, Cached, Outdated, XLeaves
<1> QED BY <1>1, InvariantParts DEF MapInvariant, AllGood, IteratorsTyped

LEMMA Sentinels == NULL \notin Key /\ GONE \notin Key /\ NULL # GONE
BY KeyAssumption DEF NULL, GONE

LEMMA Numbers ==
    ASSUME Trees
    PROVE  /\ Contents \in SUBSET Key /\ Contents \in SUBSET Nat
           /\ IsFiniteSet(Contents)
           /\ XLeaves \in SUBSET Nat /\ XLeaves \in SUBSET Key /\ IsFiniteSet(XLeaves)
           /\ \A x \in XLeaves : /\ x \in Nat /\ value[x] \in SUBSET Nat
                                 /\ IsFiniteSet(value[x]) /\ value[x] # {}
BY Finite DEF Trees, Shape, Typed, TreeSizes

-----------------------------------------------------------------------------
(* Iterators made from an answer.                                          *)

LEMMA EndGood ==
    ASSUME NEW reverse \in BOOLEAN, NEW v, NEW n
    PROVE  /\ Good(End(reverse), v, n) /\ End(reverse).leaf = NULL
           /\ End(reverse).reverse = reverse
           /\ Good(Unset, v, n) /\ Unset.leaf = GONE /\ Unset.reverse = FALSE
           /\ ~OnEntry(End(reverse)) /\ ~OnEntry(Unset)
<1>1. 0 \in 0 .. RebuildWrap - 1
    BY WrapAssumption
<1>2. Unset \in Iterators
    BY <1>1 DEF Unset, Iterators
<1>3. End(reverse) \in Iterators
    BY <1>2 DEF End, Iterators
<1>4. /\ End(reverse).leaf = NULL /\ End(reverse).reverse = reverse
      /\ Unset.leaf = GONE /\ Unset.reverse = FALSE
    BY <1>2 DEF End, Unset, Iterators
<1>5. ~OnEntry(End(reverse)) /\ ~OnEntry(Unset)
    BY <1>4 DEF OnEntry
<1> QED BY <1>2, <1>3, <1>4, <1>5, Sentinels DEF Good, IsSet

LEMMA IterGood ==
    ASSUME Trees, rebuilds \in 0 .. RebuildWrap - 1,
           NEW where, Placed(where), NEW reverse \in BOOLEAN
    PROVE  /\ Good(Iter(where, reverse), value, rebuilds)
           /\ Iter(where, reverse).leaf = where.leaf
           /\ Iter(where, reverse).reverse = reverse
<1>1. CASE where.leaf = NULL
    BY <1>1, EndGood DEF Iter
<1>2. CASE where.leaf # NULL
    <2>1. where.xleaf \in XLeaves /\ where.leaf \in value[where.xleaf]
        BY <1>2 DEF Placed
    <2>2. where.leaf \in Contents
        BY <2>1 DEF Contents
    <2>3. where.leaf \in Key /\ where.xleaf \in Key
        BY <2>1, <2>2, Numbers
    <2> DEFINE it == [leaf |-> where.leaf, xleaf |-> where.xleaf,
                      last |-> rebuilds, reverse |-> reverse]
    <2>4. Iter(where, reverse) = it
        BY <1>2 DEF Iter
    <2>5. it \in Iterators
        BY <2>3 DEF Iterators
    <2>6. Held(it.leaf, value) /\ it.last <= rebuilds /\ Cached(it, value)
        BY <2>1, <2>2, HeldFact DEF Cached, XLeaves
    <2>7. Good(it, value, rebuilds)
        BY <2>3, <2>5, <2>6, Sentinels DEF Good, IsSet
    <2> QED BY <2>4, <2>7
<1> QED BY <1>1, <1>2

(* Every query names the tree its answer is in.                            *)
LEMMA AnswersPlaced ==
    ASSUME Trees, NEW where \in Answers \cup ReverseAnswers
    PROVE  Placed(where) /\ where.leaf \in Contents \cup {NULL}
<1>1. ASSUME NEW p, AnswersWith(where, p) PROVE Placed(where)
    BY <1>1 DEF AnswersWith, Placed
<1>2. NeighboursExact
    BY QueriesExact
<1>3. Placed(where)
    <2>1. CASE where = Leftmost \/ where = Rightmost
        BY <1>1, <1>2, <2>1 DEF NeighboursExact
    <2>2. CASE where = Nowhere
        BY <2>2 DEF Nowhere, Where, Placed
    <2>3. CASE \E k \in Key : where = Find(k)
        <3>1. PICK k \in Key : where = Find(k)
            BY <2>3
        <3>2. CASE \E s \in XLeaves : k \in value[s]
            BY <3>1, <3>2, FindsTree DEF Trees, Where, Placed
        <3>3. CASE ~\E s \in XLeaves : k \in value[s]
            <4>1. /\ XPred(k, FALSE) # NULL => XPred(k, FALSE) \in XLeaves
                  /\ SuccOfPred(k) # NULL => SuccOfPred(k) \in XLeaves
                BY Around, KeyAssumption DEF IsAround, Trees, Shape
            <4>2. Find(k) = Nowhere
                BY <3>3, <4>1 DEF Find
            <4> QED BY <3>1, <4>2 DEF Nowhere, Where, Placed
        <3> QED BY <3>2, <3>3
    <2>4. CASE \E k \in Key, strict \in BOOLEAN :
                    where = Pred(k, strict) \/ where = Succ(k, strict)
        BY <1>1, <1>2, <2>4 DEF NeighboursExact
    <2> QED BY <2>1, <2>2, <2>3, <2>4 DEF Answers, ReverseAnswers
<1> QED BY <1>3 DEF Placed, Contents

-----------------------------------------------------------------------------
(* Steps.                                                                  *)

(* An entry is in one tree; the other trees lie to either side of it.      *)
AroundTree(k, t) ==
    /\ t \in XLeaves /\ k \in value[t]
    /\ \A s \in XLeaves :
        /\ s = t \/ s < t \/ t < s
        /\ ~(s < t /\ t < s) /\ ~(s = t /\ (s < t \/ t < s))
        /\ s < t => \A y \in value[s] : y < k
        /\ t < s => \A y \in value[s] : k < y
        /\ k \in value[s] => s = t

LEMMA TreeOfEntry ==
    ASSUME Trees, NEW k \in Contents
    PROVE  AroundTree(k, TreeOf(k))
<1> DEFINE t == TreeOf(k)
<1>1. t \in XLeaves /\ k \in value[t]
    BY DEF Contents, TreeOf
<1> SUFFICES AroundTree(k, t)
    OBVIOUS
<1> HIDE DEF t
<1>2. k \in Nat /\ t \in Nat /\ \A s \in XLeaves : s \in Nat
    BY <1>1, Numbers
<1>3. ASSUME NEW s \in XLeaves, s # t
      PROVE  /\ s < t \/ t < s
             /\ s < t => \A y \in value[s] : y < k
             /\ t < s => \A y \in value[s] : k < y
    BY <1>1, <1>3, OthersApart DEF Trees, AllBelow
<1>4. ASSUME NEW s \in XLeaves, k \in value[s] PROVE s = t
    <2>1. ~(k < k)
        BY <1>2
    <2> QED BY <1>3, <1>4, <2>1
<1>5. \A s \in XLeaves : ~(s < t /\ t < s) /\ ~(s = t /\ (s < t \/ t < s))
    BY <1>2
<1> QED BY <1>1, <1>3, <1>4, <1>5 DEF AroundTree

(* The look-up of an iterator, where it is needed and where it is not.     *)
LEMMA RefreshedGood ==
    ASSUME Trees, rebuilds \in 0 .. RebuildWrap - 1,
           NEW it, Good(it, value, rebuilds), OnEntry(it)
    PROVE  /\ it.leaf \in Contents /\ it.leaf \in Key
           /\ Refreshed(it).xleaf = TreeOf(it.leaf)
           /\ Refreshed(it).leaf = it.leaf
           /\ Refreshed(it).last = rebuilds
           /\ Refreshed(it).reverse = it.reverse
           /\ Refreshed(it) \in Iterators
<1>1. /\ it \in Iterators /\ it.leaf \in Contents /\ it.last <= rebuilds
      /\ ~Outdated(it) => Cached(it, value)
    BY HeldFact DEF Good, Outdated
<1>2. it.leaf \in Key /\ TreeOf(it.leaf) \in XLeaves /\ TreeOf(it.leaf) \in Key
    BY <1>1, TreeOfEntry, Numbers DEF AroundTree
<1>3. CASE Outdated(it)
    <2>1. Find(it.leaf) = Where(TreeOf(it.leaf), it.leaf)
        BY <1>1, <1>2, TreeOfEntry, FindsTree DEF Trees, AroundTree
    <2>2. Find(it.leaf).xleaf = TreeOf(it.leaf)
        BY <2>1 DEF Where
    <2>3. Refreshed(it) = [it EXCEPT !.xleaf = TreeOf(it.leaf), !.last = rebuilds]
        BY <1>3, <2>2 DEF Refreshed
    <2> HIDE DEF Refreshed
    <2> QED BY <1>1, <1>2, <2>3 DEF Iterators
<1>4. CASE ~Outdated(it)
    <2>1. Refreshed(it) = it
        BY <1>4 DEF Refreshed
    <2>2. it.xleaf = TreeOf(it.leaf)
        BY <1>1, <1>4, TreeOfEntry DEF Cached, XLeaves, AroundTree
    <2>3. it.last = rebuilds
        BY <1>1, <1>4 DEF Outdated, Iterators
    <2> QED BY <1>1, <1>2, <2>1, <2>2, <2>3
<1> QED BY <1>3, <1>4

(* A step within the tree: the iterator stays with its xleaf.              *)
LEMMA StaysGood ==
    ASSUME Trees, rebuilds \in 0 .. RebuildWrap - 1,
           NEW it, Good(it, value, rebuilds), OnEntry(it),
           NEW near \in value[TreeOf(it.leaf)]
    PROVE  Good([it EXCEPT !.leaf = near], value, rebuilds)
<1>1. /\ it \in Iterators /\ it.leaf \in Contents /\ it.last <= rebuilds
      /\ ~(rebuilds > it.last) => Cached(it, value)
    BY HeldFact DEF Good
<1>2. TreeOf(it.leaf) \in XLeaves
    BY <1>1, TreeOfEntry DEF AroundTree
<1>3. near \in Contents /\ near \in Key
    BY <1>2, Numbers DEF Contents
<1>4. ASSUME Cached(it, value)
      PROVE  it.xleaf \in DOMAIN value /\ near \in value[it.xleaf]
    BY <1>1, <1>4, TreeOfEntry DEF Cached, XLeaves, AroundTree
<1> DEFINE new == [it EXCEPT !.leaf = near]
<1>5. /\ new \in Iterators /\ new.leaf = near
      /\ new.xleaf = it.xleaf /\ new.last = it.last
    BY <1>1, <1>3 DEF Iterators
<1> SUFFICES Good(new, value, rebuilds)
    OBVIOUS
<1> HIDE DEF new
<1>6. ~(rebuilds > new.last) => Cached(new, value)
    BY <1>1, <1>4, <1>5 DEF Cached
<1> QED BY <1>1, <1>3, <1>5, <1>6, HeldFact, Sentinels DEF Good, IsSet

(* A step to the next tree.                                                *)
LEMMA CrossesGood ==
    ASSUME Trees, rebuilds \in 0 .. RebuildWrap - 1,
           NEW known \in Iterators, known.last = rebuilds,
           NEW next \in XLeaves, NEW near \in value[next],
           NEW new \in Iterators, new.leaf = near, new.xleaf = next,
           new.last = known.last
    PROVE  Good(new, value, rebuilds)
<1>1. near \in Contents /\ near \in Key /\ next \in Key
    BY Numbers DEF Contents
<1>2. Cached(new, value)
    BY DEF Cached, XLeaves
<1>3. rebuilds <= rebuilds
    OBVIOUS
<1> QED BY <1>1, <1>2, <1>3, HeldFact, Sentinels DEF Good, IsSet

(* Where a step leads, and that it leaves the iterator good.               *)
StepRight(it, down, p) ==
    /\ Moves(it, down)
    /\ Good(Moved(it, down), value, rebuilds)
    /\ Moved(it, down).leaf = p
    /\ Moved(it, down).reverse = it.reverse

LEMMA MovedDown ==
    ASSUME Trees, rebuilds \in 0 .. RebuildWrap - 1,
           NEW it, Good(it, value, rebuilds), OnEntry(it)
    PROVE  StepRight(it, TRUE, PredIn(Contents, it.leaf, TRUE))
<1> DEFINE k == it.leaf
           x == TreeOf(it.leaf)
           near == PredIn(value[x], k, TRUE)
           known == Refreshed(it)
           next == Prv(x)
<1>1. /\ it \in Iterators /\ k \in Contents /\ k \in Nat
      /\ known.xleaf = x /\ known.last = rebuilds
      /\ known.reverse = it.reverse /\ known \in Iterators
    BY RefreshedGood, Numbers DEF Good
<1>2. AroundTree(k, x) /\ x \in XLeaves /\ k \in value[x]
    BY <1>1, TreeOfEntry DEF AroundTree
<1>3. InTree(it.leaf, TRUE) = near /\ Beside(known.xleaf, TRUE) = next
    BY <1>1 DEF InTree, Beside
<1>4. /\ XLeaves \in SUBSET Nat /\ IsFiniteSet(XLeaves)
      /\ \A s \in XLeaves : /\ s \in Nat /\ value[s] \in SUBSET Nat
                            /\ IsFiniteSet(value[s]) /\ value[s] # {}
    BY Numbers
<1>5. Moves(it, TRUE)
    BY <1>1, <1>2, <1>4 DEF Moves, GONE
<1>6. Moved(it, TRUE) =
        IF near # NULL THEN [it EXCEPT !.leaf = near]
        ELSE IF next = NULL THEN End(it.reverse)
        ELSE [known EXCEPT !.xleaf = next, !.leaf = Nearest(next, TRUE)]
    BY <1>3 DEF Moved
<1>7. \/ near = NULL /\ Below(value[x], k, TRUE) = {}
      \/ near # NULL /\ near \in value[x] /\ Below(value[x], k, TRUE) # {}
    BY <1>2, <1>4, PredInFact
<1> SUFFICES StepRight(it, TRUE, PredIn(Contents, k, TRUE))
    OBVIOUS
<1> HIDE DEF k, x, near, known, next
<1>8. \A s \in XLeaves : x < s => Below(value[s], k, TRUE) = {}
    BY <1>1, <1>2, <1>4, NoneWithin DEF AroundTree
<1>9. \A s \in XLeaves : s < x => \A y \in value[s] : y < k
    BY <1>2 DEF AroundTree
<1>10. CASE near # NULL
    <2>1. TopBelow(x, k, TRUE)
        BY <1>7, <1>8, <1>10 DEF TopBelow
    <2>2. PredIn(Contents, k, TRUE) = near
        BY <1>2, <2>1, PredFromTree DEF near
    <2>3. Moved(it, TRUE) = [it EXCEPT !.leaf = near]
        BY <1>6, <1>10
    <2>4. Good(Moved(it, TRUE), value, rebuilds)
        BY <1>7, <1>10, <2>3, StaysGood DEF x
    <2>5. Moved(it, TRUE).leaf = near /\ Moved(it, TRUE).reverse = it.reverse
        BY <1>1, <2>3 DEF Iterators
    <2> QED BY <1>5, <2>2, <2>4, <2>5 DEF StepRight
<1>11. CASE near = NULL /\ next = NULL
    <2>1. \A s \in XLeaves : ~(s < x)
        <3>1. \A s \in XLeaves : x <= s
            BY <1>2, <1>4, <1>11, LastBefore DEF next, Prv
        <3> QED BY <1>2, <1>4, <3>1
    <2>2. TopBelow(x, k, TRUE)
        BY <1>8, <2>1 DEF TopBelow
    <2>3. PredIn(Contents, k, TRUE) = NULL
        BY <1>2, <1>11, <2>2, PredFromTree DEF near
    <2>4. Moved(it, TRUE) = End(it.reverse) /\ it.reverse \in BOOLEAN
        BY <1>1, <1>6, <1>11 DEF Iterators
    <2> QED BY <1>5, <2>3, <2>4, EndGood DEF StepRight
<1>12. CASE near = NULL /\ next # NULL
    <2>1. /\ next \in XLeaves /\ next < x
          /\ \A s \in XLeaves : s <= next \/ x <= s
        BY <1>2, <1>4, <1>12, LastBefore DEF next, Prv
    <2>2. /\ GreatestOf(value[next]) \in value[next]
          /\ \A y \in value[next] : y <= GreatestOf(value[next]) /\ y < k
        BY <1>4, <1>9, <2>1, GreatestOfFact
    <2>3. ASSUME NEW s \in XLeaves, s < next PROVE Below(value[next], k, TRUE) # {}
        BY <1>1, <1>4, <2>1, <2>2, BelowFact
    <2>4. ASSUME NEW s \in XLeaves, next < s PROVE Below(value[s], k, TRUE) = {}
        <3>1. x <= s
            BY <1>4, <2>1, <2>4
        <3>2. s = x \/ x < s
            BY <1>2, <1>4, <3>1 DEF AroundTree
        <3> QED BY <1>7, <1>8, <1>12, <3>2
    <2>5. PredIn(Contents, k, TRUE) = PredIn(value[next], k, TRUE)
        BY <2>1, <2>3, <2>4, PredFromTree DEF TopBelow
    <2>6. GreatestOf(value[next]) \in Below(value[next], k, TRUE)
        BY <1>1, <1>4, <2>1, <2>2, BelowFact
    <2>7. \A y \in Below(value[next], k, TRUE) : y <= GreatestOf(value[next])
        BY <2>2 DEF Below
    <2>8. PredIn(value[next], k, TRUE) = GreatestOf(value[next])
        BY <1>4, <2>1, <2>6, <2>7, PredInIs
    <2>9. PICK new : new = [known EXCEPT !.xleaf = next, !.leaf = GreatestOf(value[next])]
        OBVIOUS
    <2>10. Moved(it, TRUE) = new
        BY <1>6, <1>12, <2>9 DEF Nearest
    <2>11. GreatestOf(value[next]) \in Key /\ next \in Key
        BY <2>1, <2>2, Numbers DEF Contents
    <2>12. /\ new \in Iterators /\ new.leaf = GreatestOf(value[next])
           /\ new.xleaf = next /\ new.last = known.last
           /\ new.reverse = known.reverse
        BY <1>1, <2>9, <2>11 DEF Iterators
    <2>13. Good(new, value, rebuilds)
        BY <1>1, <2>1, <2>2, <2>12, CrossesGood
    <2> QED BY <1>1, <1>5, <2>5, <2>8, <2>10, <2>12, <2>13 DEF StepRight
<1> QED BY <1>10, <1>11, <1>12

LEMMA MovedUp ==
    ASSUME Trees, rebuilds \in 0 .. RebuildWrap - 1,
           NEW it, Good(it, value, rebuilds), OnEntry(it)
    PROVE  StepRight(it, FALSE, SuccIn(Contents, it.leaf, TRUE))
<1> DEFINE k == it.leaf
           x == TreeOf(it.leaf)
           near == SuccIn(value[x], k, TRUE)
           known == Refreshed(it)
           next == Nxt(x)
<1>1. /\ it \in Iterators /\ k \in Contents /\ k \in Nat
      /\ known.xleaf = x /\ known.last = rebuilds
      /\ known.reverse = it.reverse /\ known \in Iterators
    BY RefreshedGood, Numbers DEF Good
<1>2. AroundTree(k, x) /\ x \in XLeaves /\ k \in value[x]
    BY <1>1, TreeOfEntry DEF AroundTree
<1>3. InTree(it.leaf, FALSE) = near /\ Beside(known.xleaf, FALSE) = next
    BY <1>1 DEF InTree, Beside
<1>4. /\ XLeaves \in SUBSET Nat /\ IsFiniteSet(XLeaves)
      /\ \A s \in XLeaves : /\ s \in Nat /\ value[s] \in SUBSET Nat
                            /\ IsFiniteSet(value[s]) /\ value[s] # {}
    BY Numbers
<1>5. Moves(it, FALSE)
    BY <1>1, <1>2, <1>4 DEF Moves, GONE
<1>6. Moved(it, FALSE) =
        IF near # NULL THEN [it EXCEPT !.leaf = near]
        ELSE IF next = NULL THEN End(it.reverse)
        ELSE [known EXCEPT !.xleaf = next, !.leaf = Nearest(next, FALSE)]
    BY <1>3 DEF Moved
<1>7. \/ near = NULL /\ Above(value[x], k, TRUE) = {}
      \/ near # NULL /\ near \in value[x] /\ Above(value[x], k, TRUE) # {}
    BY <1>2, <1>4, SuccInFact
<1> SUFFICES StepRight(it, FALSE, SuccIn(Contents, k, TRUE))
    OBVIOUS
<1> HIDE DEF k, x, near, known, next
<1>8. \A s \in XLeaves : s < x => Above(value[s], k, TRUE) = {}
    BY <1>1, <1>2, <1>4, NoneWithin DEF AroundTree
<1>9. \A s \in XLeaves : x < s => \A y \in value[s] : k < y
    BY <1>2 DEF AroundTree
<1>10. CASE near # NULL
    <2>1. BottomAbove(x, k, TRUE)
        BY <1>7, <1>8, <1>10 DEF BottomAbove
    <2>2. SuccIn(Contents, k, TRUE) = near
        BY <1>2, <2>1, SuccFromTree DEF near
    <2>3. Moved(it, FALSE) = [it EXCEPT !.leaf = near]
        BY <1>6, <1>10
    <2>4. Good(Moved(it, FALSE), value, rebuilds)
        BY <1>7, <1>10, <2>3, StaysGood DEF x
    <2>5. Moved(it, FALSE).leaf = near /\ Moved(it, FALSE).reverse = it.reverse
        BY <1>1, <2>3 DEF Iterators
    <2> QED BY <1>5, <2>2, <2>4, <2>5 DEF StepRight
<1>11. CASE near = NULL /\ next = NULL
    <2>1. \A s \in XLeaves : ~(x < s)
        <3>1. \A s \in XLeaves : s <= x
            BY <1>2, <1>4, <1>11, FirstAfter DEF next, Nxt
        <3> QED BY <1>2, <1>4, <3>1
    <2>2. BottomAbove(x, k, TRUE)
        BY <1>8, <2>1 DEF BottomAbove
    <2>3. SuccIn(Contents, k, TRUE) = NULL
        BY <1>2, <1>11, <2>2, SuccFromTree DEF near
    <2>4. Moved(it, FALSE) = End(it.reverse) /\ it.reverse \in BOOLEAN
        BY <1>1, <1>6, <1>11 DEF Iterators
    <2> QED BY <1>5, <2>3, <2>4, EndGood DEF StepRight
<1>12. CASE near = NULL /\ next # NULL
    <2>1. /\ next \in XLeaves /\ x < next
          /\ \A s \in XLeaves : next <= s \/ s <= x
        BY <1>2, <1>4, <1>12, FirstAfter DEF next, Nxt
    <2>2. /\ LeastOf(value[next]) \in value[next]
          /\ \A y \in value[next] : LeastOf(value[next]) <= y /\ k < y
        BY <1>4, <1>9, <2>1, LeastOfFact
    <2>3. ASSUME NEW s \in XLeaves, next < s PROVE Above(value[next], k, TRUE) # {}
        BY <1>1, <1>4, <2>1, <2>2, AboveFact
    <2>4. ASSUME NEW s \in XLeaves, s < next PROVE Above(value[s], k, TRUE) = {}
        <3>1. s <= x
            BY <1>4, <2>1, <2>4
        <3>2. s = x \/ s < x
            BY <1>2, <1>4, <3>1 DEF AroundTree
        <3> QED BY <1>7, <1>8, <1>12, <3>2
    <2>5. SuccIn(Contents, k, TRUE) = SuccIn(value[next], k, TRUE)
        BY <2>1, <2>3, <2>4, SuccFromTree DEF BottomAbove
    <2>6. LeastOf(value[next]) \in Above(value[next], k, TRUE)
        BY <1>1, <1>4, <2>1, <2>2, AboveFact
    <2>7. \A y \in Above(value[next], k, TRUE) : LeastOf(value[next]) <= y
        BY <2>2 DEF Above
    <2>8. SuccIn(value[next], k, TRUE) = LeastOf(value[next])
        BY <1>4, <2>1, <2>6, <2>7, SuccInIs
    <2>9. PICK new : new = [known EXCEPT !.xleaf = next, !.leaf = LeastOf(value[next])]
        OBVIOUS
    <2>10. Moved(it, FALSE) = new
        BY <1>6, <1>12, <2>9 DEF Nearest
    <2>11. LeastOf(value[next]) \in Key /\ next \in Key
        BY <2>1, <2>2, Numbers DEF Contents
    <2>12. /\ new \in Iterators /\ new.leaf = LeastOf(value[next])
           /\ new.xleaf = next /\ new.last = known.last
           /\ new.reverse = known.reverse
        BY <1>1, <2>9, <2>11 DEF Iterators
    <2>13. Good(new, value, rebuilds)
        BY <1>1, <2>1, <2>2, <2>12, CrossesGood
    <2> QED BY <1>1, <1>5, <2>5, <2>8, <2>10, <2>12, <2>13 DEF StepRight
<1> QED BY <1>10, <1>11, <1>12

(* What Cursors says of the sides of an entry is what OrderedKeys says.    *)
LEMMA PromisedSides ==
    /\ \A S, k, strict : Promised!PredIn(S, k, strict) = PredIn(S, k, strict)
    /\ \A S, k, strict : Promised!SuccIn(S, k, strict) = SuccIn(S, k, strict)
    /\ \A S : Promised!LeastOf(S) = LeastOf(S)
    /\ \A S : Promised!GreatestOf(S) = GreatestOf(S)
    /\ Promised!NULL = NULL /\ Promised!GONE = GONE
BY DEF Promised!PredIn, Promised!SuccIn, Promised!LeastOf, Promised!GreatestOf,
       Promised!Below, Promised!Above, PredIn, SuccIn, LeastOf, GreatestOf, Below,
       Above, Promised!NULL, NULL, Promised!GONE, GONE

LEMMA MovedRight ==
    ASSUME Trees, rebuilds \in 0 .. RebuildWrap - 1,
           NEW it, Good(it, value, rebuilds), OnEntry(it), NEW down \in BOOLEAN
    PROVE  StepRight(it, down, Promised!After(it.leaf, down))
<1>1. it.leaf # NULL
    BY DEF OnEntry
<1>2. CASE down = TRUE
    <2>1. Promised!After(it.leaf, TRUE) = PredIn(Contents, it.leaf, TRUE)
        BY <1>1, PromisedSides DEF Promised!After
    <2>2. StepRight(it, TRUE, Promised!After(it.leaf, TRUE))
        BY <2>1, MovedDown
    <2> QED BY <1>2, <2>2
<1>3. CASE down = FALSE
    <2>1. Promised!After(it.leaf, FALSE) = SuccIn(Contents, it.leaf, TRUE)
        BY <1>1, PromisedSides DEF Promised!After
    <2>2. StepRight(it, FALSE, Promised!After(it.leaf, FALSE))
        BY <2>1, MovedUp
    <2> QED BY <1>3, <2>2
<1> QED BY <1>2, <1>3

(* ++ and --, from an entry and from the end.                              *)
LEMMA IncRight ==
    ASSUME Trees, rebuilds \in 0 .. RebuildWrap - 1,
           NEW it, Good(it, value, rebuilds), IsSet(it)
    PROVE  /\ Good(inc(it), value, rebuilds)
           /\ inc(it).leaf = Promised!After(it.leaf, it.reverse)
           /\ inc(it).reverse = it.reverse /\ it.reverse \in BOOLEAN
           /\ Moves(it, it.reverse)
<1>1. it.reverse \in BOOLEAN
    BY DEF Good, Iterators
<1>2. CASE it.leaf = NULL
    <2>1. inc(it) = it /\ ~OnEntry(it)
        BY <1>2 DEF inc, OnEntry
    <2>2. Promised!After(it.leaf, it.reverse) = NULL
        BY <1>2, PromisedSides DEF Promised!After
    <2> QED BY <1>1, <1>2, <2>1, <2>2 DEF Moves
<1>3. CASE it.leaf # NULL
    <2>1. OnEntry(it)
        BY <1>3 DEF OnEntry, IsSet
    <2>2. PICK down \in BOOLEAN : down = it.reverse
        BY <1>1
    <2>3. StepRight(it, down, Promised!After(it.leaf, down))
        BY <2>1, MovedRight
    <2>4. inc(it) = Moved(it, down)
        BY <1>3, <2>2 DEF inc
    <2> QED BY <1>1, <2>2, <2>3, <2>4 DEF StepRight
<1> QED BY <1>2, <1>3

LEMMA DecRight ==
    ASSUME Trees, rebuilds \in 0 .. RebuildWrap - 1,
           NEW it, Good(it, value, rebuilds), IsSet(it)
    PROVE  /\ Good(dec(it), value, rebuilds)
           /\ dec(it).leaf = Promised!Before(it.leaf, it.reverse)
           /\ dec(it).reverse = it.reverse /\ it.reverse \in BOOLEAN
<1>1. it.reverse \in BOOLEAN
    BY DEF Good, Iterators
<1>2. CASE it.leaf = NULL
    <2>1. PICK where : where = IF it.reverse THEN Leftmost ELSE Rightmost
        OBVIOUS
    <2>2. dec(it) = Iter(where, it.reverse)
        BY <1>2, <2>1 DEF dec
    <2>3. where \in Answers \cup ReverseAnswers
        BY <2>1 DEF Answers, ReverseAnswers
    <2>4. Placed(where)
        BY <2>3, AnswersPlaced
    <2>5. where.leaf = IF it.reverse THEN LeastOf(Contents) ELSE GreatestOf(Contents)
        BY <2>1, EndsExact DEF AnswersWith
    <2>6. Promised!Before(it.leaf, it.reverse) = where.leaf
        BY <1>2, <2>5, PromisedSides DEF Promised!Before
    <2> QED BY <1>1, <2>2, <2>4, <2>6, IterGood
<1>3. CASE it.leaf # NULL
    <2>1. OnEntry(it)
        BY <1>3 DEF OnEntry, IsSet
    <2>2. PICK down \in BOOLEAN : down = ~it.reverse
        BY <1>1
    <2>3. StepRight(it, down, Promised!After(it.leaf, down))
        BY <2>1, MovedRight
    <2>4. dec(it) = Moved(it, down)
        BY <1>3, <2>2 DEF dec
    <2>5. Promised!Before(it.leaf, it.reverse) = Promised!After(it.leaf, down)
        BY <1>3, <2>2, PromisedSides DEF Promised!Before
    <2> QED BY <1>1, <2>3, <2>4, <2>5 DEF StepRight
<1> QED BY <1>2, <1>3

(* An iterator whose count is current may be stamped anew.                 *)
LEMMA StampedGood ==
    ASSUME Trees, rebuilds \in 0 .. RebuildWrap - 1,
           NEW it, Good(it, value, rebuilds), Known(it), NEW reverse \in BOOLEAN
    PROVE  LET new == Iter(Where(it.xleaf, it.leaf), reverse)
           IN  it.leaf # GONE => /\ Good(new, value, rebuilds)
                                 /\ new.leaf = it.leaf /\ new.reverse = reverse
<1> SUFFICES ASSUME it.leaf # GONE
             PROVE  Placed(Where(it.xleaf, it.leaf))
    BY IterGood DEF Where
<1>1. CASE it.leaf = NULL
    BY <1>1 DEF Where, Placed
<1>2. CASE it.leaf # NULL
    BY <1>2 DEF Where, Placed, Known, Good, Cached, Outdated, OnEntry, XLeaves
<1> QED BY <1>1, <1>2

(* No step loses an iterator.                                              *)
LEMMA SidesHeld ==
    ASSUME Trees, NEW p, NEW down \in BOOLEAN
    PROVE  /\ Promised!After(p, down) \in Contents \cup {NULL}
           /\ Promised!Before(p, down) \in Contents \cup {NULL}
<1>1. Contents \in SUBSET Nat /\ IsFiniteSet(Contents)
    BY Numbers
<1>2. /\ PredIn(Contents, p, TRUE) \in Contents \cup {NULL}
      /\ SuccIn(Contents, p, TRUE) \in Contents \cup {NULL}
    BY <1>1, PredInFact, SuccInFact
<1>3. LeastOf(Contents) \in Contents \cup {NULL} /\ GreatestOf(Contents) \in Contents \cup {NULL}
    BY <1>1, LeastOfFact, GreatestOfFact
<1>4. \A d \in BOOLEAN : Promised!After(p, d) \in Contents \cup {NULL}
    BY <1>2, PromisedSides DEF Promised!After
<1>5. PICK up \in BOOLEAN : up = ~down
    OBVIOUS
<1>6. Promised!Before(p, down) \in
        {LeastOf(Contents), GreatestOf(Contents), Promised!After(p, up)}
    BY <1>5, PromisedSides DEF Promised!Before
<1> QED BY <1>3, <1>4, <1>6

-----------------------------------------------------------------------------
(* What updates leave of the iterators.                                    *)

Survivor(it, erased, destroyed) ==
    IF it.leaf \in erased THEN Unset
    ELSE IF it.xleaf \in destroyed THEN [it EXCEPT !.xleaf = GONE]
    ELSE it

LEMMA SurvivorFact ==
    ASSUME NEW it \in Iterators, NEW erased, NEW destroyed, NEW new,
           new = Survivor(it, erased, destroyed)
    PROVE  /\ new \in Iterators
           /\ new.leaf = IF it.leaf \in erased THEN GONE ELSE it.leaf
           /\ new.reverse = (it.reverse /\ it.leaf \notin erased)
           /\ it.leaf \notin erased =>
                /\ new.last = it.last
                /\ it.xleaf \notin destroyed => new.xleaf = it.xleaf
<1>1. Unset \in Iterators /\ Unset.leaf = GONE /\ Unset.reverse = FALSE
    <2>1. Good(Unset, value, 0)
        BY EndGood
    <2> QED BY <2>1, EndGood DEF Good
<1>2. it.reverse \in BOOLEAN
    BY DEF Iterators
<1>3. CASE it.leaf \in erased
    BY <1>1, <1>2, <1>3 DEF Survivor
<1>4. CASE it.leaf \notin erased /\ it.xleaf \in destroyed
    <2>1. new = [it EXCEPT !.xleaf = GONE]
        BY <1>4 DEF Survivor
    <2>2. /\ new \in Iterators /\ new.leaf = it.leaf /\ new.last = it.last
          /\ new.reverse = it.reverse
        BY <2>1 DEF Iterators
    <2> QED BY <1>2, <1>4, <2>2
<1>5. CASE it.leaf \notin erased /\ it.xleaf \notin destroyed
    BY <1>2, <1>5 DEF Survivor
<1> QED BY <1>3, <1>4, <1>5

(* An update from the trees v and the count n to w and m keeps `it': its   *)
(* entry stays unless it is erased, the count grows or stays, and where it *)
(* stays and the iterator relies on its xleaf, so does the xleaf.          *)
Keeps(it, erased, destroyed, v, n, w, m) ==
    OnEntry(it) /\ it.leaf \notin erased =>
        /\ Held(it.leaf, v) => Held(it.leaf, w)
        /\ n <= m
        /\ m = n /\ ~(n > it.last) /\ Cached(it, v) =>
                it.xleaf \notin destroyed /\ Cached(it, w)

LEMMA Survives ==
    ASSUME NEW v, NEW n \in Nat, NEW it, Good(it, v, n),
           NEW erased, NEW destroyed, NEW w, NEW m \in Nat,
           Keeps(it, erased, destroyed, v, n, w, m),
           NEW new, new = Survivor(it, erased, destroyed)
    PROVE  Good(new, w, m)
<1>1. /\ it \in Iterators /\ it.last \in Nat
      /\ OnEntry(it) => /\ Held(it.leaf, v) /\ it.last <= n
                        /\ ~(n > it.last) => Cached(it, v)
    <2>1. it \in Iterators
        BY DEF Good
    <2> QED BY <2>1, WrapAssumption DEF Good, Iterators
<1>2. /\ new \in Iterators
      /\ new.leaf = IF it.leaf \in erased THEN GONE ELSE it.leaf
      /\ it.leaf \notin erased => /\ new.last = it.last
                                  /\ it.xleaf \notin destroyed => new.xleaf = it.xleaf
    BY <1>1, SurvivorFact
<1>3. SUFFICES ASSUME OnEntry(new)
               PROVE  /\ Held(new.leaf, w) /\ new.last <= m
                      /\ ~(m > new.last) => Cached(new, w)
    <2>1. ~IsSet(new) => new.reverse = FALSE
        <3>1. new.reverse = (it.reverse /\ it.leaf \notin erased)
            BY <1>1, SurvivorFact
        <3>2. ~IsSet(it) => it.reverse = FALSE
            BY DEF Good
        <3> QED BY <1>2, <3>1, <3>2 DEF IsSet
    <2> QED BY <1>2, <2>1 DEF Good
<1>4. it.leaf \notin erased /\ new.leaf = it.leaf /\ OnEntry(it) /\ new.last = it.last
    BY <1>2, <1>3 DEF OnEntry
<1>5. /\ Held(it.leaf, w) /\ n <= m /\ it.last <= n
      /\ m = n /\ ~(n > it.last) /\ Cached(it, v) =>
            it.xleaf \notin destroyed /\ Cached(it, w)
    BY <1>1, <1>4 DEF Keeps
<1>6. ASSUME ~(m > new.last) PROVE Cached(new, w)
    <2>1. m = n /\ ~(n > it.last)
        BY <1>1, <1>4, <1>5, <1>6
    <2>2. Cached(it, w) /\ new.xleaf = it.xleaf
        BY <1>1, <1>2, <1>4, <1>5, <2>1
    <2> QED BY <1>4, <2>2 DEF Cached
<1> QED BY <1>1, <1>4, <1>5, <1>6

LEMMA InsertKeeps ==
    ASSUME Trees, rebuilds \in 0 .. RebuildWrap - 1, NEW k \in Key, Insert(k),
           rebuilds <= rebuilds', NEW it
    PROVE  Keeps(it, {k}, InsertDestroys(k, InsertionLeaf(k)),
                 value, rebuilds, value', rebuilds')
<1>1. PICK x : /\ x = InsertionLeaf(k)
               /\ \/ InsertFirst(k, x) \/ InsertReplace(k, x)
                  \/ InsertGrow(k, x) \/ InsertSplit(k, x)
    BY DEF Insert
<1>2. \A y : Held(y, value) => Held(y, value')
    <2>1. Contents' = Contents \cup {k}
        BY InsertEffect
    <2>2. \A y : Held(y, value') <=> y \in Contents'
        BY DEF Held, Contents, XLeaves
    <2> QED BY <2>1, <2>2, HeldFact
<1>3. ASSUME rebuilds' = rebuilds, Cached(it, value)
      PROVE  it.xleaf \notin InsertDestroys(k, x) /\ Cached(it, value')
    <2>1. ~InsertSplit(k, x) /\ TreesKeptBut(k)
        BY <1>1, <1>3, InsertKeepsTrees, CountMoves DEF InsertSplit
    <2>2. InsertDestroys(k, x) = {}
        <3>1. CASE InsertFirst(k, x)
            BY <3>1 DEF InsertFirst, InsertDestroys
        <3>2. CASE InsertReplace(k, x)
            BY <3>2 DEF InsertReplace, InsertDestroys
        <3>3. CASE InsertGrow(k, x)
            <4>1. /\ x \in XLeaves
                  /\ Cardinality(value[x] \cup {k}) <= TREE_SPLIT_THRESHOLD
                BY <1>1, <3>3, InsertionApart DEF InsertGrow, Trees
            <4>2. Cardinality(value[x] \cup {k}) \in Nat
                BY <4>1, Sizes DEF Trees, Shape, Typed
            <4>3. ~(Cardinality(value[x] \cup {k}) > TREE_SPLIT_THRESHOLD)
                BY <4>1, <4>2, ThresholdAssumption
            <4> QED BY <4>3 DEF InsertDestroys
        <3> QED BY <1>1, <2>1, <3>1, <3>2, <3>3
    <2>3. it.xleaf \in XLeaves /\ it.leaf \in value[it.xleaf]
        BY <1>3 DEF Cached, XLeaves
    <2>4. it.xleaf \in XLeaves' /\ it.leaf \in value'[it.xleaf]
        BY <2>1, <2>3 DEF TreesKeptBut
    <2> QED BY <2>2, <2>4 DEF Cached, XLeaves
<1> QED BY <1>1, <1>2, <1>3 DEF Keeps

(* The removal of k replaces, uncounted, an xleaf that `it' relies on.     *)
Misled(it, k, x) ==
    /\ it.leaf \notin {NULL, GONE, k}
    /\ ~Outdated(it)
    /\ it.xleaf = x /\ Reinserts(x, value[x] \ {k})

LEMMA RemoveKeeps ==
    ASSUME Trees, rebuilds \in 0 .. RebuildWrap - 1, NEW k \in Key,
           NEW hint \in XLeaves \cup {NULL}, RemoveFrom(k, hint),
           rebuilds <= rebuilds', NEW it,
           NEW x, x = RemovalLeaf(k, hint), ~Misled(it, k, x)
    PROVE  Keeps(it, {k}, RemovalDestroys(x, value[x] \ {k}),
                 value, rebuilds, value', rebuilds')
<1> DEFINE t == value[x] \ {k}
<1>1. \/ RemoveMerge(x, t) \/ RemoveLast(x, t)
      \/ RemoveReinsert(x, t) \/ RemoveKeep(x, t)
    BY DEF RemoveFrom
<1>2. k \in Contents /\ Contents' = Contents \ {k}
    BY RemoveFromEffect
<1>3. x \in XLeaves /\ k \in value[x]
    BY <1>2, RemovalFinds
<1>4. /\ Cardinality(t) \in Nat /\ TREE_MERGE_THRESHOLD \in Nat
      /\ t = {} => Cardinality(t) = 0
    BY <1>3, Sizes, FS_EmptySet, ThresholdAssumption DEF Trees, Shape, Typed
<1>5. \A y : y # k /\ Held(y, value) => Held(y, value')
    <2>1. \A y : Held(y, value') <=> y \in Contents'
        BY DEF Held, Contents, XLeaves
    <2> QED BY <1>2, <2>1, HeldFact
<1>6. ASSUME rebuilds' = rebuilds PROVE TreeRehung(x, t) /\ ~RemoveMerge(x, t)
    <2>1. ~CountRebuild
        BY <1>6, CountMoves
    <2>2. TreeRehung(x, t)
        BY <1>1, <1>3, <2>1, RemoveKeepsTrees
    <2> QED BY <2>1, <2>2 DEF RemoveMerge
<1>7. ASSUME rebuilds' = rebuilds, Cached(it, value), ~Outdated(it),
             it.leaf \notin {NULL, GONE, k}
      PROVE  it.xleaf \notin RemovalDestroys(x, t) /\ Cached(it, value')
    <2>1. it.xleaf \in XLeaves /\ it.leaf \in value[it.xleaf]
        BY <1>7 DEF Cached, XLeaves
    <2>2. TreeRehung(x, t) /\ ~RemoveMerge(x, t)
        BY <1>6, <1>7
    <2>3. Cardinality(t) < TREE_MERGE_THRESHOLD => PickNeighbor(x, t) = NULL
        <3>1. ASSUME Cardinality(t) < TREE_MERGE_THRESHOLD, RemoveReinsert(x, t)
              PROVE  FALSE
            BY <1>4, <3>1 DEF RemoveReinsert
        <3> QED BY <1>1, <2>2, <3>1 DEF RemoveLast, RemoveKeep
    <2>4. CASE it.xleaf # x
        <3>1. it.xleaf \in XLeaves' /\ value'[it.xleaf] = value[it.xleaf]
            BY <2>1, <2>2, <2>4 DEF TreeRehung
        <3>2. Cached(it, value')
            BY <2>1, <3>1 DEF Cached, XLeaves
        <3>3. RemovalDestroys(x, t) \subseteq {x}
            BY <2>3 DEF RemovalDestroys
        <3> QED BY <2>4, <3>2, <3>3
    <2>5. CASE it.xleaf = x
        <3>1. ~Reinserts(x, t)
            BY <1>7, <2>5 DEF Misled
        <3>2. Cardinality(t) < TREE_MERGE_THRESHOLD \/ ~OutOfRange(x, t)
            BY <1>4, <3>1 DEF Reinserts
        <3>3. x \in XLeaves' /\ value'[x] = t
            BY <2>2, <3>2 DEF TreeRehung
        <3>4. it.leaf \in t
            BY <1>7, <2>1, <2>5
        <3>5. RemovalDestroys(x, t) = {}
            BY <2>3, <3>2, <3>4 DEF RemovalDestroys
        <3> QED BY <2>5, <3>3, <3>4, <3>5 DEF Cached, XLeaves
    <2> QED BY <2>4, <2>5
<1> QED BY <1>5, <1>7 DEF Keeps, OnEntry, Outdated

-----------------------------------------------------------------------------
(* Actions.  Each one is a step, or a stutter, of the container; leaves    *)
(* every iterator good; and is a step, or a stutter, of the cursors.       *)

GoodAfter == AllGood(iters', value', rebuilds')

Outcome ==
    /\ [Next]_vars
    /\ GoodAfter
    /\ [Promised!Next]_(Promised!vars)

(* The iterators as cursors.                                               *)
At == [i \in Iterator |-> iters[i].leaf]
Rev == [i \in Iterator |-> iters[i].reverse]

LEMMA AtFact ==
    /\ \A i \in Iterator : At[i] = iters[i].leaf /\ Rev[i] = iters[i].reverse
    /\ At \in [Iterator -> {At[i] : i \in Iterator}]
    /\ Rev \in [Iterator -> {Rev[i] : i \in Iterator}]
BY DEF At, Rev

(* One iterator changes, and nothing else.                                 *)
LEMMA OneChanges ==
    ASSUME MapInvariant, UNCHANGED vars, NEW i \in Iterator,
           NEW new, Good(new, value, rebuilds), iters' = [iters EXCEPT ![i] = new]
    PROVE  /\ GoodAfter /\ Contents' = Contents
           /\ At' = [At EXCEPT ![i] = new.leaf]
           /\ Rev' = [Rev EXCEPT ![i] = new.reverse]
           /\ new.leaf = iters[i].leaf => UNCHANGED At
           /\ new.reverse = iters[i].reverse => UNCHANGED Rev
<1>1. /\ iters \in [Iterator -> Iterators] /\ new \in Iterators
      /\ \A j \in Iterator : Good(iters[j], value, rebuilds)
    BY DEF MapInvariant, AllGood, Good
<1>2. /\ iters' \in [Iterator -> Iterators] /\ iters'[i] = new
      /\ \A j \in Iterator \ {i} : iters'[j] = iters[j]
    BY <1>1
<1>3. value' = value /\ rebuilds' = rebuilds
    BY DEF vars
<1>4. GoodAfter
    BY <1>1, <1>2, <1>3 DEF GoodAfter, AllGood
<1>5. Contents' = Contents
    BY <1>3 DEF Contents, XLeaves
<1> QED BY <1>2, <1>4, <1>5 DEF At, Rev

LEMMA MakeOutcome ==
    ASSUME MapInvariant, NEW i \in Iterator, Make(i)
    PROVE  Outcome
<1>1. Trees /\ rebuilds \in 0 .. RebuildWrap - 1 /\ UNCHANGED vars /\ iters[i].leaf = GONE
    BY DEF MapInvariant, AllGood, Make, IsSet
<1>2. PICK where \in Answers \cup ReverseAnswers, down \in BOOLEAN :
          iters' = [iters EXCEPT ![i] = Iter(where, down)]
    BY DEF Make
<1>3. Placed(where) /\ where.leaf \in Contents \cup {NULL}
    BY <1>1, AnswersPlaced
<1>4. PICK new : new = Iter(where, down)
    OBVIOUS
<1>5. /\ Good(new, value, rebuilds) /\ new.leaf = where.leaf
      /\ new.reverse = down
    BY <1>1, <1>3, <1>4, IterGood
<1>6. iters' = [iters EXCEPT ![i] = new]
    BY <1>2, <1>4
<1>7. /\ At[i] = GONE /\ At' = [At EXCEPT ![i] = where.leaf]
      /\ Rev' = [Rev EXCEPT ![i] = down] /\ UNCHANGED Contents
    <2>1. /\ At' = [At EXCEPT ![i] = new.leaf] /\ Rev' = [Rev EXCEPT ![i] = new.reverse]
          /\ UNCHANGED Contents
        BY <1>1, <1>5, <1>6, OneChanges
    <2> QED BY <1>1, <1>5, <2>1, AtFact, Zenon
<1>8. Promised!Make(i)
    BY <1>3, <1>7, PromisedSides DEF Promised!Make, At, Rev
<1> QED BY <1>1, <1>5, <1>6, <1>8, OneChanges DEF Outcome, Promised!Next

LEMMA DropOutcome ==
    ASSUME MapInvariant, NEW i \in Iterator, Drop(i)
    PROVE  Outcome
<1>1. UNCHANGED vars /\ iters' = [iters EXCEPT ![i] = Unset]
    BY DEF Drop
<1>2. PICK new : new = Unset
    OBVIOUS
<1>3. Good(new, value, rebuilds) /\ new.leaf = GONE /\ new.reverse = FALSE
    BY <1>2, EndGood
<1>4. /\ At' = [At EXCEPT ![i] = GONE] /\ Rev' = [Rev EXCEPT ![i] = FALSE]
      /\ UNCHANGED Contents
    BY <1>1, <1>2, <1>3, OneChanges
<1>5. Promised!Drop(i)
    BY <1>4, PromisedSides DEF Promised!Drop, At, Rev
<1> QED BY <1>1, <1>2, <1>3, <1>5, OneChanges DEF Outcome, Promised!Next

LEMMA StepOutcome ==
    ASSUME MapInvariant, NEW i \in Iterator, Increment(i) \/ Decrement(i)
    PROVE  Outcome
<1> DEFINE it == iters[i]
<1>1. /\ Trees /\ rebuilds \in 0 .. RebuildWrap - 1 /\ UNCHANGED vars
      /\ Good(it, value, rebuilds) /\ IsSet(it)
    BY DEF MapInvariant, AllGood, Increment, Decrement
<1>2. PICK new : /\ new = inc(it) \/ new = dec(it)
                 /\ iters' = [iters EXCEPT ![i] = new]
    BY DEF Increment, Decrement
<1>3. /\ Good(new, value, rebuilds) /\ new.reverse = it.reverse
      /\ new.leaf \in {Promised!After(it.leaf, it.reverse),
                       Promised!Before(it.leaf, it.reverse)}
    BY <1>1, <1>2, IncRight, DecRight
<1>4. /\ At[i] # GONE /\ At' = [At EXCEPT ![i] = new.leaf]
      /\ UNCHANGED Rev /\ UNCHANGED Contents
      /\ new.leaf \in {Promised!After(At[i], Rev[i]), Promised!Before(At[i], Rev[i])}
    BY <1>1, <1>2, <1>3, OneChanges, AtFact DEF IsSet
<1>5. Promised!Step(i)
    BY <1>4, PromisedSides DEF Promised!Step, At, Rev
<1> QED BY <1>1, <1>2, <1>3, <1>5, OneChanges DEF Outcome, Promised!Next

LEMMA ReverseOutcome ==
    ASSUME MapInvariant, NEW i \in Iterator, MakeReverse(i), Known(dec(iters[i]))
    PROVE  Outcome
<1>1. PICK it, back : it = iters[i] /\ back = dec(it)
    OBVIOUS
<1>2. /\ Trees /\ rebuilds \in 0 .. RebuildWrap - 1 /\ UNCHANGED vars
      /\ Good(it, value, rebuilds) /\ IsSet(it) /\ it.reverse = FALSE /\ Known(back)
    BY <1>1 DEF MapInvariant, AllGood, MakeReverse, Good, Iterators
<1>3. /\ Good(back, value, rebuilds)
      /\ back.leaf = Promised!Before(it.leaf, it.reverse)
    BY <1>1, <1>2, DecRight
<1>4. back.leaf = Promised!Before(it.leaf, FALSE)
    BY <1>2, <1>3
<1>5. back.leaf # GONE
    <2>1. back.leaf \in Contents \cup {NULL}
        BY <1>2, <1>4, SidesHeld
    <2> QED BY <1>2, <2>1, Numbers, Sentinels
<1>6. PICK new : new = Iter(Where(back.xleaf, back.leaf), TRUE)
    OBVIOUS
<1>7. Good(new, value, rebuilds) /\ new.leaf = back.leaf /\ new.reverse = TRUE
    BY <1>2, <1>3, <1>5, <1>6, StampedGood
<1>8. iters' = [iters EXCEPT ![i] = new]
    BY <1>1, <1>6 DEF MakeReverse, make_reverse
<1>9. /\ At[i] # GONE /\ Rev[i] = FALSE
      /\ At' = [At EXCEPT ![i] = back.leaf] /\ Rev' = [Rev EXCEPT ![i] = TRUE]
      /\ UNCHANGED Contents
      /\ back.leaf = Promised!Before(At[i], FALSE)
    <2>1. /\ At' = [At EXCEPT ![i] = new.leaf] /\ Rev' = [Rev EXCEPT ![i] = new.reverse]
          /\ UNCHANGED Contents
        BY <1>2, <1>7, <1>8, OneChanges
    <2>2. At[i] = it.leaf /\ Rev[i] = it.reverse
        BY <1>1, AtFact
    <2> QED BY <1>2, <1>4, <1>7, <2>1, <2>2, Zenon DEF IsSet
<1>10. Promised!Reverse(i)
    BY <1>9, PromisedSides DEF Promised!Reverse, At, Rev
<1> QED BY <1>2, <1>7, <1>8, <1>10, OneChanges DEF Outcome, Promised!Next

(* A conversion stamps an iterator whose count is the current one: nothing *)
(* the client sees changes.                                                *)
LEMMA ConvertOutcome ==
    ASSUME MapInvariant, NEW i \in Iterator, Convert(i), Known(iters[i])
    PROVE  Outcome
<1>1. PICK it : it = iters[i]
    OBVIOUS
<1>2. /\ Trees /\ rebuilds \in 0 .. RebuildWrap - 1 /\ UNCHANGED vars
      /\ Good(it, value, rebuilds) /\ it.leaf # GONE /\ it.reverse \in BOOLEAN
    BY <1>1 DEF MapInvariant, AllGood, Convert, IsSet, Good, Iterators
<1>3. PICK new : new = Iter(Where(it.xleaf, it.leaf), it.reverse)
    OBVIOUS
<1>4. Good(new, value, rebuilds) /\ new.leaf = it.leaf /\ new.reverse = it.reverse
    BY <1>1, <1>2, <1>3, StampedGood
<1>5. iters' = [iters EXCEPT ![i] = new]
    BY <1>1, <1>3 DEF Convert, converted
<1>6. UNCHANGED Promised!vars
    <2>1. UNCHANGED Contents /\ UNCHANGED At /\ UNCHANGED Rev
        BY <1>1, <1>2, <1>4, <1>5, OneChanges
    <2> QED BY <2>1 DEF Promised!vars, At, Rev
<1> QED BY <1>2, <1>4, <1>5, <1>6, OneChanges DEF Outcome

(* An update keeps all the iterators, provided the count does not wrap.    *)
AllKept(its, erased, destroyed) ==
    rebuilds <= rebuilds' =>
        \A i \in Iterator :
            Keeps(its[i], erased, destroyed, value, rebuilds, value', rebuilds')

NoneOnEntry(its) == \A i \in Iterator : ~OnEntry(its[i])

(* The iterators `new' are what is left of `its'.                          *)
LeftOf(its, erased, new) ==
    \A i \in Iterator :
        /\ new[i].leaf = IF its[i].leaf \in erased THEN GONE ELSE its[i].leaf
        /\ new[i].reverse = (its[i].reverse /\ new[i].leaf # GONE)

LEMMA SurvivorsGood ==
    ASSUME rebuilds \in 0 .. RebuildWrap - 1, rebuilds' \in 0 .. RebuildWrap - 1,
           NEW its, AllGood(its, value, rebuilds),
           NEW erased, NEW destroyed, AllKept(its, erased, destroyed),
           NEW new, new = Survivors(its, erased, destroyed),
           rebuilds <= rebuilds' \/ NoneOnEntry(new)
    PROVE  AllGood(new, value', rebuilds') /\ LeftOf(its, erased, new)
<1>1. rebuilds \in Nat /\ rebuilds' \in Nat
    BY WrapAssumption
<1>2. ASSUME NEW i \in Iterator
      PROVE  /\ Good(new[i], value', rebuilds') /\ new[i] \in Iterators
             /\ new[i].leaf = IF its[i].leaf \in erased THEN GONE ELSE its[i].leaf
             /\ new[i].reverse = (its[i].reverse /\ new[i].leaf # GONE)
    <2>1. PICK it, left : it = its[i] /\ left = new[i]
        OBVIOUS
    <2>2. left = Survivor(it, erased, destroyed)
        BY <2>1 DEF Survivors, Survivor
    <2>3. Good(it, value, rebuilds) /\ it \in Iterators
        BY <2>1 DEF Good, AllGood
    <2>4. /\ left.leaf = IF it.leaf \in erased THEN GONE ELSE it.leaf
          /\ left.reverse = (it.reverse /\ it.leaf \notin erased)
        BY <2>2, <2>3, SurvivorFact
    <2>5. it.reverse \in BOOLEAN /\ (it.leaf = GONE => it.reverse = FALSE)
        BY <2>3 DEF Good, Iterators, IsSet
    <2>6. left.reverse = (it.reverse /\ left.leaf # GONE)
        BY <2>4, <2>5
    <2>7. Keeps(it, erased, destroyed, value, rebuilds, value', rebuilds')
        <3>1. CASE rebuilds <= rebuilds'
            BY <2>1, <3>1 DEF AllKept
        <3>2. CASE ~OnEntry(left)
            BY <2>4, <3>2 DEF Keeps, OnEntry
        <3> QED BY <2>1, <3>1, <3>2 DEF NoneOnEntry
    <2>8. Good(left, value', rebuilds')
        BY <1>1, <2>2, <2>3, <2>7, Survives
    <2>9. left \in Iterators
        BY <2>8 DEF Good
    <2> QED BY <2>1, <2>4, <2>6, <2>8, <2>9, Zenon
<1>3. new \in [Iterator -> Iterators]
    BY <1>2 DEF Survivors
<1> QED BY <1>2, <1>3 DEF AllGood, LeftOf

(* The same of the cursors.                                                *)
LEMMA CursorsLeft ==
    ASSUME NEW erased, NEW new, LeftOf(iters, erased, new),
           NEW at, at = [i \in Iterator |-> new[i].leaf]
    PROVE  /\ at = Promised!Left(erased)
           /\ Promised!Dropped(at) = [i \in Iterator |-> new[i].reverse]
<1>1. \A i \in Iterator :
        new[i].leaf = IF At[i] \in erased THEN GONE ELSE At[i]
    BY AtFact DEF LeftOf
<1>2. Promised!Left(erased) =
        [i \in Iterator |-> IF At[i] \in erased THEN GONE ELSE At[i]]
    BY PromisedSides DEF Promised!Left, At
<1>3. Promised!Dropped(at) = [i \in Iterator |-> Rev[i] /\ at[i] # GONE]
    BY PromisedSides DEF Promised!Dropped, Rev
<1>4. \A i \in Iterator : (Rev[i] /\ at[i] # GONE) = new[i].reverse
    BY AtFact DEF LeftOf
<1> QED BY <1>1, <1>2, <1>3, <1>4

(* CountReadable, for the iterators an update leaves.                      *)
LEMMA Readable ==
    ASSUME CountReadable, rebuilds \in Nat, rebuilds' \in Nat
    PROVE  rebuilds <= rebuilds' \/ NoneOnEntry(iters')
BY DEF CountReadable, NoneOnEntry

LEMMA InsertedGood ==
    ASSUME NEW v, DOMAIN v \in SUBSET Key, NEW n \in 0 .. RebuildWrap - 1,
           NEW k \in Key, Held(k, v),
           NEW it, it = [leaf |-> k, xleaf |-> CHOOSE x \in DOMAIN v : k \in v[x],
                         last |-> n, reverse |-> FALSE]
    PROVE  Good(it, v, n)
<1>1. PICK x : x = CHOOSE y \in DOMAIN v : k \in v[y]
    OBVIOUS
<1>2. x \in DOMAIN v /\ k \in v[x] /\ x \in Key
    BY <1>1 DEF Held
<1>3. it = [leaf |-> k, xleaf |-> x, last |-> n, reverse |-> FALSE]
    BY <1>1
<1>4. it \in Iterators /\ Cached(it, v) /\ it.leaf = k /\ it.last <= n
    BY <1>2, <1>3 DEF Iterators, Cached
<1> QED BY <1>4, Sentinels DEF Good, IsSet

LEMMA InsertOutcome ==
    ASSUME MapInvariant, NEW k \in Key, InsertEntry(k) \/ Index(k), CountReadable
    PROVE  Outcome
<1>1. /\ Trees /\ rebuilds \in 0 .. RebuildWrap - 1 /\ Insert(k)
      /\ AllGood(iters, value, rebuilds)
    BY DEF MapInvariant, InsertEntry, Index
<1>2. /\ Trees' /\ Contents' = Contents \cup {k}
      /\ rebuilds' \in 0 .. RebuildWrap - 1
    BY <1>1, InsertEffect, Counted
<1>3. PICK erased, destroyed, new : /\ erased = {k}
                                    /\ destroyed = InsertDestroys(k, InsertionLeaf(k))
                                    /\ new = Survivors(iters, erased, destroyed)
    OBVIOUS
<1>4. PICK mine : mine = InsertedIter(k)'
    OBVIOUS
<1>5. \/ iters' = new
      \/ \E i \in Iterator : ~IsSet(new[i]) /\ iters' = [new EXCEPT ![i] = mine]
    BY <1>3, <1>4 DEF InsertEntry, Index, InsertLeaves
<1>6. mine = [leaf |-> k, xleaf |-> CHOOSE x \in DOMAIN value' : k \in value'[x],
              last |-> rebuilds', reverse |-> FALSE]
    BY <1>4 DEF InsertedIter, TreeOf, XLeaves
<1>7. Good(mine, value', rebuilds')
    <2>1. Held(k, value') /\ DOMAIN value' \in SUBSET Key
        BY <1>2 DEF Held, Contents, XLeaves, Trees, Shape, Typed
    <2> QED BY <1>2, <1>6, <2>1, InsertedGood
<1>8. mine.leaf = k /\ mine.reverse = FALSE /\ mine \in Iterators /\ OnEntry(mine)
    <2>1. mine.leaf = k /\ mine.reverse = FALSE
        BY <1>6
    <2> QED BY <1>7, <2>1, Sentinels DEF Good, OnEntry
<1>9. rebuilds <= rebuilds' \/ NoneOnEntry(new)
    <2>1. rebuilds <= rebuilds' \/ NoneOnEntry(iters')
        BY <1>1, <1>2, Readable, WrapAssumption
    <2>2. CASE iters' = new
        BY <2>1, <2>2
    <2>3. CASE \E i \in Iterator : ~IsSet(new[i]) /\ iters' = [new EXCEPT ![i] = mine]
        <3>1. PICK i \in Iterator : iters' = [new EXCEPT ![i] = mine]
            BY <2>3
        <3>2. iters'[i] = mine
            BY <1>3, <3>1 DEF Survivors
        <3> QED BY <1>8, <2>1, <3>2 DEF NoneOnEntry
    <2> QED BY <1>5, <2>2, <2>3
<1>10. AllKept(iters, erased, destroyed)
    BY <1>1, <1>3, InsertKeeps DEF AllKept
<1>11. AllGood(new, value', rebuilds') /\ LeftOf(iters, erased, new)
    BY <1>1, <1>2, <1>3, <1>9, <1>10, SurvivorsGood
<1>12. PICK at : at = [i \in Iterator |-> new[i].leaf]
    OBVIOUS
<1>13. at = Promised!Left({k})
    <2>1. at = Promised!Left(erased)
        BY <1>11, <1>12, CursorsLeft
    <2> QED BY <1>3, <2>1, Zenon
<1>14. Promised!Dropped(at) = [i \in Iterator |-> new[i].reverse]
    BY <1>11, <1>12, CursorsLeft
<1>15. CASE iters' = new
    <2>1. GoodAfter
        BY <1>11, <1>15 DEF GoodAfter
    <2>2. At' = Promised!Left({k}) /\ Rev' = Promised!Dropped(Promised!Left({k}))
        BY <1>12, <1>13, <1>14, <1>15 DEF At, Rev
    <2>3. Promised!Insert(k)
        BY <1>2, <2>2, Zenon DEF Promised!Insert, At, Rev
    <2> QED BY <1>1, <2>1, <2>3 DEF Outcome, Promised!Next, Next
<1>16. CASE \E i \in Iterator : ~IsSet(new[i]) /\ iters' = [new EXCEPT ![i] = mine]
    <2>1. PICK i \in Iterator : ~IsSet(new[i]) /\ iters' = [new EXCEPT ![i] = mine]
        BY <1>16
    <2>2. /\ iters' \in [Iterator -> Iterators] /\ iters'[i] = mine
          /\ \A j \in Iterator \ {i} : iters'[j] = new[j]
        BY <1>8, <1>11, <2>1 DEF AllGood
    <2>3. GoodAfter
        BY <1>7, <1>11, <2>2 DEF GoodAfter, AllGood
    <2>4. at[i] = GONE /\ new[i].reverse = FALSE
        BY <1>11, <1>12, <2>1 DEF IsSet, LeftOf
    <2>5. At' = [at EXCEPT ![i] = k]
        BY <1>8, <1>12, <2>2 DEF At
    <2>6. Rev' = Promised!Dropped(at)
        BY <1>8, <1>14, <2>2, <2>4 DEF Rev
    <2>7. /\ Promised!Left({k})[i] = Promised!GONE
          /\ At' = [Promised!Left({k}) EXCEPT ![i] = k]
          /\ Rev' = Promised!Dropped(Promised!Left({k}))
        BY <1>13, <2>4, <2>5, <2>6, PromisedSides, Zenon
    <2>8. Promised!Insert(k)
        BY <1>2, <2>7, Zenon DEF Promised!Insert, At, Rev
    <2> QED BY <1>1, <2>3, <2>8 DEF Outcome, Promised!Next, Next
<1> QED BY <1>5, <1>15, <1>16

LEMMA RemovalLeaves ==
    ASSUME MapInvariant, NEW k \in Key, NEW hint \in XLeaves \cup {NULL},
           NEW its, AllGood(its, value, rebuilds),
           RemoveEntry(k, hint, its), ~Misleads(k, hint, its), CountReadable
    PROVE  /\ Remove(k) /\ k \in Contents /\ Contents' = Contents \ {k}
           /\ GoodAfter /\ LeftOf(its, {k}, iters')
<1>1. Trees /\ rebuilds \in 0 .. RebuildWrap - 1 /\ RemoveFrom(k, hint)
    BY DEF MapInvariant, RemoveEntry
<1>2. /\ Trees' /\ k \in Contents /\ Contents' = Contents \ {k}
      /\ rebuilds' \in 0 .. RebuildWrap - 1
    BY <1>1, RemoveFromEffect, Counted
<1>3. PICK x : x = RemovalLeaf(k, hint)
    OBVIOUS
<1>4. PICK erased, destroyed : /\ erased = {k}
                               /\ destroyed = RemovalDestroys(x, value[x] \ {k})
    OBVIOUS
<1>5. iters' = Survivors(its, erased, destroyed)
    BY <1>3, <1>4 DEF RemoveEntry
<1>6. rebuilds <= rebuilds' \/ NoneOnEntry(iters')
    BY <1>1, <1>2, Readable, WrapAssumption
<1>7. AllKept(its, erased, destroyed)
    <2>1. \A i \in Iterator : ~Misled(its[i], k, x)
        BY <1>3 DEF Misleads, Misled
    <2>2. ASSUME rebuilds <= rebuilds', NEW i \in Iterator
          PROVE  Keeps(its[i], {k}, RemovalDestroys(x, value[x] \ {k}),
                       value, rebuilds, value', rebuilds')
        BY <1>1, <1>3, <2>1, <2>2, RemoveKeeps
    <2> QED BY <1>4, <2>2 DEF AllKept
<1>8. AllGood(iters', value', rebuilds') /\ LeftOf(its, erased, iters')
    BY <1>1, <1>2, <1>5, <1>6, <1>7, SurvivorsGood
<1>9. LeftOf(its, {k}, iters')
    BY <1>4, <1>8, Zenon
<1> QED BY <1>1, <1>2, <1>8, <1>9 DEF GoodAfter, Remove

LEMMA EraseKeyOutcome ==
    ASSUME MapInvariant, NEW k \in Key, GuardedEraseKey(k), CountReadable
    PROVE  Outcome
<1>1. PICK where : where = Find(k)
    OBVIOUS
<1>2. /\ where.leaf # NULL /\ RemoveEntry(k, where.xleaf, iters)
      /\ ~Misleads(k, where.xleaf, iters)
    BY <1>1 DEF GuardedEraseKey, EraseKey
<1>3. where.xleaf \in XLeaves \cup {NULL}
    <2>1. where \in Answers \cup ReverseAnswers
        BY <1>1 DEF Answers
    <2> QED BY <1>2, <2>1, AnswersPlaced DEF Placed, MapInvariant
<1>4. /\ Remove(k) /\ k \in Contents /\ Contents' = Contents \ {k}
      /\ GoodAfter /\ LeftOf(iters, {k}, iters')
    BY <1>2, <1>3, RemovalLeaves DEF MapInvariant
<1>5. PICK at : at = [i \in Iterator |-> iters'[i].leaf]
    OBVIOUS
<1>6. /\ at = Promised!Left({k})
      /\ Promised!Dropped(at) = [i \in Iterator |-> iters'[i].reverse]
    BY <1>4, <1>5, CursorsLeft
<1>7. At' = at /\ Rev' = [i \in Iterator |-> iters'[i].reverse]
    BY <1>5 DEF At, Rev
<1>8. At' = Promised!Left({k}) /\ Rev' = Promised!Dropped(At')
    BY <1>6, <1>7, Zenon
<1>9. Promised!Erase(k)
    BY <1>4, <1>8, Zenon DEF Promised!Erase, At, Rev
<1> QED BY <1>4, <1>9 DEF Outcome, Promised!Next, Next

(* The step an iterator takes when its own entry is erased.                *)
LEMMA StepLeaves ==
    ASSUME Trees, NEW k \in Contents, NEW down \in BOOLEAN
    PROVE  Promised!After(k, down) \notin {k, GONE}
<1>1. Contents \in SUBSET Nat /\ IsFiniteSet(Contents) /\ k \in Nat /\ k # NULL
    BY Numbers, NullFact
<1>2. /\ PredIn(Contents, k, TRUE) # k
      /\ SuccIn(Contents, k, TRUE) # k
    <2>1. ~(k < k)
        BY <1>1
    <2>2. k \notin Below(Contents, k, TRUE) /\ k \notin Above(Contents, k, TRUE)
        BY <2>1, Zenon DEF Below, Above
    <2>3. PICK B, A, p, q :
            /\ B = Below(Contents, k, TRUE) /\ p = PredIn(Contents, k, TRUE)
            /\ A = Above(Contents, k, TRUE) /\ q = SuccIn(Contents, k, TRUE)
        OBVIOUS
    <2>4. (p = NULL \/ p \in B) /\ (q = NULL \/ q \in A)
        BY <1>1, <2>3, PredInFact, SuccInFact
    <2>5. k \notin B /\ k \notin A
        BY <2>2, <2>3, Zenon
    <2>6. p # k /\ q # k
        BY <1>1, <2>4, <2>5
    <2> QED BY <2>3, <2>6, Zenon
<1>3. Promised!After(k, down) # k
    BY <1>1, <1>2, PromisedSides DEF Promised!After
<1>4. Promised!After(k, down) # GONE
    BY SidesHeld, Numbers, Sentinels
<1> QED BY <1>3, <1>4

LEMMA EraseAtOutcome ==
    ASSUME MapInvariant, NEW i \in Iterator, GuardedEraseAt(i), CountReadable
    PROVE  Outcome
<1>1. PICK it, k, next, its : /\ it = iters[i] /\ k = it.leaf
                              /\ next = inc(it) /\ its = Stepped(i)
    OBVIOUS
<1>2. /\ Trees /\ rebuilds \in 0 .. RebuildWrap - 1
      /\ iters \in [Iterator -> Iterators]
      /\ \A j \in Iterator : Good(iters[j], value, rebuilds)
      /\ Good(it, value, rebuilds) /\ OnEntry(it) /\ Known(it)
      /\ RemoveEntry(k, it.xleaf, its) /\ ~Misleads(k, it.xleaf, its)
    BY <1>1 DEF MapInvariant, AllGood, GuardedEraseAt, EraseAt
<1>3. it.xleaf \in XLeaves /\ k \in Contents /\ k \in Key /\ IsSet(it) /\ k # GONE
    <2>1. it.xleaf \in XLeaves /\ Held(k, value)
        BY <1>1, <1>2 DEF Good, Cached, Known, Outdated, XLeaves
    <2>2. k \in Contents
        BY <2>1, HeldFact
    <2> QED BY <1>1, <1>2, <2>1, <2>2, Numbers, Sentinels DEF IsSet
<1>4. /\ Good(next, value, rebuilds)
      /\ next.leaf = Promised!After(k, it.reverse)
      /\ next.reverse = it.reverse /\ it.reverse \in BOOLEAN
    BY <1>1, <1>2, <1>3, IncRight
<1>5. next.leaf \notin {k, GONE}
    BY <1>2, <1>3, <1>4, StepLeaves
<1>6. /\ its \in [Iterator -> Iterators] /\ its[i] = next
      /\ \A j \in Iterator \ {i} : its[j] = iters[j]
    <2>1. its = [iters EXCEPT ![i] = next] /\ next \in Iterators
        BY <1>1, <1>4 DEF Stepped, Good
    <2> QED BY <1>2, <2>1
<1>7. AllGood(its, value, rebuilds)
    BY <1>2, <1>4, <1>6 DEF AllGood
<1>8. /\ Remove(k) /\ k \in Contents /\ Contents' = Contents \ {k}
      /\ GoodAfter /\ LeftOf(its, {k}, iters')
    BY <1>2, <1>3, <1>7, RemovalLeaves
<1>9. At[i] = k /\ Rev[i] = it.reverse
    BY <1>1, AtFact
<1>10. Promised!Left({k}) = [j \in Iterator |-> IF At[j] = k THEN GONE ELSE At[j]]
    BY PromisedSides DEF Promised!Left, At
<1>11. \A j \in Iterator :
        iters'[j].leaf = IF j = i THEN next.leaf ELSE IF At[j] = k THEN GONE ELSE At[j]
    <2>1. \A j \in Iterator :
            iters'[j].leaf = IF its[j].leaf = k THEN GONE ELSE its[j].leaf
        BY <1>8 DEF LeftOf
    <2>2. \A j \in Iterator \ {i} : its[j].leaf = At[j]
        BY <1>6, AtFact
    <2>3. its[i].leaf = next.leaf /\ next.leaf # k
        BY <1>5, <1>6
    <2> QED BY <2>1, <2>2, <2>3
<1>12. At' = [Promised!Left({k}) EXCEPT ![i] = next.leaf]
    BY <1>10, <1>11 DEF At
<1>13. \A j \in Iterator : iters'[j].reverse = (Rev[j] /\ iters'[j].leaf # GONE)
    BY <1>4, <1>6, <1>8, <1>9, AtFact DEF LeftOf
<1>14. PICK at : at = At'
    OBVIOUS
<1>15. Promised!Dropped(at) = [j \in Iterator |-> Rev[j] /\ at[j] # GONE]
    BY PromisedSides DEF Promised!Dropped, Rev
<1>16. Rev' = Promised!Dropped(at)
    BY <1>13, <1>14, <1>15 DEF At, Rev
<1>17. /\ At[i] \in Contents /\ Contents' = Contents \ {At[i]}
       /\ At' = [Promised!Left({At[i]}) EXCEPT ![i] = Promised!After(At[i], Rev[i])]
       /\ Rev' = Promised!Dropped(At')
    BY <1>4, <1>8, <1>9, <1>12, <1>14, <1>16, Zenon
<1>18. Promised!EraseAt(i)
    BY <1>17, Zenon DEF Promised!EraseAt, At, Rev
<1> QED BY <1>3, <1>8, <1>18 DEF Outcome, Promised!Next, Next

LEMMA ClearOutcome ==
    ASSUME MapInvariant, ClearEntries
    PROVE  Outcome
<1>1. /\ rebuilds \in 0 .. RebuildWrap - 1 /\ AllGood(iters, value, rebuilds)
      /\ Clear /\ rebuilds' = 0
    BY DEF MapInvariant, ClearEntries, Clear
<1>2. rebuilds' \in 0 .. RebuildWrap - 1
    BY <1>1, WrapAssumption
<1>3. PICK erased, destroyed, new : /\ erased = Contents /\ destroyed = XLeaves
                                    /\ new = Survivors(iters, erased, destroyed)
    OBVIOUS
<1>4. iters' = new
    BY <1>3 DEF ClearEntries
<1>5. \A i \in Iterator : OnEntry(iters[i]) => iters[i].leaf \in erased
    BY <1>1, <1>3, HeldFact DEF AllGood, Good
<1>6. AllKept(iters, erased, destroyed)
    BY <1>5 DEF AllKept, Keeps
<1>7. NoneOnEntry(new)
    <2>1. ASSUME NEW i \in Iterator PROVE ~OnEntry(new[i])
        <3>1. PICK it, left : it = iters[i] /\ left = new[i]
            OBVIOUS
        <3>2. left = Survivor(it, erased, destroyed) /\ it \in Iterators
            BY <1>1, <1>3, <3>1 DEF Survivors, Survivor, AllGood
        <3>3. left.leaf = IF it.leaf \in erased THEN GONE ELSE it.leaf
            BY <3>2, SurvivorFact
        <3> QED BY <1>5, <3>1, <3>3 DEF OnEntry
    <2> QED BY <2>1 DEF NoneOnEntry
<1>8. AllGood(new, value', rebuilds') /\ LeftOf(iters, erased, new)
    BY <1>1, <1>2, <1>3, <1>6, <1>7, SurvivorsGood
<1>9. PICK at : at = [i \in Iterator |-> new[i].leaf]
    OBVIOUS
<1>10. /\ at = Promised!Left(erased)
       /\ Promised!Dropped(at) = [i \in Iterator |-> new[i].reverse]
    BY <1>8, <1>9, CursorsLeft
<1>11. At' = at /\ Rev' = [i \in Iterator |-> new[i].reverse]
    BY <1>4, <1>9 DEF At, Rev
<1>12. At' = Promised!Left(Contents) /\ Rev' = Promised!Dropped(At')
    BY <1>3, <1>10, <1>11, Zenon
<1>13. Contents' = {}
    BY <1>1 DEF Clear, Contents, XLeaves
<1>14. Promised!Clear
    BY <1>12, <1>13, Zenon DEF Promised!Clear, At, Rev
<1>15. GoodAfter
    BY <1>4, <1>8 DEF GoodAfter
<1> QED BY <1>1, <1>14, <1>15 DEF Outcome, Promised!Next, Next

LEMMA NextOutcome ==
    ASSUME MapInvariant, [GuardedNext]_map_vars
    PROVE  Outcome
<1>1. CASE GuardedNext
    <2>1. CountReadable
        BY <1>1 DEF GuardedNext
    <2>2. CASE \E i \in Iterator : Make(i) \/ Drop(i) \/ Increment(i) \/ Decrement(i)
        BY <2>2, MakeOutcome, DropOutcome, StepOutcome
    <2>3. CASE \E i \in Iterator : \/ MakeReverse(i) /\ Known(dec(iters[i]))
                                   \/ Convert(i) /\ Known(iters[i])
        BY <2>3, ReverseOutcome, ConvertOutcome
    <2>4. CASE \E i \in Iterator : GuardedEraseAt(i)
        BY <2>1, <2>4, EraseAtOutcome
    <2>5. CASE \E k \in Key : InsertEntry(k) \/ Index(k) \/ GuardedEraseKey(k)
        BY <2>1, <2>5, InsertOutcome, EraseKeyOutcome
    <2>6. CASE ClearEntries
        BY <2>6, ClearOutcome
    <2> QED BY <1>1, <2>2, <2>3, <2>4, <2>5, <2>6 DEF GuardedNext
<1>2. CASE UNCHANGED map_vars
    <2>1. UNCHANGED vars /\ iters' = iters
        BY <1>2 DEF map_vars, vars
    <2>2. GoodAfter
        BY <2>1 DEF GoodAfter, MapInvariant, vars
    <2>3. Contents' = Contents
        BY <2>1 DEF vars, Contents, XLeaves
    <2>4. UNCHANGED Promised!vars
        BY <2>1, <2>3 DEF Promised!vars
    <2> QED BY <2>1, <2>2, <2>4 DEF Outcome
<1> QED BY <1>1, <1>2

LEMMA InitMapInvariant ==
    ASSUME MapInit
    PROVE  MapInvariant
<1>1. Invariant
    BY InitInvariant DEF MapInit
<1>2. iters = [i \in Iterator |-> Unset] /\ Good(Unset, value, rebuilds)
    BY EndGood DEF MapInit
<1>3. AllGood(iters, value, rebuilds)
    BY <1>2 DEF AllGood, Good
<1> QED BY <1>1, <1>3, InvariantParts DEF MapInvariant

LEMMA NextMapInvariant ==
    ASSUME MapInvariant, [GuardedNext]_map_vars
    PROVE  MapInvariant'
<1>1. Outcome
    BY NextOutcome
<1>2. Invariant'
    BY <1>1, MapInvariantParts, NextInvariant DEF Outcome
<1>3. (/\ Trees /\ rebuilds \in 0 .. RebuildWrap - 1
       /\ size = Cardinality(Contents) /\ size \in Nat)'
    BY <1>2 DEF Invariant, TypeOK, SizeExact, Trees, Shape, Typed
<1> QED BY <1>1, <1>3 DEF Outcome, GoodAfter, MapInvariant

-----------------------------------------------------------------------------
(* The theorems.  The invariant is inductive only with all of its parts:   *)
(* an iterator's cache stays right because updates move keys between trees *)
(* only where the count tells, which takes the order of the trees; and a   *)
(* cached xleaf is found to be the entry's because no two trees share one. *)
THEOREM MapInvariantHolds == GuardedSpec => []MapInvariant
<1>1. MapInit => MapInvariant
    BY InitMapInvariant
<1>2. MapInvariant /\ [GuardedNext]_map_vars => MapInvariant'
    BY NextMapInvariant
<1> QED BY <1>1, <1>2, PTL DEF GuardedSpec

(* Iterators keep pointers to entries and xleaves, or null pointers.       *)
THEOREM IteratorsTypeCorrect == GuardedSpec => []IteratorsTyped
<1>1. MapInvariant => IteratorsTyped
    BY MapInvariantParts
<1> QED BY <1>1, MapInvariantHolds, PTL

(* Whatever was inserted, erased, split and merged since an iterator was   *)
(* made, it points at its entry, and the xleaf it has cached is right      *)
(* where its count says so.                                                *)
THEOREM CachesCorrect == GuardedSpec => []CacheExact
<1>1. MapInvariant => CacheExact
    BY MapInvariantParts
<1> QED BY <1>1, MapInvariantHolds, PTL

(* ++ and -- never read a destroyed xleaf and lead to the neighbour in the *)
(* whole container as it is by then.                                       *)
THEOREM StepsCorrect == GuardedSpec => []StepsExact
<1>1. ASSUME MapInvariant PROVE StepsExact
    <2> SUFFICES ASSUME NEW i \in Iterator, NEW it, it = iters[i], OnEntry(it)
                 PROVE  /\ Moves(it, FALSE) /\ Moves(it, TRUE)
                        /\ Moved(it, FALSE).leaf = SuccIn(Contents, it.leaf, TRUE)
                        /\ Moved(it, TRUE).leaf = PredIn(Contents, it.leaf, TRUE)
        BY Zenon DEF StepsExact
    <2>1. /\ Trees /\ rebuilds \in 0 .. RebuildWrap - 1
          /\ Good(it, value, rebuilds)
        BY <1>1 DEF MapInvariant, AllGood
    <2>2. StepRight(it, FALSE, SuccIn(Contents, it.leaf, TRUE))
        BY <2>1, MovedUp
    <2>3. StepRight(it, TRUE, PredIn(Contents, it.leaf, TRUE))
        BY <2>1, MovedDown
    <2> QED BY <2>2, <2>3, Zenon DEF StepRight
<1>2. MapInvariant => StepsExact
    BY <1>1
<1> QED BY <1>2, MapInvariantHolds, PTL

(* The iterators of fastmap are the cursors the README promises: they stay *)
(* on their entries, step to the neighbours in the container as it is by   *)
(* then, and are invalidated only with their entry.                        *)
THEOREM CursorsImplemented == GuardedSpec => ImplementsCursors
<1>1. ASSUME MapInit PROVE Promised!Init
    <2>1. value = [x \in {} |-> {}] /\ iters = [i \in Iterator |-> Unset]
        BY <1>1 DEF MapInit, Init
    <2>2. Contents = {}
        BY <2>1 DEF Contents, XLeaves
    <2>3. /\ At = [i \in Iterator |-> Promised!GONE]
          /\ Rev = [i \in Iterator |-> FALSE]
        BY <2>1, EndGood, PromisedSides DEF At, Rev
    <2> QED BY <2>2, <2>3, Zenon DEF Promised!Init, At, Rev
<1>2. ASSUME MapInvariant, [GuardedNext]_map_vars
      PROVE  [Promised!Next]_(Promised!vars)
    BY <1>2, NextOutcome DEF Outcome
<1>3. MapInit => Promised!Init
    BY <1>1
<1>4. MapInvariant /\ [GuardedNext]_map_vars => [Promised!Next]_(Promised!vars)
    BY <1>2
<1> QED BY <1>3, <1>4, MapInvariantHolds, PTL
        DEF GuardedSpec, ImplementsCursors, Promised!Spec
=============================================================================
