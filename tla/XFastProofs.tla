----------------------------- MODULE XFastProofs ------------------------------
(***************************************************************************)
(* Theorems about the x-fast trie, for every key length, every BitExtractor*)
(* that tells of one trie in the order of the keys, and every set of       *)
(* leaves: the binary search, the tables and their descendants, the list,  *)
(* and with them all queries.                                              *)
(***************************************************************************)
EXTENDS XFast, OperatorProofs

-----------------------------------------------------------------------------
(* Paths.  Bits are told apart as propositions: Bit(k, n) has a truth value*)
(* whatever extract_bit is outside AnyKey.                                 *)

Bit(k, n) == extract_bit(k, n) = TRUE

LEMMA BitFact ==
    ASSUME NEW k \in AnyKey, NEW n \in 0 .. H - 1
    PROVE  /\ extract_bit(k, n) \in BOOLEAN
           /\ extract_bit(k, n) <=> Bit(k, n)
           /\ extract_bit(k, n) = Bit(k, n)
<1>1. extract_bit(k, n) \in BOOLEAN
    BY BitsAssumption
<1> QED BY <1>1, Zenon DEF Bit

LEMMA LengthFact == H \in Nat /\ H >= 2 /\ H - 1 \in Nat
BY LengthAssumption

LEMMA SameIsEquivalence ==
    ASSUME NEW a, NEW b, NEW c, NEW h
    PROVE  /\ SamePath(a, a, h)
           /\ SamePath(a, b, h) => SamePath(b, a, h)
           /\ SamePath(a, b, h) /\ SamePath(b, c, h) => SamePath(a, c, h)
BY DEF SamePath

(* One step down the trie.                                                 *)
LEMMA SameDown ==
    ASSUME NEW k \in AnyKey, NEW l \in AnyKey, NEW n \in 0 .. H - 1
    PROVE  /\ SamePath(k, l, n) <=> SamePath(k, l, n + 1) /\ (Bit(k, n) <=> Bit(l, n))
           /\ SamePath(k, l, n + 1) /\ ~Bit(k, n) /\ Bit(l, n) => k < l
<1>1. n # H
    BY LengthFact
<1>2. shift(k, n) = shift(l, n) <=>
          SamePath(k, l, n + 1) /\ extract_bit(k, n) = extract_bit(l, n)
    BY BitsAssumption
<1>3. SamePath(k, l, n + 1) /\ ~extract_bit(k, n) /\ extract_bit(l, n) => k < l
    BY BitsAssumption
<1>4. extract_bit(k, n) = extract_bit(l, n) <=> (Bit(k, n) <=> Bit(l, n))
    BY BitFact, Zenon
<1>5. SamePath(k, l, n) <=> shift(k, n) = shift(l, n)
    BY <1>1 DEF SamePath
<1>6. (extract_bit(k, n) <=> Bit(k, n)) /\ (extract_bit(l, n) <=> Bit(l, n))
    BY BitFact
<1>7. SamePath(k, l, n) <=> SamePath(k, l, n + 1) /\ (Bit(k, n) <=> Bit(l, n))
    BY <1>2, <1>4, <1>5, Zenon
<1>8. SamePath(k, l, n + 1) /\ ~Bit(k, n) /\ Bit(l, n) => k < l
    BY <1>3, <1>6, Zenon
<1> QED BY <1>7, <1>8

LEMMA LevelsFinite ==
    ASSUME NEW S, S \subseteq 0 .. H
    PROVE  S \in SUBSET Nat /\ IsFiniteSet(S)
<1>1. IsFiniteSet(0 .. H)
    BY FS_Interval, LengthFact
<1>2. IsFiniteSet(S)
    BY <1>1, FS_Subset
<1> QED BY <1>2, LengthFact

(* A path once shared is shared all the way up.                            *)
LEMMA SameUp ==
    ASSUME NEW k \in AnyKey, NEW l \in AnyKey, NEW h \in 0 .. H, NEW g \in h .. H,
           SamePath(k, l, h)
    PROVE  SamePath(k, l, g)
<1> DEFINE Parted == {f \in h .. H : ~SamePath(k, l, f)}
<1>1. SUFFICES ASSUME Parted # {} PROVE FALSE
    BY Zenon
<1>2. Parted \subseteq 0 .. H
    BY LengthFact
<1>3. PICK f \in Parted : \A e \in Parted : f <= e
    BY <1>1, <1>2, EndsExist, LevelsFinite
<1>4. f \in Nat /\ f > h /\ f - 1 \in h .. H /\ f - 1 \in 0 .. H - 1 /\ f - 1 + 1 = f
    BY LengthFact
<1>5. f - 1 \notin Parted
    BY <1>3, <1>4
<1>6. SamePath(k, l, f - 1)
    BY <1>4, <1>5
<1> QED BY <1>4, <1>6, SameDown

(* Different paths part at one level, where the bits tell the order.       *)
LEMMA Parting ==
    ASSUME NEW k \in AnyKey, NEW l \in AnyKey, NEW h \in 0 .. H,
           ~SamePath(k, l, h)
    PROVE  \E g \in h .. H - 1 :
               /\ SamePath(k, l, g + 1) /\ ~SamePath(k, l, g)
               /\ Bit(k, g) <=> ~Bit(l, g)
               /\ Bit(l, g) <=> k < l
               /\ Bit(k, g) <=> l < k
<1> DEFINE Shared == {f \in h .. H : SamePath(k, l, f)}
<1>1. H \in Shared
    BY LengthFact DEF SamePath
<1>2. Shared \subseteq 0 .. H
    BY LengthFact
<1>3. PICK f \in Shared : \A e \in Shared : f <= e
    BY <1>1, <1>2, EndsExist, LevelsFinite
<1> DEFINE g == f - 1
<1>4. f # h
    BY <1>3
<1>5. g \in h .. H - 1 /\ g \in 0 .. H - 1 /\ g + 1 = f /\ g < f
    BY <1>4, LengthFact
<1>6. g \notin Shared
    BY <1>3, <1>5
<1>7. SamePath(k, l, g + 1) /\ ~SamePath(k, l, g)
    BY <1>5, <1>6, LengthFact
<1> HIDE DEF g
<1>8. SamePath(l, k, g + 1)
    BY <1>7, SameIsEquivalence
<1>9. Bit(k, g) <=> ~Bit(l, g)
    BY <1>5, <1>7, SameDown
<1>10. (Bit(l, g) => k < l) /\ (Bit(k, g) => l < k)
    BY <1>5, <1>7, <1>8, <1>9, SameDown
<1>11. k \in Nat /\ l \in Nat
    BY LeafAssumption
<1>12. (Bit(l, g) <=> k < l) /\ (Bit(k, g) <=> l < k)
    BY <1>9, <1>10, <1>11
<1> QED BY <1>5, <1>7, <1>9, <1>12

(* A key between two on one path is on that path too.                      *)
LEMMA Between ==
    ASSUME NEW a \in AnyKey, NEW b \in AnyKey, NEW c \in AnyKey, NEW h \in 0 .. H,
           SamePath(a, c, h), a <= b, b <= c
    PROVE  SamePath(a, b, h)
<1>1. SUFFICES ASSUME ~SamePath(a, b, h) PROVE FALSE
    OBVIOUS
<1>2. PICK g \in h .. H - 1 :
          /\ SamePath(a, b, g + 1)
          /\ Bit(a, g) <=> ~Bit(b, g)
          /\ Bit(b, g) <=> a < b
          /\ Bit(a, g) <=> b < a
    BY <1>1, Parting
<1>3. g \in 0 .. H - 1 /\ g \in h .. H /\ g + 1 \in h .. H
    BY LengthFact
<1>4. SamePath(a, c, g) /\ SamePath(a, c, g + 1)
    BY <1>3, SameUp
<1>5. Bit(a, g) <=> Bit(c, g)
    BY <1>3, <1>4, SameDown
<1>6. SamePath(c, b, g + 1)
    BY <1>2, <1>4, SameIsEquivalence
<1>7. a \in Nat /\ b \in Nat /\ c \in Nat
    BY LeafAssumption
<1>8. ~Bit(a, g) /\ Bit(b, g)
    BY <1>2, <1>7
<1>9. c < b
    BY <1>3, <1>5, <1>6, <1>8, SameDown
<1> QED BY <1>7, <1>9

-----------------------------------------------------------------------------
(* The binary search.  A recursive definition means a function that obeys  *)
(* it only if there is one: it is built up from the shortest intervals.    *)

Intervals == (0 .. H) \X (0 .. H)

Halved(k, f) ==
    [b \in Intervals |->
        LET l == b[1]
            r == b[2]
            m == (r + l) \div 2
        IN  IF r - l > 1
                THEN IF Contains(k, m) THEN f[<<l, m>>] ELSE f[<<m, r>>]
            ELSE IF Contains(k, l) THEN l ELSE r]

LEMMA HalvedFact ==
    ASSUME NEW k, NEW f, NEW l \in 0 .. H, NEW r \in 0 .. H, r - l > 1,
           NEW m \in 0 .. H, m = (r + l) \div 2
    PROVE  /\ Contains(k, m) => Halved(k, f)[<<l, r>>] = f[<<l, m>>]
           /\ ~Contains(k, m) => Halved(k, f)[<<l, r>>] = f[<<m, r>>]
<1>1. <<l, r>> \in Intervals /\ <<l, r>>[1] = l /\ <<l, r>>[2] = r
    BY DEF Intervals
<1> QED BY <1>1, Zenon DEF Halved

LEMMA HalvedEnd ==
    ASSUME NEW k, NEW f, NEW l \in 0 .. H, NEW r \in 0 .. H, ~(r - l > 1)
    PROVE  /\ Contains(k, l) => Halved(k, f)[<<l, r>>] = l
           /\ ~Contains(k, l) => Halved(k, f)[<<l, r>>] = r
<1>1. <<l, r>> \in Intervals /\ <<l, r>>[1] = l /\ <<l, r>>[2] = r
    BY DEF Intervals
<1> QED BY <1>1, Zenon DEF Halved

LEMMA MiddleFact ==
    ASSUME NEW l \in 0 .. H, NEW r \in 0 .. H, r - l > 1,
           NEW m, m = (r + l) \div 2
    PROVE  m \in 0 .. H /\ l < m /\ m < r
BY LengthFact

Solves(k, n, f) ==
    \A l, r \in 0 .. H : r - l <= n => f[<<l, r>>] = Halved(k, f)[<<l, r>>]

LEMMA SearchStep ==
    ASSUME NEW k, NEW n \in Nat, NEW f, n = 0 \/ Solves(k, n - 1, f)
    PROVE  Solves(k, n, Halved(k, f))
<1> DEFINE g == Halved(k, f)
<1>1. SUFFICES ASSUME NEW l \in 0 .. H, NEW r \in 0 .. H, r - l <= n
               PROVE  g[<<l, r>>] = Halved(k, g)[<<l, r>>]
    BY DEF Solves
<1> DEFINE m == (r + l) \div 2
<1> HIDE DEF g, m
<1>2. CASE r - l > 1
    <2>1. m \in 0 .. H /\ l < m /\ m < r /\ n # 0
        BY <1>1, <1>2, MiddleFact, LengthFact DEF m
    <2>2. m - l <= n - 1 /\ r - m <= n - 1
        BY <1>1, <2>1, LengthFact
    <2>3. g[<<l, m>>] = f[<<l, m>>] /\ g[<<m, r>>] = f[<<m, r>>]
        BY <2>1, <2>2 DEF Solves, g
    <2>4. /\ Contains(k, m) => g[<<l, r>>] = f[<<l, m>>] /\ Halved(k, g)[<<l, r>>] = g[<<l, m>>]
          /\ ~Contains(k, m) => g[<<l, r>>] = f[<<m, r>>] /\ Halved(k, g)[<<l, r>>] = g[<<m, r>>]
        BY <1>2, <2>1, HalvedFact DEF m, g
    <2> QED BY <2>3, <2>4
<1>3. CASE ~(r - l > 1)
    <2>1. /\ Contains(k, l) => Halved(k, f)[<<l, r>>] = l
          /\ ~Contains(k, l) => Halved(k, f)[<<l, r>>] = r
        BY <1>3, HalvedEnd
    <2>2. /\ Contains(k, l) => Halved(k, g)[<<l, r>>] = l
          /\ ~Contains(k, l) => Halved(k, g)[<<l, r>>] = r
        BY <1>3, HalvedEnd
    <2>3. g[<<l, r>>] = Halved(k, f)[<<l, r>>]
        BY DEF g
    <2> QED BY <2>1, <2>2, <2>3
<1> QED BY <1>2, <1>3

LEMMA SearchSolved ==
    ASSUME NEW k, NEW n \in 0 .. H
    PROVE  \E f : Solves(k, n, f)
<1> DEFINE Unsolved == {i \in 0 .. H : ~\E f : Solves(k, i, f)}
<1>1. SUFFICES ASSUME Unsolved # {} PROVE FALSE
    OBVIOUS
<1>2. PICK i \in Unsolved : \A j \in Unsolved : i <= j
    BY <1>1, EndsExist, LevelsFinite
<1>3. i \in Nat /\ i \in 0 .. H /\ (i # 0 => i - 1 \in 0 .. H /\ i - 1 < i)
    BY LengthFact
<1>4. \E f : i = 0 \/ Solves(k, i - 1, f)
    BY <1>2, <1>3
<1>5. \E f : Solves(k, i, f)
    BY <1>3, <1>4, SearchStep
<1> QED BY <1>5

LEMMA SearchDefined ==
    ASSUME NEW k
    PROVE  \E f : f = Halved(k, f) /\ SearchLevel(k) = f[<<0, H>>]
<1>1. PICK f : Solves(k, H, f)
    BY SearchSolved, LengthFact
<1>2. \A l, r \in 0 .. H : f[<<l, r>>] = Halved(k, f)[<<l, r>>]
    <2> TAKE l, r \in 0 .. H
    <2>1. r - l <= H
        BY LengthFact
    <2> QED BY <1>1, <2>1, Zenon DEF Solves
<1> DEFINE g == Halved(k, f)
<1>3. \A l, r \in 0 .. H : Halved(k, g)[<<l, r>>] = g[<<l, r>>]
    <2> TAKE l, r \in 0 .. H
    <2>1. Solves(k, H, g)
        BY <1>1, LengthFact, SearchStep DEF Solves
    <2> HIDE DEF g
    <2> QED BY <2>1, LengthFact DEF Solves
<1>4. \A b \in Intervals : Halved(k, g)[b] = g[b]
    <2> HIDE DEF g
    <2> QED BY <1>3 DEF Intervals
<1>5. g = Halved(k, g)
    <2>1. DOMAIN g = Intervals /\ DOMAIN Halved(k, g) = Intervals
        BY DEF Halved
    <2>2. /\ g = [b \in Intervals |-> g[b]]
          /\ Halved(k, g) = [b \in Intervals |-> Halved(k, g)[b]]
        BY DEF Halved
    <2> HIDE DEF g
    <2> QED BY <1>4, <2>2
<1> HIDE DEF g
<1>6. \E h : h = Halved(k, h)
    BY <1>5
<1> DEFINE s == CHOOSE h : h = Halved(k, h)
<1>7. s = Halved(k, s)
    BY <1>6, Zenon
<1>8. SearchLevel(k) = s[<<0, H>>]
    BY Zenon DEF SearchLevel, Halved, Intervals
<1> QED BY <1>7, <1>8

(* What the search finds, where a level with k's prefix has them on all    *)
(* levels above: the lowest such level.                                    *)
LowestLevel(k, m) ==
    /\ m \in 0 .. H
    /\ m < H => Contains(k, m)
    /\ \A h \in 0 .. m - 1 : ~Contains(k, h)

LEMMA SearchFinds ==
    ASSUME NEW k,
           \A g, h \in 0 .. H - 1 : g <= h /\ Contains(k, g) => Contains(k, h)
    PROVE  LowestLevel(k, SearchLevel(k))
<1>1. PICK f : f = Halved(k, f) /\ SearchLevel(k) = f[<<0, H>>]
    BY SearchDefined
<1> DEFINE Encloses(l, r) ==
               /\ l \in 0 .. H /\ r \in 0 .. H /\ l < r
               /\ r < H => Contains(k, r)
               /\ \A h \in 0 .. l - 1 : ~Contains(k, h)
           Wrong == {n \in 0 .. H : \E l, r \in 0 .. H :
                        Encloses(l, r) /\ r - l = n /\ ~LowestLevel(k, f[<<l, r>>])}
<1>2. Wrong = {}
    <2>1. SUFFICES ASSUME Wrong # {} PROVE FALSE
        OBVIOUS
    <2>2. PICK n \in Wrong : \A i \in Wrong : n <= i
        <3> HIDE DEF Wrong
        <3>1. Wrong \subseteq 0 .. H
            BY DEF Wrong
        <3> QED BY <2>1, <3>1, EndsExist, LevelsFinite
    <2>3. PICK l \in 0 .. H, r \in 0 .. H :
              Encloses(l, r) /\ r - l = n /\ ~LowestLevel(k, f[<<l, r>>])
        BY <2>2
    <2>4. \A a, b \in 0 .. H :
              Encloses(a, b) /\ b - a < r - l => LowestLevel(k, f[<<a, b>>])
        <3> TAKE a, b \in 0 .. H
        <3>1. SUFFICES ASSUME Encloses(a, b), b - a < r - l, ~LowestLevel(k, f[<<a, b>>])
                       PROVE  FALSE
            BY Zenon
        <3>2. b - a \in 0 .. H
            BY <3>1, LengthFact
        <3>3. b - a \in Wrong
            BY <3>1, <3>2
        <3> HIDE DEF Wrong, Encloses
        <3> QED BY <2>2, <2>3, <3>1, <3>2, <3>3, LengthFact
    <2> DEFINE m == (r + l) \div 2
    <2> HIDE DEF Wrong
    <2>5. CASE r - l > 1
        <3>1. /\ m \in 0 .. H /\ l < m /\ m < r
              /\ Contains(k, m) => f[<<l, r>>] = f[<<l, m>>]
              /\ ~Contains(k, m) => f[<<l, r>>] = f[<<m, r>>]
            <4>0. m \in 0 .. H /\ l < m /\ m < r
                BY <2>5, MiddleFact
            <4>1. /\ Contains(k, m) => Halved(k, f)[<<l, r>>] = f[<<l, m>>]
                  /\ ~Contains(k, m) => Halved(k, f)[<<l, r>>] = f[<<m, r>>]
                BY <2>5, <4>0, HalvedFact
            <4> QED BY <1>1, <4>0, <4>1
        <3> HIDE DEF m
        <3>2. CASE Contains(k, m)
            <4>1. Encloses(l, m) /\ m - l < r - l
                BY <2>3, <3>1, <3>2, LengthFact
            <4> HIDE DEF Encloses
            <4> QED BY <2>3, <2>4, <3>1, <3>2, <4>1
        <3>3. CASE ~Contains(k, m)
            <4>1. \A h \in 0 .. m - 1 : ~Contains(k, h)
                BY <3>1, <3>3, LengthFact, m \in 0 .. H - 1
            <4>2. Encloses(m, r) /\ r - m < r - l
                BY <2>3, <3>1, <4>1, LengthFact
            <4> HIDE DEF Encloses
            <4> QED BY <2>3, <2>4, <3>1, <3>3, <4>2
        <3> QED BY <3>2, <3>3
    <2>6. CASE ~(r - l > 1)
        <3>1. r = l + 1 /\ l \in 0 .. H - 1
            BY <2>3, <2>6, LengthFact
        <3>2. /\ Contains(k, l) => f[<<l, r>>] = l
              /\ ~Contains(k, l) => f[<<l, r>>] = r
            <4>1. /\ Contains(k, l) => Halved(k, f)[<<l, r>>] = l
                  /\ ~Contains(k, l) => Halved(k, f)[<<l, r>>] = r
                BY <2>6, HalvedEnd
            <4> QED BY <1>1, <4>1
        <3>3. CASE Contains(k, l)
            BY <2>3, <3>2, <3>3 DEF LowestLevel
        <3>4. CASE ~Contains(k, l)
            <4>1. \A h \in 0 .. r - 1 : ~Contains(k, h)
                BY <2>3, <3>1, <3>4, LengthFact
            <4> QED BY <2>3, <3>2, <3>4, <4>1 DEF LowestLevel
        <3> QED BY <3>3, <3>4
    <2> QED BY <2>5, <2>6
<1>3. Encloses(0, H)
    BY LengthFact
<1>4. H - 0 \in 0 .. H /\ 0 \in 0 .. H /\ H \in 0 .. H
    BY LengthFact
<1>5. LowestLevel(k, f[<<0, H>>])
    <2>1. SUFFICES ASSUME ~LowestLevel(k, f[<<0, H>>]) PROVE FALSE
        OBVIOUS
    <2>2. H - 0 \in Wrong
        BY <1>3, <1>4, <2>1
    <2> HIDE DEF Wrong
    <2> QED BY <1>2, <2>2
<1> QED BY <1>1, <1>5
-----------------------------------------------------------------------------
(* What the trie keeps, told of the leaves L in it rather than of their    *)
(* keys, so that no step has to look for the leaf of a key.                *)

IsPrv(p, L, k) ==
    \/ p = NULL /\ \A y \in L : k <= KeyOf[y]
    \/ /\ p \in L /\ KeyOf[p] < k
       /\ \A y \in L : KeyOf[y] <= KeyOf[p] \/ k <= KeyOf[y]

IsNxt(q, L, k) ==
    \/ q = NULL /\ \A y \in L : KeyOf[y] <= k
    \/ /\ q \in L /\ k < KeyOf[q]
       /\ \A y \in L : KeyOf[q] <= KeyOf[y] \/ KeyOf[y] <= k

IsFirst(f, L) ==
    \/ f = NULL /\ L = {}
    \/ f \in L /\ \A y \in L : KeyOf[f] <= KeyOf[y]

IsLast(f, L) ==
    \/ f = NULL /\ L = {}
    \/ f \in L /\ \A y \in L : KeyOf[y] <= KeyOf[f]

(* The leaves of L below the node on k's path at level h.                  *)
Under(L, k, h) == {y \in L : SamePath(KeyOf[y], k, h)}

(* The node at level h on k's path tells the truth about the leaves below. *)
Exact(node, L, k, h) ==
    /\ node.left <=> \E y \in Under(L, k, h) : ~Bit(KeyOf[y], h - 1)
    /\ node.right <=> \E y \in Under(L, k, h) : Bit(KeyOf[y], h - 1)
    /\ node.left /\ ~node.right =>
           /\ node.leaf \in Under(L, k, h)
           /\ \A y \in Under(L, k, h) : KeyOf[y] <= KeyOf[node.leaf]
    /\ node.right /\ ~node.left =>
           /\ node.leaf \in Under(L, k, h)
           /\ \A y \in Under(L, k, h) : KeyOf[node.leaf] <= KeyOf[y]

Filed == \A p \in DOMAIN hash[0] : shift(KeyOf[hash[0][p]], 0) = p

Levelled ==
    \A h \in 1 .. H - 1 :
        /\ DOMAIN hash[h] = {shift(KeyOf[y], h) : y \in Leaves}
        /\ \A y \in Leaves :
               Exact(hash[h][shift(KeyOf[y], h)], Leaves, KeyOf[y], h)

Rooted == Exact(root, Leaves, NULL, H)

Linked ==
    /\ IsFirst(leftmost, Leaves) /\ IsLast(rightmost, Leaves)
    /\ \A y \in Leaves : IsPrv(prv[y], Leaves, KeyOf[y]) /\ IsNxt(nxt[y], Leaves, KeyOf[y])

(* The inductive invariant.                                                *)
Whole == TypeOK /\ Filed /\ Levelled /\ Rooted /\ Linked

LEMMA KeyFact ==
    ASSUME NEW x \in Leaf
    PROVE  KeyOf[x] \in AnyKey /\ KeyOf[x] \in Nat /\ x \in Nat /\ x # NULL
BY LeafAssumption, NullFact

LEMMA LeavesFact ==
    ASSUME TypeOK, Filed
    PROVE  /\ Leaves \subseteq Leaf /\ IsFiniteSet(Leaves) /\ NULL \notin Leaves
           /\ \A p \in DOMAIN hash[0] : hash[0][p] \in Leaves
           /\ \A y \in Leaves : /\ shift(KeyOf[y], 0) \in DOMAIN hash[0]
                                /\ hash[0][shift(KeyOf[y], 0)] = y
           /\ \A y, z \in Leaves : KeyOf[y] = KeyOf[z] => y = z
<1>1. Leaves \subseteq Leaf /\ \A p \in DOMAIN hash[0] : hash[0][p] \in Leaves
    BY DEF TypeOK, Leaves
<1>2. IsFiniteSet(Leaves)
    BY <1>1, LeafAssumption, FS_Subset
<1>3. \A y \in Leaves : /\ shift(KeyOf[y], 0) \in DOMAIN hash[0]
                        /\ hash[0][shift(KeyOf[y], 0)] = y
    BY DEF Filed, Leaves
<1>4. \A y, z \in Leaves : KeyOf[y] = KeyOf[z] => y = z
    BY <1>3
<1>5. NULL \notin Leaves
    BY <1>1, KeyFact
<1> QED BY <1>1, <1>2, <1>3, <1>4, <1>5

LEMMA UnderFact ==
    ASSUME NEW L, NEW k, NEW h
    PROVE  /\ Under(L, k, h) \subseteq L
           /\ \A y : y \in Under(L, k, h) <=> y \in L /\ SamePath(KeyOf[y], k, h)
BY DEF Under

(* Keys on one path share their node.                                      *)
LEMMA UnderSame ==
    ASSUME NEW L, NEW k, NEW l, NEW h, SamePath(k, l, h)
    PROVE  Under(L, k, h) = Under(L, l, h)
<1>1. \A y \in L : SamePath(KeyOf[y], k, h) <=> SamePath(KeyOf[y], l, h)
    BY SameIsEquivalence
<1> QED BY <1>1, Zenon DEF Under

LEMMA ExactSame ==
    ASSUME NEW node, NEW L, NEW k, NEW l, NEW h, SamePath(k, l, h)
    PROVE  Exact(node, L, k, h) <=> Exact(node, L, l, h)
BY UnderSame, Zenon DEF Exact

(* The tables hold k's prefix at level h just if a leaf shares k's path.   *)
LEMMA ContainsFact ==
    ASSUME Whole, NEW k \in AnyKey, NEW h \in 0 .. H - 1
    PROVE  /\ Contains(k, h) <=> Under(Leaves, k, h) # {}
           /\ h # 0 /\ Contains(k, h) => Exact(hash[h][shift(k, h)], Leaves, k, h)
<1>1. h # H /\ 0 # H /\ TypeOK /\ Filed
    BY LengthFact DEF Whole
<1>2. \A y : SamePath(KeyOf[y], k, h) <=> shift(KeyOf[y], h) = shift(k, h)
    BY <1>1 DEF SamePath
<1>3. DOMAIN hash[h] = {shift(KeyOf[y], h) : y \in Leaves}
    <2>1. CASE h = 0
        BY <1>1, <2>1, LeavesFact DEF Filed
    <2>2. CASE h # 0
        BY <2>2, LengthFact DEF Whole, Levelled
    <2> QED BY <2>1, <2>2
<1>4. Contains(k, h) <=> Under(Leaves, k, h) # {}
    BY <1>2, <1>3, Zenon DEF Contains, Under
<1>5. ASSUME h # 0, Contains(k, h)
      PROVE  Exact(hash[h][shift(k, h)], Leaves, k, h)
    <2>1. PICK y \in Leaves : SamePath(KeyOf[y], k, h)
        BY <1>4, <1>5 DEF Under
    <2>2. h \in 1 .. H - 1
        BY <1>5, LengthFact
    <2>3. Exact(hash[h][shift(KeyOf[y], h)], Leaves, KeyOf[y], h)
        BY <2>2 DEF Whole, Levelled
    <2>4. shift(KeyOf[y], h) = shift(k, h)
        BY <1>2, <2>1
    <2> QED BY <2>1, <2>3, <2>4, ExactSame
<1> QED BY <1>4, <1>5

LEMMA RootFact ==
    ASSUME Whole, NEW k
    PROVE  Exact(root, Leaves, k, H) /\ Under(Leaves, k, H) = Leaves
<1>1. SamePath(NULL, k, H)
    BY DEF SamePath
<1>2. \A y : SamePath(KeyOf[y], k, H)
    BY DEF SamePath
<1> QED BY <1>1, <1>2, ExactSame, Zenon DEF Whole, Rooted, Under

(* The gap in which a key lies that leaves the trie at level m - 1: the    *)
(* node above has one child, and its descendant is next to the key.        *)
LEMMA GapFact ==
    ASSUME NEW L \in SUBSET Leaf, NEW k \in AnyKey, NEW m \in 1 .. H,
           NEW node \in Nodes, Exact(node, L, k, m),
           Under(L, k, m) # {}, Under(L, k, m - 1) = {}
    PROVE  /\ node.leaf \in Under(L, k, m) /\ node.leaf \in L
           /\ node.left <=> Bit(k, m - 1)
           /\ node.right <=> ~Bit(k, m - 1)
           /\ node.left => /\ KeyOf[node.leaf] < k
                           /\ \A y \in L : KeyOf[y] <= KeyOf[node.leaf] \/ k < KeyOf[y]
           /\ node.right => /\ k < KeyOf[node.leaf]
                            /\ \A y \in L : KeyOf[node.leaf] <= KeyOf[y] \/ KeyOf[y] < k
<1> DEFINE U == Under(L, k, m)
           f == node.leaf
<1>1. m - 1 \in 0 .. H - 1 /\ m - 1 + 1 = m /\ m \in 0 .. H /\ m - 1 \in 0 .. H
    BY LengthFact
<1>2. \A y \in L : KeyOf[y] \in AnyKey /\ KeyOf[y] \in Nat
    BY KeyFact
<1>3. k \in Nat
    BY LeafAssumption
<1>4. \A y \in U : /\ y \in L
                   /\ Bit(KeyOf[y], m - 1) <=> ~Bit(k, m - 1)
                   /\ Bit(k, m - 1) <=> KeyOf[y] < k
                   /\ ~Bit(k, m - 1) <=> k < KeyOf[y]
    <2> SUFFICES ASSUME NEW y \in U
                 PROVE  /\ y \in L
                        /\ Bit(KeyOf[y], m - 1) <=> ~Bit(k, m - 1)
                        /\ Bit(k, m - 1) <=> KeyOf[y] < k
                        /\ ~Bit(k, m - 1) <=> k < KeyOf[y]
        OBVIOUS
    <2>1. y \in L /\ SamePath(KeyOf[y], k, m)
        BY UnderFact
    <2>2. ~SamePath(KeyOf[y], k, m - 1)
        BY <2>1, UnderFact
    <2>3. SamePath(k, KeyOf[y], m)
        BY <2>1, SameIsEquivalence
    <2>4. KeyOf[y] \in AnyKey
        BY <1>2, <2>1
    <2>5. Bit(KeyOf[y], m - 1) <=> ~Bit(k, m - 1)
        BY <1>1, <2>1, <2>2, <2>4, SameDown
    <2>6. (Bit(k, m - 1) => KeyOf[y] < k) /\ (~Bit(k, m - 1) => k < KeyOf[y])
        BY <1>1, <2>1, <2>3, <2>4, <2>5, SameDown
    <2> QED BY <1>2, <1>3, <2>1, <2>5, <2>6
<1>5. (node.left <=> Bit(k, m - 1)) /\ (node.right <=> ~Bit(k, m - 1))
    <2>1. /\ node.left <=> \E y \in U : ~Bit(KeyOf[y], m - 1)
          /\ node.right <=> \E y \in U : Bit(KeyOf[y], m - 1)
        BY DEF Exact
    <2>2. \E y \in U : TRUE
        OBVIOUS
    <2> HIDE DEF U
    <2> QED BY <1>4, <2>1, <2>2, Zenon
<1>6. /\ f \in U
      /\ node.left => \A y \in U : KeyOf[y] <= KeyOf[f]
      /\ node.right => \A y \in U : KeyOf[f] <= KeyOf[y]
    BY <1>5 DEF Exact
<1>7. f \in L /\ KeyOf[f] \in AnyKey /\ KeyOf[f] \in Nat /\ SamePath(KeyOf[f], k, m)
    BY <1>2, <1>6, UnderFact
<1>8. ASSUME node.left
      PROVE  KeyOf[f] < k /\ \A y \in L : KeyOf[y] <= KeyOf[f] \/ k < KeyOf[y]
    <2>1. KeyOf[f] < k
        BY <1>4, <1>5, <1>6, <1>8
    <2>2. SUFFICES ASSUME NEW y \in L, KeyOf[f] < KeyOf[y], KeyOf[y] <= k PROVE FALSE
        <3> HIDE DEF f
        <3> QED BY <1>2, <1>3, <1>7, <2>1
    <2>3. SamePath(KeyOf[f], KeyOf[y], m)
        <3> HIDE DEF f
        <3>1. KeyOf[f] <= KeyOf[y]
            BY <1>2, <1>7, <2>2
        <3> QED BY <1>1, <1>2, <1>7, <2>2, <3>1, Between
    <2>4. SamePath(KeyOf[y], k, m)
        BY <1>7, <2>3, SameIsEquivalence
    <2>5. y \in U
        BY <2>4, UnderFact
    <2> HIDE DEF U, f
    <2> QED BY <1>2, <1>6, <1>7, <1>8, <2>2, <2>5
<1>9. ASSUME node.right
      PROVE  k < KeyOf[f] /\ \A y \in L : KeyOf[f] <= KeyOf[y] \/ KeyOf[y] < k
    <2>1. k < KeyOf[f]
        BY <1>4, <1>5, <1>6, <1>9
    <2>2. SUFFICES ASSUME NEW y \in L, KeyOf[y] < KeyOf[f], k <= KeyOf[y] PROVE FALSE
        <3> HIDE DEF f
        <3> QED BY <1>2, <1>3, <1>7, <2>1
    <2>3. SamePath(k, KeyOf[y], m)
        <3> HIDE DEF f
        <3>1. KeyOf[y] <= KeyOf[f] /\ SamePath(k, KeyOf[f], m)
            BY <1>2, <1>7, <2>2, SameIsEquivalence
        <3> QED BY <1>1, <1>2, <1>7, <2>2, <3>1, Between
    <2>4. SamePath(KeyOf[y], k, m)
        BY <2>3, SameIsEquivalence
    <2>5. y \in U
        BY <2>4, UnderFact
    <2> HIDE DEF U, f
    <2> QED BY <1>2, <1>6, <1>7, <1>9, <2>2, <2>5
<1> QED BY <1>5, <1>6, <1>7, <1>8, <1>9

(* A prefix held at one level is held on all levels above.                 *)
LEMMA LevelFact ==
    ASSUME Whole, NEW k \in AnyKey, NEW m, m = SearchLevel(k)
    PROVE  /\ LowestLevel(k, m)
           /\ m = 0 \/ Under(Leaves, k, m - 1) = {}
           /\ Leaves # {} => Under(Leaves, k, m) # {}
<1>1. \A g, h \in 0 .. H - 1 : g <= h /\ Contains(k, g) => Contains(k, h)
    <2> TAKE g, h \in 0 .. H - 1
    <2>1. SUFFICES ASSUME g <= h, Contains(k, g) PROVE Contains(k, h)
        OBVIOUS
    <2>2. PICK y \in Leaves : SamePath(KeyOf[y], k, g)
        BY <2>1, ContainsFact DEF Under
    <2>3. g \in 0 .. H /\ h \in g .. H
        BY <2>1, LengthFact
    <2>4. KeyOf[y] \in AnyKey
        BY LeavesFact, KeyFact DEF Whole
    <2>5. SamePath(KeyOf[y], k, h)
        BY <2>2, <2>3, <2>4, SameUp
    <2>6. y \in Under(Leaves, k, h)
        BY <2>5, UnderFact
    <2> QED BY <2>6, ContainsFact
<1>2. LowestLevel(k, m)
    BY <1>1, SearchFinds
<1>3. m \in 0 .. H
    BY <1>2 DEF LowestLevel
<1>4. CASE m # 0
    <2>1. m - 1 \in 0 .. H - 1 /\ m - 1 \in 0 .. m - 1
        BY <1>3, <1>4, LengthFact
    <2>2. ~Contains(k, m - 1)
        BY <1>2, <2>1 DEF LowestLevel
    <2>3. Under(Leaves, k, m - 1) = {}
        BY <2>1, <2>2, ContainsFact
    <2>4. Leaves # {} => Under(Leaves, k, m) # {}
        <3>1. CASE m = H
            BY <3>1, RootFact
        <3>2. CASE m # H
            <4>1. m \in 0 .. H - 1 /\ m < H
                BY <1>3, <3>2, LengthFact
            <4> QED BY <1>2, <4>1, ContainsFact DEF LowestLevel
        <3> QED BY <3>1, <3>2
    <2> QED BY <1>2, <2>3, <2>4
<1>5. CASE m = 0
    <2>1. 0 \in 0 .. H - 1 /\ 0 < H
        BY LengthFact
    <2>2. Contains(k, m)
        BY <1>2, <1>5, <2>1 DEF LowestLevel
    <2> QED BY <1>2, <1>5, <2>1, <2>2, ContainsFact
<1> QED BY <1>4, <1>5

LEMMA RootEmpty ==
    ASSUME Whole
    PROVE  ~root.left /\ ~root.right <=> Leaves = {}
<1>1. Exact(root, Leaves, NULL, H) /\ Under(Leaves, NULL, H) = Leaves
    BY RootFact
<1>2. /\ root.left <=> \E y \in Leaves : ~Bit(KeyOf[y], H - 1)
      /\ root.right <=> \E y \in Leaves : Bit(KeyOf[y], H - 1)
    BY <1>1, Zenon DEF Exact
<1> QED BY <1>2, Zenon

(* The leaf that approx reports lies next to the key.                      *)
NextTo(a, k) ==
    \/ a.missed = "EMPTY" /\ a.leaf = NULL /\ a.level = H /\ Leaves = {}
    \/ /\ a.missed = "ON_TARGET" /\ a.level = 0
       /\ a.leaf \in Leaves /\ KeyOf[a.leaf] = k
    \/ /\ a.missed = "MISSED_LEFT" \/ a.missed = "MISSED_RIGHT"
       /\ a.level \in 1 .. H
       /\ Under(Leaves, k, a.level) # {} /\ Under(Leaves, k, a.level - 1) = {}
       /\ a.leaf \in Leaves
       /\ a.missed = "MISSED_LEFT" =>
              /\ KeyOf[a.leaf] < k
              /\ \A y \in Leaves : KeyOf[y] <= KeyOf[a.leaf] \/ k < KeyOf[y]
       /\ a.missed = "MISSED_RIGHT" =>
              /\ k < KeyOf[a.leaf]
              /\ \A y \in Leaves : KeyOf[a.leaf] <= KeyOf[y] \/ KeyOf[y] < k

LEMMA ApproxFact ==
    ASSUME Whole, NEW k \in AnyKey
    PROVE  NextTo(approx(k), k)
<1> DEFINE m == SearchLevel(k)
           node == IF m < H THEN hash[m][shift(k, m)] ELSE root
<1>1. /\ LowestLevel(k, m)
      /\ m = 0 \/ Under(Leaves, k, m - 1) = {}
      /\ Leaves # {} => Under(Leaves, k, m) # {}
    BY LevelFact
<1>2. m \in 0 .. H /\ 0 \in 0 .. H - 1 /\ (m # H => m < H /\ m \in 0 .. H - 1)
    BY <1>1, LengthFact DEF LowestLevel
<1>3. approx(k) =
          IF ~root.left /\ ~root.right THEN Report(NULL, "EMPTY", H)
          ELSE IF m = 0 THEN Report(hash[0][shift(k, 0)], "ON_TARGET", 0)
          ELSE IF node.left THEN Report(node.leaf, "MISSED_LEFT", m)
          ELSE Report(node.leaf, "MISSED_RIGHT", m)
    BY Zenon DEF approx
<1> HIDE DEF m, node
<1>4. CASE Leaves = {}
    <2>1. approx(k) = Report(NULL, "EMPTY", H)
        BY <1>3, <1>4, RootEmpty
    <2> QED BY <1>4, <2>1 DEF Report, NextTo
<1>5. CASE Leaves # {} /\ m = 0
    <2>1. approx(k) = Report(hash[0][shift(k, 0)], "ON_TARGET", 0)
        BY <1>3, <1>5, RootEmpty
    <2>2. Contains(k, 0)
        BY <1>1, <1>5, LengthFact DEF LowestLevel
    <2>3. shift(k, 0) \in DOMAIN hash[0]
        BY <2>2 DEF Contains
    <2>4. hash[0][shift(k, 0)] \in Leaves
        BY <2>3 DEF Leaves
    <2>5. shift(KeyOf[hash[0][shift(k, 0)]], 0) = shift(k, 0)
        BY <2>3 DEF Whole, Filed
    <2>6. KeyOf[hash[0][shift(k, 0)]] \in AnyKey
        BY <2>4, LeavesFact, KeyFact DEF Whole
    <2>7. KeyOf[hash[0][shift(k, 0)]] = k
        BY <2>5, <2>6, BitsAssumption
    <2> QED BY <2>1, <2>4, <2>7 DEF Report, NextTo
<1>6. CASE Leaves # {} /\ m # 0
    <2>1. m \in 1 .. H
        BY <1>2, <1>6, LengthFact
    <2>2. approx(k) = IF node.left THEN Report(node.leaf, "MISSED_LEFT", m)
                      ELSE Report(node.leaf, "MISSED_RIGHT", m)
        BY <1>3, <1>6, RootEmpty
    <2>3. Exact(node, Leaves, k, m) /\ node \in Nodes
        <3>1. CASE m = H
            BY <3>1, RootFact, LengthFact DEF node, Whole, TypeOK
        <3>2. CASE m # H
            <4>1. Contains(k, m) /\ node = hash[m][shift(k, m)] /\ m \in 1 .. H - 1
                BY <1>1, <1>2, <2>1, <3>2, LengthFact DEF LowestLevel, node
            <4> QED BY <1>2, <1>6, <4>1, ContainsFact DEF Contains, Whole, TypeOK
        <3> QED BY <3>1, <3>2
    <2>4. Leaves \in SUBSET Leaf
        BY LeavesFact DEF Whole
    <2>5. /\ node.leaf \in Leaves
          /\ node.right <=> ~node.left
          /\ node.left => /\ KeyOf[node.leaf] < k
                          /\ \A y \in Leaves : KeyOf[y] <= KeyOf[node.leaf] \/ k < KeyOf[y]
          /\ node.right => /\ k < KeyOf[node.leaf]
                           /\ \A y \in Leaves : KeyOf[node.leaf] <= KeyOf[y] \/ KeyOf[y] < k
        BY <1>1, <1>6, <2>1, <2>3, <2>4, GapFact
    <2>6. CASE node.left
        <3>1. approx(k) = Report(node.leaf, "MISSED_LEFT", m)
            BY <2>2, <2>6
        <3> QED BY <1>1, <1>6, <2>1, <2>5, <2>6, <3>1 DEF Report, NextTo
    <2>7. CASE ~node.left
        <3>1. approx(k) = Report(node.leaf, "MISSED_RIGHT", m)
            BY <2>2, <2>7
        <3> QED BY <1>1, <1>6, <2>1, <2>5, <2>7, <3>1 DEF Report, NextTo
    <2> QED BY <2>6, <2>7
<1> QED BY <1>4, <1>5, <1>6

-----------------------------------------------------------------------------
(* From leaves to keys: what Whole says of the leaves is what the          *)
(* properties of XFast say of the keys.                                    *)

LEMMA ContentsFact ==
    ASSUME Whole
    PROVE  /\ Contents \in SUBSET Nat /\ Contents \subseteq AnyKey /\ IsFiniteSet(Contents)
           /\ \A y \in Leaves : KeyOf[y] \in Contents /\ KeyOf[y] \in Nat
           /\ \A k \in Contents : \E y \in Leaves : KeyOf[y] = k
<1>1. Leaves \subseteq Leaf /\ IsFiniteSet(Leaves)
    BY LeavesFact DEF Whole
<1>2. Contents \subseteq AnyKey /\ Contents \in SUBSET Nat
    BY <1>1, KeyFact DEF Contents
<1>3. IsFiniteSet(Contents)
    <2> DEFINE f == [y \in Leaves |-> KeyOf[y]]
    <2>1. f \in Surjection(Leaves, Contents)
        BY DEF Contents, Surjection
    <2> QED BY <1>1, <2>1, FS_Surjection
<1>4. \A y \in Leaves : KeyOf[y] \in Contents
    BY DEF Contents
<1>5. \A k \in Contents : \E y \in Leaves : KeyOf[y] = k
    BY DEF Contents
<1> QED BY <1>2, <1>3, <1>4, <1>5

LEMMA LeafOfFact ==
    ASSUME Whole, NEW y \in Leaves
    PROVE  LeafOf(KeyOf[y]) = y
<1>1. KeyOf[y] # NULL
    BY ContentsFact, NullFact
<1>2. hash[0][shift(KeyOf[y], 0)] = y
    BY LeavesFact DEF Whole
<1> QED BY <1>1, <1>2 DEF LeafOf

LEMMA PredAnswers ==
    ASSUME Whole, NEW k \in Nat, NEW p
    PROVE  /\ IsPrv(p, Leaves, k) => p = LeafOf(PredIn(Contents, k, TRUE))
           /\ p = NULL /\ (\A y \in Leaves : k < KeyOf[y])
                  => p = LeafOf(PredIn(Contents, k, FALSE))
           /\ p \in Leaves /\ KeyOf[p] <= k
                  /\ (\A y \in Leaves : KeyOf[y] <= KeyOf[p] \/ k < KeyOf[y])
                  => p = LeafOf(PredIn(Contents, k, FALSE))
<1> DEFINE q == PredIn(Contents, k, TRUE)
           r == PredIn(Contents, k, FALSE)
<1>1. \/ q = NULL /\ \A s \in Contents : k <= s
      \/ q # NULL /\ q \in Contents /\ q < k /\ \A s \in Contents : s <= q \/ k <= s
    BY ContentsFact, LastBefore
<1>2. \/ r = NULL /\ \A s \in Contents : k < s
      \/ r # NULL /\ r \in Contents /\ r <= k /\ \A s \in Contents : s <= r \/ k < s
    BY ContentsFact, LastUpTo
<1> HIDE DEF q, r
<1>3. NULL \notin Leaves /\ LeafOf(NULL) = NULL
    BY LeavesFact DEF Whole, LeafOf
<1>4. \A s \in Contents : s \in Nat
    BY ContentsFact
<1>5. \A s \in Contents : \E y \in Leaves : KeyOf[y] = s
    BY ContentsFact
<1>6. \A y \in Leaves : KeyOf[y] \in Contents /\ KeyOf[y] \in Nat
    BY ContentsFact
<1>7. ASSUME IsPrv(p, Leaves, k)
      PROVE  p = LeafOf(q)
    <2>1. CASE p \in Leaves
        <3>1. KeyOf[p] < k /\ \A y \in Leaves : KeyOf[y] <= KeyOf[p] \/ k <= KeyOf[y]
            BY <1>3, <1>7, <2>1 DEF IsPrv
        <3>2. KeyOf[p] \in Contents /\ KeyOf[p] \in Nat
            BY <1>6, <2>1
        <3>3. q \in Contents /\ q < k /\ \A s \in Contents : s <= q \/ k <= s
            BY <1>1, <3>1, <3>2
        <3>4. PICK y \in Leaves : KeyOf[y] = q
            BY <1>5, <3>3
        <3>5. KeyOf[p] = q
            BY <1>4, <3>1, <3>2, <3>3, <3>4
        <3> QED BY <2>1, <3>5, LeafOfFact
    <2>2. CASE p \notin Leaves
        <3>1. p = NULL /\ \A y \in Leaves : k <= KeyOf[y]
            BY <1>7, <2>2 DEF IsPrv
        <3>2. \A s \in Contents : k <= s
            BY <1>5, <3>1
        <3>3. q = NULL
            BY <1>1, <1>4, <3>2
        <3> QED BY <1>3, <3>1, <3>3
    <2> QED BY <2>1, <2>2
<1>8. ASSUME p = NULL, \A y \in Leaves : k < KeyOf[y]
      PROVE  p = LeafOf(r)
    <2>1. \A s \in Contents : k < s
        BY <1>5, <1>8
    <2>2. r = NULL
        BY <1>2, <1>4, <2>1
    <2> QED BY <1>3, <1>8, <2>2
<1>9. ASSUME p \in Leaves, KeyOf[p] <= k,
             \A y \in Leaves : KeyOf[y] <= KeyOf[p] \/ k < KeyOf[y]
      PROVE  p = LeafOf(r)
    <2>1. KeyOf[p] \in Contents /\ KeyOf[p] \in Nat
        BY <1>6, <1>9
    <2>2. r \in Contents /\ r <= k /\ \A s \in Contents : s <= r \/ k < s
        BY <1>2, <1>9, <2>1
    <2>3. PICK y \in Leaves : KeyOf[y] = r
        BY <1>5, <2>2
    <2>4. KeyOf[p] = r
        BY <1>4, <1>9, <2>1, <2>2, <2>3
    <2> QED BY <1>9, <2>4, LeafOfFact
<1> QED BY <1>7, <1>8, <1>9 DEF q, r

LEMMA SuccAnswers ==
    ASSUME Whole, NEW k \in Nat, NEW p
    PROVE  /\ IsNxt(p, Leaves, k) => p = LeafOf(SuccIn(Contents, k, TRUE))
           /\ p = NULL /\ (\A y \in Leaves : KeyOf[y] < k)
                  => p = LeafOf(SuccIn(Contents, k, FALSE))
           /\ p \in Leaves /\ k <= KeyOf[p]
                  /\ (\A y \in Leaves : KeyOf[p] <= KeyOf[y] \/ KeyOf[y] < k)
                  => p = LeafOf(SuccIn(Contents, k, FALSE))
<1> DEFINE q == SuccIn(Contents, k, TRUE)
           r == SuccIn(Contents, k, FALSE)
<1>1. \/ q = NULL /\ \A s \in Contents : s <= k
      \/ q # NULL /\ q \in Contents /\ k < q /\ \A s \in Contents : q <= s \/ s <= k
    BY ContentsFact, FirstAfter
<1>2. \/ r = NULL /\ \A s \in Contents : s < k
      \/ r # NULL /\ r \in Contents /\ k <= r /\ \A s \in Contents : r <= s \/ s < k
    BY ContentsFact, FirstFrom
<1> HIDE DEF q, r
<1>3. NULL \notin Leaves /\ LeafOf(NULL) = NULL
    BY LeavesFact DEF Whole, LeafOf
<1>4. \A s \in Contents : s \in Nat
    BY ContentsFact
<1>5. \A s \in Contents : \E y \in Leaves : KeyOf[y] = s
    BY ContentsFact
<1>6. \A y \in Leaves : KeyOf[y] \in Contents /\ KeyOf[y] \in Nat
    BY ContentsFact
<1>7. ASSUME IsNxt(p, Leaves, k)
      PROVE  p = LeafOf(q)
    <2>1. CASE p \in Leaves
        <3>1. k < KeyOf[p] /\ \A y \in Leaves : KeyOf[p] <= KeyOf[y] \/ KeyOf[y] <= k
            BY <1>3, <1>7, <2>1 DEF IsNxt
        <3>2. KeyOf[p] \in Contents /\ KeyOf[p] \in Nat
            BY <1>6, <2>1
        <3>3. q \in Contents /\ k < q /\ \A s \in Contents : q <= s \/ s <= k
            BY <1>1, <3>1, <3>2
        <3>4. PICK y \in Leaves : KeyOf[y] = q
            BY <1>5, <3>3
        <3>5. KeyOf[p] = q
            BY <1>4, <3>1, <3>2, <3>3, <3>4
        <3> QED BY <2>1, <3>5, LeafOfFact
    <2>2. CASE p \notin Leaves
        <3>1. p = NULL /\ \A y \in Leaves : KeyOf[y] <= k
            BY <1>7, <2>2 DEF IsNxt
        <3>2. \A s \in Contents : s <= k
            BY <1>5, <3>1
        <3>3. q = NULL
            BY <1>1, <1>4, <3>2
        <3> QED BY <1>3, <3>1, <3>3
    <2> QED BY <2>1, <2>2
<1>8. ASSUME p = NULL, \A y \in Leaves : KeyOf[y] < k
      PROVE  p = LeafOf(r)
    <2>1. \A s \in Contents : s < k
        BY <1>5, <1>8
    <2>2. r = NULL
        BY <1>2, <1>4, <2>1
    <2> QED BY <1>3, <1>8, <2>2
<1>9. ASSUME p \in Leaves, k <= KeyOf[p],
             \A y \in Leaves : KeyOf[p] <= KeyOf[y] \/ KeyOf[y] < k
      PROVE  p = LeafOf(r)
    <2>1. KeyOf[p] \in Contents /\ KeyOf[p] \in Nat
        BY <1>6, <1>9
    <2>2. r \in Contents /\ k <= r /\ \A s \in Contents : r <= s \/ s < k
        BY <1>2, <1>9, <2>1
    <2>3. PICK y \in Leaves : KeyOf[y] = r
        BY <1>5, <2>2
    <2>4. KeyOf[p] = r
        BY <1>4, <1>9, <2>1, <2>2, <2>3
    <2> QED BY <1>9, <2>4, LeafOfFact
<1> QED BY <1>7, <1>8, <1>9 DEF q, r

LEMMA LinksFollow ==
    ASSUME Whole
    PROVE  LinksSorted
<1>1. LeafOf(NULL) = NULL /\ (Contents = {} <=> Leaves = {})
    BY DEF LeafOf, Contents
<1>2. leftmost = LeafOf(LeastOf(Contents))
    <2>1. IsFirst(leftmost, Leaves)
        BY DEF Whole, Linked
    <2>2. CASE Leaves = {}
        BY <1>1, <2>1, <2>2 DEF IsFirst, LeastOf
    <2>3. CASE Leaves # {}
        <3>1. leftmost \in Leaves /\ \A y \in Leaves : KeyOf[leftmost] <= KeyOf[y]
            BY <2>1, <2>3 DEF IsFirst
        <3>2. LeastOf(Contents) \in Contents /\ \A s \in Contents : LeastOf(Contents) <= s
            BY <1>1, <2>3, ContentsFact, LeastOfFact
        <3>3. PICK y \in Leaves : KeyOf[y] = LeastOf(Contents)
            BY <3>2, ContentsFact
        <3>4. KeyOf[leftmost] <= KeyOf[y] /\ KeyOf[y] <= KeyOf[leftmost]
              /\ KeyOf[y] \in Nat /\ KeyOf[leftmost] \in Nat
            BY <3>1, <3>2, <3>3, ContentsFact
        <3>5. KeyOf[leftmost] = LeastOf(Contents)
            BY <3>3, <3>4
        <3> QED BY <3>1, <3>5, LeafOfFact
    <2> QED BY <2>2, <2>3
<1>3. rightmost = LeafOf(GreatestOf(Contents))
    <2>1. IsLast(rightmost, Leaves)
        BY DEF Whole, Linked
    <2>2. CASE Leaves = {}
        BY <1>1, <2>1, <2>2 DEF IsLast, GreatestOf
    <2>3. CASE Leaves # {}
        <3>1. rightmost \in Leaves /\ \A y \in Leaves : KeyOf[y] <= KeyOf[rightmost]
            BY <2>1, <2>3 DEF IsLast
        <3>2. GreatestOf(Contents) \in Contents /\ \A s \in Contents : s <= GreatestOf(Contents)
            BY <1>1, <2>3, ContentsFact, GreatestOfFact
        <3>3. PICK y \in Leaves : KeyOf[y] = GreatestOf(Contents)
            BY <3>2, ContentsFact
        <3>4. KeyOf[rightmost] <= KeyOf[y] /\ KeyOf[y] <= KeyOf[rightmost]
              /\ KeyOf[y] \in Nat /\ KeyOf[rightmost] \in Nat
            BY <3>1, <3>2, <3>3, ContentsFact
        <3>5. KeyOf[rightmost] = GreatestOf(Contents)
            BY <3>3, <3>4
        <3> QED BY <3>1, <3>5, LeafOfFact
    <2> QED BY <2>2, <2>3
<1>4. ASSUME NEW x \in Leaves
      PROVE  /\ prv[x] = LeafOf(PredIn(Contents, KeyOf[x], TRUE))
             /\ nxt[x] = LeafOf(SuccIn(Contents, KeyOf[x], TRUE))
    <2>1. IsPrv(prv[x], Leaves, KeyOf[x]) /\ IsNxt(nxt[x], Leaves, KeyOf[x])
        BY DEF Whole, Linked
    <2>2. KeyOf[x] \in Nat
        BY ContentsFact
    <2>3. prv[x] = LeafOf(PredIn(Contents, KeyOf[x], TRUE))
        BY <2>1, <2>2, PredAnswers
    <2>4. nxt[x] = LeafOf(SuccIn(Contents, KeyOf[x], TRUE))
        BY <2>1, <2>2, SuccAnswers
    <2> QED BY <2>3, <2>4
<1> QED BY <1>2, <1>3, <1>4 DEF LinksSorted

LEMMA NodeFollows ==
    ASSUME Whole, NEW node \in Nodes, NEW k, NEW h \in 1 .. H,
           Exact(node, Leaves, k, h),
           NEW B, B = {KeyOf[y] : y \in Under(Leaves, k, h)}
    PROVE  ChildrenExact(node, B, h) /\ NextToGap(node, B)
<1> DEFINE U == Under(Leaves, k, h)
<1>1. h - 1 \in 0 .. H - 1 /\ U \subseteq Leaves /\ Leaves \subseteq Leaf
    BY LengthFact, UnderFact, LeavesFact DEF Whole
<1>2. \A y \in U : KeyOf[y] \in AnyKey /\ KeyOf[y] \in B
    BY <1>1, KeyFact
<1>3. \A l \in B : \E y \in U : KeyOf[y] = l
    OBVIOUS
<1>4. \A l \in B : extract_bit(l, h - 1) \in BOOLEAN /\ (extract_bit(l, h - 1) <=> Bit(l, h - 1))
    BY <1>1, <1>2, <1>3, BitFact
<1>5. node.left \in BOOLEAN /\ node.right \in BOOLEAN
    BY DEF Nodes
<1>6. /\ node.left <=> \E l \in B : ~Bit(l, h - 1)
      /\ node.right <=> \E l \in B : Bit(l, h - 1)
    BY <1>2, <1>3, Zenon DEF Exact
<1>7. ChildrenExact(node, B, h)
    <2>1. HasChild(node, TRUE) <=> \E l \in B : extract_bit(l, h - 1) = TRUE
        BY <1>4, <1>5, <1>6 DEF HasChild, Bit
    <2>2. HasChild(node, FALSE) <=> \E l \in B : extract_bit(l, h - 1) = FALSE
        <3>1. \A l \in B : extract_bit(l, h - 1) = FALSE <=> ~Bit(l, h - 1)
            BY <1>4, Zenon
        <3>2. HasChild(node, FALSE) <=> node.left
            BY DEF HasChild
        <3> QED BY <1>6, <3>1, <3>2, Zenon
    <2> QED BY <2>1, <2>2 DEF ChildrenExact
<1>8. NextToGap(node, B)
    <2>1. SUFFICES ASSUME node.left # node.right
                   PROVE  node.leaf = LeafOf(IF node.left THEN GreatestOf(B) ELSE LeastOf(B))
        BY DEF NextToGap
    <2>2. node.leaf \in U
        BY <1>5, <2>1 DEF Exact
    <2>3. B \subseteq Contents
        BY <1>1, <1>3, ContentsFact
    <2>4. B \in SUBSET Nat /\ IsFiniteSet(B)
        BY <2>3, ContentsFact, FS_Subset
    <2>5. B # {} /\ KeyOf[node.leaf] \in B /\ KeyOf[node.leaf] \in Nat
        BY <1>2, <2>2, <2>4
    <2>6. LeafOf(KeyOf[node.leaf]) = node.leaf
        BY <1>1, <2>2, LeafOfFact
    <2>7. CASE node.left
        <3>1. \A y \in U : KeyOf[y] <= KeyOf[node.leaf]
            BY <1>5, <2>1, <2>7 DEF Exact
        <3>2. GreatestOf(B) \in B /\ \A l \in B : l <= GreatestOf(B)
            BY <2>4, <2>5, GreatestOfFact
        <3>3. GreatestOf(B) <= KeyOf[node.leaf] /\ KeyOf[node.leaf] <= GreatestOf(B)
            BY <1>3, <2>5, <3>1, <3>2
        <3>4. GreatestOf(B) \in Nat
            BY <2>4, <3>2
        <3>5. GreatestOf(B) = KeyOf[node.leaf]
            BY <2>5, <3>3, <3>4
        <3> QED BY <2>6, <2>7, <3>5
    <2>8. CASE ~node.left
        <3>1. \A y \in U : KeyOf[node.leaf] <= KeyOf[y]
            BY <1>5, <2>1, <2>8 DEF Exact
        <3>2. LeastOf(B) \in B /\ \A l \in B : LeastOf(B) <= l
            BY <2>4, <2>5, LeastOfFact
        <3>3. LeastOf(B) <= KeyOf[node.leaf] /\ KeyOf[node.leaf] <= LeastOf(B)
            BY <1>3, <2>5, <3>1, <3>2
        <3>4. LeastOf(B) \in Nat
            BY <2>4, <3>2
        <3>5. LeastOf(B) = KeyOf[node.leaf]
            BY <2>5, <3>3, <3>4
        <3> QED BY <2>6, <2>8, <3>5
    <2> QED BY <2>7, <2>8
<1> QED BY <1>7, <1>8

LEMMA NodesFollow ==
    ASSUME Whole
    PROVE  PrefixesExact /\ DescendantsExact
<1>1. ChildrenExact(root, Contents, H) /\ NextToGap(root, Contents)
    <2>1. Exact(root, Leaves, NULL, H) /\ Under(Leaves, NULL, H) = Leaves
        BY RootFact
    <2>2. root \in Nodes /\ H \in 1 .. H
        BY LengthFact DEF Whole, TypeOK
    <2> QED BY <2>1, <2>2, NodeFollows DEF Contents
<1>2. ASSUME NEW h \in 1 .. H - 1
      PROVE  /\ DOMAIN hash[h] = {shift(k, h) : k \in Contents}
             /\ \A p \in DOMAIN hash[h] : /\ ChildrenExact(hash[h][p], Group(p, h), h)
                                          /\ NextToGap(hash[h][p], Group(p, h))
    <2>1. DOMAIN hash[h] = {shift(KeyOf[y], h) : y \in Leaves}
        BY DEF Whole, Levelled
    <2>2. DOMAIN hash[h] = {shift(k, h) : k \in Contents}
        BY <2>1 DEF Contents
    <2>3. ASSUME NEW p \in DOMAIN hash[h]
          PROVE  ChildrenExact(hash[h][p], Group(p, h), h) /\ NextToGap(hash[h][p], Group(p, h))
        <3>1. PICK y \in Leaves : shift(KeyOf[y], h) = p
            BY <2>1
        <3>2. Exact(hash[h][p], Leaves, KeyOf[y], h)
            BY <3>1 DEF Whole, Levelled
        <3>3. h \in 1 .. H /\ h # H
            BY LengthFact
        <3>4. \A z : SamePath(KeyOf[z], KeyOf[y], h) <=> shift(KeyOf[z], h) = p
            BY <3>1, <3>3 DEF SamePath
        <3>5. Group(p, h) = {KeyOf[z] : z \in Under(Leaves, KeyOf[y], h)}
            BY <3>4 DEF Group, Contents, Under
        <3>6. hash[h][p] \in Nodes
            BY DEF Whole, TypeOK
        <3> QED BY <3>2, <3>3, <3>5, <3>6, NodeFollows
    <2> QED BY <2>2, <2>3
<1>3. \A p \in DOMAIN hash[0] : shift(KeyOf[hash[0][p]], 0) = p
    BY DEF Whole, Filed
<1>4. PrefixesExact
    BY <1>1, <1>2, <1>3 DEF PrefixesExact
<1>5. DescendantsExact
    BY <1>1, <1>2 DEF DescendantsExact
<1> QED BY <1>4, <1>5

LEMMA SearchFollows ==
    ASSUME Whole
    PROVE  SearchExact
<1>1. SUFFICES ASSUME NEW k \in AnyKey
               PROVE  SearchLevel(k) = LeastOf({h \in 0 .. H - 1 : Contains(k, h)} \cup {H})
    BY DEF SearchExact
<1> DEFINE S == {h \in 0 .. H - 1 : Contains(k, h)} \cup {H}
           m == SearchLevel(k)
<1>2. LowestLevel(k, m)
    BY LevelFact
<1>3. S \subseteq 0 .. H /\ S # {}
    BY LengthFact
<1>4. LeastOf(S) \in S /\ \A h \in S : LeastOf(S) <= h
    <2> HIDE DEF S
    <2> QED BY <1>3, LevelsFinite, LeastOfFact
<1>5. m \in S /\ m \in 0 .. H
    BY <1>2, LengthFact DEF LowestLevel
<1>6. \A h \in S : m <= h
    <2> SUFFICES ASSUME NEW h \in S, h < m PROVE FALSE
        BY <1>3, <1>5, LengthFact
    <2>1. h \in 0 .. m - 1 /\ h # H
        BY <1>3, <1>5, LengthFact
    <2>2. Contains(k, h)
        BY <2>1
    <2> QED BY <1>2, <2>1, <2>2 DEF LowestLevel
<1> HIDE DEF S, m
<1>7. LeastOf(S) \in 0 .. H /\ LeastOf(S) <= m /\ m <= LeastOf(S)
    BY <1>3, <1>4, <1>5, <1>6
<1>8. m = LeastOf(S)
    BY <1>5, <1>7, LengthFact
<1> QED BY <1>8 DEF S, m

(* Where the key is missed, the leaf reported has the key's other          *)
(* neighbour beside it.                                                    *)
LEMMA Neighbours ==
    ASSUME Whole, NEW k \in AnyKey, NEW a, NextTo(a, k), a.missed # "ON_TARGET"
    PROVE  /\ \A y \in Leaves : KeyOf[y] # k
           /\ a.missed = "EMPTY" => IsPrv(NULL, Leaves, k) /\ IsNxt(NULL, Leaves, k)
           /\ a.missed = "MISSED_LEFT" =>
                  IsPrv(a.leaf, Leaves, k) /\ IsNxt(nxt[a.leaf], Leaves, k)
           /\ a.missed = "MISSED_RIGHT" =>
                  IsPrv(prv[a.leaf], Leaves, k) /\ IsNxt(a.leaf, Leaves, k)
<1>1. \A y \in Leaves : KeyOf[y] \in Nat
    BY ContentsFact
<1>2. k \in Nat /\ NULL \notin Leaves
    BY LeafAssumption, LeavesFact DEF Whole
<1>3. CASE a.missed = "EMPTY"
    BY <1>3 DEF NextTo, IsPrv, IsNxt
<1>4. CASE a.missed = "MISSED_LEFT"
    <2> DEFINE f == a.leaf
               q == nxt[f]
    <2>1. f \in Leaves /\ KeyOf[f] < k /\ \A y \in Leaves : KeyOf[y] <= KeyOf[f] \/ k < KeyOf[y]
        BY <1>4 DEF NextTo
    <2>2. IsNxt(q, Leaves, KeyOf[f])
        BY <2>1 DEF Whole, Linked
    <2> HIDE DEF f, q
    <2>3. \A y \in Leaves : KeyOf[y] # k
        BY <1>1, <1>2, <2>1
    <2>4. IsPrv(f, Leaves, k)
        BY <1>1, <1>2, <2>1 DEF IsPrv
    <2>5. IsNxt(q, Leaves, k)
        BY <1>1, <1>2, <2>1, <2>2 DEF IsNxt
    <2> QED BY <1>4, <2>3, <2>4, <2>5 DEF f, q
<1>5. CASE a.missed = "MISSED_RIGHT"
    <2> DEFINE f == a.leaf
               p == prv[f]
    <2>1. f \in Leaves /\ k < KeyOf[f] /\ \A y \in Leaves : KeyOf[f] <= KeyOf[y] \/ KeyOf[y] < k
        BY <1>5 DEF NextTo
    <2>2. IsPrv(p, Leaves, KeyOf[f])
        BY <2>1 DEF Whole, Linked
    <2> HIDE DEF f, p
    <2>3. \A y \in Leaves : KeyOf[y] # k
        BY <1>1, <1>2, <2>1
    <2>4. IsNxt(f, Leaves, k)
        BY <1>1, <1>2, <2>1 DEF IsNxt
    <2>5. IsPrv(p, Leaves, k)
        BY <1>1, <1>2, <2>1, <2>2 DEF IsPrv
    <2> QED BY <1>5, <2>3, <2>4, <2>5 DEF f, p
<1> QED BY <1>3, <1>4, <1>5 DEF NextTo

(* An answer for a key of no leaf is one whether strict or not.            *)
LEMMA MissedAnswers ==
    ASSUME Whole, NEW k \in AnyKey, \A y \in Leaves : KeyOf[y] # k,
           NEW p, NEW strict \in BOOLEAN
    PROVE  /\ IsPrv(p, Leaves, k) => p = LeafOf(PredIn(Contents, k, strict))
           /\ IsNxt(p, Leaves, k) => p = LeafOf(SuccIn(Contents, k, strict))
<1>1. \A y \in Leaves : KeyOf[y] \in Nat
    BY ContentsFact
<1>2. k \in Nat
    BY LeafAssumption
<1>3. ASSUME IsPrv(p, Leaves, k)
      PROVE  \/ p = NULL /\ \A y \in Leaves : k < KeyOf[y]
             \/ p \in Leaves /\ KeyOf[p] <= k
                /\ \A y \in Leaves : KeyOf[y] <= KeyOf[p] \/ k < KeyOf[y]
    BY <1>1, <1>2, <1>3 DEF IsPrv
<1>4. ASSUME IsNxt(p, Leaves, k)
      PROVE  \/ p = NULL /\ \A y \in Leaves : KeyOf[y] < k
             \/ p \in Leaves /\ k <= KeyOf[p]
                /\ \A y \in Leaves : KeyOf[p] <= KeyOf[y] \/ KeyOf[y] < k
    BY <1>1, <1>2, <1>4 DEF IsNxt
<1>5. IsPrv(p, Leaves, k) => /\ p = LeafOf(PredIn(Contents, k, TRUE))
                             /\ p = LeafOf(PredIn(Contents, k, FALSE))
    BY <1>2, <1>3, PredAnswers
<1>6. IsNxt(p, Leaves, k) => /\ p = LeafOf(SuccIn(Contents, k, TRUE))
                             /\ p = LeafOf(SuccIn(Contents, k, FALSE))
    BY <1>2, <1>4, SuccAnswers
<1>7. strict = TRUE \/ strict = FALSE
    OBVIOUS
<1> QED BY <1>5, <1>6, <1>7

LEMMA TargetAnswers ==
    ASSUME Whole, NEW y \in Leaves
    PROVE  /\ prv[y] = LeafOf(PredIn(Contents, KeyOf[y], TRUE))
           /\ nxt[y] = LeafOf(SuccIn(Contents, KeyOf[y], TRUE))
           /\ y = LeafOf(PredIn(Contents, KeyOf[y], FALSE))
           /\ y = LeafOf(SuccIn(Contents, KeyOf[y], FALSE))
<1>1. IsPrv(prv[y], Leaves, KeyOf[y]) /\ IsNxt(nxt[y], Leaves, KeyOf[y])
    BY DEF Whole, Linked
<1>2. \A z \in Leaves : KeyOf[z] \in Nat
    BY ContentsFact
<1>3. /\ KeyOf[y] <= KeyOf[y]
      /\ \A z \in Leaves : KeyOf[z] <= KeyOf[y] \/ KeyOf[y] < KeyOf[z]
    BY <1>2
<1>4. /\ prv[y] = LeafOf(PredIn(Contents, KeyOf[y], TRUE))
      /\ y = LeafOf(PredIn(Contents, KeyOf[y], FALSE))
    BY <1>1, <1>2, <1>3, PredAnswers
<1>5. \A z \in Leaves : KeyOf[y] <= KeyOf[z] \/ KeyOf[z] < KeyOf[y]
    BY <1>2
<1>6. /\ nxt[y] = LeafOf(SuccIn(Contents, KeyOf[y], TRUE))
      /\ y = LeafOf(SuccIn(Contents, KeyOf[y], FALSE))
    BY <1>1, <1>2, <1>3, <1>5, SuccAnswers
<1> QED BY <1>4, <1>6

LEMMA QueriesFollow ==
    ASSUME Whole
    PROVE  QueriesExact
<1>1. ASSUME NEW k \in AnyKey, NEW strict \in BOOLEAN
      PROVE  /\ pred(k, strict) = LeafOf(PredIn(Contents, k, strict))
             /\ succ(k, strict) = LeafOf(SuccIn(Contents, k, strict))
    <2> DEFINE a == approx(k)
    <2>1. NextTo(a, k)
        BY ApproxFact
    <2>2. /\ a.missed = "EMPTY" => pred(k, strict) = NULL /\ succ(k, strict) = NULL
          /\ a.missed = "MISSED_LEFT" => pred(k, strict) = a.leaf /\ succ(k, strict) = nxt[a.leaf]
          /\ a.missed = "MISSED_RIGHT" => pred(k, strict) = prv[a.leaf] /\ succ(k, strict) = a.leaf
          /\ a.missed = "ON_TARGET" =>
                 /\ pred(k, strict) = IF strict THEN prv[a.leaf] ELSE a.leaf
                 /\ succ(k, strict) = IF strict THEN nxt[a.leaf] ELSE a.leaf
        <3> HIDE DEF a
        <3> QED BY DEF pred, succ, a
    <2> HIDE DEF a
    <2>3. CASE a.missed = "ON_TARGET"
        <3>1. a.leaf \in Leaves /\ KeyOf[a.leaf] = k
            BY <2>1, <2>3 DEF NextTo
        <3>2. strict = TRUE \/ strict = FALSE
            OBVIOUS
        <3> QED BY <2>2, <2>3, <3>1, <3>2, TargetAnswers
    <2>4. CASE a.missed # "ON_TARGET"
        <3>1. /\ \A y \in Leaves : KeyOf[y] # k
              /\ a.missed \in {"EMPTY", "MISSED_LEFT", "MISSED_RIGHT"}
              /\ IsPrv(pred(k, strict), Leaves, k) /\ IsNxt(succ(k, strict), Leaves, k)
            <4>1. a.missed \in {"EMPTY", "MISSED_LEFT", "MISSED_RIGHT"}
                BY <2>1, <2>4 DEF NextTo
            <4> QED BY <2>1, <2>2, <2>4, <4>1, Neighbours
        <3> QED BY <3>1, MissedAnswers
    <2> QED BY <2>3, <2>4
<1>2. ASSUME NEW k \in AnyKey
      PROVE  find(k) = LeafOf(IF k \in Contents THEN k ELSE NULL)
    <2>1. 0 \in 0 .. H - 1 /\ 0 # H
        BY LengthFact
    <2>2. Contains(k, 0) <=> k \in Contents
        <3>1. \A y : SamePath(KeyOf[y], k, 0) <=> shift(KeyOf[y], 0) = shift(k, 0)
            BY <2>1 DEF SamePath
        <3>2. \A y \in Leaves : shift(KeyOf[y], 0) = shift(k, 0) <=> KeyOf[y] = k
            <4>1. \A y \in Leaves : KeyOf[y] \in AnyKey
                BY LeavesFact, KeyFact DEF Whole
            <4> QED BY <4>1, BitsAssumption
        <3>3. Contains(k, 0) <=> \E y \in Leaves : KeyOf[y] = k
            BY <2>1, <3>1, <3>2, ContainsFact DEF Under
        <3> QED BY <3>3 DEF Contents
    <2>3. k # NULL
        BY LeafAssumption, NullFact
    <2> QED BY <2>2, <2>3 DEF find, LeafOf
<1>3. PredExact
    BY <1>1 DEF PredExact
<1> QED BY <1>1, <1>2, <1>3 DEF QueriesExact

(* The inductive invariant implies every invariant of XFast.               *)
LEMMA AllFollow ==
    Whole => TypeOK /\ LinksSorted /\ PrefixesExact /\ DescendantsExact
             /\ SearchExact /\ QueriesExact
BY LinksFollow, NodesFollow, SearchFollows, QueriesFollow DEF Whole

-----------------------------------------------------------------------------
(* insert.                                                                 *)

LEMMA UnderWith ==
    ASSUME NEW L, NEW x, NEW k, NEW h
    PROVE  /\ SamePath(KeyOf[x], k, h) => Under(L \cup {x}, k, h) = Under(L, k, h) \cup {x}
           /\ ~SamePath(KeyOf[x], k, h) => Under(L \cup {x}, k, h) = Under(L, k, h)
BY DEF Under

LEMMA UnderOwn ==
    ASSUME NEW L, NEW x, NEW h
    PROVE  Under(L \cup {x}, KeyOf[x], h) = Under(L, KeyOf[x], h) \cup {x}
<1>1. SamePath(KeyOf[x], KeyOf[x], h)
    BY DEF SamePath
<1> QED BY <1>1 DEF Under

LEMMA ExactElsewhere ==
    ASSUME NEW node, NEW L, NEW M, NEW k, NEW h,
           Exact(node, L, k, h), Under(M, k, h) = Under(L, k, h)
    PROVE  Exact(node, M, k, h)
BY Zenon DEF Exact

(* A node above the level where x branches off keeps its children; its     *)
(* descendant may move.                                                    *)
LEMMA WidenedExact ==
    ASSUME NEW L \in SUBSET Leaf, NEW x \in Leaf, NEW h \in 1 .. H,
           NEW node \in Nodes, Exact(node, L, KeyOf[x], h),
           NEW z \in L, SamePath(KeyOf[z], KeyOf[x], h - 1)
    PROVE  /\ Exact(Widened(node, x), L \cup {x}, KeyOf[x], h)
           /\ Widened(node, x) \in Nodes
<1> DEFINE k == KeyOf[x]
           U == Under(L, k, h)
           V == Under(L \cup {x}, k, h)
           n == Widened(node, x)
<1>1. /\ h - 1 \in 0 .. H - 1 /\ h - 1 + 1 = h /\ h - 1 \in 0 .. H /\ h \in h - 1 .. H
      /\ KeyOf[x] \in AnyKey /\ KeyOf[z] \in AnyKey
    BY KeyFact, LengthFact
<1>2. SamePath(KeyOf[z], k, h)
    BY <1>1, SameUp
<1>3. z \in U /\ (Bit(KeyOf[z], h - 1) <=> Bit(k, h - 1))
    BY <1>1, <1>2, SameDown, UnderFact
<1>4. V = U \cup {x}
    BY UnderOwn, Zenon
<1>5. n \in Nodes /\ n.left = node.left /\ n.right = node.right
    BY DEF Widened, Nodes, Pointer
<1>6. /\ n.left <=> \E y \in U : ~Bit(KeyOf[y], h - 1)
      /\ n.right <=> \E y \in U : Bit(KeyOf[y], h - 1)
    BY <1>5 DEF Exact
<1>7. /\ n.left <=> \E y \in V : ~Bit(KeyOf[y], h - 1)
      /\ n.right <=> \E y \in V : Bit(KeyOf[y], h - 1)
    <2> HIDE DEF n, U, V
    <2> QED BY <1>3, <1>4, <1>6 DEF k
<1>8. \A y \in V : y \in Leaf /\ KeyOf[y] \in Nat
    BY KeyFact, UnderFact
<1>9. n.leaf = IF \/ ~node.left /\ KeyOf[x] < KeyOf[node.leaf]
                  \/ ~node.right /\ KeyOf[node.leaf] < KeyOf[x]
               THEN x ELSE node.leaf
    BY DEF Widened, Nodes
<1>10. ASSUME n.left, ~n.right
       PROVE  n.leaf \in V /\ \A y \in V : KeyOf[y] <= KeyOf[n.leaf]
    <2>1. node.leaf \in U /\ \A y \in U : KeyOf[y] <= KeyOf[node.leaf]
        BY <1>5, <1>10 DEF Exact
    <2>2. n.leaf = IF KeyOf[node.leaf] < KeyOf[x] THEN x ELSE node.leaf
        BY <1>5, <1>9, <1>10
    <2> HIDE DEF n, U, V
    <2> QED BY <1>4, <1>8, <2>1, <2>2
<1>11. ASSUME n.right, ~n.left
       PROVE  n.leaf \in V /\ \A y \in V : KeyOf[n.leaf] <= KeyOf[y]
    <2>1. node.leaf \in U /\ \A y \in U : KeyOf[node.leaf] <= KeyOf[y]
        BY <1>5, <1>11 DEF Exact
    <2>2. n.leaf = IF KeyOf[x] < KeyOf[node.leaf] THEN x ELSE node.leaf
        BY <1>5, <1>9, <1>11
    <2> HIDE DEF n, U, V
    <2> QED BY <1>4, <1>8, <2>1, <2>2
<1> QED BY <1>5, <1>7, <1>10, <1>11 DEF Exact

(* The node at which x branches off had one child and now has both.        *)
LEMMA BothExact ==
    ASSUME NEW L \in SUBSET Leaf, NEW x \in Leaf, NEW h \in 1 .. H,
           NEW node \in Nodes, Exact(node, L, KeyOf[x], h),
           Under(L, KeyOf[x], h) # {}, Under(L, KeyOf[x], h - 1) = {},
           NEW n \in Nodes,
           n.left = WithChild(node, extract_bit(KeyOf[x], h - 1)).left,
           n.right = WithChild(node, extract_bit(KeyOf[x], h - 1)).right
    PROVE  n.left /\ n.right /\ Exact(n, L \cup {x}, KeyOf[x], h)
<1> DEFINE k == KeyOf[x]
           b == extract_bit(k, h - 1)
           V == Under(L \cup {x}, k, h)
<1>1. k \in AnyKey /\ h - 1 \in 0 .. H - 1
    BY KeyFact, LengthFact
<1>2. b \in BOOLEAN /\ (b <=> Bit(k, h - 1))
    BY <1>1, BitFact
<1>3. (node.left <=> Bit(k, h - 1)) /\ (node.right <=> ~Bit(k, h - 1))
    BY <1>1, GapFact
<1>4. \/ b = TRUE /\ node.left = TRUE
      \/ b = FALSE /\ node.right = TRUE
    BY <1>2, <1>3 DEF Nodes
<1>5. n.left /\ n.right
    <2> HIDE DEF b
    <2>1. WithChild(node, b).left = TRUE /\ WithChild(node, b).right = TRUE
        BY <1>4 DEF WithChild, Nodes
    <2> QED BY <2>1 DEF b
<1>6. V = Under(L, k, h) \cup {x}
    BY UnderOwn, Zenon
<1>7. /\ node.left <=> \E y \in Under(L, k, h) : ~Bit(KeyOf[y], h - 1)
      /\ node.right <=> \E y \in Under(L, k, h) : Bit(KeyOf[y], h - 1)
    BY DEF Exact
<1>8. (\E y \in V : ~Bit(KeyOf[y], h - 1)) /\ (\E y \in V : Bit(KeyOf[y], h - 1))
    <2> HIDE DEF V
    <2> QED BY <1>3, <1>6, <1>7
<1> QED BY <1>5, <1>8 DEF Exact

(* A node made for x alone.                                                *)
LEMMA FreshExact ==
    ASSUME NEW L, NEW x \in Leaf, NEW h \in 1 .. H,
           Under(L, KeyOf[x], h) = {}
    PROVE  LET b == extract_bit(KeyOf[x], h - 1)
           IN  /\ Exact(Node(x, ~b, b), L \cup {x}, KeyOf[x], h)
               /\ Node(x, ~b, b) \in Nodes
<1> DEFINE k == KeyOf[x]
           b == extract_bit(k, h - 1)
           V == Under(L \cup {x}, k, h)
<1>1. k \in AnyKey /\ k \in Nat /\ h - 1 \in 0 .. H - 1
    BY KeyFact, LengthFact
<1>2. b \in BOOLEAN /\ (b <=> Bit(k, h - 1))
    BY <1>1, BitFact
<1>3. V = {x}
    <2>1. V = Under(L, k, h) \cup {x}
        BY UnderOwn, Zenon
    <2> QED BY <2>1
<1> HIDE DEF b, V
<1>4. Node(x, ~b, b) \in Nodes
    BY <1>2 DEF Node, Nodes, Pointer
<1>5. Exact(Node(x, ~b, b), L \cup {x}, k, h)
    <2> DEFINE n == Node(x, ~b, b)
    <2>1. n.leaf = x /\ n.left = ~b /\ n.right = b
        BY DEF Node
    <2> HIDE DEF n
    <2>2. /\ n.left <=> \E y \in V : ~Bit(KeyOf[y], h - 1)
          /\ n.right <=> \E y \in V : Bit(KeyOf[y], h - 1)
        BY <1>2, <1>3, <2>1
    <2>3. n.leaf \in V /\ \A y \in V : KeyOf[y] <= KeyOf[n.leaf] /\ KeyOf[n.leaf] <= KeyOf[y]
        BY <1>1, <1>3, <2>1
    <2>4. Exact(n, L \cup {x}, k, h)
        BY <2>2, <2>3 DEF Exact, V
    <2> QED BY <2>4 DEF n
<1> QED BY <1>4, <1>5 DEF b

LEMMA WidenedFields ==
    ASSUME NEW node \in Nodes, NEW x \in Leaf
    PROVE  /\ Widened(node, x) \in Nodes
           /\ Widened(node, x).left = node.left
           /\ Widened(node, x).right = node.right
BY DEF Widened, Nodes, Pointer

LEMMA WithChildFields ==
    ASSUME NEW node \in Nodes, NEW b \in BOOLEAN
    PROVE  /\ WithChild(node, b) \in Nodes
           /\ b => WithChild(node, b).left = node.left /\ WithChild(node, b).right = TRUE
           /\ ~b => WithChild(node, b).left = TRUE /\ WithChild(node, b).right = node.right
BY DEF WithChild, Nodes, Pointer

(* x branches off the paths of the leaves at level m - 1; all of its nodes *)
(* below are new.                                                          *)
BranchesAt(x, m) ==
    /\ m \in 1 .. H
    /\ Under(Leaves, KeyOf[x], m - 1) = {}
    /\ (Leaves = {} /\ m = H) \/ Under(Leaves, KeyOf[x], m) # {}

LEMMA BranchFact ==
    ASSUME Whole, NEW x \in Leaf, NextTo(approx(KeyOf[x]), KeyOf[x]),
           approx(KeyOf[x]).missed # "ON_TARGET"
    PROVE  BranchesAt(x, approx(KeyOf[x]).level)
<1>1. H \in 1 .. H
    BY LengthFact
<1>2. Leaves = {} => Under(Leaves, KeyOf[x], H - 1) = {}
    BY UnderFact
<1> QED BY <1>1, <1>2 DEF NextTo, BranchesAt

LEMMA BranchedOff ==
    ASSUME Whole, NEW x \in Leaf, NEW m, BranchesAt(x, m), NEW h \in 0 .. m - 1
    PROVE  Under(Leaves, KeyOf[x], h) = {}
<1>1. SUFFICES ASSUME NEW y \in Leaves, SamePath(KeyOf[y], KeyOf[x], h) PROVE FALSE
    BY UnderFact
<1>2. m \in 1 .. H /\ h \in 0 .. H /\ m - 1 \in h .. H
    BY LengthFact DEF BranchesAt
<1>3. KeyOf[y] \in AnyKey /\ KeyOf[x] \in AnyKey
    BY LeavesFact, KeyFact DEF Whole
<1>4. SamePath(KeyOf[y], KeyOf[x], m - 1)
    BY <1>1, <1>2, <1>3, SameUp
<1> QED BY <1>4, UnderFact DEF BranchesAt

LEMMA InsertedNodeExact ==
    ASSUME Whole, NEW x \in Leaf, NEW m, BranchesAt(x, m), NEW h \in 1 .. H - 1
    PROVE  /\ Exact(InsertedNode(x, h, m), Leaves \cup {x}, KeyOf[x], h)
           /\ InsertedNode(x, h, m) \in Nodes
<1> DEFINE k == KeyOf[x]
           p == shift(k, h)
           b == extract_bit(k, h - 1)
           node == hash[h][p]
<1>1. /\ k \in AnyKey /\ m \in 1 .. H /\ h \in 1 .. H
      /\ h \in 0 .. H - 1 /\ h - 1 \in 0 .. H - 1 /\ h # 0
    BY KeyFact, LengthFact DEF BranchesAt
<1>2. b \in BOOLEAN
    BY <1>1, BitFact
<1>3. InsertedNode(x, h, m) =
          IF h > m THEN Widened(node, x)
          ELSE IF p \in DOMAIN hash[h]
               THEN Widened(WithChild(IF h >= m THEN Widened(node, x) ELSE node, b), x)
          ELSE Node(x, ~b, b)
    <2>1. h > m => h >= m
        BY <1>1
    <2> QED BY <2>1, Zenon DEF InsertedNode
<1>4. p \in DOMAIN hash[h] <=> Under(Leaves, k, h) # {}
    BY <1>1, ContainsFact DEF Contains
<1>5. Under(Leaves, k, h) # {} => Exact(node, Leaves, k, h) /\ node \in Nodes
    BY <1>1, <1>4, ContainsFact DEF Contains, Whole, TypeOK
<1>6. Leaves \in SUBSET Leaf
    BY LeavesFact DEF Whole
<1>7. CASE h > m
    <2>1. PICK z \in Leaves : SamePath(KeyOf[z], k, m)
        BY <1>1, <1>7, UnderFact DEF BranchesAt
    <2>2. KeyOf[z] \in AnyKey /\ m \in 0 .. H /\ h \in m .. H /\ h - 1 \in m .. H
        BY <1>1, <1>6, <1>7, KeyFact, LengthFact
    <2>3. SamePath(KeyOf[z], k, h - 1) /\ SamePath(KeyOf[z], k, h)
        BY <1>1, <2>1, <2>2, SameUp
    <2>4. Exact(node, Leaves, k, h) /\ node \in Nodes
        BY <1>5, <2>3, UnderFact
    <2> HIDE DEF node
    <2>5. Exact(Widened(node, x), Leaves \cup {x}, k, h) /\ Widened(node, x) \in Nodes
        BY <1>1, <1>6, <2>3, <2>4, WidenedExact
    <2> QED BY <1>3, <1>7, <2>5
<1>8. CASE h = m
    <2>1. Under(Leaves, k, h) # {} /\ Under(Leaves, k, h - 1) = {}
        BY <1>8, LengthFact DEF BranchesAt
    <2>2. Exact(node, Leaves, k, h) /\ node \in Nodes
        BY <1>5, <2>1
    <2> DEFINE n == Widened(WithChild(Widened(node, x), b), x)
    <2>3. InsertedNode(x, h, m) = n
        BY <1>1, <1>3, <1>4, <1>8, <2>1
    <2> HIDE DEF b, node
    <2>4. n \in Nodes /\ n.left = WithChild(node, b).left /\ n.right = WithChild(node, b).right
        <3>1. /\ Widened(node, x) \in Nodes
              /\ Widened(node, x).left = node.left /\ Widened(node, x).right = node.right
            BY <2>2, WidenedFields
        <3>2. /\ WithChild(Widened(node, x), b) \in Nodes
              /\ WithChild(Widened(node, x), b).left = WithChild(node, b).left
              /\ WithChild(Widened(node, x), b).right = WithChild(node, b).right
            BY <1>2, <2>2, <3>1, WithChildFields
        <3> QED BY <3>2, WidenedFields
    <2> HIDE DEF n
    <2>5. Exact(n, Leaves \cup {x}, k, h)
        BY <1>1, <1>6, <2>1, <2>2, <2>4, BothExact DEF b
    <2> QED BY <2>3, <2>4, <2>5
<1>9. CASE h < m
    <2>1. Under(Leaves, k, h) = {}
        BY <1>1, <1>9, BranchedOff
    <2>2. InsertedNode(x, h, m) = Node(x, ~b, b)
        BY <1>1, <1>3, <1>4, <1>9, <2>1
    <2> QED BY <1>1, <2>1, <2>2, FreshExact
<1> QED BY <1>1, <1>7, <1>8, <1>9

LEMMA InsertedRootExact ==
    ASSUME Whole, NEW x \in Leaf, NextTo(approx(KeyOf[x]), KeyOf[x]),
           approx(KeyOf[x]).missed # "ON_TARGET", ~MisdirectsRoot(x)
    PROVE  /\ Exact(InsertedRoot(x, approx(KeyOf[x])), Leaves \cup {x}, NULL, H)
           /\ InsertedRoot(x, approx(KeyOf[x])) \in Nodes
<1> DEFINE k == KeyOf[x]
           a == approx(k)
           m == a.level
           start == IF a.missed = "EMPTY" THEN Node(x, FALSE, FALSE) ELSE root
           grown == IF m = H THEN WithChild(start, extract_bit(k, H - 1)) ELSE start
           n == InsertedRoot(x, a)
<1>1. n = IF ~HasChild(grown, extract_bit(k, m - 1))
          THEN [grown EXCEPT !.leaf = x] ELSE grown
    BY DEF InsertedRoot
<1>2. BranchesAt(x, m)
    BY BranchFact
<1>3. k \in AnyKey /\ m \in 1 .. H /\ H \in 1 .. H /\ m - 1 \in 0 .. H - 1 /\ H - 1 \in 0 .. H - 1
    BY <1>2, KeyFact, LengthFact DEF BranchesAt
<1>4. extract_bit(k, H - 1) \in BOOLEAN /\ extract_bit(k, m - 1) \in BOOLEAN
    BY <1>3, BitFact
<1>5. Exact(root, Leaves, k, H) /\ Under(Leaves, k, H) = Leaves /\ root \in Nodes
    BY RootFact DEF Whole, TypeOK
<1>6. Leaves \in SUBSET Leaf
    BY LeavesFact DEF Whole
<1>7. SUFFICES Exact(n, Leaves \cup {x}, k, H) /\ n \in Nodes
    <2>1. SamePath(k, NULL, H)
        BY DEF SamePath
    <2> QED BY <2>1, ExactSame
<1> HIDE DEF n
<1>8. CASE a.missed = "EMPTY"
    <2> DEFINE b == extract_bit(k, H - 1)
    <2>1. m = H /\ Leaves = {}
        BY <1>8 DEF NextTo
    <2>2. grown = WithChild(Node(x, FALSE, FALSE), b)
        BY <1>8, <2>1
    <2> HIDE DEF b
    <2>3. grown = Node(x, ~b, b)
        <3>1. b = TRUE \/ b = FALSE
            BY <1>4 DEF b
        <3> HIDE DEF grown
        <3> QED BY <2>2, <3>1 DEF WithChild, Node
    <2>4. HasChild(grown, b)
        <3>1. b = TRUE \/ b = FALSE
            BY <1>4 DEF b
        <3> HIDE DEF grown
        <3> QED BY <2>3, <3>1 DEF HasChild, Node
    <2>5. n = Node(x, ~b, b)
        BY <1>1, <2>1, <2>3, <2>4 DEF b
    <2>6. Under(Leaves, k, H) = {}
        BY <1>5, <2>1
    <2> QED BY <1>3, <2>5, <2>6, FreshExact DEF b
<1>9. CASE a.missed # "EMPTY" /\ m = H
    <2> DEFINE b == extract_bit(k, H - 1)
    <2>1. grown = WithChild(root, b)
        BY <1>9
    <2>2. Under(Leaves, k, H) # {} /\ Under(Leaves, k, H - 1) = {}
        BY <1>9 DEF NextTo
    <2> HIDE DEF b, grown
    <2>3. grown \in Nodes /\ HasChild(grown, b)
        <3>1. b = TRUE \/ b = FALSE
            BY <1>4 DEF b
        <3> QED BY <1>5, <2>1, <3>1, WithChildFields DEF HasChild
    <2>4. n = grown
        BY <1>1, <1>9, <2>3 DEF b
    <2>5. Exact(n, Leaves \cup {x}, k, H)
        BY <1>3, <1>5, <1>6, <2>1, <2>2, <2>3, <2>4, BothExact DEF b
    <2> QED BY <2>3, <2>4, <2>5
<1>10. CASE a.missed # "EMPTY" /\ m # H
    <2> DEFINE b == extract_bit(k, m - 1)
    <2>1. m < H /\ grown = root
        BY <1>3, <1>10
    <2>2. n = IF ~HasChild(root, b) THEN [root EXCEPT !.leaf = x] ELSE root
        BY <1>1, <2>1
    <2>3. PICK z \in Leaves : SamePath(KeyOf[z], k, m) /\ ~SamePath(KeyOf[z], k, m - 1)
        <3>1. Under(Leaves, k, m) # {} /\ Under(Leaves, k, m - 1) = {}
            BY <1>10 DEF NextTo
        <3> QED BY <3>1, UnderFact
    <2>4. KeyOf[z] \in AnyKey /\ KeyOf[z] \in Nat /\ k \in Nat
        BY <1>6, KeyFact
    <2>5. SamePath(KeyOf[z], k, H - 1)
        <3>1. H - 1 \in m .. H /\ m \in 0 .. H
            BY <1>3, <2>1, LengthFact
        <3> QED BY <1>3, <2>3, <2>4, <3>1, SameUp
    <2>6. Exact(Widened(root, x), Leaves \cup {x}, k, H) /\ Widened(root, x) \in Nodes
        BY <1>3, <1>5, <1>6, <2>5, WidenedExact
    <2>7. n = Widened(root, x)
        <3>1. CASE ~HasChild(root, b)
            <4>1. Widened(root, x) # root
                BY <2>1, <3>1 DEF MisdirectsRoot
            <4>2. Widened(root, x) = [root EXCEPT !.leaf = x]
                BY <4>1 DEF Widened
            <4> QED BY <2>2, <3>1, <4>2
        <3>2. CASE HasChild(root, b)
            <4>1. SamePath(k, KeyOf[z], m) /\ (Bit(KeyOf[z], m - 1) <=> ~Bit(k, m - 1))
                <5>1. m - 1 + 1 = m
                    BY <1>3
                <5> QED BY <1>3, <2>3, <2>4, <5>1, SameDown, SameIsEquivalence
            <4>2. (Bit(k, m - 1) => KeyOf[z] < k) /\ (~Bit(k, m - 1) => k < KeyOf[z])
                <5>1. m - 1 + 1 = m
                    BY <1>3
                <5> QED BY <1>3, <2>3, <2>4, <4>1, <5>1, SameDown
            <4>3. (b <=> Bit(k, m - 1)) /\ (b = TRUE \/ b = FALSE)
                BY <1>3, <1>4, BitFact
            <4>4. /\ root.left /\ ~root.right =>
                         root.leaf \in Leaves /\ \A y \in Leaves : KeyOf[y] <= KeyOf[root.leaf]
                  /\ root.right /\ ~root.left =>
                         root.leaf \in Leaves /\ \A y \in Leaves : KeyOf[root.leaf] <= KeyOf[y]
                BY <1>5, Zenon DEF Exact
            <4> HIDE DEF b
            <4>5. CASE b = TRUE
                <5>1. root.right /\ KeyOf[z] < k
                    BY <3>2, <4>2, <4>3, <4>5 DEF HasChild
                <5>2. ~root.left => ~(k < KeyOf[root.leaf])
                    <6>1. SUFFICES ASSUME ~root.left PROVE ~(k < KeyOf[root.leaf])
                        OBVIOUS
                    <6>2. root.leaf \in Leaves /\ KeyOf[root.leaf] <= KeyOf[z]
                        BY <4>4, <5>1, <6>1
                    <6>3. KeyOf[root.leaf] \in Nat
                        BY <1>6, <6>2, KeyFact
                    <6> QED BY <2>4, <5>1, <6>2, <6>3
                <5>3. Widened(root, x) = root
                    BY <5>1, <5>2 DEF Widened
                <5> QED BY <2>2, <3>2, <5>3
            <4>6. CASE b = FALSE
                <5>1. root.left /\ k < KeyOf[z]
                    BY <3>2, <4>2, <4>3, <4>6 DEF HasChild
                <5>2. ~root.right => ~(KeyOf[root.leaf] < k)
                    <6>1. SUFFICES ASSUME ~root.right PROVE ~(KeyOf[root.leaf] < k)
                        OBVIOUS
                    <6>2. root.leaf \in Leaves /\ KeyOf[z] <= KeyOf[root.leaf]
                        BY <4>4, <5>1, <6>1
                    <6>3. KeyOf[root.leaf] \in Nat
                        BY <1>6, <6>2, KeyFact
                    <6> QED BY <2>4, <5>1, <6>2, <6>3
                <5>3. Widened(root, x) = root
                    BY <5>1, <5>2 DEF Widened
                <5> QED BY <2>2, <3>2, <5>3
            <4> QED BY <4>3, <4>5, <4>6
        <3> QED BY <3>1, <3>2
    <2> QED BY <2>6, <2>7
<1> QED BY <1>8, <1>9, <1>10

(* The list with x between its neighbours.                                 *)
LEMMA LinkedIn ==
    ASSUME NEW L \in SUBSET Leaf, NULL \notin L, NEW x \in Leaf,
           \A y \in L : KeyOf[y] # KeyOf[x],
           \A y, z \in L : KeyOf[y] = KeyOf[z] => y = z,
           NEW p, IsPrv(p, L, KeyOf[x]), NEW q, IsNxt(q, L, KeyOf[x])
    PROVE  /\ IsPrv(p, L \cup {x}, KeyOf[x]) /\ IsNxt(q, L \cup {x}, KeyOf[x])
           /\ \A y \in L : \A u :
                  /\ IsPrv(u, L, KeyOf[y]) =>
                         IsPrv(IF y = q THEN x ELSE u, L \cup {x}, KeyOf[y])
                  /\ IsNxt(u, L, KeyOf[y]) =>
                         IsNxt(IF y = p THEN x ELSE u, L \cup {x}, KeyOf[y])
<1> DEFINE M == L \cup {x}
           k == KeyOf[x]
<1>1. k \in Nat /\ \A y \in L : KeyOf[y] \in Nat
    BY KeyFact
<1>2. IsPrv(p, M, k) /\ IsNxt(q, M, k)
    BY <1>1 DEF IsPrv, IsNxt
<1>3. ASSUME NEW y \in L, NEW u, IsPrv(u, L, KeyOf[y])
      PROVE  IsPrv(IF y = q THEN x ELSE u, M, KeyOf[y])
    <2>1. CASE y = q
        <3>1. k < KeyOf[y] /\ \A z \in L : KeyOf[y] <= KeyOf[z] \/ KeyOf[z] <= k
            BY <2>1 DEF IsNxt
        <3>2. IsPrv(x, M, KeyOf[y])
            BY <1>1, <3>1 DEF IsPrv
        <3> QED BY <2>1, <3>2
    <2>2. CASE y # q
        <3>1. CASE KeyOf[y] < k
            BY <1>1, <1>3, <2>2, <3>1 DEF IsPrv
        <3>2. CASE k < KeyOf[y]
            <4>1. q \in L /\ k < KeyOf[q] /\ KeyOf[q] <= KeyOf[y]
                BY <1>1, <3>2 DEF IsNxt
            <4>2. KeyOf[q] < KeyOf[y]
                BY <1>1, <2>2, <4>1
            <4>3. u \in L /\ KeyOf[u] < KeyOf[y]
                  /\ \A z \in L : KeyOf[z] <= KeyOf[u] \/ KeyOf[y] <= KeyOf[z]
                BY <1>1, <1>3, <4>1, <4>2 DEF IsPrv
            <4>4. k < KeyOf[u]
                BY <1>1, <4>1, <4>2, <4>3
            <4>5. IsPrv(u, M, KeyOf[y])
                BY <1>1, <4>3, <4>4 DEF IsPrv
            <4> QED BY <2>2, <4>5
        <3> QED BY <1>1, <3>1, <3>2
    <2> QED BY <2>1, <2>2
<1>4. ASSUME NEW y \in L, NEW u, IsNxt(u, L, KeyOf[y])
      PROVE  IsNxt(IF y = p THEN x ELSE u, M, KeyOf[y])
    <2>1. CASE y = p
        <3>1. KeyOf[y] < k /\ \A z \in L : KeyOf[z] <= KeyOf[y] \/ k <= KeyOf[z]
            BY <2>1 DEF IsPrv
        <3>2. IsNxt(x, M, KeyOf[y])
            BY <1>1, <3>1 DEF IsNxt
        <3> QED BY <2>1, <3>2
    <2>2. CASE y # p
        <3>1. CASE k < KeyOf[y]
            BY <1>1, <1>4, <2>2, <3>1 DEF IsNxt
        <3>2. CASE KeyOf[y] < k
            <4>1. p \in L /\ KeyOf[p] < k /\ KeyOf[y] <= KeyOf[p]
                BY <1>1, <3>2 DEF IsPrv
            <4>2. KeyOf[y] < KeyOf[p]
                BY <1>1, <2>2, <4>1
            <4>3. u \in L /\ KeyOf[y] < KeyOf[u]
                  /\ \A z \in L : KeyOf[u] <= KeyOf[z] \/ KeyOf[z] <= KeyOf[y]
                BY <1>1, <1>4, <4>1, <4>2 DEF IsNxt
            <4>4. KeyOf[u] < k
                BY <1>1, <4>1, <4>2, <4>3
            <4>5. IsNxt(u, M, KeyOf[y])
                BY <1>1, <4>3, <4>4 DEF IsNxt
            <4> QED BY <2>2, <4>5
        <3> QED BY <1>1, <3>1, <3>2
    <2> QED BY <2>1, <2>2
<1> QED BY <1>2, <1>3, <1>4

LEMMA InsertLeaves ==
    ASSUME Whole, NEW x \in Leaf, InsertNew(x)
    PROVE  /\ NextTo(approx(KeyOf[x]), KeyOf[x])
           /\ approx(KeyOf[x]).missed # "ON_TARGET"
           /\ \A y \in Leaves : KeyOf[y] # KeyOf[x]
           /\ x \notin Leaves
           /\ Leaves' = Leaves \cup {x}
           /\ Filed'
           /\ \A p \in DOMAIN hash'[0] : hash'[0][p] \in Leaf
<1> DEFINE k == KeyOf[x]
           p == shift(k, 0)
<1>1. k \in AnyKey /\ 0 \in 0 .. H - 1 /\ 0 # H
    BY KeyFact, LengthFact
<1>2. NextTo(approx(k), k)
    BY <1>1, ApproxFact
<1>3. approx(k).missed # "ON_TARGET"
    BY Zenon DEF InsertNew
<1>4. \A y \in Leaves : KeyOf[y] # k
    BY <1>1, <1>2, <1>3, Neighbours
<1>5. p \notin DOMAIN hash[0]
    <2>1. SUFFICES ASSUME p \in DOMAIN hash[0] PROVE FALSE
        OBVIOUS
    <2>2. hash[0][p] \in Leaves /\ shift(KeyOf[hash[0][p]], 0) = p
        BY <2>1 DEF Leaves, Whole, Filed
    <2>3. KeyOf[hash[0][p]] \in AnyKey
        BY <2>2, LeavesFact, KeyFact DEF Whole
    <2>4. KeyOf[hash[0][p]] = k
        BY <1>1, <2>2, <2>3, BitsAssumption
    <2> QED BY <1>4, <2>2, <2>4
<1>6. hash'[0] = Stored(0, p, x)
    <2>1. hash' = [h \in 0 .. H - 1 |->
                      Stored(h, shift(k, h),
                             IF h = 0 THEN x ELSE InsertedNode(x, h, approx(k).level))]
        BY Zenon DEF InsertNew
    <2> QED BY <1>1, <2>1
<1>7. /\ DOMAIN hash'[0] = DOMAIN hash[0] \cup {p}
      /\ hash'[0][p] = x
      /\ \A q \in DOMAIN hash[0] : hash'[0][q] = hash[0][q]
    BY <1>5, <1>6 DEF Stored
<1> HIDE DEF p
<1>8. Leaves' = Leaves \cup {x}
    <2>1. Leaves' = {hash'[0][q] : q \in DOMAIN hash'[0]}
        BY DEF Leaves
    <2>2. Leaves = {hash[0][q] : q \in DOMAIN hash[0]}
        BY DEF Leaves
    <2> QED BY <1>7, <2>1, <2>2
<1>9. \A q \in DOMAIN hash'[0] : hash'[0][q] \in Leaf
    BY <1>7 DEF Whole, TypeOK
<1>10. Filed'
    <2>1. \A q \in DOMAIN hash'[0] : shift(KeyOf[hash'[0][q]], 0) = q
        BY <1>7 DEF Whole, Filed, p
    <2> QED BY <2>1 DEF Filed
<1> QED BY <1>2, <1>3, <1>4, <1>8, <1>9, <1>10

LEMMA InsertKeepsWhole ==
    ASSUME Whole, NEW x \in Leaf, GuardedInsert(x)
    PROVE  Whole' /\ Leaves' = Leaves \cup {x}
<1> DEFINE k == KeyOf[x]
           a == approx(k)
           before == CASE a.missed = "EMPTY" -> NULL
                       [] a.missed = "MISSED_LEFT" -> a.leaf
                       [] a.missed = "MISSED_RIGHT" -> prv[a.leaf]
           after == CASE a.missed = "EMPTY" -> NULL
                      [] a.missed = "MISSED_LEFT" -> nxt[a.leaf]
                      [] a.missed = "MISSED_RIGHT" -> a.leaf
           M == Leaves \cup {x}
<1>1. InsertNew(x) /\ ~MisdirectsRoot(x)
    BY DEF GuardedInsert
<1>2. /\ prv' = [y \in Leaf |->
                    IF y = x THEN before ELSE IF y = after THEN x ELSE prv[y]]
      /\ nxt' = [y \in Leaf |->
                    IF y = x THEN after ELSE IF y = before THEN x ELSE nxt[y]]
      /\ root' = InsertedRoot(x, a)
      /\ hash' = [h \in 0 .. H - 1 |->
                     Stored(h, shift(k, h),
                            IF h = 0 THEN x ELSE InsertedNode(x, h, a.level))]
      /\ leftmost' = IF leftmost = NULL \/ k < KeyOf[leftmost] THEN x ELSE leftmost
      /\ rightmost' = IF rightmost = NULL \/ KeyOf[rightmost] < k THEN x ELSE rightmost
    BY <1>1, Zenon DEF InsertNew, LinkIn
<1>3. /\ NextTo(a, k) /\ a.missed # "ON_TARGET"
      /\ \A y \in Leaves : KeyOf[y] # k
      /\ x \notin Leaves /\ Leaves' = M /\ Filed'
      /\ \A p \in DOMAIN hash'[0] : hash'[0][p] \in Leaf
    BY <1>1, InsertLeaves
<1>4. /\ Leaves \in SUBSET Leaf /\ NULL \notin Leaves
      /\ \A y, z \in Leaves : KeyOf[y] = KeyOf[z] => y = z
    BY LeavesFact DEF Whole
<1>5. k \in AnyKey /\ k \in Nat
    BY KeyFact
<1>6. TypeOK /\ Linked /\ Levelled
    BY DEF Whole
<1>7. /\ IsPrv(before, Leaves, k) /\ IsNxt(after, Leaves, k)
      /\ before \in Pointer /\ after \in Pointer
    <2> HIDE DEF a, k
    <2>1. a.missed \in {"EMPTY", "MISSED_LEFT", "MISSED_RIGHT"}
        BY <1>3 DEF NextTo
    <2>2. IsPrv(before, Leaves, k) /\ IsNxt(after, Leaves, k)
        BY <1>3, <1>5, <2>1, Neighbours
    <2>3. \A q : q \in Leaves \/ q = NULL => q \in Pointer
        BY <1>4 DEF Pointer
    <2> HIDE DEF before, after
    <2>4. (before \in Leaves \/ before = NULL) /\ (after \in Leaves \/ after = NULL)
        BY <2>2 DEF IsPrv, IsNxt
    <2> QED BY <2>2, <2>3, <2>4
<1>8. BranchesAt(x, a.level)
    BY <1>3, BranchFact
<1>9. root' \in Nodes /\ Rooted'
    <2>1. Exact(InsertedRoot(x, a), M, NULL, H) /\ InsertedRoot(x, a) \in Nodes
        BY <1>1, <1>3, InsertedRootExact
    <2> HIDE DEF a, M
    <2> QED BY <1>2, <1>3, <2>1 DEF Rooted
<1> DEFINE m == a.level
<1>10. ASSUME NEW h \in 1 .. H - 1
       PROVE  /\ \A p \in DOMAIN hash'[h] : hash'[h][p] \in Nodes
              /\ DOMAIN hash'[h] = {shift(KeyOf[y], h) : y \in M}
              /\ \A y \in M : Exact(hash'[h][shift(KeyOf[y], h)], M, KeyOf[y], h)
    <2> DEFINE p == shift(k, h)
               n == InsertedNode(x, h, m)
    <2>1. h \in 0 .. H - 1 /\ h # 0 /\ h # H
        BY LengthFact
    <2>2. hash'[h] = Stored(h, p, n)
        <3> HIDE DEF p, n, m, a
        <3> QED BY <1>2, <2>1 DEF p, n, m
    <2>3. Exact(n, M, k, h) /\ n \in Nodes
        BY <1>8, InsertedNodeExact
    <2>4. /\ DOMAIN hash[h] = {shift(KeyOf[y], h) : y \in Leaves}
          /\ \A y \in Leaves : Exact(hash[h][shift(KeyOf[y], h)], Leaves, KeyOf[y], h)
          /\ \A q \in DOMAIN hash[h] : hash[h][q] \in Nodes
        BY <1>6 DEF Levelled, TypeOK
    <2> HIDE DEF n
    <2>5. /\ DOMAIN hash'[h] = DOMAIN hash[h] \cup {p}
          /\ hash'[h][p] = n
          /\ \A q \in DOMAIN hash[h] : q # p => hash'[h][q] = hash[h][q]
        BY <2>2 DEF Stored
    <2>6. DOMAIN hash'[h] = {shift(KeyOf[y], h) : y \in M}
        BY <2>4, <2>5
    <2>7. \A q \in DOMAIN hash'[h] : hash'[h][q] \in Nodes
        BY <2>3, <2>4, <2>5
    <2>8. ASSUME NEW y \in M
          PROVE  Exact(hash'[h][shift(KeyOf[y], h)], M, KeyOf[y], h)
        <3>1. CASE shift(KeyOf[y], h) = p
            <4>1. SamePath(k, KeyOf[y], h)
                BY <3>1 DEF SamePath
            <4>2. Exact(n, M, KeyOf[y], h)
                <5> HIDE DEF M, k
                <5> QED BY <2>3, <4>1, ExactSame
            <4> QED BY <2>5, <3>1, <4>2
        <3>2. CASE shift(KeyOf[y], h) # p
            <4>1. y \in Leaves
                BY <3>2
            <4>2. ~SamePath(KeyOf[x], KeyOf[y], h)
                BY <2>1, <3>2 DEF SamePath
            <4>3. Under(M, KeyOf[y], h) = Under(Leaves, KeyOf[y], h)
                BY <4>2 DEF Under
            <4>4. Exact(hash[h][shift(KeyOf[y], h)], M, KeyOf[y], h)
                <5> HIDE DEF M
                <5> QED BY <2>4, <4>1, <4>3, ExactElsewhere
            <4>5. shift(KeyOf[y], h) \in DOMAIN hash[h]
                BY <2>4, <4>1
            <4> QED BY <2>5, <3>2, <4>4, <4>5
        <3> QED BY <3>1, <3>2
    <2> QED BY <2>6, <2>7, <2>8
<1>11. Levelled'
    <2> HIDE DEF M, k, a
    <2> QED BY <1>3, <1>10 DEF Levelled
<1> HIDE DEF a, before, after, m
<1>12. TypeOK'
    <2>1. prv' \in [Leaf -> Pointer] /\ nxt' \in [Leaf -> Pointer]
        BY <1>2, <1>6, <1>7 DEF TypeOK, Pointer
    <2>2. leftmost' \in Pointer /\ rightmost' \in Pointer
        BY <1>2, <1>6 DEF TypeOK, Pointer
    <2>3. DOMAIN hash' = 0 .. H - 1
        BY <1>2
    <2> QED BY <1>3, <1>9, <1>10, <2>1, <2>2, <2>3 DEF TypeOK
<1>13. \A y \in M : IsPrv(prv'[y], M, KeyOf[y]) /\ IsNxt(nxt'[y], M, KeyOf[y])
    <2>1. /\ IsPrv(before, M, k) /\ IsNxt(after, M, k)
          /\ \A y \in Leaves : \A u :
                 /\ IsPrv(u, Leaves, KeyOf[y]) =>
                        IsPrv(IF y = after THEN x ELSE u, M, KeyOf[y])
                 /\ IsNxt(u, Leaves, KeyOf[y]) =>
                        IsNxt(IF y = before THEN x ELSE u, M, KeyOf[y])
        BY <1>3, <1>4, <1>7, LinkedIn
    <2>2. SUFFICES ASSUME NEW y \in M
                   PROVE  IsPrv(prv'[y], M, KeyOf[y]) /\ IsNxt(nxt'[y], M, KeyOf[y])
        BY Zenon
    <2>3. CASE y = x
        <3>1. prv'[x] = before /\ nxt'[x] = after
            BY <1>2
        <3> QED BY <2>1, <2>3, <3>1
    <2>4. CASE y # x
        <3>1. y \in Leaves /\ y \in Leaf
            BY <1>4, <2>4
        <3>2. /\ prv'[y] = IF y = after THEN x ELSE prv[y]
              /\ nxt'[y] = IF y = before THEN x ELSE nxt[y]
            BY <1>2, <2>4, <3>1
        <3>3. IsPrv(prv[y], Leaves, KeyOf[y]) /\ IsNxt(nxt[y], Leaves, KeyOf[y])
            BY <1>6, <3>1 DEF Linked
        <3> HIDE DEF M
        <3> QED BY <2>1, <3>1, <3>2, <3>3
    <2> QED BY <2>3, <2>4
<1>14. IsFirst(leftmost', M) /\ IsLast(rightmost', M)
    <2>1. IsFirst(leftmost, Leaves) /\ IsLast(rightmost, Leaves)
        BY <1>6 DEF Linked
    <2>2. \A y \in Leaves : KeyOf[y] \in Nat
        BY <1>4, KeyFact
    <2>3. IsFirst(leftmost', M)
        BY <1>2, <1>4, <1>5, <2>1, <2>2 DEF IsFirst
    <2>4. IsLast(rightmost', M)
        BY <1>2, <1>4, <1>5, <2>1, <2>2 DEF IsLast
    <2> QED BY <2>3, <2>4
<1>15. Linked'
    <2> HIDE DEF M
    <2> QED BY <1>3, <1>13, <1>14 DEF Linked
<1> QED BY <1>3, <1>9, <1>11, <1>12, <1>15 DEF Whole

-----------------------------------------------------------------------------
(* remove.                                                                 *)

LEMMA HasChildFact ==
    ASSUME NEW node \in Nodes, NEW L, NEW k, NEW h, Exact(node, L, k, h),
           NEW b
    PROVE  HasChild(node, ~b) <=> \E y \in Under(L, k, h) : Bit(KeyOf[y], h - 1) <=> ~b
<1>1. /\ node.left <=> \E y \in Under(L, k, h) : ~Bit(KeyOf[y], h - 1)
      /\ node.right <=> \E y \in Under(L, k, h) : Bit(KeyOf[y], h - 1)
    BY Zenon DEF Exact
<1>2. CASE b
    BY <1>1, <1>2, Zenon DEF HasChild
<1>3. CASE ~b
    BY <1>1, <1>3, Zenon DEF HasChild
<1> QED BY <1>2, <1>3

(* A subtree goes with x just if it holds nothing else.                    *)
LEMMA SubtreeFact ==
    ASSUME Whole, NEW x \in Leaves, NEW h \in 1 .. H
    PROVE  SubtreeRemoved(x, h) <=>
               \A y \in Leaves : SamePath(KeyOf[y], KeyOf[x], h - 1) => y = x
<1> DEFINE k == KeyOf[x]
<1>1. /\ Leaves \subseteq Leaf
      /\ \A y \in Leaves : KeyOf[y] \in AnyKey
      /\ \A y \in Leaves : KeyOf[y] = k => y = x
    BY LeavesFact, KeyFact DEF Whole
<1>2. ASSUME NEW g \in 1 .. h - 1
      PROVE  HasChild(hash[g][shift(k, g)], ~extract_bit(k, g - 1)) <=>
                 \E y \in Leaves : /\ SamePath(KeyOf[y], k, g)
                                   /\ Bit(KeyOf[y], g - 1) <=> ~Bit(k, g - 1)
    <2> DEFINE node == hash[g][shift(k, g)]
               b == extract_bit(k, g - 1)
    <2>1. g \in 1 .. H - 1 /\ g - 1 \in 0 .. H - 1
        BY LengthFact
    <2>2. Exact(node, Leaves, k, g) /\ node \in Nodes
        <3>1. Exact(node, Leaves, k, g) /\ shift(k, g) \in DOMAIN hash[g]
            BY <2>1 DEF Whole, Levelled
        <3> QED BY <2>1, <3>1 DEF Whole, TypeOK
    <2>3. b \in BOOLEAN /\ (b <=> Bit(k, g - 1))
        BY <1>1, <2>1, BitFact
    <2> HIDE DEF node, b
    <2>4. HasChild(node, ~b) <=> \E y \in Under(Leaves, k, g) : Bit(KeyOf[y], g - 1) <=> ~b
        BY <2>2, HasChildFact, Zenon
    <2>5. HasChild(node, ~b) <=>
              \E y \in Leaves : /\ SamePath(KeyOf[y], k, g)
                                /\ Bit(KeyOf[y], g - 1) <=> ~Bit(k, g - 1)
        BY <2>3, <2>4, Zenon DEF Under
    <2> QED BY <2>5 DEF node, b
<1>3. ASSUME SubtreeRemoved(x, h),
             NEW y \in Leaves, SamePath(KeyOf[y], k, h - 1), y # x
      PROVE  FALSE
    <2>1. ~SamePath(KeyOf[y], k, 0)
        <3>1. KeyOf[y] # k /\ 0 # H
            BY <1>1, <1>3, LengthFact
        <3> QED BY <1>1, <3>1, BitsAssumption DEF SamePath
    <2>2. PICK f \in 0 .. H - 1 :
              /\ SamePath(KeyOf[y], k, f + 1) /\ ~SamePath(KeyOf[y], k, f)
              /\ Bit(KeyOf[y], f) <=> ~Bit(k, f)
        BY <1>1, <2>1, Parting, LengthFact
    <2>3. f < h - 1
        <3>1. SUFFICES ASSUME f >= h - 1 PROVE FALSE
            BY LengthFact
        <3>2. h - 1 \in 0 .. H /\ f \in h - 1 .. H
            BY <3>1, LengthFact
        <3>3. SamePath(KeyOf[y], k, f)
            BY <1>1, <1>3, <3>2, SameUp
        <3> QED BY <2>2, <3>3
    <2>4. f + 1 \in 1 .. h - 1 /\ f + 1 - 1 = f
        BY <2>3, LengthFact
    <2>5. ~HasChild(hash[f + 1][shift(k, f + 1)], ~extract_bit(k, f + 1 - 1))
        BY <1>3, <2>4 DEF SubtreeRemoved
    <2> QED BY <1>2, <2>2, <2>4, <2>5
<1>4. ASSUME \A y \in Leaves : SamePath(KeyOf[y], k, h - 1) => y = x,
             NEW g \in 1 .. h - 1,
             HasChild(hash[g][shift(k, g)], ~extract_bit(k, g - 1))
      PROVE  FALSE
    <2>1. PICK y \in Leaves : /\ SamePath(KeyOf[y], k, g)
                              /\ Bit(KeyOf[y], g - 1) <=> ~Bit(k, g - 1)
        BY <1>2, <1>4
    <2>2. g \in 0 .. H /\ h - 1 \in g .. H
        BY LengthFact
    <2>3. SamePath(KeyOf[y], k, h - 1)
        BY <1>1, <2>1, <2>2, SameUp
    <2>4. y = x
        BY <1>4, <2>3
    <2> QED BY <2>1, <2>4
<1> QED BY <1>3, <1>4 DEF SubtreeRemoved

(* A neighbour of x is on its path as far as anything on that side is.     *)
LEMMA PrvInside ==
    ASSUME NEW L \in SUBSET Leaf, NULL \notin L, NEW x \in L, NEW h \in 0 .. H,
           NEW p, IsPrv(p, L, KeyOf[x]),
           NEW z \in L, KeyOf[z] < KeyOf[x], SamePath(KeyOf[z], KeyOf[x], h)
    PROVE  /\ p \in Under(L \ {x}, KeyOf[x], h)
           /\ \A y \in L : KeyOf[y] < KeyOf[x] => KeyOf[y] <= KeyOf[p]
<1>1. \A y \in L : KeyOf[y] \in AnyKey /\ KeyOf[y] \in Nat
    BY KeyFact
<1>2. p \in L /\ KeyOf[p] < KeyOf[x] /\ \A y \in L : KeyOf[y] <= KeyOf[p] \/ KeyOf[x] <= KeyOf[y]
    BY <1>1 DEF IsPrv
<1>3. KeyOf[z] <= KeyOf[p] /\ KeyOf[p] <= KeyOf[x] /\ p # x
    BY <1>1, <1>2
<1>4. SamePath(KeyOf[z], KeyOf[p], h)
    BY <1>1, <1>2, <1>3, Between
<1>5. SamePath(KeyOf[p], KeyOf[x], h)
    BY <1>4, SameIsEquivalence
<1>6. p \in Under(L \ {x}, KeyOf[x], h)
    BY <1>2, <1>3, <1>5 DEF Under
<1> QED BY <1>1, <1>2, <1>6

LEMMA NxtInside ==
    ASSUME NEW L \in SUBSET Leaf, NULL \notin L, NEW x \in L, NEW h \in 0 .. H,
           NEW q, IsNxt(q, L, KeyOf[x]),
           NEW z \in L, KeyOf[x] < KeyOf[z], SamePath(KeyOf[z], KeyOf[x], h)
    PROVE  /\ q \in Under(L \ {x}, KeyOf[x], h)
           /\ \A y \in L : KeyOf[x] < KeyOf[y] => KeyOf[q] <= KeyOf[y]
<1>1. \A y \in L : KeyOf[y] \in AnyKey /\ KeyOf[y] \in Nat
    BY KeyFact
<1>2. q \in L /\ KeyOf[x] < KeyOf[q] /\ \A y \in L : KeyOf[q] <= KeyOf[y] \/ KeyOf[y] <= KeyOf[x]
    BY <1>1 DEF IsNxt
<1>3. KeyOf[x] <= KeyOf[q] /\ KeyOf[q] <= KeyOf[z] /\ q # x
    BY <1>1, <1>2
<1>4. SamePath(KeyOf[x], KeyOf[z], h)
    BY SameIsEquivalence
<1>5. SamePath(KeyOf[x], KeyOf[q], h)
    BY <1>1, <1>2, <1>3, <1>4, Between
<1>6. SamePath(KeyOf[q], KeyOf[x], h)
    BY <1>5, SameIsEquivalence
<1>7. q \in Under(L \ {x}, KeyOf[x], h)
    BY <1>2, <1>3, <1>6 DEF Under
<1> QED BY <1>1, <1>2, <1>7

LEMMA RepointedFields ==
    ASSUME NEW node \in Nodes, NEW x \in Leaf, TypeOK
    PROVE  /\ Repointed(node, x) \in Nodes
           /\ Repointed(node, x).left = node.left
           /\ Repointed(node, x).right = node.right
           /\ node.leaf # x => Repointed(node, x).leaf = node.leaf
           /\ node.leaf = x /\ node.left /\ ~node.right => Repointed(node, x).leaf = prv[x]
           /\ node.leaf = x /\ node.right /\ ~node.left => Repointed(node, x).leaf = nxt[x]
<1>1. prv[x] \in Pointer /\ nxt[x] \in Pointer
    BY DEF TypeOK
<1> QED BY <1>1 DEF Repointed, Nodes

LEMMA PrunedRight ==
    ASSUME NEW node \in Nodes, NEW x \in Leaf, NEW h \in 1 .. H, TypeOK,
           Bit(KeyOf[x], h - 1)
    PROVE  /\ Pruned(node, x, h) \in Nodes
           /\ Pruned(node, x, h).right = FALSE
           /\ Pruned(node, x, h).left = node.left
           /\ node.left = TRUE => Pruned(node, x, h).leaf = prv[x]
<1> DEFINE n == Pruned(node, x, h)
           b == extract_bit(KeyOf[x], h - 1)
<1>1. prv[x] \in Pointer /\ nxt[x] \in Pointer /\ NULL \in Pointer
    BY DEF TypeOK, Pointer
<1>2. n = [WithoutChild(node, b) EXCEPT
              !.leaf = IF ~HasChild(node, ~b) THEN NULL ELSE IF b THEN prv[x] ELSE nxt[x]]
    BY Zenon DEF Pruned
<1>3. b = TRUE
    <2>1. KeyOf[x] \in AnyKey /\ h - 1 \in 0 .. H - 1
        BY KeyFact, LengthFact
    <2> QED BY <2>1, BitFact DEF Bit
<1> HIDE DEF b, n
<1>4. n = [[node EXCEPT !.right = FALSE] EXCEPT
              !.leaf = IF ~node.left THEN NULL ELSE prv[x]]
    BY <1>2, <1>3 DEF WithoutChild, HasChild
<1>5. /\ n \in Nodes /\ n.right = FALSE /\ n.left = node.left
      /\ node.left = TRUE => n.leaf = prv[x]
    BY <1>1, <1>4 DEF Nodes
<1> QED BY <1>5 DEF n

LEMMA PrunedLeft ==
    ASSUME NEW node \in Nodes, NEW x \in Leaf, NEW h \in 1 .. H, TypeOK,
           ~Bit(KeyOf[x], h - 1)
    PROVE  /\ Pruned(node, x, h) \in Nodes
           /\ Pruned(node, x, h).left = FALSE
           /\ Pruned(node, x, h).right = node.right
           /\ node.right = TRUE => Pruned(node, x, h).leaf = nxt[x]
<1> DEFINE n == Pruned(node, x, h)
           b == extract_bit(KeyOf[x], h - 1)
<1>1. prv[x] \in Pointer /\ nxt[x] \in Pointer /\ NULL \in Pointer
    BY DEF TypeOK, Pointer
<1>2. n = [WithoutChild(node, b) EXCEPT
              !.leaf = IF ~HasChild(node, ~b) THEN NULL ELSE IF b THEN prv[x] ELSE nxt[x]]
    BY Zenon DEF Pruned
<1>3. b = FALSE
    <2>1. KeyOf[x] \in AnyKey /\ h - 1 \in 0 .. H - 1
        BY KeyFact, LengthFact
    <2> QED BY <2>1, BitFact DEF Bit
<1> HIDE DEF b, n
<1>4. n = [[node EXCEPT !.left = FALSE] EXCEPT
              !.leaf = IF ~node.right THEN NULL ELSE nxt[x]]
    BY <1>2, <1>3 DEF WithoutChild, HasChild
<1>5. /\ n \in Nodes /\ n.left = FALSE /\ n.right = node.right
      /\ node.right = TRUE => n.leaf = nxt[x]
    BY <1>1, <1>4 DEF Nodes
<1> QED BY <1>5 DEF n

LEMMA RemovedNodeExact ==
    ASSUME Whole, NEW x \in Leaves, NEW h \in 1 .. H,
           NEW node \in Nodes, Exact(node, Leaves, KeyOf[x], h)
    PROVE  /\ RemovedNode(node, x, h) \in Nodes
           /\ Exact(RemovedNode(node, x, h), Leaves \ {x}, KeyOf[x], h)
<1> DEFINE k == KeyOf[x]
           U == Under(Leaves, k, h)
           V == Under(Leaves \ {x}, k, h)
           n == RemovedNode(node, x, h)
<1>1. /\ Leaves \in SUBSET Leaf /\ NULL \notin Leaves /\ x \in Leaf /\ TypeOK
      /\ \A y \in Leaves : KeyOf[y] \in AnyKey /\ KeyOf[y] \in Nat
      /\ \A y \in Leaves : KeyOf[y] = k => y = x
    BY LeavesFact, KeyFact DEF Whole
<1>2. h - 1 \in 0 .. H - 1 /\ h - 1 + 1 = h /\ h \in 0 .. H
    BY LengthFact
<1>4. V = U \ {x} /\ x \in U /\ U \subseteq Leaves
    BY DEF Under, SamePath
<1>5. /\ node.left <=> \E y \in U : ~Bit(KeyOf[y], h - 1)
      /\ node.right <=> \E y \in U : Bit(KeyOf[y], h - 1)
      /\ node.left /\ ~node.right =>
             node.leaf \in U /\ \A y \in U : KeyOf[y] <= KeyOf[node.leaf]
      /\ node.right /\ ~node.left =>
             node.leaf \in U /\ \A y \in U : KeyOf[node.leaf] <= KeyOf[y]
    BY Zenon DEF Exact
<1>6. \A y \in V : /\ y \in Leaves /\ y # x /\ SamePath(KeyOf[y], k, h)
                   /\ Bit(k, h - 1) /\ ~Bit(KeyOf[y], h - 1) => KeyOf[y] < k
                   /\ ~Bit(k, h - 1) /\ Bit(KeyOf[y], h - 1) => k < KeyOf[y]
    <2> SUFFICES ASSUME NEW y \in V
                 PROVE  /\ y \in Leaves /\ y # x /\ SamePath(KeyOf[y], k, h)
                        /\ Bit(k, h - 1) /\ ~Bit(KeyOf[y], h - 1) => KeyOf[y] < k
                        /\ ~Bit(k, h - 1) /\ Bit(KeyOf[y], h - 1) => k < KeyOf[y]
        OBVIOUS
    <2>1. y \in Leaves /\ y # x /\ SamePath(KeyOf[y], k, h)
        BY DEF Under
    <2>2. SamePath(k, KeyOf[y], h)
        BY <2>1, SameIsEquivalence
    <2> QED BY <1>1, <1>2, <2>1, <2>2, SameDown
<1>7. /\ IsPrv(prv[x], Leaves, k) /\ IsNxt(nxt[x], Leaves, k)
    BY DEF Whole, Linked
<1>8. ASSUME NEW z \in V, KeyOf[z] < k
      PROVE  prv[x] \in V /\ \A y \in Leaves : KeyOf[y] < k => KeyOf[y] <= KeyOf[prv[x]]
    <2>1. z \in Leaves /\ SamePath(KeyOf[z], k, h)
        BY <1>6
    <2> QED BY <1>1, <1>2, <1>7, <1>8, <2>1, PrvInside
<1>9. ASSUME NEW z \in V, k < KeyOf[z]
      PROVE  nxt[x] \in V /\ \A y \in Leaves : k < KeyOf[y] => KeyOf[nxt[x]] <= KeyOf[y]
    <2>1. z \in Leaves /\ SamePath(KeyOf[z], k, h)
        BY <1>6
    <2> QED BY <1>1, <1>2, <1>7, <1>9, <2>1, NxtInside
<1> SUFFICES /\ n \in Nodes
             /\ n.left <=> \E y \in V : ~Bit(KeyOf[y], h - 1)
             /\ n.right <=> \E y \in V : Bit(KeyOf[y], h - 1)
             /\ n.left /\ ~n.right =>
                    n.leaf \in V /\ \A y \in V : KeyOf[y] <= KeyOf[n.leaf]
             /\ n.right /\ ~n.left =>
                    n.leaf \in V /\ \A y \in V : KeyOf[n.leaf] <= KeyOf[y]
    BY Zenon DEF Exact
<1>10. CASE SubtreeRemoved(x, h)
    <2>1. n = Pruned(node, x, h)
        BY <1>10 DEF RemovedNode
    <2>3. \A y \in V : Bit(KeyOf[y], h - 1) <=> ~Bit(k, h - 1)
        <3> SUFFICES ASSUME NEW y \in V PROVE Bit(KeyOf[y], h - 1) <=> ~Bit(k, h - 1)
            OBVIOUS
        <3>1. y \in Leaves /\ y # x /\ SamePath(KeyOf[y], k, h)
            BY <1>6
        <3>2. ~SamePath(KeyOf[y], k, h - 1)
            BY <1>10, <3>1, SubtreeFact
        <3> QED BY <1>1, <1>2, <3>1, <3>2, SameDown
    <2> HIDE DEF n, U, V
    <2>4. CASE Bit(k, h - 1)
        <3>1. \A y \in V : ~Bit(KeyOf[y], h - 1) /\ KeyOf[y] < k
            BY <1>6, <2>3, <2>4
        <3>2. /\ n \in Nodes /\ n.left = node.left /\ n.right = FALSE
              /\ n.left = TRUE => n.leaf = prv[x]
            BY <1>1, <2>1, <2>4, PrunedRight
        <3>3. n.left <=> \E y \in V : ~Bit(KeyOf[y], h - 1)
            BY <1>4, <1>5, <2>4, <3>1, <3>2
        <3>4. ~(\E y \in V : Bit(KeyOf[y], h - 1))
            BY <3>1
        <3>5. n.left => n.leaf \in V /\ \A y \in V : KeyOf[y] <= KeyOf[n.leaf]
            <4>1. SUFFICES ASSUME n.left PROVE n.leaf \in V /\ \A y \in V : KeyOf[y] <= KeyOf[n.leaf]
                OBVIOUS
            <4>2. PICK z \in V : KeyOf[z] < k
                BY <3>1, <3>3, <4>1
            <4>3. prv[x] \in V /\ \A y \in Leaves : KeyOf[y] < k => KeyOf[y] <= KeyOf[prv[x]]
                BY <1>8, <4>2
            <4>4. n.left = TRUE
                BY <3>2, <4>1 DEF Nodes
            <4> QED BY <1>6, <3>1, <3>2, <4>3, <4>4
        <3> QED BY <3>2, <3>3, <3>4, <3>5
    <2>5. CASE ~Bit(k, h - 1)
        <3>1. \A y \in V : Bit(KeyOf[y], h - 1) /\ k < KeyOf[y]
            BY <1>6, <2>3, <2>5
        <3>2. /\ n \in Nodes /\ n.left = FALSE /\ n.right = node.right
              /\ n.right = TRUE => n.leaf = nxt[x]
            BY <1>1, <2>1, <2>5, PrunedLeft
        <3>3. n.right <=> \E y \in V : Bit(KeyOf[y], h - 1)
            BY <1>4, <1>5, <2>5, <3>1, <3>2
        <3>4. ~(\E y \in V : ~Bit(KeyOf[y], h - 1))
            BY <3>1
        <3>5. n.right => n.leaf \in V /\ \A y \in V : KeyOf[n.leaf] <= KeyOf[y]
            <4>1. SUFFICES ASSUME n.right PROVE n.leaf \in V /\ \A y \in V : KeyOf[n.leaf] <= KeyOf[y]
                OBVIOUS
            <4>2. PICK z \in V : k < KeyOf[z]
                BY <3>1, <3>3, <4>1
            <4>3. nxt[x] \in V /\ \A y \in Leaves : k < KeyOf[y] => KeyOf[nxt[x]] <= KeyOf[y]
                BY <1>9, <4>2
            <4>4. n.right = TRUE
                BY <3>2, <4>1 DEF Nodes
            <4> QED BY <1>6, <3>1, <3>2, <4>3, <4>4
        <3> QED BY <3>2, <3>3, <3>4, <3>5
    <2> QED BY <2>4, <2>5
<1>11. CASE ~SubtreeRemoved(x, h)
    <2>1. n = Repointed(node, x)
        BY <1>11 DEF RemovedNode
    <2>2. /\ n \in Nodes /\ n.left = node.left /\ n.right = node.right
          /\ node.leaf # x => n.leaf = node.leaf
          /\ node.leaf = x /\ node.left /\ ~node.right => n.leaf = prv[x]
          /\ node.leaf = x /\ node.right /\ ~node.left => n.leaf = nxt[x]
        <3> HIDE DEF n
        <3> QED BY <1>1, <2>1, RepointedFields
    <2>3. PICK z \in Leaves : SamePath(KeyOf[z], k, h - 1) /\ z # x
        BY <1>11, SubtreeFact
    <2>4. SamePath(KeyOf[z], k, h) /\ (Bit(KeyOf[z], h - 1) <=> Bit(k, h - 1))
        BY <1>1, <1>2, <2>3, SameDown
    <2>5. z \in V /\ z \in U
        BY <1>4, <2>3, <2>4, UnderFact
    <2>6. KeyOf[z] # k
        BY <1>1, <2>3
    <2> HIDE DEF n, U, V
    <2>7. /\ n.left <=> \E y \in V : ~Bit(KeyOf[y], h - 1)
          /\ n.right <=> \E y \in V : Bit(KeyOf[y], h - 1)
        <3>1. (\E y \in U : Bit(KeyOf[y], h - 1)) <=> (\E y \in V : Bit(KeyOf[y], h - 1))
            BY <1>4, <2>4, <2>5
        <3>2. (\E y \in U : ~Bit(KeyOf[y], h - 1)) <=> (\E y \in V : ~Bit(KeyOf[y], h - 1))
            BY <1>4, <2>4, <2>5
        <3> QED BY <1>5, <2>2, <3>1, <3>2
    <2>8. ASSUME n.left, ~n.right
          PROVE  n.leaf \in V /\ \A y \in V : KeyOf[y] <= KeyOf[n.leaf]
        <3>1. node.leaf \in U /\ \A y \in U : KeyOf[y] <= KeyOf[node.leaf]
            BY <1>5, <2>2, <2>8
        <3>2. CASE node.leaf # x
            BY <1>4, <2>2, <3>1, <3>2
        <3>3. CASE node.leaf = x
            <4>1. \A y \in V : y \in Leaves /\ KeyOf[y] < k
                BY <1>1, <1>4, <1>6, <3>1, <3>3
            <4>2. prv[x] \in V /\ \A y \in Leaves : KeyOf[y] < k => KeyOf[y] <= KeyOf[prv[x]]
                BY <1>8, <2>5, <4>1
            <4>3. n.leaf = prv[x]
                BY <2>2, <2>8, <3>3
            <4> QED BY <4>1, <4>2, <4>3
        <3> QED BY <3>2, <3>3
    <2>9. ASSUME n.right, ~n.left
          PROVE  n.leaf \in V /\ \A y \in V : KeyOf[n.leaf] <= KeyOf[y]
        <3>1. node.leaf \in U /\ \A y \in U : KeyOf[node.leaf] <= KeyOf[y]
            BY <1>5, <2>2, <2>9
        <3>2. CASE node.leaf # x
            BY <1>4, <2>2, <3>1, <3>2
        <3>3. CASE node.leaf = x
            <4>1. \A y \in V : y \in Leaves /\ k < KeyOf[y]
                BY <1>1, <1>4, <1>6, <3>1, <3>3
            <4>2. nxt[x] \in V /\ \A y \in Leaves : k < KeyOf[y] => KeyOf[nxt[x]] <= KeyOf[y]
                BY <1>9, <2>5, <4>1
            <4>3. n.leaf = nxt[x]
                BY <2>2, <2>9, <3>3
            <4> QED BY <4>1, <4>2, <4>3
        <3> QED BY <3>2, <3>3
    <2> QED BY <2>2, <2>7, <2>8, <2>9
<1> QED BY <1>10, <1>11

(* The list without x.                                                     *)
LEMMA LinkedOut ==
    ASSUME NEW L \in SUBSET Leaf, NULL \notin L, NEW x \in L,
           \A y, z \in L : KeyOf[y] = KeyOf[z] => y = z,
           NEW p, IsPrv(p, L, KeyOf[x]), NEW q, IsNxt(q, L, KeyOf[x])
    PROVE  /\ \A y \in L \ {x} : \A u :
                  /\ IsPrv(u, L, KeyOf[y]) =>
                         IsPrv(IF y = q THEN p ELSE u, L \ {x}, KeyOf[y])
                  /\ IsNxt(u, L, KeyOf[y]) =>
                         IsNxt(IF y = p THEN q ELSE u, L \ {x}, KeyOf[y])
           /\ \A f : IsFirst(f, L) => IsFirst(IF f = x THEN q ELSE f, L \ {x})
           /\ \A f : IsLast(f, L) => IsLast(IF f = x THEN p ELSE f, L \ {x})
<1> DEFINE M == L \ {x}
           k == KeyOf[x]
<1>1. k \in Nat /\ \A y \in L : KeyOf[y] \in Nat
    BY KeyFact
<1>2. \A y \in M : y \in L /\ (KeyOf[y] < k \/ k < KeyOf[y])
    BY <1>1
<1>3. ASSUME NEW y \in M, NEW u, IsPrv(u, L, KeyOf[y])
      PROVE  IsPrv(IF y = q THEN p ELSE u, M, KeyOf[y])
    <2>1. CASE y = q
        <3>1. k < KeyOf[y] /\ \A z \in L : KeyOf[y] <= KeyOf[z] \/ KeyOf[z] <= k
            BY <2>1 DEF IsNxt
        <3>2. IsPrv(p, M, KeyOf[y])
            BY <1>1, <1>2, <3>1 DEF IsPrv
        <3> QED BY <2>1, <3>2
    <2>2. CASE y # q
        <3>1. u # x
            BY <1>1, <1>2, <1>3, <2>2 DEF IsPrv, IsNxt
        <3>2. IsPrv(u, M, KeyOf[y])
            BY <1>3, <3>1 DEF IsPrv
        <3> QED BY <2>2, <3>2
    <2> QED BY <2>1, <2>2
<1>4. ASSUME NEW y \in M, NEW u, IsNxt(u, L, KeyOf[y])
      PROVE  IsNxt(IF y = p THEN q ELSE u, M, KeyOf[y])
    <2>1. CASE y = p
        <3>1. KeyOf[y] < k /\ \A z \in L : KeyOf[z] <= KeyOf[y] \/ k <= KeyOf[z]
            BY <2>1 DEF IsPrv
        <3>2. IsNxt(q, M, KeyOf[y])
            BY <1>1, <1>2, <3>1 DEF IsNxt
        <3> QED BY <2>1, <3>2
    <2>2. CASE y # p
        <3>1. u # x
            BY <1>1, <1>2, <1>4, <2>2 DEF IsPrv, IsNxt
        <3>2. IsNxt(u, M, KeyOf[y])
            BY <1>4, <3>1 DEF IsNxt
        <3> QED BY <2>2, <3>2
    <2> QED BY <2>1, <2>2
<1>5. ASSUME NEW f, IsFirst(f, L)
      PROVE  IsFirst(IF f = x THEN q ELSE f, M)
    BY <1>1, <1>2, <1>5 DEF IsFirst, IsNxt
<1>6. ASSUME NEW f, IsLast(f, L)
      PROVE  IsLast(IF f = x THEN p ELSE f, M)
    BY <1>1, <1>2, <1>6 DEF IsLast, IsPrv
<1> QED BY <1>3, <1>4, <1>5, <1>6

LEMMA RemoveLeaves ==
    ASSUME Whole, NEW x \in Leaf, Remove(x)
    PROVE  /\ x \in Leaves
           /\ Leaves' = Leaves \ {x}
           /\ Filed'
           /\ \A p \in DOMAIN hash'[0] : hash'[0][p] \in Leaf
<1> DEFINE k == KeyOf[x]
           p == shift(k, 0)
<1>1. x \in Leaves
    BY Zenon DEF Remove
<1>2. p \in DOMAIN hash[0] /\ hash[0][p] = x
    BY <1>1, LeavesFact DEF Whole
<1>3. SubtreeRemoved(x, 0 + 1)
    BY DEF SubtreeRemoved
<1>4. hash'[0] = [q \in DOMAIN hash[0] \ {p} |->
                     IF q = p THEN RemovedNode(hash[0][q], x, 0) ELSE hash[0][q]]
    <2>1. hash' = [h \in 0 .. H - 1 |->
                       LET gone == IF SubtreeRemoved(x, h + 1)
                                   THEN {shift(k, h)} ELSE {}
                       IN  [q \in DOMAIN hash[h] \ gone |->
                               IF q = shift(k, h)
                               THEN RemovedNode(hash[h][q], x, h)
                               ELSE hash[h][q]]]
        BY Zenon DEF Remove
    <2>2. 0 \in 0 .. H - 1
        BY LengthFact
    <2> QED BY <1>3, <2>1, <2>2, Zenon
<1>5. /\ DOMAIN hash'[0] = DOMAIN hash[0] \ {p}
      /\ \A q \in DOMAIN hash'[0] : hash'[0][q] = hash[0][q]
    <2> HIDE DEF p
    <2> QED BY <1>4
<1> HIDE DEF p
<1>6. Leaves' = Leaves \ {x}
    <2>1. Leaves' = {hash'[0][q] : q \in DOMAIN hash'[0]}
        BY DEF Leaves
    <2>2. Leaves = {hash[0][q] : q \in DOMAIN hash[0]}
        BY DEF Leaves
    <2>3. \A q \in DOMAIN hash[0] : hash[0][q] = x => q = p
        BY DEF Whole, Filed, p
    <2> QED BY <1>2, <1>5, <2>1, <2>2, <2>3
<1>7. \A q \in DOMAIN hash'[0] : hash'[0][q] \in Leaf
    BY <1>5 DEF Whole, TypeOK
<1>8. Filed'
    <2>1. \A q \in DOMAIN hash'[0] : shift(KeyOf[hash'[0][q]], 0) = q
        BY <1>5 DEF Whole, Filed
    <2> QED BY <2>1 DEF Filed
<1> QED BY <1>1, <1>6, <1>7, <1>8

LEMMA RemoveKeepsWhole ==
    ASSUME Whole, NEW x \in Leaf, Remove(x)
    PROVE  Whole' /\ Leaves' = Leaves \ {x} /\ x \in Leaves
<1> DEFINE k == KeyOf[x]
           M == Leaves \ {x}
<1>1. /\ prv' = [y \in Leaf |->
                    IF y = x THEN NULL ELSE IF y = nxt[x] THEN prv[x] ELSE prv[y]]
      /\ nxt' = [y \in Leaf |->
                    IF y = x THEN NULL ELSE IF y = prv[x] THEN nxt[x] ELSE nxt[y]]
      /\ root' = RemovedNode(root, x, H)
      /\ hash' = [h \in 0 .. H - 1 |->
                       LET gone == IF SubtreeRemoved(x, h + 1)
                                   THEN {shift(k, h)} ELSE {}
                       IN  [q \in DOMAIN hash[h] \ gone |->
                               IF q = shift(k, h)
                               THEN RemovedNode(hash[h][q], x, h)
                               ELSE hash[h][q]]]
      /\ leftmost' = IF leftmost = x THEN nxt[x] ELSE leftmost
      /\ rightmost' = IF rightmost = x THEN prv[x] ELSE rightmost
    BY Zenon DEF Remove
<1>2. /\ x \in Leaves /\ Leaves' = M /\ Filed'
      /\ \A p \in DOMAIN hash'[0] : hash'[0][p] \in Leaf
    BY RemoveLeaves
<1>3. /\ Leaves \in SUBSET Leaf /\ NULL \notin Leaves
      /\ \A y, z \in Leaves : KeyOf[y] = KeyOf[z] => y = z
    BY LeavesFact DEF Whole
<1>4. TypeOK /\ Linked /\ Levelled
    BY DEF Whole
<1>5. IsPrv(prv[x], Leaves, k) /\ IsNxt(nxt[x], Leaves, k)
    BY <1>2, <1>4 DEF Linked
<1>6. root' \in Nodes /\ Rooted'
    <2>1. Exact(root, Leaves, k, H) /\ root \in Nodes /\ H \in 1 .. H
        BY <1>4, RootFact, LengthFact DEF TypeOK
    <2>2. Exact(root', M, k, H) /\ root' \in Nodes
        BY <1>1, <1>2, <2>1, RemovedNodeExact
    <2>3. SamePath(k, NULL, H)
        BY DEF SamePath
    <2> HIDE DEF M, k
    <2>4. Exact(root', M, NULL, H)
        BY <2>2, <2>3, ExactSame
    <2> QED BY <1>2, <2>2, <2>4 DEF Rooted
<1>7. ASSUME NEW h \in 1 .. H - 1
      PROVE  /\ \A p \in DOMAIN hash'[h] : hash'[h][p] \in Nodes
             /\ DOMAIN hash'[h] = {shift(KeyOf[y], h) : y \in M}
             /\ \A y \in M : Exact(hash'[h][shift(KeyOf[y], h)], M, KeyOf[y], h)
    <2> DEFINE p == shift(k, h)
               gone == IF SubtreeRemoved(x, h + 1) THEN {p} ELSE {}
               n == RemovedNode(hash[h][p], x, h)
    <2>1. h \in 0 .. H - 1 /\ h # H /\ h \in 1 .. H /\ h + 1 \in 1 .. H /\ h + 1 - 1 = h
        BY LengthFact
    <2>2. hash'[h] = [q \in DOMAIN hash[h] \ gone |->
                         IF q = p THEN RemovedNode(hash[h][q], x, h) ELSE hash[h][q]]
        BY <1>1, <2>1, Zenon
    <2>3. /\ DOMAIN hash[h] = {shift(KeyOf[y], h) : y \in Leaves}
          /\ \A y \in Leaves : Exact(hash[h][shift(KeyOf[y], h)], Leaves, KeyOf[y], h)
          /\ \A q \in DOMAIN hash[h] : hash[h][q] \in Nodes
        BY <1>4 DEF Levelled, TypeOK
    <2>4. Exact(n, M, k, h) /\ n \in Nodes
        <3>1. Exact(hash[h][p], Leaves, k, h) /\ hash[h][p] \in Nodes
            BY <1>2, <2>3
        <3> QED BY <1>2, <2>1, <3>1, RemovedNodeExact
    <2>5. SubtreeRemoved(x, h + 1) <=>
              \A y \in Leaves : SamePath(KeyOf[y], k, h) => y = x
        BY <1>2, <2>1, SubtreeFact
    <2>6. gone = {p} <=> \A y \in M : shift(KeyOf[y], h) # p
        <3>1. \A y : SamePath(KeyOf[y], k, h) <=> shift(KeyOf[y], h) = p
            BY <2>1 DEF SamePath
        <3>2. SubtreeRemoved(x, h + 1) <=> \A y \in M : shift(KeyOf[y], h) # p
            BY <2>5, <3>1
        <3> HIDE DEF M
        <3> QED BY <3>2
    <2> HIDE DEF n
    <2>7. /\ DOMAIN hash'[h] = DOMAIN hash[h] \ gone
          /\ p \in DOMAIN hash'[h] => hash'[h][p] = n
          /\ \A q \in DOMAIN hash'[h] : q # p => hash'[h][q] = hash[h][q]
        <3> HIDE DEF gone, p
        <3> QED BY <2>2 DEF n
    <2>8. DOMAIN hash'[h] = {shift(KeyOf[y], h) : y \in M}
        <3>1. gone = {p} \/ gone = {}
            OBVIOUS
        <3>2. {shift(KeyOf[y], h) : y \in Leaves} = {shift(KeyOf[y], h) : y \in M} \cup {p}
            BY <1>2
        <3>3. gone = {p} <=> p \notin {shift(KeyOf[y], h) : y \in M}
            <4> HIDE DEF gone, M, p
            <4> QED BY <2>6
        <3> HIDE DEF gone, M, p
        <3> QED BY <2>3, <2>7, <3>1, <3>2, <3>3
    <2>9. \A q \in DOMAIN hash'[h] : hash'[h][q] \in Nodes
        <3> HIDE DEF gone, M, p
        <3> QED BY <2>3, <2>4, <2>7
    <2>10. ASSUME NEW y \in M
           PROVE  Exact(hash'[h][shift(KeyOf[y], h)], M, KeyOf[y], h)
        <3>0. shift(KeyOf[y], h) \in DOMAIN hash'[h]
            BY <2>8
        <3>1. CASE shift(KeyOf[y], h) = p
            <4>1. SamePath(k, KeyOf[y], h)
                BY <3>1 DEF SamePath
            <4>2. Exact(n, M, KeyOf[y], h)
                <5> HIDE DEF M, k
                <5> QED BY <2>4, <4>1, ExactSame
            <4> HIDE DEF M, gone
            <4> QED BY <2>7, <3>0, <3>1, <4>2
        <3>2. CASE shift(KeyOf[y], h) # p
            <4>1. y \in Leaves
                OBVIOUS
            <4>2. ~SamePath(KeyOf[x], KeyOf[y], h)
                BY <2>1, <3>2 DEF SamePath
            <4>3. Under(M, KeyOf[y], h) = Under(Leaves, KeyOf[y], h)
                BY <4>2 DEF Under
            <4>4. Exact(hash[h][shift(KeyOf[y], h)], M, KeyOf[y], h)
                <5> HIDE DEF M
                <5> QED BY <2>3, <4>1, <4>3, ExactElsewhere
            <4> HIDE DEF M, gone
            <4> QED BY <2>7, <3>0, <3>2, <4>4
        <3> QED BY <3>1, <3>2
    <2> QED BY <2>8, <2>9, <2>10
<1>8. Levelled'
    <2> HIDE DEF M, k
    <2> QED BY <1>2, <1>7 DEF Levelled
<1>9. TypeOK'
    <2>1. prv[x] \in Pointer /\ nxt[x] \in Pointer /\ NULL \in Pointer
        BY <1>4 DEF TypeOK, Pointer
    <2>2. prv' \in [Leaf -> Pointer] /\ nxt' \in [Leaf -> Pointer]
        BY <1>1, <1>4, <2>1 DEF TypeOK
    <2>3. leftmost' \in Pointer /\ rightmost' \in Pointer
        BY <1>1, <1>4, <2>1 DEF TypeOK
    <2>4. DOMAIN hash' = 0 .. H - 1
        BY <1>1
    <2> QED BY <1>2, <1>6, <1>7, <2>2, <2>3, <2>4 DEF TypeOK
<1>10. Linked'
    <2>1. /\ \A y \in M : \A u :
                 /\ IsPrv(u, Leaves, KeyOf[y]) =>
                        IsPrv(IF y = nxt[x] THEN prv[x] ELSE u, M, KeyOf[y])
                 /\ IsNxt(u, Leaves, KeyOf[y]) =>
                        IsNxt(IF y = prv[x] THEN nxt[x] ELSE u, M, KeyOf[y])
          /\ \A f : IsFirst(f, Leaves) => IsFirst(IF f = x THEN nxt[x] ELSE f, M)
          /\ \A f : IsLast(f, Leaves) => IsLast(IF f = x THEN prv[x] ELSE f, M)
        BY <1>2, <1>3, <1>5, LinkedOut
    <2>2. ASSUME NEW y \in M
          PROVE  IsPrv(prv'[y], M, KeyOf[y]) /\ IsNxt(nxt'[y], M, KeyOf[y])
        <3>1. y \in Leaves /\ y \in Leaf /\ y # x
            BY <1>3
        <3>2. /\ prv'[y] = IF y = nxt[x] THEN prv[x] ELSE prv[y]
              /\ nxt'[y] = IF y = prv[x] THEN nxt[x] ELSE nxt[y]
            BY <1>1, <3>1
        <3>3. IsPrv(prv[y], Leaves, KeyOf[y]) /\ IsNxt(nxt[y], Leaves, KeyOf[y])
            BY <1>4, <3>1 DEF Linked
        <3> HIDE DEF M
        <3> QED BY <2>1, <3>2, <3>3
    <2>3. IsFirst(leftmost', M) /\ IsLast(rightmost', M)
        <3>1. IsFirst(leftmost, Leaves) /\ IsLast(rightmost, Leaves)
            BY <1>4 DEF Linked
        <3> HIDE DEF M
        <3> QED BY <1>1, <2>1, <3>1
    <2> HIDE DEF M
    <2> QED BY <1>2, <2>2, <2>3 DEF Linked
<1> QED BY <1>2, <1>6, <1>8, <1>9, <1>10 DEF Whole

-----------------------------------------------------------------------------
(* The trie without leaves, new or cleared.                                *)

LEMMA ExactEmpty ==
    ASSUME NEW k, NEW h
    PROVE  Exact(Node(NULL, FALSE, FALSE), {}, k, h)
BY DEF Exact, Node, Under

LEMMA InitWhole == Init => Whole /\ Leaves = {}
<1> SUFFICES ASSUME Init PROVE Whole /\ Leaves = {}
    OBVIOUS
<1>1. 0 \in 0 .. H - 1 /\ 1 .. H - 1 \subseteq 0 .. H - 1
    BY LengthFact
<1>2. \A h \in 0 .. H - 1 : DOMAIN hash[h] = {}
    BY DEF Init, NoNodes
<1>3. Leaves = {}
    BY <1>1, <1>2 DEF Leaves
<1>4. root \in Nodes /\ Rooted
    BY <1>3, ExactEmpty DEF Init, Rooted, Node, Nodes, Pointer
<1>5. TypeOK
    BY <1>1, <1>2, <1>4 DEF Init, TypeOK, Pointer
<1>6. Filed /\ Levelled
    BY <1>1, <1>2, <1>3 DEF Filed, Levelled
<1>7. Linked
    BY <1>3 DEF Init, Linked, IsFirst, IsLast
<1> QED BY <1>3, <1>4, <1>5, <1>6, <1>7 DEF Whole

LEMMA ClearWhole == Clear => Whole' /\ Leaves' = {}
<1> SUFFICES ASSUME Clear PROVE Whole' /\ Leaves' = {}
    OBVIOUS
<1>1. 0 \in 0 .. H - 1 /\ 1 .. H - 1 \subseteq 0 .. H - 1
    BY LengthFact
<1>2. \A h \in 0 .. H - 1 : DOMAIN hash'[h] = {}
    BY DEF Clear, NoNodes
<1>3. Leaves' = {}
    BY <1>1, <1>2 DEF Leaves
<1>4. root' \in Nodes /\ Rooted'
    BY <1>3, ExactEmpty DEF Clear, Rooted, Node, Nodes, Pointer
<1>5. TypeOK'
    BY <1>1, <1>2, <1>4 DEF Clear, TypeOK, Pointer
<1>6. Filed' /\ Levelled'
    BY <1>1, <1>2, <1>3 DEF Filed, Levelled
<1>7. Linked'
    BY <1>3 DEF Clear, Linked, IsFirst, IsLast
<1> QED BY <1>3, <1>4, <1>5, <1>6, <1>7 DEF Whole

-----------------------------------------------------------------------------
(* The theorems, under GuardedSpec: no insert of a key that is there, and  *)
(* none that xfast.h:183 takes for the leaf nearest the gap.               *)

LEMMA StepKeepsWhole ==
    ASSUME Whole, [GuardedNext]_vars
    PROVE  Whole'
<1>1. ASSUME NEW x \in Leaf, GuardedInsert(x) PROVE Whole'
    BY <1>1, InsertKeepsWhole
<1>2. ASSUME NEW x \in Leaf, Remove(x) PROVE Whole'
    BY <1>2, RemoveKeepsWhole
<1>3. CASE Clear
    BY <1>3, ClearWhole
<1>4. CASE UNCHANGED vars
    <2>1. /\ root' = root /\ hash' = hash /\ prv' = prv /\ nxt' = nxt
          /\ leftmost' = leftmost /\ rightmost' = rightmost
        BY <1>4 DEF vars
    <2>2. Leaves' = Leaves
        BY <2>1 DEF Leaves
    <2>3. TypeOK'
        BY <2>1 DEF Whole, TypeOK
    <2>4. Filed' /\ Levelled' /\ Rooted' /\ Linked'
        BY <2>1, <2>2 DEF Whole, Filed, Levelled, Rooted, Linked
    <2> QED BY <2>3, <2>4 DEF Whole
<1> QED BY <1>1, <1>2, <1>3, <1>4 DEF GuardedNext

(* The inductive invariant holds: the list is sorted, the tables hold the  *)
(* prefixes of the leaves, and every node fits the leaves below it, through *)
(* all inserts and removals.                                               *)
THEOREM WholeHolds == GuardedSpec => []Whole
<1>1. Init => Whole
    BY InitWhole
<1> QED BY <1>1, StepKeepsWhole, PTL DEF GuardedSpec

(* The tables hold leaves and nodes, and all pointers are to leaves.       *)
THEOREM TypeCorrect == GuardedSpec => []TypeOK
BY WholeHolds, AllFollow, PTL

(* The list runs through the leaves in the order of their keys, both ways  *)
(* and from end to end.                                                    *)
THEOREM LinksCorrect == GuardedSpec => []LinksSorted
BY WholeHolds, AllFollow, PTL

(* Every table holds just the prefixes of the leaves, and every node knows *)
(* its children.                                                           *)
THEOREM PrefixesCorrect == GuardedSpec => []PrefixesExact
BY WholeHolds, AllFollow, PTL

(* The descendant of a node with one child is the leaf next to its gap.    *)
THEOREM DescendantsCorrect == GuardedSpec => []DescendantsExact
BY WholeHolds, AllFollow, PTL

(* The binary search over the levels, a recursion over intervals of levels,*)
(* ends on the longest prefix the trie has of any key.                     *)
THEOREM SearchCorrect == GuardedSpec => []SearchExact
BY WholeHolds, AllFollow, PTL

(* find, pred and succ answer for every key what the sorted set of the     *)
(* keys would.                                                             *)
THEOREM QueriesCorrect == GuardedSpec => []QueriesExact
BY WholeHolds, AllFollow, PTL

(* insert adds one key, remove takes one away, clear takes all.            *)
THEOREM Refinement == GuardedSpec => ImplementsSortedSet
<1>1. Init => Abstract!Init
    BY InitWhole DEF Contents, Abstract!Init
<1>2. ASSUME Whole, [GuardedNext]_vars PROVE [Abstract!Next]_Contents
    <2>1. ASSUME NEW x \in Leaf, GuardedInsert(x) PROVE Contents' \in Abstract!Inserted
        <3>1. Leaves' = Leaves \cup {x}
            BY <1>2, <2>1, InsertKeepsWhole
        <3>2. Contents' = Contents \cup {KeyOf[x]} /\ KeyOf[x] \in Key
            BY <3>1 DEF Contents, Key
        <3> QED BY <3>2 DEF Abstract!Inserted
    <2>2. ASSUME NEW x \in Leaf, Remove(x) PROVE Contents' \in Abstract!Removed
        <3>1. Leaves' = Leaves \ {x} /\ x \in Leaves
            BY <1>2, <2>2, RemoveKeepsWhole
        <3>2. \A y \in Leaves : KeyOf[y] = KeyOf[x] => y = x
            BY <1>2, <3>1, LeavesFact DEF Whole
        <3>3. Contents' = Contents \ {KeyOf[x]} /\ KeyOf[x] \in Contents
            BY <3>1, <3>2 DEF Contents
        <3> QED BY <3>3 DEF Abstract!Removed
    <2>3. ASSUME Clear PROVE Contents' = Abstract!Cleared
        BY <2>3, ClearWhole DEF Contents, Abstract!Cleared
    <2>4. CASE UNCHANGED vars
        BY <2>4 DEF vars, Contents, Leaves
    <2> QED BY <1>2, <2>1, <2>2, <2>3, <2>4 DEF GuardedNext, Abstract!Next
<1> QED BY <1>1, <1>2, WholeHolds, PTL DEF GuardedSpec, ImplementsSortedSet, Abstract!Spec
=============================================================================
