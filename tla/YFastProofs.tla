----------------------------- MODULE YFastProofs -----------------------------
(***************************************************************************)
(* Theorems about YFast, for every finite set of keys and all thresholds   *)
(* that ThresholdAssumption admits: what the trees and their separators    *)
(* keep, that the trie is a sorted set, and what it answers and announces: *)
(* pred, succ and the ends look at no more than two trees and answer for   *)
(* the whole container, and keys change trees only when the rebuild count  *)
(* changes.  The last one bounds the trees, as the thresholds of the code  *)
(* do.                                                                     *)
(***************************************************************************)
EXTENDS YFast, OperatorProofs

-----------------------------------------------------------------------------
(* The trees and their xleaves.                                            *)

AllBelow(A, B) == \A x \in A, y \in B : x < y

Typed == XLeaves \subseteq Key /\ \A x \in XLeaves : value[x] \subseteq Key

Shape == Typed /\ TreesOrdered /\ SeparatorsInRange

(* Any set of keys in use is a finite set of naturals.                     *)
LEMMA Finite ==
    ASSUME Typed
    PROVE  /\ XLeaves \in SUBSET Nat /\ IsFiniteSet(XLeaves)
           /\ \A x \in XLeaves : value[x] \in SUBSET Nat /\ IsFiniteSet(value[x])
           /\ Contents \in SUBSET Key /\ Contents \in SUBSET Nat
           /\ IsFiniteSet(Contents)
<1>1. Contents \subseteq Key
    BY DEF Typed, Contents
<1> QED BY <1>1, KeyAssumption, FS_Subset DEF Typed

(* The xleaves around a key k: pred is the last one not above it, succ the *)
(* first one above it.                                                     *)
IsAround(k, pred, succ) ==
    /\ \/ pred = NULL /\ \A s \in XLeaves : k < s
       \/ /\ pred # NULL /\ pred \in XLeaves /\ pred <= k
          /\ \A s \in XLeaves : s <= pred \/ k < s
    /\ \/ succ = NULL /\ \A s \in XLeaves : s <= k
       \/ /\ succ # NULL /\ succ \in XLeaves /\ k < succ
          /\ \A s \in XLeaves : s <= k \/ succ <= s

LEMMA AroundFrom ==
    ASSUME XLeaves \in SUBSET Nat, NEW k \in Nat, NEW pred, NEW succ,
           \/ pred = NULL /\ \A s \in XLeaves : k < s
           \/ /\ pred # NULL /\ pred \in XLeaves /\ pred <= k
              /\ \A s \in XLeaves : s <= pred \/ k < s,
           pred = NULL =>
               \/ succ = NULL /\ XLeaves = {}
               \/ succ # NULL /\ succ \in XLeaves /\ \A s \in XLeaves : succ <= s,
           pred # NULL =>
               \/ succ = NULL /\ \A s \in XLeaves : s <= pred
               \/ /\ succ # NULL /\ succ \in XLeaves /\ pred < succ
                  /\ \A s \in XLeaves : succ <= s \/ s <= pred
    PROVE  IsAround(k, pred, succ)
<1>1. CASE pred = NULL
    BY <1>1 DEF IsAround
<1>2. CASE pred # NULL
    <2>1. pred \in XLeaves /\ pred <= k /\ \A s \in XLeaves : s <= pred \/ k < s
        BY <1>2
    <2>2. CASE succ = NULL
        <3>1. \A s \in XLeaves : s <= pred
            BY <1>2, <2>2
        <3>2. \A s \in XLeaves : s <= k
            BY <2>1, <3>1
        <3> QED BY <1>2, <2>1, <2>2, <3>2 DEF IsAround
    <2>3. CASE succ # NULL
        <3>1. succ \in XLeaves /\ pred < succ /\ \A s \in XLeaves : succ <= s \/ s <= pred
            BY <1>2, <2>3
        <3>2. k < succ
            BY <2>1, <3>1
        <3>3. \A s \in XLeaves : s <= k \/ succ <= s
            BY <2>1, <3>1
        <3> QED BY <1>2, <2>1, <2>3, <3>1, <3>2, <3>3 DEF IsAround
    <2> QED BY <2>2, <2>3
<1> QED BY <1>1, <1>2

LEMMA Around ==
    ASSUME Typed, NEW k \in Nat
    PROVE  IsAround(k, XPred(k, FALSE), SuccOfPred(k))
<1> DEFINE pred == XPred(k, FALSE)
           succ == SuccOfPred(k)
<1>1. XLeaves \in SUBSET Nat /\ IsFiniteSet(XLeaves)
    BY Finite
<1>2. \/ pred = NULL /\ \A s \in XLeaves : k < s
      \/ /\ pred # NULL /\ pred \in XLeaves /\ pred <= k
         /\ \A s \in XLeaves : s <= pred \/ k < s
    BY <1>1, LastUpTo DEF XPred
<1>3. succ = IF pred # NULL THEN Nxt(pred) ELSE LeastOf(XLeaves)
    BY DEF SuccOfPred
<1> HIDE DEF pred, succ
<1>4. ASSUME pred = NULL
      PROVE  \/ succ = NULL /\ XLeaves = {}
             \/ succ # NULL /\ succ \in XLeaves /\ \A s \in XLeaves : succ <= s
    BY <1>1, <1>3, <1>4, LeastOfFact
<1>5. ASSUME pred # NULL
      PROVE  \/ succ = NULL /\ \A s \in XLeaves : s <= pred
             \/ /\ succ # NULL /\ succ \in XLeaves /\ pred < succ
                /\ \A s \in XLeaves : succ <= s \/ s <= pred
    <2>1. succ = SuccIn(XLeaves, pred, TRUE)
        BY <1>3, <1>5 DEF Nxt
    <2>2. pred \in Nat
        BY <1>1, <1>2, <1>5
    <2> QED BY <1>1, <2>1, <2>2, FirstAfter
<1>6. IsAround(k, pred, succ)
    BY <1>1, <1>2, <1>4, <1>5, AroundFrom
<1> QED BY <1>6 DEF pred, succ

-----------------------------------------------------------------------------
(* Replacing trees.                                                        *)

Ordered(L, v) == \A r, s \in L : r < s => AllBelow(v[r], v[s])

Spans(t, x) == (\E y \in t : y <= x) /\ (\E y \in t : x <= y)

(* The xleaf s and its tree t lie on one side of all the keys in u.        *)
Apart(s, t, u) ==
    \/ (\A y \in u : s < y) /\ AllBelow(t, u)
    \/ (\A y \in u : y < s) /\ AllBelow(u, t)

(* Trees over T can take the place of those in `gone' if all others, at K, *)
(* lie apart from T.                                                       *)
Fits(K, v, T, N, new, w) ==
    /\ K \in SUBSET Nat /\ N \in SUBSET Nat /\ T \in SUBSET Nat
    /\ \A s \in K : v[s] \in SUBSET Nat
    /\ Ordered(K, v)
    /\ \A s \in K : Apart(s, v[s], T)
    /\ \A n \in N : new[n] \in SUBSET T /\ Spans(new[n], n)
    /\ Ordered(N, new)
    /\ \A n \in N : w[n] = new[n]
    /\ \A s \in K \ N : w[s] = v[s]

LEMMA Slot ==
    ASSUME NEW K, NEW v, NEW T, NEW N, NEW new, NEW w, Fits(K, v, T, N, new, w)
    PROVE  K \cap N = {} /\ Ordered(K \cup N, w)
<1> USE DEF Fits
<1>1. ASSUME NEW s \in K, NEW n \in N
      PROVE  /\ s # n
             /\ s < n => AllBelow(v[s], new[n])
             /\ n < s => AllBelow(new[n], v[s])
    <2>1. PICK a \in new[n], b \in new[n] : a <= n /\ n <= b
        BY DEF Spans
    <2>2. a \in T /\ b \in T /\ a \in Nat /\ b \in Nat /\ s \in Nat /\ n \in Nat
        BY <2>1
    <2>3. CASE (\A y \in T : s < y) /\ AllBelow(v[s], T)
        <3>1. s < n
            BY <2>1, <2>2, <2>3
        <3>2. AllBelow(v[s], new[n])
            BY <2>3 DEF AllBelow
        <3> QED BY <2>2, <3>1, <3>2
    <2>4. CASE (\A y \in T : y < s) /\ AllBelow(T, v[s])
        <3>1. n < s
            BY <2>1, <2>2, <2>4
        <3>2. AllBelow(new[n], v[s])
            BY <2>4 DEF AllBelow
        <3> QED BY <2>2, <3>1, <3>2
    <2> QED BY <2>3, <2>4 DEF Apart
<1>2. K \cap N = {}
    BY <1>1
<1>3. ASSUME NEW r \in K \cup N, NEW s \in K \cup N, r < s
      PROVE  AllBelow(w[r], w[s])
    <2>1. CASE r \in K /\ s \in K
        BY <1>2, <1>3, <2>1 DEF Ordered
    <2>2. CASE r \in K /\ s \in N
        BY <1>1, <1>2, <1>3, <2>2
    <2>3. CASE r \in N /\ s \in K
        BY <1>1, <1>2, <1>3, <2>3
    <2>4. CASE r \in N /\ s \in N
        BY <1>3, <2>4 DEF Ordered
    <2> QED BY <2>1, <2>2, <2>3, <2>4
<1> QED BY <1>2, <1>3 DEF Ordered

-----------------------------------------------------------------------------
(* Which trees lie apart.                                                  *)

(* An xleaf other than x and its tree lie on one side of x's tree.         *)
LEMMA OthersApart ==
    ASSUME Shape, NEW x \in XLeaves, NEW s \in XLeaves, s # x
    PROVE  /\ s < x \/ x < s
           /\ s < x => (\A y \in value[x] : s < y) /\ AllBelow(value[s], value[x])
           /\ x < s => (\A y \in value[x] : y < s) /\ AllBelow(value[x], value[s])
           /\ Spans(value[x], x)
<1>1. x \in Nat /\ s \in Nat /\ value[x] \in SUBSET Nat /\ value[s] \in SUBSET Nat
    BY Finite DEF Shape
<1>2. Spans(value[x], x) /\ Spans(value[s], s)
    BY DEF Shape, SeparatorsInRange, Several, Spans
<1>3. /\ s < x => AllBelow(value[s], value[x])
      /\ x < s => AllBelow(value[x], value[s])
    BY DEF Shape, TreesOrdered, AllBelow
<1>4. PICK a \in value[s], b \in value[s] : a <= s /\ s <= b
    BY <1>2 DEF Spans
<1>5. s < x => \A y \in value[x] : s < y
    BY <1>1, <1>3, <1>4 DEF AllBelow
<1>6. x < s => \A y \in value[x] : y < s
    BY <1>1, <1>3, <1>4 DEF AllBelow
<1> QED BY <1>1, <1>2, <1>3, <1>5, <1>6

(* insert finds an xleaf whose tree can take the key k: every other tree   *)
(* is apart from that tree with k added.                                   *)
LEMMA InsertionApart ==
    ASSUME Shape, TreeSizes, NEW k \in Key, NEW x, x = InsertionLeaf(k)
    PROVE  /\ x = NULL => XLeaves = {}
           /\ x # NULL => x \in XLeaves
           /\ x # NULL => \A s \in XLeaves \ {x} :
                              /\ Apart(s, value[s], value[x] \cup {k})
                              /\ k \notin value[s]
<1> DEFINE pred == XPred(k, FALSE)
           succ == SuccOfPred(k)
<1>1. IsAround(k, pred, succ)
    BY Around, KeyAssumption DEF Shape
<1>2. x = IF pred # NULL /\ succ # NULL
          THEN IF k < LeastOf(value[succ]) THEN pred ELSE succ
          ELSE IF pred # NULL THEN pred ELSE succ
    BY DEF InsertionLeaf
<1> HIDE DEF pred, succ
<1>3. k \in Nat /\ XLeaves \in SUBSET Nat /\ \A s \in XLeaves : value[s] \in SUBSET Nat
    BY KeyAssumption, Finite DEF Shape
<1>4. x = NULL => XLeaves = {}
    BY <1>1, <1>2, <1>3 DEF IsAround
<1>5. x # NULL => x \in XLeaves
    BY <1>1, <1>2 DEF IsAround
<1>6. ASSUME x # NULL, NEW s \in XLeaves \ {x}
      PROVE  /\ s < x => s < k /\ \A y \in value[s] : y < k
             /\ x < s => k < s /\ \A y \in value[s] : k < y
    <2>1. PICK a \in value[s], b \in value[s] : a <= s /\ s <= b
        BY <1>5, <1>6, OthersApart DEF Spans
    <2>2. a \in Nat /\ b \in Nat /\ s \in Nat /\ x \in Nat
        BY <1>3, <1>5, <1>6, <2>1
    <2>3. /\ s < x => AllBelow(value[s], value[x])
          /\ x < s => AllBelow(value[x], value[s])
        BY <1>5, <1>6, OthersApart
    <2>4. PICK c \in value[x], d \in value[x] : c <= x /\ x <= d
        BY <1>5, <1>6, OthersApart DEF Spans
    <2>5. c \in Nat /\ d \in Nat
        BY <1>3, <1>5, <1>6, <2>4
    <2>6. CASE x = pred
        <3>1. pred \in XLeaves /\ pred <= k /\ \A z \in XLeaves : z <= pred \/ k < z
            BY <1>1, <1>6, <2>6 DEF IsAround
        <3>2. s < x => \A y \in value[s] : y < k
            BY <1>3, <1>6, <2>2, <2>3, <2>4, <2>5, <2>6, <3>1 DEF AllBelow
        <3>3. x < s => k < s
            BY <1>3, <1>6, <2>2, <2>6, <3>1
        <3>4. ASSUME x < s PROVE \A y \in value[s] : k < y
            <4>1. /\ succ # NULL /\ succ \in XLeaves /\ k < succ
                  /\ succ <= s
                BY <1>1, <1>3, <2>2, <3>3, <3>4 DEF IsAround
            <4>2. pred # succ
                BY <1>3, <3>1, <4>1
            <4>3. k < LeastOf(value[succ])
                BY <1>2, <1>6, <2>6, <4>1, <4>2
            <4>4. \A z \in value[succ] : k < z
                BY <1>3, <4>1, <4>3, Finite, LeastOfFact DEF Shape
            <4>5. CASE s = succ
                BY <4>4, <4>5
            <4>6. CASE s # succ
                <5>1. AllBelow(value[succ], value[s])
                    BY <1>3, <2>2, <4>1, <4>6, OthersApart
                <5>2. PICK e \in value[succ] : TRUE
                    BY <4>1, <4>6, OthersApart DEF Spans
                <5>3. k < e /\ e \in Nat
                    BY <1>3, <4>1, <4>4
                <5> QED BY <1>3, <5>1, <5>3 DEF AllBelow
            <4> QED BY <4>5, <4>6
        <3>5. s < x => s < k
            BY <1>3, <2>2, <2>6, <3>1
        <3> QED BY <3>2, <3>3, <3>4, <3>5
    <2>7. CASE x = succ
        <3>1. succ \in XLeaves /\ k < succ /\ \A z \in XLeaves : z <= k \/ succ <= z
            BY <1>1, <1>6, <2>7 DEF IsAround
        <3>2. x < s => k < s
            BY <1>3, <2>2, <2>7, <3>1
        <3>3. x < s => \A y \in value[s] : k < y
            BY <1>3, <2>2, <2>3, <2>4, <2>5, <2>7, <3>1 DEF AllBelow
        <3>4. ASSUME s < x PROVE s < k /\ \A y \in value[s] : y < k
            <4>1. s <= k
                BY <1>3, <2>2, <2>7, <3>1, <3>4
            <4>2. pred # NULL /\ pred \in XLeaves /\ pred <= k
                BY <1>1, <1>3, <2>2, <4>1 DEF IsAround
            <4>3. pred # succ
                BY <1>3, <3>1, <4>2
            <4>4. ~(k < LeastOf(value[x]))
                BY <1>2, <1>6, <2>7, <4>2, <4>3
            <4>5. LeastOf(value[x]) \in value[x]
                BY <1>5, <1>6, <2>4, Finite, LeastOfFact DEF Shape
            <4>6. PICK e \in value[x] : e <= k
                <5>1. LeastOf(value[x]) \in Nat
                    BY <1>3, <1>5, <1>6, <4>5
                <5>2. LeastOf(value[x]) <= k
                    BY <1>3, <4>4, <5>1
                <5> QED BY <4>5, <5>2
            <4>7. e \in Nat /\ s < e
                BY <1>3, <1>5, <1>6, <3>4, OthersApart
            <4> QED BY <1>3, <2>2, <2>3, <3>4, <4>6, <4>7 DEF AllBelow
        <3> QED BY <3>2, <3>3, <3>4
    <2> QED BY <1>2, <2>6, <2>7
<1>7. ASSUME x # NULL, NEW s \in XLeaves \ {x}
      PROVE  Apart(s, value[s], value[x] \cup {k}) /\ k \notin value[s]
    <2>1. s < x \/ x < s
        BY <1>5, <1>7, OthersApart
    <2>2. s \in Nat /\ value[s] \in SUBSET Nat
        BY <1>3
    <2>3. CASE s < x
        <3>1. s < k /\ \A y \in value[s] : y < k
            BY <1>6, <1>7, <2>3
        <3>2. (\A y \in value[x] : s < y) /\ AllBelow(value[s], value[x])
            BY <1>5, <1>7, <2>3, OthersApart
        <3> QED BY <1>3, <2>2, <3>1, <3>2 DEF Apart, AllBelow
    <2>4. CASE x < s
        <3>1. k < s /\ \A y \in value[s] : k < y
            BY <1>6, <1>7, <2>4
        <3>2. (\A y \in value[x] : y < s) /\ AllBelow(value[x], value[s])
            BY <1>5, <1>7, <2>4, OthersApart
        <3> QED BY <1>3, <2>2, <3>1, <3>2 DEF Apart, AllBelow
    <2> QED BY <2>1, <2>3, <2>4
<1> QED BY <1>4, <1>5, <1>7

(* Where find looks for a key that is in some tree.                        *)
LEMMA FindsTree ==
    ASSUME Shape, NEW k \in Key, NEW s \in XLeaves, k \in value[s]
    PROVE  Find(k) = Where(s, k)
<1> DEFINE pred == XPred(k, FALSE)
           succ == SuccOfPred(k)
<1>1. IsAround(k, pred, succ)
    BY Around, KeyAssumption DEF Shape
<1>2. Find(k) = IF pred # NULL /\ k \in value[pred] THEN Where(pred, k)
                ELSE IF succ # NULL /\ k \in value[succ] THEN Where(succ, k)
                ELSE Nowhere
    BY DEF Find
<1> HIDE DEF pred, succ
<1>3. k \in Nat /\ XLeaves \in SUBSET Nat /\ \A r \in XLeaves : value[r] \in SUBSET Nat
    BY KeyAssumption, Finite DEF Shape
<1>4. ASSUME NEW r \in XLeaves, k \in value[r] PROVE r = s
    <2>1. CASE r # s
        <3>1. r < s \/ s < r
            BY <1>3, <2>1
        <3>2. AllBelow(value[r], value[s]) \/ AllBelow(value[s], value[r])
            BY <2>1, <3>1, OthersApart
        <3> QED BY <1>3, <1>4, <3>2 DEF AllBelow
    <2> QED BY <2>1
<1>5. (s = pred /\ pred # NULL) \/ (s = succ /\ succ # NULL)
    <2>1. CASE s <= k
        <3>1. pred # NULL /\ pred \in XLeaves /\ pred <= k /\ s <= pred
            BY <1>1, <1>3, <2>1 DEF IsAround
        <3>2. CASE s # pred
            <4>1. s < pred
                BY <1>3, <3>1, <3>2
            <4>2. AllBelow(value[s], value[pred]) /\ Spans(value[pred], pred)
                BY <3>1, <3>2, <4>1, OthersApart
            <4>3. PICK a \in value[pred] : a <= pred
                BY <4>2 DEF Spans
            <4>4. k < a /\ a \in Nat /\ pred \in Nat
                BY <1>3, <3>1, <4>2 DEF AllBelow
            <4> QED BY <1>3, <3>1, <4>3, <4>4
        <3> QED BY <3>1, <3>2
    <2>2. CASE k < s
        <3>1. succ # NULL /\ succ \in XLeaves /\ k < succ /\ succ <= s
            BY <1>1, <1>3, <2>2 DEF IsAround
        <3>2. CASE s # succ
            <4>1. succ < s
                BY <1>3, <3>1, <3>2
            <4>2. AllBelow(value[succ], value[s]) /\ Spans(value[succ], succ)
                BY <3>1, <3>2, <4>1, OthersApart
            <4>3. PICK a \in value[succ] : succ <= a
                BY <4>2 DEF Spans
            <4>4. a < k /\ a \in Nat /\ succ \in Nat
                BY <1>3, <3>1, <4>2 DEF AllBelow
            <4> QED BY <1>3, <3>1, <4>3, <4>4
        <3> QED BY <3>1, <3>2
    <2> QED BY <1>3, <2>1, <2>2
<1>6. pred # NULL => pred \in XLeaves
    BY <1>1 DEF IsAround
<1> QED BY <1>2, <1>4, <1>5, <1>6

(* The neighbour that remove merges with is next to x, and there is none   *)
(* just when x is alone.                                                   *)
LEMMA NeighborNear ==
    ASSUME Typed, NEW x \in XLeaves, NEW t, NEW n, n = PickNeighbor(x, t)
    PROVE  /\ n = NULL => XLeaves = {x}
           /\ n # NULL => /\ n \in XLeaves /\ n # x
                          /\ \A s \in XLeaves \ {x, n} :
                                (s < x /\ s < n) \/ (x < s /\ n < s)
<1> DEFINE pred == Prv(x)
           succ == Nxt(x)
<1>1. XLeaves \in SUBSET Nat /\ IsFiniteSet(XLeaves) /\ x \in Nat
    BY Finite
<1>2. \/ pred = NULL /\ \A s \in XLeaves : x <= s
      \/ /\ pred # NULL /\ pred \in XLeaves /\ pred < x
         /\ \A s \in XLeaves : s <= pred \/ x <= s
    BY <1>1, LastBefore DEF Prv
<1>3. \/ succ = NULL /\ \A s \in XLeaves : s <= x
      \/ /\ succ # NULL /\ succ \in XLeaves /\ x < succ
         /\ \A s \in XLeaves : succ <= s \/ s <= x
    BY <1>1, FirstAfter DEF Nxt
<1>4. \/ n = pred /\ pred # NULL
      \/ n = succ /\ succ # NULL
      \/ n = NULL /\ pred = NULL /\ succ = NULL
    BY DEF PickNeighbor
<1> HIDE DEF pred, succ
<1> DEFINE Outside(s) == (s < x /\ s < n) \/ (x < s /\ n < s)
<1>5. CASE n = pred /\ pred # NULL
    <2>1. n # NULL /\ n \in XLeaves /\ n < x /\ \A s \in XLeaves : s <= n \/ x <= s
        BY <1>2, <1>5
    <2>2. n \in Nat /\ n # x
        BY <1>1, <2>1
    <2>3. ASSUME NEW s \in XLeaves \ {x, n} PROVE Outside(s)
        BY <1>1, <2>1, <2>2
    <2> QED BY <2>1, <2>2, <2>3
<1>6. CASE n = succ /\ succ # NULL
    <2>1. n # NULL /\ n \in XLeaves /\ x < n /\ \A s \in XLeaves : n <= s \/ s <= x
        BY <1>3, <1>6
    <2>2. n \in Nat /\ n # x
        BY <1>1, <2>1
    <2>3. ASSUME NEW s \in XLeaves \ {x, n} PROVE Outside(s)
        BY <1>1, <2>1, <2>2
    <2> QED BY <2>1, <2>2, <2>3
<1>7. CASE n = NULL /\ pred = NULL /\ succ = NULL
    <2>1. \A s \in XLeaves : x <= s /\ s <= x
        BY <1>2, <1>3, <1>7
    <2>2. \A s \in XLeaves : s = x
        BY <1>1, <2>1
    <2> QED BY <1>7, <2>2
<1> QED BY <1>4, <1>5, <1>6, <1>7

-----------------------------------------------------------------------------
(* What an update leaves behind.                                           *)

Trees == Shape /\ TreeSizes

(* A single tree of any keys is in order.                                  *)
LEMMA Alone ==
    ASSUME NEW n \in Key, NEW t \in SUBSET Key, t # {},
           value' = [y \in {n} |-> t]
    PROVE  Trees' /\ Contents' = t
<1>1. XLeaves' = {n} /\ value'[n] = t
    BY DEF XLeaves
<1>2. ~Several'
    BY <1>1 DEF Several
<1>3. Typed' /\ SeparatorsInRange' /\ TreeSizes'
    BY <1>1, <1>2 DEF Typed, SeparatorsInRange, TreeSizes
<1>4. TreesOrdered'
    <2>1. ~(n < n)
        BY KeyAssumption
    <2> QED BY <1>1, <2>1 DEF TreesOrdered
<1>5. Contents' = t
    BY <1>1 DEF Contents
<1> QED BY <1>3, <1>4, <1>5 DEF Trees, Shape

LEMMA SmallestTreeFact ==
    /\ SmallestTree \in Nat /\ SmallestTree >= 2
    /\ SmallestTree <= TREE_MERGE_THRESHOLD
    /\ SmallestTree = 2 \/ (SmallestTree = 3 /\ TREE_SPLIT_THRESHOLD >= 10)
BY ThresholdAssumption DEF SmallestTree

(* The keys T can take the place of the trees in `gone'; once they have,   *)
(* the trees are in order and hold T and the keys of the other trees.      *)
Others(gone, y) == \E s \in XLeaves \ gone : y \in value[s]

Replaceable(gone, T) ==
    /\ gone \in SUBSET XLeaves /\ gone # {}
    /\ T \in SUBSET Key
    /\ \A s \in XLeaves \ gone : Apart(s, value[s], T)

Replaced(gone, T) ==
    /\ Trees'
    /\ \A y : y \in Contents' <=> y \in T \/ Others(gone, y)

(* Large enough trees over T can take the place of those in `gone', if all *)
(* others lie apart from T.                                                *)
Cover(new, T) ==
    /\ DOMAIN new \in SUBSET Key
    /\ Ordered(DOMAIN new, new)
    /\ \A n \in DOMAIN new : /\ new[n] \in SUBSET T
                             /\ Spans(new[n], n)
                             /\ Cardinality(new[n]) >= SmallestTree
    /\ \A y \in T : \E n \in DOMAIN new : y \in new[n]

LEMMA Rehung ==
    ASSUME Trees, NEW gone, NEW T, Replaceable(gone, T),
           NEW new, Cover(new, T), Rehang(gone, new)
    PROVE  Replaced(gone, T)
<1> DEFINE N == DOMAIN new
<1> USE DEF Replaceable, Cover
<1> DEFINE K == XLeaves \ gone
<1>1. /\ XLeaves \in SUBSET Nat /\ K \in SUBSET Nat /\ N \in SUBSET Nat
      /\ T \in SUBSET Nat
      /\ \A s \in XLeaves : value[s] \in SUBSET Nat
    BY KeyAssumption, Finite DEF Trees, Shape
<1>2. /\ XLeaves' = K \cup N
      /\ \A n \in N : value'[n] = new[n]
      /\ \A s \in K \ N : value'[s] = value[s]
    BY DEF Rehang, XLeaves
<1>3. Ordered(K, value)
    BY DEF Trees, Shape, TreesOrdered, Ordered, AllBelow
<1>4. K \cap N = {} /\ Ordered(K \cup N, value')
    <2>1. \A s \in K : value[s] \in SUBSET Nat
        BY <1>1
    <2>2. \A s \in K : Apart(s, value[s], T)
        OBVIOUS
    <2>3. \A n \in N : new[n] \in SUBSET T /\ Spans(new[n], n)
        OBVIOUS
    <2>4. /\ K \in SUBSET Nat /\ N \in SUBSET Nat /\ T \in SUBSET Nat
          /\ Ordered(N, new)
        BY <1>1
    <2>5. \A n \in N : value'[n] = new[n]
        BY <1>2
    <2>6. \A s \in K \ N : value'[s] = value[s]
        BY <1>2
    <2>7. Fits(K, value, T, N, new, value')
        BY <1>3, <2>1, <2>2, <2>3, <2>4, <2>5, <2>6 DEF Fits
    <2> HIDE DEF K
    <2> QED BY <2>7, Slot
<1>5. \A s \in K : value'[s] = value[s]
    BY <1>2, <1>4
<1>6. Typed'
    BY <1>2, <1>5 DEF Typed, Trees, Shape
<1>7. TreesOrdered'
    BY <1>2, <1>4 DEF TreesOrdered, Ordered, AllBelow
<1>8. \A s \in K : Several
    BY DEF Several
<1>9. SeparatorsInRange'
    BY <1>2, <1>5, <1>8 DEF SeparatorsInRange, Spans, Trees, Shape
<1>10. TreeSizes'
    <2>1. \A n \in N : new[n] # {}
        BY DEF Spans
    <2> QED BY <1>2, <1>5, <1>8, <2>1 DEF TreeSizes, Trees
<1>11. \A y : y \in Contents' <=>
                 y \in T \/ \E s \in K : y \in value[s]
    BY <1>2, <1>5 DEF Contents
<1> QED BY <1>6, <1>7, <1>9, <1>10, <1>11 DEF Trees, Shape, Replaced, Others

-----------------------------------------------------------------------------
(* The three ways an update puts the keys T in the place of the trees in   *)
(* `gone'.                                                                 *)

LEMMA HalvesHung ==
    ASSUME Trees, NEW gone, NEW T, Replaceable(gone, T),
           Cardinality(T) > TREE_SPLIT_THRESHOLD, HangHalves(gone, T)
    PROVE  Replaced(gone, T)
<1>1. PICK m \in AvlRoots(T) :
          LET left == {x \in T : x <= m}
              right == {x \in T : m < x}
          IN  \E l \in AvlRoots(left), r \in AvlRoots(right) :
                  Rehang(gone, [x \in {l, r} |-> IF x = l THEN left ELSE right])
    BY DEF HangHalves
<1> DEFINE left == {x \in T : x <= m}
           right == {x \in T : m < x}
<1>2. PICK l \in AvlRoots(left), r \in AvlRoots(right) :
          Rehang(gone, [x \in {l, r} |-> IF x = l THEN left ELSE right])
    BY <1>1
<1> DEFINE new == [x \in {l, r} |-> IF x = l THEN left ELSE right]
<1>3. /\ m \in T /\ l \in T /\ r \in T
      /\ l \in left /\ r \in right
    BY <1>1, <1>2 DEF AvlRoots
<1>4. /\ T \in SUBSET Nat /\ T \in SUBSET Key /\ IsFiniteSet(T)
      /\ m \in Nat /\ l \in Nat /\ r \in Nat
    BY <1>3, KeyAssumption, FS_Subset DEF Replaceable
<1>5. l < r /\ AllBelow(left, right) /\ ~(l < l) /\ ~(r < r) /\ ~(r < l) /\ l # r
    BY <1>3, <1>4 DEF AllBelow
<1>6. /\ Cardinality(left) >= SmallestTree
      /\ Cardinality(right) >= SmallestTree
    <2>1. /\ Cardinality(T) >= 6 =>
                Cardinality(left) >= 2 /\ Cardinality(right) >= 2
          /\ Cardinality(T) >= 11 =>
                Cardinality(left) >= 3 /\ Cardinality(right) >= 3
        BY <1>1, <1>4, HalvesSizes
    <2>2. Cardinality(T) \in Nat
        BY <1>4, FS_CardinalityType
    <2> HIDE DEF left, right
    <2>3. CASE SmallestTree = 2
        <3>1. Cardinality(T) >= 6
            BY <2>2, ThresholdAssumption
        <3> QED BY <2>1, <2>3, <3>1
    <2>4. CASE SmallestTree = 3 /\ TREE_SPLIT_THRESHOLD >= 10
        <3>1. Cardinality(T) >= 11
            BY <2>2, <2>4, ThresholdAssumption
        <3> QED BY <2>1, <2>4, <3>1
    <2> QED BY <2>3, <2>4, SmallestTreeFact
<1>7. \A y \in T : y \in left \/ y \in right
    BY <1>3, <1>4
<1>8. left \subseteq T /\ right \subseteq T
    OBVIOUS
<1> HIDE DEF left, right
<1>9. DOMAIN new = {l, r} /\ new[l] = left /\ new[r] = right
    BY <1>5
<1>10. Rehang(gone, new)
    BY <1>2
<1> HIDE DEF new
<1>11. Ordered({l, r}, new)
    BY <1>5, <1>9 DEF Ordered
<1>12. \A n \in {l, r} : /\ new[n] \in SUBSET T
                         /\ Spans(new[n], n)
                         /\ Cardinality(new[n]) >= SmallestTree
    <2>1. l <= l /\ r <= r
        BY <1>4
    <2> QED BY <1>3, <1>6, <1>8, <1>9, <2>1 DEF Spans
<1>13. \A y \in T : \E n \in {l, r} : y \in new[n]
    BY <1>7, <1>9
<1>14. {l, r} \in SUBSET Key
    BY <1>3, <1>4
<1>15. Cover(new, T)
    BY <1>9, <1>11, <1>12, <1>13, <1>14 DEF Cover
<1> QED BY <1>10, <1>15, Rehung

LEMMA TreeHung ==
    ASSUME Trees, NEW gone, NEW T, Replaceable(gone, T),
           NEW r \in Key, Spans(T, r), Cardinality(T) >= SmallestTree,
           Rehang(gone, [x \in {r} |-> T])
    PROVE  Replaced(gone, T)
<1> DEFINE new == [x \in {r} |-> T]
<1>1. DOMAIN new = {r} /\ new[r] = T /\ Rehang(gone, new)
    OBVIOUS
<1> HIDE DEF new
<1>2. ~(r < r)
    BY KeyAssumption
<1>3. Ordered({r}, new)
    BY <1>2 DEF Ordered
<1>4. \A n \in {r} : /\ new[n] \in SUBSET T
                     /\ Spans(new[n], n)
                     /\ Cardinality(new[n]) >= SmallestTree
    BY <1>1
<1>5. \A y \in T : \E n \in {r} : y \in new[n]
    BY <1>1
<1>6. Cover(new, T)
    BY <1>1, <1>3, <1>4, <1>5 DEF Cover
<1> QED BY <1>1, <1>6, Rehung

LEMMA TreeKept ==
    ASSUME Trees, NEW x \in XLeaves, NEW T, Replaceable({x}, T),
           IF XLeaves = {x} THEN T # {}
           ELSE Spans(T, x) /\ Cardinality(T) >= SmallestTree,
           value' = [value EXCEPT ![x] = T]
    PROVE  Replaced({x}, T)
<1>1. x \in Key /\ T \in SUBSET Key
    BY DEF Trees, Shape, Typed, Replaceable
<1>2. CASE XLeaves = {x}
    <2>1. value' = [y \in {x} |-> T]
        BY <1>2 DEF XLeaves
    <2>2. Trees' /\ Contents' = T
        BY <1>1, <1>2, <2>1, Alone
    <2> QED BY <1>2, <2>2 DEF Replaced, Others
<1>3. CASE XLeaves # {x}
    <2>1. Rehang({x}, [y \in {x} |-> T])
        BY DEF Rehang, XLeaves
    <2> QED BY <1>1, <1>3, <2>1, TreeHung
<1> QED BY <1>2, <1>3

-----------------------------------------------------------------------------
(* What insert and remove do to the trees and to the contents.             *)

(* A subset of the keys is finite, and no larger than a set it is part of. *)
LEMMA Sizes ==
    ASSUME NEW T \in SUBSET Key
    PROVE  /\ IsFiniteSet(T) /\ Cardinality(T) \in Nat
           /\ \A S \in SUBSET T : Cardinality(S) \in Nat /\ Cardinality(S) <= Cardinality(T)
<1>1. IsFiniteSet(T)
    BY KeyAssumption, FS_Subset
<1>2. ASSUME NEW S \in SUBSET T
      PROVE  Cardinality(S) \in Nat /\ Cardinality(S) <= Cardinality(T)
    <2>1. IsFiniteSet(S) /\ Cardinality(S) <= Cardinality(T)
        BY <1>1, FS_Subset
    <2> QED BY <2>1, FS_CardinalityType
<1> QED BY <1>1, <1>2, FS_CardinalityType

LEMMA Inserted ==
    ASSUME Trees, NEW k \in Key, NEW x, x = InsertionLeaf(k),
           InsertFirst(k, x) \/ InsertGrow(k, x) \/ InsertSplit(k, x)
    PROVE  Trees' /\ k \notin Contents /\ Contents' = Contents \cup {k}
<1> DEFINE T == value[x] \cup {k}
<1>1. /\ x = NULL => XLeaves = {}
      /\ x # NULL => x \in XLeaves
      /\ x # NULL => \A s \in XLeaves \ {x} :
                         Apart(s, value[s], T) /\ k \notin value[s]
    BY InsertionApart DEF Trees
<1>2. CASE InsertFirst(k, x)
    <2>1. XLeaves = {} /\ Contents = {}
        BY <1>1, <1>2 DEF InsertFirst, Contents
    <2>2. value' = [y \in {k} |-> {k}]
        BY <1>2, <2>1 DEF InsertFirst, Rehang
    <2>3. Trees' /\ Contents' = {k}
        BY <2>2, Alone
    <2> QED BY <2>1, <2>3
<1>3. CASE InsertGrow(k, x) \/ InsertSplit(k, x)
    <2>1. x # NULL /\ x \in XLeaves /\ k \notin value[x]
        BY <1>1, <1>3 DEF InsertGrow, InsertSplit
    <2>2. T \in SUBSET Key /\ value[x] \in SUBSET T
        BY <2>1 DEF Trees, Shape, Typed
    <2>3. Replaceable({x}, T)
        BY <1>1, <2>1, <2>2 DEF Replaceable
    <2>4. Replaced({x}, T)
        <3>1. CASE InsertSplit(k, x)
            <4>1. Cardinality(T) > TREE_SPLIT_THRESHOLD /\ HangHalves({x}, T)
                BY <3>1 DEF InsertSplit
            <4> HIDE DEF T
            <4> QED BY <2>3, <4>1, HalvesHung
        <3>2. CASE InsertGrow(k, x)
            <4>1. value' = [value EXCEPT ![x] = T]
                BY <3>2 DEF InsertGrow
            <4>2. CASE XLeaves = {x}
                BY <2>1, <2>3, <4>1, <4>2, TreeKept
            <4>3. CASE XLeaves # {x}
                <5>1. Several
                    BY <2>1, <4>3 DEF Several
                <5>2. Spans(T, x)
                    BY <2>1, <5>1 DEF Trees, Shape, SeparatorsInRange, Spans
                <5>3. Cardinality(value[x]) >= SmallestTree
                    BY <2>1, <5>1 DEF Trees, TreeSizes
                <5>4. /\ Cardinality(value[x]) \in Nat /\ Cardinality(T) \in Nat
                      /\ Cardinality(value[x]) <= Cardinality(T)
                    BY <2>2, Sizes
                <5> HIDE DEF T
                <5>5. Cardinality(T) >= SmallestTree
                    BY <5>3, <5>4, SmallestTreeFact
                <5> QED BY <2>1, <2>3, <4>1, <4>3, <5>2, <5>5, TreeKept
            <4> QED BY <4>2, <4>3
        <3> QED BY <1>3, <3>1, <3>2
    <2>5. \A y : y \in Contents <=> y \in value[x] \/ Others({x}, y)
        BY <2>1 DEF Contents, Others
    <2>6. \A y : y \in Contents' <=> y \in T \/ Others({x}, y)
        BY <2>4 DEF Replaced
    <2>7. k \notin Contents
        BY <1>1, <2>1, <2>5 DEF Others
    <2>8. Trees'
        BY <2>4 DEF Replaced
    <2>9. \A y : y \in T <=> y \in value[x] \/ y = k
        OBVIOUS
    <2> HIDE DEF T
    <2>10. \A y : y \in Contents' <=> y \in Contents \/ y = k
        BY <2>5, <2>6, <2>9
    <2> QED BY <2>7, <2>8, <2>10
<1> QED BY <1>2, <1>3

(* Once t, some of the keys of its tree, is all that is left to x.         *)
LEMMA Removed ==
    ASSUME Trees, NEW x \in XLeaves, NEW k \in value[x],
           NEW t, t = value[x] \ {k},
           RemoveMerge(x, t) \/ RemoveLast(x, t) \/ RemoveReinsert(x, t)
               \/ RemoveKeep(x, t)
    PROVE  Trees' /\ Contents' = Contents \ {k}
<1>1. /\ Shape /\ Typed /\ XLeaves \in SUBSET Nat
      /\ \A s \in XLeaves : value[s] \in SUBSET Nat /\ value[s] \in SUBSET Key
    BY Finite DEF Trees, Shape, Typed
<1>2. /\ t \in SUBSET Key /\ t \in SUBSET Nat /\ IsFiniteSet(t)
      /\ Cardinality(t) \in Nat
    BY <1>1, KeyAssumption, Sizes
<1>3. ASSUME NEW s \in XLeaves \ {x}
      PROVE  Apart(s, value[s], t) /\ k \notin value[s]
    <2>1. s < x \/ x < s
        BY <1>1, <1>3
    <2>2. CASE s < x
        <3>1. (\A y \in value[x] : s < y) /\ AllBelow(value[s], value[x])
            BY <1>1, <1>3, <2>2, OthersApart
        <3>2. k \notin value[s]
            BY <1>1, <1>3, <3>1 DEF AllBelow
        <3> QED BY <3>1, <3>2 DEF Apart, AllBelow
    <2>3. CASE x < s
        <3>1. (\A y \in value[x] : y < s) /\ AllBelow(value[x], value[s])
            BY <1>1, <1>3, <2>3, OthersApart
        <3>2. k \notin value[s]
            BY <1>1, <1>3, <3>1 DEF AllBelow
        <3> QED BY <3>1, <3>2 DEF Apart, AllBelow
    <2> QED BY <2>1, <2>2, <2>3
<1>4. Replaceable({x}, t)
    BY <1>2, <1>3 DEF Replaceable
<1>5. ASSUME Replaced({x}, t)
      PROVE  Trees' /\ Contents' = Contents \ {k}
    <2>1. \A y : y \in Contents <=> y \in value[x] \/ Others({x}, y)
        BY DEF Contents, Others
    <2>2. Trees' /\ \A y : y \in Contents' <=> y \in t \/ Others({x}, y)
        BY <1>5 DEF Replaced
    <2>3. ~Others({x}, k)
        BY <1>3 DEF Others
    <2> QED BY <2>1, <2>2, <2>3
<1>6. Cardinality(t) >= TREE_MERGE_THRESHOLD =>
          Cardinality(t) >= SmallestTree /\ t # {}
    <2>1. Cardinality({}) = 0
        BY FS_EmptySet
    <2>2. Cardinality(t) >= TREE_MERGE_THRESHOLD => Cardinality(t) >= 2
        BY <1>2, ThresholdAssumption
    <2>3. Cardinality(t) >= TREE_MERGE_THRESHOLD => Cardinality(t) >= SmallestTree
        BY <1>2, SmallestTreeFact, ThresholdAssumption
    <2> QED BY <2>1, <2>2, <2>3
<1>7. CASE RemoveMerge(x, t)
    <2> DEFINE n == PickNeighbor(x, t)
               T == t \cup value[n]
    <2>1. n # NULL
        BY <1>7 DEF RemoveMerge
    <2>2. /\ n \in XLeaves /\ n # x
          /\ \A s \in XLeaves \ {x, n} :
                (s < x /\ s < n) \/ (x < s /\ n < s)
        BY <1>1, <2>1, NeighborNear
    <2>3. IF Cardinality(T) > TREE_SPLIT_THRESHOLD
          THEN HangHalves({x, n}, T) ELSE HangTree({x, n}, T)
        BY <1>7 DEF RemoveMerge
    <2>4. T \in SUBSET Key /\ value[n] \in SUBSET T
        BY <1>1, <1>2, <2>2
    <2> HIDE DEF n
    <2>5. ASSUME NEW s \in XLeaves \ {x, n}
          PROVE  Apart(s, value[s], T)
        <3>1. CASE s < x /\ s < n
            <4>1. (\A y \in value[x] : s < y) /\ AllBelow(value[s], value[x])
                BY <1>1, <2>5, <3>1, OthersApart
            <4>2. (\A y \in value[n] : s < y) /\ AllBelow(value[s], value[n])
                BY <1>1, <2>2, <2>5, <3>1, OthersApart
            <4> QED BY <4>1, <4>2 DEF Apart, AllBelow
        <3>2. CASE x < s /\ n < s
            <4>1. (\A y \in value[x] : y < s) /\ AllBelow(value[x], value[s])
                BY <1>1, <2>5, <3>2, OthersApart
            <4>2. (\A y \in value[n] : y < s) /\ AllBelow(value[n], value[s])
                BY <1>1, <2>2, <2>5, <3>2, OthersApart
            <4> QED BY <4>1, <4>2 DEF Apart, AllBelow
        <3> QED BY <2>2, <2>5, <3>1, <3>2
    <2>6. Replaceable({x, n}, T)
        BY <2>2, <2>4, <2>5 DEF Replaceable
    <2>7. Cardinality(T) >= SmallestTree
        <3>1. Cardinality(value[n]) >= SmallestTree
            BY <2>2 DEF Trees, TreeSizes, Several
        <3>2. /\ Cardinality(value[n]) \in Nat /\ Cardinality(T) \in Nat
              /\ Cardinality(value[n]) <= Cardinality(T)
            BY <2>4, Sizes
        <3> HIDE DEF T
        <3> QED BY <3>1, <3>2, SmallestTreeFact
    <2>8. Replaced({x, n}, T)
        <3>1. CASE Cardinality(T) > TREE_SPLIT_THRESHOLD
            <4> HIDE DEF T
            <4> QED BY <2>3, <2>6, <3>1, HalvesHung
        <3>2. CASE ~(Cardinality(T) > TREE_SPLIT_THRESHOLD)
            <4>1. PICK r \in AvlRoots(T) : Rehang({x, n}, [y \in {r} |-> T])
                BY <2>3, <3>2 DEF HangTree
            <4>2. r \in T /\ r \in Key /\ r <= r
                BY <2>4, KeyAssumption DEF AvlRoots
            <4> HIDE DEF T
            <4>3. Spans(T, r)
                BY <4>2 DEF Spans
            <4> QED BY <2>6, <2>7, <4>1, <4>2, <4>3, TreeHung
        <3> QED BY <3>1, <3>2
    <2>9. \A y : y \in Contents <=>
              y \in value[x] \/ y \in value[n] \/ Others({x, n}, y)
        BY <2>2 DEF Contents, Others
    <2>10. Trees' /\ \A y : y \in Contents' <=> y \in T \/ Others({x, n}, y)
        BY <2>8 DEF Replaced
    <2>11. ~Others({x, n}, k) /\ k \notin value[n]
        BY <1>3, <2>2 DEF Others
    <2> QED BY <2>9, <2>10, <2>11
<1>8. CASE RemoveLast(x, t)
    <2>1. XLeaves = {x} /\ t = {}
        BY <1>1, <1>8, NeighborNear DEF RemoveLast
    <2>2. XLeaves' = {}
        BY <1>8, <2>1 DEF RemoveLast, Rehang, XLeaves
    <2>3. Trees'
        BY <2>2 DEF Trees, Shape, Typed, TreesOrdered, SeparatorsInRange,
                    TreeSizes, Several
    <2>4. Contents' = {} /\ Contents = value[x]
        BY <2>1, <2>2 DEF Contents
    <2> QED BY <2>1, <2>3, <2>4
<1>9. CASE RemoveReinsert(x, t)
    <2>1. PICK r \in AvlRoots(t) : Rehang({x}, [y \in {r} |-> t])
        BY <1>9 DEF RemoveReinsert, HangTree
    <2>2. r \in t /\ r \in Key /\ r <= r
        BY <1>2, KeyAssumption DEF AvlRoots
    <2>3. Spans(t, r)
        BY <2>2 DEF Spans
    <2>4. Cardinality(t) >= SmallestTree
        BY <1>6, <1>9 DEF RemoveReinsert
    <2> QED BY <1>4, <1>5, <2>1, <2>2, <2>3, <2>4, TreeHung
<1>10. CASE RemoveKeep(x, t)
    <2>1. value' = [value EXCEPT ![x] = t]
        BY <1>10 DEF RemoveKeep
    <2>2. CASE Cardinality(t) < TREE_MERGE_THRESHOLD
        <3>1. XLeaves = {x} /\ t # {}
            BY <1>1, <1>10, <2>2, NeighborNear DEF RemoveKeep
        <3> QED BY <1>4, <1>5, <2>1, <3>1, TreeKept
    <2>3. CASE ~(Cardinality(t) < TREE_MERGE_THRESHOLD)
        <3>1. Cardinality(t) >= SmallestTree /\ t # {}
            BY <1>2, <1>6, <2>3, ThresholdAssumption
        <3>2. ~(x < LeastOf(t)) /\ ~(GreatestOf(t) < x)
            BY <1>10, <2>3 DEF RemoveKeep, OutOfRange
        <3>3. LeastOf(t) \in t /\ GreatestOf(t) \in t
            BY <1>2, <3>1, LeastOfFact, GreatestOfFact
        <3>4. LeastOf(t) <= x /\ x <= GreatestOf(t)
            BY <1>1, <1>2, <3>2, <3>3
        <3>5. Spans(t, x)
            BY <3>3, <3>4 DEF Spans
        <3> QED BY <1>4, <1>5, <2>1, <3>1, <3>5, TreeKept
    <2> QED BY <2>2, <2>3
<1> QED BY <1>7, <1>8, <1>9, <1>10

-----------------------------------------------------------------------------
(* The inductive invariant.  The order of the trees and the place of their *)
(* xleaves depend on each other, as a key is looked up by the xleaves and  *)
(* an xleaf is keyed by a key of its tree; where a tree is split or merged *)
(* both depend on the sizes; and _size counts the keys only because an     *)
(* update adds or removes one key that was not or was in a tree.           *)

Invariant ==
    /\ TypeOK
    /\ TreesOrdered
    /\ SeparatorsInRange
    /\ TreeSizes
    /\ SizeExact

LEMMA InvariantParts ==
    Invariant <=> /\ Trees
                  /\ size = Cardinality(Contents) /\ size \in Nat
                  /\ rebuilds \in 0 .. RebuildWrap - 1
BY DEF Invariant, TypeOK, SizeExact, Trees, Shape, Typed

LEMMA Counted ==
    ASSUME rebuilds \in 0 .. RebuildWrap - 1, CountRebuild \/ UNCHANGED rebuilds
    PROVE  rebuilds' \in 0 .. RebuildWrap - 1
BY WrapAssumption DEF CountRebuild

LEMMA InitInvariant ==
    ASSUME Init
    PROVE  Invariant
<1>1. XLeaves = {} /\ Contents = {}
    BY DEF Init, XLeaves, Contents
<1>2. Trees
    BY <1>1 DEF Trees, Shape, Typed, TreesOrdered, SeparatorsInRange, TreeSizes,
                Several
<1>3. size = Cardinality(Contents) /\ size \in Nat
    BY <1>1, FS_EmptySet DEF Init
<1>4. rebuilds \in 0 .. RebuildWrap - 1
    BY WrapAssumption DEF Init
<1> QED BY <1>2, <1>3, <1>4, InvariantParts

LEMMA InsertEffect ==
    ASSUME Trees, NEW k \in Key, Insert(k)
    PROVE  /\ Trees' /\ Contents' = Contents \cup {k}
           /\ IF k \in Contents THEN size' = size ELSE size' = size + 1
           /\ CountRebuild \/ UNCHANGED rebuilds
<1>1. PICK x : /\ x = InsertionLeaf(k)
               /\ \/ InsertFirst(k, x) \/ InsertReplace(k, x)
                  \/ InsertGrow(k, x) \/ InsertSplit(k, x)
    BY DEF Insert
<1>2. CASE InsertReplace(k, x)
    <2>1. UNCHANGED <<value, size, rebuilds>>
        BY <1>2 DEF InsertReplace, vars
    <2>2. x \in XLeaves
        BY <1>1, <1>2, InsertionApart DEF InsertReplace, Trees
    <2>3. k \in Contents
        BY <1>2, <2>2 DEF InsertReplace, Contents
    <2>4. Trees' /\ Contents' = Contents
        BY <2>1 DEF Trees, Shape, Typed, TreesOrdered, SeparatorsInRange,
                    TreeSizes, Several, Contents, XLeaves
    <2> QED BY <2>1, <2>3, <2>4
<1>3. CASE InsertFirst(k, x) \/ InsertGrow(k, x) \/ InsertSplit(k, x)
    <2>1. Trees' /\ k \notin Contents /\ Contents' = Contents \cup {k}
        BY <1>1, <1>3, Inserted
    <2>2. size' = size + 1 /\ (CountRebuild \/ UNCHANGED rebuilds)
        BY <1>3 DEF InsertFirst, InsertGrow, InsertSplit
    <2> QED BY <2>1, <2>2
<1> QED BY <1>1, <1>2, <1>3

(* remove works on the xleaf whose tree holds the key, whatever the hint.  *)
LEMMA RemovalFinds ==
    ASSUME Trees, NEW k \in Contents, NEW hint \in XLeaves \cup {NULL}
    PROVE  RemovalLeaf(k, hint) \in XLeaves /\ k \in value[RemovalLeaf(k, hint)]
<1>1. PICK s \in XLeaves : k \in value[s]
    BY DEF Contents
<1>2. k \in Key
    BY <1>1 DEF Trees, Shape, Typed
<1>3. Find(k) = Where(s, k)
    BY <1>1, <1>2, FindsTree DEF Trees
<1>4. Find(k).xleaf = s
    BY <1>3 DEF Where
<1> QED BY <1>1, <1>4 DEF RemovalLeaf

LEMMA RemoveFromEffect ==
    ASSUME Trees, NEW k \in Key, NEW hint \in XLeaves \cup {NULL},
           RemoveFrom(k, hint)
    PROVE  /\ Trees' /\ k \in Contents /\ Contents' = Contents \ {k}
           /\ size' = size - 1
           /\ CountRebuild \/ UNCHANGED rebuilds
<1>1. PICK x : /\ x = RemovalLeaf(k, hint)
               /\ \/ RemoveMerge(x, value[x] \ {k})
                  \/ RemoveLast(x, value[x] \ {k})
                  \/ RemoveReinsert(x, value[x] \ {k})
                  \/ RemoveKeep(x, value[x] \ {k})
    BY DEF RemoveFrom
<1> DEFINE t == value[x] \ {k}
<1>2. k \in Contents /\ size' = size - 1
    BY DEF RemoveFrom
<1>3. x \in XLeaves /\ k \in value[x]
    BY <1>1, <1>2, RemovalFinds
<1>4. Trees' /\ Contents' = Contents \ {k}
    BY <1>1, <1>3, Removed
<1>5. CountRebuild \/ UNCHANGED rebuilds
    BY <1>1 DEF RemoveMerge, RemoveLast, RemoveReinsert, RemoveKeep
<1> QED BY <1>2, <1>4, <1>5

LEMMA RemoveEffect ==
    ASSUME Trees, NEW k \in Key, Remove(k)
    PROVE  /\ Trees' /\ k \in Contents /\ Contents' = Contents \ {k}
           /\ size' = size - 1
           /\ CountRebuild \/ UNCHANGED rebuilds
<1>1. PICK hint \in XLeaves \cup {NULL} : RemoveFrom(k, hint)
    BY DEF Remove
<1> QED BY <1>1, RemoveFromEffect

LEMMA NextInvariant ==
    ASSUME Invariant, [Next]_vars
    PROVE  Invariant'
<1>1. /\ Trees /\ size = Cardinality(Contents) /\ size \in Nat
      /\ rebuilds \in 0 .. RebuildWrap - 1
    BY InvariantParts
<1>2. Contents \in SUBSET Key /\ IsFiniteSet(Contents)
    BY <1>1, Finite DEF Trees, Shape
<1>3. ASSUME Trees', size' = Cardinality(Contents'),
             CountRebuild \/ UNCHANGED rebuilds
      PROVE  Invariant'
    <2>1. rebuilds' \in 0 .. RebuildWrap - 1
        BY <1>1, <1>3, Counted
    <2>2. Typed'
        BY <1>3 DEF Trees, Shape
    <2>3. Contents' \subseteq Key
        BY <2>2 DEF Typed, Contents
    <2>4. size' \in Nat
        BY <1>3, <2>3, Sizes
    <2> QED BY <1>3, <2>1, <2>4 DEF Invariant, TypeOK, SizeExact, Trees, Shape, Typed
<1>4. ASSUME NEW k \in Key, Insert(k) PROVE Invariant'
    <2>1. /\ Trees' /\ Contents' = Contents \cup {k}
          /\ IF k \in Contents THEN size' = size ELSE size' = size + 1
          /\ CountRebuild \/ UNCHANGED rebuilds
        BY <1>1, <1>4, InsertEffect
    <2>2. size' = Cardinality(Contents')
        <3>1. CASE k \in Contents
            <4>1. Contents' = Contents
                BY <2>1, <3>1
            <4> QED BY <1>1, <2>1, <3>1, <4>1
        <3>2. CASE k \notin Contents
            <4>1. Cardinality(Contents \cup {k}) = Cardinality(Contents) + 1
                BY <1>2, <3>2, FS_AddElement
            <4> QED BY <1>1, <2>1, <3>2, <4>1
        <3> QED BY <3>1, <3>2
    <2> QED BY <1>3, <2>1, <2>2
<1>5. ASSUME NEW k \in Key, Remove(k) PROVE Invariant'
    <2>1. /\ Trees' /\ k \in Contents /\ Contents' = Contents \ {k}
          /\ size' = size - 1
          /\ CountRebuild \/ UNCHANGED rebuilds
        BY <1>1, <1>5, RemoveEffect
    <2>2. Cardinality(Contents \ {k}) = Cardinality(Contents) - 1
        BY <1>2, <2>1, FS_RemoveElement
    <2> QED BY <1>1, <1>3, <2>1, <2>2
<1>6. CASE Clear
    <2>1. XLeaves' = {} /\ Contents' = {} /\ size' = 0 /\ rebuilds' = 0
        BY <1>6 DEF Clear, XLeaves, Contents
    <2>2. Trees'
        BY <2>1 DEF Trees, Shape, Typed, TreesOrdered, SeparatorsInRange,
                    TreeSizes, Several
    <2>3. size' = Cardinality(Contents') /\ size' \in Nat
        BY <2>1, FS_EmptySet
    <2>4. rebuilds' \in 0 .. RebuildWrap - 1
        BY <2>1, WrapAssumption
    <2> QED BY <2>2, <2>3, <2>4 DEF Invariant, TypeOK, SizeExact, Trees, Shape, Typed
<1>7. CASE UNCHANGED vars
    BY <1>7 DEF vars, Invariant, TypeOK, TreesOrdered, SeparatorsInRange,
                TreeSizes, SizeExact, Several, Contents, XLeaves
<1> QED BY <1>4, <1>5, <1>6, <1>7 DEF Next

-----------------------------------------------------------------------------
(* The theorems.                                                           *)

(* Every reachable state satisfies the invariant.                          *)
THEOREM InvariantHolds == Spec => []Invariant
<1>1. Init => Invariant
    BY InitInvariant
<1>2. Invariant /\ [Next]_vars => Invariant'
    BY NextInvariant
<1> QED BY <1>1, <1>2, PTL DEF Spec

(* The state stays well-typed: a tree never holds, and never hangs from,   *)
(* anything but keys of the trie, and _size never becomes negative.        *)
THEOREM TypeCorrect == Spec => []TypeOK
<1>1. Invariant => TypeOK
    BY DEF Invariant
<1> QED BY <1>1, InvariantHolds, PTL

(* However insert, split, merge and reinsertion follow one another, the    *)
(* trees stay in the order of their xleaves.                               *)
THEOREM OrderKept == Spec => []TreesOrdered
<1>1. Invariant => TreesOrdered
    BY DEF Invariant
<1> QED BY <1>1, InvariantHolds, PTL

(* remove replaces an xleaf in time: beside another tree, its key never    *)
(* lies outside its tree.                                                  *)
THEOREM SeparatorsKept == Spec => []SeparatorsInRange
<1>1. Invariant => SeparatorsInRange
    BY DEF Invariant
<1> QED BY <1>1, InvariantHolds, PTL

(* remove never hands an empty tree to AVL::merge, nor, from H = 12 on, a  *)
(* tree of a single node.                                                  *)
THEOREM SizesKept == Spec => []TreeSizes
<1>1. Invariant => TreeSizes
    BY DEF Invariant
<1> QED BY <1>1, InvariantHolds, PTL

(* size() is the number of keys.                                           *)
THEOREM SizeCorrect == Spec => []SizeExact
<1>1. Invariant => SizeExact
    BY DEF Invariant
<1> QED BY <1>1, InvariantHolds, PTL

(* find looks at the two trees beside the key, and no other one can hold   *)
(* it.                                                                     *)
THEOREM FindCorrect == Spec => []FindExact
<1>1. ASSUME Invariant PROVE FindExact
    <2> SUFFICES ASSUME NEW k \in Key
                 PROVE  IF k \in Contents
                        THEN /\ Find(k).leaf = k
                             /\ Find(k).xleaf \in XLeaves
                             /\ k \in value[Find(k).xleaf]
                        ELSE Find(k) = Nowhere
        BY DEF FindExact
    <2>1. Trees /\ Shape /\ Typed
        BY <1>1, InvariantParts DEF Trees, Shape
    <2>2. CASE k \in Contents
        <3>1. PICK s \in XLeaves : k \in value[s]
            BY <2>2 DEF Contents
        <3>2. Find(k) = Where(s, k)
            BY <2>1, <3>1, FindsTree
        <3> QED BY <2>2, <3>1, <3>2 DEF Where
    <2>3. CASE k \notin Contents
        <3>1. IsAround(k, XPred(k, FALSE), SuccOfPred(k))
            BY <2>1, Around, KeyAssumption
        <3>2. /\ XPred(k, FALSE) # NULL => k \notin value[XPred(k, FALSE)]
              /\ SuccOfPred(k) # NULL => k \notin value[SuccOfPred(k)]
            BY <2>3, <3>1 DEF IsAround, Contents
        <3> QED BY <2>3, <3>2 DEF Find
    <2> QED BY <2>2, <2>3
<1> QED BY <1>1, InvariantHolds, PTL

(* The container, cut into trees, is the sorted set of its keys.           *)
THEOREM Refinement == Spec => ImplementsSortedSet
<1>1. Init => Abstract!Init
    BY DEF Init, Contents, XLeaves, Abstract!Init
<1>2. ASSUME Invariant, [Next]_vars PROVE [Abstract!Next]_Contents
    <2>1. Trees
        BY <1>2, InvariantParts
    <2>2. ASSUME NEW k \in Key, Insert(k) PROVE Contents' \in Abstract!Inserted
        BY <2>1, <2>2, InsertEffect DEF Abstract!Inserted
    <2>3. ASSUME NEW k \in Key, Remove(k) PROVE Contents' \in Abstract!Removed
        BY <2>1, <2>3, RemoveEffect DEF Abstract!Removed
    <2>4. CASE Clear
        BY <2>4 DEF Clear, Contents, XLeaves, Abstract!Next, Abstract!Cleared
    <2>5. CASE UNCHANGED vars
        BY <2>5 DEF vars, Contents, XLeaves
    <2> QED BY <1>2, <2>2, <2>3, <2>4, <2>5 DEF Next, Abstract!Next
<1> QED BY <1>1, <1>2, InvariantHolds, PTL DEF Spec, ImplementsSortedSet, Abstract!Spec

-----------------------------------------------------------------------------
(* The answer of one tree as that of the container.                        *)

(* The tree at x has an answer where trees further down do, and trees      *)
(* further up have none.                                                   *)
TopBelow(x, k, strict) ==
    \A s \in XLeaves :
        /\ s < x => Below(value[x], k, strict) # {}
        /\ x < s => Below(value[s], k, strict) = {}

LEMMA PredFromTree ==
    ASSUME Trees, NEW x \in XLeaves, NEW k, NEW strict, TopBelow(x, k, strict)
    PROVE  /\ PredIn(Contents, k, strict) = PredIn(value[x], k, strict)
           /\ PredIn(value[x], k, strict) # NULL =>
                  PredIn(value[x], k, strict) \in value[x]
<1> DEFINE B == Below(value[x], k, strict)
           A == Below(Contents, k, strict)
           p == PredIn(value[x], k, strict)
<1>1. /\ x \in Nat /\ XLeaves \in SUBSET Nat
      /\ value[x] \in SUBSET Nat /\ IsFiniteSet(value[x])
      /\ Contents \in SUBSET Nat /\ IsFiniteSet(Contents)
    BY Finite DEF Trees, Shape
<1>2. \/ p = NULL /\ B = {}
      \/ p # NULL /\ p \in value[x] /\ p \in B /\ \A y \in B : y <= p
    BY <1>1, PredInFact
<1>3. ASSUME NEW s \in XLeaves, s # x, NEW y \in Below(value[s], k, strict)
      PROVE  B # {} /\ \A z \in value[x] : y < z
    <2>1. s < x
        BY <1>1, <1>3 DEF TopBelow
    <2>2. y \in value[s]
        BY DEF Below
    <2>3. AllBelow(value[s], value[x])
        BY <2>1, <1>3, OthersApart DEF Trees
    <2> QED BY <2>1, <2>2, <2>3 DEF TopBelow, AllBelow
<1>4. \A y : y \in A <=> \E s \in XLeaves : y \in Below(value[s], k, strict)
    BY DEF Below, Contents
<1>5. CASE B = {}
    <2>1. A = {}
        BY <1>3, <1>4, <1>5
    <2>2. PredIn(Contents, k, strict) = NULL
        BY <1>1, <2>1, PredInFact
    <2> QED BY <2>2, <1>2, <1>5
<1>6. CASE B # {}
    <2>1. p # NULL /\ p \in value[x] /\ p \in B /\ \A y \in B : y <= p
        BY <1>2, <1>6
    <2>2. ASSUME NEW y \in A PROVE y <= p
        <3>1. PICK s \in XLeaves : y \in Below(value[s], k, strict)
            BY <1>4
        <3>2. CASE s = x
            BY <3>1, <3>2, <2>1
        <3>3. CASE s # x
            <4>1. y < p
                BY <3>1, <3>3, <1>3, <2>1
            <4>2. y \in Nat /\ p \in Nat
                BY <1>1, <2>1 DEF Below
            <4> QED BY <4>1, <4>2
        <3> QED BY <3>2, <3>3
    <2>3. p \in A
        BY <1>4, <2>1
    <2>4. PredIn(Contents, k, strict) = p
        BY <1>1, <2>2, <2>3, PredInIs
    <2> QED BY <2>1, <2>4
<1> QED BY <1>5, <1>6

(* The same upwards.                                                       *)
BottomAbove(x, k, strict) ==
    \A s \in XLeaves :
        /\ x < s => Above(value[x], k, strict) # {}
        /\ s < x => Above(value[s], k, strict) = {}

LEMMA SuccFromTree ==
    ASSUME Trees, NEW x \in XLeaves, NEW k, NEW strict, BottomAbove(x, k, strict)
    PROVE  /\ SuccIn(Contents, k, strict) = SuccIn(value[x], k, strict)
           /\ SuccIn(value[x], k, strict) # NULL =>
                  SuccIn(value[x], k, strict) \in value[x]
<1> DEFINE B == Above(value[x], k, strict)
           A == Above(Contents, k, strict)
           p == SuccIn(value[x], k, strict)
<1>1. /\ x \in Nat /\ XLeaves \in SUBSET Nat
      /\ value[x] \in SUBSET Nat /\ IsFiniteSet(value[x])
      /\ Contents \in SUBSET Nat /\ IsFiniteSet(Contents)
    BY Finite DEF Trees, Shape
<1>2. \/ p = NULL /\ B = {}
      \/ p # NULL /\ p \in value[x] /\ p \in B /\ \A y \in B : p <= y
    BY <1>1, SuccInFact
<1>3. ASSUME NEW s \in XLeaves, s # x, NEW y \in Above(value[s], k, strict)
      PROVE  B # {} /\ \A z \in value[x] : z < y
    <2>1. x < s
        BY <1>1, <1>3 DEF BottomAbove
    <2>2. y \in value[s]
        BY DEF Above
    <2>3. AllBelow(value[x], value[s])
        BY <2>1, <1>3, OthersApart DEF Trees
    <2> QED BY <2>1, <2>2, <2>3 DEF BottomAbove, AllBelow
<1>4. \A y : y \in A <=> \E s \in XLeaves : y \in Above(value[s], k, strict)
    BY DEF Above, Contents
<1>5. CASE B = {}
    <2>1. A = {}
        BY <1>3, <1>4, <1>5
    <2>2. SuccIn(Contents, k, strict) = NULL
        BY <1>1, <2>1, SuccInFact
    <2> QED BY <2>2, <1>2, <1>5
<1>6. CASE B # {}
    <2>1. p # NULL /\ p \in value[x] /\ p \in B /\ \A y \in B : p <= y
        BY <1>2, <1>6
    <2>2. ASSUME NEW y \in A PROVE p <= y
        <3>1. PICK s \in XLeaves : y \in Above(value[s], k, strict)
            BY <1>4
        <3>2. CASE s = x
            BY <3>1, <3>2, <2>1
        <3>3. CASE s # x
            <4>1. p < y
                BY <3>1, <3>3, <1>3, <2>1
            <4>2. y \in Nat /\ p \in Nat
                BY <1>1, <2>1 DEF Above
            <4> QED BY <4>1, <4>2
        <3> QED BY <3>2, <3>3
    <2>3. p \in A
        BY <1>4, <2>1
    <2>4. SuccIn(Contents, k, strict) = p
        BY <1>1, <2>2, <2>3, SuccInIs
    <2> QED BY <2>1, <2>4
<1> QED BY <1>5, <1>6

-----------------------------------------------------------------------------
(* The two xleaves a query looks at.                                       *)

(* k lies between the xleaves pred and succ, and there is no other one     *)
(* between them.                                                           *)
Flanked(k, pred, succ) ==
    /\ pred = NULL \/ (pred # NULL /\ pred \in XLeaves /\ pred <= k)
    /\ succ = NULL \/ (succ # NULL /\ succ \in XLeaves /\ k <= succ)
    /\ pred # NULL /\ succ # NULL => pred < succ
    /\ \A s \in XLeaves :
        \/ s = pred \/ s = succ
        \/ pred # NULL /\ s < pred
        \/ succ # NULL /\ succ < s

LEMMA FlankedBelow ==
    ASSUME Typed, NEW k \in Nat, NEW strict \in BOOLEAN,
           NEW pred, pred = XPred(k, strict),
           NEW succ, succ = IF pred # NULL THEN Nxt(pred) ELSE LeastOf(XLeaves)
    PROVE  Flanked(k, pred, succ) /\ (pred # NULL /\ strict => pred < k)
<1>1. XLeaves \in SUBSET Nat /\ IsFiniteSet(XLeaves) /\ \A s \in XLeaves : s \in Nat
    BY Finite
<1>2. /\ pred = NULL => \A s \in XLeaves : k <= s
      /\ pred # NULL => /\ pred \in XLeaves /\ pred <= k
                        /\ strict => pred < k
                        /\ \A s \in XLeaves : s <= pred \/ k <= s
    <2>1. CASE strict = TRUE
        <3>1. pred = PredIn(XLeaves, k, TRUE)
            BY <2>1 DEF XPred
        <3>2. \/ pred = NULL /\ \A s \in XLeaves : k <= s
              \/ /\ pred # NULL /\ pred \in XLeaves /\ pred < k
                 /\ \A s \in XLeaves : s <= pred \/ k <= s
            BY <1>1, <3>1, LastBefore
        <3>3. \A s \in XLeaves : (s < k => s <= k) /\ (k < s => k <= s)
            BY <1>1
        <3> QED BY <3>2, <3>3
    <2>2. CASE strict = FALSE
        <3>1. pred = PredIn(XLeaves, k, FALSE)
            BY <2>2 DEF XPred
        <3>2. \/ pred = NULL /\ \A s \in XLeaves : k < s
              \/ /\ pred # NULL /\ pred \in XLeaves /\ pred <= k
                 /\ \A s \in XLeaves : s <= pred \/ k < s
            BY <1>1, <3>1, LastUpTo
        <3>3. ~strict
            BY <2>2
        <3>4. \A s \in XLeaves : k < s => k <= s
            BY <1>1
        <3> QED BY <3>2, <3>3, <3>4
    <2> QED BY <2>1, <2>2
<1>3. CASE pred = NULL
    <2>1. succ = LeastOf(XLeaves)
        BY <1>3
    <2>2. \/ succ = NULL /\ XLeaves = {}
          \/ succ # NULL /\ succ \in XLeaves /\ \A s \in XLeaves : succ <= s
        BY <1>1, <2>1, LeastOfFact
    <2>3. ASSUME NEW s \in XLeaves PROVE s = succ \/ (succ # NULL /\ succ < s)
        <3>1. succ # NULL /\ succ \in Nat /\ s \in Nat /\ succ <= s
            BY <1>1, <2>2
        <3> QED BY <3>1
    <2>4. succ = NULL \/ (succ # NULL /\ succ \in XLeaves /\ k <= succ)
        BY <1>2, <1>3, <2>2
    <2> QED BY <1>3, <2>3, <2>4 DEF Flanked
<1>4. CASE pred # NULL
    <2>1. succ = SuccIn(XLeaves, pred, TRUE)
        BY <1>4 DEF Nxt
    <2>2. \/ succ = NULL /\ \A s \in XLeaves : s <= pred
          \/ succ # NULL /\ succ \in XLeaves /\ pred < succ
                /\ \A s \in XLeaves : succ <= s \/ s <= pred
        BY <1>1, <1>2, <1>4, <2>1, FirstAfter
    <2>3. pred \in XLeaves /\ pred <= k /\ (strict => pred < k)
        BY <1>2, <1>4
    <2>4. ASSUME NEW s \in XLeaves
          PROVE  \/ s = pred \/ s = succ \/ s < pred
                 \/ succ # NULL /\ succ < s
        <3>1. s \in Nat /\ pred \in Nat
            BY <1>1, <2>3
        <3>2. CASE s <= pred
            BY <3>1, <3>2
        <3>3. CASE pred < s
            <4>1. ~(s <= pred)
                BY <3>1, <3>3
            <4>2. succ # NULL /\ succ \in XLeaves /\ succ <= s
                BY <2>2, <4>1
            <4> QED BY <1>1, <3>1, <4>2
        <3> QED BY <3>1, <3>2, <3>3
    <2>5. ASSUME succ # NULL PROVE succ \in XLeaves /\ k <= succ /\ pred < succ
        <3>1. succ \in XLeaves /\ pred < succ /\ succ \in Nat /\ pred \in Nat
            BY <1>1, <2>2, <2>3, <2>5
        <3>2. ~(succ <= pred)
            BY <3>1
        <3> QED BY <1>2, <1>4, <3>1, <3>2
    <2>6. Flanked(k, pred, succ)
        BY <1>4, <2>3, <2>4, <2>5 DEF Flanked
    <2> QED BY <2>3, <2>6
<1> QED BY <1>3, <1>4

LEMMA FlankedAbove ==
    ASSUME Typed, NEW k \in Nat, NEW strict \in BOOLEAN,
           NEW succ, succ = XSucc(k, strict),
           NEW pred, pred = IF succ # NULL THEN Prv(succ) ELSE GreatestOf(XLeaves)
    PROVE  Flanked(k, pred, succ) /\ (succ # NULL /\ strict => k < succ)
<1>1. XLeaves \in SUBSET Nat /\ IsFiniteSet(XLeaves) /\ \A s \in XLeaves : s \in Nat
    BY Finite
<1>2. /\ succ = NULL => \A s \in XLeaves : s <= k
      /\ succ # NULL => /\ succ \in XLeaves /\ k <= succ
                        /\ strict => k < succ
                        /\ \A s \in XLeaves : succ <= s \/ s <= k
    <2>1. CASE strict = TRUE
        <3>1. succ = SuccIn(XLeaves, k, TRUE)
            BY <2>1 DEF XSucc
        <3>2. \/ succ = NULL /\ \A s \in XLeaves : s <= k
              \/ /\ succ # NULL /\ succ \in XLeaves /\ k < succ
                 /\ \A s \in XLeaves : succ <= s \/ s <= k
            BY <1>1, <3>1, FirstAfter
        <3>3. \A s \in XLeaves : (s < k => s <= k) /\ (k < s => k <= s)
            BY <1>1
        <3> QED BY <3>2, <3>3
    <2>2. CASE strict = FALSE
        <3>1. succ = SuccIn(XLeaves, k, FALSE)
            BY <2>2 DEF XSucc
        <3>2. \/ succ = NULL /\ \A s \in XLeaves : s < k
              \/ /\ succ # NULL /\ succ \in XLeaves /\ k <= succ
                 /\ \A s \in XLeaves : succ <= s \/ s < k
            BY <1>1, <3>1, FirstFrom
        <3>3. ~strict
            BY <2>2
        <3>4. \A s \in XLeaves : s < k => s <= k
            BY <1>1
        <3> QED BY <3>2, <3>3, <3>4
    <2> QED BY <2>1, <2>2
<1>3. CASE succ = NULL
    <2>1. pred = GreatestOf(XLeaves)
        BY <1>3
    <2>2. \/ pred = NULL /\ XLeaves = {}
          \/ pred # NULL /\ pred \in XLeaves /\ \A s \in XLeaves : s <= pred
        BY <1>1, <2>1, GreatestOfFact
    <2>3. ASSUME NEW s \in XLeaves PROVE s = pred \/ (pred # NULL /\ s < pred)
        <3>1. pred # NULL /\ pred \in Nat /\ s \in Nat /\ s <= pred
            BY <1>1, <2>2
        <3> QED BY <3>1
    <2>4. pred = NULL \/ (pred # NULL /\ pred \in XLeaves /\ pred <= k)
        BY <1>2, <1>3, <2>2
    <2> QED BY <1>3, <2>3, <2>4 DEF Flanked
<1>4. CASE succ # NULL
    <2>1. pred = PredIn(XLeaves, succ, TRUE)
        BY <1>4 DEF Prv
    <2>2. \/ pred = NULL /\ \A s \in XLeaves : succ <= s
          \/ pred # NULL /\ pred \in XLeaves /\ pred < succ
                /\ \A s \in XLeaves : s <= pred \/ succ <= s
        BY <1>1, <1>2, <1>4, <2>1, LastBefore
    <2>3. succ \in XLeaves /\ k <= succ /\ (strict => k < succ)
        BY <1>2, <1>4
    <2>4. ASSUME NEW s \in XLeaves
          PROVE  \/ s = pred \/ s = succ \/ succ < s
                 \/ pred # NULL /\ s < pred
        <3>1. s \in Nat /\ succ \in Nat
            BY <1>1, <2>3
        <3>2. CASE succ <= s
            BY <3>1, <3>2
        <3>3. CASE s < succ
            <4>1. ~(succ <= s)
                BY <3>1, <3>3
            <4>2. pred # NULL /\ pred \in XLeaves /\ s <= pred
                BY <2>2, <4>1
            <4> QED BY <1>1, <3>1, <4>2
        <3> QED BY <3>1, <3>2, <3>3
    <2>5. ASSUME pred # NULL PROVE pred \in XLeaves /\ pred <= k /\ pred < succ
        <3>1. pred \in XLeaves /\ pred < succ /\ pred \in Nat /\ succ \in Nat
            BY <1>1, <2>2, <2>3, <2>5
        <3>2. ~(succ <= pred)
            BY <3>1
        <3> QED BY <1>2, <1>4, <3>1, <3>2
    <2>6. Flanked(k, pred, succ)
        BY <1>4, <2>3, <2>4, <2>5 DEF Flanked
    <2> QED BY <2>3, <2>6
<1> QED BY <1>3, <1>4

(* Beyond the nearer xleaf on either side there is nothing of interest.    *)
LEMMA FlankedApart ==
    ASSUME Trees, NEW k \in Nat, NEW pred, NEW succ, Flanked(k, pred, succ)
    PROVE  /\ succ # NULL => \A s \in XLeaves : succ < s => \A y \in value[s] : k < y
           /\ pred # NULL => \A s \in XLeaves : s < pred => \A y \in value[s] : y < k
<1>1. \A s \in XLeaves : s \in Nat /\ value[s] \in SUBSET Nat
    BY Finite DEF Trees, Shape
<1>2. ASSUME succ # NULL, NEW s \in XLeaves, succ < s, NEW y \in value[s]
      PROVE  k < y
    <2>1. succ \in XLeaves /\ k <= succ
        BY <1>2 DEF Flanked
    <2>2. succ \in Nat /\ s \in Nat /\ y \in Nat /\ succ # s
        BY <1>1, <1>2, <2>1
    <2>3. succ < y
        BY <1>2, <2>1, <2>2, OthersApart DEF Trees
    <2> QED BY <2>1, <2>2, <2>3
<1>3. ASSUME pred # NULL, NEW s \in XLeaves, s < pred, NEW y \in value[s]
      PROVE  y < k
    <2>1. pred \in XLeaves /\ pred <= k
        BY <1>3 DEF Flanked
    <2>2. pred \in Nat /\ s \in Nat /\ y \in Nat /\ pred # s
        BY <1>1, <1>3, <2>1
    <2>3. y < pred
        BY <1>3, <2>1, <2>2, OthersApart DEF Trees
    <2> QED BY <2>1, <2>2, <2>3
<1> QED BY <1>2, <1>3

LEMMA Bounded ==
    ASSUME NEW S \in SUBSET Nat, NEW k \in Nat, NEW strict
    PROVE  /\ \A y \in Below(S, k, strict) : y \in S /\ y <= k
           /\ \A y \in Above(S, k, strict) : y \in S /\ k <= y
           /\ \A y \in S : y < k => y \in Below(S, k, strict)
           /\ \A y \in S : k < y => y \in Above(S, k, strict)
           /\ ~strict /\ k \in S => k \in Below(S, k, strict) /\ k \in Above(S, k, strict)
<1>1. \A y \in S : (y < k => y <= k) /\ (k < y => k <= y) /\ (y = k => y <= k /\ k <= y)
    OBVIOUS
<1> QED BY <1>1, Zenon DEF Below, Above

LEMMA NoneWithin ==
    ASSUME NEW S \in SUBSET Nat, NEW k \in Nat, NEW strict
    PROVE  /\ (\A y \in S : k < y) => Below(S, k, strict) = {}
           /\ (\A y \in S : y < k) => Above(S, k, strict) = {}
<1>1. \A y \in S : (k < y => ~(y <= k)) /\ (y < k => ~(k <= y))
    OBVIOUS
<1> QED BY <1>1, Bounded

(* Where pred looks, once it has ruled out the tree above k.               *)
LEMMA AnswerBelow ==
    ASSUME Trees, NEW k \in Nat, NEW strict, NEW pred, NEW succ,
           Flanked(k, pred, succ),
           pred # NULL, strict => pred < k,
           succ = NULL \/ Below(value[succ], k, strict) = {}
    PROVE  pred \in XLeaves /\ TopBelow(pred, k, strict)
<1>1. \A s \in XLeaves : s \in Nat /\ value[s] \in SUBSET Nat
    BY Finite DEF Trees, Shape
<1>2. pred \in XLeaves /\ pred \in Nat /\ pred <= k
    BY <1>1 DEF Flanked
<1>3. ASSUME NEW s \in XLeaves, s < pred PROVE Below(value[pred], k, strict) # {}
    <2>1. s # pred /\ pred \in Nat
        BY <1>1, <1>2, <1>3
    <2>2. PICK y \in value[pred] : y <= pred
        BY <1>2, <2>1, OthersApart DEF Trees, Spans
    <2>3. y \in Nat /\ (y < k \/ (y = k /\ pred = k))
        BY <1>1, <1>2, <2>2
    <2>4. CASE y < k
        BY <1>1, <1>2, <2>4, Bounded
    <2>5. CASE y = k /\ pred = k
        <3>1. ~strict
            BY <2>5
        <3> QED BY <1>1, <1>2, <2>5, <3>1, Bounded
    <2> QED BY <2>3, <2>4, <2>5
<1>4. ASSUME NEW s \in XLeaves, pred < s PROVE Below(value[s], k, strict) = {}
    <2>1. s # pred /\ ~(s < pred)
        BY <1>1, <1>2, <1>4
    <2>2. s = succ \/ (succ # NULL /\ succ < s)
        BY <2>1 DEF Flanked
    <2>3. CASE s = succ
        <3>1. NULL \notin Nat
            BY NullFact
        <3> QED BY <2>3, <1>1, <3>1
    <2>4. CASE succ # NULL /\ succ < s
        <3>1. \A y \in value[s] : k < y
            BY <2>4, FlankedApart
        <3> QED BY <1>1, <3>1, NoneWithin
    <2> QED BY <2>2, <2>3, <2>4
<1> QED BY <1>2, <1>3, <1>4 DEF TopBelow

LEMMA AnswerBelowNext ==
    ASSUME Trees, NEW k \in Nat, NEW strict, NEW pred, NEW succ,
           Flanked(k, pred, succ), succ # NULL,
           pred = NULL \/ Below(value[succ], k, strict) # {}
    PROVE  succ \in XLeaves /\ TopBelow(succ, k, strict)
<1>1. \A s \in XLeaves : s \in Nat /\ value[s] \in SUBSET Nat
    BY Finite DEF Trees, Shape
<1>2. succ \in XLeaves /\ succ \in Nat
    BY <1>1 DEF Flanked
<1>3. ASSUME NEW s \in XLeaves, s < succ PROVE Below(value[succ], k, strict) # {}
    <2>1. s # succ /\ ~(succ < s) /\ s \in Nat
        BY <1>1, <1>2, <1>3
    <2>2. pred # NULL
        BY <2>1, NullFact DEF Flanked
    <2> QED BY <2>2
<1>4. ASSUME NEW s \in XLeaves, succ < s PROVE Below(value[s], k, strict) = {}
    <2>1. \A y \in value[s] : k < y
        BY <1>4, FlankedApart
    <2> QED BY <1>1, <2>1, NoneWithin
<1> QED BY <1>2, <1>3, <1>4 DEF TopBelow

(* Where succ looks, once it has ruled out the tree below k.               *)
LEMMA AnswerAbove ==
    ASSUME Trees, NEW k \in Nat, NEW strict, NEW pred, NEW succ,
           Flanked(k, pred, succ),
           succ # NULL, strict => k < succ,
           pred = NULL \/ Above(value[pred], k, strict) = {}
    PROVE  succ \in XLeaves /\ BottomAbove(succ, k, strict)
<1>1. \A s \in XLeaves : s \in Nat /\ value[s] \in SUBSET Nat
    BY Finite DEF Trees, Shape
<1>2. succ \in XLeaves /\ succ \in Nat /\ k <= succ
    BY <1>1 DEF Flanked
<1>3. ASSUME NEW s \in XLeaves, succ < s PROVE Above(value[succ], k, strict) # {}
    <2>1. s # succ /\ succ \in Nat
        BY <1>1, <1>2, <1>3
    <2>2. PICK y \in value[succ] : succ <= y
        BY <1>2, <2>1, OthersApart DEF Trees, Spans
    <2>3. y \in Nat /\ (k < y \/ (y = k /\ succ = k))
        BY <1>1, <1>2, <2>2
    <2>4. CASE k < y
        BY <1>1, <1>2, <2>4, Bounded
    <2>5. CASE y = k /\ succ = k
        <3>1. ~strict
            BY <2>5
        <3> QED BY <1>1, <1>2, <2>5, <3>1, Bounded
    <2> QED BY <2>3, <2>4, <2>5
<1>4. ASSUME NEW s \in XLeaves, s < succ PROVE Above(value[s], k, strict) = {}
    <2>1. s # succ /\ ~(succ < s)
        BY <1>1, <1>2, <1>4
    <2>2. s = pred \/ (pred # NULL /\ s < pred)
        BY <2>1 DEF Flanked
    <2>3. CASE s = pred
        <3>1. NULL \notin Nat
            BY NullFact
        <3> QED BY <2>3, <1>1, <3>1
    <2>4. CASE pred # NULL /\ s < pred
        <3>1. \A y \in value[s] : y < k
            BY <2>4, FlankedApart
        <3> QED BY <1>1, <3>1, NoneWithin
    <2> QED BY <2>2, <2>3, <2>4
<1> QED BY <1>2, <1>3, <1>4 DEF BottomAbove

LEMMA AnswerAbovePrevious ==
    ASSUME Trees, NEW k \in Nat, NEW strict, NEW pred, NEW succ,
           Flanked(k, pred, succ), pred # NULL,
           succ = NULL \/ Above(value[pred], k, strict) # {}
    PROVE  pred \in XLeaves /\ BottomAbove(pred, k, strict)
<1>1. \A s \in XLeaves : s \in Nat /\ value[s] \in SUBSET Nat
    BY Finite DEF Trees, Shape
<1>2. pred \in XLeaves /\ pred \in Nat
    BY <1>1 DEF Flanked
<1>3. ASSUME NEW s \in XLeaves, pred < s PROVE Above(value[pred], k, strict) # {}
    <2>1. s # pred /\ ~(s < pred) /\ s \in Nat
        BY <1>1, <1>2, <1>3
    <2>2. succ # NULL
        BY <2>1, NullFact DEF Flanked
    <2> QED BY <2>2
<1>4. ASSUME NEW s \in XLeaves, s < pred PROVE Above(value[s], k, strict) = {}
    <2>1. \A y \in value[s] : y < k
        BY <1>4, FlankedApart
    <2> QED BY <1>1, <2>1, NoneWithin
<1> QED BY <1>2, <1>3, <1>4 DEF BottomAbove

-----------------------------------------------------------------------------
(* The queries.                                                            *)

Placed(where) ==
    where.leaf # NULL => /\ where.xleaf \in XLeaves
                         /\ where.leaf \in value[where.xleaf]

LEMMA AnswerIs ==
    ASSUME NEW where, NEW x \in XLeaves, NEW y, where = Where(x, y),
           y # NULL => y \in value[x]
    PROVE  AnswersWith(where, y)
BY DEF AnswersWith, Where

LEMMA NoAnswer ==
    ASSUME NEW where, where = Nowhere
    PROVE  AnswersWith(where, NULL)
BY DEF AnswersWith, Nowhere, Where

LEMMA EmptyContents ==
    ASSUME Trees, XLeaves = {}
    PROVE  /\ Contents = {}
           /\ \A k, strict : PredIn(Contents, k, strict) = NULL
           /\ \A k, strict : SuccIn(Contents, k, strict) = NULL
           /\ LeastOf(Contents) = NULL /\ GreatestOf(Contents) = NULL
<1>1. Contents = {}
    BY DEF Contents
<1> QED BY <1>1 DEF PredIn, SuccIn, Below, Above, LeastOf, GreatestOf

LEMMA PredExact ==
    ASSUME Trees, NEW k \in Key, NEW strict \in BOOLEAN
    PROVE  AnswersWith(Pred(k, strict), PredIn(Contents, k, strict))
<1> DEFINE pred == XPred(k, strict)
           succ == IF pred # NULL THEN Nxt(pred) ELSE LeastOf(XLeaves)
           pred_max == GreatestOf(value[pred])
           leaf == PredIn(value[succ], k, strict)
           where == Pred(k, strict)
<1>1. k \in Nat /\ Typed
    BY KeyAssumption DEF Trees, Shape
<1>2. Flanked(k, pred, succ) /\ (pred # NULL /\ strict => pred < k)
    BY <1>1, FlankedBelow
<1>3. where =
        IF pred = NULL
            THEN IF succ = NULL THEN Nowhere ELSE Where(succ, leaf)
        ELSE IF pred_max >= k
            THEN Where(pred, PredIn(value[pred], k, strict))
        ELSE IF succ # NULL /\ LeastOf(value[succ]) <= k /\ leaf # NULL
            THEN Where(succ, leaf)
        ELSE Where(pred, pred_max)
    BY DEF Pred
<1> SUFFICES AnswersWith(where, PredIn(Contents, k, strict))
    OBVIOUS
<1> HIDE DEF pred, succ, where
<1>4. \A s \in XLeaves : /\ s \in Nat /\ value[s] \in SUBSET Nat
                          /\ IsFiniteSet(value[s]) /\ value[s] # {}
    BY Finite DEF Trees, Shape, TreeSizes
<1>5. /\ pred # NULL => pred \in XLeaves
      /\ succ # NULL => succ \in XLeaves
      /\ pred # NULL /\ succ # NULL => pred < succ
    BY <1>2 DEF Flanked
<1>6. CASE pred = NULL /\ succ = NULL
    <2>1. XLeaves = {}
        BY <1>2, <1>4, <1>6, NullFact DEF Flanked
    <2>2. where = Nowhere
        BY <1>3, <1>6
    <2> QED BY <2>1, <2>2, EmptyContents, NoAnswer
<1>7. CASE pred = NULL /\ succ # NULL
    <2>1. succ \in XLeaves /\ TopBelow(succ, k, strict)
        BY <1>1, <1>2, <1>7, AnswerBelowNext
    <2>2. where = Where(succ, leaf)
        BY <1>3, <1>7
    <2> QED BY <2>1, <2>2, PredFromTree, AnswerIs
<1>8. CASE pred # NULL /\ pred_max >= k
    <2>1. ASSUME succ # NULL PROVE Below(value[succ], k, strict) = {}
        <3>1. pred_max \in value[pred]
            BY <1>4, <1>5, <1>8, GreatestOfFact
        <3>2. pred # succ
            BY <1>4, <1>5, <1>8, <2>1
        <3>3. AllBelow(value[pred], value[succ])
            BY <1>5, <1>8, <2>1, <3>2, OthersApart DEF Trees
        <3>4. \A y \in value[succ] : k < y
            BY <1>1, <1>4, <1>5, <1>8, <2>1, <3>1, <3>3 DEF AllBelow
        <3> QED BY <1>1, <1>4, <1>5, <2>1, <3>4, NoneWithin
    <2>2. pred \in XLeaves /\ TopBelow(pred, k, strict)
        BY <1>1, <1>2, <1>8, <2>1, AnswerBelow
    <2>3. where = Where(pred, PredIn(value[pred], k, strict))
        BY <1>3, <1>8
    <2> QED BY <2>2, <2>3, PredFromTree, AnswerIs
<1>9. CASE /\ pred # NULL /\ ~(pred_max >= k)
           /\ succ # NULL /\ LeastOf(value[succ]) <= k /\ leaf # NULL
    <2>1. Below(value[succ], k, strict) # {}
        BY <1>4, <1>5, <1>9, PredInFact
    <2>2. succ \in XLeaves /\ TopBelow(succ, k, strict)
        BY <1>1, <1>2, <1>9, <2>1, AnswerBelowNext
    <2>3. where = Where(succ, leaf)
        BY <1>3, <1>9
    <2> QED BY <2>2, <2>3, PredFromTree, AnswerIs
<1>10. CASE /\ pred # NULL /\ ~(pred_max >= k)
            /\ ~(succ # NULL /\ LeastOf(value[succ]) <= k /\ leaf # NULL)
    <2>1. ASSUME succ # NULL PROVE Below(value[succ], k, strict) = {}
        <3>1. succ \in XLeaves /\ value[succ] \in SUBSET Nat
            BY <1>4, <1>5, <2>1
        <3>2. CASE leaf = NULL
            BY <1>4, <3>1, <3>2, PredInFact
        <3>3. CASE ~(LeastOf(value[succ]) <= k)
            <4>1. /\ LeastOf(value[succ]) \in Nat
                  /\ \A y \in value[succ] : LeastOf(value[succ]) <= y
                BY <1>4, <3>1, LeastOfFact
            <4>2. \A y \in value[succ] : k < y
                BY <1>1, <3>1, <3>3, <4>1
            <4> QED BY <1>1, <3>1, <4>2, NoneWithin
        <3> QED BY <1>10, <2>1, <3>2, <3>3
    <2>2. pred \in XLeaves /\ TopBelow(pred, k, strict)
        BY <1>1, <1>2, <1>10, <2>1, AnswerBelow
    <2>3. /\ value[pred] \in SUBSET Nat /\ IsFiniteSet(value[pred])
          /\ pred_max \in value[pred] /\ \A y \in value[pred] : y <= pred_max
        BY <1>4, <2>2, GreatestOfFact
    <2>4. pred_max < k
        BY <1>1, <1>10, <2>3
    <2>5. pred_max \in Below(value[pred], k, strict)
        BY <1>1, <2>3, <2>4, Bounded
    <2>6. \A y \in Below(value[pred], k, strict) : y <= pred_max
        BY <2>3 DEF Below
    <2>7. PredIn(value[pred], k, strict) = pred_max
        BY <2>3, <2>5, <2>6, PredInIs
    <2>8. where = Where(pred, pred_max)
        BY <1>3, <1>10
    <2> QED BY <2>2, <2>3, <2>7, <2>8, PredFromTree, AnswerIs
<1> QED BY <1>6, <1>7, <1>8, <1>9, <1>10

LEMMA SuccExact ==
    ASSUME Trees, NEW k \in Key, NEW strict \in BOOLEAN
    PROVE  AnswersWith(Succ(k, strict), SuccIn(Contents, k, strict))
<1> DEFINE succ == XSucc(k, strict)
           pred == IF succ # NULL THEN Prv(succ) ELSE GreatestOf(XLeaves)
           succ_min == LeastOf(value[succ])
           leaf == SuccIn(value[pred], k, strict)
           where == Succ(k, strict)
<1>1. k \in Nat /\ Typed
    BY KeyAssumption DEF Trees, Shape
<1>2. Flanked(k, pred, succ) /\ (succ # NULL /\ strict => k < succ)
    BY <1>1, FlankedAbove
<1>3. where =
        IF succ = NULL
            THEN IF pred = NULL THEN Nowhere ELSE Where(pred, leaf)
        ELSE IF succ_min <= k
            THEN Where(succ, SuccIn(value[succ], k, strict))
        ELSE IF pred # NULL /\ k <= GreatestOf(value[pred]) /\ leaf # NULL
            THEN Where(pred, leaf)
        ELSE Where(succ, succ_min)
    BY DEF Succ
<1> SUFFICES AnswersWith(where, SuccIn(Contents, k, strict))
    OBVIOUS
<1> HIDE DEF pred, succ, where
<1>4. \A s \in XLeaves : /\ s \in Nat /\ value[s] \in SUBSET Nat
                          /\ IsFiniteSet(value[s]) /\ value[s] # {}
    BY Finite DEF Trees, Shape, TreeSizes
<1>5. /\ pred # NULL => pred \in XLeaves
      /\ succ # NULL => succ \in XLeaves
      /\ pred # NULL /\ succ # NULL => pred < succ
    BY <1>2 DEF Flanked
<1>6. CASE pred = NULL /\ succ = NULL
    <2>1. XLeaves = {}
        BY <1>2, <1>4, <1>6, NullFact DEF Flanked
    <2>2. where = Nowhere
        BY <1>3, <1>6
    <2> QED BY <2>1, <2>2, EmptyContents, NoAnswer
<1>7. CASE succ = NULL /\ pred # NULL
    <2>1. pred \in XLeaves /\ BottomAbove(pred, k, strict)
        BY <1>1, <1>2, <1>7, AnswerAbovePrevious
    <2>2. where = Where(pred, leaf)
        BY <1>3, <1>7
    <2> QED BY <2>1, <2>2, SuccFromTree, AnswerIs
<1>8. CASE succ # NULL /\ succ_min <= k
    <2>1. ASSUME pred # NULL PROVE Above(value[pred], k, strict) = {}
        <3>1. succ_min \in value[succ]
            BY <1>4, <1>5, <1>8, LeastOfFact
        <3>2. pred # succ
            BY <1>4, <1>5, <1>8, <2>1
        <3>3. AllBelow(value[pred], value[succ])
            BY <1>5, <1>8, <2>1, <3>2, OthersApart DEF Trees
        <3>4. \A y \in value[pred] : y < k
            BY <1>1, <1>4, <1>5, <1>8, <2>1, <3>1, <3>3 DEF AllBelow
        <3> QED BY <1>1, <1>4, <1>5, <2>1, <3>4, NoneWithin
    <2>2. succ \in XLeaves /\ BottomAbove(succ, k, strict)
        BY <1>1, <1>2, <1>8, <2>1, AnswerAbove
    <2>3. where = Where(succ, SuccIn(value[succ], k, strict))
        BY <1>3, <1>8
    <2> QED BY <2>2, <2>3, SuccFromTree, AnswerIs
<1>9. CASE /\ succ # NULL /\ ~(succ_min <= k)
           /\ pred # NULL /\ k <= GreatestOf(value[pred]) /\ leaf # NULL
    <2>1. Above(value[pred], k, strict) # {}
        BY <1>4, <1>5, <1>9, SuccInFact
    <2>2. pred \in XLeaves /\ BottomAbove(pred, k, strict)
        BY <1>1, <1>2, <1>9, <2>1, AnswerAbovePrevious
    <2>3. where = Where(pred, leaf)
        BY <1>3, <1>9
    <2> QED BY <2>2, <2>3, SuccFromTree, AnswerIs
<1>10. CASE /\ succ # NULL /\ ~(succ_min <= k)
            /\ ~(pred # NULL /\ k <= GreatestOf(value[pred]) /\ leaf # NULL)
    <2>1. ASSUME pred # NULL PROVE Above(value[pred], k, strict) = {}
        <3>1. pred \in XLeaves /\ value[pred] \in SUBSET Nat
            BY <1>4, <1>5, <2>1
        <3>2. CASE leaf = NULL
            BY <1>4, <3>1, <3>2, SuccInFact
        <3>3. CASE ~(k <= GreatestOf(value[pred]))
            <4>1. /\ GreatestOf(value[pred]) \in Nat
                  /\ \A y \in value[pred] : y <= GreatestOf(value[pred])
                BY <1>4, <3>1, GreatestOfFact
            <4>2. \A y \in value[pred] : y < k
                BY <1>1, <3>1, <3>3, <4>1
            <4> QED BY <1>1, <3>1, <4>2, NoneWithin
        <3> QED BY <1>10, <2>1, <3>2, <3>3
    <2>2. succ \in XLeaves /\ BottomAbove(succ, k, strict)
        BY <1>1, <1>2, <1>10, <2>1, AnswerAbove
    <2>3. /\ value[succ] \in SUBSET Nat /\ IsFiniteSet(value[succ])
          /\ succ_min \in value[succ] /\ \A y \in value[succ] : succ_min <= y
        BY <1>4, <2>2, LeastOfFact
    <2>4. k < succ_min
        BY <1>1, <1>10, <2>3
    <2>5. succ_min \in Above(value[succ], k, strict)
        BY <1>1, <2>3, <2>4, Bounded
    <2>6. \A y \in Above(value[succ], k, strict) : succ_min <= y
        BY <2>3 DEF Above
    <2>7. SuccIn(value[succ], k, strict) = succ_min
        BY <2>3, <2>5, <2>6, SuccInIs
    <2>8. where = Where(succ, succ_min)
        BY <1>3, <1>10
    <2> QED BY <2>2, <2>3, <2>7, <2>8, SuccFromTree, AnswerIs
<1> QED BY <1>6, <1>7, <1>8, <1>9, <1>10

(* The least key is in the first tree, the greatest in the last one.       *)
LEMMA EndsExact ==
    ASSUME Trees
    PROVE  /\ AnswersWith(Leftmost, LeastOf(Contents))
           /\ AnswersWith(Rightmost, GreatestOf(Contents))
<1>1. /\ XLeaves \in SUBSET Nat /\ IsFiniteSet(XLeaves)
      /\ Contents \in SUBSET Nat /\ IsFiniteSet(Contents)
      /\ \A s \in XLeaves : /\ s \in Nat /\ value[s] \in SUBSET Nat
                            /\ IsFiniteSet(value[s]) /\ value[s] # {}
    BY Finite DEF Trees, Shape, TreeSizes
<1>2. CASE XLeaves = {}
    <2>1. LeastOf(XLeaves) = NULL /\ GreatestOf(XLeaves) = NULL
        BY <1>2 DEF LeastOf, GreatestOf
    <2>2. Leftmost = Nowhere /\ Rightmost = Nowhere
        BY <2>1 DEF Leftmost, Rightmost
    <2> QED BY <1>2, <2>2, EmptyContents, NoAnswer
<1>3. CASE XLeaves # {}
    <2> DEFINE f == LeastOf(XLeaves)
               l == GreatestOf(XLeaves)
    <2>1. /\ f # NULL /\ f \in XLeaves /\ \A s \in XLeaves : f <= s
          /\ l # NULL /\ l \in XLeaves /\ \A s \in XLeaves : s <= l
        BY <1>1, <1>3, LeastOfFact, GreatestOfFact
    <2>2. Leftmost = Where(f, LeastOf(value[f])) /\ Rightmost = Where(l, GreatestOf(value[l]))
        BY <2>1 DEF Leftmost, Rightmost
    <2> HIDE DEF f, l
    <2>3. /\ LeastOf(value[f]) \in value[f]
          /\ \A y \in value[f] : LeastOf(value[f]) <= y
        BY <1>1, <2>1, LeastOfFact
    <2>4. /\ GreatestOf(value[l]) \in value[l]
          /\ \A y \in value[l] : y <= GreatestOf(value[l])
        BY <1>1, <2>1, GreatestOfFact
    <2>5. ASSUME NEW y \in Contents
          PROVE  LeastOf(value[f]) <= y /\ y <= GreatestOf(value[l])
        <3>1. PICK s \in XLeaves : y \in value[s]
            BY DEF Contents
        <3>2. LeastOf(value[f]) <= y
            <4>1. CASE s = f
                BY <2>3, <3>1, <4>1
            <4>2. CASE s # f
                <5>1. f < s
                    BY <1>1, <2>1, <4>2
                <5>2. AllBelow(value[f], value[s])
                    BY <2>1, <4>2, <5>1, OthersApart DEF Trees
                <5>3. LeastOf(value[f]) < y
                    BY <2>3, <3>1, <5>2 DEF AllBelow
                <5> QED BY <1>1, <2>1, <2>3, <3>1, <5>3
            <4> QED BY <4>1, <4>2
        <3>3. y <= GreatestOf(value[l])
            <4>1. CASE s = l
                BY <2>4, <3>1, <4>1
            <4>2. CASE s # l
                <5>1. s < l
                    BY <1>1, <2>1, <4>2
                <5>2. AllBelow(value[s], value[l])
                    BY <2>1, <4>2, <5>1, OthersApart DEF Trees
                <5>3. y < GreatestOf(value[l])
                    BY <2>4, <3>1, <5>2 DEF AllBelow
                <5> QED BY <1>1, <2>1, <2>4, <3>1, <5>3
            <4> QED BY <4>1, <4>2
        <3> QED BY <3>2, <3>3
    <2>6. LeastOf(value[f]) \in Contents /\ GreatestOf(value[l]) \in Contents
        BY <2>1, <2>3, <2>4 DEF Contents
    <2>7. LeastOf(Contents) = LeastOf(value[f])
        <3>1. /\ LeastOf(Contents) \in Contents
              /\ \A y \in Contents : LeastOf(Contents) <= y
            BY <1>1, <2>6, LeastOfFact
        <3>2. LeastOf(Contents) \in Nat /\ LeastOf(value[f]) \in Nat
            BY <1>1, <2>6, <3>1
        <3>3. LeastOf(Contents) <= LeastOf(value[f]) /\ LeastOf(value[f]) <= LeastOf(Contents)
            BY <2>5, <2>6, <3>1
        <3> QED BY <3>2, <3>3
    <2>8. GreatestOf(Contents) = GreatestOf(value[l])
        <3>1. /\ GreatestOf(Contents) \in Contents
              /\ \A y \in Contents : y <= GreatestOf(Contents)
            BY <1>1, <2>6, GreatestOfFact
        <3>2. GreatestOf(Contents) \in Nat /\ GreatestOf(value[l]) \in Nat
            BY <1>1, <2>6, <3>1
        <3>3. /\ GreatestOf(Contents) <= GreatestOf(value[l])
              /\ GreatestOf(value[l]) <= GreatestOf(Contents)
            BY <2>5, <2>6, <3>1
        <3> QED BY <3>2, <3>3
    <2> QED BY <2>1, <2>2, <2>3, <2>4, <2>7, <2>8, AnswerIs
<1> QED BY <1>2, <1>3

LEMMA QueriesExact ==
    ASSUME Trees
    PROVE  NeighboursExact
BY PredExact, SuccExact, EndsExact DEF NeighboursExact

(* pred, succ and the ends of the container are exact, in every state and  *)
(* for every key: no more than two trees have to be looked at.             *)
THEOREM NeighboursCorrect == Spec => []NeighboursExact
<1>1. Invariant => NeighboursExact
    BY QueriesExact, InvariantParts
<1> QED BY <1>1, InvariantHolds, PTL

-----------------------------------------------------------------------------
(* Rebuilds.                                                               *)

LEMMA CountMoves ==
    ASSUME rebuilds \in 0 .. RebuildWrap - 1, CountRebuild
    PROVE  rebuilds' # rebuilds
BY WrapAssumption DEF CountRebuild

(* An insert of k counts, or leaves every tree where it is but for k.      *)
TreesKeptBut(k) ==
    /\ XLeaves \subseteq XLeaves'
    /\ \A s \in XLeaves : value[s] \subseteq value'[s]
    /\ \A s \in XLeaves' : \A y \in value'[s] : y # k => s \in XLeaves /\ y \in value[s]

LEMMA InsertKeepsTrees ==
    ASSUME Trees, NEW k \in Key, NEW x, x = InsertionLeaf(k),
           InsertFirst(k, x) \/ InsertReplace(k, x) \/ InsertGrow(k, x) \/ InsertSplit(k, x)
    PROVE  \/ InsertSplit(k, x) /\ CountRebuild
           \/ UNCHANGED rebuilds /\ TreesKeptBut(k)
<1>1. CASE InsertFirst(k, x)
    <2>1. XLeaves = {}
        BY <1>1, InsertionApart DEF InsertFirst, Trees
    <2>2. /\ XLeaves' = {k} /\ value'[k] = {k}
          /\ UNCHANGED rebuilds
        BY <1>1, <2>1 DEF InsertFirst, Rehang, XLeaves
    <2> QED BY <2>1, <2>2 DEF TreesKeptBut
<1>2. CASE InsertReplace(k, x)
    BY <1>2 DEF InsertReplace, vars, TreesKeptBut, XLeaves
<1>3. CASE InsertGrow(k, x)
    <2>1. x \in XLeaves
        BY <1>3, InsertionApart DEF InsertGrow, Trees
    <2>2. /\ XLeaves' = XLeaves /\ value'[x] = value[x] \cup {k}
          /\ \A s \in XLeaves \ {x} : value'[s] = value[s]
          /\ UNCHANGED rebuilds
        BY <1>3, <2>1 DEF InsertGrow, XLeaves
    <2> QED BY <2>1, <2>2 DEF TreesKeptBut
<1>4. CASE InsertSplit(k, x)
    BY <1>4 DEF InsertSplit
<1> QED BY <1>1, <1>2, <1>3, <1>4

(* A removal from x counts, or leaves every other tree where it is, and    *)
(* x's at x or, where x has left the range of its tree t, at another key.  *)
TreeRehung(x, t) ==
    /\ \A s \in XLeaves \ {x} : s \in XLeaves' /\ value'[s] = value[s]
    /\ \E r \in XLeaves' :
        /\ value'[r] = t
        /\ XLeaves' = (XLeaves \ {x}) \cup {r}
        /\ ~OutOfRange(x, t) \/ Cardinality(t) < TREE_MERGE_THRESHOLD => r = x

LEMMA RemoveKeepsTrees ==
    ASSUME Trees, NEW x \in XLeaves, NEW k \in value[x],
           NEW t, t = value[x] \ {k},
           RemoveMerge(x, t) \/ RemoveLast(x, t) \/ RemoveReinsert(x, t)
               \/ RemoveKeep(x, t)
    PROVE  \/ CountRebuild
           \/ UNCHANGED rebuilds /\ TreeRehung(x, t)
<1>1. CASE RemoveMerge(x, t) \/ RemoveLast(x, t)
    BY <1>1 DEF RemoveMerge, RemoveLast
<1>2. CASE RemoveReinsert(x, t)
    <2>1. PICK r \in AvlRoots(t) : Rehang({x}, [y \in {r} |-> t])
        BY <1>2 DEF RemoveReinsert, HangTree
    <2>2. r \in value[x]
        BY <2>1 DEF AvlRoots
    <2>3. ASSUME NEW s \in XLeaves \ {x} PROVE s # r
        <3>1. s < x \/ x < s
            BY OthersApart DEF Trees
        <3>2. /\ s < x => s < r
              /\ x < s => r < s
            BY <2>2, OthersApart DEF Trees
        <3>3. s \in Nat /\ r \in Nat
            BY <2>2, Finite DEF Trees, Shape
        <3> QED BY <3>1, <3>2, <3>3
    <2>4. /\ XLeaves' = (XLeaves \ {x}) \cup {r}
          /\ value'[r] = t
          /\ \A s \in XLeaves \ {x} : value'[s] = value[s]
        BY <2>1, <2>3 DEF Rehang, XLeaves
    <2>5. /\ UNCHANGED rebuilds /\ OutOfRange(x, t)
          /\ ~(Cardinality(t) < TREE_MERGE_THRESHOLD)
        <3>1. t \in SUBSET Key
            BY DEF Trees, Shape, Typed
        <3> QED BY <1>2, <3>1, Sizes, ThresholdAssumption DEF RemoveReinsert
    <2>6. r \in XLeaves'
        BY <2>4
    <2> QED BY <2>4, <2>5, <2>6 DEF TreeRehung
<1>3. CASE RemoveKeep(x, t)
    <2>1. /\ XLeaves' = XLeaves /\ value'[x] = t
          /\ \A s \in XLeaves \ {x} : value'[s] = value[s]
          /\ UNCHANGED rebuilds
        BY <1>3 DEF RemoveKeep, XLeaves
    <2> QED BY <2>1 DEF TreeRehung
<1> QED BY <1>1, <1>2, <1>3

(* Two keys can only be in one tree or in two.                             *)
Regrouped ==
    \E y, z \in Contents \cap Contents' : Together(y, z) # Together(y, z)'

LEMMA InsertRegroups ==
    ASSUME Trees, NEW k \in Key, Insert(k), ~CountRebuild
    PROVE  ~Regrouped
<1>1. PICK x : /\ x = InsertionLeaf(k)
               /\ \/ InsertFirst(k, x) \/ InsertReplace(k, x)
                  \/ InsertGrow(k, x) \/ InsertSplit(k, x)
    BY DEF Insert
<1>2. TreesKeptBut(k)
    BY <1>1, InsertKeepsTrees
<1>3. CASE InsertReplace(k, x)
    BY <1>3 DEF InsertReplace, vars, Regrouped, Together, XLeaves
<1>4. CASE InsertFirst(k, x) \/ InsertGrow(k, x) \/ InsertSplit(k, x)
    <2>1. k \notin Contents
        BY <1>1, <1>4, Inserted
    <2>2. ASSUME NEW y \in Contents, NEW z \in Contents
          PROVE  Together(y, z) <=> Together(y, z)'
        <3>1. y # k /\ z # k
            BY <2>1
        <3> QED BY <1>2, <3>1 DEF TreesKeptBut, Together
    <2> QED BY <2>2 DEF Regrouped, Together
<1> QED BY <1>1, <1>3, <1>4

LEMMA RemoveRegroups ==
    ASSUME Trees, NEW k \in Key, Remove(k), ~CountRebuild
    PROVE  ~Regrouped
<1>1. PICK hint \in XLeaves \cup {NULL} : RemoveFrom(k, hint)
    BY DEF Remove
<1>2. PICK x : /\ x = RemovalLeaf(k, hint)
               /\ \/ RemoveMerge(x, value[x] \ {k})
                  \/ RemoveLast(x, value[x] \ {k})
                  \/ RemoveReinsert(x, value[x] \ {k})
                  \/ RemoveKeep(x, value[x] \ {k})
    BY <1>1 DEF RemoveFrom
<1>3. k \in Contents /\ Contents' = Contents \ {k}
    BY <1>1, RemoveFromEffect
<1>4. x \in XLeaves /\ k \in value[x]
    BY <1>2, <1>3, RemovalFinds
<1>5. TreeRehung(x, value[x] \ {k})
    BY <1>2, <1>4, RemoveKeepsTrees
<1>6. ASSUME NEW y \in Contents', NEW z \in Contents'
      PROVE  Together(y, z) <=> Together(y, z)'
    <2>1. PICK r \in XLeaves' : /\ value'[r] = value[x] \ {k}
                                /\ XLeaves' = (XLeaves \ {x}) \cup {r}
        BY <1>5 DEF TreeRehung
    <2>2. \A s \in XLeaves \ {x} : s \in XLeaves' /\ value'[s] = value[s]
        BY <1>5 DEF TreeRehung
    <2>3. y # k /\ z # k
        BY <1>3
    <2>4. ASSUME Together(y, z) PROVE Together(y, z)'
        <3>1. PICK s \in XLeaves : y \in value[s] /\ z \in value[s]
            BY <2>4 DEF Together
        <3>2. CASE s = x
            BY <2>1, <2>3, <3>1, <3>2 DEF Together
        <3>3. CASE s # x
            BY <2>2, <3>1, <3>3 DEF Together
        <3> QED BY <3>2, <3>3
    <2>5. ASSUME Together(y, z)' PROVE Together(y, z)
        <3>1. PICK s \in XLeaves' : y \in value'[s] /\ z \in value'[s]
            BY <2>5 DEF Together
        <3>2. CASE s = r
            BY <1>4, <2>1, <3>1, <3>2 DEF Together
        <3>3. CASE s # r
            <4>1. s \in XLeaves \ {x}
                BY <2>1, <3>3
            <4> QED BY <2>2, <3>1, <4>1 DEF Together
        <3> QED BY <3>2, <3>3
    <2> QED BY <2>4, <2>5
<1> QED BY <1>6 DEF Regrouped, Together

(* Keys that stay change trees only with the rebuild count: splits, merges *)
(* and re-splits all announce themselves to the iterators.                 *)
THEOREM RegroupingsCounted == Spec => RegroupingCounted
<1>1. ASSUME Invariant, [Next]_vars, Regrouped PROVE rebuilds' # rebuilds
    <2>1. Trees /\ rebuilds \in 0 .. RebuildWrap - 1
        BY <1>1, InvariantParts
    <2>2. CASE \E k \in Key : Insert(k) \/ Remove(k)
        <3>1. CountRebuild
            BY <1>1, <2>1, <2>2, InsertRegroups, RemoveRegroups
        <3> QED BY <2>1, <3>1, CountMoves
    <2>3. CASE Clear
        <3>1. Contents' = {}
            BY <2>3 DEF Clear, Contents, XLeaves
        <3> QED BY <1>1, <3>1 DEF Regrouped
    <2>4. CASE UNCHANGED vars
        BY <1>1, <2>4 DEF Regrouped, Together, XLeaves, vars
    <2> QED BY <1>1, <2>2, <2>3, <2>4 DEF Next
<1>2. Invariant /\ [Next]_vars =>
        [\A x, y \in Contents \cap Contents' :
            Together(x, y) # Together(x, y)' => rebuilds' # rebuilds]_vars
    BY <1>1 DEF Regrouped
<1> QED BY <1>2, InvariantHolds, PTL DEF Spec, RegroupingCounted

-----------------------------------------------------------------------------
(* The trees stay within the split threshold.                              *)

(* What the thresholds have to see to: split leaves no half too large, not *)
(* even of a tree that has just been merged.                               *)
HalvesBounded ==
    \A l, r \in Nat :
        AvlSizes(l, r) /\ l + r + 1 < TREE_SPLIT_THRESHOLD + TREE_MERGE_THRESHOLD =>
            l + 1 <= TREE_SPLIT_THRESHOLD /\ r <= TREE_SPLIT_THRESHOLD

LEMMA HalvesKeptBounded ==
    ASSUME HalvesBounded, TreesBounded, NEW gone, NEW T \in SUBSET Key,
           HangHalves(gone, T),
           Cardinality(T) < TREE_SPLIT_THRESHOLD + TREE_MERGE_THRESHOLD
    PROVE  TreesBounded'
<1>1. PICK m \in AvlRoots(T) :
          LET left == {x \in T : x <= m}
              right == {x \in T : m < x}
          IN  \E l \in AvlRoots(left), r \in AvlRoots(right) :
                  Rehang(gone, [x \in {l, r} |-> IF x = l THEN left ELSE right])
    BY DEF HangHalves
<1> DEFINE left == {x \in T : x <= m}
           right == {x \in T : m < x}
           lower == {x \in T : x < m}
<1>2. PICK l \in AvlRoots(left), r \in AvlRoots(right) :
          Rehang(gone, [x \in {l, r} |-> IF x = l THEN left ELSE right])
    BY <1>1
<1>3. m \in T /\ AvlSizes(Cardinality(lower), Cardinality(right)) /\ T \in SUBSET Nat
    BY KeyAssumption DEF AvlRoots
<1>4. left = lower \cup {m} /\ m \notin lower /\ right = T \ left
    <2>1. \A x \in T : /\ x <= m <=> x < m \/ x = m
                       /\ x <= m <=> ~(m < x)
                       /\ ~(m < m)
        BY <1>3
    <2> QED BY <1>3, <2>1
<1>5. /\ IsFiniteSet(lower) /\ Cardinality(lower) \in Nat
      /\ IsFiniteSet(left) /\ Cardinality(left) \in Nat
      /\ IsFiniteSet(right) /\ Cardinality(right) \in Nat
      /\ IsFiniteSet(T) /\ Cardinality(T) \in Nat
    <2>1. lower \in SUBSET Key /\ left \in SUBSET Key /\ right \in SUBSET Key
        OBVIOUS
    <2> HIDE DEF lower, left, right
    <2> QED BY <2>1, Sizes
<1>6. left \subseteq T
    OBVIOUS
<1> HIDE DEF left, right, lower
<1>7. Cardinality(left) = Cardinality(lower) + 1
    BY <1>4, <1>5, FS_AddElement
<1>8. Cardinality(T) = Cardinality(left) + Cardinality(right)
    <2>1. Cardinality(T \ left) = Cardinality(T) - Cardinality(T \cap left)
        BY <1>5, FS_Difference
    <2>2. T \cap left = left /\ T \ left = right
        BY <1>4, <1>6
    <2>3. Cardinality(right) = Cardinality(T) - Cardinality(left)
        BY <2>1, <2>2
    <2> QED BY <1>5, <2>3
<1>9. /\ Cardinality(left) <= TREE_SPLIT_THRESHOLD
      /\ Cardinality(right) <= TREE_SPLIT_THRESHOLD
    <2>1. Cardinality(lower) + Cardinality(right) + 1
              < TREE_SPLIT_THRESHOLD + TREE_MERGE_THRESHOLD
        BY <1>5, <1>7, <1>8, ThresholdAssumption
    <2> QED BY <1>3, <1>5, <1>7, <2>1 DEF HalvesBounded
<1> DEFINE new == [x \in {l, r} |-> IF x = l THEN left ELSE right]
<1>10. \A x \in DOMAIN new : Cardinality(new[x]) <= TREE_SPLIT_THRESHOLD
    BY <1>9
<1>11. Rehang(gone, new)
    BY <1>2
<1> HIDE DEF new
<1> QED BY <1>10, <1>11 DEF Rehang, TreesBounded, XLeaves

LEMMA TreeKeptBounded ==
    ASSUME TreesBounded, NEW gone, NEW T, HangTree(gone, T),
           Cardinality(T) <= TREE_SPLIT_THRESHOLD
    PROVE  TreesBounded'
<1>1. PICK r : Rehang(gone, [x \in {r} |-> T])
    BY DEF HangTree
<1> QED BY <1>1 DEF Rehang, TreesBounded, XLeaves

LEMMA InsertKeepsBounded ==
    ASSUME HalvesBounded, Trees, TreesBounded, NEW k \in Key, Insert(k)
    PROVE  TreesBounded'
<1>1. PICK x : /\ x = InsertionLeaf(k)
               /\ \/ InsertFirst(k, x) \/ InsertReplace(k, x)
                  \/ InsertGrow(k, x) \/ InsertSplit(k, x)
    BY DEF Insert
<1>2. CASE InsertFirst(k, x)
    <2>1. Cardinality({k}) = 1
        BY FS_Singleton
    <2>2. Cardinality({k}) <= TREE_SPLIT_THRESHOLD
        BY <2>1, ThresholdAssumption
    <2>3. Rehang({}, [y \in {k} |-> {k}])
        BY <1>2 DEF InsertFirst
    <2> QED BY <2>2, <2>3 DEF Rehang, TreesBounded, XLeaves
<1>3. CASE InsertReplace(k, x)
    BY <1>3 DEF InsertReplace, vars, TreesBounded, XLeaves
<1>4. CASE InsertGrow(k, x)
    BY <1>4 DEF InsertGrow, TreesBounded, XLeaves
<1>5. CASE InsertSplit(k, x)
    <2>1. x \in XLeaves
        BY <1>1, <1>5, InsertionApart DEF InsertSplit, Trees
    <2>2. value[x] \in SUBSET Key /\ k \notin value[x]
        BY <1>5, <2>1 DEF InsertSplit, Trees, Shape, Typed
    <2>3. IsFiniteSet(value[x]) /\ Cardinality(value[x]) \in Nat
        BY <2>2, Sizes
    <2>4. Cardinality(value[x] \cup {k}) = Cardinality(value[x]) + 1
        BY <2>2, <2>3, FS_AddElement
    <2>5. Cardinality(value[x] \cup {k}) < TREE_SPLIT_THRESHOLD + TREE_MERGE_THRESHOLD
        BY <2>1, <2>3, <2>4, ThresholdAssumption DEF TreesBounded
    <2>6. value[x] \cup {k} \in SUBSET Key /\ HangHalves({x}, value[x] \cup {k})
        BY <1>5, <2>2 DEF InsertSplit
    <2> QED BY <2>5, <2>6, HalvesKeptBounded
<1> QED BY <1>1, <1>2, <1>3, <1>4, <1>5

LEMMA RemoveKeepsBounded ==
    ASSUME HalvesBounded, Trees, TreesBounded, NEW k \in Key, Remove(k)
    PROVE  TreesBounded'
<1>1. PICK hint \in XLeaves \cup {NULL} : RemoveFrom(k, hint)
    BY DEF Remove
<1>2. PICK x : /\ x = RemovalLeaf(k, hint)
               /\ \/ RemoveMerge(x, value[x] \ {k})
                  \/ RemoveLast(x, value[x] \ {k})
                  \/ RemoveReinsert(x, value[x] \ {k})
                  \/ RemoveKeep(x, value[x] \ {k})
    BY <1>1 DEF RemoveFrom
<1>3. x \in XLeaves
    BY <1>1, <1>2, RemovalFinds DEF RemoveFrom
<1> DEFINE t == value[x] \ {k}
<1>4. value[x] \in SUBSET Key /\ t \in SUBSET value[x] /\ t \in SUBSET Key
    BY <1>3 DEF Trees, Shape, Typed
<1>5. /\ Cardinality(t) <= TREE_SPLIT_THRESHOLD
      /\ IsFiniteSet(t) /\ Cardinality(t) \in Nat
    <2>1. /\ Cardinality(t) <= Cardinality(value[x]) /\ Cardinality(value[x]) \in Nat
          /\ IsFiniteSet(t) /\ Cardinality(t) \in Nat
        BY <1>4, Sizes
    <2> QED BY <1>3, <2>1, ThresholdAssumption DEF TreesBounded
<1> HIDE DEF t
<1>6. CASE RemoveMerge(x, t)
    <2> DEFINE n == PickNeighbor(x, t)
               T == t \cup value[n]
    <2>1. /\ n # NULL /\ Cardinality(t) < TREE_MERGE_THRESHOLD
          /\ IF Cardinality(T) > TREE_SPLIT_THRESHOLD
             THEN HangHalves({x, n}, T) ELSE HangTree({x, n}, T)
        BY <1>6 DEF RemoveMerge
    <2>2. n \in XLeaves
        BY <1>3, <2>1, NeighborNear DEF Trees, Shape
    <2> HIDE DEF n
    <2>3. value[n] \in SUBSET Key
        BY <2>2 DEF Trees, Shape, Typed
    <2>4. IsFiniteSet(value[n]) /\ Cardinality(value[n]) \in Nat
        BY <2>3, Sizes
    <2>5. Cardinality(T) \in Nat /\ Cardinality(T) <= Cardinality(t) + Cardinality(value[n])
        <3>1. Cardinality(T) = Cardinality(t) + Cardinality(value[n])
                                   - Cardinality(t \cap value[n])
            BY <1>5, <2>4, FS_Union
        <3>2. Cardinality(t \cap value[n]) \in Nat
            BY <1>5, FS_Intersection, FS_CardinalityType
        <3>3. Cardinality(T) \in Nat
            BY <1>4, <2>3, Sizes
        <3> QED BY <1>5, <2>4, <3>1, <3>2, <3>3
    <2>6. T \in SUBSET Key
        BY <1>4, <2>3
    <2> HIDE DEF T
    <2>7. Cardinality(T) < TREE_SPLIT_THRESHOLD + TREE_MERGE_THRESHOLD
        BY <1>5, <2>1, <2>2, <2>4, <2>5, ThresholdAssumption DEF TreesBounded
    <2>8. CASE Cardinality(T) > TREE_SPLIT_THRESHOLD
        BY <2>1, <2>6, <2>7, <2>8, HalvesKeptBounded
    <2>9. CASE ~(Cardinality(T) > TREE_SPLIT_THRESHOLD)
        <3>1. Cardinality(T) <= TREE_SPLIT_THRESHOLD
            BY <2>5, <2>9, ThresholdAssumption
        <3> QED BY <2>1, <2>9, <3>1, TreeKeptBounded
    <2> QED BY <2>8, <2>9
<1>7. CASE RemoveLast(x, t)
    BY <1>7 DEF RemoveLast, Rehang, TreesBounded, XLeaves
<1>8. CASE RemoveReinsert(x, t)
    BY <1>5, <1>8, TreeKeptBounded DEF RemoveReinsert
<1>9. CASE RemoveKeep(x, t)
    BY <1>3, <1>5, <1>9 DEF RemoveKeep, TreesBounded, XLeaves
<1> QED BY <1>2, <1>6, <1>7, <1>8, <1>9 DEF t

LEMMA BoundedForever ==
    ASSUME HalvesBounded
    PROVE  Spec => []TreesBounded
<1>1. Init => TreesBounded
    BY DEF Init, TreesBounded, XLeaves
<1>2. ASSUME Invariant, TreesBounded, [Next]_vars PROVE TreesBounded'
    <2>1. Trees
        BY <1>2, InvariantParts
    <2>2. CASE \E k \in Key : Insert(k) \/ Remove(k)
        BY <1>2, <2>1, <2>2, InsertKeepsBounded, RemoveKeepsBounded
    <2>3. CASE Clear
        BY <2>3 DEF Clear, TreesBounded, XLeaves
    <2>4. CASE UNCHANGED vars
        BY <1>2, <2>4 DEF vars, TreesBounded, XLeaves
    <2> QED BY <1>2, <2>2, <2>3, <2>4 DEF Next
<1> QED BY <1>1, <1>2, InvariantHolds, PTL DEF Spec

(* With the thresholds as the code has them, 2 * H and H / 4, no tree ever *)
(* outgrows the split threshold: not for any H up to 223, however inserts, *)
(* merges and re-splits follow one another.                                *)
THEOREM BoundsKept ==
    ASSUME NEW H \in 8 .. 223,
           TREE_SPLIT_THRESHOLD = 2 * H, TREE_MERGE_THRESHOLD = H \div 4
    PROVE  Spec => []TreesBounded
<1>1. HalvesBounded
    BY HalvesFit DEF HalvesBounded
<1> QED BY <1>1, BoundedForever
=============================================================================
