-------------------------- MODULE BinaryTreeProofs ---------------------------
(***************************************************************************)
(* The theory of BinaryTree, for every finite set of nodes: what it is for *)
(* the links of a heap to be a forest of search trees, what the walks find *)
(* in it, and what the updates make of it.                                 *)
(***************************************************************************)
EXTENDS BinaryTree, OperatorProofs

-----------------------------------------------------------------------------
(* Walks that go from node to node until they stop.  Each is a recursive   *)
(* function, defined wherever it goes: if it goes on forever, by an        *)
(* arbitrary value, the same for all the nodes on its way.                 *)

Onward(N, stop, base, next, f) ==
    [n \in N |-> IF n \in stop THEN base[n] ELSE f[next[n]]]

LEMMA WalkDefined ==
    ASSUME NEW N, NEW stop, NEW base, NEW next, \A n \in N \ stop : next[n] \in N
    PROVE  \E f : f = Onward(N, stop, base, next, f)
<1> DEFINE Closed(S) == \A m \in S \ stop : next[m] \in S
           Ends(n) == {e \in N \cap stop :
                          \A S \in SUBSET N : n \in S /\ Closed(S) => e \in S}
           f == [n \in N |-> base[CHOOSE e : e \in Ends(n)]]
<1>1. \A n \in N \cap stop : Ends(n) = {n}
    <2> TAKE n \in N \cap stop
    <2>1. {n} \in SUBSET N /\ Closed({n})
        OBVIOUS
    <2> QED BY <2>1
<1>2. \A n \in N \ stop : Ends(n) = Ends(next[n])
    <2> TAKE n \in N \ stop
    <2>1. ASSUME NEW e \in Ends(n) PROVE e \in Ends(next[n])
        <3>1. SUFFICES ASSUME NEW S \in SUBSET N, next[n] \in S, Closed(S)
                       PROVE  e \in S
            OBVIOUS
        <3>2. S \cup {n} \in SUBSET N /\ Closed(S \cup {n})
            BY <3>1
        <3> QED BY <2>1, <3>2
    <2>2. ASSUME NEW e \in Ends(next[n]) PROVE e \in Ends(n)
        <3>1. SUFFICES ASSUME NEW S \in SUBSET N, n \in S, Closed(S)
                       PROVE  e \in S
            OBVIOUS
        <3>2. next[n] \in S
            BY <3>1
        <3> QED BY <2>2, <3>1, <3>2
    <2> HIDE DEF Ends
    <2> QED BY <2>1, <2>2
<1> HIDE DEF Ends
<1> DEFINE end(n) == CHOOSE e : e \in Ends(n)
<1>3. \A n \in N : f[n] = IF n \in stop THEN base[n] ELSE f[next[n]]
    <2> TAKE n \in N
    <2>0. \A m \in N : f[m] = base[end(m)]
        OBVIOUS
    <2>1. CASE n \in stop
        <3>1. end(n) = n
            BY <1>1, <2>1
        <3> HIDE DEF f, end
        <3> QED BY <2>0, <2>1, <3>1
    <2>2. CASE n \notin stop
        <3>1. next[n] \in N
            BY <2>2
        <3>2. Ends(n) = Ends(next[n])
            BY <1>2, <2>2
        <3>3. end(n) = end(next[n])
            BY <3>2
        <3> HIDE DEF f, end
        <3> QED BY <2>0, <2>2, <3>1, <3>3
    <2> QED BY <2>1, <2>2
<1>4. f = Onward(N, stop, base, next, f)
    <2>1. f = [n \in N |-> f[n]]
        OBVIOUS
    <2> HIDE DEF f
    <2> QED BY <1>3, <2>1 DEF Onward
<1> HIDE DEF f
<1> QED BY <1>4

-----------------------------------------------------------------------------
(* Sides and keys.                                                         *)

LEMMA SidesFact ==
    /\ Sides = {"left", "right"} /\ "left" # "right"
    /\ Other("left") = "right" /\ Other("right") = "left"
    /\ \A s \in Sides : Other(s) \in Sides /\ Other(Other(s)) = s /\ Other(s) # s
    /\ \A s, u \in Sides : u # s => u = Other(s)
BY DEF Sides, Other

LEMMA NodeFact ==
    /\ NULL \notin Node
    /\ \A n \in Node : n \in Pointer /\ n # NULL /\ KeyOf[n] \in Nat /\ KeyOf[n] \in Key
    /\ \A p \in Pointer : p # NULL => p \in Node
    /\ NULL \in Pointer
    /\ IsFiniteSet(Node)
<1>1. \A n \in Node : KeyOf[n] \in Nat /\ n \in Nat
    BY NodeAssumption
<1> QED BY <1>1, NodeAssumption, NullFact DEF Pointer, Key

(* m's key is beyond n's, on that side.                                    *)
Beyond(side, m, n) ==
    IF side = "left" THEN KeyOf[m] < KeyOf[n] ELSE KeyOf[n] < KeyOf[m]

LEMMA BeyondFact ==
    ASSUME NEW s \in Sides, NEW a \in Node, NEW b \in Node, NEW c \in Node
    PROVE  /\ ~Beyond(s, a, a)
           /\ Beyond(s, a, b) <=> Beyond(Other(s), b, a)
           /\ Beyond(s, a, b) => ~Beyond(s, b, a)
           /\ Beyond(s, a, b) /\ Beyond(s, b, c) => Beyond(s, a, c)
           /\ KeyOf[a] = KeyOf[b] \/ Beyond(s, a, b) \/ Beyond(s, b, a)
           /\ KeyOf[a] = KeyOf[b] => ~Beyond(s, a, b)
           /\ KeyOf[a] = KeyOf[b] => (Beyond(s, a, c) <=> Beyond(s, b, c))
           /\ KeyOf[a] = KeyOf[b] => (Beyond(s, c, a) <=> Beyond(s, c, b))
BY NodeFact, SidesFact DEF Beyond

-----------------------------------------------------------------------------
(* Forests.  C has the children of every node on both sides, P the parent, *)
(* D the nodes of its subtree; a node outside the trees is one by itself.  *)

At(D, p) == IF p = NULL THEN {} ELSE D[p]

Links == [Sides -> [Node -> Pointer]]

Forest(C, P, D) ==
    /\ C \in Links
    /\ P \in [Node -> Pointer]
    /\ D \in [Node -> SUBSET Node]
    /\ \A n \in Node :
        D[n] = {n} \cup At(D, C["left"][n]) \cup At(D, C["right"][n])
    /\ \A n \in Node, s \in Sides :
        /\ \A m \in At(D, C[s][n]) : Beyond(s, m, n)
        /\ C[s][n] # NULL => P[C[s][n]] = n
    /\ \A n \in Node :
        P[n] # NULL => \E s \in Sides : C[s][P[n]] = n

LEMMA ForestTyped ==
    ASSUME NEW C, NEW P, NEW D, Forest(C, P, D)
    PROVE  /\ \A n \in Node, s \in Sides : C[s][n] \in Pointer
           /\ \A n \in Node, s \in Sides : C[s][n] # NULL => C[s][n] \in Node
           /\ \A n \in Node : P[n] \in Pointer /\ (P[n] # NULL => P[n] \in Node)
           /\ \A n \in Node : D[n] \subseteq Node
           /\ \A p \in Pointer : At(D, p) \subseteq Node
           /\ At(D, NULL) = {}
           /\ \A n \in Node : At(D, n) = D[n]
BY NodeFact DEF Forest, Links, At

(* A subtree is its root and the subtrees of its children.                 *)
LEMMA SubtreeFact ==
    ASSUME NEW C, NEW P, NEW D, Forest(C, P, D), NEW n \in Node
    PROVE  /\ n \in D[n]
           /\ \A m : m \in D[n] <=>
                  m = n \/ \E s \in Sides : C[s][n] # NULL /\ m \in D[C[s][n]]
           /\ \A s \in Sides : C[s][n] # NULL =>
                  /\ C[s][n] \in Node /\ C[s][n] \in D[n]
                  /\ D[C[s][n]] \subseteq D[n]
                  /\ n \notin D[C[s][n]]
                  /\ C[s][n] # n
                  /\ \A m \in D[C[s][n]] : m # n /\ Beyond(s, m, n)
<1>1. \A p \in Node : p \in D[p] /\ D[p] \subseteq Node
    BY ForestTyped DEF Forest
<1>2. D[n] = {n} \cup At(D, C["left"][n]) \cup At(D, C["right"][n])
    BY DEF Forest
<1>3. \A m : m \in D[n] <=>
          m = n \/ \E s \in Sides : C[s][n] # NULL /\ m \in D[C[s][n]]
    BY <1>2, SidesFact DEF At
<1>4. ASSUME NEW s \in Sides, C[s][n] # NULL
      PROVE  /\ C[s][n] \in Node /\ C[s][n] \in D[n]
             /\ D[C[s][n]] \subseteq D[n]
             /\ n \notin D[C[s][n]]
             /\ C[s][n] # n
             /\ \A m \in D[C[s][n]] : m # n /\ Beyond(s, m, n)
    <2>1. C[s][n] \in Node
        BY <1>4, ForestTyped
    <2>2. D[C[s][n]] \subseteq D[n] /\ C[s][n] \in D[n]
        BY <1>1, <1>3, <1>4, <2>1
    <2>3. \A m \in D[C[s][n]] : Beyond(s, m, n)
        BY <1>4 DEF Forest, At
    <2>4. ~Beyond(s, n, n)
        BY BeyondFact
    <2> QED BY <1>1, <2>1, <2>2, <2>3, <2>4
<1> QED BY <1>1, <1>3, <1>4

(* The subtrees of the two children have no node in common.                *)
LEMMA SidesApart ==
    ASSUME NEW C, NEW P, NEW D, Forest(C, P, D), NEW n \in Node, NEW s \in Sides,
           NEW m, m \in At(D, C[s][n])
    PROVE  m \in Node /\ m \notin At(D, C[Other(s)][n])
<1>1. m \in Node /\ Beyond(s, m, n)
    BY ForestTyped DEF Forest
<1>2. ~Beyond(Other(s), m, n)
    BY <1>1, BeyondFact, SidesFact
<1> QED BY <1>1, <1>2, SidesFact DEF Forest

LEMMA SubtreeFinite ==
    ASSUME NEW C, NEW P, NEW D, Forest(C, P, D), NEW n \in Node
    PROVE  /\ IsFiniteSet(D[n])
           /\ Cardinality(D[n]) \in Nat
<1>1. IsFiniteSet(D[n])
    BY ForestTyped, NodeFact, FS_Subset
<1> QED BY <1>1, FS_CardinalityType

LEMMA SubtreeSmaller ==
    ASSUME NEW C, NEW P, NEW D, Forest(C, P, D), NEW n \in Node, NEW s \in Sides,
           C[s][n] # NULL
    PROVE  Cardinality(D[C[s][n]]) < Cardinality(D[n])
<1>1. /\ D[C[s][n]] \subseteq D[n] /\ D[C[s][n]] # D[n] /\ C[s][n] \in Node
    BY SubtreeFact
<1>2. /\ Cardinality(D[n]) \in Nat /\ Cardinality(D[C[s][n]]) \in Nat
      /\ Cardinality(D[C[s][n]]) <= Cardinality(D[n])
      /\ Cardinality(D[n]) = Cardinality(D[C[s][n]]) => D[C[s][n]] = D[n]
    BY <1>1, SubtreeFinite, FS_Subset
<1> QED BY <1>1, <1>2

LEMMA SizesFinite ==
    ASSUME NEW C, NEW P, NEW D, Forest(C, P, D), NEW N, N \subseteq Node, N # {}
    PROVE  /\ \E n \in N : \A m \in N : Cardinality(D[n]) <= Cardinality(D[m])
           /\ \E n \in N : \A m \in N : Cardinality(D[m]) <= Cardinality(D[n])
<1> DEFINE card == [n \in N |-> Cardinality(D[n])]
           S == {card[n] : n \in N}
<1>1. S \in SUBSET Nat /\ S # {}
    BY SubtreeFinite
<1>2. IsFiniteSet(S)
    <2>1. IsFiniteSet(N)
        BY NodeFact, FS_Subset
    <2>2. card \in Surjection(N, S)
        BY DEF Surjection
    <2> QED BY <2>1, <2>2, FS_Surjection
<1>3. /\ \E i \in S : \A j \in S : i <= j
      /\ \E i \in S : \A j \in S : j <= i
    <2> HIDE DEF S
    <2> QED BY <1>1, <1>2, EndsExist
<1> QED BY <1>3

(* Induction from the leaves up, and from the roots down.                  *)
LEMMA BottomUp ==
    ASSUME NEW C, NEW P, NEW D, Forest(C, P, D), NEW S, S \subseteq Node,
           \A n \in Node : (\A s \in Sides : C[s][n] # NULL => C[s][n] \in S) => n \in S
    PROVE  S = Node
<1>1. SUFFICES ASSUME Node \ S # {} PROVE FALSE
    OBVIOUS
<1>2. PICK n \in Node \ S : \A m \in Node \ S : Cardinality(D[n]) <= Cardinality(D[m])
    BY <1>1, SizesFinite
<1>3. PICK s \in Sides : C[s][n] # NULL /\ C[s][n] \notin S
    BY <1>2
<1>4. C[s][n] \in Node
    BY <1>3, ForestTyped
<1>5. /\ Cardinality(D[C[s][n]]) < Cardinality(D[n])
      /\ Cardinality(D[C[s][n]]) \in Nat /\ Cardinality(D[n]) \in Nat
    BY <1>3, <1>4, SubtreeSmaller, SubtreeFinite
<1> QED BY <1>2, <1>3, <1>4, <1>5

LEMMA TopDown ==
    ASSUME NEW C, NEW P, NEW D, Forest(C, P, D), NEW S, S \subseteq Node,
           \A n \in Node : (P[n] # NULL => P[n] \in S) => n \in S
    PROVE  S = Node
<1>1. SUFFICES ASSUME Node \ S # {} PROVE FALSE
    OBVIOUS
<1>2. PICK n \in Node \ S : \A m \in Node \ S : Cardinality(D[m]) <= Cardinality(D[n])
    BY <1>1, SizesFinite
<1>3. P[n] # NULL /\ P[n] \notin S /\ P[n] \in Node
    BY <1>2, ForestTyped
<1>4. PICK s \in Sides : C[s][P[n]] = n
    BY <1>3 DEF Forest
<1>5. /\ Cardinality(D[n]) < Cardinality(D[P[n]])
      /\ Cardinality(D[n]) \in Nat /\ Cardinality(D[P[n]]) \in Nat
    BY <1>3, <1>4, SubtreeSmaller, SubtreeFinite, NodeFact
<1> QED BY <1>2, <1>3, <1>5

(* The nodes above a node are its parent and those above the parent.       *)
LEMMA Inherits ==
    ASSUME NEW C, NEW P, NEW D, Forest(C, P, D), NEW n \in Node, NEW m \in D[n]
    PROVE  D[m] \subseteq D[n]
<1> DEFINE S == {a \in Node : \A b \in D[a] : D[b] \subseteq D[a]}
<1>1. ASSUME NEW a \in Node, \A s \in Sides : C[s][a] # NULL => C[s][a] \in S
      PROVE  a \in S
    <2>1. SUFFICES ASSUME NEW b \in D[a] PROVE D[b] \subseteq D[a]
        OBVIOUS
    <2>2. CASE b = a
        BY <2>2
    <2>3. ASSUME NEW s \in Sides, C[s][a] # NULL, b \in D[C[s][a]]
          PROVE  D[b] \subseteq D[a]
        <3>1. D[b] \subseteq D[C[s][a]]
            BY <1>1, <2>3
        <3> QED BY <2>3, <3>1, SubtreeFact
    <2> QED BY <2>1, <2>2, <2>3, SubtreeFact
<1>2. S = Node
    <2> HIDE DEF S
    <2>1. S \subseteq Node
        BY DEF S
    <2> QED BY <1>1, <2>1, BottomUp
<1> QED BY <1>2

LEMMA ParentAbove ==
    ASSUME NEW C, NEW P, NEW D, Forest(C, P, D), NEW n \in Node,
           NEW m \in D[n], m # n
    PROVE  P[m] # NULL /\ P[m] \in Node /\ P[m] \in D[n]
<1> DEFINE S == {a \in Node : \A b \in D[a] : b # a => P[b] \in D[a]}
<1>1. ASSUME NEW a \in Node, \A s \in Sides : C[s][a] # NULL => C[s][a] \in S
      PROVE  a \in S
    <2>1. SUFFICES ASSUME NEW b \in D[a], b # a PROVE P[b] \in D[a]
        OBVIOUS
    <2>2. PICK s \in Sides : C[s][a] # NULL /\ b \in D[C[s][a]]
        BY <2>1, SubtreeFact
    <2>3. CASE b = C[s][a]
        BY <2>2, <2>3, SubtreeFact DEF Forest
    <2>4. CASE b # C[s][a]
        <3>1. P[b] \in D[C[s][a]]
            BY <1>1, <2>2, <2>4
        <3> QED BY <2>2, <3>1, SubtreeFact
    <2> QED BY <2>3, <2>4
<1>2. S = Node
    <2> HIDE DEF S
    <2>1. S \subseteq Node
        BY DEF S
    <2> QED BY <1>1, <2>1, BottomUp
<1>3. m \in Node /\ P[m] \in D[n]
    BY <1>2, ForestTyped
<1> QED BY <1>3, NodeFact, ForestTyped

LEMMA ParentFact ==
    ASSUME NEW C, NEW P, NEW D, Forest(C, P, D), NEW n \in Node, P[n] # NULL
    PROVE  /\ P[n] \in Node /\ P[n] # n /\ n \in D[P[n]] /\ P[n] \notin D[n]
           /\ \E s \in Sides : C[s][P[n]] = n
           /\ \A s \in Sides : C[s][P[n]] = n =>
                  C[Other(s)][P[n]] # n /\ n \notin At(D, C[Other(s)][P[n]])
<1>1. P[n] \in Node
    BY ForestTyped
<1>2. PICK s \in Sides : C[s][P[n]] = n
    BY DEF Forest
<1>3. /\ P[n] # n /\ n \in D[P[n]] /\ P[n] \notin D[n]
    BY <1>1, <1>2, SubtreeFact, NodeFact
<1>4. ASSUME NEW u \in Sides, C[u][P[n]] = n
      PROVE  C[Other(u)][P[n]] # n /\ n \notin At(D, C[Other(u)][P[n]])
    <2>1. n \in At(D, C[u][P[n]])
        BY <1>4, SubtreeFact, ForestTyped
    <2>2. n \notin At(D, C[Other(u)][P[n]])
        BY <1>1, <2>1, SidesApart
    <2> QED BY <2>1, <2>2, <1>4
<1> QED BY <1>1, <1>2, <1>3, <1>4

LEMMA Upright ==
    ASSUME NEW C, NEW P, NEW D, Forest(C, P, D), NEW n \in Node,
           NEW m \in Node, m \in D[n], n \in D[m]
    PROVE  m = n
<1>1. SUFFICES ASSUME m # n PROVE FALSE
    OBVIOUS
<1>2. PICK s \in Sides : C[s][n] # NULL /\ m \in D[C[s][n]]
    BY <1>1, SubtreeFact
<1>3. n \in D[C[s][n]]
    BY <1>2, SubtreeFact, Inherits
<1> QED BY <1>2, <1>3, SubtreeFact

(* What is above n, other than n, is above n's parent.                     *)
LEMMA AboveParent ==
    ASSUME NEW C, NEW P, NEW D, Forest(C, P, D), NEW n \in Node, P[n] # NULL,
           NEW m \in Node
    PROVE  n \in D[m] <=> m = n \/ P[n] \in D[m]
BY ParentFact, ParentAbove, Inherits, SubtreeFact

LEMMA AboveRoot ==
    ASSUME NEW C, NEW P, NEW D, Forest(C, P, D), NEW n \in Node, P[n] = NULL,
           NEW m \in Node
    PROVE  n \in D[m] <=> m = n
BY ParentAbove, SubtreeFact

(* Of two nodes above a third, one is above the other.                     *)
LEMMA OneLine ==
    ASSUME NEW C, NEW P, NEW D, Forest(C, P, D), NEW n \in Node,
           NEW a \in Node, NEW b \in Node, n \in D[a], n \in D[b]
    PROVE  a \in D[b] \/ b \in D[a]
<1> DEFINE S == {m \in Node : m \in D[a] /\ m \in D[b] => a \in D[b] \/ b \in D[a]}
<1>1. ASSUME NEW m \in Node, P[m] # NULL => P[m] \in S
      PROVE  m \in S
    <2>1. SUFFICES ASSUME m \in D[a], m \in D[b] PROVE a \in D[b] \/ b \in D[a]
        OBVIOUS
    <2>2. CASE m = a \/ m = b
        BY <2>1, <2>2
    <2>3. CASE m # a /\ m # b
        BY <1>1, <2>1, <2>3, ParentAbove
    <2> QED BY <2>2, <2>3
<1>2. S = Node
    <2> HIDE DEF S
    <2>1. S \subseteq Node
        BY DEF S
    <2> QED BY <1>1, <2>1, TopDown
<1> QED BY <1>2

(* Two nodes of a tree: one is above the other, or they part at a third.   *)
LEMMA TreeParting ==
    ASSUME NEW C, NEW P, NEW D, Forest(C, P, D), NEW r \in Node,
           NEW a \in D[r], NEW b \in D[r], a # b
    PROVE  \/ \E s \in Sides : C[s][a] # NULL /\ b \in D[C[s][a]]
           \/ \E s \in Sides : C[s][b] # NULL /\ a \in D[C[s][b]]
           \/ \E m \in D[r], s \in Sides :
                  /\ C[s][m] # NULL /\ a \in D[C[s][m]]
                  /\ C[Other(s)][m] # NULL /\ b \in D[C[Other(s)][m]]
<1>0. D[r] \subseteq Node /\ a \in Node /\ b \in Node /\ r \in D[r]
    BY ForestTyped, SubtreeFact
<1> DEFINE N == {m \in D[r] : a \in D[m] /\ b \in D[m]}
<1>1. N \subseteq Node /\ N # {}
    BY <1>0
<1>2. PICK m \in N : \A x \in N : Cardinality(D[m]) <= Cardinality(D[x])
    <2> HIDE DEF N
    <2> QED BY <1>1, SizesFinite
<1>3. m \in Node /\ m \in D[r] /\ a \in D[m] /\ b \in D[m]
    BY <1>0, <1>2
<1>4. CASE m = a
    BY <1>3, <1>4, SubtreeFact
<1>5. CASE m = b
    BY <1>3, <1>5, SubtreeFact
<1>6. CASE m # a /\ m # b
    <2>1. PICK s \in Sides : C[s][m] # NULL /\ a \in D[C[s][m]]
        BY <1>3, <1>6, SubtreeFact
    <2>2. PICK u \in Sides : C[u][m] # NULL /\ b \in D[C[u][m]]
        BY <1>3, <1>6, SubtreeFact
    <2>3. CASE u = s
        <3>1. /\ C[s][m] \in Node
              /\ Cardinality(D[C[s][m]]) < Cardinality(D[m])
              /\ Cardinality(D[C[s][m]]) \in Nat /\ Cardinality(D[m]) \in Nat
            BY <1>3, <2>1, SubtreeSmaller, ForestTyped, SubtreeFinite
        <3>2. C[s][m] \in D[r]
            BY <1>3, <2>1, SubtreeFact, Inherits
        <3>3. C[s][m] \in N
            BY <2>1, <2>2, <2>3, <3>2
        <3> HIDE DEF N
        <3> QED BY <1>2, <3>1, <3>3
    <2>4. CASE u = Other(s)
        BY <1>3, <2>1, <2>2, <2>4
    <2> QED BY <2>3, <2>4, SidesFact
<1> QED BY <1>4, <1>5, <1>6

LEMMA TreeKeysDiffer ==
    ASSUME NEW C, NEW P, NEW D, Forest(C, P, D), NEW r \in Node,
           NEW a \in D[r], NEW b \in D[r], KeyOf[a] = KeyOf[b]
    PROVE  a = b
<1>0. D[r] \subseteq Node /\ a \in Node /\ b \in Node
    BY ForestTyped
<1>1. SUFFICES ASSUME a # b PROVE FALSE
    OBVIOUS
<1>2. CASE \E s \in Sides : C[s][a] # NULL /\ b \in D[C[s][a]]
    BY <1>0, <1>2, SubtreeFact, BeyondFact
<1>3. CASE \E s \in Sides : C[s][b] # NULL /\ a \in D[C[s][b]]
    BY <1>0, <1>3, SubtreeFact, BeyondFact
<1>4. CASE \E m \in D[r], s \in Sides :
               /\ C[s][m] # NULL /\ a \in D[C[s][m]]
               /\ C[Other(s)][m] # NULL /\ b \in D[C[Other(s)][m]]
    <2>1. PICK m \in Node, s \in Sides :
               /\ C[s][m] # NULL /\ a \in D[C[s][m]]
               /\ C[Other(s)][m] # NULL /\ b \in D[C[Other(s)][m]]
        BY <1>0, <1>4
    <2>2. Beyond(s, a, m) /\ Beyond(Other(s), b, m)
        BY <2>1, SubtreeFact, SidesFact
    <2> QED BY <1>0, <2>2, BeyondFact
<1> QED BY <1>1, <1>2, <1>3, <1>4, TreeParting

-----------------------------------------------------------------------------
(* The links of a tree record.                                             *)

Kids(t) == [s \in Sides |-> t[s]]

Grove(t, D) == Typed(t) /\ Forest(Kids(t), t.parent, D)

LEMMA TypedFields ==
    ASSUME NEW t, Typed(t)
    PROVE  /\ t.root \in Pointer
           /\ t.left \in [Node -> Pointer] /\ t.right \in [Node -> Pointer]
           /\ t.parent \in [Node -> Pointer]
           /\ t.heavy \in [Node -> Sides \cup {"none"}]
           /\ t.size \in [Node -> Nat]
BY DEF Typed

LEMMA KidsFact ==
    ASSUME NEW t, Typed(t)
    PROVE  /\ Kids(t) \in Links
           /\ Kids(t)["left"] = t.left /\ Kids(t)["right"] = t.right
           /\ \A s \in Sides : Kids(t)[s] = t[s] /\ t[s] \in [Node -> Pointer]
<1>1. "left" \in Sides /\ "right" \in Sides
    BY SidesFact
<1>2. \A s \in Sides : t[s] \in [Node -> Pointer]
    BY TypedFields, SidesFact
<1> QED BY <1>1, <1>2 DEF Kids, Links

-----------------------------------------------------------------------------
(* The subtree of a node, and the way up from it.                          *)

LEMMA NodesAtFact ==
    ASSUME NEW t, NEW D, Grove(t, D)
    PROVE  \A p \in Pointer : NodesAt(t, p) = At(D, p)
<1> DEFINE F(f) == [m \in Pointer |->
               IF m = NULL THEN {} ELSE {m} \cup f[t.left[m]] \cup f[t.right[m]]]
           d == [p \in Pointer |-> At(D, p)]
           g == CHOOSE f : f = F(f)
<1>1. Forest(Kids(t), t.parent, D) /\ Typed(t)
    BY DEF Grove
<1>2. \A n \in Node : /\ t.left[n] \in Pointer /\ t.right[n] \in Pointer
                      /\ n # NULL
                      /\ At(D, n) = {n} \cup At(D, t.left[n]) \cup At(D, t.right[n])
    BY <1>1, KidsFact, TypedFields, NodeFact DEF Forest, At
<1>3. d = F(d)
    <2>1. \A m \in Pointer : F(d)[m] = At(D, m)
        BY <1>2, NodeFact DEF At
    <2> QED BY <2>1
<1> HIDE DEF d
<1>4. g = F(g)
    BY <1>3, Zenon
<1>5. \A p \in Pointer : NodesAt(t, p) = g[p]
    BY Zenon DEF NodesAt
<1> HIDE DEF g
<1>6. /\ g[NULL] = {}
      /\ \A n \in Node : g[n] = {n} \cup g[t.left[n]] \cup g[t.right[n]]
    BY <1>2, <1>4, NodeFact
<1> DEFINE S == {n \in Node : g[n] = At(D, n)}
<1>7. ASSUME NEW n \in Node,
             \A s \in Sides : Kids(t)[s][n] # NULL => Kids(t)[s][n] \in S
      PROVE  n \in S
    <2>1. /\ t.left[n] # NULL => t.left[n] \in S
          /\ t.right[n] # NULL => t.right[n] \in S
        BY <1>1, <1>7, KidsFact, SidesFact
    <2>2. /\ g[t.left[n]] = At(D, t.left[n])
          /\ g[t.right[n]] = At(D, t.right[n])
        BY <1>6, <2>1 DEF At
    <2> QED BY <1>2, <1>6, <2>2
<1>8. S = Node
    <2> HIDE DEF S
    <2>1. S \subseteq Node
        BY DEF S
    <2> QED BY <1>1, <1>7, <2>1, BottomUp
<1> QED BY <1>5, <1>6, <1>8, NodeFact DEF At

(* The way up is told by the parents of the nodes on it: another node, n,  *)
(* may have whatever parent.                                               *)
LEMMA PathFact ==
    ASSUME NEW t, Typed(t), NEW C, NEW P, NEW D, Forest(C, P, D), NEW n,
           n \in Node => D[n] = {n} /\ t.parent[n] # n,
           \A m \in Node \ {n} : t.parent[m] = P[m]
    PROVE  \A p \in Pointer : (n \in Node => p # n) =>
               Path(t, p) = {m \in Node : p \in D[m]}
<1> DEFINE F(f) == [m \in Pointer |->
               IF m = NULL THEN {} ELSE {m} \cup f[t.parent[m]]]
           U(p) == {m \in Node : p \in D[m]}
           d == [p \in Pointer |-> IF p = n /\ n \in Node
                                   THEN {n} \cup U(t.parent[n]) ELSE U(p)]
           g == CHOOSE f : f = F(f)
<1>1. U(NULL) = {}
    BY ForestTyped, NodeFact
<1>2. \A m \in Node \ {n} : U(m) = {m} \cup U(P[m])
    <2> TAKE m \in Node \ {n}
    <2>1. CASE P[m] = NULL
        BY <1>1, <2>1, AboveRoot
    <2>2. CASE P[m] # NULL
        BY <2>2, AboveParent
    <2> QED BY <2>1, <2>2
<1>3. \A m \in Node : /\ t.parent[m] \in Pointer /\ m # NULL /\ m \in Pointer
                      /\ P[m] \in Pointer
    BY TypedFields, NodeFact, ForestTyped
<1>4. \A m \in Node \ {n} : n \in Node => P[m] # n
    <2> TAKE m \in Node \ {n}
    <2>1. SUFFICES ASSUME n \in Node, P[m] = n PROVE FALSE
        OBVIOUS
    <2>2. m \in D[P[m]]
        BY <2>1, ParentFact, NodeFact
    <2> QED BY <2>1, <2>2
<1> HIDE DEF U
<1>5. d = F(d)
    <2>1. ASSUME NEW m \in Pointer PROVE F(d)[m] = d[m]
        <3>1. CASE m = NULL
            <4>1. d[m] = {}
                BY <1>1, <3>1, NodeFact
            <4> QED BY <3>1, <4>1
        <3>2. CASE m # NULL /\ m = n
            <4>1. n \in Node /\ d[t.parent[n]] = U(t.parent[n]) /\ d[n] = {n} \cup U(t.parent[n])
                BY <1>3, <3>2, NodeFact
            <4> HIDE DEF d
            <4> QED BY <3>2, <4>1
        <3>3. CASE m # NULL /\ m # n
            <4>1. m \in Node /\ t.parent[m] = P[m] /\ (n \in Node => P[m] # n)
                BY <1>4, <3>3, NodeFact
            <4>2. d[m] = U(m) /\ d[P[m]] = U(P[m])
                BY <1>3, <3>3, <4>1
            <4>3. U(m) = {m} \cup U(P[m])
                BY <1>2, <3>3, <4>1
            <4> HIDE DEF d
            <4> QED BY <3>3, <4>1, <4>2, <4>3
        <3> QED BY <3>1, <3>2, <3>3
    <2>2. d = [m \in Pointer |-> d[m]]
        OBVIOUS
    <2> HIDE DEF d
    <2> QED BY <2>1, <2>2
<1> HIDE DEF d
<1>6. g = F(g)
    BY <1>5, Zenon
<1>7. \A p \in Pointer : Path(t, p) = g[p]
    BY Zenon DEF Path
<1> HIDE DEF g
<1>8. g[NULL] = {} /\ \A m \in Node : g[m] = {m} \cup g[t.parent[m]]
    BY <1>3, <1>6, NodeFact
<1> DEFINE S == {m \in Node : m # n => g[m] = U(m)}
<1>9. ASSUME NEW m \in Node, P[m] # NULL => P[m] \in S
      PROVE  m \in S
    <2>1. SUFFICES ASSUME m # n PROVE g[m] = U(m)
        OBVIOUS
    <2>2. g[P[m]] = U(P[m])
        BY <1>1, <1>3, <1>4, <1>8, <1>9, <2>1, NodeFact
    <2> QED BY <1>2, <1>8, <2>1, <2>2
<1>10. S = Node
    <2> HIDE DEF S
    <2>1. S \subseteq Node
        BY DEF S
    <2> QED BY <1>9, <2>1, TopDown
<1>11. \A p \in Pointer : (n \in Node => p # n) => Path(t, p) = U(p)
    BY <1>1, <1>7, <1>8, <1>10, NodeFact
<1> QED BY <1>11, Zenon DEF U

-----------------------------------------------------------------------------
(* The walks.                                                              *)

LEMMA OutermostStep ==
    ASSUME NEW t, Typed(t), NEW s \in Sides, NEW n \in Node
    PROVE  /\ t[s][n] = NULL => Outermost(t, n, s) = n
           /\ t[s][n] # NULL => Outermost(t, n, s) = Outermost(t, t[s][n], s)
<1> DEFINE F(f) == [m \in Node |-> IF t[s][m] = NULL THEN m ELSE f[t[s][m]]]
           stop == {m \in Node : t[s][m] = NULL}
           base == [m \in Node |-> m]
           g == CHOOSE f : f = F(f)
<1>1. \A m \in Node : t[s][m] \in Pointer /\ (t[s][m] # NULL => t[s][m] \in Node)
    BY KidsFact, NodeFact
<1>2. PICK f : f = Onward(Node, stop, base, t[s], f)
    <2>1. \A m \in Node \ stop : t[s][m] \in Node
        BY <1>1
    <2> HIDE DEF stop, base
    <2> QED BY <2>1, WalkDefined, Zenon
<1>3. F(f) = Onward(Node, stop, base, t[s], f)
    BY DEF Onward
<1>4. f = F(f)
    BY <1>2, <1>3
<1>5. g = F(g)
    BY <1>4, Zenon
<1>6. \A m : Outermost(t, m, s) = g[m]
    BY Zenon DEF Outermost
<1> HIDE DEF g
<1>7. g[n] = IF t[s][n] = NULL THEN n ELSE g[t[s][n]]
    BY <1>5
<1> QED BY <1>6, <1>7

LEMMA TurnStep ==
    ASSUME NEW t, Typed(t), NEW s \in Sides, NEW n \in Node, NEW p, p = t.parent[n]
    PROVE  /\ p = NULL => Turn(t, n, s) = NULL
           /\ p # NULL /\ t[s][p] = n => Turn(t, n, s) = p
           /\ p # NULL /\ t[s][p] # n => Turn(t, n, s) = Turn(t, p, s)
<1> DEFINE F(f) == [m \in Node |->
                IF t.parent[m] = NULL THEN NULL
                ELSE IF m = t[s][t.parent[m]] THEN t.parent[m] ELSE f[t.parent[m]]]
           stop == {m \in Node : t.parent[m] = NULL \/ m = t[s][t.parent[m]]}
           g == CHOOSE f : f = F(f)
<1>1. \A m \in Node : t.parent[m] \in Pointer /\ (t.parent[m] # NULL => t.parent[m] \in Node)
    BY TypedFields, NodeFact
<1>2. PICK f : f = Onward(Node, stop, t.parent, t.parent, f)
    <2>1. \A m \in Node \ stop : t.parent[m] \in Node
        BY <1>1
    <2> HIDE DEF stop
    <2> QED BY <2>1, WalkDefined, Zenon
<1>3. F(f) = Onward(Node, stop, t.parent, t.parent, f)
    BY DEF Onward
<1>4. f = F(f)
    BY <1>2, <1>3
<1>5. g = F(g)
    BY <1>4, Zenon
<1>6. \A m : Turn(t, m, s) = g[m]
    BY Zenon DEF Turn
<1> HIDE DEF g
<1>7. g[n] = IF t.parent[n] = NULL THEN NULL
             ELSE IF n = t[s][t.parent[n]] THEN t.parent[n] ELSE g[t.parent[n]]
    BY <1>5
<1> QED BY <1>6, <1>7

(* The walk to k's place, from the node n on.                              *)
Toward(k, n) == IF k < KeyOf[n] THEN "left" ELSE "right"

Arrived(t, k, n) ==
    [probe |-> t[Toward(k, n)][n], parent |-> n, side |-> Toward(k, n)]

LEMMA TowardFact ==
    ASSUME NEW k, NEW n
    PROVE  Toward(k, n) \in Sides
BY SidesFact DEF Toward

LEMMA PlaceStep ==
    ASSUME NEW t, Typed(t), NEW k
    PROVE  \E w :
        /\ \A n \in Node : LET c == t[Toward(k, n)][n] IN
            /\ c = NULL \/ KeyOf[c] = k => w[n] = Arrived(t, k, n)
            /\ c # NULL /\ KeyOf[c] # k => w[n] = w[c]
        /\ t.root # NULL /\ KeyOf[t.root] # k => Place(t, k) = w[t.root]
        /\ t.root = NULL \/ KeyOf[t.root] = k =>
               Place(t, k) = [probe |-> t.root, parent |-> NULL, side |-> "left"]
<1> DEFINE kid(n) == t[Toward(k, n)][n]
           F(f) == [n \in Node |-> IF kid(n) = NULL \/ KeyOf[kid(n)] = k
                                   THEN Arrived(t, k, n) ELSE f[kid(n)]]
           stop == {n \in Node : kid(n) = NULL \/ KeyOf[kid(n)] = k}
           base == [n \in Node |-> Arrived(t, k, n)]
           next == [n \in Node |-> kid(n)]
           g == CHOOSE f : f = F(f)
<1>1. \A n \in Node : kid(n) \in Pointer /\ (kid(n) # NULL => kid(n) \in Node)
    BY KidsFact, NodeFact, TowardFact
<1>2. PICK f : f = Onward(Node, stop, base, next, f)
    <2>1. \A m \in Node \ stop : next[m] \in Node
        BY <1>1
    <2> HIDE DEF stop, base, next
    <2> QED BY <2>1, WalkDefined, Zenon
<1>3. F(f) = Onward(Node, stop, base, next, f)
    <2> HIDE DEF kid
    <2> QED BY DEF Onward
<1>4. f = F(f)
    BY <1>2, <1>3
<1>5. g = F(g)
    BY <1>4, Zenon
<1>6. Place(t, k) = IF t.root = NULL \/ KeyOf[t.root] = k
          THEN [probe |-> t.root, parent |-> NULL, side |-> "left"]
          ELSE g[t.root]
    BY Zenon DEF Place, Arrived, Toward
<1> HIDE DEF g
<1>7. \A n \in Node : g[n] = IF kid(n) = NULL \/ KeyOf[kid(n)] = k
                             THEN Arrived(t, k, n) ELSE g[kid(n)]
    <2> HIDE DEF kid
    <2> QED BY <1>5
<1>8. \A n \in Node : /\ kid(n) = NULL \/ KeyOf[kid(n)] = k => g[n] = Arrived(t, k, n)
                      /\ kid(n) # NULL /\ KeyOf[kid(n)] # k => g[n] = g[kid(n)]
    <2> HIDE DEF kid
    <2> QED BY <1>7
<1> QED BY <1>6, <1>8

-----------------------------------------------------------------------------
(* Where the walks end.                                                    *)

LEMMA EndFact ==
    ASSUME NEW t, NEW D, Grove(t, D), NEW s \in Sides, NEW n \in Node,
           NEW e, e = Outermost(t, n, s)
    PROVE  /\ e \in Node /\ e \in D[n] /\ t[s][e] = NULL
           /\ \A m \in D[n] : m = e \/ Beyond(s, e, m)
           /\ e # n => /\ t.parent[e] \in Node /\ t.parent[e] \in D[n]
                       /\ t[s][t.parent[e]] = e
<1>1. Typed(t) /\ Forest(Kids(t), t.parent, D)
    BY DEF Grove
<1> DEFINE E(m) == Outermost(t, m, s)
           S == {m \in Node : /\ E(m) \in D[m] /\ t[s][E(m)] = NULL
                              /\ \A x \in D[m] : x = E(m) \/ Beyond(s, E(m), x)}
<1>2. ASSUME NEW m \in Node,
             \A u \in Sides : Kids(t)[u][m] # NULL => Kids(t)[u][m] \in S
      PROVE  m \in S
    <2>0. /\ m \in D[m] /\ D[m] \subseteq Node
          /\ \A x : x \in D[m] <=>
                 x = m \/ \E u \in Sides : t[u][m] # NULL /\ x \in D[t[u][m]]
          /\ \A u \in Sides : t[u][m] # NULL =>
                 D[t[u][m]] \subseteq D[m] /\ \A x \in D[t[u][m]] : Beyond(u, x, m)
        BY <1>1, SubtreeFact, KidsFact, ForestTyped
    <2>1. CASE t[s][m] = NULL
        <3>1. E(m) = m
            BY <1>1, <2>1, OutermostStep
        <3>2. \A x \in D[m] : x = m \/ Beyond(s, m, x)
            BY <2>0, <2>1, SidesFact, BeyondFact
        <3> HIDE DEF E
        <3> QED BY <2>0, <2>1, <3>1, <3>2
    <2>2. CASE t[s][m] # NULL
        <3>1. E(m) = E(t[s][m])
            BY <1>1, <2>2, OutermostStep
        <3>2. t[s][m] \in S
            BY <1>1, <1>2, <2>2, KidsFact
        <3> HIDE DEF E
        <3>3. /\ E(m) \in D[t[s][m]] /\ E(m) \in Node /\ E(m) \in D[m]
              /\ t[s][E(m)] = NULL
            BY <2>0, <2>2, <3>1, <3>2
        <3>4. ASSUME NEW x \in D[m] PROVE x = E(m) \/ Beyond(s, E(m), x)
            <4>1. x \in Node /\ Beyond(s, E(m), m)
                BY <2>0, <2>2, <3>3
            <4>2. CASE x = m
                BY <4>1, <4>2
            <4>3. CASE x \in D[t[s][m]]
                BY <3>1, <3>2, <4>3
            <4>4. CASE t[Other(s)][m] # NULL /\ x \in D[t[Other(s)][m]]
                <5>1. Beyond(Other(s), x, m)
                    BY <2>0, <4>4, SidesFact
                <5> QED BY <3>3, <4>1, <5>1, BeyondFact
            <4> QED BY <2>0, <4>2, <4>3, <4>4, SidesFact
        <3> QED BY <3>3, <3>4
    <2> QED BY <2>1, <2>2
<1>3. S = Node
    <2> HIDE DEF S
    <2>1. S \subseteq Node
        BY DEF S
    <2> QED BY <1>1, <1>2, <2>1, BottomUp
<1>4. /\ e \in Node /\ e \in D[n] /\ t[s][e] = NULL
      /\ \A m \in D[n] : m = e \/ Beyond(s, e, m)
    BY <1>1, <1>3, ForestTyped
<1>5. ASSUME e # n
      PROVE  t.parent[e] \in Node /\ t.parent[e] \in D[n] /\ t[s][t.parent[e]] = e
    <2>1. t.parent[e] # NULL /\ t.parent[e] \in Node /\ t.parent[e] \in D[n]
        BY <1>1, <1>4, <1>5, ParentAbove
    <2>2. PICK u \in Sides : t[u][t.parent[e]] = e
        BY <1>1, <1>4, <2>1, KidsFact, ParentFact
    <2>3. Beyond(u, e, t.parent[e]) /\ e # t.parent[e]
        BY <1>1, <1>4, <2>1, <2>2, KidsFact, SubtreeFact, NodeFact
    <2>4. Beyond(s, e, t.parent[e])
        BY <1>4, <2>1, <2>3
    <2>5. u = s
        BY <1>4, <2>1, <2>3, <2>4, BeyondFact, SidesFact
    <2> QED BY <2>1, <2>2, <2>5
<1> QED BY <1>4, <1>5

(* The turn of n is the lowest node that has n below it on that side.      *)
LEMMA TurnFact ==
    ASSUME NEW t, NEW D, Grove(t, D), NEW s \in Sides, NEW n \in Node,
           NEW x, x = Turn(t, n, s)
    PROVE  \/ x = NULL /\ \A m \in Node : n \notin At(D, t[s][m])
           \/ /\ x \in Node /\ n \in At(D, t[s][x])
              /\ \A m \in Node : n \in At(D, t[s][m]) => x \in D[m]
<1>1. Typed(t) /\ Forest(Kids(t), t.parent, D)
    BY DEF Grove
<1> DEFINE E(m) == Turn(t, m, s)
           Turns(m, y) ==
               \/ y = NULL /\ \A a \in Node : m \notin At(D, t[s][a])
               \/ /\ y \in Node /\ m \in At(D, t[s][y])
                  /\ \A a \in Node : m \in At(D, t[s][a]) => y \in D[a]
           S == {m \in Node : Turns(m, E(m))}
           p(m) == t.parent[m]
<1>2. ASSUME NEW m \in Node, p(m) # NULL => p(m) \in S
      PROVE  m \in S
    <2>0. /\ \A a \in Node : t[s][a] # NULL =>
                 t[s][a] \in Node /\ p(t[s][a]) = a /\ t[s][a] \in D[t[s][a]]
                 /\ D[t[s][a]] \subseteq D[a]
        BY <1>1, KidsFact, SubtreeFact DEF Forest
    <2>1. CASE p(m) = NULL
        <3>1. E(m) = NULL
            BY <1>1, <2>1, TurnStep
        <3>2. \A a \in Node : m \notin At(D, t[s][a])
            BY <1>1, <2>0, <2>1, AboveRoot, NodeFact DEF At
        <3> HIDE DEF E
        <3> QED BY <3>1, <3>2
    <2>2. CASE p(m) # NULL /\ t[s][p(m)] = m
        <3>1. E(m) = p(m) /\ p(m) \in Node
            BY <1>1, <1>2, <2>2, TurnStep
        <3>2. m \in At(D, t[s][p(m)])
            BY <2>0, <2>2, <3>1, NodeFact DEF At
        <3>3. \A a \in Node : m \in At(D, t[s][a]) => p(m) \in D[a]
            BY <1>1, <2>0, <2>2, <3>1, AboveParent, SubtreeFact DEF At
        <3> HIDE DEF E
        <3> QED BY <3>1, <3>2, <3>3
    <2>3. CASE p(m) # NULL /\ t[s][p(m)] # m
        <3>1. E(m) = E(p(m)) /\ p(m) \in Node /\ p(m) \in S
            BY <1>1, <1>2, <2>3, TurnStep
        <3> HIDE DEF E
        <3>2. \A a \in Node : m \in At(D, t[s][a]) <=> p(m) \in At(D, t[s][a])
            <4> TAKE a \in Node
            <4>1. CASE t[s][a] = NULL
                BY <4>1 DEF At
            <4>2. CASE t[s][a] # NULL
                <5>1. t[s][a] # m
                    BY <2>0, <2>3, <4>2
                <5>2. m \in D[t[s][a]] <=> p(m) \in D[t[s][a]]
                    BY <1>1, <2>0, <2>3, <4>2, <5>1, AboveParent
                <5> QED BY <4>2, <5>2 DEF At
            <4> QED BY <4>1, <4>2
        <3> HIDE DEF p
        <3>3. Turns(p(m), E(m))
            BY <3>1
        <3> QED BY <3>2, <3>3
    <2> QED BY <2>1, <2>2, <2>3
<1>3. S = Node
    <2> HIDE DEF S
    <2>1. S \subseteq Node
        BY DEF S
    <2> QED BY <1>1, <1>2, <2>1, TopDown
<1>4. Turns(n, E(n))
    BY <1>3
<1> QED BY <1>4

(* The neighbour of n on a side, among the nodes of its tree.              *)
LEMMA NeighbourFact ==
    ASSUME NEW t, NEW D, Grove(t, D), NEW s \in Sides,
           NEW r \in Node, t.parent[r] = NULL, NEW n \in D[r],
           NEW x, x = Neighbour(t, n, s)
    PROVE  \/ x = NULL /\ \A y \in D[r] : ~Beyond(s, y, n)
           \/ /\ x \in Node /\ x \in D[r] /\ Beyond(s, x, n)
              /\ \A y \in D[r] : Beyond(s, y, n) => y = x \/ Beyond(s, y, x)
<1>1. Typed(t) /\ Forest(Kids(t), t.parent, D)
    BY DEF Grove
<1>2. /\ D[r] \subseteq Node /\ n \in Node /\ Other(s) \in Sides
      /\ \A a \in Node, u \in Sides : t[u][a] # NULL =>
             /\ t[u][a] \in Node /\ D[t[u][a]] \subseteq D[a]
             /\ \A y \in D[t[u][a]] : y \in Node /\ Beyond(u, y, a)
    BY <1>1, KidsFact, SubtreeFact, ForestTyped, SidesFact
<1>3. \A a \in D[r] : D[a] \subseteq D[r]
    BY <1>1, Inherits
<1>4. CASE t[s][n] # NULL
    <2>1. x = Outermost(t, t[s][n], Other(s))
        BY <1>4 DEF Neighbour
    <2>2. /\ x \in Node /\ x \in D[t[s][n]]
          /\ \A y \in D[t[s][n]] : y = x \/ Beyond(Other(s), x, y)
        BY <1>2, <1>4, <2>1, EndFact
    <2>3. x \in D[n] /\ x \in D[r] /\ Beyond(s, x, n)
        BY <1>2, <1>3, <1>4, <2>2
    <2>4. ASSUME NEW y \in D[r], Beyond(s, y, n)
          PROVE  y = x \/ Beyond(s, y, x)
        <3>1. y \in Node /\ y # n
            BY <1>2, <2>4, BeyondFact
        <3>2. ASSUME NEW u \in Sides, t[u][n] # NULL, y \in D[t[u][n]]
              PROVE  y = x \/ Beyond(s, y, x)
            <4>1. u = s
                BY <1>2, <2>4, <3>1, <3>2, BeyondFact, SidesFact
            <4> QED BY <2>2, <3>1, <3>2, <4>1, BeyondFact
        <3>3. ASSUME NEW u \in Sides, t[u][y] # NULL, n \in D[t[u][y]]
              PROVE  Beyond(s, y, x)
            <4>1. Beyond(u, n, y)
                BY <1>2, <3>1, <3>3
            <4>2. u = Other(s)
                BY <1>2, <2>4, <3>1, <4>1, BeyondFact, SidesFact
            <4>3. x \in D[t[u][y]]
                BY <1>1, <1>2, <2>3, <3>1, <3>3, Inherits
            <4>4. Beyond(Other(s), x, y)
                BY <1>2, <3>1, <3>3, <4>2, <4>3
            <4> QED BY <2>2, <3>1, <4>4, BeyondFact
        <3>4. ASSUME NEW m \in Node, NEW u \in Sides,
                     t[u][m] # NULL, n \in D[t[u][m]],
                     t[Other(u)][m] # NULL, y \in D[t[Other(u)][m]]
              PROVE  Beyond(s, y, x)
            <4>1. Beyond(u, n, m) /\ Beyond(Other(u), y, m)
                BY <1>2, <3>4, SidesFact
            <4>2. u = Other(s) /\ Other(u) = s
                BY <1>2, <2>4, <3>1, <4>1, BeyondFact, SidesFact
            <4>3. x \in D[t[u][m]]
                BY <1>1, <1>2, <2>3, <3>4, Inherits
            <4>4. Beyond(Other(s), x, m) /\ Beyond(s, y, m)
                BY <1>2, <3>4, <4>1, <4>2, <4>3
            <4> QED BY <2>2, <3>1, <4>4, BeyondFact
        <3>5. \/ \E u \in Sides : t[u][n] # NULL /\ y \in D[t[u][n]]
              \/ \E u \in Sides : t[u][y] # NULL /\ n \in D[t[u][y]]
              \/ \E m \in D[r], u \in Sides :
                  /\ t[u][m] # NULL /\ n \in D[t[u][m]]
                  /\ t[Other(u)][m] # NULL /\ y \in D[t[Other(u)][m]]
            BY <1>1, <3>1, TreeParting, KidsFact, SidesFact
        <3> QED BY <1>2, <3>2, <3>3, <3>4, <3>5
    <2> QED BY <2>2, <2>3, <2>4
<1>5. CASE t[s][n] = NULL
    <2>1. x = Turn(t, n, Other(s))
        BY <1>5 DEF Neighbour
    <2>2. \/ x = NULL /\ \A m \in Node : n \notin At(D, t[Other(s)][m])
          \/ /\ x \in Node /\ n \in At(D, t[Other(s)][x])
             /\ \A m \in Node : n \in At(D, t[Other(s)][m]) => x \in D[m]
        BY <1>2, <2>1, TurnFact
    (* Any node beyond n is at, or beyond, a node with n below it.         *)
    <2>3. ASSUME NEW y \in D[r], Beyond(s, y, n)
          PROVE  \E m \in D[r] : /\ n \in At(D, t[Other(s)][m])
                                 /\ y = m \/ Beyond(s, y, m)
        <3>1. y \in Node /\ y # n
            BY <1>2, <2>3, BeyondFact
        <3>2. ASSUME NEW u \in Sides, t[u][n] # NULL, y \in D[t[u][n]]
              PROVE  FALSE
            BY <1>2, <1>5, <2>3, <3>1, <3>2, BeyondFact, SidesFact
        <3>3. ASSUME NEW u \in Sides, t[u][y] # NULL, n \in D[t[u][y]]
              PROVE  n \in At(D, t[Other(s)][y])
            <4>1. Beyond(u, n, y)
                BY <1>2, <3>1, <3>3
            <4>2. u = Other(s)
                BY <1>2, <2>3, <3>1, <4>1, BeyondFact, SidesFact
            <4> QED BY <3>3, <4>2 DEF At
        <3>4. ASSUME NEW m \in Node, NEW u \in Sides,
                     t[u][m] # NULL, n \in D[t[u][m]],
                     t[Other(u)][m] # NULL, y \in D[t[Other(u)][m]]
              PROVE  n \in At(D, t[Other(s)][m]) /\ Beyond(s, y, m)
            <4>1. Beyond(u, n, m) /\ Beyond(Other(u), y, m)
                BY <1>2, <3>4, SidesFact
            <4>2. u = Other(s) /\ Other(u) = s
                BY <1>2, <2>3, <3>1, <4>1, BeyondFact, SidesFact
            <4> QED BY <3>4, <4>1, <4>2 DEF At
        <3>5. \/ \E u \in Sides : t[u][n] # NULL /\ y \in D[t[u][n]]
              \/ \E u \in Sides : t[u][y] # NULL /\ n \in D[t[u][y]]
              \/ \E m \in D[r], u \in Sides :
                  /\ t[u][m] # NULL /\ n \in D[t[u][m]]
                  /\ t[Other(u)][m] # NULL /\ y \in D[t[Other(u)][m]]
            BY <1>1, <3>1, TreeParting, KidsFact, SidesFact
        <3> QED BY <1>2, <3>1, <3>2, <3>3, <3>4, <3>5
    <2>4. CASE x = NULL
        BY <1>2, <2>2, <2>3, <2>4, NodeFact
    <2>5. CASE x \in Node
        <3>1. /\ n \in At(D, t[Other(s)][x])
              /\ \A m \in Node : n \in At(D, t[Other(s)][m]) => x \in D[m]
            BY <2>2, <2>5, NodeFact
        <3>2. Beyond(Other(s), n, x) /\ n \in D[x]
            BY <1>2, <2>5, <3>1 DEF At
        <3>3. x \in D[r]
            <4>1. x \in D[r] \/ r \in D[x]
                BY <1>1, <1>2, <2>5, <3>2, OneLine, SubtreeFact
            <4>2. r \in D[x] => x = r
                BY <1>1, <2>5, AboveRoot
            <4> QED BY <1>1, <4>1, <4>2, SubtreeFact
        <3>4. ASSUME NEW y \in D[r], Beyond(s, y, n)
              PROVE  y = x \/ Beyond(s, y, x)
            <4>1. PICK m \in D[r] : n \in At(D, t[Other(s)][m]) /\ (y = m \/ Beyond(s, y, m))
                BY <2>3, <3>4
            <4>2. m \in Node /\ y \in Node /\ x \in D[m]
                BY <1>2, <3>1, <4>1
            <4>3. x = m \/ Beyond(s, m, x)
                <5>1. SUFFICES ASSUME x # m PROVE Beyond(s, m, x)
                    OBVIOUS
                <5>2. PICK u \in Sides : t[u][m] # NULL /\ x \in D[t[u][m]]
                    BY <1>1, <4>2, <5>1, SubtreeFact, KidsFact
                <5>3. n \in D[t[u][m]]
                    BY <1>1, <1>2, <3>2, <4>2, <5>2, Inherits
                <5>4. Beyond(u, n, m) /\ Beyond(u, x, m)
                    BY <1>2, <4>2, <5>2, <5>3
                <5>5. Beyond(Other(s), n, m)
                    BY <1>2, <4>1, <4>2 DEF At
                <5>6. u = Other(s)
                    BY <1>2, <4>2, <5>4, <5>5, BeyondFact, SidesFact
                <5> QED BY <2>5, <4>2, <5>4, <5>6, BeyondFact
            <4> QED BY <2>5, <4>1, <4>2, <4>3, BeyondFact
        <3>5. Beyond(s, x, n)
            BY <1>2, <2>5, <3>2, BeyondFact
        <3> QED BY <2>5, <3>3, <3>4, <3>5
    <2> QED BY <2>2, <2>4, <2>5
<1> QED BY <1>4, <1>5

-----------------------------------------------------------------------------
(* The place of a key: below p, on side s, as far as the nodes above p in  *)
(* r's subtree tell.                                                       *)
KeyBeyond(s, k, n) == IF s = "left" THEN k < KeyOf[n] ELSE KeyOf[n] < k

Placed(C, D, k, r, p, s) ==
    /\ p \in Node /\ p \in D[r] /\ s \in Sides /\ KeyBeyond(s, k, p)
    /\ \A m \in Node, u \in Sides :
           m \in D[r] /\ p \in At(D, C[u][m]) => KeyBeyond(u, k, m)

LEMMA KeyBeyondFact ==
    ASSUME NEW s \in Sides, NEW k \in Nat, NEW a \in Node, NEW b \in Node
    PROVE  /\ KeyBeyond(s, k, a) => KeyOf[a] # k /\ ~KeyBeyond(Other(s), k, a)
           /\ KeyOf[a] = k \/ KeyBeyond(s, k, a) \/ KeyBeyond(Other(s), k, a)
           /\ KeyOf[a] # k => KeyBeyond(Toward(k, a), k, a)
           /\ KeyBeyond(s, k, a) /\ Beyond(s, a, b) => KeyBeyond(s, k, b)
           /\ KeyBeyond(s, k, a) /\ KeyBeyond(Other(s), k, b) => Beyond(s, b, a)
           /\ KeyBeyond(s, KeyOf[a], b) <=> Beyond(s, a, b)
BY NodeFact, SidesFact DEF KeyBeyond, Beyond, Toward

Spot(t, p, s) == [probe |-> t[s][p], parent |-> p, side |-> s]

(* A place found in the subtree of n's child on k's side is one in n's.    *)
LEMMA PlacedBelow ==
    ASSUME NEW C, NEW P, NEW D, Forest(C, P, D), NEW k \in Nat, NEW n \in Node,
           NEW u \in Sides, KeyBeyond(u, k, n), C[u][n] # NULL,
           NEW p, NEW s, Placed(C, D, k, C[u][n], p, s)
    PROVE  Placed(C, D, k, n, p, s)
<1> DEFINE c == C[u][n]
<1>1. c \in Node /\ D[c] \subseteq D[n] /\ D[n] \subseteq Node
    BY SubtreeFact, ForestTyped
<1>2. p \in Node /\ p \in D[c] /\ s \in Sides /\ KeyBeyond(s, k, p) /\ p \in D[n]
    BY <1>1 DEF Placed
<1>3. ASSUME NEW m \in Node, NEW v \in Sides, m \in D[n], p \in At(D, C[v][m])
      PROVE  KeyBeyond(v, k, m)
    <2>1. CASE m = n
        <3>1. v = u
            BY <1>2, <1>3, <2>1, SidesApart, SidesFact DEF At
        <3> QED BY <2>1, <3>1
    <2>2. CASE m \in D[c]
        BY <1>3, <2>2 DEF Placed
    <2>3. CASE C[Other(u)][n] # NULL /\ m \in D[C[Other(u)][n]]
        <3>1. p \in D[m]
            BY <1>3, SubtreeFact DEF At
        <3>2. p \in D[C[Other(u)][n]]
            BY <2>3, <3>1, ForestTyped, SidesFact, Inherits
        <3>3. p \notin At(D, C[Other(u)][n])
            BY <1>2, SidesApart DEF At
        <3> QED BY <2>3, <3>2, <3>3 DEF At
    <2> QED BY <1>3, <2>1, <2>2, <2>3, SubtreeFact, SidesFact
<1> QED BY <1>2, <1>3 DEF Placed

LEMMA PlacedHere ==
    ASSUME NEW C, NEW P, NEW D, Forest(C, P, D), NEW k \in Nat, NEW n \in Node,
           NEW s \in Sides, KeyBeyond(s, k, n)
    PROVE  Placed(C, D, k, n, n, s)
<1>1. ASSUME NEW m \in Node, NEW v \in Sides, m \in D[n], n \in At(D, C[v][m])
      PROVE  FALSE
    <2>1. n \in D[m]
        BY <1>1, SubtreeFact DEF At
    <2>2. m = n
        BY <1>1, <2>1, Upright
    <2> QED BY <1>1, <2>2, SubtreeFact DEF At
<1> QED BY <1>1, SubtreeFact DEF Placed

LEMMA PlaceFact ==
    ASSUME NEW t, NEW D, Grove(t, D), NEW k \in Nat
    PROVE  /\ t.root = NULL \/ KeyOf[t.root] = k =>
                  Place(t, k) = [probe |-> t.root, parent |-> NULL, side |-> "left"]
           /\ t.root # NULL /\ KeyOf[t.root] # k =>
                  \E p \in Node, s \in Sides :
                      /\ Place(t, k) = Spot(t, p, s)
                      /\ Placed(Kids(t), D, k, t.root, p, s)
                      /\ t[s][p] # NULL => KeyOf[t[s][p]] = k
<1>1. Typed(t) /\ Forest(Kids(t), t.parent, D)
    BY DEF Grove
<1>2. PICK w :
        /\ \A n \in Node : LET c == t[Toward(k, n)][n] IN
            /\ c = NULL \/ KeyOf[c] = k => w[n] = Arrived(t, k, n)
            /\ c # NULL /\ KeyOf[c] # k => w[n] = w[c]
        /\ t.root # NULL /\ KeyOf[t.root] # k => Place(t, k) = w[t.root]
        /\ t.root = NULL \/ KeyOf[t.root] = k =>
               Place(t, k) = [probe |-> t.root, parent |-> NULL, side |-> "left"]
    BY <1>1, PlaceStep
<1> DEFINE Found(n) ==
               \E p \in Node, s \in Sides :
                   /\ w[n] = Spot(t, p, s)
                   /\ Placed(Kids(t), D, k, n, p, s)
                   /\ t[s][p] # NULL => KeyOf[t[s][p]] = k
           S == {n \in Node : KeyOf[n] # k => Found(n)}
<1>3. ASSUME NEW n \in Node,
             \A u \in Sides : Kids(t)[u][n] # NULL => Kids(t)[u][n] \in S
      PROVE  n \in S
    <2>1. SUFFICES ASSUME KeyOf[n] # k PROVE Found(n)
        OBVIOUS
    <2> DEFINE u == Toward(k, n)
               c == t[u][n]
    <2>2. /\ u \in Sides /\ KeyBeyond(u, k, n) /\ c = Kids(t)[u][n]
        BY <1>1, <2>1, TowardFact, KeyBeyondFact, KidsFact
    <2>3. CASE c = NULL \/ KeyOf[c] = k
        <3>1. w[n] = Spot(t, n, u)
            BY <1>2, <2>3 DEF Spot, Arrived
        <3>2. Placed(Kids(t), D, k, n, n, u)
            BY <1>1, <2>2, PlacedHere
        <3> HIDE DEF u
        <3> QED BY <2>2, <2>3, <3>1, <3>2
    <2>4. CASE c # NULL /\ KeyOf[c] # k
        <3>1. w[n] = w[c]
            BY <1>2, <2>4
        <3>2. c \in S
            BY <1>3, <2>2, <2>4
        <3>3. Found(c)
            BY <2>4, <3>2
        <3>4. PICK p \in Node, s \in Sides :
                   /\ w[c] = Spot(t, p, s)
                   /\ Placed(Kids(t), D, k, c, p, s)
                   /\ t[s][p] # NULL => KeyOf[t[s][p]] = k
            BY <3>3
        <3>5. Placed(Kids(t), D, k, n, p, s)
            <4> HIDE DEF u, c
            <4> QED BY <1>1, <2>2, <2>4, <3>4, PlacedBelow
        <3> HIDE DEF u, c
        <3> QED BY <3>1, <3>4, <3>5
    <2> QED BY <2>3, <2>4
<1>4. S = Node
    <2> HIDE DEF S
    <2>1. S \subseteq Node
        BY DEF S
    <2> QED BY <1>1, <1>3, <2>1, BottomUp
<1>5. t.root # NULL => t.root \in Node
    BY <1>1, TypedFields, NodeFact
<1>6. t.root # NULL /\ KeyOf[t.root] # k => Found(t.root) /\ Place(t, k) = w[t.root]
    BY <1>2, <1>4, <1>5
<1> QED BY <1>2, <1>6

(* Where the place is empty, k is not in the tree, and nothing in the tree *)
(* is between k and p.                                                     *)
LEMMA PlacedGap ==
    ASSUME NEW C, NEW P, NEW D, Forest(C, P, D), NEW k \in Nat, NEW r \in Node,
           NEW p, NEW s, Placed(C, D, k, r, p, s), C[s][p] = NULL,
           NEW y \in D[r]
    PROVE  /\ KeyOf[y] # k
           /\ Beyond(s, y, p) <=> KeyBeyond(Other(s), k, y)
<1>1. p \in Node /\ p \in D[r] /\ s \in Sides /\ KeyBeyond(s, k, p) /\ y \in Node
    BY ForestTyped DEF Placed
<1>2. CASE y = p
    BY <1>1, <1>2, KeyBeyondFact, BeyondFact
<1>3. ASSUME NEW u \in Sides, C[u][p] # NULL, y \in D[C[u][p]]
      PROVE  KeyBeyond(s, k, y) /\ Beyond(s, p, y)
    <2>1. u = Other(s) /\ Beyond(Other(s), y, p)
        BY <1>1, <1>3, SidesFact, SubtreeFact
    <2>2. Beyond(s, p, y)
        BY <1>1, <2>1, BeyondFact, SidesFact
    <2> QED BY <1>1, <2>2, KeyBeyondFact
<1>4. ASSUME NEW u \in Sides, C[u][y] # NULL, p \in D[C[u][y]]
      PROVE  KeyBeyond(u, k, y) /\ Beyond(u, p, y)
    BY <1>1, <1>4, SubtreeFact DEF Placed, At
<1>5. ASSUME NEW m \in D[r], NEW u \in Sides,
             C[u][m] # NULL, p \in D[C[u][m]],
             C[Other(u)][m] # NULL, y \in D[C[Other(u)][m]]
      PROVE  KeyBeyond(u, k, y) /\ Beyond(u, p, y)
    <2>1. m \in Node /\ KeyBeyond(u, k, m) /\ Beyond(u, p, m)
        BY <1>1, <1>5, ForestTyped, SubtreeFact DEF Placed, At
    <2>2. Beyond(Other(u), y, m)
        BY <1>5, <2>1, SubtreeFact, SidesFact
    <2>3. Beyond(u, m, y)
        BY <1>1, <2>1, <2>2, BeyondFact, SidesFact
    <2> QED BY <1>1, <2>1, <2>3, BeyondFact, KeyBeyondFact
<1>6. ASSUME NEW u \in Sides, KeyBeyond(u, k, y), Beyond(u, p, y)
      PROVE  KeyOf[y] # k /\ (Beyond(s, y, p) <=> KeyBeyond(Other(s), k, y))
    <2>1. CASE u = s
        BY <1>1, <1>6, <2>1, BeyondFact, KeyBeyondFact
    <2>2. CASE u = Other(s)
        BY <1>1, <1>6, <2>2, BeyondFact, KeyBeyondFact, SidesFact
    <2> QED BY <1>1, <2>1, <2>2, SidesFact
<1>7. CASE y # p
    <2>1. \/ \E u \in Sides : C[u][p] # NULL /\ y \in D[C[u][p]]
          \/ \E u \in Sides : C[u][y] # NULL /\ p \in D[C[u][y]]
          \/ \E m \in D[r], u \in Sides :
              /\ C[u][m] # NULL /\ p \in D[C[u][m]]
              /\ C[Other(u)][m] # NULL /\ y \in D[C[Other(u)][m]]
        BY <1>1, <1>7, TreeParting
    <2> QED BY <1>1, <1>3, <1>4, <1>5, <1>6, <2>1
<1> QED BY <1>2, <1>7

-----------------------------------------------------------------------------
(* The queries, answered as for the set of keys.                           *)

Standing(t, D) == Grove(t, D) /\ (t.root # NULL => t.parent[t.root] = NULL)

LEMMA NodesOfFact ==
    ASSUME NEW t, NEW D, Grove(t, D)
    PROVE  /\ NodesOf(t) = At(D, t.root)
           /\ t.root # NULL => t.root \in Node /\ NodesOf(t) = D[t.root]
           /\ t.root = NULL => NodesOf(t) = {}
           /\ NodesOf(t) \subseteq Node
           /\ KeysOf(t) \in SUBSET Nat /\ IsFiniteSet(KeysOf(t))
           /\ \A a, b \in NodesOf(t) : KeyOf[a] = KeyOf[b] => a = b
<1>1. Typed(t) /\ Forest(Kids(t), t.parent, D) /\ t.root \in Pointer
    BY TypedFields DEF Grove
<1>2. NodesOf(t) = At(D, t.root)
    BY <1>1, NodesAtFact DEF NodesOf
<1>3. t.root # NULL => t.root \in Node /\ NodesOf(t) = D[t.root]
    BY <1>1, <1>2, NodeFact DEF At
<1>4. t.root = NULL => NodesOf(t) = {}
    BY <1>2 DEF At
<1>5. NodesOf(t) \subseteq Node
    BY <1>1, <1>3, <1>4, ForestTyped
<1>6. KeysOf(t) \in SUBSET Nat
    BY <1>5, NodeFact DEF KeysOf
<1>7. IsFiniteSet(KeysOf(t))
    <2> DEFINE f == [n \in NodesOf(t) |-> KeyOf[n]]
    <2>1. IsFiniteSet(NodesOf(t))
        BY <1>5, NodeFact, FS_Subset
    <2>2. f \in Surjection(NodesOf(t), KeysOf(t))
        BY DEF Surjection, KeysOf
    <2> QED BY <2>1, <2>2, FS_Surjection
<1>8. \A a, b \in NodesOf(t) : KeyOf[a] = KeyOf[b] => a = b
    BY <1>1, <1>3, <1>4, TreeKeysDiffer
<1> QED BY <1>2, <1>3, <1>4, <1>5, <1>6, <1>7, <1>8

LEMMA NodeOfNone ==
    ASSUME NEW t
    PROVE  NodeOf(t, NULL) = NULL
BY DEF NodeOf

LEMMA NodeOfFact ==
    ASSUME NEW t, NEW D, Grove(t, D), NEW n \in NodesOf(t)
    PROVE  NodeOf(t, KeyOf[n]) = n
<1>1. n \in Node /\ KeyOf[n] # NULL
    BY NodesOfFact, NodeFact, NullFact
<1>2. (CHOOSE m \in NodesOf(t) : KeyOf[m] = KeyOf[n]) = n
    BY NodesOfFact
<1> QED BY <1>1, <1>2 DEF NodeOf

(* What tells the answer of a query from the nodes.                        *)
LEMMA PredNode ==
    ASSUME NEW t, NEW D, Grove(t, D), NEW k \in Nat, NEW strict \in BOOLEAN,
           NEW n \in NodesOf(t), KeyOf[n] < k \/ (~strict /\ KeyOf[n] = k),
           \A y \in NodesOf(t) :
               KeyOf[y] < k \/ (~strict /\ KeyOf[y] = k) => KeyOf[y] <= KeyOf[n]
    PROVE  NodeOf(t, PredIn(KeysOf(t), k, strict)) = n
<1>1. KeyOf[n] \in Below(KeysOf(t), k, strict)
    BY DEF Below, KeysOf
<1>2. \A x \in Below(KeysOf(t), k, strict) : x <= KeyOf[n]
    BY DEF Below, KeysOf
<1>3. PredIn(KeysOf(t), k, strict) = KeyOf[n]
    BY <1>1, <1>2, NodesOfFact, PredInIs
<1> QED BY <1>3, NodeOfFact

LEMMA PredNone ==
    ASSUME NEW t, NEW D, Grove(t, D), NEW k \in Nat, NEW strict \in BOOLEAN,
           \A y \in NodesOf(t) : ~(KeyOf[y] < k \/ (~strict /\ KeyOf[y] = k))
    PROVE  NodeOf(t, PredIn(KeysOf(t), k, strict)) = NULL
<1>1. Below(KeysOf(t), k, strict) = {}
    BY DEF Below, KeysOf
<1>2. PredIn(KeysOf(t), k, strict) = NULL
    BY <1>1, NodesOfFact, PredInFact
<1> QED BY <1>2, NodeOfNone

LEMMA SuccNode ==
    ASSUME NEW t, NEW D, Grove(t, D), NEW k \in Nat, NEW strict \in BOOLEAN,
           NEW n \in NodesOf(t), k < KeyOf[n] \/ (~strict /\ KeyOf[n] = k),
           \A y \in NodesOf(t) :
               k < KeyOf[y] \/ (~strict /\ KeyOf[y] = k) => KeyOf[n] <= KeyOf[y]
    PROVE  NodeOf(t, SuccIn(KeysOf(t), k, strict)) = n
<1>1. KeyOf[n] \in Above(KeysOf(t), k, strict)
    BY DEF Above, KeysOf
<1>2. \A x \in Above(KeysOf(t), k, strict) : KeyOf[n] <= x
    BY DEF Above, KeysOf
<1>3. SuccIn(KeysOf(t), k, strict) = KeyOf[n]
    BY <1>1, <1>2, NodesOfFact, SuccInIs
<1> QED BY <1>3, NodeOfFact

LEMMA SuccNone ==
    ASSUME NEW t, NEW D, Grove(t, D), NEW k \in Nat, NEW strict \in BOOLEAN,
           \A y \in NodesOf(t) : ~(k < KeyOf[y] \/ (~strict /\ KeyOf[y] = k))
    PROVE  NodeOf(t, SuccIn(KeysOf(t), k, strict)) = NULL
<1>1. Above(KeysOf(t), k, strict) = {}
    BY DEF Above, KeysOf
<1>2. SuccIn(KeysOf(t), k, strict) = NULL
    BY <1>1, NodesOfFact, SuccInFact
<1> QED BY <1>2, NodeOfNone

LEMMA WalkedFact ==
    ASSUME NEW t, NEW D, Standing(t, D)
    PROVE  Walked(t)
<1>1. Grove(t, D)
    BY DEF Standing
<1>2. SUFFICES ASSUME NEW n \in NodesOf(t)
               PROVE  /\ Neighbour(t, n, "left") = NodeOf(t, PredIn(KeysOf(t), KeyOf[n], TRUE))
                      /\ Neighbour(t, n, "right") = NodeOf(t, SuccIn(KeysOf(t), KeyOf[n], TRUE))
    BY DEF Walked
<1>3. /\ t.root \in Node /\ t.parent[t.root] = NULL /\ n \in D[t.root] /\ n \in Node
      /\ NodesOf(t) = D[t.root] /\ KeyOf[n] \in Nat
      /\ \A y \in D[t.root] : y \in Node /\ KeyOf[y] \in Nat
    BY <1>1, <1>2, NodesOfFact, NodeFact DEF Standing
<1>0. PICK strict \in BOOLEAN : strict = TRUE
    OBVIOUS
<1>4. ASSUME NEW x, x = Neighbour(t, n, "left"),
             NEW a, a = NodeOf(t, PredIn(KeysOf(t), KeyOf[n], strict))
      PROVE  x = a
    <2>1. \/ x = NULL /\ \A y \in D[t.root] : ~Beyond("left", y, n)
          \/ /\ x \in Node /\ x \in D[t.root] /\ Beyond("left", x, n)
             /\ \A y \in D[t.root] : Beyond("left", y, n) => y = x \/ Beyond("left", y, x)
        BY <1>1, <1>3, <1>4, NeighbourFact, SidesFact
    <2>2. CASE x = NULL
        <3>1. \A y \in NodesOf(t) : ~(KeyOf[y] < KeyOf[n] \/ (~strict /\ KeyOf[y] = KeyOf[n]))
            BY <1>0, <1>3, <2>1, <2>2, NodeFact, SidesFact DEF Beyond
        <3>2. a = NULL
            BY <1>1, <1>3, <1>4, <3>1, PredNone
        <3> QED BY <2>2, <3>2
    <2>3. CASE x \in Node
        <3>1. /\ x \in NodesOf(t) /\ KeyOf[x] < KeyOf[n]
              /\ \A y \in NodesOf(t) :
                     KeyOf[y] < KeyOf[n] \/ (~strict /\ KeyOf[y] = KeyOf[n]) => KeyOf[y] <= KeyOf[x]
            BY <1>0, <1>3, <2>1, <2>3, NodeFact, SidesFact DEF Beyond
        <3>2. a = x
            BY <1>1, <1>3, <1>4, <3>1, PredNode
        <3> QED BY <3>2
    <2> QED BY <2>1, <2>2, <2>3
<1>5. ASSUME NEW x, x = Neighbour(t, n, "right"),
             NEW a, a = NodeOf(t, SuccIn(KeysOf(t), KeyOf[n], strict))
      PROVE  x = a
    <2>1. \/ x = NULL /\ \A y \in D[t.root] : ~Beyond("right", y, n)
          \/ /\ x \in Node /\ x \in D[t.root] /\ Beyond("right", x, n)
             /\ \A y \in D[t.root] : Beyond("right", y, n) => y = x \/ Beyond("right", y, x)
        BY <1>1, <1>3, <1>5, NeighbourFact, SidesFact
    <2>2. CASE x = NULL
        <3>1. \A y \in NodesOf(t) : ~(KeyOf[n] < KeyOf[y] \/ (~strict /\ KeyOf[y] = KeyOf[n]))
            BY <1>0, <1>3, <2>1, <2>2, NodeFact, SidesFact DEF Beyond
        <3>2. a = NULL
            BY <1>1, <1>3, <1>5, <3>1, SuccNone
        <3> QED BY <2>2, <3>2
    <2>3. CASE x \in Node
        <3>1. /\ x \in NodesOf(t) /\ KeyOf[n] < KeyOf[x]
              /\ \A y \in NodesOf(t) :
                     KeyOf[n] < KeyOf[y] \/ (~strict /\ KeyOf[y] = KeyOf[n]) => KeyOf[x] <= KeyOf[y]
            BY <1>0, <1>3, <2>1, <2>3, NodeFact, SidesFact DEF Beyond
        <3>2. a = x
            BY <1>1, <1>3, <1>5, <3>1, SuccNode
        <3> QED BY <3>2
    <2> QED BY <2>1, <2>2, <2>3
<1> QED BY <1>0, <1>4, <1>5

LEMMA LeastNode ==
    ASSUME NEW t, NEW D, Grove(t, D), NEW n \in NodesOf(t),
           \A y \in NodesOf(t) : KeyOf[n] <= KeyOf[y]
    PROVE  NodeOf(t, LeastOf(KeysOf(t))) = n
<1>1. KeyOf[n] \in KeysOf(t) /\ \A x \in KeysOf(t) : KeyOf[n] <= x
    BY DEF KeysOf
<1>2. LeastOf(KeysOf(t)) = KeyOf[n]
    <2>1. KeysOf(t) \in SUBSET Nat /\ IsFiniteSet(KeysOf(t))
        BY NodesOfFact
    <2>2. LeastOf(KeysOf(t)) \in KeysOf(t) /\ \A x \in KeysOf(t) : LeastOf(KeysOf(t)) <= x
        BY <1>1, <2>1, LeastOfFact
    <2>3. LeastOf(KeysOf(t)) <= KeyOf[n] /\ KeyOf[n] <= LeastOf(KeysOf(t))
        BY <1>1, <2>2
    <2>4. LeastOf(KeysOf(t)) \in Nat /\ KeyOf[n] \in Nat
        BY <1>1, <2>1, <2>2
    <2> QED BY <2>3, <2>4
<1> QED BY <1>2, NodeOfFact

LEMMA GreatestNode ==
    ASSUME NEW t, NEW D, Grove(t, D), NEW n \in NodesOf(t),
           \A y \in NodesOf(t) : KeyOf[y] <= KeyOf[n]
    PROVE  NodeOf(t, GreatestOf(KeysOf(t))) = n
<1>1. KeyOf[n] \in KeysOf(t) /\ \A x \in KeysOf(t) : x <= KeyOf[n]
    BY DEF KeysOf
<1>2. GreatestOf(KeysOf(t)) = KeyOf[n]
    <2>1. KeysOf(t) \in SUBSET Nat /\ IsFiniteSet(KeysOf(t))
        BY NodesOfFact
    <2>2. GreatestOf(KeysOf(t)) \in KeysOf(t) /\ \A x \in KeysOf(t) : x <= GreatestOf(KeysOf(t))
        BY <1>1, <2>1, GreatestOfFact
    <2>3. GreatestOf(KeysOf(t)) <= KeyOf[n] /\ KeyOf[n] <= GreatestOf(KeysOf(t))
        BY <1>1, <2>2
    <2>4. GreatestOf(KeysOf(t)) \in Nat /\ KeyOf[n] \in Nat
        BY <1>1, <2>1, <2>2
    <2> QED BY <2>3, <2>4
<1> QED BY <1>2, NodeOfFact

LEMMA EndsAnswer ==
    ASSUME NEW t, NEW D, Grove(t, D)
    PROVE  /\ EndOf(t, "left") = NodeOf(t, LeastOf(KeysOf(t)))
           /\ EndOf(t, "right") = NodeOf(t, GreatestOf(KeysOf(t)))
<1>1. CASE t.root = NULL
    <2>1. KeysOf(t) = {}
        BY <1>1, NodesOfFact DEF KeysOf
    <2>2. LeastOf(KeysOf(t)) = NULL /\ GreatestOf(KeysOf(t)) = NULL
        BY <2>1 DEF LeastOf, GreatestOf
    <2> QED BY <1>1, <2>2, NodeOfNone DEF EndOf
<1>2. CASE t.root # NULL
    <2>1. t.root \in Node /\ NodesOf(t) = D[t.root] /\ NodesOf(t) \subseteq Node
        BY <1>2, NodesOfFact
    <2>2. \A s \in Sides : /\ EndOf(t, s) \in Node /\ EndOf(t, s) \in NodesOf(t)
                           /\ \A y \in NodesOf(t) : y = EndOf(t, s) \/ Beyond(s, EndOf(t, s), y)
        BY <1>2, <2>1, EndFact DEF EndOf
    <2>3. \A y \in NodesOf(t) : KeyOf[EndOf(t, "left")] <= KeyOf[y]
        BY <2>1, <2>2, NodeFact, SidesFact DEF Beyond
    <2>4. \A y \in NodesOf(t) : KeyOf[y] <= KeyOf[EndOf(t, "right")]
        BY <2>1, <2>2, NodeFact, SidesFact DEF Beyond
    <2> QED BY <2>2, <2>3, <2>4, LeastNode, GreatestNode, SidesFact
<1> QED BY <1>1, <1>2

(* What find and seek come upon: the node of k, or the last on the way.    *)
LEMMA SeekFact ==
    ASSUME NEW t, NEW D, Standing(t, D), NEW k \in Nat
    PROVE  \/ /\ t.root = NULL /\ find(t, k) = NULL /\ seek(t, k) = NULL
           \/ /\ find(t, k) \in NodesOf(t) /\ KeyOf[find(t, k)] = k
              /\ seek(t, k) = find(t, k)
           \/ /\ find(t, k) = NULL
              /\ seek(t, k) \in NodesOf(t)
              /\ \A y \in NodesOf(t) : KeyOf[y] # k
              /\ KeyOf[seek(t, k)] < k =>
                     \A y \in NodesOf(t) : KeyOf[seek(t, k)] < KeyOf[y] <=> k < KeyOf[y]
              /\ k < KeyOf[seek(t, k)] =>
                     \A y \in NodesOf(t) : KeyOf[y] < KeyOf[seek(t, k)] <=> KeyOf[y] < k
<1>1. Grove(t, D) /\ Typed(t) /\ Forest(Kids(t), t.parent, D)
    BY DEF Standing, Grove
<1>2. CASE t.root = NULL
    <2>1. Place(t, k) = [probe |-> t.root, parent |-> NULL, side |-> "left"]
        BY <1>1, <1>2, PlaceFact
    <2> QED BY <1>2, <2>1 DEF find, seek
<1>3. CASE t.root # NULL /\ KeyOf[t.root] = k
    <2>1. Place(t, k) = [probe |-> t.root, parent |-> NULL, side |-> "left"]
        BY <1>1, <1>3, PlaceFact
    <2>2. t.root \in NodesOf(t)
        BY <1>1, <1>3, NodesOfFact, SubtreeFact
    <2> QED BY <1>3, <2>1, <2>2 DEF find, seek
<1>4. CASE t.root # NULL /\ KeyOf[t.root] # k
    <2>1. PICK p \in Node, s \in Sides :
              /\ Place(t, k) = Spot(t, p, s)
              /\ Placed(Kids(t), D, k, t.root, p, s)
              /\ t[s][p] # NULL => KeyOf[t[s][p]] = k
        BY <1>1, <1>4, PlaceFact
    <2>2. find(t, k) = t[s][p] /\ seek(t, k) = IF t[s][p] # NULL THEN t[s][p] ELSE p
        BY <2>1 DEF find, seek, Spot
    <2>3. t.root \in Node /\ NodesOf(t) = D[t.root] /\ p \in D[t.root] /\ NodesOf(t) \subseteq Node
        BY <1>1, <1>4, <2>1, NodesOfFact DEF Placed
    <2>4. CASE t[s][p] # NULL
        <3>1. t[s][p] \in D[p] /\ D[p] \subseteq D[t.root]
            BY <1>1, <2>3, <2>4, SubtreeFact, Inherits, KidsFact
        <3> QED BY <2>1, <2>2, <2>3, <2>4, <3>1
    <2>5. CASE t[s][p] = NULL
        <3>1. /\ seek(t, k) = p /\ find(t, k) = NULL /\ KeyBeyond(s, k, p)
            BY <2>1, <2>2, <2>5 DEF Placed
        <3>2. \A y \in NodesOf(t) :
                  KeyOf[y] # k /\ (Beyond(s, y, p) <=> KeyBeyond(Other(s), k, y))
            BY <1>1, <2>1, <2>3, <2>5, PlacedGap, KidsFact
        <3>3. ASSUME KeyOf[p] < k, NEW y \in NodesOf(t)
              PROVE  KeyOf[p] < KeyOf[y] <=> k < KeyOf[y]
            <4>1. s = "right"
                BY <2>3, <3>1, <3>3, NodeFact, SidesFact DEF KeyBeyond
            <4> QED BY <3>2, <3>3, <4>1, SidesFact DEF KeyBeyond, Beyond
        <3>4. ASSUME k < KeyOf[p], NEW y \in NodesOf(t)
              PROVE  KeyOf[y] < KeyOf[p] <=> KeyOf[y] < k
            <4>1. s = "left"
                BY <2>3, <3>1, <3>4, NodeFact, SidesFact DEF KeyBeyond
            <4> QED BY <3>2, <3>4, <4>1, SidesFact DEF KeyBeyond, Beyond
        <3> QED BY <2>3, <3>1, <3>2, <3>3, <3>4
    <2> QED BY <2>4, <2>5
<1> QED BY <1>2, <1>3, <1>4

LEMMA PredAnswer ==
    ASSUME NEW t, NEW D, Standing(t, D), NEW k \in Nat, NEW strict \in BOOLEAN
    PROVE  pred(t, k, strict) = NodeOf(t, PredIn(KeysOf(t), k, strict))
<1>1. Grove(t, D) /\ Walked(t) /\ \A y \in NodesOf(t) : y \in Node /\ KeyOf[y] \in Nat /\ y # NULL
    BY WalkedFact, NodesOfFact, NodeFact DEF Standing
<1> DEFINE n == seek(t, k)
           a == NodeOf(t, PredIn(KeysOf(t), k, strict))
<1>2. /\ n = NULL => pred(t, k, strict) = NULL
      /\ n # NULL /\ (KeyOf[n] < k \/ (KeyOf[n] = k /\ ~strict)) => pred(t, k, strict) = n
      /\ n # NULL /\ ~(KeyOf[n] < k \/ (KeyOf[n] = k /\ ~strict)) =>
             pred(t, k, strict) = Neighbour(t, n, "left")
    BY DEF pred
<1>3. n \in NodesOf(t) => Neighbour(t, n, "left") = NodeOf(t, PredIn(KeysOf(t), KeyOf[n], TRUE))
    BY <1>1 DEF Walked
<1>4. CASE t.root = NULL
    <2>1. n = NULL /\ NodesOf(t) = {}
        BY <1>1, <1>4, SeekFact, NodesOfFact
    <2>2. a = NULL
        BY <1>1, <2>1, PredNone
    <2> QED BY <1>2, <2>1, <2>2
<1>5. CASE n \in NodesOf(t) /\ KeyOf[n] = k
    <2>1. CASE strict = FALSE
        <3>1. a = n
            BY <1>1, <1>5, <2>1, PredNode
        <3> QED BY <1>1, <1>2, <1>5, <2>1, <3>1
    <2>2. CASE strict = TRUE
        <3>0. n # NULL /\ ~(KeyOf[n] < k \/ (KeyOf[n] = k /\ ~strict))
            BY <1>1, <1>5, <2>2
        <3>1. pred(t, k, strict) = Neighbour(t, n, "left")
            BY <1>2, <3>0, Zenon
        <3> QED BY <1>3, <1>5, <2>2, <3>1
    <2> QED BY <2>1, <2>2
<1>6. CASE /\ n \in NodesOf(t)
           /\ \A y \in NodesOf(t) : KeyOf[y] # k
           /\ KeyOf[n] < k =>
                  \A y \in NodesOf(t) : KeyOf[n] < KeyOf[y] <=> k < KeyOf[y]
           /\ k < KeyOf[n] =>
                  \A y \in NodesOf(t) : KeyOf[y] < KeyOf[n] <=> KeyOf[y] < k
    <2> HIDE DEF n
    <2>1. CASE KeyOf[n] < k
        <3>1. \A y \in NodesOf(t) :
                  KeyOf[y] < k \/ (~strict /\ KeyOf[y] = k) => KeyOf[y] <= KeyOf[n]
            BY <1>1, <1>6, <2>1
        <3>2. a = n
            BY <1>1, <1>6, <2>1, <3>1, PredNode
        <3> QED BY <1>1, <1>2, <1>6, <2>1, <3>2
    <2>2. CASE ~(KeyOf[n] < k)
        <3>1. pred(t, k, strict) = Neighbour(t, n, "left")
            BY <1>1, <1>2, <1>6, <2>2
        <3>2. \A y \in NodesOf(t) : KeyOf[y] < k \/ (~strict /\ KeyOf[y] = k)
                                    <=> KeyOf[y] < KeyOf[n]
            BY <1>1, <1>6, <2>2
        <3>3. Below(KeysOf(t), k, strict) = Below(KeysOf(t), KeyOf[n], TRUE)
            BY <3>2 DEF Below, KeysOf
        <3>4. PredIn(KeysOf(t), k, strict) = PredIn(KeysOf(t), KeyOf[n], TRUE)
            BY <3>3 DEF PredIn
        <3> QED BY <1>3, <1>6, <3>1, <3>4
    <2> QED BY <2>1, <2>2
<1> QED BY <1>4, <1>5, <1>6, SeekFact

LEMMA SuccAnswer ==
    ASSUME NEW t, NEW D, Standing(t, D), NEW k \in Nat, NEW strict \in BOOLEAN
    PROVE  succ(t, k, strict) = NodeOf(t, SuccIn(KeysOf(t), k, strict))
<1>1. Grove(t, D) /\ Walked(t) /\ \A y \in NodesOf(t) : y \in Node /\ KeyOf[y] \in Nat /\ y # NULL
    BY WalkedFact, NodesOfFact, NodeFact DEF Standing
<1> DEFINE n == seek(t, k)
           a == NodeOf(t, SuccIn(KeysOf(t), k, strict))
<1>2. /\ n = NULL => succ(t, k, strict) = NULL
      /\ n # NULL /\ (k < KeyOf[n] \/ (KeyOf[n] = k /\ ~strict)) => succ(t, k, strict) = n
      /\ n # NULL /\ ~(k < KeyOf[n] \/ (KeyOf[n] = k /\ ~strict)) =>
             succ(t, k, strict) = Neighbour(t, n, "right")
    BY DEF succ
<1>3. n \in NodesOf(t) => Neighbour(t, n, "right") = NodeOf(t, SuccIn(KeysOf(t), KeyOf[n], TRUE))
    BY <1>1 DEF Walked
<1>4. CASE t.root = NULL
    <2>1. n = NULL /\ NodesOf(t) = {}
        BY <1>1, <1>4, SeekFact, NodesOfFact
    <2>2. a = NULL
        BY <1>1, <2>1, SuccNone
    <2> QED BY <1>2, <2>1, <2>2
<1>5. CASE n \in NodesOf(t) /\ KeyOf[n] = k
    <2>1. CASE strict = FALSE
        <3>1. a = n
            BY <1>1, <1>5, <2>1, SuccNode
        <3> QED BY <1>1, <1>2, <1>5, <2>1, <3>1
    <2>2. CASE strict = TRUE
        <3>0. n # NULL /\ ~(k < KeyOf[n] \/ (KeyOf[n] = k /\ ~strict))
            BY <1>1, <1>5, <2>2
        <3>1. succ(t, k, strict) = Neighbour(t, n, "right")
            BY <1>2, <3>0, Zenon
        <3> QED BY <1>3, <1>5, <2>2, <3>1
    <2> QED BY <2>1, <2>2
<1>6. CASE /\ n \in NodesOf(t)
           /\ \A y \in NodesOf(t) : KeyOf[y] # k
           /\ KeyOf[n] < k =>
                  \A y \in NodesOf(t) : KeyOf[n] < KeyOf[y] <=> k < KeyOf[y]
           /\ k < KeyOf[n] =>
                  \A y \in NodesOf(t) : KeyOf[y] < KeyOf[n] <=> KeyOf[y] < k
    <2> HIDE DEF n
    <2>1. CASE k < KeyOf[n]
        <3>1. \A y \in NodesOf(t) :
                  k < KeyOf[y] \/ (~strict /\ KeyOf[y] = k) => KeyOf[n] <= KeyOf[y]
            BY <1>1, <1>6, <2>1
        <3>2. a = n
            BY <1>1, <1>6, <2>1, <3>1, SuccNode
        <3> QED BY <1>1, <1>2, <1>6, <2>1, <3>2
    <2>2. CASE ~(k < KeyOf[n])
        <3>1. succ(t, k, strict) = Neighbour(t, n, "right")
            BY <1>1, <1>2, <1>6, <2>2
        <3>2. \A y \in NodesOf(t) : k < KeyOf[y] \/ (~strict /\ KeyOf[y] = k)
                                    <=> KeyOf[n] < KeyOf[y]
            BY <1>1, <1>6, <2>2
        <3>3. Above(KeysOf(t), k, strict) = Above(KeysOf(t), KeyOf[n], TRUE)
            BY <3>2 DEF Above, KeysOf
        <3>4. SuccIn(KeysOf(t), k, strict) = SuccIn(KeysOf(t), KeyOf[n], TRUE)
            BY <3>3 DEF SuccIn
        <3> QED BY <1>3, <1>6, <3>1, <3>4
    <2> QED BY <2>1, <2>2
<1> QED BY <1>4, <1>5, <1>6, SeekFact

LEMMA AnswersFact ==
    ASSUME NEW t, NEW D, Standing(t, D)
    PROVE  Answers(t)
<1>1. Grove(t, D)
    BY DEF Standing
<1>2. /\ EndOf(t, "left") = NodeOf(t, LeastOf(KeysOf(t)))
      /\ EndOf(t, "right") = NodeOf(t, GreatestOf(KeysOf(t)))
    BY <1>1, EndsAnswer
<1>3. ASSUME NEW k \in Nat
      PROVE  find(t, k) = NodeOf(t, IF k \in KeysOf(t) THEN k ELSE NULL)
    <2>1. CASE find(t, k) \in NodesOf(t) /\ KeyOf[find(t, k)] = k
        <3>1. k \in KeysOf(t)
            BY <2>1 DEF KeysOf
        <3> QED BY <1>1, <2>1, <3>1, NodeOfFact
    <2>2. CASE find(t, k) = NULL /\ \A y \in NodesOf(t) : KeyOf[y] # k
        <3>1. k \notin KeysOf(t)
            BY <2>2 DEF KeysOf
        <3> QED BY <2>2, <3>1, NodeOfNone
    <2>3. CASE t.root = NULL /\ find(t, k) = NULL
        <3>1. NodesOf(t) = {}
            BY <1>1, <2>3, NodesOfFact
        <3> QED BY <2>2, <2>3, <3>1
    <2> QED BY <2>1, <2>2, <2>3, SeekFact
<1>4. \A k \in Key : k \in Nat
    BY NodeFact DEF Key
<1>5. ASSUME NEW k \in Key, NEW strict \in BOOLEAN
      PROVE  /\ pred(t, k, strict) = NodeOf(t, PredIn(KeysOf(t), k, strict))
             /\ succ(t, k, strict) = NodeOf(t, SuccIn(KeysOf(t), k, strict))
    BY <1>4, PredAnswer, SuccAnswer
<1> QED BY <1>2, <1>3, <1>4, <1>5 DEF Answers

-----------------------------------------------------------------------------
(* What updates make of a forest.  A node by itself has no links.          *)

Single(P, D, n) == D[n] = {n} /\ P[n] = NULL

LEMMA SingleFact ==
    ASSUME NEW C, NEW P, NEW D, Forest(C, P, D), NEW n \in Node, Single(P, D, n)
    PROVE  /\ \A s \in Sides : C[s][n] = NULL
           /\ \A m \in Node : n \in D[m] <=> m = n
           /\ \A m \in Node, s \in Sides : C[s][m] # n
           /\ \A m \in Node : P[m] # n
<1>1. \A s \in Sides : C[s][n] = NULL
    BY SubtreeFact DEF Single
<1>2. \A m \in Node : n \in D[m] <=> m = n
    BY AboveRoot DEF Single
<1>3. \A m \in Node, s \in Sides : C[s][m] # n
    BY NodeFact DEF Forest, Single
<1>4. \A m \in Node : P[m] # n
    BY <1>1, ParentFact, NodeFact
<1> QED BY <1>1, <1>2, <1>3, <1>4

(* A node by itself becomes a leaf below p.                                *)
HungKids(C, p, s, n) ==
    [u \in Sides |-> [m \in Node |-> IF u = s /\ m = p THEN n ELSE C[u][m]]]
HungParents(P, p, n) == [m \in Node |-> IF m = n THEN p ELSE P[m]]
HungTrees(D, p, n) == [m \in Node |-> IF p \in D[m] THEN D[m] \cup {n} ELSE D[m]]

LEMMA Hung ==
    ASSUME NEW C, NEW P, NEW D, Forest(C, P, D), NEW n \in Node, Single(P, D, n),
           NEW p \in Node, p # n, NEW s \in Sides, C[s][p] = NULL, Beyond(s, n, p),
           \A m \in Node, u \in Sides : p \in At(D, C[u][m]) => Beyond(u, n, m)
    PROVE  Forest(HungKids(C, p, s, n), HungParents(P, p, n), HungTrees(D, p, n))
<1> DEFINE K == HungKids(C, p, s, n)
           Q == HungParents(P, p, n)
           E == HungTrees(D, p, n)
<1>1. /\ \A u \in Sides, m \in Node : K[u][m] = IF u = s /\ m = p THEN n ELSE C[u][m]
      /\ \A m \in Node : Q[m] = IF m = n THEN p ELSE P[m]
      /\ \A m \in Node : E[m] = IF p \in D[m] THEN D[m] \cup {n} ELSE D[m]
    BY DEF HungKids, HungParents, HungTrees
<1>2. K \in Links /\ Q \in [Node -> Pointer] /\ E \in [Node -> SUBSET Node]
    <2>1. \A u \in Sides, m \in Node : C[u][m] \in Pointer /\ P[m] \in Pointer /\ D[m] \in SUBSET Node
        BY ForestTyped
    <2>2. K \in Links
        BY <2>1, NodeFact DEF HungKids, Links
    <2>3. Q \in [Node -> Pointer]
        BY <2>1, NodeFact DEF HungParents
    <2>4. E \in [Node -> SUBSET Node]
        BY <2>1, NodeFact DEF HungTrees
    <2> QED BY <2>2, <2>3, <2>4
<1> HIDE DEF K, Q, E
<1>3. /\ \A u \in Sides : C[u][n] = NULL
      /\ \A m \in Node, u \in Sides : C[u][m] # n
      /\ \A m \in Node : P[m] # n
      /\ E[n] = {n} /\ p \notin D[n]
    <2>1. D[n] = {n} /\ p \notin D[n]
        BY DEF Single
    <2>2. E[n] = {n}
        BY <2>1 DEF E, HungTrees
    <2> QED BY <2>1, <2>2, SingleFact
<1>4. \A m \in Node, u \in Sides :
          At(E, C[u][m]) = IF p \in At(D, C[u][m]) THEN At(D, C[u][m]) \cup {n}
                                                   ELSE At(D, C[u][m])
    BY <1>1, ForestTyped DEF At
<1>5. \A m \in Node : D[m] = {m} \cup At(D, C["left"][m]) \cup At(D, C["right"][m])
    BY DEF Forest
<1>6. \A m \in Node, u \in Sides : (u = s /\ m = p) \/ K[u][m] = C[u][m]
    BY <1>1
<1>7. K[s][p] = n /\ At(E, K[s][p]) = {n}
    BY <1>1, <1>3, NodeFact DEF At
<1>8. \A u \in Sides : p \notin At(D, C[u][p])
    BY SubtreeFact DEF At
<1>9. ASSUME NEW m \in Node
      PROVE  E[m] = {m} \cup At(E, K["left"][m]) \cup At(E, K["right"][m])
    <2>1. CASE m = p
        <3>1. At(E, K[Other(s)][p]) = At(D, C[Other(s)][p])
            <4>1. Other(s) \in Sides /\ Other(s) # s
                BY SidesFact
            <4>2. K[Other(s)][p] = C[Other(s)][p] /\ p \notin At(D, C[Other(s)][p])
                BY <1>6, <1>8, <4>1
            <4> QED BY <1>4, <4>1, <4>2
        <3>2. At(D, C[s][p]) = {}
            BY DEF At
        <3>3. E[p] = D[p] \cup {n}
            BY <1>1, SubtreeFact
        <3>4. CASE s = "left"
            BY <1>5, <1>7, <2>1, <3>1, <3>2, <3>3, <3>4, SidesFact
        <3>5. CASE s = "right"
            BY <1>5, <1>7, <2>1, <3>1, <3>2, <3>3, <3>5, SidesFact
        <3> QED BY <3>4, <3>5, SidesFact
    <2>2. CASE m # p
        <3>1. /\ At(E, K["left"][m]) = IF p \in At(D, C["left"][m])
                  THEN At(D, C["left"][m]) \cup {n} ELSE At(D, C["left"][m])
              /\ At(E, K["right"][m]) = IF p \in At(D, C["right"][m])
                  THEN At(D, C["right"][m]) \cup {n} ELSE At(D, C["right"][m])
            BY <1>4, <1>6, <2>2, SidesFact
        <3> QED BY <1>1, <1>5, <2>2, <3>1
    <2> QED BY <2>1, <2>2
<1>10. ASSUME NEW m \in Node, NEW u \in Sides
       PROVE  /\ \A x \in At(E, K[u][m]) : Beyond(u, x, m)
              /\ K[u][m] # NULL => Q[K[u][m]] = m
    <2>1. CASE u = s /\ m = p
        BY <1>1, <1>7, <2>1
    <2>2. CASE ~(u = s /\ m = p)
        <3>1. K[u][m] = C[u][m]
            BY <1>6, <2>2
        <3>2. \A x \in At(D, C[u][m]) : Beyond(u, x, m)
            BY DEF Forest
        <3>3. \A x \in At(E, K[u][m]) : Beyond(u, x, m)
            BY <1>4, <3>1, <3>2
        <3>4. C[u][m] # NULL => C[u][m] \in Node /\ C[u][m] # n /\ P[C[u][m]] = m
            BY <1>3, ForestTyped DEF Forest
        <3> QED BY <1>1, <3>1, <3>3, <3>4
    <2> QED BY <2>1, <2>2
<1>11. ASSUME NEW m \in Node, Q[m] # NULL
       PROVE  \E u \in Sides : K[u][Q[m]] = m
    <2>1. CASE m = n
        BY <1>1, <1>7, <2>1
    <2>2. CASE m # n
        <3>1. Q[m] = P[m]
            BY <1>1, <2>2
        <3>2. PICK u \in Sides : C[u][P[m]] = m
            BY <1>11, <3>1, ParentFact
        <3>3. P[m] \in Node /\ ~(u = s /\ P[m] = p)
            BY <1>11, <3>1, <3>2, ForestTyped, NodeFact
        <3>4. K[u][P[m]] = m
            BY <1>6, <3>2, <3>3
        <3> QED BY <3>1, <3>4
    <2> QED BY <2>1, <2>2
<1>12. Forest(K, Q, E)
    BY <1>2, <1>9, <1>10, <1>11 DEF Forest
<1> QED BY <1>12 DEF K, Q, E

(* A node with one child at most is taken out; the child takes its place.  *)
CutKids(C, n, c) ==
    [u \in Sides |-> [m \in Node |->
        IF m = n THEN NULL ELSE IF C[u][m] = n THEN c ELSE C[u][m]]]
CutParents(P, n, c) ==
    [m \in Node |-> IF m = n THEN NULL ELSE IF m = c THEN P[n] ELSE P[m]]
CutTrees(D, n) == [m \in Node |-> IF m = n THEN {n} ELSE D[m] \ {n}]

LEMMA Cut ==
    ASSUME NEW C, NEW P, NEW D, Forest(C, P, D), NEW n \in Node, NEW a \in Sides,
           C[a][n] = NULL, NEW c, c = C[Other(a)][n]
    PROVE  /\ Forest(CutKids(C, n, c), CutParents(P, n, c), CutTrees(D, n))
           /\ Single(CutParents(P, n, c), CutTrees(D, n), n)
<1> DEFINE K == CutKids(C, n, c)
           Q == CutParents(P, n, c)
           E == CutTrees(D, n)
<1>1. /\ \A u \in Sides, m \in Node :
             K[u][m] = IF m = n THEN NULL ELSE IF C[u][m] = n THEN c ELSE C[u][m]
      /\ \A m \in Node : Q[m] = IF m = n THEN NULL ELSE IF m = c THEN P[n] ELSE P[m]
      /\ \A m \in Node : E[m] = IF m = n THEN {n} ELSE D[m] \ {n}
    BY DEF CutKids, CutParents, CutTrees
<1>2. c \in Pointer /\ (c # NULL => /\ c \in Node /\ c # n /\ P[c] = n
                                    /\ c \in D[n] /\ n \notin D[c] /\ c \in D[c])
    BY ForestTyped, SubtreeFact, SidesFact, NodeFact DEF Forest
<1>3. K \in Links /\ Q \in [Node -> Pointer] /\ E \in [Node -> SUBSET Node]
    <2>1. \A u \in Sides, m \in Node : C[u][m] \in Pointer /\ P[m] \in Pointer /\ D[m] \in SUBSET Node
        BY ForestTyped
    <2>2. K \in Links
        BY <1>2, <2>1, NodeFact DEF CutKids, Links
    <2>3. Q \in [Node -> Pointer]
        BY <2>1, NodeFact DEF CutParents
    <2>4. E \in [Node -> SUBSET Node]
        BY <2>1, NodeFact DEF CutTrees
    <2> QED BY <2>2, <2>3, <2>4
<1> HIDE DEF K, Q, E
<1>4. D[n] = {n} \cup At(D, c) /\ n \notin At(D, c)
    <2>1. At(D, C[a][n]) = {}
        BY DEF At
    <2>2. D[n] = {n} \cup At(D, C["left"][n]) \cup At(D, C["right"][n])
        BY DEF Forest
    <2> QED BY <1>2, <2>1, <2>2, SidesFact DEF At
<1>5. \A q \in Pointer : q # n => At(E, q) = At(D, q) \ {n}
    BY <1>1, NodeFact DEF At
<1>6. \A m \in Node, u \in Sides : m # n => At(E, K[u][m]) = At(D, C[u][m]) \ {n}
    <2> TAKE m \in Node, u \in Sides
    <2>1. SUFFICES ASSUME m # n PROVE At(E, K[u][m]) = At(D, C[u][m]) \ {n}
        OBVIOUS
    <2>2. CASE C[u][m] = n
        <3>1. K[u][m] = c /\ c # n /\ At(D, C[u][m]) = D[n]
            BY <1>1, <1>2, <2>1, <2>2, NodeFact DEF At
        <3> QED BY <1>2, <1>4, <1>5, <3>1
    <2>3. CASE C[u][m] # n
        BY <1>1, <1>5, <2>1, <2>3, ForestTyped
    <2> QED BY <2>2, <2>3
<1>7. ASSUME NEW m \in Node
      PROVE  E[m] = {m} \cup At(E, K["left"][m]) \cup At(E, K["right"][m])
    <2>1. CASE m = n
        BY <1>1, <2>1, SidesFact DEF At
    <2>2. CASE m # n
        <3>1. D[m] = {m} \cup At(D, C["left"][m]) \cup At(D, C["right"][m])
            BY DEF Forest
        <3>2. /\ At(E, K["left"][m]) = At(D, C["left"][m]) \ {n}
              /\ At(E, K["right"][m]) = At(D, C["right"][m]) \ {n}
            BY <1>6, <2>2, SidesFact
        <3>3. D[m] \ {n} = {m} \cup (At(D, C["left"][m]) \ {n})
                                \cup (At(D, C["right"][m]) \ {n})
            BY <2>2, <3>1
        <3>4. E[m] = D[m] \ {n}
            BY <1>1, <2>2
        <3> QED BY <3>2, <3>3, <3>4, Zenon
    <2> QED BY <2>1, <2>2
<1>8. ASSUME NEW m \in Node, NEW u \in Sides
      PROVE  /\ \A x \in At(E, K[u][m]) : Beyond(u, x, m)
             /\ K[u][m] # NULL => Q[K[u][m]] = m
    <2>1. CASE m = n
        BY <1>1, <2>1 DEF At
    <2>2. CASE m # n
        <3>1. \A x \in At(E, K[u][m]) : Beyond(u, x, m)
            BY <1>6, <2>2 DEF Forest
        <3>2. C[u][m] # NULL => P[C[u][m]] = m /\ C[u][m] \in Node
            BY ForestTyped DEF Forest
        <3>3. CASE C[u][m] = n
            BY <1>1, <1>2, <2>2, <3>1, <3>2, <3>3, NodeFact
        <3>4. CASE C[u][m] # n
            <4>1. C[u][m] # NULL => C[u][m] # c
                BY <1>2, <2>2, <3>2
            <4> QED BY <1>1, <2>2, <3>1, <3>2, <3>4, <4>1
        <3> QED BY <3>3, <3>4
    <2> QED BY <2>1, <2>2
<1>9. ASSUME NEW m \in Node, Q[m] # NULL
      PROVE  \E u \in Sides : K[u][Q[m]] = m
    <2>1. m # n
        BY <1>1, <1>9
    <2>2. CASE m = c
        <3>1. Q[m] = P[n] /\ P[n] # NULL
            BY <1>1, <1>9, <2>1, <2>2
        <3>2. PICK u \in Sides : P[n] \in Node /\ P[n] # n /\ C[u][P[n]] = n
            BY <3>1, ParentFact
        <3> QED BY <1>1, <2>2, <3>1, <3>2
    <2>3. CASE m # c
        <3>1. Q[m] = P[m] /\ P[m] # NULL
            BY <1>1, <1>9, <2>1, <2>3
        <3>2. PICK u \in Sides : P[m] \in Node /\ C[u][P[m]] = m
            BY <3>1, ParentFact
        <3>3. P[m] # n
            <4>1. SUFFICES ASSUME P[m] = n PROVE FALSE
                OBVIOUS
            <4>2. u = a \/ u = Other(a)
                BY SidesFact
            <4> QED BY <2>3, <3>2, <4>1, <4>2, NodeFact
        <3> QED BY <1>1, <2>1, <3>1, <3>2, <3>3
    <2> QED BY <2>2, <2>3
<1>10. Forest(K, Q, E)
    BY <1>3, <1>7, <1>8, <1>9 DEF Forest
<1>11. Single(Q, E, n)
    BY <1>1 DEF Single
<1> QED BY <1>10, <1>11 DEF K, Q, E

(* A node by itself, b, and one in the forest, a, change places.           *)
Swap(a, b, q) == IF q = a THEN b ELSE IF q = b THEN a ELSE q

SwapKids(C, a, b) ==
    [u \in Sides |-> [m \in Node |-> Swap(a, b, C[u][Swap(a, b, m)])]]
SwapParents(P, a, b) == [m \in Node |-> Swap(a, b, P[Swap(a, b, m)])]
SwapTrees(D, a, b) ==
    [m \in Node |-> {x \in Node : Swap(a, b, x) \in D[Swap(a, b, m)]}]

LEMMA SwapFact ==
    ASSUME NEW a \in Node, NEW b \in Node
    PROVE  /\ Swap(a, b, a) = b /\ Swap(a, b, b) = a
           /\ \A q : q # a /\ q # b => Swap(a, b, q) = q
           /\ \A q : Swap(a, b, Swap(a, b, q)) = q
           /\ \A m \in Node : Swap(a, b, m) \in Node
           /\ \A q \in Pointer : Swap(a, b, q) \in Pointer
           /\ \A q : Swap(a, b, q) = NULL <=> q = NULL
BY NodeFact DEF Swap

LEMMA Swapped ==
    ASSUME NEW C, NEW P, NEW D, Forest(C, P, D), NEW a \in Node, NEW b \in Node,
           a # b, Single(P, D, b),
           \A x \in Node, u \in Sides :
               x # a /\ (x \in D[a] \/ a \in D[x]) /\ Beyond(u, x, a) => Beyond(u, x, b)
    PROVE  Forest(SwapKids(C, a, b), SwapParents(P, a, b), SwapTrees(D, a, b))
<1> DEFINE K == SwapKids(C, a, b)
           Q == SwapParents(P, a, b)
           E == SwapTrees(D, a, b)
           S(q) == Swap(a, b, q)
<1>1. /\ \A u \in Sides, m \in Node : K[u][m] = S(C[u][S(m)])
      /\ \A m \in Node : Q[m] = S(P[S(m)])
      /\ \A m \in Node : \A x : x \in E[m] <=> x \in Node /\ S(x) \in D[S(m)]
    BY DEF SwapKids, SwapParents, SwapTrees
<1>2. /\ S(a) = b /\ S(b) = a
      /\ \A q : q # a /\ q # b => S(q) = q
      /\ \A q : S(S(q)) = q
      /\ \A m \in Node : S(m) \in Node
      /\ \A q \in Pointer : S(q) \in Pointer
      /\ \A q : S(q) = NULL <=> q = NULL
    BY SwapFact
<1> HIDE DEF S
<1>3. K \in Links /\ Q \in [Node -> Pointer] /\ E \in [Node -> SUBSET Node]
    <2>1. \A u \in Sides, m \in Node : S(C[u][S(m)]) \in Pointer
        BY <1>2, ForestTyped
    <2>5. \A m \in Node : S(P[S(m)]) \in Pointer
        BY <1>2, ForestTyped
    <2>2. K \in Links
        BY <2>1 DEF SwapKids, Links, S
    <2>3. Q \in [Node -> Pointer]
        BY <2>5 DEF SwapParents, S
    <2>4. E \in [Node -> SUBSET Node]
        BY DEF SwapTrees
    <2> QED BY <2>2, <2>3, <2>4
<1> HIDE DEF K, Q, E
<1>4. \A m \in Node, u \in Sides : \A x :
          x \in At(E, K[u][m]) <=> x \in Node /\ S(x) \in At(D, C[u][S(m)])
    <2> TAKE m \in Node, u \in Sides
    <2> TAKE x
    <2>1. K[u][m] = S(C[u][S(m)]) /\ C[u][S(m)] \in Pointer /\ S(m) \in Node
        BY <1>1, <1>2, ForestTyped
    <2>2. CASE C[u][S(m)] = NULL
        BY <1>2, <2>1, <2>2 DEF At
    <2>3. CASE C[u][S(m)] # NULL
        <3>1. S(C[u][S(m)]) \in Node /\ S(C[u][S(m)]) # NULL
            BY <1>2, <2>1, <2>3, NodeFact
        <3>2. x \in E[S(C[u][S(m)])] <=> x \in Node /\ S(x) \in D[C[u][S(m)]]
            BY <1>1, <1>2, <3>1
        <3> QED BY <2>1, <2>3, <3>1, <3>2 DEF At
    <2> QED BY <2>2, <2>3
<1>5. ASSUME NEW m \in Node
      PROVE  E[m] = {m} \cup At(E, K["left"][m]) \cup At(E, K["right"][m])
    <2>1. D[S(m)] = {S(m)} \cup At(D, C["left"][S(m)]) \cup At(D, C["right"][S(m)])
        BY <1>2 DEF Forest
    <2>2. \A x : S(x) = S(m) <=> x = m
        BY <1>2
    <2>3. \A x : x \in E[m] <=>
              x \in Node /\ (x = m \/ S(x) \in At(D, C["left"][S(m)])
                                   \/ S(x) \in At(D, C["right"][S(m)]))
        BY <1>1, <2>1, <2>2
    <2>4. \A x : x \in E[m] <=>
              x = m \/ x \in At(E, K["left"][m]) \/ x \in At(E, K["right"][m])
        BY <1>4, <2>3, SidesFact
    <2> QED BY <2>4
<1>6. ASSUME NEW m \in Node, NEW u \in Sides, NEW x \in At(E, K[u][m])
      PROVE  Beyond(u, x, m)
    <2>1. x \in Node /\ S(x) \in At(D, C[u][S(m)]) /\ S(m) \in Node
        BY <1>2, <1>4, <1>6
    <2>2. /\ C[u][S(m)] # NULL /\ S(x) \in D[C[u][S(m)]] /\ S(x) \in D[S(m)]
          /\ S(x) # S(m) /\ Beyond(u, S(x), S(m)) /\ C[u][S(m)] \in Node
        BY <2>1, SubtreeFact DEF At
    <2>3. S(m) # b /\ S(x) # b
        BY <2>1, <2>2, SingleFact
    <2>4. m # a /\ x # a /\ x # m
        BY <1>2, <2>2, <2>3
    <2>5. CASE m = b
        <3>1. S(x) = x /\ S(m) = a
            BY <1>2, <2>4, <2>5
        <3> QED BY <2>1, <2>2, <2>4, <2>5, <3>1
    <2>6. CASE m # b /\ x = b
        <3>1. S(x) = a /\ S(m) = m
            BY <1>2, <2>4, <2>6
        <3>2. Beyond(Other(u), m, a) /\ a \in D[m]
            BY <2>2, <3>1, BeyondFact
        <3>3. Beyond(Other(u), m, b)
            BY <2>4, <3>2, SidesFact
        <3> QED BY <2>6, <3>3, BeyondFact
    <2>7. CASE m # b /\ x # b
        BY <1>2, <2>2, <2>4, <2>7
    <2> QED BY <2>5, <2>6, <2>7
<1>7. ASSUME NEW m \in Node, NEW u \in Sides, K[u][m] # NULL
      PROVE  Q[K[u][m]] = m
    <2>1. K[u][m] = S(C[u][S(m)]) /\ C[u][S(m)] # NULL /\ S(m) \in Node
        BY <1>1, <1>2, <1>7
    <2>2. P[C[u][S(m)]] = S(m) /\ C[u][S(m)] \in Node /\ K[u][m] \in Node
        BY <1>2, <2>1, ForestTyped DEF Forest
    <2>3. Q[K[u][m]] = S(P[S(K[u][m])]) /\ S(K[u][m]) = C[u][S(m)]
        BY <1>1, <1>2, <2>1, <2>2
    <2> QED BY <1>2, <2>2, <2>3
<1>8. ASSUME NEW m \in Node, Q[m] # NULL
      PROVE  \E u \in Sides : K[u][Q[m]] = m
    <2>1. Q[m] = S(P[S(m)]) /\ P[S(m)] # NULL /\ S(m) \in Node
        BY <1>1, <1>2, <1>8
    <2>2. PICK u \in Sides : P[S(m)] \in Node /\ C[u][P[S(m)]] = S(m)
        BY <2>1, ParentFact
    <2>3. Q[m] \in Node /\ S(Q[m]) = P[S(m)]
        BY <1>2, <2>1, <2>2
    <2>4. K[u][Q[m]] = S(C[u][S(Q[m])])
        BY <1>1, <2>3
    <2> QED BY <1>2, <2>2, <2>3, <2>4
<1>9. Forest(K, Q, E)
    BY <1>3, <1>5, <1>6, <1>7, <1>8 DEF Forest
<1> QED BY <1>9 DEF K, Q, E

-----------------------------------------------------------------------------
(* What the updates of links and sizes make of a tree record.              *)

LEMMA TypedTree ==
    ASSUME NEW root \in Pointer, NEW left \in [Node -> Pointer],
           NEW right \in [Node -> Pointer], NEW parent \in [Node -> Pointer],
           NEW heavy \in [Node -> Sides \cup {"none"}], NEW size \in [Node -> Nat]
    PROVE  Typed([root |-> root, left |-> left, right |-> right,
                  parent |-> parent, heavy |-> heavy, size |-> size])
BY DEF Typed

(* l is t with c hung below p, on side s.                                  *)
Joined(l, t, p, c, s) ==
    /\ Typed(l)
    /\ l.size = t.size /\ l.heavy = t.heavy
    /\ \A m \in Node, u \in Sides :
           l[u][m] = IF u = s /\ m = p THEN c ELSE t[u][m]
    /\ \A m \in Node : l.parent[m] = IF m = c THEN p ELSE t.parent[m]

LEMMA LinkFact ==
    ASSUME NEW t, Typed(t), NEW p \in Pointer, NEW c \in Pointer, NEW s \in Sides,
           NEW l, l = Link(t, p, c, s)
    PROVE  Joined(l, t, p, c, s) /\ l.root = t.root
<1> DEFINE down == IF p = NULL THEN t ELSE [t EXCEPT ![s][p] = c]
<1>1. /\ p = NULL => \A m \in Node : m # p
      /\ c = NULL => \A m \in Node : m # c
      /\ p # NULL => p \in Node
      /\ c # NULL => c \in Node
    BY NodeFact
<1>2. /\ Typed(down)
      /\ down.root = t.root /\ down.size = t.size /\ down.heavy = t.heavy
      /\ down.parent = t.parent
      /\ \A m \in Node, u \in Sides :
             down[u][m] = IF u = s /\ m = p THEN c ELSE t[u][m]
    <2>1. CASE p = NULL
        BY <1>1, <2>1
    <2>2. CASE p # NULL /\ s = "left"
        BY <1>1, <2>2, SidesFact DEF Typed
    <2>3. CASE p # NULL /\ s = "right"
        BY <1>1, <2>3, SidesFact DEF Typed
    <2> QED BY <2>1, <2>2, <2>3, SidesFact
<1>3. l = IF c = NULL THEN down ELSE [down EXCEPT !.parent[c] = p]
    BY DEF Link
<1> HIDE DEF down
<1>4. CASE c = NULL
    BY <1>1, <1>2, <1>3, <1>4 DEF Joined
<1>5. CASE c # NULL
    <2>1. Typed(l)
        BY <1>1, <1>2, <1>3, <1>5 DEF Typed
    <2>2. /\ l.root = down.root /\ l.size = down.size /\ l.heavy = down.heavy
          /\ l.left = down.left /\ l.right = down.right
          /\ \A m \in Node : l.parent[m] = IF m = c THEN p ELSE down.parent[m]
        BY <1>1, <1>2, <1>3, <1>5 DEF Typed
    <2>3. \A u \in Sides : l[u] = down[u]
        BY <2>2, SidesFact
    <2> QED BY <1>2, <2>1, <2>2, <2>3 DEF Joined
<1> QED BY <1>4, <1>5

LEMMA AttachFact ==
    ASSUME NEW t, Typed(t), NEW p \in Pointer, NEW c \in Pointer, NEW s \in Sides,
           NEW l, l = Attach(t, p, c, s)
    PROVE  Joined(l, t, p, c, s) /\ l.root = IF p = NULL THEN c ELSE t.root
<1>1. CASE p # NULL
    BY <1>1, LinkFact DEF Attach
<1>2. CASE p = NULL
    <2> DEFINE r == [t EXCEPT !.root = c]
    <2>1. /\ Typed(r) /\ r.root = c /\ r.size = t.size /\ r.heavy = t.heavy
          /\ r.left = t.left /\ r.right = t.right /\ r.parent = t.parent
        BY DEF Typed
    <2>2. \A u \in Sides : r[u] = t[u]
        BY <2>1, SidesFact
    <2>3. l = Link(r, p, c, s)
        BY <1>2 DEF Attach
    <2> HIDE DEF r
    <2>4. Joined(l, r, p, c, s) /\ l.root = r.root
        BY <2>1, <2>3, LinkFact
    <2> QED BY <1>2, <2>1, <2>2, <2>4 DEF Joined
<1> QED BY <1>1, <1>2

(* l is t with no links of n.                                              *)
Loosed(l, t, n) ==
    /\ Typed(l) /\ l.root = t.root
    /\ \A m \in Node, u \in Sides :
           l[u][m] = IF m = n THEN NULL ELSE t[u][m]
    /\ \A m \in Node : l.parent[m] = IF m = n THEN NULL ELSE t.parent[m]
    /\ \A m \in Node : l.size[m] = IF m = n THEN 1 ELSE t.size[m]
    /\ \A m \in Node : l.heavy[m] = IF m = n THEN "none" ELSE t.heavy[m]

LEMMA BlankedFact ==
    ASSUME NEW t, Typed(t), NEW n \in Node, NEW l, l = Blanked(t, n)
    PROVE  Loosed(l, t, n)
<1>1. NULL \in Pointer
    BY NodeFact
<1>2. Typed(l)
    BY <1>1 DEF Blanked, Typed
<1>3. /\ l.root = t.root
      /\ \A m \in Node : /\ l.left[m] = IF m = n THEN NULL ELSE t.left[m]
                         /\ l.right[m] = IF m = n THEN NULL ELSE t.right[m]
                         /\ l.parent[m] = IF m = n THEN NULL ELSE t.parent[m]
                         /\ l.size[m] = IF m = n THEN 1 ELSE t.size[m]
                         /\ l.heavy[m] = IF m = n THEN "none" ELSE t.heavy[m]
    BY DEF Blanked, Typed
<1> QED BY <1>2, <1>3, SidesFact DEF Loosed

(* l is t with other sizes.                                                *)
SameLinks(l, t) ==
    /\ Typed(l)
    /\ l.root = t.root /\ l.left = t.left /\ l.right = t.right
    /\ l.parent = t.parent /\ l.heavy = t.heavy

LEMMA AddSizeFact ==
    ASSUME NEW t, Typed(t), NEW n, NEW d,
           \A m \in Path(t, n) \cap Node : t.size[m] + d \in Nat,
           NEW l, l = add_size_path(t, n, d)
    PROVE  /\ SameLinks(l, t)
           /\ \A m \in Node : l.size[m] = IF m \in Path(t, n) THEN t.size[m] + d
                                                              ELSE t.size[m]
<1> DEFINE z == [m \in Node |-> IF m \in Path(t, n) THEN t.size[m] + d ELSE t.size[m]]
<1>1. l = [t EXCEPT !.size = z]
    BY DEF add_size_path
<1>2. z \in [Node -> Nat]
    BY TypedFields
<1>3. \A m \in Node : z[m] = IF m \in Path(t, n) THEN t.size[m] + d ELSE t.size[m]
    OBVIOUS
<1> HIDE DEF z
<1>4. Typed(l)
    BY <1>1, <1>2 DEF Typed
<1>5. SameLinks(l, t) /\ l.size = z
    BY <1>1, <1>4 DEF Typed, SameLinks
<1> QED BY <1>3, <1>4, <1>5

LEMMA SetSizeFact ==
    ASSUME NEW t, Typed(t), NEW n \in Node, NEW z \in Nat,
           NEW l, l = [t EXCEPT !.size[n] = z]
    PROVE  /\ SameLinks(l, t)
           /\ \A m \in Node : l.size[m] = IF m = n THEN z ELSE t.size[m]
<1>1. Typed(l)
    BY DEF Typed
<1>2. SameLinks(l, t)
    BY <1>1 DEF Typed, SameLinks
<1> QED BY <1>1, <1>2 DEF Typed

LEMMA SameLinksFact ==
    ASSUME NEW t, NEW l, SameLinks(l, t)
    PROVE  \A u \in Sides : l[u] = t[u]
BY SidesFact DEF SameLinks

(* A forest is known by its links, one by one.                             *)
LEMMA GroveIs ==
    ASSUME NEW t, Typed(t), NEW C, NEW P, NEW D, Forest(C, P, D),
           \A m \in Node, u \in Sides : t[u][m] = C[u][m],
           \A m \in Node : t.parent[m] = P[m]
    PROVE  Grove(t, D)
<1>1. \A u \in Sides : Kids(t)[u] = t[u] /\ t[u] \in [Node -> Pointer]
    BY KidsFact
<1>2. \A u \in Sides : C[u] \in [Node -> Pointer]
    BY DEF Forest, Links
<1>3. \A u \in Sides : Kids(t)[u] = C[u]
    BY <1>1, <1>2
<1>4. Kids(t) = C
    BY <1>3, KidsFact DEF Forest, Links
<1>5. t.parent = P
    BY TypedFields DEF Forest
<1> QED BY <1>4, <1>5 DEF Grove

LEMMA SameGrove ==
    ASSUME NEW t, NEW D, Grove(t, D), NEW l, SameLinks(l, t)
    PROVE  Grove(l, D)
<1>1. \A u \in Sides : Kids(t)[u] = t[u] /\ l[u] = t[u]
    BY KidsFact, SameLinksFact DEF Grove
<1>2. \A m \in Node, u \in Sides : l[u][m] = Kids(t)[u][m]
    BY <1>1
<1>3. \A m \in Node : l.parent[m] = t.parent[m]
    BY DEF SameLinks
<1> QED BY <1>2, <1>3, GroveIs DEF Grove, SameLinks

(* What is above a node of a whole tree is in the tree.                    *)
LEMMA SameTree ==
    ASSUME NEW C, NEW P, NEW D, Forest(C, P, D), NEW r \in Node, P[r] = NULL,
           NEW n \in D[r], NEW m \in Node, n \in D[m]
    PROVE  m \in D[r]
<1>1. n \in Node
    BY ForestTyped
<1>2. m \in D[r] \/ r \in D[m]
    BY <1>1, OneLine
<1>3. r \in D[m] => m = r
    BY AboveRoot
<1> QED BY <1>2, <1>3, SubtreeFact

-----------------------------------------------------------------------------
(* insert.  A node is told from the trees by its links: it has none.       *)

Counts(t, D, m) == t.size[m] = Cardinality(D[m])

(* n becomes a leaf, on side s of p.                                       *)
LEMMA InsertLeaf ==
    ASSUME NEW t, NEW D, Standing(t, D), NEW n \in Node,
           Single(t.parent, D, n), n \notin NodesOf(t),
           NEW p \in Node, NEW s \in Sides,
           t.root # NULL, t[s][p] = NULL,
           Place(t, KeyOf[n]) = Spot(t, p, s),
           Placed(Kids(t), D, KeyOf[n], t.root, p, s),
           NEW b, b = BSTInsert(t, n), NEW l, l = b.tree,
           NEW E, E = HungTrees(D, p, n)
    PROVE  /\ b.replaced = NULL
           /\ Grove(l, E) /\ l.root = t.root /\ l.heavy = t.heavy
           /\ \A m \in Node, u \in Sides :
                  l[u][m] = IF u = s /\ m = p THEN n ELSE t[u][m]
           /\ \A m \in Node : l.parent[m] = IF m = n THEN p ELSE t.parent[m]
           /\ Counts(l, E, n)
           /\ \A m \in Node \ {n} : Counts(t, D, m) => Counts(l, E, m)
<1> DEFINE C == Kids(t)
           P == t.parent
           k == KeyOf[n]
           hung == Attach(t, p, n, s)
           leaf == [hung EXCEPT !.left[n] = NULL, !.right[n] = NULL, !.size[n] = 1]
<1>1. /\ Grove(t, D) /\ Typed(t) /\ Forest(C, P, D) /\ P[t.root] = NULL
      /\ Single(P, D, n) /\ k \in Nat
    BY NodeFact DEF Standing, Grove
<1>2. /\ \A u \in Sides, m \in Node : C[u][m] = t[u][m] /\ t[u][m] \in Pointer
      /\ n # NULL /\ p # NULL /\ n \in Pointer /\ p \in Pointer /\ NULL \in Pointer
    BY <1>1, KidsFact, NodeFact
<1>3. /\ t.root \in Node /\ NodesOf(t) = D[t.root] /\ p \in D[t.root] /\ p # n
      /\ KeyBeyond(s, k, p)
      /\ \A m \in Node, u \in Sides :
             m \in D[t.root] /\ p \in At(D, C[u][m]) => KeyBeyond(u, k, m)
    BY <1>1, NodesOfFact DEF Placed
<1>4. /\ \A u \in Sides : t[u][n] = NULL
      /\ \A m \in Node : n \in D[m] <=> m = n
    BY <1>1, <1>2, SingleFact
<1>5. b.replaced = NULL /\ l = add_size_path(leaf, p, 1)
    BY DEF BSTInsert, Spot
<1>6. Forest(HungKids(C, p, s, n), HungParents(P, p, n), E)
    <2>1. Beyond(s, n, p) /\ C[s][p] = NULL
        BY <1>2, <1>3, KeyBeyondFact
    <2>2. ASSUME NEW m \in Node, NEW u \in Sides, p \in At(D, C[u][m])
          PROVE  Beyond(u, n, m)
        <3>1. p \in D[m]
            BY <1>1, <2>2, SubtreeFact DEF At
        <3>2. m \in D[t.root]
            BY <1>1, <1>3, <3>1, SameTree
        <3> QED BY <1>1, <1>3, <2>2, <3>2, KeyBeyondFact
    <2>3. E = HungTrees(D, p, n) /\ p # n
        BY <1>3
    <2> HIDE DEF C, P
    <2> QED BY <1>1, <2>1, <2>2, <2>3, Hung
<1>7. Joined(hung, t, p, n, s) /\ hung.root = t.root
    BY <1>1, <1>2, AttachFact
<1> HIDE DEF hung
<1>8. /\ Typed(leaf)
      /\ leaf.root = t.root /\ leaf.heavy = t.heavy
      /\ leaf.parent = hung.parent
      /\ \A m \in Node : leaf.left[m] = IF m = n THEN NULL ELSE hung.left[m]
      /\ \A m \in Node : leaf.right[m] = IF m = n THEN NULL ELSE hung.right[m]
      /\ \A m \in Node : leaf.size[m] = IF m = n THEN 1 ELSE hung.size[m]
    BY <1>2, <1>7 DEF Typed, Joined
<1> HIDE DEF leaf
<1>9. \A m \in Node, u \in Sides :
          leaf[u][m] = IF u = s /\ m = p THEN n ELSE t[u][m]
    BY <1>3, <1>4, <1>7, <1>8, SidesFact DEF Joined
<1>10. \A m \in Node : leaf.parent[m] = IF m = n THEN p ELSE t.parent[m]
    BY <1>7, <1>8 DEF Joined
<1>11. Grove(leaf, E)
    <2>1. \A m \in Node, u \in Sides : leaf[u][m] = HungKids(C, p, s, n)[u][m]
        BY <1>2, <1>9 DEF HungKids
    <2>2. \A m \in Node : leaf.parent[m] = HungParents(P, p, n)[m]
        BY <1>10 DEF HungParents
    <2> QED BY <1>6, <1>8, <2>1, <2>2, GroveIs
<1>12. \A m \in Node : E[m] = IF p \in D[m] THEN D[m] \cup {n} ELSE D[m]
    BY DEF HungTrees
<1>13. Path(leaf, p) = {m \in Node : p \in D[m]}
    <2>1. Path(leaf, p) = {m \in Node : p \in E[m]}
        <3>1. NULL \notin Node
            BY NodeFact
        <3> QED BY <1>2, <1>11, <3>1, PathFact DEF Grove
    <2>2. \A m \in Node : p \in E[m] <=> p \in D[m]
        BY <1>3, <1>12
    <2> QED BY <2>1, <2>2
<1>14. /\ SameLinks(l, leaf)
       /\ \A m \in Node : l.size[m] = IF p \in D[m] THEN leaf.size[m] + 1
                                                    ELSE leaf.size[m]
    <2>1. \A m \in Path(leaf, p) \cap Node : leaf.size[m] + 1 \in Nat
        BY <1>8, TypedFields
    <2>2. /\ SameLinks(l, leaf)
          /\ \A m \in Node : l.size[m] = IF m \in Path(leaf, p) THEN leaf.size[m] + 1
                                                                ELSE leaf.size[m]
        BY <1>5, <1>8, <2>1, AddSizeFact
    <2> QED BY <1>13, <2>2
<1>15. Grove(l, E)
    BY <1>11, <1>14, SameGrove
<1>16. Counts(l, E, n)
    <2>1. l.size[n] = 1 /\ E[n] = {n}
        BY <1>3, <1>8, <1>12, <1>14 DEF Single
    <2> QED BY <2>1, FS_Singleton DEF Counts
<1>17. ASSUME NEW m \in Node \ {n}, Counts(t, D, m)
       PROVE  Counts(l, E, m)
    <2>1. leaf.size[m] = Cardinality(D[m])
        BY <1>7, <1>8, <1>17 DEF Counts, Joined
    <2>2. CASE p \in D[m]
        <3>1. IsFiniteSet(D[m]) /\ n \notin D[m]
            BY <1>1, <1>4, <1>17, SubtreeFinite
        <3>2. Cardinality(D[m] \cup {n}) = Cardinality(D[m]) + 1
            BY <3>1, FS_AddElement
        <3>3. E[m] = D[m] \cup {n} /\ l.size[m] = leaf.size[m] + 1
            BY <1>12, <1>14, <2>2
        <3> QED BY <2>1, <3>2, <3>3, Zenon DEF Counts
    <2>3. CASE p \notin D[m]
        BY <1>12, <1>14, <2>1, <2>3 DEF Counts
    <2> QED BY <2>2, <2>3
<1>18. /\ l.root = t.root /\ l.heavy = t.heavy
       /\ \A m \in Node, u \in Sides :
              l[u][m] = IF u = s /\ m = p THEN n ELSE t[u][m]
       /\ \A m \in Node : l.parent[m] = IF m = n THEN p ELSE t.parent[m]
    BY <1>8, <1>9, <1>10, <1>14, SameLinksFact DEF SameLinks
<1> QED BY <1>5, <1>15, <1>16, <1>17, <1>18

(* n becomes the root of the empty tree.                                   *)
LEMMA InsertFirst ==
    ASSUME NEW t, NEW D, Standing(t, D), NEW n \in Node,
           Single(t.parent, D, n), t.root = NULL,
           NEW b, b = BSTInsert(t, n), NEW l, l = b.tree
    PROVE  /\ b.replaced = NULL
           /\ Grove(l, D) /\ l.root = n /\ l.heavy = t.heavy
           /\ \A u \in Sides : \A m \in Node : l[u][m] = t[u][m]
           /\ \A m \in Node : l.parent[m] = t.parent[m]
           /\ Counts(l, D, n)
           /\ \A m \in Node \ {n} : l.size[m] = t.size[m]
<1> DEFINE hung == Attach(t, NULL, n, "left")
           leaf == [hung EXCEPT !.left[n] = NULL, !.right[n] = NULL, !.size[n] = 1]
<1>1. /\ Grove(t, D) /\ Typed(t) /\ Forest(Kids(t), t.parent, D)
      /\ KeyOf[n] \in Nat /\ n \in Pointer /\ n # NULL /\ NULL \in Pointer
      /\ NULL \notin Node /\ "left" \in Sides
    BY NodeFact, SidesFact DEF Standing, Grove
<1>2. Place(t, KeyOf[n]) = [probe |-> t.root, parent |-> NULL, side |-> "left"]
    BY <1>1, PlaceFact
<1>3. b.replaced = NULL /\ l = add_size_path(leaf, NULL, 1)
    BY <1>2 DEF BSTInsert
<1>4. \A u \in Sides : t[u][n] = NULL
    BY <1>1, SingleFact, KidsFact
<1>5. /\ Typed(hung) /\ hung.root = n
      /\ hung.size = t.size /\ hung.heavy = t.heavy
      /\ \A m \in Node, u \in Sides : hung[u][m] = t[u][m]
      /\ \A m \in Node : hung.parent[m] = IF m = n THEN NULL ELSE t.parent[m]
    <2>1. Joined(hung, t, NULL, n, "left") /\ hung.root = n
        BY <1>1, AttachFact
    <2> QED BY <1>1, <2>1 DEF Joined
<1> HIDE DEF hung
<1>6. /\ Typed(leaf)
      /\ leaf.root = n /\ leaf.heavy = t.heavy
      /\ leaf.parent = hung.parent
      /\ \A m \in Node : leaf.left[m] = IF m = n THEN NULL ELSE hung.left[m]
      /\ \A m \in Node : leaf.right[m] = IF m = n THEN NULL ELSE hung.right[m]
      /\ \A m \in Node : leaf.size[m] = IF m = n THEN 1 ELSE hung.size[m]
    BY <1>1, <1>5 DEF Typed
<1> HIDE DEF leaf
<1>7. /\ \A m \in Node, u \in Sides : leaf[u][m] = t[u][m]
      /\ \A m \in Node : leaf.parent[m] = t.parent[m]
    BY <1>4, <1>5, <1>6, SidesFact DEF Single
<1>8. Grove(leaf, D)
    <2>1. \A m \in Node, u \in Sides : leaf[u][m] = Kids(t)[u][m]
        BY <1>1, <1>7, KidsFact
    <2> QED BY <1>1, <1>6, <1>7, <2>1, GroveIs
<1>9. Path(leaf, NULL) = {}
    <2>1. Path(leaf, NULL) = {m \in Node : NULL \in D[m]}
        BY <1>1, <1>8, PathFact DEF Grove
    <2> QED BY <1>1, <2>1, ForestTyped
<1>10. /\ SameLinks(l, leaf)
       /\ \A m \in Node : l.size[m] = leaf.size[m]
    <2>1. \A m \in Path(leaf, NULL) \cap Node : leaf.size[m] + 1 \in Nat
        BY <1>9
    <2>2. /\ SameLinks(l, leaf)
          /\ \A m \in Node : l.size[m] = IF m \in Path(leaf, NULL) THEN leaf.size[m] + 1
                                                                   ELSE leaf.size[m]
        BY <1>3, <1>6, <2>1, AddSizeFact
    <2> QED BY <1>9, <2>2
<1>11. Grove(l, D)
    BY <1>8, <1>10, SameGrove
<1>12. Counts(l, D, n)
    <2>1. l.size[n] = 1 /\ D[n] = {n}
        BY <1>6, <1>10 DEF Single
    <2> QED BY <2>1, FS_Singleton DEF Counts
<1>13. /\ l.root = n /\ l.heavy = t.heavy
       /\ \A u \in Sides : \A m \in Node : l[u][m] = t[u][m]
       /\ \A m \in Node : l.parent[m] = t.parent[m]
       /\ \A m \in Node \ {n} : l.size[m] = t.size[m]
    BY <1>5, <1>6, <1>7, <1>10, SameLinksFact DEF SameLinks
<1> QED BY <1>3, <1>11, <1>12, <1>13

(* Where a node hangs.                                                     *)
LEMMA HangsFact ==
    ASSUME NEW C, NEW P, NEW D, Forest(C, P, D), NEW c \in Node, NEW s \in Sides,
           NEW p, p = P[c], p # NULL => C[s][p] = c
    PROVE  \A m \in Node, u \in Sides : C[u][m] = c <=> u = s /\ m = p
<1> TAKE m \in Node, u \in Sides
<1>1. m # NULL /\ c # NULL
    BY NodeFact
<1>2. ASSUME C[u][m] = c PROVE u = s /\ m = p
    <2>1. m = p
        BY <1>1, <1>2 DEF Forest
    <2>2. C[s][p] = c
        BY <1>1, <2>1
    <2>3. u # Other(s)
        BY <1>1, <1>2, <2>1, <2>2, ParentFact
    <2> QED BY <2>1, <2>3, SidesFact
<1> QED BY <1>1, <1>2

LEMMA SideOfFact ==
    ASSUME NEW t, NEW D, Grove(t, D), NEW c \in Node, NEW p, p = t.parent[c],
           NEW s, s = SideOf(t, p, c)
    PROVE  s \in Sides /\ (p # NULL => t[s][p] = c)
<1>1. s \in Sides
    BY SidesFact DEF SideOf
<1>2. ASSUME p # NULL PROVE t[s][p] = c
    <2>1. PICK u \in Sides : t[u][p] = c
        BY <1>2, KidsFact DEF Grove, Forest
    <2> QED BY <1>2, <2>1, SidesFact DEF SideOf
<1> QED BY <1>1, <1>2

LEMMA PlaceOver ==
    ASSUME NEW t, NEW D, Standing(t, D), NEW k \in Nat,
           NEW old, old = find(t, k), old # NULL
    PROVE  /\ old \in Node /\ old \in NodesOf(t) /\ KeyOf[old] = k
           /\ \E s \in Sides, p \in Pointer :
                  /\ Place(t, k) = [probe |-> old, parent |-> p, side |-> s]
                  /\ p = t.parent[old]
                  /\ p # NULL => t[s][p] = old
<1>1. Grove(t, D) /\ Typed(t) /\ Forest(Kids(t), t.parent, D)
    BY DEF Standing, Grove
<1>2. old \in NodesOf(t) /\ KeyOf[old] = k
    BY SeekFact
<1>3. old \in Node
    BY <1>1, <1>2, NodesOfFact
<1>4. t.root # NULL
    BY <1>1, <1>2, NodesOfFact
<1>5. CASE KeyOf[t.root] = k
    <2>1. Place(t, k) = [probe |-> t.root, parent |-> NULL, side |-> "left"]
        BY <1>1, <1>5, PlaceFact
    <2>2. old = t.root
        BY <2>1 DEF find
    <2>3. t.parent[old] = NULL
        BY <1>4, <2>2 DEF Standing
    <2> QED BY <1>2, <1>3, <2>1, <2>2, <2>3, SidesFact, NodeFact
<1>6. CASE KeyOf[t.root] # k
    <2>1. PICK p \in Node, s \in Sides : Place(t, k) = Spot(t, p, s)
        BY <1>1, <1>4, <1>6, PlaceFact
    <2>2. t[s][p] = old
        BY <2>1 DEF find, Spot
    <2>3. t.parent[old] = p
        BY <1>1, <2>2, KidsFact DEF Forest
    <2>4. Place(t, k) = [probe |-> old, parent |-> p, side |-> s]
        BY <2>1, <2>2 DEF Spot
    <2> QED BY <1>2, <1>3, <2>2, <2>3, <2>4, NodeFact
<1> QED BY <1>5, <1>6

(* Nodes that change places leave the numbers of nodes as they are.        *)
LEMMA SwapSizes ==
    ASSUME NEW D, D \in [Node -> SUBSET Node], NEW a \in Node, NEW b \in Node,
           NEW m \in Node
    PROVE  Cardinality(SwapTrees(D, a, b)[m]) = Cardinality(D[Swap(a, b, m)])
<1> DEFINE S == D[Swap(a, b, m)]
           T == SwapTrees(D, a, b)[m]
           f == [x \in S |-> Swap(a, b, x)]
<1>1. T = {x \in Node : Swap(a, b, x) \in S}
    BY DEF SwapTrees
<1>2. S \subseteq Node
    BY SwapFact
<1>3. IsFiniteSet(S)
    BY <1>2, NodeFact, FS_Subset
<1> HIDE DEF S, T
<1>4. \A x \in S : Swap(a, b, x) \in T
    BY <1>1, <1>2, SwapFact
<1>5. \A y \in T : Swap(a, b, y) \in S /\ Swap(a, b, Swap(a, b, y)) = y
    BY <1>1, SwapFact
<1>6. \A x, y \in S : Swap(a, b, x) = Swap(a, b, y) => x = y
    BY SwapFact
<1>7. f \in Bijection(S, T)
    <2>1. f \in [S -> T] /\ \A x \in S : f[x] = Swap(a, b, x)
        BY <1>4
    <2> HIDE DEF f
    <2> QED BY <1>5, <1>6, <2>1 DEF Bijection, Injection, Surjection, IsInjective
<1>8. Cardinality(T) = Cardinality(S)
    BY <1>3, <1>7, FS_Bijection DEF ExistsBijection
<1> QED BY <1>8 DEF S, T

(* n takes the place of the node with its key.                             *)
LEMMA InsertOver ==
    ASSUME NEW t, NEW D, Standing(t, D), NEW n \in Node,
           Single(t.parent, D, n), n \notin NodesOf(t),
           NEW old, old = find(t, KeyOf[n]), old # NULL,
           NEW b, b = BSTInsert(t, n), NEW l, l = b.tree,
           NEW E, E = SwapTrees(D, old, n)
    PROVE  /\ b.replaced = old
           /\ Grove(l, E) /\ l.root = Swap(old, n, t.root)
           /\ \A m \in Node, u \in Sides :
                  l[u][m] = SwapKids(Kids(t), old, n)[u][m]
           /\ \A m \in Node : l.parent[m] = Swap(old, n, t.parent[Swap(old, n, m)])
           /\ \A m \in Node : l.heavy[m] = IF m = old THEN "none" ELSE t.heavy[m]
           /\ l.size[old] = 1
           /\ \A m \in Node \ {old} : Counts(t, D, Swap(old, n, m)) => Counts(l, E, m)
<1>1. /\ Grove(t, D) /\ Typed(t) /\ Forest(Kids(t), t.parent, D)
      /\ KeyOf[n] \in Nat
      /\ \A u \in Sides : Kids(t)[u] = t[u]
    BY NodeFact, KidsFact DEF Standing, Grove
<1>2. old \in Node /\ old \in NodesOf(t) /\ KeyOf[old] = KeyOf[n] /\ old # n
    BY <1>1, PlaceOver
<1>3. PICK s \in Sides, p \in Pointer :
          /\ Place(t, KeyOf[n]) = [probe |-> old, parent |-> p, side |-> s]
          /\ p = t.parent[old]
          /\ p # NULL => t[s][p] = old
    BY <1>1, PlaceOver
<1>4. \A m \in Node, u \in Sides : t[u][m] = old <=> u = s /\ m = p
    BY <1>1, <1>3, <1>2, HangsFact
<1>5. /\ \A u \in Sides : t[u][n] = NULL
      /\ \A m \in Node, u \in Sides : t[u][m] # n
      /\ \A m \in Node : t.parent[m] # n
      /\ t.parent[n] = NULL /\ p # n /\ p # old
    <2>1. t.parent[n] = NULL
        BY DEF Single
    <2>2. p # old
        BY <1>1, <1>2, <1>3, ParentFact, NodeFact
    <2> QED BY <1>1, <1>2, <1>3, <2>1, <2>2, SingleFact
<1>6. /\ n \in Pointer /\ old \in Pointer /\ n # NULL /\ old # NULL /\ NULL \in Pointer
      /\ t.left[old] \in Pointer /\ t.right[old] \in Pointer
      /\ t.left[old] # n /\ t.right[old] # n /\ t.left[old] # old /\ t.right[old] # old
      /\ t.size[old] \in Nat
      /\ "left" \in Sides /\ "right" \in Sides /\ "left" # "right"
      /\ Sides = {"left", "right"}
    BY <1>1, <1>2, <1>4, <1>5, NodeFact, SidesFact, TypedFields
(* The steps of the code.                                                  *)
<1>7. PICK t1 : t1 = Attach(t, p, n, s)
    OBVIOUS
<1>8. PICK t2 : t2 = Link(t1, n, t.left[old], "left")
    OBVIOUS
<1>9. PICK t3 : t3 = Link(t2, n, t.right[old], "right")
    OBVIOUS
<1>10. PICK t4 : t4 = [t3 EXCEPT !.size[n] = t.size[old]]
    OBVIOUS
<1>11. b.replaced = old /\ l = Blanked(t4, old)
    <2>1. PICK place : place = Place(t, KeyOf[n])
        OBVIOUS
    <2>2. place.probe = old /\ place.parent = p /\ place.side = s
        BY <1>3, <2>1
    <2>3. b = [tree |-> Blanked(t4, old), replaced |-> old]
        BY <1>6, <1>7, <1>8, <1>9, <1>10, <2>1, <2>2, Zenon DEF BSTInsert
    <2> QED BY <2>3
<1>12. Joined(t1, t, p, n, s) /\ t1.root = IF p = NULL THEN n ELSE t.root
    BY <1>1, <1>6, <1>7, AttachFact
<1>13. Joined(t2, t1, n, t.left[old], "left") /\ t2.root = t1.root
    <2>1. Typed(t1)
        BY <1>12 DEF Joined
    <2> QED BY <1>6, <1>8, <2>1, LinkFact
<1>14. Joined(t3, t2, n, t.right[old], "right") /\ t3.root = t2.root
    <2>1. Typed(t2)
        BY <1>13 DEF Joined
    <2> QED BY <1>6, <1>9, <2>1, LinkFact
<1>15. /\ SameLinks(t4, t3)
       /\ \A u \in Sides : t4[u] = t3[u]
       /\ \A m \in Node : t4.size[m] = IF m = n THEN t.size[old] ELSE t3.size[m]
    <2>1. Typed(t3)
        BY <1>14 DEF Joined
    <2>2. /\ SameLinks(t4, t3)
          /\ \A m \in Node : t4.size[m] = IF m = n THEN t.size[old] ELSE t3.size[m]
        BY <1>6, <1>10, <2>1, SetSizeFact
    <2> QED BY <2>2, SameLinksFact
<1>16. Loosed(l, t4, old)
    BY <1>2, <1>11, <1>15, BlankedFact DEF SameLinks
(* All of them together.                                                   *)
<1>17. \A m \in Node, u \in Sides :
           l[u][m] = IF m = old THEN NULL ELSE IF m = n THEN t[u][old]
                     ELSE IF u = s /\ m = p THEN n ELSE t[u][m]
    <2> TAKE m \in Node, u \in Sides
    <2>1. CASE m = old
        BY <1>16, <2>1 DEF Loosed
    <2>2. CASE m # old /\ m = n
        <3>1. l[u][m] = t3[u][m]
            BY <1>15, <1>16, <2>2 DEF Loosed
        <3>2. CASE u = "left"
            BY <1>6, <1>13, <1>14, <2>2, <3>1, <3>2 DEF Joined
        <3>3. CASE u = "right"
            BY <1>6, <1>13, <1>14, <2>2, <3>1, <3>3 DEF Joined
        <3> QED BY <1>6, <3>2, <3>3
    <2>3. CASE m # old /\ m # n
        BY <1>12, <1>13, <1>14, <1>15, <1>16, <2>3 DEF Joined, Loosed
    <2> QED BY <2>1, <2>2, <2>3
<1>18. \A m \in Node :
           l.parent[m] = IF m = old THEN NULL
                         ELSE IF m = t.right[old] \/ m = t.left[old] THEN n
                         ELSE IF m = n THEN p ELSE t.parent[m]
    BY <1>12, <1>13, <1>14, <1>15, <1>16 DEF Joined, SameLinks, Loosed
<1>19. l.root = IF p = NULL THEN n ELSE t.root
    BY <1>12, <1>13, <1>14, <1>15, <1>16 DEF Joined, SameLinks, Loosed
<1>20. /\ Swap(old, n, old) = n /\ Swap(old, n, n) = old
       /\ \A q : q # old /\ q # n => Swap(old, n, q) = q
       /\ \A m \in Node : Swap(old, n, m) \in Node
    BY <1>2, SwapFact
<1>21. Forest(SwapKids(Kids(t), old, n), SwapParents(t.parent, old, n), E)
    <2>1. \A x \in Node, u \in Sides : Beyond(u, x, old) => Beyond(u, x, n)
        BY <1>2, BeyondFact
    <2> QED BY <1>1, <1>2, <2>1, Swapped
<1>22. \A m \in Node, u \in Sides : l[u][m] = Swap(old, n, t[u][Swap(old, n, m)])
    <2> TAKE m \in Node, u \in Sides
    <2>1. CASE m = old
        BY <1>5, <1>6, <1>17, <1>20, <2>1
    <2>2. CASE m = n
        <3>1. t[u][old] # old /\ t[u][old] # n
            BY <1>6
        <3> QED BY <1>2, <1>17, <1>20, <2>2, <3>1
    <2>3. CASE m # old /\ m # n
        BY <1>4, <1>5, <1>17, <1>20, <2>3
    <2> QED BY <2>1, <2>2, <2>3
<1>23. \A m \in Node : l.parent[m] = Swap(old, n, t.parent[Swap(old, n, m)])
    <2>1. \A m \in Node : t.parent[m] = old <=> m = t.right[old] \/ m = t.left[old]
        <3> TAKE m \in Node
        <3>1. ASSUME t.parent[m] = old PROVE m = t.right[old] \/ m = t.left[old]
            <4>1. PICK u \in Sides : t[u][old] = m
                BY <1>1, <1>2, <3>1, NodeFact DEF Forest
            <4> QED BY <1>6, <4>1
        <3>2. ASSUME NEW u \in Sides, t[u][old] = m PROVE t.parent[m] = old
            BY <1>1, <1>2, <3>2, NodeFact DEF Forest
        <3> QED BY <1>6, <3>1, <3>2
    <2> TAKE m \in Node
    <2>2. CASE m = old
        BY <1>5, <1>6, <1>18, <1>20, <2>2
    <2>3. CASE m = n
        BY <1>2, <1>3, <1>5, <1>6, <1>18, <1>20, <2>3
    <2>4. CASE m # old /\ m # n
        BY <1>5, <1>18, <1>20, <2>1, <2>4
    <2> QED BY <2>2, <2>3, <2>4
<1>28. \A m \in Node, u \in Sides : l[u][m] = SwapKids(Kids(t), old, n)[u][m]
    BY <1>1, <1>22 DEF SwapKids
<1>24. Grove(l, E)
    <2>2. \A m \in Node : l.parent[m] = SwapParents(t.parent, old, n)[m]
        BY <1>23 DEF SwapParents
    <2> QED BY <1>16, <1>21, <1>28, <2>2, GroveIs DEF Loosed
<1>25. l.root = Swap(old, n, t.root)
    <2>1. NodesOf(t) = D[t.root] /\ t.root \in Node /\ t.root # n /\ t.parent[t.root] = NULL
        <3>1. t.root # NULL /\ t.root \in Node /\ NodesOf(t) = D[t.root]
            BY <1>1, <1>2, NodesOfFact
        <3>2. t.root \in D[t.root]
            BY <1>1, <3>1, SubtreeFact
        <3> QED BY <3>1, <3>2 DEF Standing
    <2>2. p = NULL <=> t.root = old
        BY <1>1, <1>2, <1>3, <2>1, AboveRoot, SubtreeFact
    <2> QED BY <1>19, <1>20, <2>1, <2>2
<1>26. ASSUME NEW m \in Node \ {old}, Counts(t, D, Swap(old, n, m))
       PROVE  Counts(l, E, m)
    <2>1. Cardinality(E[m]) = Cardinality(D[Swap(old, n, m)])
        <3>1. D \in [Node -> SUBSET Node]
            BY <1>1 DEF Forest
        <3> QED BY <1>2, <3>1, SwapSizes
    <2>2. t3.size = t.size
        BY <1>12, <1>13, <1>14 DEF Joined
    <2>3. l.size[m] = IF m = n THEN t.size[old] ELSE t.size[m]
        BY <1>15, <1>16, <1>26, <2>2 DEF Loosed
    <2>4. l.size[m] = t.size[Swap(old, n, m)]
        BY <1>2, <1>20, <1>26, <2>3
    <2> QED BY <1>26, <2>1, <2>4 DEF Counts
<1>27. \A m \in Node : l.heavy[m] = IF m = old THEN "none" ELSE t.heavy[m]
    BY <1>12, <1>13, <1>14, <1>15, <1>16 DEF Joined, SameLinks, Loosed
<1>29. l.size[old] = 1
    BY <1>2, <1>16 DEF Loosed
<1> QED BY <1>11, <1>23, <1>24, <1>25, <1>26, <1>27, <1>28, <1>29

-----------------------------------------------------------------------------
(* remove of a node with one child at most.                                *)
LEMMA RemoveOuter ==
    ASSUME NEW t, NEW D, Standing(t, D), NEW n \in Node, n \in NodesOf(t),
           \A m \in NodesOf(t) : Counts(t, D, m),
           NEW a \in Sides, t[a][n] = NULL,
           NEW c, c = t[Other(a)][n],
           NEW l, l = Blanked(BSTRemoveOuter(t, n).tree, n),
           NEW E, E = CutTrees(D, n)
    PROVE  /\ Grove(l, E)
           /\ l.root = IF t.parent[n] = NULL THEN c ELSE t.root
           /\ \A m \in Node, u \in Sides : l[u][m] = CutKids(Kids(t), n, c)[u][m]
           /\ l.parent = CutParents(t.parent, n, c)
           /\ \A m \in Node : l.heavy[m] = IF m = n THEN "none" ELSE t.heavy[m]
           /\ l.size[n] = 1
           /\ \A m \in Node \ {n} : Counts(t, D, m) => Counts(l, E, m)
<1> DEFINE P == t.parent
<1>1. /\ Grove(t, D) /\ Typed(t) /\ Forest(Kids(t), P, D)
      /\ \A u \in Sides : Kids(t)[u] = t[u]
    BY KidsFact DEF Standing, Grove
<1>2. PICK p : p = t.parent[n]
    OBVIOUS
<1>3. PICK s : s = SideOf(t, p, n)
    OBVIOUS
<1>4. s \in Sides /\ (p # NULL => t[s][p] = n)
    BY <1>1, <1>2, <1>3, SideOfFact
<1>5. /\ c \in Pointer /\ p \in Pointer /\ Other(a) \in Sides
      /\ n # NULL /\ p # n /\ c # n /\ NULL \notin Node
      /\ \A m \in Node : c = m => P[m] = n /\ m # p
    <2>1. c \in Pointer /\ p \in Pointer /\ Other(a) \in Sides /\ n # NULL /\ NULL \notin Node
        BY <1>1, <1>2, ForestTyped, SidesFact, NodeFact
    <2>2. p # n /\ (p # NULL => p \in Node /\ p \notin D[n])
        BY <1>1, <1>2, <2>1, ParentFact
    <2>3. c # NULL => c \in Node /\ c \in D[n] /\ c # n /\ P[c] = n
        BY <1>1, <2>1, SubtreeFact, NodeFact DEF Forest
    <2> QED BY <2>1, <2>2, <2>3
<1>6. \A m \in Node, u \in Sides : t[u][m] = n <=> u = s /\ m = p
    BY <1>1, <1>2, <1>4, HangsFact
<1>7. c = IF t.left[n] = NULL THEN t.right[n] ELSE t.left[n]
    BY SidesFact
(* The steps of the code.                                                  *)
<1>8. PICK t1 : t1 = Attach(t, p, c, s)
    OBVIOUS
<1>9. PICK t2 : t2 = add_size_path(t1, p, -1)
    OBVIOUS
<1>10. l = Blanked(t2, n)
    BY <1>2, <1>3, <1>7, <1>8, <1>9 DEF BSTRemoveOuter, Removal
<1>11. Joined(t1, t, p, c, s) /\ t1.root = IF p = NULL THEN c ELSE t.root
    BY <1>1, <1>4, <1>5, <1>8, AttachFact
<1>12. /\ Forest(CutKids(Kids(t), n, c), CutParents(P, n, c), E)
       /\ \A m \in Node : E[m] = IF m = n THEN {n} ELSE D[m] \ {n}
       /\ \A m \in Node : CutParents(P, n, c)[m] =
              IF m = n THEN NULL ELSE IF m = c THEN P[n] ELSE P[m]
    <2>1. Kids(t)[a][n] = NULL /\ c = Kids(t)[Other(a)][n]
        BY <1>1, <1>5
    <2> QED BY <1>1, <2>1, Cut DEF CutTrees, CutParents
<1>13. \A m \in Node : p \in E[m] <=> m # n /\ n \in D[m]
    <2> TAKE m \in Node
    <2>1. CASE m = n
        <3>1. E[n] = {n} /\ p # n
            BY <1>5, <1>12
        <3> QED BY <2>1, <3>1
    <2>2. CASE m # n
        <3>1. p \in E[m] <=> p \in D[m]
            BY <1>5, <1>12, <2>2
        <3>2. p \in D[m] <=> n \in D[m]
            <4>1. CASE p = NULL
                <5>1. D[m] \subseteq Node
                    BY <1>1, ForestTyped
                <5>2. n \notin D[m]
                    <6>1. Forest(Kids(t), P, D) /\ P[n] = NULL
                        BY <1>1, <1>2, <4>1
                    <6> HIDE DEF P
                    <6> QED BY <2>2, <6>1, AboveRoot
                <5> QED BY <1>5, <4>1, <5>1, <5>2
            <4>2. CASE p # NULL
                BY <1>1, <1>2, <2>2, <4>2, AboveParent
            <4> QED BY <4>1, <4>2
        <3> QED BY <2>2, <3>1, <3>2
    <2> QED BY <2>1, <2>2
<1>14. Path(t1, p) = {m \in Node : m # n /\ n \in D[m]}
    <2>1. Typed(t1)
        BY <1>11 DEF Joined
    <2>2. \A m \in Node \ {n} : t1.parent[m] = CutParents(P, n, c)[m]
        BY <1>2, <1>11, <1>12 DEF Joined
    <2>3. E[n] = {n} /\ t1.parent[n] # n
        BY <1>2, <1>5, <1>11, <1>12 DEF Joined
    <2>4. \A x \in Pointer : (n \in Node => x # n) => Path(t1, x) = {m \in Node : x \in E[m]}
        <3> HIDE DEF P
        <3> QED BY <1>12, <2>1, <2>2, <2>3, PathFact
    <2>5. Path(t1, p) = {m \in Node : p \in E[m]}
        BY <1>5, <2>4
    <2> QED BY <1>13, <2>5
<1>15. \A m \in Node : Counts(t, D, m) /\ n \in D[m] =>
           /\ t1.size[m] + -1 \in Nat
           /\ t1.size[m] + -1 = Cardinality(D[m] \ {n})
    <2> TAKE m \in Node
    <2>1. SUFFICES ASSUME Counts(t, D, m), n \in D[m]
                   PROVE  /\ t1.size[m] + -1 \in Nat
                          /\ t1.size[m] + -1 = Cardinality(D[m] \ {n})
        OBVIOUS
    <2>2. IsFiniteSet(D[m]) /\ Cardinality(D[m]) \in Nat
        BY <1>1, SubtreeFinite
    <2>3. IsFiniteSet(D[m] \ {n}) /\ Cardinality(D[m] \ {n}) = Cardinality(D[m]) - 1
        BY <2>1, <2>2, FS_RemoveElement
    <2>4. Cardinality(D[m] \ {n}) \in Nat
        BY <2>3, FS_CardinalityType
    <2>5. t1.size[m] = Cardinality(D[m])
        BY <1>11, <2>1 DEF Counts, Joined
    <2> QED BY <2>2, <2>3, <2>4, <2>5
<1>16. \A m \in Node : n \in D[m] => Counts(t, D, m)
    <2>1. t.root \in Node /\ NodesOf(t) = D[t.root] /\ P[t.root] = NULL
        <3>1. t.root # NULL
            BY <1>1, NodesOfFact
        <3> QED BY <1>1, <3>1, NodesOfFact DEF Standing
    <2> QED BY <1>1, <2>1, SameTree
<1>17. /\ SameLinks(t2, t1)
       /\ \A u \in Sides : t2[u] = t1[u]
       /\ \A m \in Node : t2.size[m] = IF m # n /\ n \in D[m] THEN t1.size[m] + -1
                                                              ELSE t1.size[m]
    <2>1. Typed(t1)
        BY <1>11 DEF Joined
    <2>2. \A m \in Path(t1, p) \cap Node : t1.size[m] + -1 \in Nat
        BY <1>14, <1>15, <1>16
    <2>3. /\ SameLinks(t2, t1)
          /\ \A m \in Node : t2.size[m] = IF m \in Path(t1, p) THEN t1.size[m] + -1
                                                               ELSE t1.size[m]
        BY <1>9, <2>1, <2>2, AddSizeFact
    <2> QED BY <1>14, <2>3, SameLinksFact
<1>18. Loosed(l, t2, n)
    <2>1. Typed(t2)
        BY <1>17 DEF SameLinks
    <2> QED BY <1>10, <2>1, BlankedFact
(* All of them together.                                                   *)
<1>19. \A m \in Node, u \in Sides : l[u][m] = CutKids(Kids(t), n, c)[u][m]
    BY <1>1, <1>6, <1>11, <1>17, <1>18 DEF Joined, Loosed, CutKids
<1>20. \A m \in Node : l.parent[m] = CutParents(P, n, c)[m]
    BY <1>2, <1>11, <1>12, <1>17, <1>18 DEF Joined, SameLinks, Loosed
<1>21. Grove(l, E)
    <2> HIDE DEF P
    <2> QED BY <1>12, <1>18, <1>19, <1>20, GroveIs DEF Loosed
<1>22. l.parent = CutParents(P, n, c)
    <2>1. l.parent \in [Node -> Pointer]
        BY <1>21, TypedFields DEF Grove
    <2> QED BY <1>20, <2>1 DEF CutParents
<1>23. ASSUME NEW m \in Node \ {n}, Counts(t, D, m) PROVE Counts(l, E, m)
    <2>1. E[m] = D[m] \ {n}
        BY <1>12
    <2>2. CASE n \in D[m]
        <3>1. l.size[m] = t1.size[m] + -1
            BY <1>17, <1>18, <1>23, <2>2 DEF Loosed
        <3> QED BY <1>15, <1>23, <2>1, <2>2, <3>1 DEF Counts
    <2>3. CASE n \notin D[m]
        <3>1. D[m] \ {n} = D[m]
            BY <2>3
        <3>2. l.size[m] = t.size[m]
            BY <1>11, <1>17, <1>18, <1>23, <2>3 DEF Loosed, Joined
        <3> QED BY <1>23, <2>1, <3>1, <3>2 DEF Counts
    <2> QED BY <2>2, <2>3
<1>24. l.root = IF t.parent[n] = NULL THEN c ELSE t.root
    BY <1>2, <1>11, <1>17, <1>18 DEF SameLinks, Loosed
<1>25. \A m \in Node : l.heavy[m] = IF m = n THEN "none" ELSE t.heavy[m]
    BY <1>11, <1>17, <1>18 DEF Joined, SameLinks, Loosed
<1>26. l.size[n] = 1
    BY <1>18 DEF Loosed
<1> QED BY <1>19, <1>21, <1>22, <1>23, <1>24, <1>25, <1>26

-----------------------------------------------------------------------------
(* remove of a node with two children.  Its successor s, below q, is taken *)
(* out of the forest first, and then changes places with it.               *)

Inner(t, D, n, s, q, c) ==
    /\ n \in Node /\ s \in Node /\ q \in Node
    /\ s # n /\ q # s
    /\ t.left[n] \in Node /\ t.right[n] \in Node
    /\ s = Neighbour(t, n, "right")
    /\ s \in D[t.right[n]] /\ t.left[s] = NULL
    /\ \A x \in D[t.right[n]] : x = s \/ Beyond("left", s, x)
    /\ q = t.parent[s] /\ q \in D[n] /\ c = t.right[s]
    /\ s = t.right[n] => q = n
    /\ s # t.right[n] => q # n /\ t.left[q] = s

LEMMA InnerFact ==
    ASSUME NEW t, NEW D, Grove(t, D), NEW n \in Node,
           t.left[n] # NULL, t.right[n] # NULL,
           NEW s, s = Neighbour(t, n, "right"),
           NEW q, q = t.parent[s], NEW c, c = t.right[s]
    PROVE  Inner(t, D, n, s, q, c)
<1>1. /\ Typed(t) /\ Forest(Kids(t), t.parent, D)
      /\ Kids(t)["left"] = t.left /\ Kids(t)["right"] = t.right
      /\ "left" \in Sides /\ "right" \in Sides /\ Other("right") = "left"
      /\ Other("left") = "right"
    BY KidsFact, SidesFact DEF Grove
<1>2. /\ t.left[n] \in Node /\ t.right[n] \in Node /\ n \in D[n]
      /\ D[t.right[n]] \subseteq D[n] /\ n \notin D[t.right[n]]
      /\ t.right[n] # n /\ t.right[n] \in D[n]
      /\ t.parent[t.right[n]] = n
      /\ D[n] \subseteq Node
    <2>1. t.left[n] \in Node /\ t.right[n] \in Node /\ D[n] \subseteq Node
        BY <1>1, TypedFields, NodeFact, ForestTyped
    <2>2. Kids(t)["right"][n] # NULL /\ Kids(t)["right"][n] = t.right[n]
        BY <1>1
    <2>3. /\ D[t.right[n]] \subseteq D[n] /\ n \notin D[t.right[n]]
          /\ t.right[n] # n /\ t.right[n] \in D[n] /\ n \in D[n]
        BY <1>1, <2>2, SubtreeFact
    <2>4. t.parent[t.right[n]] = n
        BY <1>1, <2>2 DEF Forest
    <2> QED BY <2>1, <2>3, <2>4
<1>3. s = Outermost(t, t.right[n], "left")
    BY <1>1 DEF Neighbour
<1>4. /\ s \in Node /\ s \in D[t.right[n]] /\ t.left[s] = NULL
      /\ \A x \in D[t.right[n]] : x = s \/ Beyond("left", s, x)
      /\ s # t.right[n] => /\ q \in Node /\ q \in D[t.right[n]]
                           /\ t.left[q] = s
    BY <1>1, <1>2, <1>3, EndFact
<1>5. CASE s = t.right[n]
    BY <1>2, <1>4, <1>5 DEF Inner
<1>6. CASE s # t.right[n]
    <2>1. q # NULL /\ t.parent[s] # s
        BY <1>1, <1>4, <1>6, ParentFact, NodeFact
    <2> QED BY <1>2, <1>4, <1>6, <2>1 DEF Inner
<1> QED BY <1>5, <1>6

(* The forest that is left.                                                *)
InnerKids(C, n, s, c) == SwapKids(CutKids(C, s, c), n, s)
InnerParents(P, n, s, c) == SwapParents(CutParents(P, s, c), n, s)
InnerTrees(D, n, s) == SwapTrees(CutTrees(D, s), n, s)

LEMMA InnerForest ==
    ASSUME NEW t, NEW D, Grove(t, D), NEW n, NEW s, NEW q, NEW c,
           Inner(t, D, n, s, q, c)
    PROVE  Forest(InnerKids(Kids(t), n, s, c), InnerParents(t.parent, n, s, c),
                  InnerTrees(D, n, s))
<1>1. /\ Typed(t) /\ Forest(Kids(t), t.parent, D)
      /\ Kids(t)["left"] = t.left /\ Kids(t)["right"] = t.right
      /\ "left" \in Sides /\ "right" \in Sides /\ Other("right") = "left"
      /\ Other("left") = "right"
    BY KidsFact, SidesFact DEF Grove
<1>2. /\ n \in Node /\ s \in Node /\ s # n /\ n # s
      /\ t.right[n] \in Node /\ t.right[n] # NULL
      /\ s \in D[t.right[n]] /\ t.left[s] = NULL /\ c = t.right[s]
      /\ \A x \in D[t.right[n]] : x = s \/ Beyond("left", s, x)
    BY NodeFact DEF Inner
<1> DEFINE C == CutKids(Kids(t), s, c)
           P == CutParents(t.parent, s, c)
           F == CutTrees(D, s)
<1>3. Forest(C, P, F) /\ Single(P, F, s)
    <2>1. Kids(t)["left"][s] = NULL /\ c = Kids(t)[Other("left")][s]
        BY <1>1, <1>2
    <2> QED BY <1>1, <1>2, <2>1, Cut
<1>4. \A m \in Node : F[m] = IF m = s THEN {s} ELSE D[m] \ {s}
    BY DEF CutTrees
<1> HIDE DEF C, P, F
<1>5. /\ \A m \in Node : D[m] \subseteq Node
      /\ Beyond("right", s, n)
      /\ \A m \in Node : n \in D[m] => s \in D[m]
    <2>1. Kids(t)["right"][n] # NULL /\ Kids(t)["right"][n] = t.right[n]
        BY <1>1, <1>2
    <2>2. Beyond("right", s, n) /\ s \in D[n]
        BY <1>1, <1>2, <2>1, SubtreeFact
    <2>3. \A m \in Node : D[m] \subseteq Node
        BY <1>1, ForestTyped
    <2> QED BY <1>1, <1>2, <2>2, <2>3, Inherits
<1>6. ASSUME NEW x \in Node, NEW u \in Sides, x # n, x \in F[n], Beyond(u, x, n)
      PROVE  Beyond(u, x, s)
    <2>1. x \in D[n] /\ x # s
        BY <1>2, <1>4, <1>6
    <2>2. PICK v \in Sides : Kids(t)[v][n] # NULL /\ x \in D[Kids(t)[v][n]]
        BY <1>1, <1>2, <1>6, <2>1, SubtreeFact
    <2>3. v = u
        <3>1. Beyond(v, x, n)
            BY <1>1, <1>2, <2>2, SubtreeFact
        <3> QED BY <1>2, <1>6, <3>1, BeyondFact, SidesFact
    <2>4. CASE u = "right"
        <3>1. Beyond("left", s, x)
            BY <1>1, <1>2, <2>1, <2>2, <2>3, <2>4
        <3> QED BY <1>1, <1>2, <2>4, <3>1, BeyondFact
    <2>5. CASE u = "left"
        <3>1. Beyond("left", n, s)
            BY <1>1, <1>2, <1>5, BeyondFact
        <3> QED BY <1>1, <1>2, <1>6, <2>5, <3>1, BeyondFact
    <2> QED BY <2>4, <2>5, SidesFact
<1>7. ASSUME NEW x \in Node, NEW u \in Sides, x # n, n \in F[x], Beyond(u, x, n)
      PROVE  Beyond(u, x, s)
    <2>1. n \in D[x]
        <3>1. F[x] = {s} \/ F[x] = D[x] \ {s}
            BY <1>4
        <3> QED BY <1>2, <1>7, <3>1
    <2>2. PICK v \in Sides : Kids(t)[v][x] # NULL /\ n \in D[Kids(t)[v][x]]
        BY <1>1, <1>7, <2>1, SubtreeFact
    <2>3. s \in D[Kids(t)[v][x]]
        BY <1>1, <1>5, <2>2, ForestTyped
    <2>4. Beyond(v, n, x) /\ Beyond(v, s, x)
        BY <1>1, <2>2, <2>3, SubtreeFact
    <2>5. u = Other(v)
        BY <1>2, <1>7, <2>4, BeyondFact, SidesFact
    <2> QED BY <1>2, <2>4, <2>5, BeyondFact, SidesFact
<1>8. \A x \in Node, u \in Sides :
          x # n /\ (x \in F[n] \/ n \in F[x]) /\ Beyond(u, x, n) => Beyond(u, x, s)
    BY <1>6, <1>7
<1>9. Forest(SwapKids(C, n, s), SwapParents(P, n, s), SwapTrees(F, n, s))
    BY <1>2, <1>3, <1>8, Swapped
<1> QED BY <1>9 DEF C, P, F, InnerKids, InnerParents, InnerTrees

(* Its links, one by one.                                                  *)
LEMMA InnerLinks ==
    ASSUME NEW t, NEW D, Grove(t, D), NEW n, NEW s, NEW q, NEW c,
           Inner(t, D, n, s, q, c),
           NEW K, K = InnerKids(Kids(t), n, s, c),
           NEW Q, Q = InnerParents(t.parent, n, s, c)
    PROVE  /\ \A u \in Sides, m \in Node :
                  /\ m = n => K[u][m] = NULL
                  /\ m # n /\ m # s => K[u][m] = IF t[u][m] = n THEN s
                                                 ELSE IF t[u][m] = s THEN c
                                                 ELSE t[u][m]
           /\ K["left"][s] = t.left[n]
           /\ K["right"][s] = IF s = t.right[n] THEN c ELSE t.right[n]
           /\ \A m \in Node :
                  /\ m = n => Q[m] = NULL
                  /\ m = s => Q[m] = t.parent[n]
                  /\ m = c => Q[m] = IF q = n THEN s ELSE q
                  /\ m # n /\ m # s /\ m # c =>
                         Q[m] = IF t.parent[m] = n THEN s ELSE t.parent[m]
<1>1. /\ Typed(t) /\ Forest(Kids(t), t.parent, D)
      /\ Kids(t)["left"] = t.left /\ Kids(t)["right"] = t.right
      /\ "left" \in Sides /\ "right" \in Sides
      /\ \A u \in Sides : Kids(t)[u] = t[u]
      /\ \A u \in Sides : u = "left" \/ u = "right"
    BY KidsFact, SidesFact DEF Grove
<1>2. /\ n \in Node /\ s \in Node /\ s # n /\ n # NULL /\ s # NULL
      /\ c = t.right[s] /\ q = t.parent[s] /\ q # s /\ t.left[s] = NULL
      /\ s # t.left[n] /\ t.left[n] # n /\ t.right[n] # n
      /\ t.parent[n] # n /\ t.parent[n] # s
      /\ c # n /\ c # s
    <2>1. /\ n \in Node /\ s \in Node /\ s # n /\ n # NULL /\ s # NULL
          /\ c = t.right[s] /\ q = t.parent[s] /\ q # s /\ t.left[s] = NULL
          /\ t.right[n] # NULL /\ t.left[n] # NULL /\ s \in D[t.right[n]]
        BY NodeFact DEF Inner
    <2>2. /\ t.left[n] # n /\ t.right[n] # n /\ s \in D[n]
          /\ s # t.left[n]
        <3>1. /\ Kids(t)["left"][n] # NULL /\ Kids(t)["left"][n] = t.left[n]
              /\ Kids(t)["right"][n] # NULL /\ Kids(t)["right"][n] = t.right[n]
            BY <1>1, <2>1
        <3>2. t.left[n] # n /\ t.right[n] # n /\ s \in D[n]
            BY <1>1, <2>1, <3>1, SubtreeFact
        <3>3. s \notin D[t.left[n]]
            BY <1>1, <2>1, <3>1, SidesApart, SidesFact DEF At
        <3>4. t.left[n] \in D[t.left[n]]
            BY <1>1, <2>1, <3>1, ForestTyped, SubtreeFact
        <3> QED BY <3>2, <3>3, <3>4
    <2>3. t.parent[n] # n /\ t.parent[n] # s
        <3>1. t.parent[n] # NULL => t.parent[n] # n /\ t.parent[n] \notin D[n]
            BY <1>1, <2>1, ParentFact
        <3> QED BY <2>1, <2>2, <3>1
    <2>4. c # n /\ c # s
        <3>1. c # NULL => t.parent[c] = s /\ c # s
            BY <1>1, <2>1, SubtreeFact DEF Forest
        <3> QED BY <2>1, <2>3, <3>1
    <2> QED BY <2>1, <2>2, <2>3, <2>4
<1> DEFINE S(x) == Swap(n, s, x)
           C == CutKids(Kids(t), s, c)
           P == CutParents(t.parent, s, c)
<1>3. /\ S(n) = s /\ S(s) = n /\ S(NULL) = NULL
      /\ \A x : x # n /\ x # s => S(x) = x
      /\ \A m \in Node : S(m) \in Node
    BY <1>2, SwapFact
<1> HIDE DEF S
<1>4. /\ \A u \in Sides, m \in Node : K[u][m] = S(C[u][S(m)])
      /\ \A m \in Node : Q[m] = S(P[S(m)])
    BY DEF S, InnerKids, InnerParents, SwapKids, SwapParents
<1>5. /\ \A u \in Sides, m \in Node :
             C[u][m] = IF m = s THEN NULL ELSE IF t[u][m] = s THEN c ELSE t[u][m]
      /\ \A m \in Node : P[m] = IF m = s THEN NULL ELSE IF m = c THEN q ELSE t.parent[m]
    BY <1>1, <1>2 DEF CutKids, CutParents
<1> HIDE DEF C, P
<1>6. \A u \in Sides, m \in Node :
          /\ m = n => K[u][m] = NULL
          /\ m # n /\ m # s => K[u][m] = IF t[u][m] = n THEN s
                                         ELSE IF t[u][m] = s THEN c ELSE t[u][m]
    BY <1>2, <1>3, <1>4, <1>5
<1>7. K["left"][s] = t.left[n]
    BY <1>1, <1>2, <1>3, <1>4, <1>5
<1>8. K["right"][s] = IF s = t.right[n] THEN c ELSE t.right[n]
    BY <1>1, <1>2, <1>3, <1>4, <1>5
<1>9. \A m \in Node :
          /\ m = n => Q[m] = NULL
          /\ m = s => Q[m] = t.parent[n]
          /\ m = c => Q[m] = IF q = n THEN s ELSE q
          /\ m # n /\ m # s /\ m # c =>
                 Q[m] = IF t.parent[m] = n THEN s ELSE t.parent[m]
    <2> TAKE m \in Node
    <2>1. m = n => Q[m] = NULL
        BY <1>2, <1>3, <1>4, <1>5
    <2>2. m = s => Q[m] = t.parent[n]
        BY <1>2, <1>3, <1>4, <1>5
    <2>3. m = c => Q[m] = IF q = n THEN s ELSE q
        BY <1>2, <1>3, <1>4, <1>5
    <2>4. ASSUME m # n, m # s, m # c
          PROVE  Q[m] = IF t.parent[m] = n THEN s ELSE t.parent[m]
        <3>1. Q[m] = S(t.parent[m])
            BY <1>3, <1>4, <1>5, <2>4
        <3>2. t.parent[m] # s
            <4>1. SUFFICES ASSUME t.parent[m] = s PROVE FALSE
                OBVIOUS
            <4>2. PICK u \in Sides : t[u][s] = m
                BY <1>1, <1>2, <4>1 DEF Forest
            <4> QED BY <1>1, <1>2, <2>4, <4>2, NodeFact
        <3> QED BY <1>3, <3>1, <3>2
    <2> QED BY <2>1, <2>2, <2>3, <2>4
<1> QED BY <1>6, <1>7, <1>8, <1>9

LEMMA InnerFreed ==
    ASSUME NEW t, NEW D, Grove(t, D), NEW n, NEW s, NEW q, NEW c,
           Inner(t, D, n, s, q, c),
           NEW Q, Q = InnerParents(t.parent, n, s, c),
           NEW f, f = IF s = t.right[n] THEN t
                      ELSE Link(Link(t, q, c, "left"), s, t.right[n], "right")
    PROVE  /\ Typed(f) /\ f.root = t.root /\ f.size = t.size /\ f.heavy = t.heavy
           /\ \A u \in Sides, m \in Node : m # n /\ m # s =>
                  f[u][m] = IF t[u][m] = s THEN c ELSE t[u][m]
           /\ f["right"][s] = IF s = t.right[n] THEN c ELSE t.right[n]
           /\ \A m \in Node : m # n /\ m # s /\ m # t.left[n] => f.parent[m] = Q[m]
           /\ f.parent[n] = t.parent[n]
<1>1. /\ Typed(t) /\ Forest(Kids(t), t.parent, D)
      /\ Kids(t)["left"] = t.left /\ Kids(t)["right"] = t.right
      /\ "left" \in Sides /\ "right" \in Sides /\ "left" # "right"
      /\ \A u \in Sides : Kids(t)[u] = t[u]
      /\ \A u \in Sides : u = "left" \/ u = "right"
    BY KidsFact, SidesFact DEF Grove
<1>2. /\ n \in Node /\ s \in Node /\ q \in Node /\ s # n /\ n # NULL /\ s # NULL
      /\ q # s /\ q = t.parent[s] /\ c = t.right[s]
      /\ t.right[n] \in Node /\ t.right[n] # n /\ t.parent[t.right[n]] = n
      /\ t.left[s] = NULL
      /\ c \in Pointer /\ c # n /\ c # t.right[n]
      /\ \A m \in Node : m = c => t.parent[m] = s
      /\ \A m \in Node : t.parent[m] = n => m = t.left[n] \/ m = t.right[n]
    <2>1. /\ n \in Node /\ s \in Node /\ q \in Node /\ s # n /\ n # NULL /\ s # NULL
          /\ q # s /\ q = t.parent[s] /\ c = t.right[s] /\ t.left[s] = NULL
          /\ t.right[n] \in Node /\ t.right[n] # NULL /\ s \in D[t.right[n]]
        BY NodeFact DEF Inner
    <2>2. Kids(t)["right"][n] # NULL /\ Kids(t)["right"][n] = t.right[n]
        BY <1>1, <2>1
    <2>3. t.right[n] # n /\ t.parent[t.right[n]] = n /\ s \in D[n]
        BY <1>1, <2>1, <2>2, SubtreeFact DEF Forest
    <2>4. \A m \in Node : m = c => t.parent[m] = s
        BY <1>1, <2>1, NodeFact DEF Forest
    <2>5. t.parent[n] # s
        <3>1. t.parent[n] # NULL => t.parent[n] \notin D[n]
            BY <1>1, <2>1, ParentFact
        <3> QED BY <2>1, <2>3, <3>1
    <2>6. c \in Pointer /\ c # n /\ c # t.right[n]
        BY <1>1, <2>1, <2>3, <2>4, <2>5, TypedFields
    <2>7. ASSUME NEW m \in Node, t.parent[m] = n
          PROVE  m = t.left[n] \/ m = t.right[n]
        <3>1. PICK u \in Sides : t[u][n] = m
            BY <1>1, <2>1, <2>7 DEF Forest
        <3> QED BY <1>1, <3>1
    <2> QED BY <2>1, <2>3, <2>4, <2>6, <2>7
<1>3. \A m \in Node :
          /\ m = c => Q[m] = IF q = n THEN s ELSE q
          /\ m # n /\ m # s /\ m # c =>
                 Q[m] = IF t.parent[m] = n THEN s ELSE t.parent[m]
    BY InnerLinks
<1>4. CASE s = t.right[n]
    <2>1. f = t /\ q = n
        BY <1>4 DEF Inner
    <2>2. \A u \in Sides, m \in Node : t[u][m] = s => m = n
        <3>1. \A u \in Sides, m \in Node :
                  Kids(t)[u][m] # NULL => t.parent[Kids(t)[u][m]] = m
            BY <1>1 DEF Forest
        <3>2. t.parent[s] = n /\ s # NULL
            BY <1>2, <2>1
        <3> TAKE u \in Sides, m \in Node
        <3>3. Kids(t)[u][m] = t[u][m]
            BY <1>1
        <3> QED BY <3>1, <3>2, <3>3
    <2>3. ASSUME NEW m \in Node, m # n, m # s, m # t.left[n]
          PROVE  t.parent[m] = Q[m]
        BY <1>2, <1>3, <1>4, <2>1, <2>3
    <2> QED BY <1>1, <1>2, <1>4, <2>1, <2>2, <2>3
<1>5. CASE s # t.right[n]
    <2>1. q # n /\ t.left[q] = s
        BY <1>5 DEF Inner
    <2>2. PICK g : g = Link(t, q, c, "left")
        OBVIOUS
    <2>3. q \in Pointer /\ s \in Pointer /\ t.right[n] \in Pointer
        BY <1>2, NodeFact
    <2>4. Joined(g, t, q, c, "left") /\ g.root = t.root
        BY <1>1, <1>2, <2>2, <2>3, LinkFact
    <2>5. Typed(g) /\ f = Link(g, s, t.right[n], "right")
        BY <1>5, <2>2, <2>4 DEF Joined
    <2>6. Joined(f, g, s, t.right[n], "right") /\ f.root = g.root
        BY <1>1, <2>3, <2>5, LinkFact
    <2>7. \A m \in Node, u \in Sides : t[u][m] = s <=> u = "left" /\ m = q
        BY <1>1, <1>2, <2>1, HangsFact
    <2>8. \A u \in Sides, m \in Node : m # n /\ m # s =>
              f[u][m] = IF t[u][m] = s THEN c ELSE t[u][m]
        BY <2>4, <2>6, <2>7 DEF Joined
    <2>9. f["right"][s] = t.right[n]
        BY <1>1, <1>2, <2>6 DEF Joined
    <2>10. \A m \in Node : f.parent[m] = IF m = t.right[n] THEN s
                                         ELSE IF m = c THEN q ELSE t.parent[m]
        BY <2>4, <2>6 DEF Joined
    <2>11. ASSUME NEW m \in Node, m # n, m # s, m # t.left[n]
           PROVE  f.parent[m] = Q[m]
        BY <1>2, <1>3, <2>1, <2>10, <2>11
    <2>12. f.parent[n] = t.parent[n]
        BY <1>2, <2>10
    <2>13. Typed(f) /\ f.root = t.root /\ f.size = t.size /\ f.heavy = t.heavy
        BY <2>4, <2>6 DEF Joined
    <2> QED BY <1>5, <2>8, <2>9, <2>11, <2>12, <2>13
<1> QED BY <1>4, <1>5

LEMMA RemoveInner ==
    ASSUME NEW t, NEW D, Standing(t, D), NEW n \in Node, n \in NodesOf(t),
           \A m \in NodesOf(t) : Counts(t, D, m),
           t.left[n] # NULL, t.right[n] # NULL,
           NEW s, s = Neighbour(t, n, "right"), NEW c, c = t.right[s],
           NEW l, l = Blanked(BSTRemoveInner(t, n).tree, n),
           NEW E, E = InnerTrees(D, n, s)
    PROVE  /\ Inner(t, D, n, s, t.parent[s], c)
           /\ Typed(BSTRemoveInner(t, n).tree)
           /\ Grove(l, E)
           /\ l.root = IF t.parent[n] = NULL THEN s ELSE t.root
           /\ \A m \in Node, u \in Sides :
                  l[u][m] = InnerKids(Kids(t), n, s, c)[u][m]
           /\ l.parent = InnerParents(t.parent, n, s, c)
           /\ \A m \in Node : l.heavy[m] = IF m = n THEN "none" ELSE t.heavy[m]
           /\ l.size[n] = 1
           /\ \A m \in Node \ {n} : Counts(t, D, Swap(n, s, m)) => Counts(l, E, m)
<1>1. /\ Grove(t, D) /\ Typed(t) /\ Forest(Kids(t), t.parent, D)
      /\ \A u \in Sides : Kids(t)[u] = t[u]
      /\ "left" \in Sides /\ "right" \in Sides /\ "left" # "right"
      /\ \A u \in Sides : u = "left" \/ u = "right"
    BY KidsFact, SidesFact DEF Standing, Grove
<1>2. PICK q : q = t.parent[s]
    OBVIOUS
<1>3. Inner(t, D, n, s, q, c)
    BY <1>1, <1>2, InnerFact
<1>4. PICK p : p = t.parent[n]
    OBVIOUS
<1>5. PICK z : z = SideOf(t, p, n)
    OBVIOUS
<1>6. z \in Sides /\ (p # NULL => t[z][p] = n)
    BY <1>1, <1>4, <1>5, SideOfFact
<1>7. /\ s \in Node /\ q \in Node /\ s # n /\ q # s
      /\ s \in Pointer /\ s # NULL /\ p \in Pointer /\ p # n /\ p # s
      /\ t.left[n] \in Node /\ t.left[n] \in Pointer
      /\ t.left[n] # n /\ t.parent[t.left[n]] = n /\ t.size[n] \in Nat
      /\ s \in D[n] /\ q \in D[n] /\ t.left[n] # c /\ n # NULL /\ NULL \notin Node
      /\ t.left[n] # s
    <2>1. /\ s \in Node /\ q \in Node /\ s # n /\ q # s /\ s # NULL /\ s \in Pointer
          /\ t.left[n] \in Node /\ s \in D[t.right[n]] /\ q \in D[n] /\ n # NULL
          /\ t.left[n] \in Pointer /\ p \in Pointer /\ t.size[n] \in Nat /\ NULL \notin Node
          /\ c = t.right[s]
        BY <1>1, <1>3, <1>4, NodeFact, TypedFields DEF Inner
    <2>2. /\ Kids(t)["left"][n] # NULL /\ Kids(t)["left"][n] = t.left[n]
          /\ Kids(t)["right"][n] # NULL /\ Kids(t)["right"][n] = t.right[n]
        BY <1>1
    <2>3. t.left[n] # n /\ t.parent[t.left[n]] = n /\ s \in D[n]
        BY <1>1, <2>1, <2>2, SubtreeFact DEF Forest
    <2>4. p # n /\ (p # NULL => p \notin D[n])
        BY <1>1, <1>4, <2>1, ParentFact
    <2>5. t.left[n] # c
        <3>1. c # NULL => t.parent[c] = s
            BY <1>1, <2>1, KidsFact DEF Forest
        <3> QED BY <2>1, <2>2, <2>3, <3>1
    <2>6. t.left[n] # s
        <3>1. s \notin D[t.left[n]]
            BY <1>1, <2>1, <2>2, SidesApart, SidesFact DEF At
        <3>2. t.left[n] \in D[t.left[n]]
            BY <1>1, <2>1, SubtreeFact
        <3> QED BY <3>1, <3>2
    <2> QED BY <2>1, <2>3, <2>4, <2>5, <2>6
<1>8. \A m \in Node, u \in Sides : t[u][m] = n <=> u = z /\ m = p
    BY <1>1, <1>4, <1>6, HangsFact
<1>9. PICK K : K = InnerKids(Kids(t), n, s, c)
    OBVIOUS
<1>10. PICK Q : Q = InnerParents(t.parent, n, s, c)
    OBVIOUS
<1>11. Forest(K, Q, E)
    BY <1>1, <1>3, <1>9, <1>10, InnerForest
<1>12. /\ \A u \in Sides, m \in Node :
              /\ m = n => K[u][m] = NULL
              /\ m # n /\ m # s => K[u][m] = IF t[u][m] = n THEN s
                                             ELSE IF t[u][m] = s THEN c
                                             ELSE t[u][m]
       /\ K["left"][s] = t.left[n]
       /\ K["right"][s] = IF s = t.right[n] THEN c ELSE t.right[n]
       /\ \A m \in Node :
              /\ m = n => Q[m] = NULL
              /\ m = s => Q[m] = t.parent[n]
              /\ m = c => Q[m] = IF q = n THEN s ELSE q
              /\ m # n /\ m # s /\ m # c =>
                     Q[m] = IF t.parent[m] = n THEN s ELSE t.parent[m]
    BY <1>1, <1>3, <1>9, <1>10, InnerLinks
(* The steps of the code.                                                  *)
<1>13. PICK f : f = IF s = t.right[n] THEN t
                    ELSE Link(Link(t, q, c, "left"), s, t.right[n], "right")
    OBVIOUS
<1>14. PICK t1 : t1 = Link(f, s, t.left[n], "left")
    OBVIOUS
<1>15. PICK t2 : t2 = [t1 EXCEPT !.size[s] = t.size[n]]
    OBVIOUS
<1>16. PICK t3 : t3 = Attach(t2, p, s, z)
    OBVIOUS
<1>17. PICK x : x = IF s = t.right[n] THEN s ELSE q
    OBVIOUS
<1>18. PICK t4 : t4 = add_size_path(t3, x, -1)
    OBVIOUS
<1>19. l = Blanked(t4, n)
    BY <1>2, <1>4, <1>5, <1>13, <1>14, <1>15, <1>16, <1>17, <1>18
       DEF BSTRemoveInner, Removal
<1>20. /\ Typed(f) /\ f.root = t.root /\ f.size = t.size /\ f.heavy = t.heavy
       /\ \A u \in Sides, m \in Node : m # n /\ m # s =>
              f[u][m] = IF t[u][m] = s THEN c ELSE t[u][m]
       /\ f["right"][s] = IF s = t.right[n] THEN c ELSE t.right[n]
       /\ \A m \in Node : m # n /\ m # s /\ m # t.left[n] => f.parent[m] = Q[m]
       /\ f.parent[n] = t.parent[n]
    BY <1>1, <1>3, <1>10, <1>13, InnerFreed
<1>21. Joined(t1, f, s, t.left[n], "left") /\ t1.root = f.root
    BY <1>1, <1>7, <1>14, <1>20, LinkFact
<1>22. /\ SameLinks(t2, t1)
       /\ \A u \in Sides : t2[u] = t1[u]
       /\ \A m \in Node : t2.size[m] = IF m = s THEN t.size[n] ELSE t1.size[m]
    <2>1. Typed(t1)
        BY <1>21 DEF Joined
    <2>2. /\ SameLinks(t2, t1)
          /\ \A m \in Node : t2.size[m] = IF m = s THEN t.size[n] ELSE t1.size[m]
        BY <1>7, <1>15, <2>1, SetSizeFact
    <2> QED BY <2>2, SameLinksFact
<1>23. Joined(t3, t2, p, s, z) /\ t3.root = IF p = NULL THEN s ELSE t2.root
    <2>1. Typed(t2)
        BY <1>22 DEF SameLinks
    <2> QED BY <1>6, <1>7, <1>16, <2>1, AttachFact
(* Until n is blank, all but n's own links are those of the forest.        *)
<1>24. \A m \in Node, u \in Sides : m # n => t3[u][m] = K[u][m]
    <2> TAKE m \in Node, u \in Sides
    <2>1. SUFFICES ASSUME m # n PROVE t3[u][m] = K[u][m]
        OBVIOUS
    <2>2. t3[u][m] = IF u = z /\ m = p THEN s
                     ELSE IF u = "left" /\ m = s THEN t.left[n] ELSE f[u][m]
        BY <1>21, <1>22, <1>23 DEF Joined
    <2>3. CASE m = s
        <3>1. CASE u = "left"
            BY <1>7, <1>12, <2>2, <2>3, <3>1
        <3>2. CASE u = "right"
            BY <1>1, <1>7, <1>12, <1>20, <2>2, <2>3, <3>2
        <3> QED BY <1>1, <3>1, <3>2
    <2>4. CASE m # s
        <3>1. f[u][m] = IF t[u][m] = s THEN c ELSE t[u][m]
            BY <1>20, <2>1, <2>4
        <3>2. K[u][m] = IF t[u][m] = n THEN s
                        ELSE IF t[u][m] = s THEN c ELSE t[u][m]
            BY <1>12, <2>1, <2>4
        <3>3. t[u][m] = n <=> u = z /\ m = p
            BY <1>8
        <3> QED BY <2>2, <2>4, <3>1, <3>2, <3>3
    <2> QED BY <2>3, <2>4
<1>25. \A m \in Node : t3.parent[m] = IF m = n THEN p ELSE Q[m]
    <2> TAKE m \in Node
    <2>1. t3.parent[m] = IF m = s THEN p ELSE IF m = t.left[n] THEN s ELSE f.parent[m]
        BY <1>21, <1>22, <1>23 DEF Joined, SameLinks
    <2>2. CASE m = n
        BY <1>4, <1>7, <1>20, <2>1, <2>2
    <2>3. CASE m = s
        BY <1>4, <1>7, <1>12, <2>1, <2>3
    <2>4. CASE m # n /\ m # s /\ m = t.left[n]
        BY <1>7, <1>12, <2>1, <2>4
    <2>5. CASE m # n /\ m # s /\ m # t.left[n]
        BY <1>20, <2>1, <2>5
    <2> QED BY <2>2, <2>3, <2>4, <2>5
<1>26. /\ Typed(t3) /\ t3.heavy = t.heavy
       /\ t3.root = IF p = NULL THEN s ELSE t.root
       /\ \A m \in Node : t3.size[m] = IF m = s THEN t.size[n] ELSE t.size[m]
    BY <1>20, <1>21, <1>22, <1>23 DEF Joined, SameLinks
(* The subtrees that lose a node.                                          *)
<1>27. /\ Swap(n, s, n) = s /\ Swap(n, s, s) = n
       /\ \A y : y # n /\ y # s => Swap(n, s, y) = y
       /\ \A m \in Node : Swap(n, s, m) \in Node
       /\ \A y : Swap(n, s, Swap(n, s, y)) = y
    BY <1>7, SwapFact
<1>28. PICK F : F = CutTrees(D, s)
    OBVIOUS
<1>29. /\ \A m \in Node : F[m] = IF m = s THEN {s} ELSE D[m] \ {s}
       /\ F \in [Node -> SUBSET Node]
       /\ \A m \in Node : D[m] \subseteq Node
       /\ E = SwapTrees(F, n, s)
    <2>1. \A m \in Node : D[m] \subseteq Node
        BY <1>1, ForestTyped
    <2> QED BY <1>7, <1>28, <2>1 DEF CutTrees, InnerTrees
<1>30. \A m \in Node : Cardinality(E[m]) = Cardinality(F[Swap(n, s, m)])
    BY <1>7, <1>29, SwapSizes
<1>31. /\ x \in Node /\ x # n /\ Swap(n, s, x) = q /\ x \in Pointer
    <2>1. CASE s = t.right[n]
        <3>1. x = s /\ q = n
            BY <1>3, <1>17, <2>1 DEF Inner
        <3> QED BY <1>7, <1>27, <3>1
    <2>2. CASE s # t.right[n]
        <3>1. x = q /\ q # n
            BY <1>3, <1>17, <2>2 DEF Inner
        <3> QED BY <1>7, <1>27, <3>1, NodeFact
    <2> QED BY <2>1, <2>2
<1>32. \A m \in Node : x \in E[m] <=> m # n /\ s \in D[Swap(n, s, m)]
    <2> TAKE m \in Node
    <2>1. x \in E[m] <=> q \in F[Swap(n, s, m)]
        BY <1>29, <1>31 DEF SwapTrees
    <2>2. CASE m = n
        BY <1>7, <1>27, <1>29, <2>1, <2>2
    <2>3. CASE m # n
        <3>1. Swap(n, s, m) \in Node /\ Swap(n, s, m) # s
            BY <1>7, <1>27, <2>3
        <3>2. q \in F[Swap(n, s, m)] <=> q \in D[Swap(n, s, m)]
            BY <1>7, <1>29, <3>1
        <3>3. q \in D[Swap(n, s, m)] <=> s \in D[Swap(n, s, m)]
            BY <1>1, <1>2, <1>7, <3>1, AboveParent, NodeFact
        <3> QED BY <2>1, <2>3, <3>2, <3>3
    <2> QED BY <2>2, <2>3
<1>33. Path(t3, x) = {m \in Node : x \in E[m]}
    <2>1. \A m \in Node \ {n} : t3.parent[m] = Q[m]
        BY <1>25
    <2>2. E[n] = {n}
        <3>1. \A y \in Node : y \in E[n] <=> Swap(n, s, y) \in {s}
            BY <1>27, <1>29 DEF SwapTrees
        <3>2. \A y \in Node : Swap(n, s, y) = s <=> y = n
            BY <1>27
        <3>3. E[n] \subseteq Node
            BY <1>11, ForestTyped
        <3> QED BY <3>1, <3>2, <3>3
    <2>3. t3.parent[n] # n
        BY <1>7, <1>25
    <2>4. \A y \in Pointer : (n \in Node => y # n) => Path(t3, y) = {m \in Node : y \in E[m]}
        BY <1>11, <1>26, <2>1, <2>2, <2>3, PathFact
    <2> QED BY <1>31, <2>4
<1>34. \A m \in Node : s \in D[m] => Counts(t, D, m)
    <2>1. t.root \in Node /\ NodesOf(t) = D[t.root] /\ t.parent[t.root] = NULL
        <3>1. t.root # NULL
            BY <1>1, NodesOfFact
        <3> QED BY <1>1, <3>1, NodesOfFact DEF Standing
    <2>2. s \in D[t.root]
        BY <1>1, <1>7, <2>1, Inherits
    <2> QED BY <1>1, <2>1, <2>2, SameTree
<1>35. \A m \in Node : t3.size[m] = IF m = n THEN t.size[n] ELSE t.size[Swap(n, s, m)]
    BY <1>7, <1>26, <1>27
<1>36. \A m \in Node : s \in D[m] /\ Counts(t, D, m) =>
           /\ t.size[m] + -1 \in Nat
           /\ t.size[m] + -1 = Cardinality(D[m] \ {s})
    <2> TAKE m \in Node
    <2>1. SUFFICES ASSUME Counts(t, D, m), s \in D[m]
                   PROVE  /\ t.size[m] + -1 \in Nat
                          /\ t.size[m] + -1 = Cardinality(D[m] \ {s})
        OBVIOUS
    <2>2. IsFiniteSet(D[m]) /\ Cardinality(D[m]) \in Nat
        BY <1>1, SubtreeFinite
    <2>3. IsFiniteSet(D[m] \ {s}) /\ Cardinality(D[m] \ {s}) = Cardinality(D[m]) - 1
        BY <2>1, <2>2, FS_RemoveElement
    <2>4. Cardinality(D[m] \ {s}) \in Nat
        BY <2>3, FS_CardinalityType
    <2>5. t.size[m] = Cardinality(D[m])
        BY <2>1 DEF Counts
    <2> QED BY <2>2, <2>3, <2>4, <2>5
<1>37. /\ SameLinks(t4, t3)
       /\ \A u \in Sides : t4[u] = t3[u]
       /\ \A m \in Node : t4.size[m] = IF x \in E[m] THEN t3.size[m] + -1
                                                     ELSE t3.size[m]
    <2>1. \A m \in Path(t3, x) \cap Node : t3.size[m] + -1 \in Nat
        <3> TAKE m \in Path(t3, x) \cap Node
        <3>1. m # n /\ s \in D[Swap(n, s, m)] /\ Swap(n, s, m) \in Node
            BY <1>27, <1>32, <1>33
        <3>2. t3.size[m] = t.size[Swap(n, s, m)]
            BY <1>35, <3>1
        <3> QED BY <1>34, <1>36, <3>1, <3>2
    <2>2. /\ SameLinks(t4, t3)
          /\ \A m \in Node : t4.size[m] = IF m \in Path(t3, x) THEN t3.size[m] + -1
                                                               ELSE t3.size[m]
        BY <1>18, <1>26, <2>1, AddSizeFact
    <2> QED BY <1>33, <2>2, SameLinksFact
<1>38. Loosed(l, t4, n)
    <2>1. Typed(t4)
        BY <1>37 DEF SameLinks
    <2> QED BY <1>19, <2>1, BlankedFact
(* All of them together.                                                   *)
<1>39. \A m \in Node, u \in Sides : l[u][m] = K[u][m]
    BY <1>12, <1>24, <1>37, <1>38 DEF Loosed
<1>40. \A m \in Node : l.parent[m] = Q[m]
    BY <1>12, <1>25, <1>37, <1>38 DEF Loosed, SameLinks
<1>41. Grove(l, E)
    BY <1>11, <1>38, <1>39, <1>40, GroveIs DEF Loosed
<1>42. l.parent = Q
    <2>1. l.parent \in [Node -> Pointer] /\ Q \in [Node -> Pointer]
        BY <1>11, <1>41, TypedFields DEF Grove, Forest
    <2> QED BY <1>40, <2>1
<1>43. ASSUME NEW m \in Node \ {n}, Counts(t, D, Swap(n, s, m))
       PROVE  Counts(l, E, m)
    <2>1. PICK w \in Node : w = Swap(n, s, m)
        BY <1>27
    <2>2. w # s
        BY <1>27, <1>43, <2>1
    <2>3. Cardinality(E[m]) = Cardinality(D[w] \ {s})
        BY <1>29, <1>30, <2>1, <2>2
    <2>4. t3.size[m] = t.size[w]
        BY <1>35, <1>43, <2>1
    <2>5. l.size[m] = t4.size[m]
        BY <1>38, <1>43 DEF Loosed
    <2>6. CASE s \in D[w]
        <3>1. t4.size[m] = t.size[w] + -1
            BY <1>32, <1>37, <1>43, <2>1, <2>4, <2>6
        <3>2. t.size[w] + -1 = Cardinality(D[w] \ {s})
            BY <1>36, <1>43, <2>1, <2>6
        <3> QED BY <2>3, <2>5, <3>1, <3>2 DEF Counts
    <2>7. CASE s \notin D[w]
        <3>1. t4.size[m] = t.size[w]
            BY <1>32, <1>37, <1>43, <2>1, <2>4, <2>7
        <3>2. D[w] \ {s} = D[w] /\ t.size[w] = Cardinality(D[w])
            BY <1>43, <2>1, <2>7 DEF Counts
        <3> QED BY <2>3, <2>5, <3>1, <3>2 DEF Counts
    <2> QED BY <2>6, <2>7
<1>44. l.root = IF t.parent[n] = NULL THEN s ELSE t.root
    BY <1>4, <1>26, <1>37, <1>38 DEF SameLinks, Loosed
<1>45. \A m \in Node : l.heavy[m] = IF m = n THEN "none" ELSE t.heavy[m]
    BY <1>26, <1>37, <1>38 DEF SameLinks, Loosed
<1>46. l.size[n] = 1
    BY <1>38 DEF Loosed
<1>47. Typed(BSTRemoveInner(t, n).tree)
    <2>1. BSTRemoveInner(t, n).tree = t4
        BY <1>2, <1>4, <1>5, <1>13, <1>14, <1>15, <1>16, <1>17, <1>18
           DEF BSTRemoveInner, Removal
    <2> QED BY <1>37, <2>1 DEF SameLinks
<1> QED BY <1>2, <1>3, <1>9, <1>10, <1>39, <1>41, <1>42, <1>43, <1>44, <1>45, <1>46, <1>47
=============================================================================
