---------------------------- MODULE AVLTreeProofs ----------------------------
(***************************************************************************)
(* One tree of AVL, for every finite set of nodes: what a rotation, a      *)
(* round of a loop and a whole loop do to the links, the sizes, the        *)
(* heights and the flags, and what height computes.                        *)
(***************************************************************************)
EXTENDS AVL, BinaryTreeProofs

-----------------------------------------------------------------------------
(* Loops.  What a loop holds is always a member of S; rank says how many   *)
(* rounds it may still have, and is 0 once it is finished.                 *)

RoundOf(first, next, N, f) ==
    [k \in 0 .. N |-> IF k = 0 THEN first ELSE next[f[k - 1]]]

LEMMA RoundsExist ==
    ASSUME NEW S, NEW next \in [S -> S], NEW first \in S, NEW N \in Nat
    PROVE  \E f : f = RoundOf(first, next, N, f) /\ f \in [0 .. N -> S]
<1> DEFINE Good(k) == \E f \in [0 .. k -> S] : f = RoundOf(first, next, k, f)
           B == {k \in Nat : ~Good(k)}
<1>1. SUFFICES ASSUME B # {} PROVE FALSE
    BY DEF RoundOf
<1>2. PICK k \in B : \A j \in B : k <= j
    <2>1. B \subseteq Nat
        OBVIOUS
    <2> HIDE DEF B
    <2> QED BY <1>1, <2>1, LeastNatural
<1>3. k # 0
    <2>1. Good(0)
        <3> DEFINE f == [i \in 0 .. 0 |-> first]
        <3>1. f \in [0 .. 0 -> S]
            OBVIOUS
        <3>2. f = RoundOf(first, next, 0, f)
            BY DEF RoundOf
        <3> HIDE DEF f
        <3> QED BY <3>1, <3>2
    <2> QED BY <1>2, <2>1
<1>4. k \in Nat /\ k - 1 \in Nat /\ Good(k - 1)
    BY <1>2, <1>3
<1>5. PICK g \in [0 .. k - 1 -> S] : g = RoundOf(first, next, k - 1, g)
    BY <1>4
<1> DEFINE f == [i \in 0 .. k |-> IF i = k THEN next[g[k - 1]] ELSE g[i]]
<1>6. f \in [0 .. k -> S]
    <2>1. g[k - 1] \in S
        BY <1>4, <1>5
    <2>2. ASSUME NEW i \in 0 .. k, i # k PROVE g[i] \in S
        BY <1>4, <1>5, <2>2
    <2> QED BY <2>1, <2>2
<1>7. \A i \in 0 .. k : f[i] = IF i = 0 THEN first ELSE next[f[i - 1]]
    <2> TAKE i \in 0 .. k
    <2>1. \A j \in 0 .. k - 1 : g[j] = IF j = 0 THEN first ELSE next[g[j - 1]]
        BY <1>4, <1>5 DEF RoundOf
    <2>2. CASE i = k
        <3>1. k - 1 \in 0 .. k /\ k - 1 # k
            BY <1>4
        <3>2. f[k - 1] = g[k - 1]
            BY <3>1
        <3> QED BY <1>3, <2>2, <3>2
    <2>3. CASE i # k
        <3>1. i \in 0 .. k - 1 /\ (i # 0 => i - 1 \in 0 .. k /\ i - 1 # k)
            BY <1>4, <2>3
        <3>2. f[i] = g[i] /\ (i # 0 => f[i - 1] = g[i - 1])
            BY <2>3, <3>1
        <3> QED BY <2>1, <3>1, <3>2
    <2> QED BY <2>2, <2>3
<1>8. f = RoundOf(first, next, k, f)
    <2>1. f = [i \in 0 .. k |-> f[i]]
        OBVIOUS
    <2> HIDE DEF f
    <2> QED BY <1>7, <2>1 DEF RoundOf
<1>9. Good(k)
    <2> HIDE DEF f
    <2> QED BY <1>6, <1>8
<1> QED BY <1>2, <1>9

LEMMA RoundsEnd ==
    ASSUME NEW S, NEW next \in [S -> S], NEW first \in S, NEW N \in Nat,
           NEW rank \in [S -> Nat], rank[first] <= N,
           \A c \in S : rank[next[c]] = 0 \/ rank[next[c]] < rank[c],
           NEW f, f[0] = first,
           \A k \in 1 .. N : f[k - 1] \in S => f[k] = next[f[k - 1]]
    PROVE  f[N] \in S /\ rank[f[N]] = 0
<1> DEFINE Fine(k) == f[k] \in S /\ (rank[f[k]] = 0 \/ rank[f[k]] <= N - k)
           B == {k \in 0 .. N : ~Fine(k)}
<1>1. B = {}
    <2>1. SUFFICES ASSUME B # {} PROVE FALSE
        OBVIOUS
    <2>2. PICK k \in B : \A j \in B : k <= j
        <3>1. B \subseteq Nat
            OBVIOUS
        <3> HIDE DEF B
        <3> QED BY <2>1, <3>1, LeastNatural
    <2>3. k # 0
        BY <2>2
    <2>4. k - 1 \in 0 .. N /\ k \in 1 .. N /\ k - 1 < k
        BY <2>2, <2>3
    <2>5. Fine(k - 1)
        BY <2>2, <2>4
    <2>6. f[k] = next[f[k - 1]] /\ f[k] \in S
        BY <2>4, <2>5
    <2>7. rank[f[k]] \in Nat /\ rank[f[k - 1]] \in Nat
        BY <2>5, <2>6
    <2>8. rank[f[k]] = 0 \/ rank[f[k]] < rank[f[k - 1]]
        BY <2>5, <2>6
    <2>9. rank[f[k]] = 0 \/ rank[f[k]] <= N - k
        BY <2>4, <2>5, <2>7, <2>8
    <2> QED BY <2>2, <2>6, <2>9
<1>2. Fine(N)
    BY <1>1
<1>3. rank[f[N]] \in Nat
    BY <1>2
<1> QED BY <1>2, <1>3

-----------------------------------------------------------------------------
(* Heights.  V has the height of the subtree of every node, H its flags.   *)
(* While a loop goes on, one node still sees an old height on one side:    *)
(* p sees w on u.  Every node has the height and the flags that follow     *)
(* from what it sees, and sees a difference of one at most.                *)

Tall(V, p) == IF p = NULL THEN 0 ELSE V[p]

Seen(C, V, n, s, p, u, w) == IF n = p /\ s = u THEN w ELSE Tall(V, C[s][n])

Poised(h, f, s, a, b) ==
    \/ f = s /\ a = b + 1 /\ h = a + 1
    \/ f = Other(s) /\ b = a + 1 /\ h = b + 1
    \/ f = "none" /\ a = b /\ h = a + 1

PoisedAt(C, H, V, n, s, p, u, w) ==
    Poised(V[n], H[n], s, Seen(C, V, n, s, p, u, w), Seen(C, V, n, Other(s), p, u, w))

Fits(C, H, V, p, u, w) ==
    /\ V \in [Node -> Nat] /\ w \in Nat
    /\ \A n \in Node, s \in Sides : PoisedAt(C, H, V, n, s, p, u, w)

Exact(C, H, V) == Fits(C, H, V, NULL, "left", 0)

LEMMA PoisedOther ==
    ASSUME NEW h, NEW f, NEW s \in Sides, NEW a, NEW b, Poised(h, f, s, a, b)
    PROVE  Poised(h, f, Other(s), b, a)
<1>1. Other(Other(s)) = s
    BY SidesFact
<1> QED BY <1>1 DEF Poised

LEMMA FitsIs ==
    ASSUME NEW C, NEW H, NEW V \in [Node -> Nat], NEW p, NEW u, NEW w \in Nat,
           \A n \in Node : \E s \in Sides : PoisedAt(C, H, V, n, s, p, u, w)
    PROVE  Fits(C, H, V, p, u, w)
<1>1. SUFFICES ASSUME NEW n \in Node, NEW s \in Sides
               PROVE  PoisedAt(C, H, V, n, s, p, u, w)
    BY DEF Fits
<1>2. PICK z \in Sides : PoisedAt(C, H, V, n, z, p, u, w)
    OBVIOUS
<1>3. CASE z = s
    BY <1>2, <1>3
<1>4. CASE z # s
    <2>1. s = Other(z) /\ Other(s) = z
        BY <1>4, SidesFact
    <2>2. Poised(V[n], H[n], z, Seen(C, V, n, z, p, u, w), Seen(C, V, n, s, p, u, w))
        BY <1>2, <2>1 DEF PoisedAt
    <2>3. Poised(V[n], H[n], s, Seen(C, V, n, s, p, u, w), Seen(C, V, n, z, p, u, w))
        BY <2>1, <2>2, PoisedOther
    <2> QED BY <2>1, <2>3 DEF PoisedAt
<1> QED BY <1>3, <1>4

LEMMA TallFact ==
    ASSUME NEW V \in [Node -> Nat]
    PROVE  /\ Tall(V, NULL) = 0
           /\ \A n \in Node : Tall(V, n) = V[n]
           /\ \A p \in Pointer : Tall(V, p) \in Nat
BY NodeFact DEF Tall

LEMMA SeenFact ==
    ASSUME NEW C, NEW V, NEW n \in Node, NEW s \in Sides, NEW p, NEW u, NEW w
    PROVE  /\ n # p => Seen(C, V, n, s, p, u, w) = Tall(V, C[s][n])
           /\ s # u => Seen(C, V, n, s, p, u, w) = Tall(V, C[s][n])
           /\ n = p /\ s = u => Seen(C, V, n, s, p, u, w) = w
BY DEF Seen

(* A node that sees what is there is poised on its real subtrees.          *)
LEMMA FitsAway ==
    ASSUME NEW C, NEW H, NEW V, NEW p, NEW u, NEW w, Fits(C, H, V, p, u, w),
           NEW n \in Node, n # p, NEW s \in Sides
    PROVE  Poised(V[n], H[n], s, Tall(V, C[s][n]), Tall(V, C[Other(s)][n]))
<1>1. Other(s) \in Sides
    BY SidesFact
<1> QED BY <1>1, SeenFact DEF Fits, PoisedAt

LEMMA FitsThere ==
    ASSUME NEW C, NEW H, NEW V, NEW p \in Node, NEW u \in Sides, NEW w,
           Fits(C, H, V, p, u, w)
    PROVE  Poised(V[p], H[p], u, w, Tall(V, C[Other(u)][p]))
<1>1. Other(u) \in Sides /\ Other(u) # u
    BY SidesFact
<1> QED BY <1>1, SeenFact DEF Fits, PoisedAt

LEMMA ExactFact ==
    ASSUME NEW C, NEW H, NEW V, NEW p, NEW u, NEW w, Fits(C, H, V, p, u, w),
           p \notin Node \/ w = Tall(V, C[u][p])
    PROVE  Exact(C, H, V)
<1>1. \A n \in Node, s \in Sides :
          Seen(C, V, n, s, NULL, "left", 0) = Seen(C, V, n, s, p, u, w)
    BY NodeFact DEF Seen
<1> QED BY <1>1, SidesFact DEF Exact, Fits, PoisedAt

(* To see what is there is to be exact.                                    *)
LEMMA ExactFits ==
    ASSUME NEW C, NEW H, NEW V, Exact(C, H, V), NEW p, NEW u, NEW w \in Nat,
           p \notin Node \/ w = Tall(V, C[u][p])
    PROVE  Fits(C, H, V, p, u, w)
<1>1. \A n \in Node, s \in Sides :
          Seen(C, V, n, s, NULL, "left", 0) = Seen(C, V, n, s, p, u, w)
    BY NodeFact DEF Seen
<1> QED BY <1>1, SidesFact DEF Exact, Fits, PoisedAt

LEMMA ExactAt ==
    ASSUME NEW C, NEW H, NEW V, Exact(C, H, V), NEW n \in Node, NEW s \in Sides
    PROVE  Poised(V[n], H[n], s, Tall(V, C[s][n]), Tall(V, C[Other(s)][n]))
BY FitsAway, NodeFact DEF Exact

-----------------------------------------------------------------------------
(* Forests, from any side.                                                 *)

LEMMA ForestAt ==
    ASSUME NEW C, NEW P, NEW D, Forest(C, P, D), NEW n \in Node, NEW s \in Sides
    PROVE  D[n] = {n} \cup At(D, C[s][n]) \cup At(D, C[Other(s)][n])
<1>1. D[n] = {n} \cup At(D, C["left"][n]) \cup At(D, C["right"][n])
    BY DEF Forest
<1>2. (s = "left" /\ Other(s) = "right") \/ (s = "right" /\ Other(s) = "left")
    BY SidesFact
<1> QED BY <1>1, <1>2

LEMMA ForestIs ==
    ASSUME NEW C \in Links, NEW P \in [Node -> Pointer], NEW D \in [Node -> SUBSET Node],
           \A n \in Node : \E s \in Sides :
               D[n] = {n} \cup At(D, C[s][n]) \cup At(D, C[Other(s)][n]),
           \A n \in Node, s \in Sides : \A m \in At(D, C[s][n]) : Beyond(s, m, n),
           \A n \in Node, s \in Sides : C[s][n] # NULL => P[C[s][n]] = n,
           \A n \in Node : P[n] # NULL => \E s \in Sides : C[s][P[n]] = n
    PROVE  Forest(C, P, D)
<1>1. ASSUME NEW n \in Node
      PROVE  D[n] = {n} \cup At(D, C["left"][n]) \cup At(D, C["right"][n])
    <2>1. PICK s \in Sides : D[n] = {n} \cup At(D, C[s][n]) \cup At(D, C[Other(s)][n])
        OBVIOUS
    <2>2. (s = "left" /\ Other(s) = "right") \/ (s = "right" /\ Other(s) = "left")
        BY SidesFact
    <2> QED BY <2>1, <2>2
<1> QED BY <1>1 DEF Forest

-----------------------------------------------------------------------------
(* One rotation: y, the child of x on side a, goes above x, which takes    *)
(* over the child of y on the other side.                                  *)

TurnKids(C, x, y, a) ==
    [s \in Sides |-> [m \in Node |->
        IF m = x /\ s = a THEN C[Other(a)][y]
        ELSE IF m = y /\ s = Other(a) THEN x
        ELSE IF C[s][m] = x THEN y ELSE C[s][m]]]
TurnParents(C, P, x, y, a) ==
    [m \in Node |-> IF m = y THEN P[x] ELSE IF m = x THEN y
                    ELSE IF m = C[Other(a)][y] THEN x ELSE P[m]]
TurnTrees(C, D, x, y, a) ==
    [m \in Node |-> IF m = y THEN D[x]
                    ELSE IF m = x THEN (D[x] \ D[y]) \cup At(D, C[Other(a)][y])
                    ELSE D[m]]

(* The nodes around a rotation: j and i are the children of y, k the other *)
(* one of x.                                                               *)
Around(C, P, D, x, y, a, b, i, j, k) ==
    /\ a \in Sides /\ b \in Sides /\ b = Other(a) /\ a = Other(b) /\ a # b
    /\ \A s \in Sides : s = a \/ s = b
    /\ x \in Node /\ y \in Node /\ x # y /\ P[y] = x
    /\ y = C[a][x] /\ k = C[b][x] /\ j = C[a][y] /\ i = C[b][y]
    /\ \A p \in {i, j, k} : p \in Pointer /\ p # x /\ p # y
    /\ i # NULL => i # j /\ i # k /\ P[i] = y
    /\ j # NULL => j # k /\ P[j] = y
    /\ k # NULL => P[k] = x
    /\ D[x] = {x} \cup D[y] \cup At(D, k) /\ D[y] = {y} \cup At(D, i) \cup At(D, j)
    /\ x \notin D[y] /\ At(D, k) \cap D[y] = {}
    /\ x \notin At(D, k)
    /\ P[x] \in Pointer /\ P[x] # x /\ P[x] # y

LEMMA AroundFact ==
    ASSUME NEW C, NEW P, NEW D, Forest(C, P, D), NEW x \in Node, NEW a \in Sides,
           NEW y, y = C[a][x], y # NULL, NEW b, b = Other(a),
           NEW i, i = C[b][y], NEW j, j = C[a][y], NEW k, k = C[b][x]
    PROVE  Around(C, P, D, x, y, a, b, i, j, k)
<1>1. /\ b \in Sides /\ a = Other(b) /\ a # b
      /\ \A s \in Sides : s = a \/ s = b
    BY SidesFact
<1>2. /\ y \in Node /\ x # y /\ x \notin D[y] /\ P[y] = x /\ y \in D[y]
    BY SubtreeFact DEF Forest
<1>3. i \in Pointer /\ j \in Pointer /\ k \in Pointer /\ P[x] \in Pointer
    BY <1>1, <1>2, ForestTyped
<1>4. D[x] = {x} \cup D[y] \cup At(D, k)
    <2>1. D[x] = {x} \cup At(D, y) \cup At(D, k)
        BY ForestAt
    <2> QED BY <1>2, <2>1, ForestTyped
<1>5. D[y] = {y} \cup At(D, i) \cup At(D, j)
    BY <1>1, <1>2, ForestAt
<1>6. At(D, k) \cap D[y] = {}
    <2>1. SUFFICES ASSUME NEW m \in At(D, C[a][x]), m \in At(D, k) PROVE FALSE
        BY <1>2, ForestTyped
    <2> QED BY <2>1, SidesApart
<1>7. x \notin At(D, k)
    <2>1. k # NULL => x \notin D[k]
        BY <1>1, SubtreeFact
    <2> QED BY <2>1 DEF At
<1>8. \A p \in Pointer : p # NULL => p \in Node /\ p \in At(D, p)
    BY NodeFact, SubtreeFact DEF At
<1>9. /\ i # NULL => P[i] = y
      /\ j # NULL => P[j] = y
      /\ k # NULL => P[k] = x
    BY <1>1, <1>2 DEF Forest
<1>10. i # NULL => i # j
    <2>1. i # NULL => i \in At(D, i) /\ At(D, i) \cap At(D, j) = {}
        <3>1. \A m \in At(D, C[b][y]) : m \notin At(D, C[a][y])
            BY <1>1, <1>2, SidesApart
        <3> QED BY <1>3, <1>8, <3>1
    <2> QED BY <2>1
<1>11. \A p \in {i, j} : p # x /\ p # y
    <2>1. x # NULL /\ y # NULL
        BY <1>2, NodeFact
    <2>2. \A p \in {i, j} : p # NULL => p \in D[y]
        BY <1>3, <1>5, <1>8
    <2>3. \A p \in {i, j} : p # y
        BY <1>1, <1>2, <2>1, SubtreeFact
    <2> QED BY <1>2, <2>1, <2>2, <2>3
<1>12. k # x /\ k # y
    <2>1. k # NULL => k \in At(D, k)
        BY <1>3, <1>8
    <2> QED BY <1>2, <1>6, <1>7, <2>1, NodeFact
<1>13. P[x] # x /\ P[x] # y
    <2>1. P[x] # NULL => P[x] \notin D[x]
        BY ParentFact
    <2>2. x \in D[x] /\ y \in D[x]
        BY <1>2, <1>4
    <2> QED BY <1>2, <2>1, <2>2, NodeFact
<1>14. \A p \in {i, j, k} : p \in Pointer /\ p # x /\ p # y
    BY <1>3, <1>11, <1>12
<1>15. /\ i # NULL => i # j /\ i # k
       /\ j # NULL => j # k
    BY <1>2, <1>9, <1>10
<1> QED BY <1>1, <1>2, <1>3, <1>4, <1>5, <1>6, <1>7, <1>9, <1>13, <1>14, <1>15
        DEF Around

LEMMA Turned ==
    ASSUME NEW C, NEW P, NEW D, Forest(C, P, D), NEW x \in Node, NEW a \in Sides,
           NEW y, y = C[a][x], y # NULL
    PROVE  Forest(TurnKids(C, x, y, a), TurnParents(C, P, x, y, a),
                  TurnTrees(C, D, x, y, a))
<1>1. PICK b : b = Other(a)
    OBVIOUS
<1>2. PICK i : i = C[b][y]
    OBVIOUS
<1>3. PICK j : j = C[a][y]
    OBVIOUS
<1>4. PICK k : k = C[b][x]
    OBVIOUS
<1>5. Around(C, P, D, x, y, a, b, i, j, k)
    BY <1>1, <1>2, <1>3, <1>4, AroundFact
<1>6. /\ a \in Sides /\ b \in Sides /\ b = Other(a) /\ a = Other(b) /\ a # b
      /\ \A s \in Sides : s = a \/ s = b
      /\ x \in Node /\ y \in Node /\ x # y /\ P[y] = x
      /\ y = C[a][x] /\ k = C[b][x] /\ j = C[a][y] /\ i = C[b][y]
      /\ \A p \in {i, j, k} : p \in Pointer /\ p # x /\ p # y
    BY <1>5 DEF Around
<1>7. /\ i # NULL => i # j /\ i # k /\ P[i] = y
      /\ j # NULL => j # k /\ P[j] = y
      /\ k # NULL => P[k] = x
      /\ P[x] \in Pointer /\ P[x] # x /\ P[x] # y
    BY <1>5 DEF Around
<1>8. /\ D[x] = {x} \cup D[y] \cup At(D, k) /\ D[y] = {y} \cup At(D, i) \cup At(D, j)
      /\ x \notin D[y] /\ At(D, k) \cap D[y] = {} /\ x \notin At(D, k)
    BY <1>5 DEF Around
<1>9. /\ \A n \in Node, s \in Sides : C[s][n] \in Pointer
      /\ \A n \in Node : P[n] \in Pointer /\ D[n] \in SUBSET Node
      /\ \A n \in Node, s \in Sides : C[s][n] # NULL => P[C[s][n]] = n
      /\ \A n \in Node : P[n] # NULL => \E s \in Sides : C[s][P[n]] = n
      /\ \A n \in Node, s \in Sides : \A m \in At(D, C[s][n]) : Beyond(s, m, n)
      /\ C \in Links /\ P \in [Node -> Pointer] /\ D \in [Node -> SUBSET Node]
    BY ForestTyped DEF Forest
<1> DEFINE K == TurnKids(C, x, y, a)
           Q == TurnParents(C, P, x, y, a)
           E == TurnTrees(C, D, x, y, a)
<1>10. \A m \in Node, s \in Sides :
           K[s][m] = IF m = x /\ s = a THEN i ELSE IF m = y /\ s = b THEN x
                     ELSE IF C[s][m] = x THEN y ELSE C[s][m]
    BY <1>1, <1>2 DEF TurnKids
<1>11. \A m \in Node : Q[m] = IF m = y THEN P[x] ELSE IF m = x THEN y
                              ELSE IF m = i THEN x ELSE P[m]
    BY <1>1, <1>2 DEF TurnParents
<1>12. \A m \in Node : E[m] = IF m = y THEN D[x]
                              ELSE IF m = x THEN (D[x] \ D[y]) \cup At(D, i) ELSE D[m]
    BY <1>1, <1>2 DEF TurnTrees
<1>13. K \in Links /\ Q \in [Node -> Pointer] /\ E \in [Node -> SUBSET Node]
    <2>1. x \in Pointer /\ y \in Pointer /\ i \in Pointer
        BY <1>6, NodeFact
    <2>2. K \in Links
        BY <1>1, <1>2, <1>9, <2>1 DEF TurnKids, Links
    <2>3. Q \in [Node -> Pointer]
        BY <1>1, <1>2, <1>6, <1>9, <2>1 DEF TurnParents
    <2>4. At(D, i) \in SUBSET Node
        BY <1>6, ForestTyped
    <2>5. E \in [Node -> SUBSET Node]
        BY <1>1, <1>2, <1>6, <1>9, <2>4 DEF TurnTrees
    <2> QED BY <2>2, <2>3, <2>5
<1> HIDE DEF K, Q, E
(* What is below the nodes, old and new.                                   *)
<1>14. /\ K[a][x] = i /\ K[b][x] = k /\ K[a][y] = j /\ K[b][y] = x
       /\ E[y] = D[x] /\ E[x] = {x} \cup At(D, i) \cup At(D, k)
       /\ At(E, x) = E[x] /\ At(E, y) = E[y]
    <2>1. K[a][x] = i /\ K[b][x] = k /\ K[a][y] = j /\ K[b][y] = x
        BY <1>6, <1>10
    <2>2. E[y] = D[x] /\ E[x] = {x} \cup At(D, i) \cup At(D, k)
        BY <1>6, <1>8, <1>12
    <2>3. At(E, x) = E[x] /\ At(E, y) = E[y]
        BY <1>6, NodeFact DEF At
    <2> QED BY <2>1, <2>2, <2>3
<1>15. \A p \in Pointer : p # x /\ p # y => At(E, p) = At(D, p)
    BY <1>12, NodeFact DEF At
<1>16. At(E, i) = At(D, i) /\ At(E, j) = At(D, j) /\ At(E, k) = At(D, k)
    BY <1>6, <1>15
<1>17. \A m \in Node, s \in Sides : m # x /\ m # y =>
           /\ K[s][m] = IF C[s][m] = x THEN y ELSE C[s][m]
           /\ C[s][m] # y
           /\ At(E, K[s][m]) = At(D, C[s][m])
           /\ E[m] = D[m]
    <2> TAKE m \in Node, s \in Sides
    <2>1. SUFFICES ASSUME m # x /\ m # y
                   PROVE  /\ K[s][m] = IF C[s][m] = x THEN y ELSE C[s][m]
                          /\ C[s][m] # y
                          /\ At(E, K[s][m]) = At(D, C[s][m])
                          /\ E[m] = D[m]
        OBVIOUS
    <2>2. K[s][m] = (IF C[s][m] = x THEN y ELSE C[s][m]) /\ E[m] = D[m]
        BY <1>10, <1>12, <2>1
    <2>3. C[s][m] # y
        BY <1>6, <1>9, <2>1, NodeFact
    <2>4. CASE C[s][m] = x
        <3>1. At(D, x) = D[x]
            BY <1>6, ForestTyped
        <3> QED BY <1>14, <2>2, <2>3, <2>4, <3>1
    <2>5. CASE C[s][m] # x
        BY <1>9, <1>15, <2>2, <2>3, <2>5
    <2> QED BY <2>2, <2>3, <2>4, <2>5
(* The parts of a forest.                                                  *)
<1>18. \A n \in Node : \E s \in Sides :
           E[n] = {n} \cup At(E, K[s][n]) \cup At(E, K[Other(s)][n])
    <2> TAKE n \in Node
    <2>1. CASE n = x
        <3>1. E[n] = {n} \cup At(E, K[a][n]) \cup At(E, K[b][n])
            BY <1>14, <1>16, <2>1
        <3> QED BY <1>6, <3>1
    <2>2. CASE n = y
        <3>1. E[n] = {n} \cup At(E, K[a][n]) \cup At(E, K[b][n])
            BY <1>8, <1>14, <1>16, <2>2
        <3> QED BY <1>6, <3>1
    <2>3. CASE n # x /\ n # y
        <3>1. D[n] = {n} \cup At(D, C[a][n]) \cup At(D, C[b][n])
            BY <1>6, ForestAt
        <3> QED BY <1>6, <1>17, <2>3, <3>1
    <2> QED BY <2>1, <2>2, <2>3
<1>19. \A n \in Node, s \in Sides : \A m \in At(E, K[s][n]) : Beyond(s, m, n)
    <2> TAKE n \in Node, s \in Sides
    <2> TAKE m \in At(E, K[s][n])
    <2>1. m \in Node
        <3>1. K[s][n] \in Pointer
            BY <1>13 DEF Links
        <3> QED BY <1>13, <3>1, NodeFact DEF At
    <2>2. Beyond(a, y, x) /\ Beyond(b, x, y)
        <3>1. y \in At(D, C[a][x])
            BY <1>6, <1>8, ForestTyped
        <3>2. Beyond(a, y, x)
            BY <1>6, <1>9, <3>1
        <3> QED BY <1>6, <3>2, BeyondFact
    <2>3. CASE n = x
        <3>1. CASE s = a
            <4>1. m \in At(D, C[a][x])
                BY <1>6, <1>8, <1>14, <1>16, <2>3, <3>1, ForestTyped
            <4> QED BY <1>6, <1>9, <2>3, <3>1, <4>1
        <3>2. CASE s = b
            <4>1. m \in At(D, C[b][x])
                BY <1>6, <1>14, <1>16, <2>3, <3>2
            <4> QED BY <1>6, <1>9, <2>3, <3>2, <4>1
        <3> QED BY <1>6, <3>1, <3>2
    <2>4. CASE n = y
        <3>1. CASE s = a
            BY <1>6, <1>9, <1>14, <1>16, <2>4, <3>1
        <3>2. CASE s = b
            <4>1. m = x \/ m \in At(D, C[b][y]) \/ m \in At(D, C[b][x])
                BY <1>6, <1>14, <2>4, <3>2
            <4>2. m = x => Beyond(b, m, y)
                BY <2>2
            <4>3. m \in At(D, C[b][y]) => Beyond(b, m, y)
                BY <1>6, <1>9
            <4>4. m \in At(D, C[b][x]) => Beyond(b, m, y)
                <5>1. m \in At(D, C[b][x]) => Beyond(b, m, x)
                    BY <1>6, <1>9
                <5> QED BY <1>6, <2>1, <2>2, <5>1, BeyondFact
            <4> QED BY <2>4, <3>2, <4>1, <4>2, <4>3, <4>4
        <3> QED BY <1>6, <3>1, <3>2
    <2>5. CASE n # x /\ n # y
        BY <1>9, <1>17, <2>5
    <2> QED BY <2>3, <2>4, <2>5
<1>20. \A n \in Node, s \in Sides : K[s][n] # NULL => Q[K[s][n]] = n
    <2> TAKE n \in Node, s \in Sides
    <2>1. SUFFICES ASSUME K[s][n] # NULL PROVE Q[K[s][n]] = n
        OBVIOUS
    <2>2. CASE n = x
        <3>1. CASE s = a
            BY <1>6, <1>11, <1>14, <2>1, <2>2, <3>1, NodeFact
        <3>2. CASE s = b
            BY <1>6, <1>7, <1>11, <1>14, <2>1, <2>2, <3>2, NodeFact
        <3> QED BY <1>6, <3>1, <3>2
    <2>3. CASE n = y
        <3>1. CASE s = a
            BY <1>6, <1>7, <1>11, <1>14, <2>1, <2>3, <3>1, NodeFact
        <3>2. CASE s = b
            BY <1>6, <1>11, <1>14, <2>3, <3>2
        <3> QED BY <1>6, <3>1, <3>2
    <2>4. CASE n # x /\ n # y
        <3>1. CASE C[s][n] = x
            BY <1>6, <1>9, <1>11, <1>17, <2>4, <3>1, NodeFact
        <3>2. CASE C[s][n] # x
            <4>1. K[s][n] = C[s][n] /\ C[s][n] # y /\ C[s][n] \in Node /\ P[C[s][n]] = n
                BY <1>9, <1>17, <2>1, <2>4, <3>2, NodeFact
            <4>2. C[s][n] # i
                BY <1>7, <2>1, <2>4, <4>1
            <4> QED BY <1>11, <3>2, <4>1, <4>2
        <3> QED BY <3>1, <3>2
    <2> QED BY <2>2, <2>3, <2>4
<1>21. \A n \in Node : Q[n] # NULL => \E s \in Sides : K[s][Q[n]] = n
    <2> TAKE n \in Node
    <2>1. SUFFICES ASSUME Q[n] # NULL PROVE \E s \in Sides : K[s][Q[n]] = n
        OBVIOUS
    <2>2. CASE n = y
        <3>1. Q[n] = P[x] /\ P[x] \in Node
            BY <1>6, <1>9, <1>11, <2>1, <2>2, NodeFact
        <3>2. PICK s \in Sides : C[s][P[x]] = x
            BY <1>6, <1>9, <2>1, <3>1
        <3> QED BY <1>7, <1>17, <2>2, <3>1, <3>2
    <2>3. CASE n = x
        BY <1>6, <1>11, <1>14, <2>3
    <2>4. CASE n # y /\ n # x /\ n = i
        BY <1>6, <1>11, <1>14, <2>4
    <2>5. CASE n # y /\ n # x /\ n # i
        <3>1. Q[n] = P[n] /\ P[n] # NULL /\ P[n] \in Node
            BY <1>9, <1>11, <2>1, <2>5, NodeFact
        <3>2. PICK s \in Sides : C[s][P[n]] = n
            BY <1>9, <3>1
        <3>3. CASE P[n] = x
            BY <1>6, <1>14, <2>5, <3>1, <3>2, <3>3
        <3>4. CASE P[n] = y
            BY <1>6, <1>14, <2>5, <3>1, <3>2, <3>4
        <3>5. CASE P[n] # x /\ P[n] # y
            BY <1>17, <2>5, <3>1, <3>2, <3>5
        <3> QED BY <3>3, <3>4, <3>5
    <2> QED BY <2>2, <2>3, <2>4, <2>5
<1>22. Forest(K, Q, E)
    BY <1>13, <1>18, <1>19, <1>20, <1>21, ForestIs
<1> QED BY <1>22 DEF K, Q, E

(* Two rotations: z, the child of y on the other side, goes above y, and   *)
(* then above x.  In both cases K, Q and E are a forest with r where x was.*)
Replaced(C, P, D, K, Q, E, x, r) ==
    /\ Forest(K, Q, E)
    /\ r \in Node /\ r \in D[x] /\ E[r] = D[x] /\ Q[r] = P[x]
    /\ \A m \in Node \ D[x] :
        /\ E[m] = D[m] /\ Q[m] = P[m]
        /\ \A s \in Sides : K[s][m] = IF C[s][m] = x THEN r ELSE C[s][m]

(* The links and the trees after one rotation, node by node.               *)
OnceKids(C, K, x, y, a, b) ==
    \A m \in Node, s \in Sides :
        K[s][m] = IF m = x /\ s = a THEN C[b][y]
                  ELSE IF m = y /\ s = b THEN x
                  ELSE IF C[s][m] = x THEN y ELSE C[s][m]
OnceParents(C, P, Q, x, y, b) ==
    \A m \in Node : Q[m] = IF m = y THEN P[x] ELSE IF m = x THEN y
                           ELSE IF m = C[b][y] THEN x ELSE P[m]
OnceTrees(D, E, x, y) ==
    E[y] = D[x] /\ \A m \in Node \ {x, y} : E[m] = D[m]

LEMMA OnceReplaced ==
    ASSUME NEW C, NEW P, NEW D, Forest(C, P, D), NEW x \in Node, NEW a \in Sides,
           NEW y, y = C[a][x], y # NULL, NEW b, b = Other(a)
    PROVE  \E K, Q, E :
               /\ Replaced(C, P, D, K, Q, E, x, y)
               /\ OnceKids(C, K, x, y, a, b)
               /\ OnceParents(C, P, Q, x, y, b)
               /\ OnceTrees(D, E, x, y)
<1>1. PICK K : K = TurnKids(C, x, y, a)
    OBVIOUS
<1>2. PICK Q : Q = TurnParents(C, P, x, y, a)
    OBVIOUS
<1>3. PICK E : E = TurnTrees(C, D, x, y, a)
    OBVIOUS
<1>4. Forest(K, Q, E)
    BY <1>1, <1>2, <1>3, Turned
<1>5. PICK i : i = C[b][y]
    OBVIOUS
<1>6. Around(C, P, D, x, y, a, b, i, C[a][y], C[b][x])
    BY <1>5, AroundFact
<1>7. /\ x \in Node /\ y \in Node /\ x # y /\ a # b /\ y \in D[y] /\ y \in D[x] /\ x \in D[x]
      /\ D[y] \subseteq D[x] /\ (i # NULL => i \in D[x]) /\ i \in Pointer
    <2>1. x \in Node /\ y \in Node /\ x # y /\ a # b /\ i \in Pointer
        BY <1>6 DEF Around
    <2>2. D[y] \subseteq D[x] /\ At(D, i) \subseteq D[y] /\ x \in D[x]
        BY <1>6 DEF Around
    <2>3. y \in D[y] /\ (i # NULL => i \in At(D, i))
        BY <2>1, SubtreeFact, NodeFact DEF At
    <2> QED BY <2>1, <2>2, <2>3
<1>8. OnceKids(C, K, x, y, a, b)
    BY <1>1 DEF OnceKids, TurnKids
<1>9. OnceParents(C, P, Q, x, y, b)
    BY <1>2 DEF OnceParents, TurnParents
<1>10. OnceTrees(D, E, x, y)
    BY <1>3, <1>7 DEF OnceTrees, TurnTrees
<1>11. ASSUME NEW m \in Node \ D[x]
       PROVE  /\ E[m] = D[m] /\ Q[m] = P[m]
              /\ \A s \in Sides : K[s][m] = IF C[s][m] = x THEN y ELSE C[s][m]
    <2>1. m \in Node /\ m # x /\ m # y /\ m # i
        BY <1>7, NodeFact
    <2>2. E[m] = D[m]
        BY <1>10, <2>1 DEF OnceTrees
    <2>3. Q[m] = P[m]
        BY <1>5, <1>9, <2>1 DEF OnceParents
    <2>4. \A s \in Sides : K[s][m] = IF C[s][m] = x THEN y ELSE C[s][m]
        BY <1>8, <2>1 DEF OnceKids
    <2> QED BY <2>2, <2>3, <2>4
<1>12. Q[y] = P[x] /\ E[y] = D[x]
    BY <1>7, <1>9, <1>10 DEF OnceParents, OnceTrees
<1>13. Replaced(C, P, D, K, Q, E, x, y)
    BY <1>4, <1>7, <1>11, <1>12 DEF Replaced
<1> QED BY <1>8, <1>9, <1>10, <1>13

TwiceKids(C, K, x, y, z, a, b) ==
    \A m \in Node, s \in Sides :
        K[s][m] = IF m = x /\ s = a THEN C[b][z]
                  ELSE IF m = y /\ s = b THEN C[a][z]
                  ELSE IF m = z THEN (IF s = a THEN y ELSE x)
                  ELSE IF C[s][m] = x THEN z ELSE C[s][m]
TwiceParents(C, P, Q, x, y, z, a, b) ==
    \A m \in Node : Q[m] = IF m = z THEN P[x] ELSE IF m = x \/ m = y THEN z
                           ELSE IF m = C[b][z] THEN x
                           ELSE IF m = C[a][z] THEN y ELSE P[m]
TwiceTrees(D, E, x, y, z) ==
    E[z] = D[x] /\ \A m \in Node \ {x, y, z} : E[m] = D[m]

LEMMA TwiceReplaced ==
    ASSUME NEW C, NEW P, NEW D, Forest(C, P, D), NEW x \in Node, NEW a \in Sides,
           NEW y, y = C[a][x], y # NULL, NEW b, b = Other(a),
           NEW z, z = C[b][y], z # NULL
    PROVE  \E K, Q, E :
               /\ Replaced(C, P, D, K, Q, E, x, z)
               /\ TwiceKids(C, K, x, y, z, a, b)
               /\ TwiceParents(C, P, Q, x, y, z, a, b)
               /\ TwiceTrees(D, E, x, y, z)
<1>1. a \in Sides /\ b \in Sides /\ a = Other(b) /\ a # b /\ \A s \in Sides : s = a \/ s = b
    BY SidesFact
<1>2. Around(C, P, D, x, y, a, b, z, C[a][y], C[b][x])
    BY AroundFact
<1>3. /\ x \in Node /\ y \in Node /\ z \in Node /\ x # y /\ z # x /\ z # y
      /\ P[y] = x /\ P[z] = y /\ D[y] \subseteq D[x] /\ x \in D[x] /\ P[x] # x /\ P[x] # y
      /\ P[x] \in Pointer
    BY <1>2, NodeFact DEF Around
<1>4. PICK i : i = C[b][z]
    OBVIOUS
<1>5. PICK j : j = C[a][z]
    OBVIOUS
<1>6. Around(C, P, D, y, z, b, a, j, i, C[a][y])
    BY <1>1, <1>3, <1>4, <1>5, AroundFact
<1>7. PICK K1, Q1, E1 :
          /\ Replaced(C, P, D, K1, Q1, E1, y, z)
          /\ OnceKids(C, K1, y, z, b, a)
          /\ OnceParents(C, P, Q1, y, z, a)
          /\ OnceTrees(D, E1, y, z)
    BY <1>1, <1>3, OnceReplaced
<1>8. Forest(K1, Q1, E1) /\ Q1[z] = x
    BY <1>3, <1>7 DEF Replaced
<1>9. K1[a][x] = z /\ K1[b][z] = i
    <2>1. i # y
        BY <1>6, Zenon DEF Around
    <2> QED BY <1>1, <1>3, <1>4, <1>7, <2>1 DEF OnceKids
<1>10. PICK K, Q, E :
          /\ Replaced(K1, Q1, E1, K, Q, E, x, z)
          /\ OnceKids(K1, K, x, z, a, b)
          /\ OnceParents(K1, Q1, Q, x, z, b)
          /\ OnceTrees(E1, E, x, z)
    BY <1>8, <1>9, OnceReplaced
<1>11. /\ \A s \in Sides, m \in Node : C[s][m] # NULL => P[C[s][m]] = m
       /\ \A p \in {i, j} : p \in Pointer /\ p # x /\ p # y /\ p # z
       /\ i # NULL => i # j
       /\ y \in D[y] /\ z \in D[z] /\ z \in D[y]
       /\ (i # NULL => i \in D[y]) /\ (j # NULL => j \in D[y])
    <2>1. /\ \A s \in Sides, m \in Node : C[s][m] # NULL => P[C[s][m]] = m
          /\ \A p \in Node : p \in D[p] /\ At(D, p) = D[p]
          /\ \A p \in Pointer : p # NULL => p \in Node
        BY SubtreeFact, ForestTyped, NodeFact DEF Forest
    <2>2. /\ \A p \in {i, j} : p \in Pointer /\ p # y /\ p # z
          /\ D[y] = {y} \cup D[z] \cup At(D, C[a][y])
          /\ D[z] = {z} \cup At(D, j) \cup At(D, i)
        BY <1>6, Zenon DEF Around
    <2>3. x \notin D[y]
        BY <1>2 DEF Around
    <2>4. i \in Pointer /\ j \in Pointer
        BY <2>2
    <2>5. (i # NULL => i \in D[y]) /\ (j # NULL => j \in D[y])
        BY <2>1, <2>2, <2>4
    <2>6. i # x /\ j # x
        BY <1>3, <2>3, <2>5, NodeFact
    <2>7. i # NULL => i # j
        BY <1>6, Zenon DEF Around
    <2> QED BY <1>3, <2>1, <2>2, <2>5, <2>6, <2>7
<1>12. TwiceKids(C, K, x, y, z, a, b)
    <2>1. SUFFICES ASSUME NEW m \in Node, NEW s \in Sides
                   PROVE  K[s][m] = IF m = x /\ s = a THEN i
                                    ELSE IF m = y /\ s = b THEN j
                                    ELSE IF m = z THEN (IF s = a THEN y ELSE x)
                                    ELSE IF C[s][m] = x THEN z ELSE C[s][m]
        BY <1>4, <1>5 DEF TwiceKids
    <2>2. K[s][m] = IF m = x /\ s = a THEN i
                    ELSE IF m = z /\ s = b THEN x
                    ELSE IF K1[s][m] = x THEN z ELSE K1[s][m]
        BY <1>9, <1>10 DEF OnceKids
    <2>3. K1[s][m] = IF m = y /\ s = b THEN j
                     ELSE IF m = z /\ s = a THEN y
                     ELSE IF C[s][m] = y THEN z ELSE C[s][m]
        BY <1>5, <1>7 DEF OnceKids
    <2>4. C[s][m] = y => m = x
        BY <1>3, <1>11, NodeFact
    <2>5. C[s][x] = y => s = a
        <3>1. C[b][x] # y
            BY <1>2 DEF Around
        <3> QED BY <1>1, <3>1
    <2>6. C[a][x] = y
        OBVIOUS
    <2> QED BY <1>1, <1>3, <1>11, <2>2, <2>3, <2>4, <2>5, <2>6
<1>13. TwiceParents(C, P, Q, x, y, z, a, b)
    <2>1. SUFFICES ASSUME NEW m \in Node
                   PROVE  Q[m] = IF m = z THEN P[x] ELSE IF m = x \/ m = y THEN z
                                 ELSE IF m = i THEN x
                                 ELSE IF m = j THEN y ELSE P[m]
        BY <1>4, <1>5 DEF TwiceParents
    <2>2. Q[m] = IF m = z THEN Q1[x] ELSE IF m = x THEN z
                 ELSE IF m = i THEN x ELSE Q1[m]
        BY <1>9, <1>10 DEF OnceParents
    <2>3. \A q \in Node : Q1[q] = IF q = z THEN P[y] ELSE IF q = y THEN z
                                  ELSE IF q = j THEN y ELSE P[q]
        BY <1>5, <1>7 DEF OnceParents
    <2>4. Q1[x] = P[x]
        BY <1>3, <1>11, <2>3
    <2> QED BY <1>3, <1>11, <2>2, <2>3, <2>4
<1>14. /\ E1[z] = D[y] /\ E1[x] = D[x] /\ \A m \in Node \ {y, z} : E1[m] = D[m]
       /\ E[z] = E1[x] /\ \A m \in Node \ {x, z} : E[m] = E1[m]
    BY <1>3, <1>7, <1>10 DEF OnceTrees
<1>15. TwiceTrees(D, E, x, y, z)
    BY <1>3, <1>14 DEF TwiceTrees
<1>16. ASSUME NEW m \in Node \ D[x]
       PROVE  /\ E[m] = D[m] /\ Q[m] = P[m]
              /\ \A s \in Sides : K[s][m] = IF C[s][m] = x THEN z ELSE C[s][m]
    <2>1. m \in Node /\ m # x /\ m # y /\ m # z /\ m # i /\ m # j
        BY <1>3, <1>11, NodeFact
    <2>2. E[m] = D[m]
        BY <1>15, <2>1 DEF TwiceTrees
    <2>3. Q[m] = P[m]
        BY <1>4, <1>5, <1>13, <2>1 DEF TwiceParents
    <2>4. \A s \in Sides : K[s][m] = IF C[s][m] = x THEN z ELSE C[s][m]
        BY <1>12, <2>1 DEF TwiceKids
    <2> QED BY <2>2, <2>3, <2>4
<1>17. Replaced(C, P, D, K, Q, E, x, z)
    <2>1. Q[z] = P[x]
        BY <1>3, <1>13 DEF TwiceParents
    <2>2. Forest(K, Q, E)
        BY <1>10 DEF Replaced
    <2>3. z \in D[x] /\ E[z] = D[x]
        BY <1>3, <1>11, <1>14
    <2> QED BY <1>3, <1>16, <2>1, <2>2, <2>3 DEF Replaced
<1> QED BY <1>12, <1>13, <1>15, <1>17

-----------------------------------------------------------------------------
(* What a rotation does to the heights.  Above x, nothing has seen it yet. *)

Leveled(K, I, D, V, W, x, g, up) ==
    /\ Fits(K, I, W, g, up, V[x])
    /\ \A m \in Node \ D[x] : W[m] = V[m]

Relevels(K, I, D, V, x, g, up, r, h) ==
    \E W : Leveled(K, I, D, V, W, x, g, up) /\ W[r] = h

(* S are the nodes that turn; the others point to x, if at any of them.    *)
Unturned(C, K, H, I, V, W, x, S) ==
    \A m \in Node \ S :
        /\ W[m] = V[m] /\ I[m] = H[m]
        /\ \A s \in Sides : (K[s][m] = C[s][m] /\ C[s][m] \notin S) \/ C[s][m] = x

LEMMA RestFits ==
    ASSUME NEW C, NEW P, NEW D, Forest(C, P, D), NEW x \in Node,
           NEW H, NEW V, NEW c, NEW w, Fits(C, H, V, x, c, w),
           NEW g, g = P[x], NEW up \in Sides, g # NULL => C[up][g] = x,
           NEW S, x \in S,
           NEW K, NEW I, NEW W, W \in [Node -> Nat],
           Unturned(C, K, H, I, V, W, x, S),
           NEW n \in Node, n \notin S, NEW s \in Sides
    PROVE  PoisedAt(K, I, W, n, s, g, up, V[x])
<1>1. ASSUME NEW v \in Sides
      PROVE  Seen(K, W, n, v, g, up, V[x]) = Tall(V, C[v][n])
    <2>1. x # NULL /\ Tall(V, x) = V[x] /\ n # NULL
        BY NodeFact DEF Tall
    <2>2. CASE C[v][n] = x
        <3>1. n = g
            BY <2>1, <2>2 DEF Forest
        <3>2. v = up
            <4>1. g # NULL
                BY <2>1, <3>1
            <4>2. C[Other(up)][g] # x
                BY <4>1, ParentFact
            <4> QED BY <2>2, <3>1, <4>2, SidesFact
        <3> QED BY <2>1, <2>2, <3>1, <3>2 DEF Seen
    <2>3. CASE C[v][n] # x
        <3>1. K[v][n] = C[v][n] /\ C[v][n] \notin S
            BY <2>3 DEF Unturned
        <3>2. ~(n = g /\ v = up)
            BY <2>1, <2>3
        <3>3. C[v][n] \in Pointer
            BY ForestTyped
        <3>4. Tall(W, C[v][n]) = Tall(V, C[v][n])
            BY <3>1, <3>3, NodeFact DEF Tall, Unturned
        <3> QED BY <3>1, <3>2, <3>4 DEF Seen
    <2> QED BY <2>2, <2>3
<1>2. Poised(V[n], H[n], s, Tall(V, C[s][n]), Tall(V, C[Other(s)][n]))
    BY FitsAway
<1>3. Other(s) \in Sides /\ W[n] = V[n] /\ I[n] = H[n]
    BY SidesFact DEF Unturned
<1>4. /\ Seen(K, W, n, s, g, up, V[x]) = Tall(V, C[s][n])
      /\ Seen(K, W, n, Other(s), g, up, V[x]) = Tall(V, C[Other(s)][n])
    BY <1>1, <1>3
<1> QED BY <1>2, <1>3, <1>4 DEF PoisedAt

(* y, higher than x's other child by two, goes above x.                    *)
OnceFlags(H, I, x, y, a, b) ==
    /\ \A m \in Node \ {x, y} : I[m] = H[m]
    /\ I[x] = IF H[y] = "none" THEN a ELSE "none"
    /\ I[y] = IF H[y] = "none" THEN b ELSE "none"

LEMMA OnceFits ==
    ASSUME NEW C, NEW P, NEW D, Forest(C, P, D), NEW x \in Node, NEW a \in Sides,
           NEW y, y = C[a][x], y # NULL, NEW b, b = Other(a),
           NEW H, NEW V, NEW c, NEW w, Fits(C, H, V, x, c, w),
           NEW o, o = Tall(V, C[b][x]), V[y] = o + 2, H[y] # b,
           NEW g, g = P[x], NEW up \in Sides, g # NULL => C[up][g] = x,
           NEW K, OnceKids(C, K, x, y, a, b),
           NEW I, OnceFlags(H, I, x, y, a, b),
           NEW h, h = IF H[y] = "none" THEN o + 3 ELSE o + 2
    PROVE  Relevels(K, I, D, V, x, g, up, y, h)
<1>1. PICK i : i = C[b][y]
    OBVIOUS
<1>2. PICK j : j = C[a][y]
    OBVIOUS
<1>3. PICK k : k = C[b][x]
    OBVIOUS
<1>4. Around(C, P, D, x, y, a, b, i, j, k)
    BY <1>1, <1>2, <1>3, AroundFact
<1>5. /\ b \in Sides /\ b = Other(a) /\ a = Other(b) /\ a # b
      /\ x \in Node /\ y \in Node /\ x # y /\ P[y] = x
      /\ \A p \in {i, j, k} : p \in Pointer /\ p # x /\ p # y
      /\ P[x] # x /\ P[x] # y
      /\ a # "none" /\ b # "none"
    BY <1>4, SidesFact DEF Around
<1>6. V \in [Node -> Nat] /\ o \in Nat
    BY <1>3, <1>5, TallFact DEF Fits
<1>7. /\ H[y] = "none" => Tall(V, j) = o + 1 /\ Tall(V, i) = o + 1
      /\ H[y] # "none" => Tall(V, j) = o + 1 /\ Tall(V, i) = o
    <2>1. Poised(V[y], H[y], a, Tall(V, j), Tall(V, i))
        BY <1>1, <1>2, <1>5, FitsAway
    <2>2. Tall(V, i) \in Nat /\ Tall(V, j) \in Nat
        BY <1>5, <1>6, TallFact
    <2> QED BY <1>5, <1>6, <2>1, <2>2 DEF Poised
<1>8. PICK hx \in Nat, hy \in Nat :
          /\ hx = IF H[y] = "none" THEN o + 2 ELSE o + 1
          /\ hy = IF H[y] = "none" THEN o + 3 ELSE o + 2
    BY <1>6
<1>9. PICK W : W = [m \in Node |-> IF m = x THEN hx ELSE IF m = y THEN hy ELSE V[m]]
    OBVIOUS
<1>10. /\ W \in [Node -> Nat] /\ W[x] = hx /\ W[y] = hy
       /\ \A m \in Node \ {x, y} : W[m] = V[m]
    BY <1>5, <1>6, <1>9
<1>11. \A p \in {i, j, k} : Tall(W, p) = Tall(V, p)
    BY <1>5, <1>10, NodeFact DEF Tall
<1>12. K[a][x] = i /\ K[b][x] = k /\ K[a][y] = j /\ K[b][y] = x
    BY <1>1, <1>2, <1>3, <1>5 DEF OnceKids
<1>13. ASSUME NEW n \in Node
       PROVE  \E s \in Sides : PoisedAt(K, I, W, n, s, g, up, V[x])
    <2>1. CASE n = x
        <3>1. /\ Seen(K, W, x, a, g, up, V[x]) = Tall(V, i)
              /\ Seen(K, W, x, b, g, up, V[x]) = o
            BY <1>3, <1>5, <1>11, <1>12 DEF Seen
        <3>2. I[x] = IF H[y] = "none" THEN a ELSE "none"
            BY DEF OnceFlags
        <3>3. Poised(hx, I[x], a, Tall(V, i), o)
            <4>1. CASE H[y] = "none"
                <5>1. hx = o + 2 /\ I[x] = a /\ Tall(V, i) = o + 1
                    BY <1>7, <1>8, <3>2, <4>1
                <5>2. Poised(o + 2, a, a, o + 1, o)
                    BY <1>6 DEF Poised
                <5> QED BY <5>1, <5>2
            <4>2. CASE H[y] # "none"
                BY <1>5, <1>6, <1>7, <1>8, <3>2, <4>2 DEF Poised
            <4> QED BY <4>1, <4>2
        <3>4. PoisedAt(K, I, W, x, a, g, up, V[x])
            BY <1>5, <1>10, <3>1, <3>3 DEF PoisedAt
        <3> QED BY <2>1, <3>4
    <2>2. CASE n = y
        <3>1. /\ Seen(K, W, y, b, g, up, V[x]) = hx
              /\ Seen(K, W, y, a, g, up, V[x]) = o + 1
            BY <1>5, <1>7, <1>10, <1>11, <1>12, NodeFact DEF Seen, Tall
        <3>2. I[y] = IF H[y] = "none" THEN b ELSE "none"
            BY DEF OnceFlags
        <3>3. Poised(hy, I[y], b, hx, o + 1)
            <4>1. CASE H[y] = "none"
                <5>1. hx = o + 2 /\ I[y] = b /\ hy = o + 3
                    BY <1>8, <3>2, <4>1
                <5>2. Poised(o + 3, b, b, o + 2, o + 1)
                    BY <1>6 DEF Poised
                <5> QED BY <5>1, <5>2
            <4>2. CASE H[y] # "none"
                <5>1. hx = o + 1 /\ I[y] = "none" /\ hy = o + 2
                    BY <1>8, <3>2, <4>2
                <5>2. Poised(o + 2, "none", b, o + 1, o + 1)
                    BY <1>6 DEF Poised
                <5> QED BY <5>1, <5>2
            <4> QED BY <4>1, <4>2
        <3>4. PoisedAt(K, I, W, y, b, g, up, V[x])
            BY <1>5, <1>10, <3>1, <3>3 DEF PoisedAt
        <3> QED BY <1>5, <2>2, <3>4
    <2>3. CASE n # x /\ n # y
        <3>1. \A m \in Node \ {x, y} : W[m] = V[m] /\ I[m] = H[m]
            BY <1>10 DEF OnceFlags
        <3>2. \A m \in Node \ {x, y}, s \in Sides :
                  (K[s][m] = C[s][m] /\ C[s][m] \notin {x, y}) \/ C[s][m] = x
            <4> TAKE m \in Node \ {x, y}, s \in Sides
            <4>1. C[s][m] # y
                BY <1>5, NodeFact DEF Forest
            <4> QED BY <4>1 DEF OnceKids
        <3>3. PICK S : S = {x, y}
            OBVIOUS
        <3>4. x \in S /\ n \notin S
            BY <2>3, <3>3
        <3>5. Unturned(C, K, H, I, V, W, x, S)
            BY <3>1, <3>2, <3>3 DEF Unturned
        <3>6. PoisedAt(K, I, W, n, a, g, up, V[x])
            BY <1>10, <3>4, <3>5, RestFits
        <3> QED BY <3>6
    <2> QED BY <2>1, <2>2, <2>3
<1>14. Fits(K, I, W, g, up, V[x])
    <2>1. V[x] \in Nat
        BY <1>6
    <2> QED BY <1>10, <1>13, <2>1, FitsIs
<1>15. \A m \in Node \ D[x] : W[m] = V[m]
    <2>1. x \in D[x] /\ y \in D[x]
        BY SubtreeFact
    <2> QED BY <1>10, <2>1
<1>16. W[y] = h
    BY <1>8, <1>10
<1> QED BY <1>14, <1>15, <1>16 DEF Leveled, Relevels

(* y leans away from its side: its other child z goes above both.          *)
TwiceFlags(H, I, x, y, z, a, b) ==
    /\ \A m \in Node \ {x, y, z} : I[m] = H[m]
    /\ I[x] = IF H[z] = a THEN b ELSE "none"
    /\ I[y] = IF H[z] = b THEN a ELSE "none"
    /\ I[z] = "none"

LEMMA TwiceFits ==
    ASSUME NEW C, NEW P, NEW D, Forest(C, P, D), NEW x \in Node, NEW a \in Sides,
           NEW y, y = C[a][x], y # NULL, NEW b, b = Other(a),
           NEW z, z = C[b][y],
           NEW H, NEW V, NEW c, NEW w, Fits(C, H, V, x, c, w),
           NEW o, o = Tall(V, C[b][x]), V[y] = o + 2, H[y] = b,
           NEW g, g = P[x], NEW up \in Sides, g # NULL => C[up][g] = x,
           NEW K, TwiceKids(C, K, x, y, z, a, b),
           NEW I, TwiceFlags(H, I, x, y, z, a, b)
    PROVE  Relevels(K, I, D, V, x, g, up, z, o + 2)
<1>1. PICK k : k = C[b][x]
    OBVIOUS
<1>2. PICK j : j = C[a][y]
    OBVIOUS
<1>3. Around(C, P, D, x, y, a, b, z, j, k)
    BY <1>1, <1>2, AroundFact
<1>4. /\ b \in Sides /\ b = Other(a) /\ a = Other(b) /\ a # b
      /\ x \in Node /\ y \in Node /\ x # y /\ P[y] = x
      /\ \A p \in {z, j, k} : p \in Pointer /\ p # x /\ p # y
      /\ (z # NULL => z # j /\ z # k /\ P[z] = y)
      /\ P[x] \in Pointer /\ P[x] # x /\ P[x] # y
    BY <1>3 DEF Around
<1>5. V \in [Node -> Nat] /\ o \in Nat
    BY <1>1, <1>4, TallFact DEF Fits
<1>6. Tall(V, z) = o + 1 /\ Tall(V, j) = o
    <2>1. Poised(V[y], H[y], b, Tall(V, z), Tall(V, j))
        BY <1>2, <1>4, FitsAway
    <2>2. Tall(V, z) \in Nat /\ Tall(V, j) \in Nat
        BY <1>4, <1>5, TallFact
    <2> QED BY <1>4, <1>5, <2>1, <2>2, SidesFact DEF Poised
<1>7. z # NULL /\ z \in Node /\ V[z] = o + 1
    BY <1>4, <1>5, <1>6, NodeFact DEF Tall
<1>8. PICK p1 : p1 = C[b][z]
    OBVIOUS
<1>9. PICK p2 : p2 = C[a][z]
    OBVIOUS
<1>10. Around(C, P, D, y, z, b, a, p2, p1, j)
    BY <1>2, <1>4, <1>7, <1>8, <1>9, AroundFact
<1>11. /\ \A p \in {p1, p2, j, k} : p \in Pointer /\ p # x /\ p # y /\ p # z
       /\ x # z
    <2>1. \A p \in {p1, p2, j} : p \in Pointer /\ p # y /\ p # z
        <3>1. \A p \in {p2, p1, j} : p \in Pointer /\ p # y /\ p # z
            BY <1>10, Zenon DEF Around
        <3> QED BY <3>1
    <2>2. k # z /\ j # x /\ k # x /\ k # y /\ x # z
        BY <1>4, <1>7
    <2>3. \A p \in {p1, p2} : p # NULL => P[p] = z
        BY <1>10, Zenon DEF Around
    <2>4. p1 # x /\ p2 # x
        <3>1. P[x] # z
            <4>1. P[x] # NULL => P[x] \notin D[x]
                BY ParentFact
            <4>2. z \in D[x]
                <5>1. z \in D[y] /\ D[y] \subseteq D[x]
                    BY <1>4, <1>7, SubtreeFact
                <5> QED BY <5>1
            <4> QED BY <1>7, <4>1, <4>2
        <3> QED BY <1>4, <2>3, <3>1, NodeFact
    <2> QED BY <1>4, <2>1, <2>2, <2>4
<1>12. /\ H[z] = a => Tall(V, p2) = o /\ Tall(V, p1) + 1 = o
       /\ H[z] = b => Tall(V, p1) = o /\ Tall(V, p2) + 1 = o
       /\ (H[z] # a /\ H[z] # b) => Tall(V, p1) = o /\ Tall(V, p2) = o
    <2>1. Poised(V[z], H[z], a, Tall(V, p2), Tall(V, p1))
        <3>1. z \in Node /\ z # x
            BY <1>7, <1>11
        <3>2. Poised(V[z], H[z], a, Tall(V, C[a][z]), Tall(V, C[Other(a)][z]))
            BY <3>1, FitsAway
        <3> QED BY <1>8, <1>9, <3>2
    <2>2. Tall(V, p1) \in Nat /\ Tall(V, p2) \in Nat
        BY <1>11, <1>5, TallFact
    <2>3. a # "none" /\ b # "none"
        BY <1>4, SidesFact
    <2> QED BY <1>4, <1>5, <1>7, <2>1, <2>2, <2>3 DEF Poised
<1>13. PICK W : W = [m \in Node |-> IF m = x \/ m = y THEN o + 1
                                    ELSE IF m = z THEN o + 2 ELSE V[m]]
    OBVIOUS
<1>14. /\ W \in [Node -> Nat] /\ W[x] = o + 1 /\ W[y] = o + 1 /\ W[z] = o + 2
       /\ \A m \in Node \ {x, y, z} : W[m] = V[m]
    BY <1>4, <1>5, <1>7, <1>11, <1>13, Zenon
<1>15. \A p \in {p1, p2, j, k} : Tall(W, p) = Tall(V, p) /\ Tall(V, p) \in Nat
    BY <1>5, <1>11, <1>14, NodeFact DEF Tall
<1>16. /\ K[a][x] = p1 /\ K[b][x] = k /\ K[a][y] = j /\ K[b][y] = p2
       /\ K[a][z] = y /\ K[b][z] = x
    BY <1>1, <1>2, <1>4, <1>7, <1>8, <1>9, <1>11, Zenon DEF TwiceKids
<1>17. g # x /\ g # y /\ g # z
    <2>1. P[x] # NULL => P[x] \notin D[x]
        BY ParentFact
    <2>2. z \in D[y] /\ D[y] \subseteq D[x]
        BY <1>4, <1>7, SubtreeFact
    <2> QED BY <1>4, <1>7, <2>1, <2>2
<1>18. ASSUME NEW n \in Node
       PROVE  \E s \in Sides : PoisedAt(K, I, W, n, s, g, up, V[x])
    <2>1. CASE n = x
        <3>1. /\ Seen(K, W, x, b, g, up, V[x]) = o
              /\ Seen(K, W, x, a, g, up, V[x]) = Tall(V, p1)
            BY <1>1, <1>15, <1>16, <1>17 DEF Seen
        <3>2. Poised(W[x], I[x], b, o, Tall(V, p1))
            BY <1>4, <1>5, <1>12, <1>14, <1>15 DEF Poised, TwiceFlags
        <3> QED BY <1>4, <2>1, <3>1, <3>2 DEF PoisedAt
    <2>2. CASE n = y
        <3>1. /\ Seen(K, W, y, a, g, up, V[x]) = o
              /\ Seen(K, W, y, b, g, up, V[x]) = Tall(V, p2)
            BY <1>6, <1>15, <1>16, <1>17 DEF Seen
        <3>2. Poised(W[y], I[y], a, o, Tall(V, p2))
            BY <1>4, <1>5, <1>12, <1>14, <1>15 DEF Poised, TwiceFlags
        <3> QED BY <1>4, <2>2, <3>1, <3>2 DEF PoisedAt
    <2>3. CASE n = z
        <3>1. /\ Seen(K, W, z, a, g, up, V[x]) = o + 1
              /\ Seen(K, W, z, b, g, up, V[x]) = o + 1
            <4>1. Tall(W, x) = o + 1 /\ Tall(W, y) = o + 1
                BY <1>14, NodeFact DEF Tall
            <4> QED BY <1>16, <1>17, <4>1 DEF Seen
        <3>2. Poised(W[z], I[z], a, o + 1, o + 1)
            BY <1>5, <1>14 DEF Poised, TwiceFlags
        <3> QED BY <1>4, <2>3, <3>1, <3>2, Zenon DEF PoisedAt
    <2>4. CASE n # x /\ n # y /\ n # z
        <3>1. \A m \in Node \ {x, y, z} : W[m] = V[m] /\ I[m] = H[m]
            BY <1>14 DEF TwiceFlags
        <3>2. \A m \in Node \ {x, y, z}, s \in Sides :
                  (K[s][m] = C[s][m] /\ C[s][m] \notin {x, y, z}) \/ C[s][m] = x
            <4> TAKE m \in Node \ {x, y, z}, s \in Sides
            <4>1. C[s][m] # y /\ C[s][m] # z
                BY <1>4, <1>7, NodeFact DEF Forest
            <4> QED BY <4>1 DEF TwiceKids
        <3>3. PICK S : S = {x, y, z}
            OBVIOUS
        <3>4. x \in S /\ n \notin S
            BY <2>4, <3>3
        <3>5. Unturned(C, K, H, I, V, W, x, S)
            BY <3>1, <3>2, <3>3 DEF Unturned
        <3>6. PoisedAt(K, I, W, n, a, g, up, V[x])
            BY <1>14, <3>4, <3>5, RestFits
        <3> QED BY <3>6
    <2> QED BY <2>1, <2>2, <2>3, <2>4
<1>19. Fits(K, I, W, g, up, V[x])
    <2>1. V[x] \in Nat
        BY <1>5
    <2> QED BY <1>14, <1>18, <2>1, FitsIs
<1>20. \A m \in Node \ D[x] : W[m] = V[m]
    <2>1. x \in D[x] /\ y \in D[x] /\ z \in D[y] /\ D[y] \subseteq D[x]
        BY <1>4, <1>7, SubtreeFact
    <2> QED BY <1>14, <2>1
<1> QED BY <1>14, <1>19, <1>20 DEF Leveled, Relevels

-----------------------------------------------------------------------------
(* Sizes and flags of a tree record.                                       *)

(* Every size is the sum of those below: the same as to count the nodes.   *)
SumAt(t, n, s) == 1 + SizeAt(t, t[s][n]) + SizeAt(t, t[Other(s)][n])
Summed(t) == \A n \in Node, s \in Sides : t.size[n] = SumAt(t, n, s)

LEMMA SizeAtFact ==
    ASSUME NEW t, Typed(t)
    PROVE  /\ \A p \in Pointer : SizeAt(t, p) \in Nat
           /\ \A n \in Node : SizeAt(t, n) = t.size[n]
           /\ \A n \in Node, s \in Sides : t[s][n] \in Pointer
           /\ \A n \in Node, s \in Sides : SizeAt(t, t[s][n]) \in Nat
           /\ \A n \in Node, s \in Sides : SumAt(t, n, s) \in Nat
<1>1. \A p \in Pointer : SizeAt(t, p) \in Nat
    BY TypedFields, NodeFact DEF SizeAt
<1>2. \A n \in Node : SizeAt(t, n) = t.size[n]
    BY NodeFact DEF SizeAt
<1>3. \A n \in Node, s \in Sides : t[s][n] \in Pointer
    BY KidsFact
<1>4. \A n \in Node, s \in Sides : SizeAt(t, t[s][n]) \in Nat
    BY <1>1, <1>3
<1>5. ASSUME NEW n \in Node, NEW s \in Sides PROVE SumAt(t, n, s) \in Nat
    <2>1. Other(s) \in Sides
        BY SidesFact
    <2>2. SizeAt(t, t[s][n]) \in Nat /\ SizeAt(t, t[Other(s)][n]) \in Nat
        BY <1>4, <2>1
    <2> QED BY <2>2 DEF SumAt
<1> QED BY <1>1, <1>2, <1>3, <1>4, <1>5

(* To sum up on one side is to sum up on both.                             *)
LEMMA SummedIs ==
    ASSUME NEW t, Typed(t),
           \A n \in Node : \E s \in Sides : t.size[n] = SumAt(t, n, s)
    PROVE  Summed(t)
<1>1. SUFFICES ASSUME NEW n \in Node, NEW s \in Sides PROVE t.size[n] = SumAt(t, n, s)
    BY DEF Summed
<1>2. PICK u \in Sides : t.size[n] = SumAt(t, n, u)
    OBVIOUS
<1>3. CASE u = s
    BY <1>2, <1>3
<1>4. CASE u # s
    <2>1. u = Other(s) /\ s = Other(u) /\ Other(s) \in Sides
        BY <1>4, SidesFact
    <2>2. SizeAt(t, t[s][n]) \in Nat /\ SizeAt(t, t[Other(s)][n]) \in Nat
        BY <2>1, SizeAtFact
    <2> QED BY <1>2, <2>1, <2>2 DEF SumAt
<1> QED BY <1>3, <1>4

LEMMA UpdateSizeFact ==
    ASSUME NEW t, Typed(t), NEW n \in Node, NEW s \in Sides,
           NEW l, l = update_size(t, n)
    PROVE  /\ SameLinks(l, t)
           /\ \A m \in Node : l.size[m] = IF m = n THEN SumAt(t, n, s) ELSE t.size[m]
<1>1. PICK z : z = SumAt(t, n, s)
    OBVIOUS
<1>2. z \in Nat
    BY <1>1, SizeAtFact
<1>3. z = 1 + SizeAt(t, t.left[n]) + SizeAt(t, t.right[n])
    <2>1. t["left"] = t.left /\ t["right"] = t.right
        OBVIOUS
    <2>2. SizeAt(t, t.left[n]) \in Nat /\ SizeAt(t, t.right[n]) \in Nat
        BY SizeAtFact, TypedFields
    <2> QED BY <1>1, <2>1, <2>2, SidesFact DEF SumAt
<1>4. l = [t EXCEPT !.size[n] = z]
    BY <1>3 DEF update_size
<1> QED BY <1>1, <1>2, <1>4, SetSizeFact

(* l is t with other flags.                                                *)
SameShape(l, t) ==
    /\ Typed(l)
    /\ l.root = t.root /\ l.left = t.left /\ l.right = t.right
    /\ l.parent = t.parent /\ l.size = t.size

OneFlag(l, t, n, f) ==
    /\ SameShape(l, t)
    /\ \A m \in Node : l.heavy[m] = IF m = n THEN f ELSE t.heavy[m]

LEMMA SetFlagFact ==
    ASSUME NEW t, Typed(t), NEW n \in Node, NEW f \in Sides \cup {"none"},
           NEW l, l = [t EXCEPT !.heavy[n] = f]
    PROVE  OneFlag(l, t, n, f)
<1>1. Typed(l)
    BY DEF Typed
<1>2. SameShape(l, t)
    BY <1>1 DEF Typed, SameShape
<1> QED BY <1>1, <1>2 DEF Typed, OneFlag

TwoFlags(l, t, n, f, k, e) ==
    /\ SameShape(l, t)
    /\ \A m \in Node :
           l.heavy[m] = IF m = n THEN f ELSE IF m = k THEN e ELSE t.heavy[m]

LEMMA SetFlagsFact ==
    ASSUME NEW t, Typed(t), NEW n \in Node, NEW f \in Sides \cup {"none"},
           NEW k \in Node, NEW e \in Sides \cup {"none"}, n # k,
           NEW l, l = [t EXCEPT !.heavy[n] = f, !.heavy[k] = e]
    PROVE  TwoFlags(l, t, n, f, k, e)
<1>1. Typed(l)
    BY DEF Typed
<1>2. SameShape(l, t)
    BY <1>1 DEF Typed, SameShape
<1> QED BY <1>1, <1>2 DEF Typed, TwoFlags

ThreeFlags(l, t, n, f, k, e, j, d) ==
    /\ SameShape(l, t)
    /\ \A m \in Node : l.heavy[m] = IF m = n THEN f ELSE IF m = k THEN e
                                    ELSE IF m = j THEN d ELSE t.heavy[m]

LEMMA SetThreeFlagsFact ==
    ASSUME NEW t, Typed(t), NEW n \in Node, NEW f \in Sides \cup {"none"},
           NEW k \in Node, NEW e \in Sides \cup {"none"},
           NEW j \in Node, NEW d \in Sides \cup {"none"}, n # k, n # j, k # j,
           NEW l, l = [t EXCEPT !.heavy[n] = f, !.heavy[k] = e, !.heavy[j] = d]
    PROVE  ThreeFlags(l, t, n, f, k, e, j, d)
<1>1. Typed(l)
    BY DEF Typed
<1>2. SameShape(l, t)
    BY <1>1 DEF Typed, SameShape
<1> QED BY <1>1, <1>2 DEF Typed, ThreeFlags

LEMMA SameShapeFact ==
    ASSUME NEW t, NEW l, SameShape(l, t)
    PROVE  /\ \A u \in Sides : l[u] = t[u]
           /\ \A p : SizeAt(l, p) = SizeAt(t, p)
           /\ Kids(l) = Kids(t)
           /\ Summed(t) => Summed(l)
           /\ \A D : Grove(t, D) => Grove(l, D)
<1>1. \A u \in Sides : l[u] = t[u]
    BY SidesFact DEF SameShape
<1>2. Kids(l) = Kids(t)
    BY <1>1 DEF Kids
<1>3. \A p : SizeAt(l, p) = SizeAt(t, p)
    BY DEF SameShape, SizeAt
<1>4. Summed(t) => Summed(l)
    BY <1>1, <1>3, SidesFact DEF Summed, SumAt, SameShape
<1>5. \A D : Grove(t, D) => Grove(l, D)
    BY <1>2 DEF Grove, SameShape
<1> QED BY <1>1, <1>2, <1>3, <1>4, <1>5

-----------------------------------------------------------------------------
(* What the rotations of the code do, with the new root attached below g.  *)

OnceSizes(t, l, x, y, a, b) ==
    /\ \A m \in Node \ {x, y} : l.size[m] = t.size[m]
    /\ l.size[x] = 1 + SizeAt(t, t[b][y]) + SizeAt(t, t[b][x])
    /\ l.size[y] = 1 + l.size[x] + SizeAt(t, t[a][y])

OnceDone(t, l, x, y, a, b) ==
    /\ OnceKids(Kids(t), Kids(l), x, y, a, b)
    /\ OnceParents(Kids(t), t.parent, l.parent, x, y, b)
    /\ OnceFlags(t.heavy, l.heavy, x, y, a, b)
    /\ OnceSizes(t, l, x, y, a, b)

LEMMA RotateDone ==
    ASSUME NEW t, NEW D, Grove(t, D), NEW x \in Node, NEW a \in Sides,
           NEW y, y = t[a][x], y # NULL, NEW b, b = Other(a),
           NEW g, g = t.parent[x], NEW up \in Sides, g # NULL => t[up][g] = x,
           NEW r, r = Rotate(t, x, y, a), NEW l, l = Attach(r, g, y, up)
    PROVE  /\ Typed(l) /\ l.root = IF g = NULL THEN y ELSE t.root
           /\ OnceDone(t, l, x, y, a, b)
<1>1. Typed(t) /\ Forest(Kids(t), t.parent, D)
    BY DEF Grove
<1>2. \A s \in Sides, m \in Node : Kids(t)[s][m] = t[s][m]
    BY <1>1, KidsFact
<1>3. PICK i : i = t[b][y]
    OBVIOUS
<1>4. PICK j : j = t[a][y]
    OBVIOUS
<1>5. PICK k : k = t[b][x]
    OBVIOUS
<1>6. y \in Node /\ b \in Sides
    BY <1>1, KidsFact, NodeFact, SidesFact
<1>7. Around(Kids(t), t.parent, D, x, y, a, b, i, j, k)
    BY <1>1, <1>2, <1>3, <1>4, <1>5, <1>6, AroundFact
<1>8. /\ b \in Sides /\ b = Other(a) /\ a = Other(b) /\ a # b
      /\ \A s \in Sides : s = a \/ s = b
      /\ x # y /\ \A p \in {i, j, k} : p \in Pointer /\ p # x /\ p # y
      /\ g \in Pointer /\ g # x /\ g # y
    BY <1>7 DEF Around
<1>9. x \in Pointer /\ y \in Pointer
    BY <1>6, NodeFact
<1>10. PICK t1 : t1 = Link(t, x, i, a)
    OBVIOUS
<1>11. PICK t2 : t2 = Link(t1, y, x, b)
    OBVIOUS
<1>12. PICK t3 : t3 = update_size(t2, x)
    OBVIOUS
<1>13. PICK t4 : t4 = update_size(t3, y)
    OBVIOUS
<1>14. PICK fx : fx = IF t.heavy[y] = "none" THEN a ELSE "none"
    OBVIOUS
<1>15. PICK fy : fy = IF t.heavy[y] = "none" THEN b ELSE "none"
    OBVIOUS
<1>16. r = [t4 EXCEPT !.heavy[x] = fx, !.heavy[y] = fy]
    BY <1>3, <1>8, <1>10, <1>11, <1>12, <1>13, <1>14, <1>15, Zenon DEF Rotate
<1>17. Joined(t1, t, x, i, a) /\ t1.root = t.root
    BY <1>1, <1>8, <1>9, <1>10, LinkFact
<1>18. Typed(t1)
    BY <1>17 DEF Joined
<1>19. Joined(t2, t1, y, x, b) /\ t2.root = t1.root
    BY <1>6, <1>9, <1>11, <1>18, LinkFact
<1>20. Typed(t2)
    BY <1>19 DEF Joined
<1>21. /\ SameLinks(t3, t2)
       /\ \A m \in Node : t3.size[m] = IF m = x THEN SumAt(t2, x, a) ELSE t2.size[m]
    BY <1>12, <1>20, UpdateSizeFact
<1>22. Typed(t3)
    BY <1>21 DEF SameLinks
<1>23. /\ SameLinks(t4, t3)
       /\ \A m \in Node : t4.size[m] = IF m = y THEN SumAt(t3, y, b) ELSE t3.size[m]
    BY <1>6, <1>13, <1>22, UpdateSizeFact
<1>24. Typed(t4)
    BY <1>23 DEF SameLinks
<1>25. fx \in Sides \cup {"none"} /\ fy \in Sides \cup {"none"}
    BY <1>8, <1>14, <1>15
<1>26. /\ SameShape(r, t4)
       /\ \A m \in Node : r.heavy[m] = IF m = x THEN fx ELSE IF m = y THEN fy
                                       ELSE t4.heavy[m]
    <2>1. x # y
        BY <1>8
    <2>2. TwoFlags(r, t4, x, fx, y, fy)
        BY <1>6, <1>16, <1>24, <1>25, <2>1, SetFlagsFact
    <2> QED BY <2>2 DEF TwoFlags
<1>27. Typed(r)
    BY <1>26 DEF SameShape
<1>28. Joined(l, r, g, y, up) /\ l.root = IF g = NULL THEN y ELSE r.root
    BY <1>8, <1>9, <1>27, AttachFact
(* The links.                                                              *)
<1>29. \A m \in Node, s \in Sides :
           t2[s][m] = IF s = b /\ m = y THEN x ELSE IF s = a /\ m = x THEN i ELSE t[s][m]
    BY <1>17, <1>19 DEF Joined
<1>30. \A s \in Sides : r[s] = t2[s]
    <2>1. \A s \in Sides : t3[s] = t2[s] /\ t4[s] = t3[s] /\ r[s] = t4[s]
        BY <1>21, <1>23, <1>26, SameLinksFact, SameShapeFact
    <2> QED BY <2>1
<1>31. r.root = t.root /\ r.parent = t2.parent /\ t4.heavy = t.heavy
    BY <1>17, <1>19, <1>21, <1>23, <1>26 DEF Joined, SameLinks, SameShape
<1>32. Typed(l) /\ l.size = r.size /\ l.heavy = r.heavy
    BY <1>28 DEF Joined
<1>33. \A m \in Node, s \in Sides : Kids(l)[s][m] = l[s][m]
    BY <1>32, KidsFact
<1>34. \A m \in Node, s \in Sides : t[s][m] = x <=> s = up /\ m = g
    <2>1. g # NULL => Kids(t)[up][g] = x
        BY <1>2, <1>8, NodeFact
    <2> QED BY <1>1, <1>2, <2>1, HangsFact
<1>35. OnceKids(Kids(t), Kids(l), x, y, a, b)
    <2>1. SUFFICES ASSUME NEW m \in Node, NEW s \in Sides
                   PROVE  l[s][m] = IF m = x /\ s = a THEN i
                                    ELSE IF m = y /\ s = b THEN x
                                    ELSE IF t[s][m] = x THEN y ELSE t[s][m]
        BY <1>2, <1>3, <1>6, <1>8, <1>33 DEF OnceKids
    <2>2. l[s][m] = IF s = up /\ m = g THEN y ELSE t2[s][m]
        BY <1>28, <1>30 DEF Joined
    <2> QED BY <1>8, <1>29, <1>34, <2>2
<1>36. OnceParents(Kids(t), t.parent, l.parent, x, y, b)
    <2>1. SUFFICES ASSUME NEW m \in Node
                   PROVE  l.parent[m] = IF m = y THEN g ELSE IF m = x THEN y
                                        ELSE IF m = i THEN x ELSE t.parent[m]
        BY <1>2, <1>3, <1>6, <1>8 DEF OnceParents
    <2>2. l.parent[m] = IF m = y THEN g ELSE t2.parent[m]
        BY <1>28, <1>31 DEF Joined
    <2>3. t2.parent[m] = IF m = x THEN y ELSE IF m = i THEN x ELSE t.parent[m]
        BY <1>17, <1>19 DEF Joined
    <2> QED BY <2>2, <2>3
(* The flags and the sizes.                                                *)
<1>37. OnceFlags(t.heavy, l.heavy, x, y, a, b)
    <2>1. \A m \in Node : l.heavy[m] = IF m = x THEN fx ELSE IF m = y THEN fy
                                       ELSE t.heavy[m]
        BY <1>26, <1>31, <1>32
    <2>2. x # y
        BY <1>8
    <2> QED BY <1>6, <1>14, <1>15, <2>1, <2>2 DEF OnceFlags
<1>38. t2.size = t.size
    BY <1>17, <1>19 DEF Joined
<1>39. /\ l.size[x] = SumAt(t2, x, a) /\ l.size[y] = SumAt(t3, y, b)
       /\ \A m \in Node \ {x, y} : l.size[m] = t.size[m]
    BY <1>6, <1>8, <1>21, <1>23, <1>26, <1>32, <1>38 DEF SameShape
<1>40. SumAt(t2, x, a) = 1 + SizeAt(t, i) + SizeAt(t, k)
    <2>1. t2[a][x] = i /\ t2[b][x] = k
        BY <1>5, <1>8, <1>29
    <2> QED BY <1>8, <1>38, <2>1 DEF SumAt, SizeAt
<1>41. SumAt(t3, y, b) = 1 + l.size[x] + SizeAt(t, j)
    <2>1. t3[b][y] = x /\ t3[a][y] = j
        <3>1. t3[b] = t2[b] /\ t3[a] = t2[a]
            BY <1>8, <1>21, SameLinksFact
        <3> QED BY <1>4, <1>6, <1>8, <1>29, <3>1
    <2>2. SizeAt(t3, x) = l.size[x] /\ SizeAt(t3, j) = SizeAt(t, j)
        <3>1. t3.size[x] = l.size[x]
            BY <1>21, <1>39
        <3>2. j # NULL => t3.size[j] = t.size[j]
            BY <1>8, <1>21, <1>38, NodeFact
        <3> QED BY <3>1, <3>2, NodeFact DEF SizeAt
    <2> QED BY <1>8, <2>1, <2>2 DEF SumAt
<1>42. OnceSizes(t, l, x, y, a, b)
    BY <1>3, <1>4, <1>5, <1>39, <1>40, <1>41 DEF OnceSizes
<1> QED BY <1>28, <1>31, <1>32, <1>35, <1>36, <1>37, <1>42 DEF OnceDone

TwiceSizes(t, l, x, y, z, a, b) ==
    /\ \A m \in Node \ {x, y, z} : l.size[m] = t.size[m]
    /\ l.size[x] = 1 + SizeAt(t, t[b][z]) + SizeAt(t, t[b][x])
    /\ l.size[y] = 1 + SizeAt(t, t[a][z]) + SizeAt(t, t[a][y])
    /\ l.size[z] = 1 + l.size[x] + l.size[y]

TwiceDone(t, l, x, y, z, a, b) ==
    /\ TwiceKids(Kids(t), Kids(l), x, y, z, a, b)
    /\ TwiceParents(Kids(t), t.parent, l.parent, x, y, z, a, b)
    /\ TwiceFlags(t.heavy, l.heavy, x, y, z, a, b)
    /\ TwiceSizes(t, l, x, y, z, a, b)

(* The nodes around two rotations.                                         *)
AroundTwice(C, P, x, y, z, a, b, i, j, e, k) ==
    /\ a \in Sides /\ b \in Sides /\ b = Other(a) /\ a = Other(b) /\ a # b
    /\ \A s \in Sides : s = a \/ s = b
    /\ x \in Node /\ y \in Node /\ z \in Node /\ x # y /\ x # z /\ y # z
    /\ \A p \in {i, j, e, k} : p \in Pointer /\ p # x /\ p # y /\ p # z
    /\ i # NULL => i # j
    /\ P[x] \in Pointer /\ P[x] # x /\ P[x] # y /\ P[x] # z

LEMMA AroundTwiceFact ==
    ASSUME NEW C, NEW P, NEW D, Forest(C, P, D), NEW x \in Node, NEW a \in Sides,
           NEW y, y = C[a][x], y # NULL, NEW b, b = Other(a),
           NEW z, z = C[b][y], z # NULL,
           NEW i, i = C[b][z], NEW j, j = C[a][z], NEW e, e = C[a][y],
           NEW k, k = C[b][x]
    PROVE  AroundTwice(C, P, x, y, z, a, b, i, j, e, k)
<1>1. Around(C, P, D, x, y, a, b, z, e, k)
    BY AroundFact
<1>2. /\ b \in Sides /\ b = Other(a) /\ a = Other(b) /\ a # b
      /\ \A s \in Sides : s = a \/ s = b
      /\ x \in Node /\ y \in Node /\ x # y
      /\ \A p \in {z, e, k} : p \in Pointer /\ p # x /\ p # y
      /\ z # e /\ z # k
      /\ P[x] \in Pointer /\ P[x] # x /\ P[x] # y
    BY <1>1 DEF Around
<1>3. z \in Node
    BY <1>2, NodeFact
<1>4. Around(C, P, D, y, z, b, a, j, i, e)
    BY <1>2, <1>3, AroundFact
<1>5. /\ \A p \in {i, j} : p \in Pointer /\ p # y /\ p # z
      /\ \A p \in {i, j} : p # NULL => P[p] = z
      /\ i # NULL => i # j
    BY <1>4, Zenon DEF Around
<1>6. P[x] # z
    <2>1. P[x] # NULL => P[x] \notin D[x]
        BY ParentFact
    <2>2. z \in D[x]
        <3>1. z \in D[y] /\ D[y] \subseteq D[x]
            BY <1>2, <1>3, SubtreeFact
        <3> QED BY <3>1
    <2> QED BY <1>3, <2>1, <2>2, NodeFact
<1>7. i # x /\ j # x
    BY <1>2, <1>5, <1>6, NodeFact
<1>8. \A p \in {i, j, e, k} : p \in Pointer /\ p # x /\ p # y /\ p # z
    <2>1. z \in Pointer /\ e \in Pointer /\ k \in Pointer /\ e # x /\ e # y /\ k # x /\ k # y
        BY <1>2
    <2>2. e # z /\ k # z
        BY <1>2
    <2>3. /\ i \in Pointer /\ i # y /\ i # z
          /\ j \in Pointer /\ j # y /\ j # z
        BY <1>5
    <2> QED BY <1>7, <2>1, <2>2, <2>3
<1>9. x # z /\ y # z
    BY <1>2
<1> QED BY <1>2, <1>3, <1>5, <1>6, <1>8, <1>9, Zenon DEF AroundTwice

LEMMA RotateTwiceDone ==
    ASSUME NEW t, NEW D, Grove(t, D), NEW x \in Node, NEW a \in Sides,
           NEW y, y = t[a][x], y # NULL, NEW b, b = Other(a),
           NEW z, z = t[b][y], z # NULL,
           NEW g, g = t.parent[x], NEW up \in Sides, g # NULL => t[up][g] = x,
           NEW r, r = RotateTwice(t, x, y, a), NEW l, l = Attach(r, g, z, up)
    PROVE  /\ Typed(l) /\ l.root = IF g = NULL THEN z ELSE t.root
           /\ TwiceDone(t, l, x, y, z, a, b)
<1>1. Typed(t) /\ Forest(Kids(t), t.parent, D)
    BY DEF Grove
<1>2. \A s \in Sides, m \in Node : Kids(t)[s][m] = t[s][m]
    BY <1>1, KidsFact
<1>3. y \in Node /\ z \in Node /\ b \in Sides
    BY <1>1, KidsFact, NodeFact, SidesFact
<1>4. PICK i : i = t[b][z]
    OBVIOUS
<1>5. PICK j : j = t[a][z]
    OBVIOUS
<1>6. PICK e : e = t[a][y]
    OBVIOUS
<1>7. PICK k : k = t[b][x]
    OBVIOUS
<1>8. AroundTwice(Kids(t), t.parent, x, y, z, a, b, i, j, e, k)
    BY <1>1, <1>2, <1>3, <1>4, <1>5, <1>6, <1>7, AroundTwiceFact
<1>9. /\ b \in Sides /\ b = Other(a) /\ a = Other(b) /\ a # b
      /\ \A s \in Sides : s = a \/ s = b
      /\ x # y /\ x # z /\ y # z
      /\ \A p \in {i, j, e, k} : p \in Pointer /\ p # x /\ p # y /\ p # z
      /\ i # NULL => i # j
      /\ g \in Pointer /\ g # x /\ g # y /\ g # z
    BY <1>8 DEF AroundTwice
<1>10. x # y /\ x # z /\ y # z /\ i \in Pointer /\ j \in Pointer
    BY <1>9
<1>11. x \in Pointer /\ y \in Pointer /\ z \in Pointer /\ g \in Pointer
    BY <1>3, <1>9, NodeFact
<1>12. PICK t1 : t1 = Link(t, y, j, b)
    OBVIOUS
<1>13. PICK t2 : t2 = Link(t1, z, y, a)
    OBVIOUS
<1>14. PICK t3 : t3 = Link(t2, x, i, a)
    OBVIOUS
<1>15. PICK t4 : t4 = Link(t3, z, x, b)
    OBVIOUS
<1>16. PICK t5 : t5 = update_size(t4, x)
    OBVIOUS
<1>17. PICK t6 : t6 = update_size(t5, y)
    OBVIOUS
<1>18. PICK t7 : t7 = update_size(t6, z)
    OBVIOUS
<1>19. PICK fx : fx = IF t.heavy[z] = a THEN b ELSE "none"
    OBVIOUS
<1>20. PICK fy : fy = IF t.heavy[z] = b THEN a ELSE "none"
    OBVIOUS
<1>21. r = [t7 EXCEPT !.heavy[x] = fx, !.heavy[y] = fy, !.heavy[z] = "none"]
    BY <1>4, <1>5, <1>12, <1>13, <1>14, <1>15, <1>16, <1>17, <1>18, <1>19, <1>20, Zenon
       DEF RotateTwice
<1>22. Joined(t1, t, y, j, b) /\ t1.root = t.root
    BY <1>1, <1>3, <1>10, <1>11, <1>12, LinkFact
<1>23. Typed(t1)
    BY <1>22 DEF Joined
<1>24. Joined(t2, t1, z, y, a) /\ t2.root = t1.root
    BY <1>11, <1>13, <1>23, LinkFact
<1>25. Typed(t2)
    BY <1>24 DEF Joined
<1>26. Joined(t3, t2, x, i, a) /\ t3.root = t2.root
    BY <1>10, <1>11, <1>14, <1>25, LinkFact
<1>27. Typed(t3)
    BY <1>26 DEF Joined
<1>28. Joined(t4, t3, z, x, b) /\ t4.root = t3.root
    BY <1>3, <1>11, <1>15, <1>27, LinkFact
<1>29. Typed(t4)
    BY <1>28 DEF Joined
<1>30. /\ SameLinks(t5, t4)
       /\ \A m \in Node : t5.size[m] = IF m = x THEN SumAt(t4, x, a) ELSE t4.size[m]
    BY <1>16, <1>29, UpdateSizeFact
<1>31. Typed(t5)
    BY <1>30 DEF SameLinks
<1>32. /\ SameLinks(t6, t5)
       /\ \A m \in Node : t6.size[m] = IF m = y THEN SumAt(t5, y, b) ELSE t5.size[m]
    BY <1>3, <1>17, <1>31, UpdateSizeFact
<1>33. Typed(t6)
    BY <1>32 DEF SameLinks
<1>34. /\ SameLinks(t7, t6)
       /\ \A m \in Node : t7.size[m] = IF m = z THEN SumAt(t6, z, b) ELSE t6.size[m]
    BY <1>3, <1>18, <1>33, UpdateSizeFact
<1>35. Typed(t7)
    BY <1>34 DEF SameLinks
<1>36. fx \in Sides \cup {"none"} /\ fy \in Sides \cup {"none"}
    BY <1>3, <1>19, <1>20
<1>37. ThreeFlags(r, t7, x, fx, y, fy, z, "none")
    BY <1>3, <1>10, <1>21, <1>35, <1>36, SetThreeFlagsFact
<1>38. /\ SameShape(r, t7)
       /\ \A m \in Node : r.heavy[m] = IF m = x THEN fx ELSE IF m = y THEN fy
                                       ELSE IF m = z THEN "none" ELSE t7.heavy[m]
    BY <1>37 DEF ThreeFlags
<1>39. Typed(r)
    BY <1>38 DEF SameShape
<1>40. Joined(l, r, g, z, up) /\ l.root = IF g = NULL THEN z ELSE r.root
    BY <1>11, <1>39, AttachFact
(* The links.                                                              *)
<1>41. \A m \in Node, s \in Sides :
           t4[s][m] = IF s = b /\ m = z THEN x ELSE IF s = a /\ m = x THEN i
                      ELSE IF s = a /\ m = z THEN y ELSE IF s = b /\ m = y THEN j
                      ELSE t[s][m]
    BY <1>22, <1>24, <1>26, <1>28 DEF Joined
<1>42. \A s \in Sides : t5[s] = t4[s] /\ t6[s] = t4[s] /\ r[s] = t4[s]
    <2>1. \A s \in Sides : t5[s] = t4[s] /\ t6[s] = t5[s] /\ t7[s] = t6[s] /\ r[s] = t7[s]
        BY <1>30, <1>32, <1>34, <1>38, SameLinksFact, SameShapeFact
    <2> QED BY <2>1
<1>43. r.root = t.root /\ r.parent = t4.parent /\ t7.heavy = t.heavy
    BY <1>22, <1>24, <1>26, <1>28, <1>30, <1>32, <1>34, <1>38
       DEF Joined, SameLinks, SameShape
<1>44. Typed(l) /\ l.size = r.size /\ l.heavy = r.heavy
    BY <1>40 DEF Joined
<1>45. \A m \in Node, s \in Sides : Kids(l)[s][m] = l[s][m]
    BY <1>44, KidsFact
<1>46. \A m \in Node, s \in Sides : t[s][m] = x <=> s = up /\ m = g
    <2>1. g # NULL => Kids(t)[up][g] = x
        BY <1>2, <1>11, NodeFact
    <2> QED BY <1>1, <1>2, <2>1, HangsFact
<1>47. TwiceKids(Kids(t), Kids(l), x, y, z, a, b)
    <2>1. SUFFICES ASSUME NEW m \in Node, NEW s \in Sides
                   PROVE  l[s][m] = IF m = x /\ s = a THEN i
                                    ELSE IF m = y /\ s = b THEN j
                                    ELSE IF m = z THEN (IF s = a THEN y ELSE x)
                                    ELSE IF t[s][m] = x THEN z ELSE t[s][m]
        <3>1. /\ Kids(t)[b][z] = i /\ Kids(t)[a][z] = j
              /\ \A q \in Node, v \in Sides : Kids(t)[v][q] = t[v][q] /\ Kids(l)[v][q] = l[v][q]
            BY <1>2, <1>3, <1>4, <1>5, <1>45
        <3> QED BY <3>1 DEF TwiceKids
    <2>2. l[s][m] = IF s = up /\ m = g THEN z ELSE t4[s][m]
        <3>1. l[s][m] = IF s = up /\ m = g THEN z ELSE r[s][m]
            BY <1>40 DEF Joined
        <3> QED BY <1>42, <3>1
    <2> QED BY <1>9, <1>41, <1>46, <2>2
<1>48. TwiceParents(Kids(t), t.parent, l.parent, x, y, z, a, b)
    <2>1. SUFFICES ASSUME NEW m \in Node
                   PROVE  l.parent[m] = IF m = z THEN g ELSE IF m = x \/ m = y THEN z
                                        ELSE IF m = i THEN x
                                        ELSE IF m = j THEN y ELSE t.parent[m]
        <3>1. Kids(t)[b][z] = i /\ Kids(t)[a][z] = j
            BY <1>2, <1>3, <1>4, <1>5
        <3> QED BY <3>1 DEF TwiceParents
    <2>2. l.parent[m] = IF m = z THEN g ELSE t4.parent[m]
        BY <1>40, <1>43 DEF Joined
    <2>3. t4.parent[m] = IF m = x THEN z ELSE IF m = i THEN x
                         ELSE IF m = y THEN z ELSE IF m = j THEN y ELSE t.parent[m]
        BY <1>22, <1>24, <1>26, <1>28 DEF Joined
    <2>4. i # y /\ j # x /\ i # x /\ j # y
        BY <1>9
    <2> QED BY <2>2, <2>3, <2>4
(* The flags and the sizes.                                                *)
<1>49. TwiceFlags(t.heavy, l.heavy, x, y, z, a, b)
    <2>1. \A m \in Node : l.heavy[m] = IF m = x THEN fx ELSE IF m = y THEN fy
                                       ELSE IF m = z THEN "none" ELSE t.heavy[m]
        BY <1>38, <1>43, <1>44
    <2> QED BY <1>3, <1>10, <1>19, <1>20, <2>1 DEF TwiceFlags
<1>50. t4.size = t.size
    BY <1>22, <1>24, <1>26, <1>28 DEF Joined
<1>51. r.size = t7.size
    BY <1>38 DEF SameShape
<1>52. /\ l.size[x] = SumAt(t4, x, a) /\ l.size[y] = SumAt(t5, y, b)
       /\ l.size[z] = SumAt(t6, z, b)
       /\ \A m \in Node \ {x, y, z} : l.size[m] = t.size[m]
       /\ t5.size[x] = l.size[x] /\ t6.size[x] = l.size[x] /\ t6.size[y] = l.size[y]
       /\ \A m \in Node \ {x} : t5.size[m] = t.size[m]
    BY <1>3, <1>10, <1>30, <1>32, <1>34, <1>44, <1>50, <1>51
<1>53. SumAt(t4, x, a) = 1 + SizeAt(t, i) + SizeAt(t, k)
    <2>1. t4[a][x] = i /\ t4[b][x] = k
        BY <1>7, <1>9, <1>41
    <2> QED BY <1>9, <1>50, <2>1 DEF SumAt, SizeAt
<1>54. SumAt(t5, y, b) = 1 + SizeAt(t, j) + SizeAt(t, e)
    <2>1. t5[b][y] = j /\ t5[a][y] = e
        BY <1>3, <1>6, <1>9, <1>41, <1>42
    <2>2. \A p \in {j, e} : p # NULL => t5.size[p] = t.size[p]
        <3>1. j \in Pointer /\ j # x /\ e \in Pointer /\ e # x
            BY <1>9
        <3>2. \A p \in {j, e} : p # NULL => p \in Node \ {x}
            BY <3>1, NodeFact
        <3> QED BY <1>52, <3>2
    <2>3. SizeAt(t5, j) = SizeAt(t, j) /\ SizeAt(t5, e) = SizeAt(t, e)
        BY <2>2 DEF SizeAt
    <2> QED BY <1>9, <2>1, <2>3 DEF SumAt
<1>55. SumAt(t6, z, b) = 1 + l.size[x] + l.size[y]
    <2>1. t6[b][z] = x /\ t6[a][z] = y
        BY <1>3, <1>9, <1>41, <1>42
    <2>2. SizeAt(t6, x) = l.size[x] /\ SizeAt(t6, y) = l.size[y]
        BY <1>3, <1>52, NodeFact, Zenon DEF SizeAt
    <2> QED BY <1>9, <2>1, <2>2 DEF SumAt
<1>56. TwiceSizes(t, l, x, y, z, a, b)
    BY <1>4, <1>5, <1>6, <1>7, <1>52, <1>53, <1>54, <1>55, Zenon DEF TwiceSizes
<1> QED BY <1>40, <1>43, <1>44, <1>47, <1>48, <1>49, <1>56 DEF TwiceDone

(* The sizes sum up again.                                                 *)
LEMMA OnceSummed ==
    ASSUME NEW t, NEW D, Grove(t, D), Summed(t), NEW x \in Node, NEW a \in Sides,
           NEW y, y = t[a][x], y # NULL, NEW b, b = Other(a),
           NEW l, Typed(l), OnceDone(t, l, x, y, a, b)
    PROVE  Summed(l)
<1>1. Typed(t) /\ Forest(Kids(t), t.parent, D)
    BY DEF Grove
<1>2. /\ \A s \in Sides, m \in Node : Kids(t)[s][m] = t[s][m] /\ Kids(l)[s][m] = l[s][m]
      /\ \A s \in Sides, m \in Node : t[s][m] \in Pointer
    BY <1>1, KidsFact
<1>3. PICK i : i = t[b][y]
    OBVIOUS
<1>4. PICK j : j = t[a][y]
    OBVIOUS
<1>5. PICK k : k = t[b][x]
    OBVIOUS
<1>6. y \in Node /\ b \in Sides
    BY <1>1, KidsFact, NodeFact, SidesFact
<1>7. Around(Kids(t), t.parent, D, x, y, a, b, i, j, k)
    BY <1>1, <1>2, <1>3, <1>4, <1>5, <1>6, AroundFact
<1>8. /\ b = Other(a) /\ a = Other(b) /\ a # b
      /\ x # y /\ \A p \in {i, j, k} : p \in Pointer /\ p # x /\ p # y
      /\ t.parent[y] = x
    BY <1>7 DEF Around
<1>9. /\ \A m \in Node \ {x, y} : l.size[m] = t.size[m]
      /\ l.size[x] = 1 + SizeAt(t, i) + SizeAt(t, k)
      /\ l.size[y] = 1 + l.size[x] + SizeAt(t, j)
    BY <1>3, <1>4, <1>5 DEF OnceDone, OnceSizes
<1>10. OnceKids(Kids(t), Kids(l), x, y, a, b)
    BY DEF OnceDone
<1>11. \A p \in {i, j, k} : SizeAt(l, p) = SizeAt(t, p) /\ SizeAt(t, p) \in Nat
    <2>1. \A p \in {i, j, k} : SizeAt(l, p) = SizeAt(t, p)
        BY <1>8, <1>9, NodeFact DEF SizeAt
    <2> QED BY <1>1, <1>8, <2>1, SizeAtFact
<1>12. l.size[y] = t.size[x]
    <2>1. t.size[x] = 1 + t.size[y] + SizeAt(t, k)
        BY <1>1, <1>5, <1>6, <1>8, SizeAtFact DEF Summed, SumAt
    <2>2. t.size[y] = 1 + SizeAt(t, j) + SizeAt(t, i)
        BY <1>3, <1>4, <1>6, <1>8 DEF Summed, SumAt
    <2> QED BY <1>9, <1>11, <2>1, <2>2
<1>13. ASSUME NEW n \in Node PROVE \E s \in Sides : l.size[n] = SumAt(l, n, s)
    <2>1. CASE n = x
        <3>1. l[a][x] = i /\ l[b][x] = k
            BY <1>2, <1>3, <1>5, <1>6, <1>8, <1>10 DEF OnceKids
        <3>2. l.size[x] = SumAt(l, x, a)
            BY <1>8, <1>9, <1>11, <3>1 DEF SumAt
        <3> QED BY <2>1, <3>2
    <2>2. CASE n = y
        <3>1. l[b][y] = x /\ l[a][y] = j
            BY <1>2, <1>4, <1>6, <1>8, <1>10 DEF OnceKids
        <3>2. SizeAt(l, x) = l.size[x]
            BY NodeFact DEF SizeAt
        <3>3. l.size[y] = SumAt(l, y, b)
            BY <1>8, <1>9, <1>11, <3>1, <3>2 DEF SumAt
        <3> QED BY <1>6, <2>2, <3>3
    <2>3. CASE n # x /\ n # y
        <3>1. ASSUME NEW v \in Sides PROVE SizeAt(l, l[v][n]) = SizeAt(t, t[v][n])
            <4>1. l[v][n] = IF t[v][n] = x THEN y ELSE t[v][n]
                BY <1>2, <1>10, <2>3 DEF OnceKids
            <4>2. t[v][n] # y
                BY <1>1, <1>2, <1>6, <1>8, <2>3, NodeFact DEF Forest
            <4>3. CASE t[v][n] = x
                BY <1>6, <1>12, <4>1, <4>3, NodeFact DEF SizeAt
            <4>4. CASE t[v][n] # x
                BY <1>2, <1>9, <4>1, <4>2, <4>4, NodeFact DEF SizeAt
            <4> QED BY <4>3, <4>4
        <3>2. l.size[n] = t.size[n]
            BY <1>9, <2>3
        <3>3. t.size[n] = SumAt(t, n, a)
            BY DEF Summed
        <3>4. SumAt(l, n, a) = SumAt(t, n, a)
            BY <1>6, <1>8, <3>1 DEF SumAt
        <3> QED BY <3>2, <3>3, <3>4
    <2> QED BY <2>1, <2>2, <2>3
<1> QED BY <1>13, SummedIs

LEMMA TwiceSummed ==
    ASSUME NEW t, NEW D, Grove(t, D), Summed(t), NEW x \in Node, NEW a \in Sides,
           NEW y, y = t[a][x], y # NULL, NEW b, b = Other(a),
           NEW z, z = t[b][y], z # NULL,
           NEW l, Typed(l), TwiceDone(t, l, x, y, z, a, b)
    PROVE  Summed(l)
<1>1. Typed(t) /\ Forest(Kids(t), t.parent, D)
    BY DEF Grove
<1>2. /\ \A s \in Sides, m \in Node : Kids(t)[s][m] = t[s][m] /\ Kids(l)[s][m] = l[s][m]
      /\ \A s \in Sides, m \in Node : t[s][m] \in Pointer
    BY <1>1, KidsFact
<1>3. y \in Node /\ z \in Node /\ b \in Sides
    BY <1>1, KidsFact, NodeFact, SidesFact
<1>4. PICK i : i = t[b][z]
    OBVIOUS
<1>5. PICK j : j = t[a][z]
    OBVIOUS
<1>6. PICK e : e = t[a][y]
    OBVIOUS
<1>7. PICK k : k = t[b][x]
    OBVIOUS
<1>8. AroundTwice(Kids(t), t.parent, x, y, z, a, b, i, j, e, k)
    BY <1>1, <1>2, <1>3, <1>4, <1>5, <1>6, <1>7, AroundTwiceFact
<1>9. /\ b = Other(a) /\ a = Other(b) /\ a # b
      /\ x # y /\ x # z /\ y # z
      /\ \A p \in {i, j, e, k} : p \in Pointer /\ p # x /\ p # y /\ p # z
    BY <1>8 DEF AroundTwice
<1>10. t.parent[y] = x /\ t.parent[z] = y
    BY <1>1, <1>2, <1>3 DEF Forest
<1>11. /\ \A m \in Node \ {x, y, z} : l.size[m] = t.size[m]
       /\ l.size[x] = 1 + SizeAt(t, i) + SizeAt(t, k)
       /\ l.size[y] = 1 + SizeAt(t, j) + SizeAt(t, e)
       /\ l.size[z] = 1 + l.size[x] + l.size[y]
    BY <1>4, <1>5, <1>6, <1>7 DEF TwiceDone, TwiceSizes
<1>12. \A m \in Node, s \in Sides :
           l[s][m] = IF m = x /\ s = a THEN i ELSE IF m = y /\ s = b THEN j
                     ELSE IF m = z THEN (IF s = a THEN y ELSE x)
                     ELSE IF t[s][m] = x THEN z ELSE t[s][m]
    <2>1. TwiceKids(Kids(t), Kids(l), x, y, z, a, b)
        BY DEF TwiceDone
    <2>2. Kids(t)[b][z] = i /\ Kids(t)[a][z] = j
        BY <1>2, <1>3, <1>4, <1>5
    <2> TAKE m \in Node, s \in Sides
    <2>3. Kids(t)[s][m] = t[s][m] /\ Kids(l)[s][m] = l[s][m]
        BY <1>2
    <2> QED BY <2>1, <2>2, <2>3 DEF TwiceKids
<1>13. \A p \in {i, j, e, k} : SizeAt(l, p) = SizeAt(t, p) /\ SizeAt(t, p) \in Nat
    <2>1. \A p \in {i, j, e, k} : SizeAt(l, p) = SizeAt(t, p)
        BY <1>9, <1>11, NodeFact DEF SizeAt
    <2> QED BY <1>1, <1>9, <2>1, SizeAtFact
<1>14. l.size[z] = t.size[x]
    <2>1. t.size[x] = 1 + t.size[y] + SizeAt(t, k)
        BY <1>1, <1>3, <1>7, <1>9, SizeAtFact DEF Summed, SumAt
    <2>2. t.size[y] = 1 + SizeAt(t, e) + t.size[z]
        BY <1>1, <1>3, <1>6, <1>9, SizeAtFact DEF Summed, SumAt
    <2>3. t.size[z] = 1 + SizeAt(t, j) + SizeAt(t, i)
        BY <1>3, <1>4, <1>5, <1>9 DEF Summed, SumAt
    <2> QED BY <1>11, <1>13, <2>1, <2>2, <2>3
<1>15. ASSUME NEW n \in Node PROVE \E s \in Sides : l.size[n] = SumAt(l, n, s)
    <2>1. CASE n = x
        <3>1. l[a][x] = i /\ l[b][x] = k
            BY <1>2, <1>3, <1>4, <1>7, <1>9, <1>12
        <3>2. l.size[x] = SumAt(l, x, a)
            BY <1>9, <1>11, <1>13, <3>1 DEF SumAt
        <3> QED BY <2>1, <3>2
    <2>2. CASE n = y
        <3>1. l[b][y] = j /\ l[a][y] = e
            BY <1>2, <1>3, <1>5, <1>6, <1>9, <1>12
        <3>2. l.size[y] = SumAt(l, y, b)
            BY <1>9, <1>11, <1>13, <3>1 DEF SumAt
        <3> QED BY <1>3, <2>2, <3>2
    <2>3. CASE n = z
        <3>1. l[b][z] = x /\ l[a][z] = y
            BY <1>2, <1>3, <1>9, <1>12
        <3>2. SizeAt(l, x) = l.size[x] /\ SizeAt(l, y) = l.size[y]
            BY <1>3, NodeFact DEF SizeAt
        <3>3. l.size[z] = SumAt(l, z, b)
            BY <1>9, <1>11, <3>1, <3>2 DEF SumAt
        <3> QED BY <1>3, <2>3, <3>3
    <2>4. CASE n # x /\ n # y /\ n # z
        <3>1. ASSUME NEW v \in Sides PROVE SizeAt(l, l[v][n]) = SizeAt(t, t[v][n])
            <4>1. l[v][n] = IF t[v][n] = x THEN z ELSE t[v][n]
                BY <1>2, <1>12, <2>4
            <4>2. t[v][n] # y /\ t[v][n] # z
                BY <1>1, <1>2, <1>3, <1>10, <2>4, NodeFact DEF Forest
            <4>3. CASE t[v][n] = x
                BY <1>3, <1>14, <4>1, <4>3, NodeFact DEF SizeAt
            <4>4. CASE t[v][n] # x
                BY <1>2, <1>11, <4>1, <4>2, <4>4, NodeFact DEF SizeAt
            <4> QED BY <4>3, <4>4
        <3>2. l.size[n] = t.size[n]
            BY <1>11, <2>4
        <3>3. t.size[n] = SumAt(t, n, a)
            BY DEF Summed
        <3>4. SumAt(l, n, a) = SumAt(t, n, a)
            BY <1>3, <1>9, <3>1 DEF SumAt
        <3> QED BY <3>2, <3>3, <3>4
    <2> QED BY <2>1, <2>2, <2>3, <2>4
<1> QED BY <1>15, SummedIs

-----------------------------------------------------------------------------
(* A rotation as a whole: below g, the subtree of x has r for its root.    *)

Rebuilt(t, l, D, E, x, r, g, up) ==
    /\ Grove(l, E) /\ Summed(l)
    /\ l.root = IF g = NULL THEN r ELSE t.root
    /\ r \in Node /\ r \in D[x] /\ E[r] = D[x] /\ l.parent[r] = g
    /\ g # NULL => l[up][g] = r
    /\ \A m \in Node \ D[x] : E[m] = D[m] /\ l.parent[m] = t.parent[m]

(* The links tell which forest it is.                                      *)
LinkedAs(l, K, Q) ==
    /\ \A s \in Sides, m \in Node : Kids(l)[s][m] = K[s][m]
    /\ \A m \in Node : l.parent[m] = Q[m]

LEMMA SameForest ==
    ASSUME NEW l, Typed(l), NEW K, NEW Q, NEW E, Forest(K, Q, E), LinkedAs(l, K, Q)
    PROVE  Grove(l, E)
<1>1. \A m \in Node, s \in Sides : l[s][m] = K[s][m]
    BY KidsFact DEF LinkedAs
<1>2. \A m \in Node : l.parent[m] = Q[m]
    BY DEF LinkedAs
<1> QED BY <1>1, <1>2, GroveIs

LEMMA RebuiltIs ==
    ASSUME NEW t, NEW D, Grove(t, D), NEW x \in Node, NEW r,
           NEW g, g = t.parent[x], NEW up \in Sides, g # NULL => t[up][g] = x,
           NEW l, Typed(l), Summed(l), l.root = IF g = NULL THEN r ELSE t.root,
           NEW K, NEW Q, NEW E, Replaced(Kids(t), t.parent, D, K, Q, E, x, r),
           LinkedAs(l, K, Q)
    PROVE  Rebuilt(t, l, D, E, x, r, g, up)
<1>1. Typed(t) /\ Forest(Kids(t), t.parent, D)
    BY DEF Grove
<1>2. /\ Forest(K, Q, E)
      /\ r \in Node /\ r \in D[x] /\ E[r] = D[x] /\ Q[r] = g
      /\ \A m \in Node \ D[x] :
          /\ E[m] = D[m] /\ Q[m] = t.parent[m]
          /\ \A s \in Sides : K[s][m] = IF Kids(t)[s][m] = x THEN r ELSE Kids(t)[s][m]
    BY DEF Replaced
<1>3. Grove(l, E)
    BY <1>2, SameForest
<1>4. g # NULL => l[up][g] = r
    <2>1. SUFFICES ASSUME g # NULL PROVE l[up][g] = r
        OBVIOUS
    <2>2. g \in Node /\ g \notin D[x]
        BY <1>1, <2>1, ParentFact
    <2>3. Kids(t)[up][g] = x
        BY <1>1, <2>1, <2>2, KidsFact
    <2>4. K[up][g] = r
        BY <1>2, <2>2, <2>3
    <2> QED BY <2>2, <2>4, KidsFact DEF LinkedAs
<1>5. \A m \in Node \ D[x] : E[m] = D[m] /\ l.parent[m] = t.parent[m]
    BY <1>2 DEF LinkedAs
<1>6. l.parent[r] = g
    BY <1>2 DEF LinkedAs
<1> QED BY <1>2, <1>3, <1>4, <1>5, <1>6 DEF Rebuilt

(* r is the new root, of height h and with the flags f.                    *)
Balanced(t, l, D, V, x, g, up, r, h, f) ==
    \E E, W :
        /\ Rebuilt(t, l, D, E, x, r, g, up)
        /\ Leveled(Kids(l), l.heavy, D, V, W, x, g, up)
        /\ W[r] = h
        /\ l.heavy[r] = f

LEMMA SameOnce ==
    ASSUME NEW C, NEW P, NEW x, NEW y, NEW a, NEW b, NEW l, NEW K, NEW Q,
           OnceKids(C, Kids(l), x, y, a, b), OnceKids(C, K, x, y, a, b),
           OnceParents(C, P, l.parent, x, y, b), OnceParents(C, P, Q, x, y, b)
    PROVE  LinkedAs(l, K, Q)
<1>1. ASSUME NEW m \in Node, NEW s \in Sides PROVE Kids(l)[s][m] = K[s][m]
    BY DEF OnceKids
<1>2. ASSUME NEW m \in Node PROVE l.parent[m] = Q[m]
    BY DEF OnceParents
<1> QED BY <1>1, <1>2 DEF LinkedAs

LEMMA SameTwice ==
    ASSUME NEW C, NEW P, NEW x, NEW y, NEW z, NEW a, NEW b, NEW l, NEW K, NEW Q,
           TwiceKids(C, Kids(l), x, y, z, a, b), TwiceKids(C, K, x, y, z, a, b),
           TwiceParents(C, P, l.parent, x, y, z, a, b), TwiceParents(C, P, Q, x, y, z, a, b)
    PROVE  LinkedAs(l, K, Q)
<1>1. ASSUME NEW m \in Node, NEW s \in Sides PROVE Kids(l)[s][m] = K[s][m]
    <2>1. PICK q : q = IF m = x /\ s = a THEN C[b][z]
                       ELSE IF m = y /\ s = b THEN C[a][z]
                       ELSE IF m = z THEN (IF s = a THEN y ELSE x)
                       ELSE IF C[s][m] = x THEN z ELSE C[s][m]
        OBVIOUS
    <2>2. Kids(l)[s][m] = q
        BY <2>1, Zenon DEF TwiceKids
    <2>3. K[s][m] = q
        BY <2>1, Zenon DEF TwiceKids
    <2> QED BY <2>2, <2>3
<1>2. ASSUME NEW m \in Node PROVE l.parent[m] = Q[m]
    BY DEF TwiceParents
<1> QED BY <1>1, <1>2 DEF LinkedAs

LEMMA RebalancedOnce ==
    ASSUME NEW t, NEW D, Grove(t, D), Summed(t), NEW x \in Node, NEW a \in Sides,
           NEW y, y = t[a][x], y # NULL, t.heavy[y] # Other(a),
           NEW V, NEW c, NEW w, Fits(Kids(t), t.heavy, V, x, c, w),
           NEW o, o = Tall(V, t[Other(a)][x]), V[y] = o + 2,
           NEW g, g = t.parent[x], NEW up \in Sides, g # NULL => t[up][g] = x,
           NEW r, r = Rotate(t, x, y, a), NEW l, l = Attach(r, g, y, up)
    PROVE  Balanced(t, l, D, V, x, g, up, y,
                    IF t.heavy[y] = "none" THEN o + 3 ELSE o + 2,
                    IF t.heavy[y] = "none" THEN Other(a) ELSE "none")
<1>1. Typed(t) /\ Forest(Kids(t), t.parent, D)
    BY DEF Grove
<1>2. PICK b : b = Other(a)
    OBVIOUS
<1>3. y = Kids(t)[a][x] /\ b \in Sides /\ t.heavy[y] # b
    BY <1>1, <1>2, KidsFact, SidesFact
<1>4. o = Tall(V, Kids(t)[b][x])
    BY <1>1, <1>2, <1>3, KidsFact
<1>5. g # NULL => Kids(t)[up][g] = x
    BY <1>1, KidsFact
<1>6. /\ Typed(l) /\ l.root = IF g = NULL THEN y ELSE t.root
      /\ OnceDone(t, l, x, y, a, b)
    BY <1>2, RotateDone
<1>7. Summed(l)
    BY <1>2, <1>6, OnceSummed
<1>8. /\ OnceKids(Kids(t), Kids(l), x, y, a, b)
      /\ OnceParents(Kids(t), t.parent, l.parent, x, y, b)
      /\ OnceFlags(t.heavy, l.heavy, x, y, a, b)
    BY <1>6 DEF OnceDone
<1>9. PICK K, Q, E :
          /\ Replaced(Kids(t), t.parent, D, K, Q, E, x, y)
          /\ OnceKids(Kids(t), K, x, y, a, b)
          /\ OnceParents(Kids(t), t.parent, Q, x, y, b)
    BY <1>1, <1>2, <1>3, OnceReplaced
<1>10. LinkedAs(l, K, Q)
    BY <1>8, <1>9, SameOnce
<1>11. Rebuilt(t, l, D, E, x, y, g, up)
    BY <1>6, <1>7, <1>9, <1>10, RebuiltIs
<1>12. PICK W : /\ Leveled(Kids(l), l.heavy, D, V, W, x, g, up)
                /\ W[y] = IF t.heavy[y] = "none" THEN o + 3 ELSE o + 2
    <2>1. PICK C : C = Kids(t)
        OBVIOUS
    <2>2. PICK P, H : P = t.parent /\ H = t.heavy
        OBVIOUS
    <2>3. PICK I, M : I = l.heavy /\ M = Kids(l)
        OBVIOUS
    <2>4. /\ Forest(C, P, D) /\ y = C[a][x] /\ y # NULL /\ b = Other(a)
          /\ Fits(C, H, V, x, c, w) /\ o = Tall(V, C[b][x]) /\ V[y] = o + 2 /\ H[y] # b
          /\ g = P[x] /\ (g # NULL => C[up][g] = x)
          /\ OnceKids(C, M, x, y, a, b) /\ OnceFlags(H, I, x, y, a, b)
        BY <1>1, <1>2, <1>3, <1>4, <1>5, <1>8, <2>1, <2>2, <2>3
    <2>5. PICK h : h = IF H[y] = "none" THEN o + 3 ELSE o + 2
        OBVIOUS
    <2>6. Relevels(M, I, D, V, x, g, up, y, h)
        BY <2>4, <2>5, OnceFits
    <2> QED BY <2>2, <2>3, <2>5, <2>6 DEF Relevels
<1>13. l.heavy[y] = IF t.heavy[y] = "none" THEN Other(a) ELSE "none"
    BY <1>2, <1>8 DEF OnceFlags
<1> QED BY <1>11, <1>12, <1>13 DEF Balanced

LEMMA RebalancedTwice ==
    ASSUME NEW t, NEW D, Grove(t, D), Summed(t), NEW x \in Node, NEW a \in Sides,
           NEW y, y = t[a][x], y # NULL, t.heavy[y] = Other(a),
           NEW z, z = t[Other(a)][y],
           NEW V, NEW c, NEW w, Fits(Kids(t), t.heavy, V, x, c, w),
           NEW o, o = Tall(V, t[Other(a)][x]), V[y] = o + 2,
           NEW g, g = t.parent[x], NEW up \in Sides, g # NULL => t[up][g] = x,
           NEW r, r = RotateTwice(t, x, y, a), NEW l, l = Attach(r, g, z, up)
    PROVE  Balanced(t, l, D, V, x, g, up, z, o + 2, "none")
<1>1. Typed(t) /\ Forest(Kids(t), t.parent, D)
    BY DEF Grove
<1>2. PICK b : b = Other(a)
    OBVIOUS
<1>3. y = Kids(t)[a][x] /\ b \in Sides /\ t.heavy[y] = b /\ y \in Node
    BY <1>1, <1>2, KidsFact, SidesFact, NodeFact
<1>4. o = Tall(V, Kids(t)[b][x]) /\ z = Kids(t)[b][y] /\ z = t[b][y]
    BY <1>1, <1>2, <1>3, KidsFact
<1>5. g # NULL => Kids(t)[up][g] = x
    BY <1>1, KidsFact
<1>6. z # NULL
    <2>1. x # y
        BY <1>1, <1>3, SubtreeFact
    <2>2. Poised(V[y], b, b, Tall(V, z), Tall(V, Kids(t)[Other(b)][y]))
        BY <1>3, <1>4, <2>1, FitsAway
    <2>3. Kids(t)[Other(b)][y] \in Pointer /\ V \in [Node -> Nat] /\ b # "none"
        BY <1>1, <1>3, SidesFact, ForestTyped DEF Fits
    <2>4. Tall(V, Kids(t)[Other(b)][y]) \in Nat
        BY <2>3, TallFact
    <2>5. Tall(V, z) # 0
        BY <1>3, <2>2, <2>3, <2>4, SidesFact DEF Poised
    <2> QED BY <2>5 DEF Tall
<1>7. /\ Typed(l) /\ l.root = IF g = NULL THEN z ELSE t.root
      /\ TwiceDone(t, l, x, y, z, a, b)
    BY <1>2, <1>4, <1>6, RotateTwiceDone
<1>8. Summed(l)
    BY <1>2, <1>4, <1>6, <1>7, TwiceSummed
<1>9. /\ TwiceKids(Kids(t), Kids(l), x, y, z, a, b)
      /\ TwiceParents(Kids(t), t.parent, l.parent, x, y, z, a, b)
      /\ TwiceFlags(t.heavy, l.heavy, x, y, z, a, b)
    BY <1>7 DEF TwiceDone
<1>10. PICK K, Q, E :
          /\ Replaced(Kids(t), t.parent, D, K, Q, E, x, z)
          /\ TwiceKids(Kids(t), K, x, y, z, a, b)
          /\ TwiceParents(Kids(t), t.parent, Q, x, y, z, a, b)
    BY <1>1, <1>2, <1>3, <1>4, <1>6, TwiceReplaced
<1>11. LinkedAs(l, K, Q)
    BY <1>9, <1>10, SameTwice
<1>12. Rebuilt(t, l, D, E, x, z, g, up)
    BY <1>7, <1>8, <1>10, <1>11, RebuiltIs
<1>13. PICK W : /\ Leveled(Kids(l), l.heavy, D, V, W, x, g, up)
                /\ W[z] = o + 2
    <2>1. PICK C : C = Kids(t)
        OBVIOUS
    <2>2. PICK P, H : P = t.parent /\ H = t.heavy
        OBVIOUS
    <2>3. PICK I, M : I = l.heavy /\ M = Kids(l)
        OBVIOUS
    <2>4. /\ Forest(C, P, D) /\ y = C[a][x] /\ y # NULL /\ b = Other(a) /\ z = C[b][y]
          /\ Fits(C, H, V, x, c, w) /\ o = Tall(V, C[b][x]) /\ V[y] = o + 2 /\ H[y] = b
          /\ g = P[x] /\ (g # NULL => C[up][g] = x)
          /\ TwiceKids(C, M, x, y, z, a, b) /\ TwiceFlags(H, I, x, y, z, a, b)
        BY <1>1, <1>2, <1>3, <1>4, <1>5, <1>9, <2>1, <2>2, <2>3, Zenon
    <2>5. Relevels(M, I, D, V, x, g, up, z, o + 2)
        BY <2>4, TwiceFits
    <2> QED BY <2>2, <2>3, <2>5 DEF Relevels
<1>14. l.heavy[z] = "none"
    BY <1>9, Zenon DEF TwiceFlags
<1> QED BY <1>12, <1>13, <1>14, Zenon DEF Balanced

LEMMA Rebalanced ==
    ASSUME NEW t, NEW D, Grove(t, D), Summed(t), NEW x \in Node, NEW a \in Sides,
           NEW y, y = t[a][x], y # NULL,
           NEW V, NEW c, NEW w, Fits(Kids(t), t.heavy, V, x, c, w),
           NEW o, o = Tall(V, t[Other(a)][x]), V[y] = o + 2,
           NEW g, g = t.parent[x], NEW up \in Sides, g # NULL => t[up][g] = x,
           NEW r, r = Rotation(t, x, y, a), NEW l, l = Attach(r.tree, g, r.node, up)
    PROVE  Balanced(t, l, D, V, x, g, up, r.node,
                    IF t.heavy[y] = "none" THEN o + 3 ELSE o + 2,
                    IF t.heavy[y] = "none" THEN Other(a) ELSE "none")
<1>1. CASE t.heavy[y] = Other(a)
    <2>1. r.tree = RotateTwice(t, x, y, a) /\ r.node = t[Other(a)][y]
        BY <1>1 DEF Rotation
    <2>2. PICK z : z = r.node
        OBVIOUS
    <2>3. t.heavy[y] # "none"
        BY <1>1, SidesFact
    <2>4. Balanced(t, l, D, V, x, g, up, z, o + 2, "none")
        BY <1>1, <2>1, <2>2, RebalancedTwice
    <2> QED BY <2>2, <2>3, <2>4
<1>2. CASE t.heavy[y] # Other(a)
    <2>1. r.tree = Rotate(t, x, y, a) /\ r.node = y
        BY <1>2 DEF Rotation
    <2>2. PICK h, e : /\ h = IF t.heavy[y] = "none" THEN o + 3 ELSE o + 2
                      /\ e = IF t.heavy[y] = "none" THEN Other(a) ELSE "none"
        OBVIOUS
    <2>3. l = Attach(r.tree, g, y, up)
        BY <2>1
    <2>4. Balanced(t, l, D, V, x, g, up, y, h, e)
        BY <1>2, <2>1, <2>2, <2>3, RebalancedOnce
    <2> QED BY <2>1, <2>2, <2>4
<1> QED BY <1>1, <1>2

-----------------------------------------------------------------------------
(* What the rounds of a loop keep: the sizes, and which nodes N are those  *)
(* of the tree.  The others keep their parents P and their trees B.        *)

Kept(t, D, P, B, N) ==
    /\ Grove(t, D) /\ Summed(t)
    /\ N = At(D, t.root)
    /\ t.root # NULL => t.parent[t.root] = NULL
    /\ \A m \in Node \ N : t.parent[m] = P[m] /\ D[m] = B[m]

LEMMA KeptFact ==
    ASSUME NEW t, NEW D, NEW P, NEW B, NEW N, Kept(t, D, P, B, N)
    PROVE  /\ Typed(t) /\ Forest(Kids(t), t.parent, D)
           /\ \A s \in Sides, m \in Node : Kids(t)[s][m] = t[s][m] /\ t[s][m] \in Pointer
           /\ \A m \in Node : t.parent[m] \in Pointer
           /\ N \subseteq Node
           /\ \A m \in N : t.root \in Node /\ m \in D[t.root]
           /\ \A m \in N : D[m] \subseteq N
           /\ \A m \in N : t.parent[m] # NULL => t.parent[m] \in N
<1>1. Typed(t) /\ Forest(Kids(t), t.parent, D) /\ N = At(D, t.root)
    BY DEF Kept, Grove
<1>2. t.root # NULL => t.root \in Node /\ N = D[t.root]
    BY <1>1, NodeFact, TypedFields DEF At
<1>3. t.root = NULL => N = {}
    BY <1>1 DEF At
<1>4. N \subseteq Node /\ \A m \in N : t.root \in Node /\ m \in D[t.root]
    BY <1>1, <1>2, <1>3, ForestTyped
<1>5. \A m \in N : D[m] \subseteq N
    BY <1>1, <1>2, <1>3, Inherits
<1>6. ASSUME NEW m \in N, t.parent[m] # NULL PROVE t.parent[m] \in N
    <2>1. t.root \in Node /\ m \in D[t.root] /\ N = D[t.root] /\ t.parent[t.root] = NULL
        BY <1>2, <1>3, NodeFact DEF Kept
    <2>2. m # t.root
        BY <1>6, <2>1
    <2> QED BY <1>1, <2>1, <2>2, ParentAbove
<1>7. /\ \A s \in Sides, m \in Node : Kids(t)[s][m] = t[s][m] /\ t[s][m] \in Pointer
      /\ \A m \in Node : t.parent[m] \in Pointer
    BY <1>1, KidsFact, TypedFields
<1> QED BY <1>1, <1>4, <1>5, <1>6, <1>7

(* The root of a tree is the only node of it without a parent.             *)
LEMMA KeptRoot ==
    ASSUME NEW t, NEW D, NEW P, NEW B, NEW N, Kept(t, D, P, B, N),
           NEW x \in N
    PROVE  t.parent[x] = NULL <=> x = t.root
<1>1. /\ Forest(Kids(t), t.parent, D) /\ x \in Node /\ t.root \in Node
      /\ x \in D[t.root] /\ t.parent[t.root] = NULL
    BY KeptFact, NodeFact DEF Kept
<1>2. ASSUME t.parent[x] = NULL PROVE x = t.root
    BY <1>1, <1>2, AboveRoot
<1> QED BY <1>1, <1>2

Onto(l, D, E, N, g, up, r) ==
    /\ r \in N
    /\ g # NULL => g \in N /\ E[g] = D[g] /\ l[up][g] = r

LEMMA KeptTurned ==
    ASSUME NEW t, NEW D, NEW P, NEW B, NEW N, Kept(t, D, P, B, N),
           NEW x \in N, NEW g, g = t.parent[x], NEW up, NEW r, NEW l, NEW E,
           Rebuilt(t, l, D, E, x, r, g, up)
    PROVE  Kept(l, E, P, B, N) /\ Onto(l, D, E, N, g, up, r)
<1>1. /\ Forest(Kids(t), t.parent, D) /\ x \in Node /\ t.root \in Node
      /\ x \in D[t.root] /\ D[x] \subseteq N /\ (g # NULL => g \in N) /\ N \subseteq Node
    BY KeptFact
<1>2. /\ Grove(l, E) /\ Summed(l)
      /\ l.root = IF g = NULL THEN r ELSE t.root
      /\ r \in Node /\ r \in D[x] /\ E[r] = D[x] /\ l.parent[r] = g
      /\ g # NULL => l[up][g] = r
      /\ \A m \in Node \ D[x] : E[m] = D[m] /\ l.parent[m] = t.parent[m]
    BY DEF Rebuilt
<1>3. N = D[t.root] /\ t.parent[t.root] = NULL
    BY <1>1, NodeFact DEF Kept, At
<1>4. g # NULL => g \in N /\ g \notin D[x]
    BY <1>1, ParentFact
<1>5. g # NULL => E[g] = D[g]
    BY <1>1, <1>2, <1>4
<1>6. N = At(E, l.root) /\ (l.root # NULL => l.parent[l.root] = NULL)
    <2>1. CASE g = NULL
        <3>1. x = t.root
            <4>1. t.parent[x] = NULL <=> x = t.root
                BY KeptRoot
            <4> QED BY <2>1, <4>1
        <3>2. l.root = r /\ E[r] = N /\ l.parent[r] = NULL
            BY <1>2, <1>3, <2>1, <3>1
        <3> QED BY <1>2, <3>2, NodeFact DEF At
    <2>2. CASE g # NULL
        <3>1. t.root \notin D[x]
            <4>1. x # t.root
                BY <1>3, <2>2
            <4> QED BY <1>1, <4>1, Upright
        <3>2. l.root = t.root /\ E[t.root] = N /\ l.parent[t.root] = NULL
            BY <1>1, <1>2, <1>3, <2>2, <3>1
        <3> QED BY <1>1, <3>2, NodeFact DEF At
    <2> QED BY <2>1, <2>2
<1>7. ASSUME NEW m \in Node \ N PROVE l.parent[m] = P[m] /\ E[m] = B[m]
    <2>1. m \in Node \ D[x]
        BY <1>1
    <2>2. t.parent[m] = P[m] /\ D[m] = B[m]
        BY DEF Kept
    <2> QED BY <1>2, <2>1, <2>2
<1>8. Kept(l, E, P, B, N)
    BY <1>2, <1>6, <1>7 DEF Kept
<1> QED BY <1>1, <1>2, <1>4, <1>5, <1>8 DEF Onto

LEMMA KeptShape ==
    ASSUME NEW t, NEW D, NEW P, NEW B, NEW N, Kept(t, D, P, B, N),
           NEW l, SameShape(l, t)
    PROVE  Kept(l, D, P, B, N)
<1>1. Grove(l, D) /\ Summed(l)
    BY SameShapeFact DEF Kept
<1>2. l.root = t.root /\ l.parent = t.parent
    BY DEF SameShape
<1> QED BY <1>1, <1>2 DEF Kept

-----------------------------------------------------------------------------
(* A round: below g, on side up, is now r, of height h and with flags f;   *)
(* g sees the old height v there.                                          *)
Moved(l, D, P, B, N, g, up, r, v, h, f) ==
    \E E, W :
        /\ Kept(l, E, P, B, N)
        /\ Onto(l, D, E, N, g, up, r)
        /\ W[r] = h /\ l.heavy[r] = f
        /\ Fits(Kids(l), l.heavy, W, g, up, v)

(* x hangs below g, on side up; its child y on side a is two levels higher *)
(* than its other child; l is what a rotation makes of it.                 *)
Hangs(t, x, g, up) ==
    g = t.parent[x] /\ up \in Sides /\ (g # NULL => t[up][g] = x)

TurnsAt(t, V, x, a, y, o) ==
    /\ a \in Sides /\ y = t[a][x] /\ y # NULL
    /\ o = Tall(V, t[Other(a)][x]) /\ V[y] = o + 2
    /\ \E c, w : Fits(Kids(t), t.heavy, V, x, c, w)

Attached(t, l, x, y, a, g, up, r) ==
    \E rotation :
        /\ rotation = Rotation(t, x, y, a)
        /\ r = rotation.node
        /\ l = Attach(rotation.tree, g, r, up)

LEMMA MovedTurn ==
    ASSUME NEW t, NEW D, NEW P, NEW B, NEW N, Kept(t, D, P, B, N), NEW x \in N,
           NEW V, NEW a, NEW y, NEW o, TurnsAt(t, V, x, a, y, o),
           NEW g, NEW up, Hangs(t, x, g, up),
           NEW l, NEW r, Attached(t, l, x, y, a, g, up, r),
           NEW h, h = IF t.heavy[y] = "none" THEN o + 3 ELSE o + 2,
           NEW f, f = IF t.heavy[y] = "none" THEN Other(a) ELSE "none"
    PROVE  Moved(l, D, P, B, N, g, up, r, V[x], h, f)
<1>1. Grove(t, D) /\ Summed(t) /\ x \in Node
    BY KeptFact DEF Kept
<1>2. PICK q : q = Rotation(t, x, y, a) /\ r = q.node /\ l = Attach(q.tree, g, q.node, up)
    BY DEF Attached
<1>3. g = t.parent[x] /\ up \in Sides /\ (g # NULL => t[up][g] = x)
    BY DEF Hangs
<1>4. PICK c, w : Fits(Kids(t), t.heavy, V, x, c, w)
    BY DEF TurnsAt
<1>5. /\ a \in Sides /\ y = t[a][x] /\ y # NULL
      /\ o = Tall(V, t[Other(a)][x]) /\ V[y] = o + 2
    BY DEF TurnsAt
<1>6. Balanced(t, l, D, V, x, g, up, q.node, h, f)
    BY <1>1, <1>2, <1>3, <1>4, <1>5, Rebalanced
<1>7. PICK E, W :
          /\ Rebuilt(t, l, D, E, x, r, g, up)
          /\ Leveled(Kids(l), l.heavy, D, V, W, x, g, up)
          /\ W[r] = h /\ l.heavy[r] = f
    BY <1>2, <1>6 DEF Balanced
<1>8. Kept(l, E, P, B, N) /\ Onto(l, D, E, N, g, up, r)
    BY <1>3, <1>7, KeptTurned
<1>9. Fits(Kids(l), l.heavy, W, g, up, V[x])
    BY <1>7 DEF Leveled
<1> QED BY <1>7, <1>8, <1>9 DEF Moved

LEMMA Reflagged ==
    ASSUME NEW C, NEW P, NEW D, Forest(C, P, D), NEW x \in Node, NEW s \in Sides,
           NEW H, NEW V, NEW w, Fits(C, H, V, x, s, w),
           NEW g, g = P[x], NEW up \in Sides, g # NULL => C[up][g] = x,
           NEW I, \A m \in Node \ {x} : I[m] = H[m], NEW h \in Nat,
           Poised(h, I[x], s, Tall(V, C[s][x]), Tall(V, C[Other(s)][x]))
    PROVE  \E W : Fits(C, I, W, g, up, V[x]) /\ W[x] = h
<1>1. PICK W : W = [m \in Node |-> IF m = x THEN h ELSE V[m]]
    OBVIOUS
<1>2. V \in [Node -> Nat]
    BY DEF Fits
<1>3. W \in [Node -> Nat] /\ W[x] = h /\ \A m \in Node \ {x} : W[m] = V[m]
    BY <1>1, <1>2
<1>4. PICK S : S = {x}
    OBVIOUS
<1>5. Unturned(C, C, H, I, V, W, x, S) /\ x \in S
    BY <1>3, <1>4 DEF Unturned
<1>6. Other(s) \in Sides
    BY SidesFact
<1>7. ASSUME NEW n \in Node PROVE \E v \in Sides : PoisedAt(C, I, W, n, v, g, up, V[x])
    <2>1. CASE n = x
        <3>1. g # x
            BY NodeFact, ParentFact
        <3>2. C[s][x] # x /\ C[Other(s)][x] # x
            BY <1>6, NodeFact, SubtreeFact
        <3>3. C[s][x] \in Pointer /\ C[Other(s)][x] \in Pointer
            BY <1>6, ForestTyped
        <3>4. Tall(W, C[s][x]) = Tall(V, C[s][x]) /\ Tall(W, C[Other(s)][x]) = Tall(V, C[Other(s)][x])
            BY <1>3, <3>2, <3>3, NodeFact DEF Tall
        <3>5. PoisedAt(C, I, W, x, s, g, up, V[x])
            BY <1>3, <3>1, <3>4 DEF PoisedAt, Seen
        <3> QED BY <2>1, <3>5
    <2>2. CASE n # x
        <3>1. n \notin S
            BY <1>4, <2>2
        <3>2. PoisedAt(C, I, W, n, s, g, up, V[x])
            BY <1>3, <1>5, <3>1, RestFits
        <3> QED BY <3>2
    <2> QED BY <2>1, <2>2
<1>8. V[x] \in Nat
    BY <1>2
<1> QED BY <1>3, <1>7, <1>8, FitsIs

LEMMA MovedFlag ==
    ASSUME NEW t, NEW D, NEW P, NEW B, NEW N, Kept(t, D, P, B, N), NEW x \in N,
           NEW s \in Sides, NEW V, NEW w, Fits(Kids(t), t.heavy, V, x, s, w),
           NEW g, g = t.parent[x], NEW up \in Sides, g # NULL => t[up][g] = x,
           NEW f \in Sides \cup {"none"}, NEW h \in Nat,
           Poised(h, f, s, Tall(V, t[s][x]), Tall(V, t[Other(s)][x])),
           NEW l, l = [t EXCEPT !.heavy[x] = f]
    PROVE  Moved(l, D, P, B, N, g, up, x, V[x], h, f)
<1>1. /\ Typed(t) /\ Forest(Kids(t), t.parent, D) /\ x \in Node
      /\ (g # NULL => g \in N /\ g \in Node)
    BY KeptFact
<1>2. SameShape(l, t) /\ \A m \in Node : l.heavy[m] = IF m = x THEN f ELSE t.heavy[m]
    <2>1. OneFlag(l, t, x, f)
        BY <1>1, SetFlagFact
    <2> QED BY <2>1 DEF OneFlag
<1>3. Kept(l, D, P, B, N)
    BY <1>2, KeptShape
<1>4. Kids(l) = Kids(t) /\ \A u \in Sides : l[u] = t[u]
    BY <1>2, SameShapeFact
<1>5. PICK C, H, I : C = Kids(t) /\ H = t.heavy /\ I = l.heavy
    OBVIOUS
<1>6. Other(s) \in Sides
    BY SidesFact
<1>7. /\ C[s][x] = t[s][x] /\ C[Other(s)][x] = t[Other(s)][x]
      /\ g # NULL => C[up][g] = x
    BY <1>1, <1>5, <1>6, KidsFact
<1>8. I[x] = f /\ \A m \in Node \ {x} : I[m] = H[m]
    BY <1>1, <1>2, <1>5
<1>9. /\ Forest(C, t.parent, D) /\ Fits(C, H, V, x, s, w)
      /\ Poised(h, I[x], s, Tall(V, C[s][x]), Tall(V, C[Other(s)][x]))
    BY <1>1, <1>5, <1>7, <1>8
<1>10. PICK W : Fits(C, I, W, g, up, V[x]) /\ W[x] = h
    BY <1>1, <1>7, <1>8, <1>9, Reflagged
<1>11. Onto(l, D, D, N, g, up, x)
    BY <1>1, <1>4 DEF Onto
<1>12. l.heavy[x] = f
    BY <1>5, <1>8
<1> QED BY <1>3, <1>4, <1>5, <1>10, <1>11, <1>12 DEF Moved

LEMMA MovedExact ==
    ASSUME NEW l, NEW D, NEW P, NEW B, NEW N, NEW g, NEW up \in Sides, NEW r, NEW v, NEW h,
           NEW f, Moved(l, D, P, B, N, g, up, r, v, h, f), g = NULL \/ h = v
    PROVE  \E E, V : Kept(l, E, P, B, N) /\ Exact(Kids(l), l.heavy, V)
<1>1. PICK E, W :
          /\ Kept(l, E, P, B, N)
          /\ g # NULL => g \in N /\ E[g] = D[g] /\ l[up][g] = r
          /\ r \in N /\ W[r] = h /\ l.heavy[r] = f
          /\ Fits(Kids(l), l.heavy, W, g, up, v)
    BY DEF Moved, Onto
<1>2. g \notin Node \/ v = Tall(W, Kids(l)[up][g])
    <2>1. CASE g = NULL
        BY <2>1, NodeFact
    <2>2. CASE g # NULL
        <3>1. g \in Node /\ r \in Node /\ Kids(l)[up][g] = r
            BY <1>1, <2>2, KeptFact
        <3> QED BY <1>1, <2>2, <3>1, NodeFact DEF Tall
    <2> QED BY <2>1, <2>2
<1> QED BY <1>1, <1>2, ExactFact

-----------------------------------------------------------------------------
(* A subtree has grown: below p, on side s, where p still sees w.          *)

GrowsAt(t, V, p, s, w, N) ==
    /\ p \in N /\ s \in Sides
    /\ Fits(Kids(t), t.heavy, V, p, s, w)
    /\ t[s][p] # NULL /\ V[t[s][p]] = w + 1

LEMMA GrowsFact ==
    ASSUME NEW t, NEW D, NEW P, NEW B, NEW N, Kept(t, D, P, B, N),
           NEW V, NEW p, NEW s, NEW w, GrowsAt(t, V, p, s, w, N)
    PROVE  /\ p \in Node /\ s \in Sides /\ Other(s) \in Sides /\ w \in Nat
           /\ V[p] \in Nat /\ Tall(V, t[Other(s)][p]) \in Nat
           /\ t[s][p] \in Node /\ Tall(V, t[s][p]) = w + 1
           /\ Poised(V[p], t.heavy[p], s, w, Tall(V, t[Other(s)][p]))
<1>1. p \in Node /\ s \in Sides /\ Other(s) \in Sides /\ V \in [Node -> Nat] /\ w \in Nat
    BY KeptFact, SidesFact DEF GrowsAt, Fits
<1>2. t[Other(s)][p] \in Pointer /\ t[s][p] \in Pointer /\ t[s][p] # NULL
    BY <1>1, KeptFact DEF GrowsAt
<1>3. t[s][p] \in Node /\ Tall(V, t[s][p]) = w + 1
    BY <1>2, NodeFact DEF GrowsAt, Tall
<1>4. Poised(V[p], t.heavy[p], s, w, Tall(V, Kids(t)[Other(s)][p]))
    BY <1>1, FitsThere DEF GrowsAt
<1>5. Kids(t)[Other(s)][p] = t[Other(s)][p]
    BY <1>1, KeptFact
<1>6. V[p] \in Nat /\ Tall(V, t[Other(s)][p]) \in Nat
    BY <1>1, <1>2, TallFact
<1> QED BY <1>1, <1>3, <1>4, <1>5, <1>6

Turns(t, l, D, P, B, N, V, p, y, s, g, up, r) ==
    \E h, f :
        /\ h = IF t.heavy[y] = "none" THEN V[p] + 1 ELSE V[p]
        /\ f = IF t.heavy[y] = "none" THEN Other(s) ELSE "none"
        /\ Moved(l, D, P, B, N, g, up, r, V[p], h, f)

LEMMA GrowTurns ==
    ASSUME NEW t, NEW D, NEW P, NEW B, NEW N, Kept(t, D, P, B, N),
           NEW V, NEW p, NEW s, NEW w, GrowsAt(t, V, p, s, w, N), t.heavy[p] = s,
           NEW y, y = t[s][p], NEW g, NEW up, Hangs(t, p, g, up),
           NEW l, NEW r, Attached(t, l, p, y, s, g, up, r)
    PROVE  w # 0 /\ Turns(t, l, D, P, B, N, V, p, y, s, g, up, r)
<1>1. PICK o : o = Tall(V, t[Other(s)][p])
    OBVIOUS
<1>2. /\ p \in Node /\ s \in Sides /\ Other(s) \in Sides /\ w \in Nat
      /\ V[p] \in Nat /\ o \in Nat /\ y \in Node
      /\ Poised(V[p], s, s, w, o)
    BY <1>1, GrowsFact
<1>3. w = o + 1 /\ V[p] = o + 2
    BY <1>2, SidesFact DEF Poised
<1>4. p \in N /\ Fits(Kids(t), t.heavy, V, p, s, w) /\ y # NULL /\ V[y] = o + 2
    BY <1>2, <1>3 DEF GrowsAt
<1>5. TurnsAt(t, V, p, s, y, o)
    BY <1>1, <1>2, <1>4 DEF TurnsAt
<1>6. PICK h : h = IF t.heavy[y] = "none" THEN o + 3 ELSE o + 2
    OBVIOUS
<1>7. PICK f : f = IF t.heavy[y] = "none" THEN Other(s) ELSE "none"
    OBVIOUS
<1>8. Moved(l, D, P, B, N, g, up, r, V[p], h, f)
    BY <1>4, <1>5, <1>6, <1>7, MovedTurn
<1>9. h = IF t.heavy[y] = "none" THEN V[p] + 1 ELSE V[p]
    BY <1>2, <1>3, <1>6
<1>10. w # 0
    BY <1>2, <1>3
<1> QED BY <1>7, <1>8, <1>9, <1>10 DEF Turns

LEMMA GrowEvens ==
    ASSUME NEW t, NEW D, NEW P, NEW B, NEW N, Kept(t, D, P, B, N),
           NEW V, NEW p, NEW s, NEW w, GrowsAt(t, V, p, s, w, N), t.heavy[p] = Other(s),
           NEW g, g = t.parent[p], NEW up \in Sides, g # NULL => t[up][g] = p,
           NEW l, l = [t EXCEPT !.heavy[p] = "none"]
    PROVE  Moved(l, D, P, B, N, g, up, p, V[p], V[p], "none")
<1>1. PICK o : o = Tall(V, t[Other(s)][p])
    OBVIOUS
<1>2. /\ p \in Node /\ s \in Sides /\ Other(s) \in Sides /\ w \in Nat
      /\ V[p] \in Nat /\ o \in Nat /\ Tall(V, t[s][p]) = w + 1
      /\ Poised(V[p], Other(s), s, w, o)
    BY <1>1, GrowsFact
<1>3. o = w + 1 /\ V[p] = w + 2
    BY <1>2, SidesFact DEF Poised
<1>4. Poised(w + 2, "none", s, w + 1, w + 1)
    BY <1>2 DEF Poised
<1>5. Poised(V[p], "none", s, Tall(V, t[s][p]), Tall(V, t[Other(s)][p]))
    BY <1>1, <1>2, <1>3, <1>4
<1>6. p \in N /\ Fits(Kids(t), t.heavy, V, p, s, w)
    BY DEF GrowsAt
<1> QED BY <1>2, <1>5, <1>6, MovedFlag

LEMMA GrowLeans ==
    ASSUME NEW t, NEW D, NEW P, NEW B, NEW N, Kept(t, D, P, B, N),
           NEW V, NEW p, NEW s, NEW w, GrowsAt(t, V, p, s, w, N),
           t.heavy[p] # s, t.heavy[p] # Other(s),
           NEW g, g = t.parent[p], NEW up \in Sides, g # NULL => t[up][g] = p,
           NEW l, l = [t EXCEPT !.heavy[p] = s]
    PROVE  Moved(l, D, P, B, N, g, up, p, V[p], V[p] + 1, s)
<1>1. PICK o : o = Tall(V, t[Other(s)][p])
    OBVIOUS
<1>2. /\ p \in Node /\ s \in Sides /\ Other(s) \in Sides /\ w \in Nat
      /\ V[p] \in Nat /\ o \in Nat /\ Tall(V, t[s][p]) = w + 1
      /\ Poised(V[p], t.heavy[p], s, w, o)
    BY <1>1, GrowsFact
<1>3. o = w /\ V[p] = w + 1
    BY <1>2 DEF Poised
<1>4. Poised(w + 2, s, s, w + 1, w)
    BY <1>2 DEF Poised
<1>5. V[p] + 1 = w + 2
    BY <1>2, <1>3
<1>6. Poised(V[p] + 1, s, s, Tall(V, t[s][p]), Tall(V, t[Other(s)][p]))
    BY <1>1, <1>2, <1>3, <1>4, <1>5
<1>7. p \in N /\ Fits(Kids(t), t.heavy, V, p, s, w) /\ V[p] + 1 \in Nat
    BY <1>2 DEF GrowsAt
<1> QED BY <1>2, <1>6, <1>7, MovedFlag

(* The subtree of p has grown in turn.                                     *)
LEMMA MovedGrows ==
    ASSUME NEW l, NEW D, NEW P, NEW B, NEW N, NEW g, NEW up \in Sides, NEW r, NEW v \in Nat,
           NEW f, Moved(l, D, P, B, N, g, up, r, v, v + 1, f), g # NULL
    PROVE  \E E, W : /\ Kept(l, E, P, B, N) /\ E[g] = D[g]
                     /\ GrowsAt(l, W, g, up, v, N)
                     /\ l.heavy[l[up][g]] = f
<1>1. PICK E, W :
          /\ Kept(l, E, P, B, N)
          /\ g \in N /\ E[g] = D[g] /\ l[up][g] = r
          /\ r \in N /\ W[r] = v + 1 /\ l.heavy[r] = f
          /\ Fits(Kids(l), l.heavy, W, g, up, v)
    BY DEF Moved, Onto
<1>2. r # NULL
    BY <1>1, KeptFact, NodeFact
<1>3. GrowsAt(l, W, g, up, v, N)
    BY <1>1, <1>2 DEF GrowsAt
<1> QED BY <1>1, <1>3

-----------------------------------------------------------------------------
(* What the rebalancing loops hold, and how far from the root they are.    *)

TreeRecords ==
    [root : Pointer, left : [Node -> Pointer], right : [Node -> Pointer],
     parent : [Node -> Pointer], heavy : [Node -> Sides \cup {"none"}],
     size : [Node -> Nat]]

Goings == [tree : TreeRecords, at : Pointer, side : Sides]

Rank(c) == IF c.at = NULL THEN 0
           ELSE 1 + Cardinality(Node) - Cardinality(NodesAt(c.tree, c.at))

LEMMA GoingFact ==
    ASSUME NEW t, NEW p, NEW s
    PROVE  /\ Going(t, p, s).tree = t /\ Going(t, p, s).at = p /\ Going(t, p, s).side = s
           /\ Typed(t) /\ p \in Pointer /\ s \in Sides => Going(t, p, s) \in Goings
BY DEF Going, Goings, TreeRecords, Typed

LEMMA NodeCount ==
    ASSUME NEW t, NEW D, NEW P, NEW B, NEW N, Kept(t, D, P, B, N), NEW p \in Node
    PROVE  /\ NodesAt(t, p) = D[p]
           /\ Cardinality(Node) \in Nat /\ Cardinality(D[p]) \in Nat
           /\ 1 <= Cardinality(D[p]) /\ Cardinality(D[p]) <= Cardinality(Node)
<1>1. Grove(t, D) /\ Forest(Kids(t), t.parent, D)
    BY DEF Kept, Grove
<1>2. NodesAt(t, p) = D[p]
    <2>1. NodesAt(t, p) = At(D, p)
        BY <1>1, NodesAtFact, NodeFact
    <2> QED BY <2>1, NodeFact DEF At
<1>3. IsFiniteSet(Node) /\ D[p] \subseteq Node /\ p \in D[p]
    BY <1>1, ForestTyped, SubtreeFact, NodeFact
<1>4. IsFiniteSet(D[p]) /\ Cardinality(D[p]) <= Cardinality(Node)
    BY <1>3, FS_Subset
<1>5. Cardinality(Node) \in Nat /\ Cardinality(D[p]) \in Nat
    BY <1>3, <1>4, FS_CardinalityType
<1>6. Cardinality(D[p]) # 0
    BY <1>3, <1>4, FS_EmptySet
<1> QED BY <1>2, <1>4, <1>5, <1>6

LEMMA RankFact ==
    ASSUME NEW t, NEW D, NEW P, NEW B, NEW N, Kept(t, D, P, B, N), NEW p \in Pointer, NEW s
    PROVE  Rank(Going(t, p, s)) \in Nat /\ Rank(Going(t, p, s)) <= Cardinality(Node)
<1>1. CASE p = NULL
    <2>1. Cardinality(Node) \in Nat
        BY NodeFact, FS_CardinalityType
    <2> QED BY <1>1, <2>1, GoingFact DEF Rank
<1>2. CASE p # NULL
    <2>1. p \in Node
        BY <1>2, NodeFact
    <2>2. /\ NodesAt(t, p) = D[p]
          /\ Cardinality(Node) \in Nat /\ Cardinality(D[p]) \in Nat
          /\ 1 <= Cardinality(D[p]) /\ Cardinality(D[p]) <= Cardinality(Node)
        BY <2>1, NodeCount
    <2>3. Rank(Going(t, p, s)) = 1 + Cardinality(Node) - Cardinality(D[p])
        BY <1>2, <2>2, GoingFact DEF Rank
    <2> QED BY <2>2, <2>3
<1> QED BY <1>1, <1>2

LEMMA RankDrops ==
    ASSUME NEW t, NEW D, NEW P, NEW B, NEW N, Kept(t, D, P, B, N), NEW p \in N,
           NEW g, g = t.parent[p], g # NULL, NEW s, NEW u,
           NEW l, NEW E, Kept(l, E, P, B, N), E[g] = D[g]
    PROVE  Rank(Going(l, g, u)) < Rank(Going(t, p, s))
<1>1. Forest(Kids(t), t.parent, D) /\ p \in Node /\ g \in Node /\ g # NULL /\ p # NULL
    BY KeptFact, NodeFact
<1>2. PICK v \in Sides : Kids(t)[v][g] = p
    BY <1>1, ParentFact
<1>3. Cardinality(D[p]) < Cardinality(D[g])
    BY <1>1, <1>2, SubtreeSmaller
<1>4. /\ NodesAt(t, p) = D[p] /\ Cardinality(Node) \in Nat /\ Cardinality(D[p]) \in Nat
    BY <1>1, NodeCount
<1>5. NodesAt(l, g) = E[g] /\ Cardinality(E[g]) \in Nat
    BY <1>1, NodeCount
<1>6. /\ Rank(Going(t, p, s)) = 1 + Cardinality(Node) - Cardinality(D[p])
      /\ Rank(Going(l, g, u)) = 1 + Cardinality(Node) - Cardinality(D[g])
    BY <1>1, <1>4, <1>5, GoingFact DEF Rank
<1> QED BY <1>3, <1>4, <1>5, <1>6

-----------------------------------------------------------------------------
(* The loop of insert.  It never turns around an even child: the only one  *)
(* it may come upon is the new node.                                       *)
GrownIn(P, B, N) ==
    {c \in Goings : \E D, V :
        /\ Kept(c.tree, D, P, B, N)
        /\ c.at = NULL => Exact(Kids(c.tree), c.tree.heavy, V)
        /\ c.at # NULL =>
            \E w : /\ GrowsAt(c.tree, V, c.at, c.side, w, N)
                   /\ c.tree.heavy[c.tree[c.side][c.at]] = "none" => w = 0}

LEMMA GrownEnd ==
    ASSUME NEW t, NEW D, NEW P, NEW B, NEW N, Kept(t, D, P, B, N),
           NEW V, Exact(Kids(t), t.heavy, V), NEW s \in Sides
    PROVE  Going(t, NULL, s) \in GrownIn(P, B, N) /\ Rank(Going(t, NULL, s)) = 0
<1>1. Going(t, NULL, s) \in Goings
    BY GoingFact, NodeFact, KeptFact
<1> QED BY <1>1, GoingFact DEF GrownIn, Rank

LEMMA GrownGoes ==
    ASSUME NEW t, NEW D, NEW P, NEW B, NEW N, Kept(t, D, P, B, N),
           NEW V, NEW p, NEW s, NEW w, GrowsAt(t, V, p, s, w, N),
           t.heavy[t[s][p]] = "none" => w = 0
    PROVE  Going(t, p, s) \in GrownIn(P, B, N)
<1>1. Going(t, p, s) \in Goings /\ p # NULL
    BY GoingFact, NodeFact, KeptFact DEF GrowsAt
<1>2. PICK c : c = Going(t, p, s)
    OBVIOUS
<1>3. c.tree = t /\ c.at = p /\ c.side = s
    BY <1>2, GoingFact
<1> QED BY <1>1, <1>2, <1>3 DEF GrownIn

LEMMA GrownStep ==
    ASSUME NEW P, NEW B, NEW N, NEW c \in GrownIn(P, B, N)
    PROVE  /\ GrownRound(c) \in GrownIn(P, B, N)
           /\ Rank(GrownRound(c)) = 0 \/ Rank(GrownRound(c)) < Rank(c)
<1>1. CASE c.at = NULL
    <2>1. GrownRound(c) = c
        BY <1>1 DEF GrownRound
    <2> QED BY <1>1, <2>1 DEF Rank
<1>2. CASE c.at # NULL
    <2>1. PICK t, p, s : t = c.tree /\ p = c.at /\ s = c.side
        OBVIOUS
    <2>2. c = Going(t, p, s)
        BY <2>1 DEF GrownIn, Goings, Going
    <2>3. PICK D, V, w :
              /\ Kept(t, D, P, B, N) /\ GrowsAt(t, V, p, s, w, N)
              /\ t.heavy[t[s][p]] = "none" => w = 0
        BY <1>2, <2>1 DEF GrownIn
    <2>4. PICK y : y = t[s][p]
        OBVIOUS
    <2>5. PICK g : g = t.parent[p]
        OBVIOUS
    <2>6. PICK up : up = SideOf(t, g, p)
        OBVIOUS
    <2>7. Grove(t, D) /\ p \in N /\ p \in Node /\ s \in Sides /\ V[p] \in Nat
        BY <2>3, GrowsFact DEF Kept, GrowsAt
    <2>8. up \in Sides /\ (g # NULL => t[up][g] = p)
        BY <2>5, <2>6, <2>7, SideOfFact
    <2>9. CASE t.heavy[p] = s
        <3>1. PICK r : r = Rotation(t, p, y, s)
            OBVIOUS
        <3>2. PICK l : l = Attach(r.tree, g, r.node, up)
            OBVIOUS
        <3>3. GrownRound(c) = Going(l, NULL, up)
            BY <1>2, <2>1, <2>4, <2>5, <2>6, <2>9, <3>1, <3>2 DEF GrownRound
        <3>4. w # 0 /\ Turns(t, l, D, P, B, N, V, p, y, s, g, up, r.node)
            <4>1. Hangs(t, p, g, up)
                BY <2>5, <2>8 DEF Hangs
            <4>2. Attached(t, l, p, y, s, g, up, r.node)
                BY <3>1, <3>2 DEF Attached
            <4> QED BY <2>3, <2>4, <2>9, <4>1, <4>2, GrowTurns
        <3>5. PICK f : Moved(l, D, P, B, N, g, up, r.node, V[p], V[p], f)
            BY <2>3, <2>4, <3>4 DEF Turns
        <3>6. PICK E, W : Kept(l, E, P, B, N) /\ Exact(Kids(l), l.heavy, W)
            BY <2>8, <3>5, MovedExact
        <3> QED BY <2>8, <3>3, <3>6, GrownEnd
    <2>10. CASE t.heavy[p] = Other(s)
        <3>1. PICK l : l = [t EXCEPT !.heavy[p] = "none"]
            OBVIOUS
        <3>2. Other(s) # s
            BY <2>7, SidesFact
        <3>3. GrownRound(c) = Going(l, NULL, up)
            BY <1>2, <2>1, <2>5, <2>6, <2>10, <3>1, <3>2 DEF GrownRound
        <3>4. Moved(l, D, P, B, N, g, up, p, V[p], V[p], "none")
            BY <2>3, <2>5, <2>8, <2>10, <3>1, GrowEvens
        <3>5. PICK E, W : Kept(l, E, P, B, N) /\ Exact(Kids(l), l.heavy, W)
            BY <2>8, <3>4, MovedExact
        <3> QED BY <2>8, <3>3, <3>5, GrownEnd
    <2>11. CASE t.heavy[p] # s /\ t.heavy[p] # Other(s)
        <3>1. PICK l : l = [t EXCEPT !.heavy[p] = s]
            OBVIOUS
        <3>2. GrownRound(c) = Going(l, g, up)
            BY <1>2, <2>1, <2>5, <2>6, <2>11, <3>1 DEF GrownRound
        <3>3. Moved(l, D, P, B, N, g, up, p, V[p], V[p] + 1, s)
            BY <2>3, <2>5, <2>8, <2>11, <3>1, GrowLeans
        <3>4. CASE g = NULL
            <4>1. PICK E, W : Kept(l, E, P, B, N) /\ Exact(Kids(l), l.heavy, W)
                BY <2>8, <3>3, <3>4, MovedExact
            <4> QED BY <2>8, <3>2, <3>4, <4>1, GrownEnd
        <3>5. CASE g # NULL
            <4>1. PICK E, W : /\ Kept(l, E, P, B, N) /\ E[g] = D[g]
                              /\ GrowsAt(l, W, g, up, V[p], N)
                              /\ l.heavy[l[up][g]] = s
                BY <2>7, <2>8, <3>3, <3>5, MovedGrows
            <4>2. s # "none"
                BY <2>7, SidesFact
            <4>3. Going(l, g, up) \in GrownIn(P, B, N)
                BY <4>1, <4>2, GrownGoes
            <4>4. Rank(Going(l, g, up)) < Rank(Going(t, p, s))
                BY <2>3, <2>5, <2>7, <3>5, <4>1, RankDrops
            <4> QED BY <2>2, <3>2, <4>3, <4>4
        <3> QED BY <3>4, <3>5
    <2> QED BY <2>9, <2>10, <2>11
<1> QED BY <1>1, <1>2

LEMMA GrownEnds ==
    ASSUME NEW P, NEW B, NEW N, NEW c \in GrownIn(P, B, N),
           NEW e, e = Loop(GrownRound, c)
    PROVE  e \in GrownIn(P, B, N) /\ Rank(e) = 0
<1> DEFINE S == GrownIn(P, B, N)
           M == Cardinality(Node)
           next == [x \in S |-> GrownRound(x)]
           rank == [x \in S |-> Rank(x)]
           F(f) == [k \in 0 .. M |-> IF k = 0 THEN c ELSE GrownRound(f[k - 1])]
           g == CHOOSE f : f = F(f)
<1>1. M \in Nat
    BY NodeFact, FS_CardinalityType
<1>2. \A x \in S : GrownRound(x) \in S
    BY GrownStep
<1>3. \A x \in S : Rank(x) \in Nat /\ Rank(x) <= M
    <2> TAKE x \in S
    <2>1. PICK t, p, s : t = x.tree /\ p = x.at /\ s = x.side
        OBVIOUS
    <2>2. x = Going(t, p, s) /\ p \in Pointer
        BY <2>1 DEF GrownIn, Goings, Going
    <2>3. PICK D : Kept(t, D, P, B, N)
        BY <2>1 DEF GrownIn
    <2> QED BY <2>2, <2>3, RankFact
<1>4. \A x \in S : Rank(GrownRound(x)) = 0 \/ Rank(GrownRound(x)) < Rank(x)
    BY GrownStep
<1> HIDE DEF S, M
<1>5. next \in [S -> S] /\ rank \in [S -> Nat] /\ c \in S /\ rank[c] <= M
    BY <1>2, <1>3 DEF S
<1>6. \A x \in S : rank[next[x]] = 0 \/ rank[next[x]] < rank[x]
    BY <1>2, <1>4
<1>7. \A x \in S : next[x] = GrownRound(x) /\ rank[x] = Rank(x)
    OBVIOUS
<1> HIDE DEF next, rank
<1>8. PICK h : h = RoundOf(c, next, M, h) /\ h \in [0 .. M -> S]
    BY <1>1, <1>5, RoundsExist
<1>9. h = F(h)
    <2>1. ASSUME NEW k \in 0 .. M
          PROVE  F(h)[k] = RoundOf(c, next, M, h)[k]
        <3>1. CASE k = 0
            BY <3>1 DEF RoundOf
        <3>2. CASE k # 0
            <4>1. k - 1 \in 0 .. M
                BY <1>1, <3>2
            <4>2. h[k - 1] \in S
                BY <1>8, <4>1
            <4>3. next[h[k - 1]] = GrownRound(h[k - 1])
                BY <1>7, <4>2
            <4> QED BY <3>2, <4>3 DEF RoundOf
        <3> QED BY <3>1, <3>2
    <2> QED BY <1>8, <2>1 DEF RoundOf
<1>10. g = F(g)
    BY <1>9, Zenon
<1>11. e = g[M]
    BY Zenon DEF Loop, M
<1> HIDE DEF g
<1>12. g[0] = c /\ \A k \in 1 .. M : g[k - 1] \in S => g[k] = next[g[k - 1]]
    BY <1>1, <1>7, <1>10
<1>13. g[M] \in S /\ rank[g[M]] = 0
    BY <1>1, <1>5, <1>6, <1>12, RoundsEnd
<1> QED BY <1>7, <1>11, <1>13 DEF S

LEMMA GrownFact ==
    ASSUME NEW P, NEW B, NEW N, NEW c \in GrownIn(P, B, N),
           NEW l, l = Loop(GrownRound, c).tree
    PROVE  \E D, V : Kept(l, D, P, B, N) /\ Exact(Kids(l), l.heavy, V)
<1>1. PICK e : e = Loop(GrownRound, c)
    OBVIOUS
<1>2. e \in GrownIn(P, B, N) /\ Rank(e) = 0 /\ l = e.tree
    BY <1>1, GrownEnds
<1>3. PICK D, V : /\ Kept(l, D, P, B, N)
                  /\ e.at = NULL => Exact(Kids(l), l.heavy, V)
    BY <1>2 DEF GrownIn
<1>4. e.at = NULL
    <2>1. SUFFICES ASSUME e.at # NULL PROVE FALSE
        OBVIOUS
    <2>2. e.at \in Node
        BY <1>2, <2>1, NodeFact DEF GrownIn, Goings
    <2>3. Rank(e) = 1 + Cardinality(Node) - Cardinality(NodesAt(l, e.at))
        BY <1>2, <2>1 DEF Rank
    <2> QED BY <1>2, <1>3, <2>2, <2>3, NodeCount
<1> QED BY <1>3, <1>4

-----------------------------------------------------------------------------
(* A subtree has shrunk: below p, on side s, where p still sees w.         *)

ShrinksAt(t, V, p, s, w, N) ==
    /\ p \in N /\ s \in Sides
    /\ Fits(Kids(t), t.heavy, V, p, s, w)
    /\ w = Tall(V, t[s][p]) + 1

LEMMA ShrinksFact ==
    ASSUME NEW t, NEW D, NEW P, NEW B, NEW N, Kept(t, D, P, B, N),
           NEW V, NEW p, NEW s, NEW w, ShrinksAt(t, V, p, s, w, N)
    PROVE  /\ p \in Node /\ s \in Sides /\ Other(s) \in Sides /\ w \in Nat
           /\ V[p] \in Nat /\ Tall(V, t[Other(s)][p]) \in Nat
           /\ Tall(V, t[s][p]) \in Nat /\ w = Tall(V, t[s][p]) + 1
           /\ Poised(V[p], t.heavy[p], s, w, Tall(V, t[Other(s)][p]))
<1>1. p \in Node /\ s \in Sides /\ Other(s) \in Sides
    BY KeptFact, SidesFact DEF ShrinksAt
<1>2. w \in Nat /\ V \in [Node -> Nat]
    BY DEF ShrinksAt, Fits
<1>3. t[s][p] \in Pointer /\ t[Other(s)][p] \in Pointer
    BY <1>1, KeptFact
<1>4. Tall(V, t[Other(s)][p]) \in Nat /\ Tall(V, t[s][p]) \in Nat
    BY <1>2, <1>3, TallFact
<1>5. Poised(V[p], t.heavy[p], s, w, Tall(V, Kids(t)[Other(s)][p]))
    BY <1>1, FitsThere DEF ShrinksAt
<1>6. Kids(t)[Other(s)][p] = t[Other(s)][p]
    BY <1>1, KeptFact
<1> QED BY <1>1, <1>2, <1>4, <1>5, <1>6 DEF ShrinksAt

(* y is the sibling of the subtree that has shrunk.                        *)
Sinks(t, l, D, P, B, N, V, p, y, s, g, up, r) ==
    \E h, f :
        /\ h \in Nat /\ V[p] = IF t.heavy[y] = "none" THEN h ELSE h + 1
        /\ Moved(l, D, P, B, N, g, up, r, V[p], h, f)

LEMMA ShrinkTurns ==
    ASSUME NEW t, NEW D, NEW P, NEW B, NEW N, Kept(t, D, P, B, N),
           NEW V, NEW p, NEW s, NEW w, ShrinksAt(t, V, p, s, w, N),
           NEW a, a = Other(s), t.heavy[p] = a,
           NEW y, y = t[a][p], NEW g, NEW up, Hangs(t, p, g, up),
           NEW l, NEW r, Attached(t, l, p, y, a, g, up, r)
    PROVE  Sinks(t, l, D, P, B, N, V, p, y, s, g, up, r)
<1>1. PICK o : o = Tall(V, t[s][p])
    OBVIOUS
<1>2. PICK d : d = Tall(V, y)
    OBVIOUS
<1>3. /\ p \in Node /\ s \in Sides /\ a \in Sides /\ w \in Nat
      /\ V[p] \in Nat /\ o \in Nat /\ d \in Nat /\ w = o + 1
      /\ Poised(V[p], a, s, w, d)
    BY <1>1, <1>2, ShrinksFact
<1>4. a # s /\ a # "none" /\ s = Other(a)
    BY <1>3, SidesFact
<1>5. d = w + 1 /\ V[p] = w + 2
    BY <1>3, <1>4 DEF Poised
<1>6. y # NULL
    BY <1>2, <1>3, <1>5 DEF Tall
<1>7. y \in Node /\ V \in [Node -> Nat]
    <2>1. y \in Pointer
        BY <1>3, KeptFact
    <2> QED BY <1>6, <2>1, NodeFact DEF ShrinksAt, Fits
<1>8. V[y] = o + 2 /\ V[p] = o + 3
    <2>1. d = V[y]
        BY <1>2, <1>7, TallFact
    <2> QED BY <1>3, <1>5, <2>1
<1>9. p \in N /\ Fits(Kids(t), t.heavy, V, p, s, w)
    BY DEF ShrinksAt
<1>10. TurnsAt(t, V, p, a, y, o)
    BY <1>1, <1>3, <1>4, <1>6, <1>8, <1>9 DEF TurnsAt
<1>11. PICK h : h = IF t.heavy[y] = "none" THEN o + 3 ELSE o + 2
    OBVIOUS
<1>12. PICK f : f = IF t.heavy[y] = "none" THEN Other(a) ELSE "none"
    OBVIOUS
<1>13. Moved(l, D, P, B, N, g, up, r, V[p], h, f)
    BY <1>9, <1>10, <1>11, <1>12, MovedTurn
<1>14. h \in Nat /\ V[p] = IF t.heavy[y] = "none" THEN h ELSE h + 1
    BY <1>3, <1>8, <1>11
<1> QED BY <1>13, <1>14 DEF Sinks

LEMMA ShrinkLeans ==
    ASSUME NEW t, NEW D, NEW P, NEW B, NEW N, Kept(t, D, P, B, N),
           NEW V, NEW p, NEW s, NEW w, ShrinksAt(t, V, p, s, w, N), t.heavy[p] = "none",
           NEW g, g = t.parent[p], NEW up \in Sides, g # NULL => t[up][g] = p,
           NEW l, l = [t EXCEPT !.heavy[p] = Other(s)]
    PROVE  Moved(l, D, P, B, N, g, up, p, V[p], V[p], Other(s))
<1>1. PICK o : o = Tall(V, t[s][p])
    OBVIOUS
<1>2. PICK d : d = Tall(V, t[Other(s)][p])
    OBVIOUS
<1>3. /\ p \in Node /\ s \in Sides /\ Other(s) \in Sides /\ w \in Nat
      /\ V[p] \in Nat /\ o \in Nat /\ d \in Nat /\ w = o + 1
      /\ Poised(V[p], "none", s, w, d)
    BY <1>1, <1>2, ShrinksFact
<1>4. s # "none" /\ Other(s) # "none"
    BY <1>3, SidesFact
<1>5. d = w /\ V[p] = w + 1
    BY <1>3, <1>4 DEF Poised
<1>6. Poised(w + 1, Other(s), s, o, w)
    BY <1>3 DEF Poised
<1>7. Poised(V[p], Other(s), s, Tall(V, t[s][p]), Tall(V, t[Other(s)][p]))
    BY <1>1, <1>2, <1>5, <1>6
<1>8. p \in N /\ Fits(Kids(t), t.heavy, V, p, s, w)
    BY DEF ShrinksAt
<1> QED BY <1>3, <1>7, <1>8, MovedFlag

LEMMA ShrinkEvens ==
    ASSUME NEW t, NEW D, NEW P, NEW B, NEW N, Kept(t, D, P, B, N),
           NEW V, NEW p, NEW s, NEW w, ShrinksAt(t, V, p, s, w, N),
           t.heavy[p] # Other(s), t.heavy[p] # "none",
           NEW g, g = t.parent[p], NEW up \in Sides, g # NULL => t[up][g] = p,
           NEW l, l = [t EXCEPT !.heavy[p] = "none"]
    PROVE  \E h \in Nat : V[p] = h + 1 /\ Moved(l, D, P, B, N, g, up, p, V[p], h, "none")
<1>1. PICK o : o = Tall(V, t[s][p])
    OBVIOUS
<1>2. PICK d : d = Tall(V, t[Other(s)][p])
    OBVIOUS
<1>3. /\ p \in Node /\ s \in Sides /\ Other(s) \in Sides /\ w \in Nat
      /\ V[p] \in Nat /\ o \in Nat /\ d \in Nat /\ w = o + 1
      /\ Poised(V[p], t.heavy[p], s, w, d)
    BY <1>1, <1>2, ShrinksFact
<1>4. w = d + 1 /\ V[p] = w + 1
    BY <1>3 DEF Poised
<1>5. o = d
    BY <1>3, <1>4
<1>6. Poised(w, "none", s, o, d)
    BY <1>3, <1>5 DEF Poised
<1>7. Poised(w, "none", s, Tall(V, t[s][p]), Tall(V, t[Other(s)][p]))
    BY <1>1, <1>2, <1>6
<1>8. p \in N /\ Fits(Kids(t), t.heavy, V, p, s, w)
    BY DEF ShrinksAt
<1>9. Moved(l, D, P, B, N, g, up, p, V[p], w, "none")
    BY <1>3, <1>7, <1>8, MovedFlag
<1> QED BY <1>3, <1>4, <1>9

LEMMA MovedShrinks ==
    ASSUME NEW l, NEW D, NEW P, NEW B, NEW N, NEW g, NEW up \in Sides, NEW r, NEW v,
           NEW h \in Nat, v = h + 1,
           NEW f, Moved(l, D, P, B, N, g, up, r, v, h, f), g # NULL
    PROVE  \E E, W : /\ Kept(l, E, P, B, N) /\ E[g] = D[g]
                     /\ ShrinksAt(l, W, g, up, v, N)
<1>1. PICK E, W :
          /\ Kept(l, E, P, B, N)
          /\ g \in N /\ E[g] = D[g] /\ l[up][g] = r
          /\ r \in N /\ W[r] = h
          /\ Fits(Kids(l), l.heavy, W, g, up, v)
    BY DEF Moved, Onto
<1>2. r \in Node /\ W \in [Node -> Nat]
    BY <1>1, KeptFact DEF Fits
<1>3. Tall(W, r) = h
    BY <1>1, <1>2, TallFact
<1>4. ShrinksAt(l, W, g, up, v, N)
    BY <1>1, <1>3 DEF ShrinksAt
<1> QED BY <1>1, <1>4

(* The loop of remove.                                                     *)
ShrunkIn(P, B, N) ==
    {c \in Goings : \E D, V :
        /\ Kept(c.tree, D, P, B, N)
        /\ c.at = NULL => Exact(Kids(c.tree), c.tree.heavy, V)
        /\ c.at # NULL => \E w : ShrinksAt(c.tree, V, c.at, c.side, w, N)}

LEMMA ShrunkEnd ==
    ASSUME NEW t, NEW D, NEW P, NEW B, NEW N, Kept(t, D, P, B, N),
           NEW V, Exact(Kids(t), t.heavy, V), NEW s \in Sides
    PROVE  Going(t, NULL, s) \in ShrunkIn(P, B, N) /\ Rank(Going(t, NULL, s)) = 0
<1>1. Going(t, NULL, s) \in Goings
    BY GoingFact, NodeFact, KeptFact
<1> QED BY <1>1, GoingFact DEF ShrunkIn, Rank

LEMMA ShrunkGoes ==
    ASSUME NEW t, NEW D, NEW P, NEW B, NEW N, Kept(t, D, P, B, N),
           NEW V, NEW p, NEW s, NEW w, ShrinksAt(t, V, p, s, w, N)
    PROVE  Going(t, p, s) \in ShrunkIn(P, B, N)
<1>1. Going(t, p, s) \in Goings /\ p # NULL
    BY GoingFact, NodeFact, KeptFact DEF ShrinksAt
<1>2. PICK c : c = Going(t, p, s)
    OBVIOUS
<1>3. c.tree = t /\ c.at = p /\ c.side = s
    BY <1>2, GoingFact
<1> QED BY <1>1, <1>2, <1>3 DEF ShrunkIn

(* After a round that took the height from v to h below g.                 *)
LEMMA ShrunkOn ==
    ASSUME NEW t, NEW D, NEW P, NEW B, NEW N, Kept(t, D, P, B, N), NEW p \in N,
           NEW g, g = t.parent[p], NEW s, NEW up \in Sides,
           NEW l, NEW r, NEW v, NEW h \in Nat, NEW f,
           Moved(l, D, P, B, N, g, up, r, v, h, f), v = h + 1
    PROVE  /\ Going(l, g, up) \in ShrunkIn(P, B, N)
           /\ \/ Rank(Going(l, g, up)) = 0
              \/ Rank(Going(l, g, up)) < Rank(Going(t, p, s))
<1>1. CASE g = NULL
    <2>1. PICK E, W : Kept(l, E, P, B, N) /\ Exact(Kids(l), l.heavy, W)
        BY <1>1, MovedExact
    <2> QED BY <1>1, <2>1, ShrunkEnd
<1>2. CASE g # NULL
    <2>1. PICK E, W : /\ Kept(l, E, P, B, N) /\ E[g] = D[g]
                      /\ ShrinksAt(l, W, g, up, v, N)
        BY <1>2, MovedShrinks
    <2>2. Going(l, g, up) \in ShrunkIn(P, B, N)
        BY <2>1, ShrunkGoes
    <2>3. Rank(Going(l, g, up)) < Rank(Going(t, p, s))
        BY <1>2, <2>1, RankDrops
    <2> QED BY <2>2, <2>3
<1> QED BY <1>1, <1>2

(* After a round that left it as it was.                                   *)
LEMMA ShrunkOff ==
    ASSUME NEW D, NEW P, NEW B, NEW N, NEW g, NEW up \in Sides,
           NEW l, NEW r, NEW v, NEW f, Moved(l, D, P, B, N, g, up, r, v, v, f)
    PROVE  Going(l, NULL, up) \in ShrunkIn(P, B, N) /\ Rank(Going(l, NULL, up)) = 0
<1>1. PICK E, W : Kept(l, E, P, B, N) /\ Exact(Kids(l), l.heavy, W)
    BY MovedExact
<1> QED BY <1>1, ShrunkEnd

LEMMA ShrunkStep ==
    ASSUME NEW P, NEW B, NEW N, NEW c \in ShrunkIn(P, B, N)
    PROVE  /\ ShrunkRound(c) \in ShrunkIn(P, B, N)
           /\ Rank(ShrunkRound(c)) = 0 \/ Rank(ShrunkRound(c)) < Rank(c)
<1>1. CASE c.at = NULL
    <2>1. ShrunkRound(c) = c
        BY <1>1 DEF ShrunkRound
    <2> QED BY <1>1, <2>1 DEF Rank
<1>2. CASE c.at # NULL
    <2>1. PICK t, p, s : t = c.tree /\ p = c.at /\ s = c.side
        OBVIOUS
    <2>2. c = Going(t, p, s)
        BY <2>1 DEF ShrunkIn, Goings, Going
    <2>3. PICK D, V, w : Kept(t, D, P, B, N) /\ ShrinksAt(t, V, p, s, w, N)
        BY <1>2, <2>1 DEF ShrunkIn
    <2>4. PICK a : a = Other(s)
        OBVIOUS
    <2>5. PICK y : y = t[a][p]
        OBVIOUS
    <2>6. PICK g : g = t.parent[p]
        OBVIOUS
    <2>7. PICK up : up = SideOf(t, g, p)
        OBVIOUS
    <2>8. Grove(t, D) /\ p \in N /\ p \in Node /\ s \in Sides /\ V[p] \in Nat
        <3>1. Grove(t, D) /\ p \in N
            BY <2>3 DEF Kept, ShrinksAt
        <3>2. p \in Node /\ s \in Sides /\ V[p] \in Nat
            BY <2>3, ShrinksFact
        <3> QED BY <3>1, <3>2
    <2>9. up \in Sides /\ (g # NULL => t[up][g] = p)
        BY <2>6, <2>7, <2>8, SideOfFact
    <2>10. a # "none"
        BY <2>4, <2>8, SidesFact
    <2>11. CASE t.heavy[p] = a
        <3>1. PICK r : r = Rotation(t, p, y, a)
            OBVIOUS
        <3>2. PICK l : l = Attach(r.tree, g, r.node, up)
            OBVIOUS
        <3>3. ShrunkRound(c) = Going(l, IF t.heavy[y] = "none" THEN NULL ELSE g, up)
            BY <1>2, <2>1, <2>4, <2>5, <2>6, <2>7, <2>11, <3>1, <3>2 DEF ShrunkRound
        <3>4. Sinks(t, l, D, P, B, N, V, p, y, s, g, up, r.node)
            <4>1. Hangs(t, p, g, up)
                BY <2>6, <2>9 DEF Hangs
            <4>2. Attached(t, l, p, y, a, g, up, r.node)
                BY <3>1, <3>2 DEF Attached
            <4> QED BY <2>3, <2>4, <2>5, <2>11, <4>1, <4>2, ShrinkTurns
        <3>5. PICK h, f :
                  /\ h \in Nat /\ V[p] = IF t.heavy[y] = "none" THEN h ELSE h + 1
                  /\ Moved(l, D, P, B, N, g, up, r.node, V[p], h, f)
            BY <3>4 DEF Sinks
        <3>6. CASE t.heavy[y] = "none"
            <4>1. Moved(l, D, P, B, N, g, up, r.node, h, h, f)
                BY <3>5, <3>6
            <4> QED BY <2>9, <3>3, <3>6, <4>1, ShrunkOff
        <3>7. CASE t.heavy[y] # "none"
            <4>1. PICK v : v = V[p]
                OBVIOUS
            <4>2. h \in Nat /\ Moved(l, D, P, B, N, g, up, r.node, v, h, f) /\ v = h + 1
                BY <3>5, <3>7, <4>1
            <4>3. /\ Going(l, g, up) \in ShrunkIn(P, B, N)
                  /\ \/ Rank(Going(l, g, up)) = 0
                     \/ Rank(Going(l, g, up)) < Rank(Going(t, p, s))
                BY <2>3, <2>6, <2>8, <2>9, <4>2, ShrunkOn
            <4> QED BY <2>2, <3>3, <3>7, <4>3
        <3> QED BY <3>6, <3>7
    <2>12. CASE t.heavy[p] = "none"
        <3>1. PICK l : l = [t EXCEPT !.heavy[p] = Other(s)]
            OBVIOUS
        <3>2. ShrunkRound(c) = Going(l, NULL, up)
            BY <1>2, <2>1, <2>4, <2>6, <2>7, <2>10, <2>12, <3>1 DEF ShrunkRound
        <3>3. Moved(l, D, P, B, N, g, up, p, V[p], V[p], Other(s))
            BY <2>3, <2>6, <2>9, <2>12, <3>1, ShrinkLeans
        <3> QED BY <2>9, <3>2, <3>3, ShrunkOff
    <2>13. CASE t.heavy[p] # a /\ t.heavy[p] # "none"
        <3>1. PICK l : l = [t EXCEPT !.heavy[p] = "none"]
            OBVIOUS
        <3>2. ShrunkRound(c) = Going(l, g, up)
            BY <1>2, <2>1, <2>4, <2>6, <2>7, <2>13, <3>1 DEF ShrunkRound
        <3>3. PICK h \in Nat : /\ V[p] = h + 1
                               /\ Moved(l, D, P, B, N, g, up, p, V[p], h, "none")
            BY <2>3, <2>4, <2>6, <2>9, <2>13, <3>1, ShrinkEvens
        <3>4. PICK v : v = V[p]
            OBVIOUS
        <3>5. Moved(l, D, P, B, N, g, up, p, v, h, "none") /\ v = h + 1
            BY <3>3, <3>4
        <3>6. /\ Going(l, g, up) \in ShrunkIn(P, B, N)
              /\ \/ Rank(Going(l, g, up)) = 0
                 \/ Rank(Going(l, g, up)) < Rank(Going(t, p, s))
            BY <2>3, <2>6, <2>8, <2>9, <3>5, ShrunkOn
        <3> QED BY <2>2, <3>2, <3>6
    <2> QED BY <2>11, <2>12, <2>13
<1> QED BY <1>1, <1>2

LEMMA ShrunkEnds ==
    ASSUME NEW P, NEW B, NEW N, NEW c \in ShrunkIn(P, B, N),
           NEW e, e = Loop(ShrunkRound, c)
    PROVE  e \in ShrunkIn(P, B, N) /\ Rank(e) = 0
<1> DEFINE S == ShrunkIn(P, B, N)
           M == Cardinality(Node)
           next == [x \in S |-> ShrunkRound(x)]
           rank == [x \in S |-> Rank(x)]
           F(f) == [k \in 0 .. M |-> IF k = 0 THEN c ELSE ShrunkRound(f[k - 1])]
           g == CHOOSE f : f = F(f)
<1>1. M \in Nat
    BY NodeFact, FS_CardinalityType
<1>2. \A x \in S : ShrunkRound(x) \in S
    BY ShrunkStep
<1>3. \A x \in S : Rank(x) \in Nat /\ Rank(x) <= M
    <2> TAKE x \in S
    <2>1. PICK t, p, s : t = x.tree /\ p = x.at /\ s = x.side
        OBVIOUS
    <2>2. x = Going(t, p, s) /\ p \in Pointer
        BY <2>1 DEF ShrunkIn, Goings, Going
    <2>3. PICK D : Kept(t, D, P, B, N)
        BY <2>1 DEF ShrunkIn
    <2> QED BY <2>2, <2>3, RankFact
<1>4. \A x \in S : Rank(ShrunkRound(x)) = 0 \/ Rank(ShrunkRound(x)) < Rank(x)
    BY ShrunkStep
<1> HIDE DEF S, M
<1>5. next \in [S -> S] /\ rank \in [S -> Nat] /\ c \in S /\ rank[c] <= M
    BY <1>2, <1>3 DEF S
<1>6. \A x \in S : rank[next[x]] = 0 \/ rank[next[x]] < rank[x]
    BY <1>2, <1>4
<1>7. \A x \in S : next[x] = ShrunkRound(x) /\ rank[x] = Rank(x)
    OBVIOUS
<1> HIDE DEF next, rank
<1>8. PICK h : h = RoundOf(c, next, M, h) /\ h \in [0 .. M -> S]
    BY <1>1, <1>5, RoundsExist
<1>9. h = F(h)
    <2>1. ASSUME NEW k \in 0 .. M
          PROVE  F(h)[k] = RoundOf(c, next, M, h)[k]
        <3>1. CASE k = 0
            BY <3>1 DEF RoundOf
        <3>2. CASE k # 0
            <4>1. k - 1 \in 0 .. M
                BY <1>1, <3>2
            <4>2. h[k - 1] \in S
                BY <1>8, <4>1
            <4>3. next[h[k - 1]] = ShrunkRound(h[k - 1])
                BY <1>7, <4>2
            <4> QED BY <3>2, <4>3 DEF RoundOf
        <3> QED BY <3>1, <3>2
    <2> QED BY <1>8, <2>1 DEF RoundOf
<1>10. g = F(g)
    BY <1>9, Zenon
<1>11. e = g[M]
    BY Zenon DEF Loop, M
<1> HIDE DEF g
<1>12. g[0] = c /\ \A k \in 1 .. M : g[k - 1] \in S => g[k] = next[g[k - 1]]
    BY <1>1, <1>7, <1>10
<1>13. g[M] \in S /\ rank[g[M]] = 0
    BY <1>1, <1>5, <1>6, <1>12, RoundsEnd
<1> QED BY <1>7, <1>11, <1>13 DEF S

LEMMA ShrunkFact ==
    ASSUME NEW P, NEW B, NEW N, NEW c \in ShrunkIn(P, B, N),
           NEW l, l = Loop(ShrunkRound, c).tree
    PROVE  \E D, V : Kept(l, D, P, B, N) /\ Exact(Kids(l), l.heavy, V)
<1>1. PICK e : e = Loop(ShrunkRound, c)
    OBVIOUS
<1>2. e \in ShrunkIn(P, B, N) /\ Rank(e) = 0 /\ l = e.tree
    BY <1>1, ShrunkEnds
<1>3. PICK D, V : /\ Kept(l, D, P, B, N)
                  /\ e.at = NULL => Exact(Kids(l), l.heavy, V)
    BY <1>2 DEF ShrunkIn
<1>4. e.at = NULL
    <2>1. SUFFICES ASSUME e.at # NULL PROVE FALSE
        OBVIOUS
    <2>2. e.at \in Node
        BY <1>2, <2>1, NodeFact DEF ShrunkIn, Goings
    <2>3. Rank(e) = 1 + Cardinality(Node) - Cardinality(NodesAt(l, e.at))
        BY <1>2, <2>1 DEF Rank
    <2> QED BY <1>2, <1>3, <2>2, <2>3, NodeCount
<1> QED BY <1>3, <1>4

-----------------------------------------------------------------------------
(* To sum up the sizes is to count the nodes.                              *)

LEMMA CountFact ==
    ASSUME NEW C, NEW P, NEW D, Forest(C, P, D), NEW n \in Node, NEW s \in Sides,
           NEW a, a = At(D, C[s][n]), NEW b, b = At(D, C[Other(s)][n])
    PROVE  /\ Cardinality(a) \in Nat /\ Cardinality(b) \in Nat
           /\ Cardinality(D[n]) = 1 + Cardinality(a) + Cardinality(b)
<1>1. /\ Other(s) \in Sides /\ C[s][n] \in Pointer /\ C[Other(s)][n] \in Pointer
      /\ a \subseteq Node /\ b \subseteq Node
    BY ForestTyped, SidesFact
<1>2. IsFiniteSet(Node)
    BY NodeFact
<1>3. IsFiniteSet(a) /\ IsFiniteSet(b)
    BY <1>1, <1>2, FS_Subset
<1>4. Cardinality(a) \in Nat /\ Cardinality(b) \in Nat
    BY <1>3, FS_CardinalityType
<1>5. a \cap b = {}
    BY SidesApart
<1>6. Cardinality(a \cap b) = 0
    BY <1>5, FS_EmptySet
<1>7. IsFiniteSet(a \cup b) /\ Cardinality(a \cup b) = Cardinality(a) + Cardinality(b)
    <2>1. /\ IsFiniteSet(a \cup b)
          /\ Cardinality(a \cup b) = Cardinality(a) + Cardinality(b) - Cardinality(a \cap b)
        BY <1>3, FS_Union
    <2> QED BY <1>4, <1>6, <2>1
<1>8. n \notin a \cup b
    <2>1. \A u \in Sides : C[u][n] # NULL => n \notin D[C[u][n]]
        BY SubtreeFact
    <2> QED BY <1>1, <2>1 DEF At
<1>9. D[n] = (a \cup b) \cup {n}
    BY ForestAt
<1>10. Cardinality(D[n]) = Cardinality(a \cup b) + 1
    <2>1. PICK e : e = a \cup b
        OBVIOUS
    <2>2. IsFiniteSet(e) /\ n \notin e /\ D[n] = e \cup {n}
        BY <1>7, <1>8, <1>9, <2>1
    <2>3. Cardinality(D[n]) = Cardinality(e) + 1
        BY <2>2, FS_AddElement
    <2> QED BY <2>1, <2>3
<1> QED BY <1>4, <1>7, <1>10

(* p, or nothing, counts as many.                                          *)
LEMMA SizeCounts ==
    ASSUME NEW t, NEW D, NEW p, p # NULL => Counts(t, D, p)
    PROVE  SizeAt(t, p) = Cardinality(At(D, p))
<1>1. Cardinality({}) = 0
    BY FS_EmptySet
<1> QED BY <1>1 DEF SizeAt, At, Counts

LEMMA CountsSums ==
    ASSUME NEW t, NEW D, Grove(t, D), \A m \in Node : Counts(t, D, m)
    PROVE  Summed(t)
<1> SUFFICES ASSUME NEW n \in Node, NEW s \in Sides
             PROVE  t.size[n] = SumAt(t, n, s)
    BY DEF Summed
<1>1. Forest(Kids(t), t.parent, D) /\ Typed(t) /\ Other(s) \in Sides
    BY SidesFact DEF Grove
<1>2. /\ Kids(t)[s][n] = t[s][n] /\ Kids(t)[Other(s)][n] = t[Other(s)][n]
      /\ t[s][n] # NULL => t[s][n] \in Node
      /\ t[Other(s)][n] # NULL => t[Other(s)][n] \in Node
    BY <1>1, KidsFact, ForestTyped
<1>3. Cardinality(D[n]) = 1 + Cardinality(At(D, t[s][n])) + Cardinality(At(D, t[Other(s)][n]))
    BY <1>1, <1>2, CountFact
<1>4. SizeAt(t, t[s][n]) = Cardinality(At(D, t[s][n]))
    BY <1>2, SizeCounts
<1>5. SizeAt(t, t[Other(s)][n]) = Cardinality(At(D, t[Other(s)][n]))
    BY <1>2, SizeCounts
<1> QED BY <1>3, <1>4, <1>5 DEF SumAt, Counts

LEMMA SumsCounts ==
    ASSUME NEW t, NEW D, Grove(t, D), Summed(t)
    PROVE  \A m \in Node : Counts(t, D, m)
<1> DEFINE S == {n \in Node : Counts(t, D, n)}
<1>1. Forest(Kids(t), t.parent, D) /\ Typed(t)
    BY DEF Grove
<1>2. ASSUME NEW n \in Node,
             \A s \in Sides : Kids(t)[s][n] # NULL => Kids(t)[s][n] \in S
      PROVE  n \in S
    <2>1. PICK s \in Sides : s = "left"
        BY SidesFact
    <2>2. Other(s) \in Sides /\ Kids(t)[s][n] = t[s][n]
          /\ Kids(t)[Other(s)][n] = t[Other(s)][n]
        BY <1>1, <2>1, SidesFact, KidsFact
    <2>3. /\ t[s][n] # NULL => Counts(t, D, t[s][n])
          /\ t[Other(s)][n] # NULL => Counts(t, D, t[Other(s)][n])
        BY <1>2, <2>2
    <2>4. Cardinality(D[n]) =
              1 + Cardinality(At(D, t[s][n])) + Cardinality(At(D, t[Other(s)][n]))
        BY <1>1, <2>2, CountFact
    <2>5. SizeAt(t, t[s][n]) = Cardinality(At(D, t[s][n]))
        BY <2>3, SizeCounts
    <2>6. SizeAt(t, t[Other(s)][n]) = Cardinality(At(D, t[Other(s)][n]))
        BY <2>3, SizeCounts
    <2>7. t.size[n] = SumAt(t, n, s)
        BY DEF Summed
    <2>8. Counts(t, D, n)
        BY <2>4, <2>5, <2>6, <2>7 DEF SumAt, Counts
    <2> QED BY <2>8
<1>3. S = Node
    <2> HIDE DEF S
    <2>1. S \subseteq Node
        BY DEF S
    <2> QED BY <1>1, <1>2, <2>1, BottomUp
<1> QED BY <1>3

-----------------------------------------------------------------------------
(* Between the operations: the nodes N are a balanced tree, the others     *)
(* keep their parents P and their trees B.                                 *)

Fine(t, P, B, N) ==
    \E D, V : Kept(t, D, P, B, N) /\ Exact(Kids(t), t.heavy, V)

Free(P, B, n) == P[n] = NULL /\ B[n] = {n}

LEMMA KeptIs ==
    ASSUME NEW t, NEW D, Grove(t, D), \A m \in Node : Counts(t, D, m),
           NEW N, N = At(D, t.root), t.root # NULL => t.parent[t.root] = NULL,
           NEW P, NEW B, \A m \in Node \ N : t.parent[m] = P[m] /\ D[m] = B[m]
    PROVE  Kept(t, D, P, B, N)
<1>1. Summed(t)
    BY CountsSums
<1> QED BY <1>1 DEF Kept

LEMMA KeptStands ==
    ASSUME NEW t, NEW D, NEW P, NEW B, NEW N, Kept(t, D, P, B, N)
    PROVE  /\ Standing(t, D) /\ NodesOf(t) = N
           /\ \A m \in Node : Counts(t, D, m)
           /\ \A n \in Node \ N : Free(P, B, n) => Single(t.parent, D, n)
<1>1. Standing(t, D) /\ Grove(t, D) /\ Summed(t)
    BY DEF Kept, Standing
<1>2. NodesOf(t) = N
    BY <1>1, NodesOfFact DEF Kept
<1>3. \A m \in Node : Counts(t, D, m)
    BY <1>1, SumsCounts
<1>4. \A n \in Node \ N : Free(P, B, n) => Single(t.parent, D, n)
    BY DEF Kept, Free, Single
<1> QED BY <1>1, <1>2, <1>3, <1>4

(* A node by itself is of height one and even.                             *)
LEMMA SingleExact ==
    ASSUME NEW C, NEW P, NEW D, Forest(C, P, D), NEW n \in Node, Single(P, D, n),
           NEW H, NEW V, Exact(C, H, V)
    PROVE  V[n] = 1 /\ H[n] = "none"
<1>1. \A s \in Sides : C[s][n] = NULL
    BY SingleFact
<1>2. PICK s \in Sides : s = "left"
    BY SidesFact
<1>3. Poised(V[n], H[n], s, Tall(V, C[s][n]), Tall(V, C[Other(s)][n]))
    BY ExactAt
<1>4. Tall(V, C[s][n]) = 0 /\ Tall(V, C[Other(s)][n]) = 0
    BY <1>1, SidesFact DEF Tall
<1>5. Poised(V[n], H[n], s, 0, 0)
    BY <1>3, <1>4
<1> QED BY <1>5 DEF Poised

(* Nobody looks at the link on which an old height is seen.                *)
LEMMA FitsRelinked ==
    ASSUME NEW C, NEW H, NEW V, NEW p, NEW u, NEW w, Fits(C, H, V, p, u, w),
           NEW K, \A m \in Node, s \in Sides : (m = p /\ s = u) \/ K[s][m] = C[s][m],
           NEW I, \A m \in Node : I[m] = H[m]
    PROVE  Fits(K, I, V, p, u, w)
<1>1. V \in [Node -> Nat] /\ w \in Nat
    BY DEF Fits
<1>2. ASSUME NEW n \in Node, NEW s \in Sides
      PROVE  PoisedAt(K, I, V, n, s, p, u, w)
    <2>1. ASSUME NEW e \in Sides
          PROVE  Seen(K, V, n, e, p, u, w) = Seen(C, V, n, e, p, u, w)
        BY DEF Seen
    <2>2. Other(s) \in Sides
        BY SidesFact
    <2>3. PoisedAt(C, H, V, n, s, p, u, w)
        BY DEF Fits
    <2> QED BY <2>1, <2>2, <2>3 DEF PoisedAt
<1> QED BY <1>1, <1>2 DEF Fits

LEMMA InsertsLeaf ==
    ASSUME NEW t, NEW P, NEW B, NEW N, Fine(t, P, B, N),
           NEW n \in Node, n \notin N, Free(P, B, n),
           t.root # NULL, find(t, KeyOf[n]) = NULL,
           NEW l, l = AVLInsert(t, n)
    PROVE  Fine(l, P, B, N \cup {n})
<1>1. PICK D, V : Kept(t, D, P, B, N) /\ Exact(Kids(t), t.heavy, V)
    BY DEF Fine
<1>2. /\ Standing(t, D) /\ NodesOf(t) = N /\ Single(t.parent, D, n)
      /\ \A m \in Node : Counts(t, D, m)
    BY <1>1, KeptStands
<1>3. Grove(t, D) /\ Forest(Kids(t), t.parent, D) /\ Typed(t) /\ KeyOf[n] \in Nat
    BY <1>2, NodeFact DEF Standing, Grove
<1>4. t.root \in Node /\ N = D[t.root] /\ t.parent[t.root] = NULL
    BY <1>2, <1>3, NodesOfFact DEF Standing
<1>5. KeyOf[t.root] # KeyOf[n]
    BY <1>3, <1>4, PlaceFact DEF find
<1>6. PICK p \in Node, s \in Sides :
          /\ Place(t, KeyOf[n]) = Spot(t, p, s)
          /\ Placed(Kids(t), D, KeyOf[n], t.root, p, s)
    BY <1>3, <1>5, PlaceFact
<1>7. t[s][p] = NULL
    BY <1>6 DEF find, Spot
<1>8. PICK b : b = BSTInsert(t, n)
    OBVIOUS
<1>9. PICK k : k = b.tree
    OBVIOUS
<1>10. PICK E : E = HungTrees(D, p, n)
    OBVIOUS
<1>11. /\ b.replaced = NULL
       /\ Grove(k, E) /\ k.root = t.root /\ k.heavy = t.heavy
       /\ \A m \in Node, u \in Sides :
              k[u][m] = IF u = s /\ m = p THEN n ELSE t[u][m]
       /\ \A m \in Node : k.parent[m] = IF m = n THEN p ELSE t.parent[m]
       /\ Counts(k, E, n)
       /\ \A m \in Node \ {n} : Counts(t, D, m) => Counts(k, E, m)
    BY <1>2, <1>3, <1>6, <1>7, <1>8, <1>9, <1>10, InsertLeaf
<1>12. Typed(k) /\ \A m \in Node : Counts(k, E, m)
    BY <1>2, <1>11 DEF Grove
<1>13. PICK q : q = [k EXCEPT !.heavy[n] = "none"]
    OBVIOUS
<1>14. OneFlag(q, k, n, "none")
    BY <1>12, <1>13, SetFlagFact
<1>15. V[n] = 1 /\ t.heavy[n] = "none"
    BY <1>1, <1>2, <1>3, SingleExact
<1>16. SameShape(q, k) /\ \A m \in Node : q.heavy[m] = t.heavy[m]
    BY <1>11, <1>14, <1>15 DEF OneFlag
<1>17. \A m \in Node : E[m] = IF p \in D[m] THEN D[m] \cup {n} ELSE D[m]
    BY <1>10 DEF HungTrees
<1>18. p \in N
    BY <1>4, <1>6 DEF Placed
<1> DEFINE M == N \cup {n}
<1>19. Kept(k, E, P, B, M)
    <2>1. M = At(E, k.root)
        BY <1>4, <1>11, <1>17, <1>18, NodeFact DEF At
    <2>2. k.root # NULL => k.parent[k.root] = NULL
        <3>1. t.root \in N
            BY <1>3, <1>4, SubtreeFact
        <3> QED BY <1>4, <1>11, <3>1
    <2>3. \A m \in Node \ M : k.parent[m] = P[m] /\ E[m] = B[m]
        <3> TAKE m \in Node \ M
        <3>1. p \notin D[m]
            BY <1>3, <1>4, <1>18, SameTree
        <3>2. t.parent[m] = P[m] /\ D[m] = B[m]
            BY <1>1 DEF Kept
        <3> QED BY <1>11, <1>17, <3>1, <3>2
    <2> HIDE DEF M
    <2> QED BY <1>11, <1>12, <2>1, <2>2, <2>3, KeptIs
<1> HIDE DEF M
<1>20. Kept(q, E, P, B, M)
    BY <1>16, <1>19, KeptShape
<1>21. Fits(Kids(q), q.heavy, V, p, s, 0)
    <2>1. Kids(t)[s][p] = NULL
        BY <1>1, <1>7, KeptFact
    <2>2. Tall(V, Kids(t)[s][p]) = 0
        BY <2>1 DEF Tall
    <2>3. Fits(Kids(t), t.heavy, V, p, s, 0)
        BY <1>1, <2>2, ExactFits
    <2>4. Kids(q) = Kids(k)
        BY <1>16, SameShapeFact
    <2>5. ASSUME NEW m \in Node, NEW u \in Sides
          PROVE  (m = p /\ u = s) \/ Kids(q)[u][m] = Kids(t)[u][m]
        <3>1. Kids(k)[u][m] = k[u][m] /\ Kids(t)[u][m] = t[u][m]
            BY <1>1, <1>19, KeptFact
        <3> QED BY <1>11, <2>4, <3>1
    <2> QED BY <1>16, <2>3, <2>5, FitsRelinked
<1>22. q[s][p] = n
    <2>1. q[s] = k[s]
        BY <1>16, SameShapeFact
    <2> QED BY <1>11, <2>1
<1>23. GrowsAt(q, V, p, s, 0, M) /\ (q.heavy[q[s][p]] = "none" => 0 = 0)
    <2>1. p \in M /\ n # NULL /\ V[n] = 0 + 1
        BY <1>15, <1>18, NodeFact DEF M
    <2> QED BY <1>21, <1>22, <2>1 DEF GrowsAt
<1>24. q.parent[n] = p
    BY <1>11, <1>16 DEF SameShape
<1>25. SideOf(q, p, n) = s
    <2>1. PICK u : u = SideOf(q, p, n)
        OBVIOUS
    <2>2. u \in Sides /\ q[u][p] = n
        BY <1>20, <1>24, <2>1, SideOfFact, NodeFact DEF Kept
    <2>3. Kids(q)[u][p] = n /\ Kids(q)[s][p] = n /\ Forest(Kids(q), q.parent, E)
        BY <1>20, <1>22, <2>2, KeptFact
    <2>4. p # NULL
        BY NodeFact
    <2>5. u = s
        BY <1>24, <2>2, <2>3, <2>4, HangsFact
    <2> QED BY <2>1, <2>5
<1>26. PICK c : c = Going(q, p, s)
    OBVIOUS
<1>27. c \in GrownIn(P, B, M)
    BY <1>20, <1>23, <1>26, GrownGoes
<1>28. l = Loop(GrownRound, c).tree
    <2>1. l = Grown(q, n)
        BY <1>8, <1>9, <1>11, <1>13 DEF AVLInsert
    <2> QED BY <1>24, <1>25, <1>26, <2>1 DEF Grown
<1>29. Fine(l, P, B, M)
    BY <1>27, <1>28, GrownFact DEF Fine
<1> QED BY <1>29 DEF M

LEMMA InsertsFirst ==
    ASSUME NEW t, NEW P, NEW B, NEW N, Fine(t, P, B, N),
           NEW n \in Node, n \notin N, Free(P, B, n), t.root = NULL,
           NEW l, l = AVLInsert(t, n)
    PROVE  Fine(l, P, B, N \cup {n})
<1>1. PICK D, V : Kept(t, D, P, B, N) /\ Exact(Kids(t), t.heavy, V)
    BY DEF Fine
<1>2. /\ Standing(t, D) /\ NodesOf(t) = N /\ Single(t.parent, D, n)
      /\ \A m \in Node : Counts(t, D, m)
    BY <1>1, KeptStands
<1>3. Grove(t, D) /\ Forest(Kids(t), t.parent, D) /\ Typed(t)
    BY <1>2 DEF Standing, Grove
<1>4. N = {}
    BY <1>1 DEF Kept, At
<1>5. PICK b : b = BSTInsert(t, n)
    OBVIOUS
<1>6. PICK k : k = b.tree
    OBVIOUS
<1>7. /\ b.replaced = NULL
      /\ Grove(k, D) /\ k.root = n /\ k.heavy = t.heavy
      /\ \A u \in Sides : \A m \in Node : k[u][m] = t[u][m]
      /\ \A m \in Node : k.parent[m] = t.parent[m]
      /\ Counts(k, D, n)
      /\ \A m \in Node \ {n} : k.size[m] = t.size[m]
    BY <1>2, <1>5, <1>6, InsertFirst
<1>8. Typed(k) /\ \A m \in Node : Counts(k, D, m)
    BY <1>2, <1>7 DEF Grove, Counts
<1>9. PICK q : q = [k EXCEPT !.heavy[n] = "none"]
    OBVIOUS
<1>10. OneFlag(q, k, n, "none")
    BY <1>8, <1>9, SetFlagFact
<1>11. V[n] = 1 /\ t.heavy[n] = "none"
    BY <1>1, <1>2, <1>3, SingleExact
<1>12. SameShape(q, k) /\ \A m \in Node : q.heavy[m] = t.heavy[m]
    BY <1>7, <1>10, <1>11 DEF OneFlag
<1>13. Kept(k, D, P, B, {n})
    <2>1. D[n] = {n} /\ t.parent[n] = NULL
        BY <1>2 DEF Single
    <2>2. {n} = At(D, k.root) /\ k.parent[k.root] = NULL
        BY <1>7, <2>1, NodeFact DEF At
    <2>3. \A m \in Node \ {n} : k.parent[m] = P[m] /\ D[m] = B[m]
        BY <1>1, <1>4, <1>7 DEF Kept
    <2> QED BY <1>7, <1>8, <2>2, <2>3, KeptIs
<1>14. Kept(q, D, P, B, {n})
    BY <1>12, <1>13, KeptShape
<1>15. Exact(Kids(q), q.heavy, V)
    <2>1. Kids(q) = Kids(k)
        BY <1>12, SameShapeFact
    <2>2. ASSUME NEW m \in Node, NEW u \in Sides
          PROVE  Kids(q)[u][m] = Kids(t)[u][m]
        <3>1. Kids(k)[u][m] = k[u][m] /\ Kids(t)[u][m] = t[u][m]
            BY <1>1, <1>13, KeptFact
        <3> QED BY <1>7, <2>1, <3>1
    <2>3. Fits(Kids(t), t.heavy, V, NULL, "left", 0)
        BY <1>1 DEF Exact
    <2>4. Fits(Kids(q), q.heavy, V, NULL, "left", 0)
        BY <1>12, <2>2, <2>3, FitsRelinked
    <2> QED BY <2>4 DEF Exact
<1>16. q.parent[n] = NULL
    BY <1>2, <1>7, <1>12 DEF SameShape, Single
<1>17. PICK s : s = SideOf(q, NULL, n)
    OBVIOUS
<1>18. s \in Sides
    BY <1>17 DEF SideOf, Sides
<1>19. PICK c : c = Going(q, NULL, s)
    OBVIOUS
<1>20. c \in GrownIn(P, B, {n})
    BY <1>14, <1>15, <1>18, <1>19, GrownEnd
<1>21. l = Loop(GrownRound, c).tree
    <2>1. l = Grown(q, n)
        BY <1>5, <1>6, <1>7, <1>9 DEF AVLInsert
    <2> QED BY <1>16, <1>17, <1>19, <2>1 DEF Grown
<1>22. Fine(l, P, B, {n})
    BY <1>20, <1>21, GrownFact DEF Fine
<1> QED BY <1>4, <1>22

(* Two nodes that change places change heights and flags.                  *)
Traded(C, H, V, K, I, W, a, b) ==
    /\ W \in [Node -> Nat]
    /\ \A m \in Node : W[m] = V[Swap(a, b, m)] /\ I[m] = H[Swap(a, b, m)]
    /\ \A m \in Node, u \in Sides : K[u][m] = SwapKids(C, a, b)[u][m]

LEMMA SwappedFits ==
    ASSUME NEW C, C \in Links, NEW H, NEW V, NEW p, NEW v \in Sides, NEW w,
           Fits(C, H, V, p, v, w), NEW a \in Node, NEW b \in Node,
           NEW K, NEW I, NEW W, Traded(C, H, V, K, I, W, a, b)
    PROVE  /\ Fits(K, I, W, Swap(a, b, p), v, w)
           /\ \A q \in Pointer : Tall(W, Swap(a, b, q)) = Tall(V, q)
<1> DEFINE S(q) == Swap(a, b, q)
<1>1. /\ \A q : S(S(q)) = q
      /\ \A q : S(q) = NULL <=> q = NULL
      /\ \A m \in Node : S(m) \in Node
      /\ \A q \in Pointer : S(q) \in Pointer
    BY SwapFact
<1>2. \A m \in Node, u \in Sides : K[u][m] = S(C[u][S(m)])
    BY DEF SwapKids, Traded
<1>3. V \in [Node -> Nat] /\ w \in Nat
    BY DEF Fits
<1>4. W \in [Node -> Nat] /\ \A m \in Node : W[m] = V[S(m)] /\ I[m] = H[S(m)]
    BY DEF Traded
<1> HIDE DEF S
<1>5. ASSUME NEW q \in Pointer
      PROVE  Tall(W, S(q)) = Tall(V, q)
    BY <1>1, <1>4, NodeFact DEF Tall
<1>6. ASSUME NEW n \in Node
      PROVE  \E s \in Sides : PoisedAt(K, I, W, n, s, S(p), v, w)
    <2>1. PICK s \in Sides : s = "left"
        BY SidesFact
    <2>2. Other(s) \in Sides /\ S(n) \in Node /\ (n = S(p) <=> S(n) = p)
        BY <1>1, SidesFact
    <2>3. PoisedAt(C, H, V, S(n), s, p, v, w)
        BY <2>2 DEF Fits
    <2>4. ASSUME NEW e \in Sides
          PROVE  Seen(K, W, n, e, S(p), v, w) = Seen(C, V, S(n), e, p, v, w)
        <3>1. C[e][S(n)] \in Pointer
            BY <2>2 DEF Links
        <3>2. Tall(W, K[e][n]) = Tall(V, C[e][S(n)])
            BY <1>2, <1>5, <3>1
        <3> QED BY <2>2, <3>2 DEF Seen
    <2>5. PoisedAt(K, I, W, n, s, S(p), v, w)
        BY <1>4, <2>2, <2>3, <2>4 DEF PoisedAt
    <2> QED BY <2>5
<1>7. Fits(K, I, W, S(p), v, w)
    BY <1>3, <1>4, <1>6, FitsIs
<1> QED BY <1>5, <1>7 DEF S

LEMMA SwappedExact ==
    ASSUME NEW C, C \in Links, NEW H, NEW V, Exact(C, H, V),
           NEW a \in Node, NEW b \in Node,
           NEW K, NEW I, NEW W, Traded(C, H, V, K, I, W, a, b)
    PROVE  Exact(K, I, W)
<1>1. "left" \in Sides /\ Fits(C, H, V, NULL, "left", 0)
    BY SidesFact DEF Exact
<1>2. Fits(K, I, W, Swap(a, b, NULL), "left", 0)
    BY <1>1, SwappedFits
<1>3. Swap(a, b, NULL) = NULL
    BY SwapFact
<1> QED BY <1>2, <1>3 DEF Exact

LEMMA InsertsOver ==
    ASSUME NEW t, NEW P, NEW B, NEW N, Fine(t, P, B, N),
           NEW n \in Node, n \notin N, Free(P, B, n),
           NEW old, old = find(t, KeyOf[n]), old # NULL, Free(P, B, old),
           NEW l, l = AVLInsert(t, n)
    PROVE  Fine(l, P, B, (N \ {old}) \cup {n})
<1> DEFINE S(q) == Swap(old, n, q)
<1>1. PICK D, V : Kept(t, D, P, B, N) /\ Exact(Kids(t), t.heavy, V)
    BY DEF Fine
<1>2. /\ Standing(t, D) /\ NodesOf(t) = N /\ Single(t.parent, D, n)
      /\ \A m \in Node : Counts(t, D, m)
    BY <1>1, KeptStands
<1>3. Grove(t, D) /\ Forest(Kids(t), t.parent, D) /\ Typed(t) /\ KeyOf[n] \in Nat
    BY <1>2, NodeFact DEF Standing, Grove
<1>4. old \in Node /\ old \in N /\ old # n
    BY <1>2, <1>3, PlaceOver
<1>5. t.root \in Node /\ N = D[t.root] /\ t.parent[t.root] = NULL
    BY <1>2, <1>3, <1>4, NodesOfFact DEF Standing
<1>6. PICK b : b = BSTInsert(t, n)
    OBVIOUS
<1>7. PICK k : k = b.tree
    OBVIOUS
<1>8. PICK E : E = SwapTrees(D, old, n)
    OBVIOUS
<1>9. /\ b.replaced = old
      /\ Grove(k, E) /\ k.root = S(t.root)
      /\ \A m \in Node, u \in Sides : k[u][m] = SwapKids(Kids(t), old, n)[u][m]
      /\ \A m \in Node : k.parent[m] = S(t.parent[S(m)])
      /\ \A m \in Node : k.heavy[m] = IF m = old THEN "none" ELSE t.heavy[m]
      /\ k.size[old] = 1
      /\ \A m \in Node \ {old} : Counts(t, D, S(m)) => Counts(k, E, m)
    BY <1>2, <1>4, <1>6, <1>7, <1>8, InsertOver
<1>10. \A m \in Node : E[m] = {x \in Node : S(x) \in D[S(m)]}
    BY <1>8 DEF SwapTrees
<1>11. /\ S(old) = n /\ S(n) = old
       /\ \A q : q # old /\ q # n => S(q) = q
       /\ \A q : S(S(q)) = q
       /\ \A q : S(q) = NULL <=> q = NULL
       /\ \A m \in Node : S(m) \in Node
    BY <1>4, SwapFact
<1>12. PICK q : q = [k EXCEPT !.heavy[n] = t.heavy[old]]
    OBVIOUS
<1>13. t.heavy[old] \in Sides \cup {"none"} /\ Typed(k)
    BY <1>3, <1>4, <1>9, TypedFields DEF Grove
<1>14. OneFlag(q, k, n, t.heavy[old])
    BY <1>12, <1>13, SetFlagFact
<1>15. V[n] = 1 /\ t.heavy[n] = "none"
    BY <1>1, <1>2, <1>3, SingleExact
<1>16. SameShape(q, k) /\ \A m \in Node : q.heavy[m] = t.heavy[S(m)]
    BY <1>4, <1>9, <1>11, <1>14, <1>15 DEF OneFlag
<1>17. PICK W : W = [m \in Node |-> V[Swap(old, n, m)]]
    OBVIOUS
<1>18. Exact(Kids(q), q.heavy, W)
    <2>1. Kids(t) \in Links
        BY <1>3, KidsFact
    <2>2. ASSUME NEW m \in Node, NEW u \in Sides
          PROVE  Kids(q)[u][m] = SwapKids(Kids(t), old, n)[u][m]
        <3>1. Kids(q) = Kids(k) /\ Kids(k)[u] = k[u]
            BY <1>13, <1>16, SameShapeFact, KidsFact
        <3> QED BY <1>9, <3>1
    <2>3. PICK C, H, K, I : C = Kids(t) /\ H = t.heavy /\ K = Kids(q) /\ I = q.heavy
        OBVIOUS
    <2>4. C \in Links /\ Exact(C, H, V) /\ n \in Node /\ old \in Node
        BY <1>1, <1>4, <2>1, <2>3
    <2>5. \A m \in Node, u \in Sides : K[u][m] = SwapKids(C, old, n)[u][m]
        BY <2>2, <2>3
    <2>6. \A m \in Node : I[m] = H[Swap(old, n, m)]
        BY <1>16, <2>3
    <2>7. V \in [Node -> Nat] /\ \A m \in Node : Swap(old, n, m) \in Node
        BY <1>1, <1>11 DEF Exact, Fits
    <2>8. W \in [Node -> Nat] /\ \A m \in Node : W[m] = V[Swap(old, n, m)]
        BY <1>17, <2>7
    <2>9. Traded(C, H, V, K, I, W, old, n)
        BY <2>5, <2>6, <2>8 DEF Traded
    <2>10. Exact(K, I, W)
        BY <2>4, <2>9, SwappedExact
    <2> QED BY <2>3, <2>10
<1> HIDE DEF S
<1> DEFINE M == (N \ {old}) \cup {n}
<1>19. Kept(k, E, P, B, M)
    <2>1. \A x \in Node : x \in M <=> S(x) \in N
        BY <1>4, <1>11
    <2>2. N \subseteq Node
        BY <1>1, KeptFact
    <2>3. M = At(E, k.root)
        <3>1. k.root \in Node /\ k.root # NULL /\ S(k.root) = t.root
            BY <1>5, <1>9, <1>11, NodeFact
        <3>2. At(E, k.root) = {x \in Node : S(x) \in N}
            BY <1>5, <1>10, <3>1 DEF At
        <3>3. M \subseteq Node
            BY <2>2
        <3> HIDE DEF M
        <3> QED BY <2>1, <3>2, <3>3
    <2>4. k.root # NULL => k.parent[k.root] = NULL
        BY <1>5, <1>9, <1>11
    <2>5. \A m \in Node : Counts(k, E, m)
        <3>1. ASSUME NEW m \in Node, m # old PROVE Counts(k, E, m)
            BY <1>2, <1>9, <1>11, <3>1
        <3>2. Counts(k, E, old)
            <4>1. D[n] = {n}
                BY <1>2 DEF Single
            <4>2. E[old] = {x \in Node : S(x) = n}
                BY <1>4, <1>10, <1>11, <4>1
            <4>3. E[old] = {old}
                BY <1>4, <1>11, <4>2
            <4> QED BY <1>9, <4>3, FS_Singleton DEF Counts
        <3> QED BY <3>1, <3>2
    <2>6. ASSUME NEW m \in Node \ M PROVE k.parent[m] = P[m] /\ E[m] = B[m]
        <3>1. CASE m = old
            <4>1. k.parent[m] = NULL
                BY <1>2, <1>9, <1>11, <3>1 DEF Single
            <4>2. D[n] = {n}
                BY <1>2 DEF Single
            <4>3. E[old] = {x \in Node : S(x) = n}
                BY <1>4, <1>10, <1>11, <4>2
            <4>4. E[old] = {old}
                BY <1>4, <1>11, <4>3
            <4> QED BY <3>1, <4>1, <4>4 DEF Free
        <3>2. CASE m # old
            <4>1. m # n /\ m \notin N /\ m \in Node /\ S(m) = m
                BY <1>11, <2>6, <3>2
            <4>2. t.parent[m] = P[m] /\ D[m] = B[m]
                BY <1>1, <4>1 DEF Kept
            <4>3. old \notin D[m]
                BY <1>3, <1>4, <1>5, <4>1, SameTree
            <4>4. n \notin D[m] /\ t.parent[m] # n
                BY <1>2, <1>3, <4>1, SingleFact
            <4>5. t.parent[m] # old
                <5>1. D[old] \subseteq N
                    BY <1>1, <1>4, KeptFact
                <5>2. t.parent[m] # NULL => m \in D[t.parent[m]]
                    BY <1>3, <4>1, ParentFact
                <5> QED BY <1>4, <4>1, <5>1, <5>2, NodeFact
            <4>6. k.parent[m] = t.parent[m]
                BY <1>9, <1>11, <4>1, <4>4, <4>5
            <4>7. E[m] = D[m]
                <5>1. E[m] = {x \in Node : S(x) \in D[m]} /\ D[m] \subseteq Node
                    BY <1>3, <1>10, <4>1, ForestTyped
                <5>2. \A x \in Node : S(x) \in D[m] <=> x \in D[m]
                    BY <1>11, <4>3, <4>4
                <5> QED BY <5>1, <5>2
            <4> QED BY <4>2, <4>6, <4>7
        <3> QED BY <3>1, <3>2
    <2> HIDE DEF M
    <2> QED BY <1>9, <2>3, <2>4, <2>5, <2>6, KeptIs
<1> HIDE DEF M
<1>20. Kept(q, E, P, B, M)
    BY <1>16, <1>19, KeptShape
<1>21. l = q
    BY <1>6, <1>7, <1>9, <1>12 DEF AVLInsert
<1> QED BY <1>18, <1>20, <1>21 DEF Fine, M

Without(N, k) == {m \in N : KeyOf[m] # k}

(* insert adds n, in the place of the node with its key if there is one.   *)
LEMMA FineInsert ==
    ASSUME NEW t, NEW P, NEW B, NEW N, Fine(t, P, B, N),
           NEW n \in Node, n \notin N, \A m \in N \cup {n} : Free(P, B, m),
           NEW l, l = AVLInsert(t, n)
    PROVE  Fine(l, P, B, Without(N, KeyOf[n]) \cup {n})
<1>1. PICK D : Kept(t, D, P, B, N)
    BY DEF Fine
<1>2. Standing(t, D) /\ NodesOf(t) = N /\ KeyOf[n] \in Nat
    BY <1>1, KeptStands, NodeFact
<1>3. CASE find(t, KeyOf[n]) # NULL
    <2>1. PICK old : old = find(t, KeyOf[n])
        OBVIOUS
    <2>2. old \in N /\ KeyOf[old] = KeyOf[n]
        BY <1>2, <1>3, <2>1, PlaceOver
    <2>3. Fine(l, P, B, (N \ {old}) \cup {n})
        BY <1>3, <2>1, <2>2, InsertsOver
    <2>4. \A a, b \in N : KeyOf[a] = KeyOf[b] => a = b
        BY <1>2, NodesOfFact DEF Standing
    <2>5. N \ {old} = Without(N, KeyOf[n])
        BY <2>2, <2>4 DEF Without
    <2> QED BY <2>3, <2>5
<1>4. CASE find(t, KeyOf[n]) = NULL
    <2>1. Without(N, KeyOf[n]) = N
        <3>1. \A y \in N : KeyOf[y] # KeyOf[n]
            <4>1. PICK k \in Nat : k = KeyOf[n]
                BY <1>2
            <4>2. find(t, k) = NULL /\ find(t, k) \notin NodesOf(t)
                <5>1. NodesOf(t) \subseteq Node
                    BY <1>1, <1>2, KeptFact
                <5> QED BY <1>4, <4>1, <5>1, NodeFact
            <4>3. CASE t.root = NULL
                BY <1>1, <4>3 DEF Kept, At
            <4>4. CASE t.root # NULL
                <5>1. \A y \in NodesOf(t) : KeyOf[y] # k
                    BY <1>2, <4>2, <4>4, SeekFact
                <5> QED BY <1>2, <4>1, <5>1
            <4> QED BY <4>3, <4>4
        <3> QED BY <3>1 DEF Without
    <2>2. Free(P, B, n)
        OBVIOUS
    <2>3. Fine(l, P, B, N \cup {n})
        BY <1>4, <2>2, InsertsLeaf, InsertsFirst
    <2> QED BY <2>1, <2>3
<1> QED BY <1>3, <1>4

-----------------------------------------------------------------------------
(* remove.  To cut a node with one child at most takes a level from what   *)
(* hangs below its parent g.                                               *)

CutAs(C, H, V, K, I, W, n, c) ==
    /\ W \in [Node -> Nat]
    /\ \A m \in Node : /\ W[m] = IF m = n THEN 1 ELSE V[m]
                       /\ I[m] = IF m = n THEN "none" ELSE H[m]
    /\ \A m \in Node, u \in Sides : K[u][m] = CutKids(C, n, c)[u][m]

LEMMA CutFits ==
    ASSUME NEW C, NEW P, NEW D, Forest(C, P, D), NEW H, NEW V, Exact(C, H, V),
           NEW n \in Node, NEW a \in Sides, C[a][n] = NULL, NEW c, c = C[Other(a)][n],
           NEW g, g = P[n], NEW up \in Sides, g # NULL => C[up][g] = n,
           NEW K, NEW I, NEW W, CutAs(C, H, V, K, I, W, n, c)
    PROVE  Fits(K, I, W, g, up, V[n]) /\ V[n] = Tall(W, c) + 1
<1>1. /\ \A m \in Node, u \in Sides :
             K[u][m] = IF m = n THEN NULL ELSE IF C[u][m] = n THEN c ELSE C[u][m]
      /\ \A m \in Node : /\ W[m] = IF m = n THEN 1 ELSE V[m]
                         /\ I[m] = IF m = n THEN "none" ELSE H[m]
    BY DEF CutAs, CutKids
<1>2. W \in [Node -> Nat] /\ V \in [Node -> Nat]
    BY DEF CutAs, Exact, Fits
<1>3. Other(a) \in Sides /\ Other(Other(a)) = a
    BY SidesFact
<1>4. c \in Pointer /\ c # n
    BY <1>3, ForestTyped, SubtreeFact, NodeFact
<1>5. Tall(W, c) = Tall(V, c) /\ Tall(V, c) \in Nat
    BY <1>1, <1>2, <1>4, NodeFact, TallFact DEF Tall
<1>6. V[n] = Tall(V, c) + 1
    <2>1. Poised(V[n], H[n], a, Tall(V, C[a][n]), Tall(V, C[Other(a)][n]))
        BY ExactAt
    <2>2. Tall(V, C[a][n]) = 0
        BY DEF Tall
    <2>3. PICK d : d = Tall(V, c)
        OBVIOUS
    <2>4. Poised(V[n], H[n], a, 0, d) /\ d \in Nat
        BY <1>5, <2>1, <2>2, <2>3
    <2>5. V[n] = d + 1
        BY <2>4 DEF Poised
    <2> QED BY <2>3, <2>5
<1>7. \A m \in Node, u \in Sides : C[u][m] = n <=> u = up /\ m = g
    BY HangsFact
<1>8. ASSUME NEW m \in Node
      PROVE  \E s \in Sides : PoisedAt(K, I, W, m, s, g, up, V[n])
    <2>1. PICK s \in Sides : s = "left"
        BY SidesFact
    <2>2. Other(s) \in Sides
        BY SidesFact
    <2>3. CASE m = n
        <3>1. K[s][m] = NULL /\ K[Other(s)][m] = NULL /\ W[m] = 1 /\ I[m] = "none"
            BY <1>1, <2>2, <2>3
        <3>2. m # g
            <4>1. \A u \in Sides : C[u][n] # n
                <5>1. \A u \in Sides : C[u][n] # NULL => C[u][n] # n
                    BY SubtreeFact
                <5> QED BY <5>1, NodeFact
            <4> QED BY <1>7, <2>3, <4>1
        <3>3. Seen(K, W, m, s, g, up, V[n]) = 0 /\ Seen(K, W, m, Other(s), g, up, V[n]) = 0
            BY <3>1, <3>2 DEF Seen, Tall
        <3>4. Poised(1, "none", s, 0, 0)
            BY DEF Poised
        <3> QED BY <3>1, <3>3, <3>4 DEF PoisedAt
    <2>4. CASE m # n
        <3>1. Poised(V[m], H[m], s, Tall(V, C[s][m]), Tall(V, C[Other(s)][m]))
            BY ExactAt
        <3>2. ASSUME NEW u \in Sides
              PROVE  Seen(K, W, m, u, g, up, V[n]) = Tall(V, C[u][m])
            <4>1. CASE C[u][m] = n
                <5>1. Seen(K, W, m, u, g, up, V[n]) = V[n]
                    BY <1>7, <4>1 DEF Seen
                <5> QED BY <4>1, <5>1, NodeFact DEF Tall
            <4>2. CASE C[u][m] # n
                <5>1. Seen(K, W, m, u, g, up, V[n]) = Tall(W, K[u][m])
                    BY <1>7, <4>2 DEF Seen
                <5>2. K[u][m] = C[u][m] /\ C[u][m] \in Pointer
                    BY <1>1, <2>4, <4>2, ForestTyped
                <5>3. Tall(W, C[u][m]) = Tall(V, C[u][m])
                    BY <1>1, <4>2, <5>2, NodeFact DEF Tall
                <5> QED BY <5>1, <5>2, <5>3
            <4> QED BY <4>1, <4>2
        <3>3. W[m] = V[m] /\ I[m] = H[m]
            BY <1>1, <2>4
        <3>4. PoisedAt(K, I, W, m, s, g, up, V[n])
            BY <2>2, <3>1, <3>2, <3>3 DEF PoisedAt
        <3> QED BY <3>4
    <2> QED BY <2>3, <2>4
<1>9. V[n] \in Nat
    BY <1>2
<1>10. Fits(K, I, W, g, up, V[n])
    BY <1>2, <1>8, <1>9, FitsIs
<1> QED BY <1>5, <1>6, <1>10

(* Where the loop of remove begins.                                        *)
LEMMA ShrunkFrom ==
    ASSUME NEW t, NEW D, NEW P, NEW B, NEW N, Kept(t, D, P, B, N),
           NEW V, NEW g, g = NULL \/ g \in N, NEW up \in Sides, NEW w,
           Fits(Kids(t), t.heavy, V, g, up, w),
           g # NULL => w = Tall(V, t[up][g]) + 1,
           NEW l, l = Shrunk(t, g, up)
    PROVE  Fine(l, P, B, N)
<1>1. PICK c : c = Going(t, g, up)
    OBVIOUS
<1>2. CASE g = NULL
    <2>1. Exact(Kids(t), t.heavy, V)
        BY <1>2, NodeFact, ExactFact
    <2> QED BY <1>1, <1>2, <2>1, ShrunkEnd, ShrunkFact DEF Shrunk, Fine
<1>3. CASE g # NULL
    <2>1. ShrinksAt(t, V, g, up, w, N)
        BY <1>3 DEF ShrinksAt
    <2>2. c \in ShrunkIn(P, B, N)
        BY <1>1, <2>1, ShrunkGoes
    <2> QED BY <1>1, <2>2, ShrunkFact DEF Shrunk, Fine
<1> QED BY <1>2, <1>3

LEMMA RemovesOuter ==
    ASSUME NEW t, NEW P, NEW B, NEW N, Fine(t, P, B, N), NEW n \in N, Free(P, B, n),
           t.left[n] = NULL \/ t.right[n] = NULL,
           NEW l, l = AVLRemove(t, n)
    PROVE  Fine(l, P, B, N \ {n})
<1>1. PICK D, V : Kept(t, D, P, B, N) /\ Exact(Kids(t), t.heavy, V)
    BY DEF Fine
<1>2. Standing(t, D) /\ NodesOf(t) = N /\ \A m \in Node : Counts(t, D, m)
    BY <1>1, KeptStands
<1>3. PICK C, Q : C = Kids(t) /\ Q = t.parent
    OBVIOUS
<1>4. /\ Grove(t, D) /\ Typed(t) /\ Forest(C, Q, D)
      /\ \A m \in Node, u \in Sides : C[u][m] = t[u][m]
      /\ N \subseteq Node /\ n \in Node /\ n # NULL
      /\ D[n] \subseteq N
    BY <1>1, <1>3, KeptFact, NodeFact DEF Kept
<1>5. t.root \in Node /\ t.root # NULL /\ N = D[t.root] /\ Q[t.root] = NULL
    BY <1>1, <1>2, <1>3, <1>4, KeptFact, NodeFact, NodesOfFact DEF Standing
<1>6. PICK a \in Sides : t[a][n] = NULL
    BY SidesFact
<1>7. PICK c : c = t[Other(a)][n]
    OBVIOUS
<1>8. PICK E : E = CutTrees(D, n)
    OBVIOUS
<1>9. PICK k : k = Blanked(BSTRemoveOuter(t, n).tree, n)
    OBVIOUS
<1>10. /\ Grove(k, E)
       /\ k.root = IF Q[n] = NULL THEN c ELSE t.root
       /\ \A m \in Node, u \in Sides : k[u][m] = CutKids(C, n, c)[u][m]
       /\ k.parent = CutParents(Q, n, c)
       /\ \A m \in Node : k.heavy[m] = IF m = n THEN "none" ELSE t.heavy[m]
       /\ k.size[n] = 1
       /\ \A m \in Node \ {n} : Counts(t, D, m) => Counts(k, E, m)
    BY <1>2, <1>3, <1>4, <1>6, <1>7, <1>8, <1>9, RemoveOuter
<1>11. /\ \A m \in Node : k.parent[m] = IF m = n THEN NULL ELSE IF m = c THEN Q[n] ELSE Q[m]
       /\ \A m \in Node : E[m] = IF m = n THEN {n} ELSE D[m] \ {n}
    BY <1>8, <1>10 DEF CutParents, CutTrees
<1>12. C[a][n] = NULL /\ c = C[Other(a)][n] /\ Other(a) \in Sides
    BY <1>4, <1>6, <1>7, SidesFact
<1>13. /\ c \in Pointer
       /\ c # NULL => /\ c \in Node /\ c # n /\ Q[c] = n /\ c \in D[n]
       /\ D[n] = {n} \cup At(D, c)
       /\ n \notin At(D, c)
    <2>1. c \in Pointer /\ (c # NULL => c \in Node /\ c # n /\ c \in D[n] /\ n \notin D[c])
        BY <1>4, <1>12, ForestTyped, SubtreeFact
    <2>2. c # NULL => Q[c] = n
        BY <1>4, <1>12 DEF Forest
    <2>3. D[n] = {n} \cup At(D, C[a][n]) \cup At(D, c)
        BY <1>4, <1>12, ForestAt
    <2>4. D[n] = {n} \cup At(D, c)
        BY <1>12, <2>3 DEF At
    <2> QED BY <2>1, <2>2, <2>4 DEF At
<1>14. Q[n] = NULL <=> t.root = n
    BY <1>4, <1>5, AboveRoot
<1> DEFINE M == N \ {n}
<1>15. Kept(k, E, P, B, M)
    <2>1. M = At(E, k.root)
        <3>1. CASE Q[n] = NULL
            <4>1. k.root = c /\ N = {n} \cup At(D, c)
                BY <1>5, <1>10, <1>13, <1>14, <3>1
            <4>2. At(E, c) = At(D, c)
                <5>1. c # NULL => E[c] = D[c] \ {n}
                    BY <1>11, <1>13
                <5> QED BY <1>13, <5>1 DEF At
            <4> QED BY <1>13, <4>1, <4>2
        <3>2. CASE Q[n] # NULL
            <4>1. k.root = t.root /\ E[t.root] = D[t.root] \ {n}
                BY <1>5, <1>10, <1>11, <1>14, <3>2
            <4> QED BY <1>5, <4>1 DEF At
        <3> QED BY <3>1, <3>2
    <2>2. k.root # NULL => k.parent[k.root] = NULL
        <3>1. CASE Q[n] = NULL
            BY <1>10, <1>11, <1>13, <3>1
        <3>2. CASE Q[n] # NULL
            BY <1>5, <1>10, <1>11, <1>13, <1>14, <1>4, <3>2
        <3> QED BY <3>1, <3>2
    <2>3. \A m \in Node : Counts(k, E, m)
        <3>1. Counts(k, E, n)
            <4>1. E[n] = {n} /\ k.size[n] = 1
                BY <1>4, <1>10, <1>11
            <4>2. Cardinality({n}) = 1
                BY FS_Singleton
            <4> QED BY <4>1, <4>2 DEF Counts
        <3> QED BY <1>2, <1>10, <3>1
    <2>4. ASSUME NEW m \in Node \ M
          PROVE  k.parent[m] = P[m] /\ E[m] = B[m]
        <3>1. CASE m = n
            BY <1>4, <1>11, <3>1 DEF Free
        <3>2. CASE m # n
            <4>1. m \notin N /\ m # c /\ m \in Node
                BY <1>4, <1>13, <2>4, <3>2, NodeFact
            <4>2. Q[m] = P[m] /\ D[m] = B[m]
                BY <1>1, <1>3, <4>1 DEF Kept
            <4>3. n \notin D[m]
                BY <1>4, <1>5, <4>1, SameTree
            <4> QED BY <1>11, <3>2, <4>1, <4>2, <4>3
        <3> QED BY <3>1, <3>2
    <2> HIDE DEF M
    <2> QED BY <1>10, <2>1, <2>2, <2>3, <2>4, KeptIs
<1>16. PICK g : g = Q[n]
    OBVIOUS
<1>17. PICK up : up = SideOf(t, g, n)
    OBVIOUS
<1>18. up \in Sides /\ (g # NULL => t[up][g] = n)
    BY <1>3, <1>4, <1>16, <1>17, SideOfFact
<1>19. g = NULL \/ g \in M
    <2>1. g # NULL => g \in Node /\ g # n
        BY <1>4, <1>16, ParentFact
    <2>2. g # NULL => g \in N
        BY <1>1, <1>3, <1>16, KeptFact
    <2> QED BY <2>1, <2>2
<1>20. PICK W : W = [m \in Node |-> IF m = n THEN 1 ELSE V[m]]
    OBVIOUS
<1>21. CutAs(C, t.heavy, V, Kids(k), k.heavy, W, n, c)
    <2>1. V \in [Node -> Nat]
        BY <1>1 DEF Exact, Fits
    <2>2. \A m \in Node, u \in Sides : Kids(k)[u][m] = k[u][m]
        BY <1>15, KeptFact
    <2> QED BY <1>10, <1>20, <2>1, <2>2 DEF CutAs
<1>22. Fits(Kids(k), k.heavy, W, g, up, V[n]) /\ V[n] = Tall(W, c) + 1
    <2>1. g # NULL => C[up][g] = n
        BY <1>4, <1>18, <1>19
    <2>2. Exact(C, t.heavy, V)
        BY <1>1, <1>3
    <2> QED BY <1>4, <1>12, <1>16, <1>18, <1>21, <2>1, <2>2, CutFits
<1>23. g # NULL => V[n] = Tall(W, k[up][g]) + 1
    <2>1. ASSUME g # NULL PROVE k[up][g] = c
        <3>1. g \in Node /\ g # n /\ C[up][g] = n
            BY <1>4, <1>18, <1>19, <2>1
        <3> QED BY <1>10, <1>18, <3>1 DEF CutKids
    <2> QED BY <1>22, <2>1
<1>24. l = Shrunk(k, g, up)
    BY <1>3, <1>9, <1>16, <1>17 DEF AVLRemove, BSTRemove, BSTRemoveOuter, Removal
<1> HIDE DEF M
<1>25. Fine(l, P, B, M)
    BY <1>15, <1>18, <1>19, <1>22, <1>23, <1>24, ShrunkFrom
<1> QED BY <1>25 DEF M

(* What inner removal makes of the flags: the successor's are n's.         *)
LEMMA Reheaded ==
    ASSUME NEW b, Typed(b), NEW n \in Node, NEW s \in Node, s # n,
           NEW f \in Sides \cup {"none"},
           NEW k, k = Blanked(b, n),
           NEW q, q = Blanked([b EXCEPT !.heavy[s] = f], n)
    PROVE  OneFlag(q, k, s, f)
<1>1. PICK e : e = [b EXCEPT !.heavy[s] = f]
    OBVIOUS
<1>2. OneFlag(e, b, s, f)
    BY <1>1, SetFlagFact
<1>3. Typed(e) /\ q = Blanked(e, n)
    BY <1>1, <1>2 DEF OneFlag, SameShape
<1>4. Loosed(k, b, n) /\ Loosed(q, e, n)
    BY <1>3, BlankedFact
<1>5. \A m \in Node : q.heavy[m] = IF m = s THEN f ELSE k.heavy[m]
    BY <1>2, <1>4 DEF OneFlag, Loosed
<1>6. \A u \in Sides : e[u] = b[u]
    BY <1>2, SameShapeFact DEF OneFlag
<1>7. Typed(k) /\ Typed(q) /\ "left" \in Sides /\ "right" \in Sides
    BY <1>4, SidesFact DEF Loosed
<1>8. q.root = k.root
    BY <1>2, <1>4 DEF OneFlag, SameShape, Loosed
<1>9. q.left = k.left /\ q.right = k.right
    <2>1. \A m \in Node, u \in Sides : q[u][m] = k[u][m]
        BY <1>4, <1>6 DEF Loosed
    <2>2. \A m \in Node : q.left[m] = k.left[m] /\ q.right[m] = k.right[m]
        BY <1>7, <2>1
    <2> QED BY <1>7, <2>2, TypedFields
<1>10. q.parent = k.parent
    <2>1. \A m \in Node : q.parent[m] = k.parent[m]
        BY <1>2, <1>4 DEF OneFlag, SameShape, Loosed
    <2> QED BY <1>7, <2>1, TypedFields
<1>11. q.size = k.size
    <2>1. \A m \in Node : q.size[m] = k.size[m]
        BY <1>2, <1>4 DEF OneFlag, SameShape, Loosed
    <2> QED BY <1>7, <2>1, TypedFields
<1>12. SameShape(q, k)
    BY <1>7, <1>8, <1>9, <1>10, <1>11 DEF SameShape
<1> QED BY <1>5, <1>12 DEF OneFlag

(* The forest with the successor s cut, and then in the place of n.        *)
InnerAs(C, H, K, I, n, s, c) ==
    /\ \A m \in Node, u \in Sides : K[u][m] = InnerKids(C, n, s, c)[u][m]
    /\ \A m \in Node : I[m] = IF m = n THEN "none" ELSE IF m = s THEN H[n] ELSE H[m]

LEMMA InnerFits ==
    ASSUME NEW C, NEW P, NEW D, Forest(C, P, D), NEW H, NEW V, Exact(C, H, V),
           NEW n \in Node, NEW s \in Node, s # n, C["left"][s] = NULL,
           NEW c, c = C["right"][s], NEW q \in Node, q = P[s],
           NEW up \in Sides, C[up][q] = s,
           NEW K, NEW I, InnerAs(C, H, K, I, n, s, c),
           NEW x, x = Swap(n, s, q)
    PROVE  \E W : Fits(K, I, W, x, up, V[s]) /\ V[s] = Tall(W, K[up][x]) + 1
<1>1. /\ "left" \in Sides /\ "right" \in Sides /\ "left" # "right" /\ Other("left") = "right"
      /\ q # NULL
    BY SidesFact, NodeFact
<1>2. PICK K1 : K1 = CutKids(C, s, c)
    OBVIOUS
<1>3. PICK I1 : I1 = [m \in Node |-> IF m = s THEN "none" ELSE H[m]]
    OBVIOUS
<1>4. PICK W1 : W1 = [m \in Node |-> IF m = s THEN 1 ELSE V[m]]
    OBVIOUS
<1>5. V \in [Node -> Nat]
    BY DEF Exact, Fits
<1>6. CutAs(C, H, V, K1, I1, W1, s, c)
    BY <1>2, <1>3, <1>4, <1>5 DEF CutAs
<1>7. Fits(K1, I1, W1, q, up, V[s]) /\ V[s] = Tall(W1, c) + 1
    BY <1>1, <1>6, CutFits
<1>8. K1 \in Links
    <2>1. Forest(CutKids(C, s, c), CutParents(P, s, c), CutTrees(D, s))
        BY <1>1, Cut
    <2> QED BY <1>2, <2>1 DEF Forest
<1>9. /\ Swap(n, s, n) = s /\ Swap(n, s, s) = n
      /\ \A y : y # n /\ y # s => Swap(n, s, y) = y
      /\ \A m \in Node : Swap(n, s, m) \in Node
      /\ \A y : Swap(n, s, Swap(n, s, y)) = y
    <2>1. n \in Node /\ s \in Node
        OBVIOUS
    <2>2. Swap(n, s, n) = s /\ Swap(n, s, s) = n
        BY DEF Swap
    <2>3. \A y : y # n /\ y # s => Swap(n, s, y) = y
        BY DEF Swap
    <2>4. \A m \in Node : Swap(n, s, m) \in Node
        BY <2>1 DEF Swap
    <2>5. \A y : Swap(n, s, Swap(n, s, y)) = y
        BY DEF Swap
    <2> QED BY <2>2, <2>3, <2>4, <2>5
<1>10. PICK W : W = [m \in Node |-> W1[Swap(n, s, m)]]
    OBVIOUS
<1>11. Traded(K1, I1, W1, K, I, W, n, s)
    <2>1. W1 \in [Node -> Nat]
        BY <1>4, <1>5
    <2>2. W \in [Node -> Nat] /\ \A m \in Node : W[m] = W1[Swap(n, s, m)]
        BY <1>9, <1>10, <2>1
    <2>3. \A m \in Node : I[m] = I1[Swap(n, s, m)]
        BY <1>3, <1>9 DEF InnerAs
    <2>4. \A m \in Node, u \in Sides : K[u][m] = SwapKids(K1, n, s)[u][m]
        BY <1>2 DEF InnerKids, InnerAs
    <2> QED BY <2>2, <2>3, <2>4 DEF Traded
<1>12. /\ Fits(K, I, W, Swap(n, s, q), up, V[s])
       /\ \A y \in Pointer : Tall(W, Swap(n, s, y)) = Tall(W1, y)
    BY <1>7, <1>8, <1>11, SwappedFits
<1>13. K[up][x] = Swap(n, s, c)
    <2>1. x \in Node /\ Swap(n, s, x) = q
        BY <1>9
    <2>2. K[up][x] = Swap(n, s, K1[up][q])
        BY <1>2, <2>1 DEF InnerKids, InnerAs, SwapKids
    <2>3. K1[up][q] = c
        <3>1. q # s
            BY <1>1, ParentFact
        <3> QED BY <1>2, <3>1 DEF CutKids
    <2> QED BY <2>2, <2>3
<1>14. c \in Pointer
    BY <1>1, ForestTyped
<1>15. V[s] = Tall(W, K[up][x]) + 1
    BY <1>7, <1>12, <1>13, <1>14
<1> QED BY <1>12, <1>15

LEMMA RemovesInner ==
    ASSUME NEW t, NEW P, NEW B, NEW N, Fine(t, P, B, N), NEW n \in N, Free(P, B, n),
           t.left[n] # NULL, t.right[n] # NULL,
           NEW l, l = AVLRemove(t, n)
    PROVE  Fine(l, P, B, N \ {n})
<1>1. PICK D, V : Kept(t, D, P, B, N) /\ Exact(Kids(t), t.heavy, V)
    BY DEF Fine
<1>2. Standing(t, D) /\ NodesOf(t) = N /\ \A m \in Node : Counts(t, D, m)
    BY <1>1, KeptStands
<1>3. PICK C, Q : C = Kids(t) /\ Q = t.parent
    OBVIOUS
<1>4. /\ Grove(t, D) /\ Typed(t) /\ Forest(C, Q, D)
      /\ \A m \in Node, u \in Sides : C[u][m] = t[u][m]
      /\ N \subseteq Node /\ n \in Node /\ n # NULL
      /\ D[n] \subseteq N
    BY <1>1, <1>3, KeptFact, NodeFact DEF Kept
<1>5. t.root \in Node /\ t.root # NULL /\ N = D[t.root] /\ Q[t.root] = NULL
    BY <1>1, <1>2, <1>3, <1>4, KeptFact, NodeFact, NodesOfFact DEF Standing
<1>6. PICK s : s = Neighbour(t, n, "right")
    OBVIOUS
<1>7. PICK c : c = t.right[s]
    OBVIOUS
<1>8. PICK E : E = InnerTrees(D, n, s)
    OBVIOUS
<1>9. PICK b : b = BSTRemoveInner(t, n)
    OBVIOUS
<1>10. PICK k : k = Blanked(b.tree, n)
    OBVIOUS
<1>11. /\ Inner(t, D, n, s, Q[s], c)
       /\ Typed(b.tree)
       /\ Grove(k, E)
       /\ k.root = IF Q[n] = NULL THEN s ELSE t.root
       /\ \A m \in Node, u \in Sides : k[u][m] = InnerKids(C, n, s, c)[u][m]
       /\ k.parent = InnerParents(Q, n, s, c)
       /\ \A m \in Node : k.heavy[m] = IF m = n THEN "none" ELSE t.heavy[m]
       /\ k.size[n] = 1
       /\ \A m \in Node \ {n} : Counts(t, D, Swap(n, s, m)) => Counts(k, E, m)
    BY <1>2, <1>3, <1>4, <1>6, <1>7, <1>8, <1>9, <1>10, RemoveInner
<1> DEFINE S(q) == Swap(n, s, q)
           F == CutTrees(D, s)
           G == CutParents(Q, s, c)
<1>12. /\ \A m \in Node : k.parent[m] = S(G[S(m)])
       /\ \A m \in Node : E[m] = {x \in Node : S(x) \in F[S(m)]}
       /\ \A m \in Node : G[m] = IF m = s THEN NULL ELSE IF m = c THEN Q[s] ELSE Q[m]
       /\ \A m \in Node : F[m] = IF m = s THEN {s} ELSE D[m] \ {s}
    BY <1>8, <1>11 DEF InnerParents, InnerTrees, SwapParents, SwapTrees, CutParents, CutTrees
<1>13. /\ s \in Node /\ s # n /\ s # NULL /\ Q[s] \in Node /\ Q[s] # NULL /\ Q[s] # s
       /\ s \in D[t.right[n]] /\ t.right[n] \in Node /\ t.left[s] = NULL
       /\ s = t.right[n] => Q[s] = n
       /\ s # t.right[n] => Q[s] # n /\ t.left[Q[s]] = s
    BY <1>11, NodeFact DEF Inner
<1> HIDE DEF F, G
<1>14. /\ S(n) = s /\ S(s) = n
       /\ \A q : q # n /\ q # s => S(q) = q
       /\ \A q : S(S(q)) = q
       /\ \A q : S(q) = NULL <=> q = NULL
       /\ \A m \in Node : S(m) \in Node
    <2>1. n \in Node /\ s \in Node
        BY <1>4, <1>13
    <2> QED BY <2>1, SwapFact
<1> HIDE DEF S
<1>15. /\ "right" \in Sides /\ "left" \in Sides /\ C["right"][n] = t.right[n]
       /\ C["right"][s] = c /\ C["left"][s] = NULL
    BY <1>4, <1>7, <1>13, SidesFact
<1>16. /\ s \in D[n] /\ s \in N
       /\ c # NULL => c \in Node /\ Q[c] = s /\ c \in N
    <2>1. s \in D[n] /\ s \in N
        BY <1>4, <1>13, <1>15, SubtreeFact, NodeFact
    <2>2. D[s] \subseteq N
        BY <1>1, <2>1, KeptFact
    <2>3. c # NULL => c \in Node /\ c \in D[s]
        BY <1>4, <1>13, <1>15, SubtreeFact
    <2>4. c # NULL => Q[c] = s
        BY <1>4, <1>13, <1>15 DEF Forest
    <2> QED BY <2>1, <2>2, <2>3, <2>4
<1>17. /\ Q[n] = NULL <=> t.root = n
       /\ t.root # s /\ t.root # c
    BY <1>4, <1>5, <1>13, <1>16, AboveRoot
<1>18. k.root = S(t.root) /\ k.root \in Node /\ k.root # NULL /\ S(k.root) = t.root
    BY <1>5, <1>11, <1>13, <1>14, <1>17
<1> DEFINE M == N \ {n}
<1>19. Kept(k, E, P, B, M)
    <2>1. \A x \in Node : x \in M <=> S(x) \in N /\ S(x) # s
        BY <1>13, <1>14, <1>16
    <2>2. M = At(E, k.root)
        <3>1. F[t.root] = N \ {s}
            BY <1>5, <1>12, <1>17
        <3>2. At(E, k.root) = {x \in Node : S(x) \in F[t.root]}
            BY <1>12, <1>18 DEF At
        <3>3. M \subseteq Node
            BY <1>4
        <3> HIDE DEF M
        <3> QED BY <2>1, <3>1, <3>2, <3>3
    <2>3. k.root # NULL => k.parent[k.root] = NULL
        <3>1. G[t.root] = NULL
            BY <1>5, <1>12, <1>17
        <3> QED BY <1>12, <1>14, <1>18, <3>1
    <2>4. E[n] = {n} /\ k.parent[n] = NULL
        <3>1. F[s] = {s} /\ G[s] = NULL
            BY <1>12, <1>13
        <3>2. E[n] = {x \in Node : S(x) = s}
            BY <1>4, <1>12, <1>14, <3>1
        <3>3. E[n] = {n}
            BY <1>4, <1>14, <3>2
        <3>4. k.parent[n] = NULL
            BY <1>4, <1>12, <1>14, <3>1
        <3> QED BY <3>3, <3>4
    <2>5. \A m \in Node : Counts(k, E, m)
        <3>1. Counts(k, E, n)
            <4>1. Cardinality({n}) = 1
                BY FS_Singleton
            <4> QED BY <1>11, <2>4, <4>1 DEF Counts
        <3>2. ASSUME NEW m \in Node, m # n PROVE Counts(k, E, m)
            <4>1. Counts(t, D, S(m))
                BY <1>2, <1>14
            <4> QED BY <1>11, <3>2, <4>1 DEF S
        <3> QED BY <3>1, <3>2
    <2>6. ASSUME NEW m \in Node \ M
          PROVE  k.parent[m] = P[m] /\ E[m] = B[m]
        <3>1. CASE m = n
            BY <2>4, <3>1 DEF Free
        <3>2. CASE m # n
            <4>1. m \notin N /\ m # s /\ m # c /\ m \in Node /\ S(m) = m
                BY <1>14, <1>16, <2>6, <3>2, NodeFact
            <4>2. Q[m] = P[m] /\ D[m] = B[m]
                BY <1>1, <1>3, <4>1 DEF Kept
            <4>3. n \notin D[m] /\ s \notin D[m]
                BY <1>4, <1>5, <1>13, <1>16, <4>1, SameTree
            <4>4. Q[m] # n /\ Q[m] # s
                <5>1. D[n] \subseteq N /\ D[s] \subseteq N
                    BY <1>1, <1>4, <1>16, KeptFact
                <5>2. Q[m] # NULL => m \in D[Q[m]]
                    BY <1>4, <4>1, ParentFact
                <5> QED BY <1>4, <1>13, <4>1, <5>1, <5>2
            <4>5. k.parent[m] = Q[m]
                BY <1>12, <1>14, <4>1, <4>4
            <4>6. E[m] = D[m]
                <5>1. F[m] = D[m] /\ D[m] \subseteq Node
                    <6>1. F[m] = D[m] \ {s}
                        BY <1>12, <4>1
                    <6>2. D[m] \subseteq Node
                        BY <1>4, <4>1, ForestTyped
                    <6> QED BY <4>3, <6>1, <6>2
                <5>2. E[m] = {x \in Node : S(x) \in D[m]}
                    BY <1>12, <4>1, <5>1
                <5>3. \A x \in Node : S(x) \in D[m] <=> x \in D[m]
                    BY <1>14, <4>3
                <5> QED BY <5>1, <5>2, <5>3
            <4> QED BY <4>2, <4>5, <4>6
        <3> QED BY <3>1, <3>2
    <2> HIDE DEF M
    <2> QED BY <1>11, <2>2, <2>3, <2>5, <2>6, KeptIs
<1>20. PICK f : f = t.heavy[n]
    OBVIOUS
<1>21. PICK r : r = Blanked([b.tree EXCEPT !.heavy[s] = f], n)
    OBVIOUS
<1>22. OneFlag(r, k, s, f)
    <2>1. f \in Sides \cup {"none"}
        BY <1>4, <1>20, TypedFields
    <2> QED BY <1>4, <1>10, <1>11, <1>13, <1>21, <2>1, Reheaded
<1>23. Kept(r, E, P, B, M) /\ Kids(r) = Kids(k)
    <2>1. SameShape(r, k)
        BY <1>22 DEF OneFlag
    <2> HIDE DEF M
    <2> QED BY <1>19, <2>1, KeptShape, SameShapeFact
<1>24. PICK up : up = IF s = t.right[n] THEN "right" ELSE "left"
    OBVIOUS
<1>25. PICK x : x = S(Q[s])
    OBVIOUS
<1>26. up \in Sides /\ C[up][Q[s]] = s
    BY <1>4, <1>13, <1>15, <1>24
<1>27. x = IF s = t.right[n] THEN s ELSE Q[s]
    BY <1>13, <1>14, <1>25
<1>28. x \in M /\ x # NULL
    <2>1. Q[s] \in N
        BY <1>1, <1>3, <1>13, <1>16, KeptFact
    <2> QED BY <1>13, <1>16, <1>27, <2>1
<1>29. PICK K : K = Kids(r)
    OBVIOUS
<1>30. /\ \A m \in Node, u \in Sides : K[u][m] = InnerKids(C, n, s, c)[u][m]
       /\ \A m \in Node, u \in Sides : K[u][m] = r[u][m]
    BY <1>11, <1>19, <1>23, <1>29, KeptFact
<1>31. PICK I : I = r.heavy
    OBVIOUS
<1>32. \A m \in Node : I[m] = IF m = n THEN "none"
                              ELSE IF m = s THEN t.heavy[n] ELSE t.heavy[m]
    BY <1>11, <1>13, <1>20, <1>22, <1>31 DEF OneFlag
<1>33. PICK W : Fits(K, I, W, x, up, V[s]) /\ V[s] = Tall(W, K[up][x]) + 1
    <2>1. Exact(C, t.heavy, V)
        BY <1>1, <1>3
    <2>2. c = C["right"][s] /\ C["left"][s] = NULL
        BY <1>15
    <2>3. PICK q \in Node : q = Q[s]
        BY <1>13
    <2>4. x = Swap(n, s, q) /\ C[up][q] = s
        BY <1>25, <1>26, <2>3 DEF S
    <2>5. InnerAs(C, t.heavy, K, I, n, s, c)
        BY <1>30, <1>32 DEF InnerAs
    <2> QED BY <1>4, <1>13, <1>26, <2>1, <2>2, <2>3, <2>4, <2>5, InnerFits
<1>34. /\ Fits(Kids(r), r.heavy, W, x, up, V[s])
       /\ V[s] = Tall(W, r[up][x]) + 1
    <2>1. x \in Node
        BY <1>4, <1>28
    <2> QED BY <1>26, <1>29, <1>30, <1>31, <1>33, <2>1
<1>35. l = Shrunk(r, x, up)
    <2>1. b = BSTRemove(t, n)
        BY <1>9 DEF BSTRemove
    <2>2. /\ b.substitution = s /\ b.subtree_child = c
          /\ b.subtree_parent = IF s = t.right[n] THEN s ELSE t.parent[s]
          /\ b.side = IF s = t.right[n] THEN "right" ELSE "left"
        BY <1>6, <1>7, <1>9 DEF BSTRemoveInner, Removal
    <2>3. s # c
        BY <1>4, <1>13, <1>15, <1>16, ParentFact
    <2>4. b.subtree_parent = x /\ b.side = up
        BY <1>3, <1>24, <1>27, <2>2
    <2> QED BY <1>20, <1>21, <2>1, <2>2, <2>3, <2>4 DEF AVLRemove
<1> HIDE DEF M
<1>36. Fine(l, P, B, M)
    BY <1>23, <1>26, <1>28, <1>34, <1>35, ShrunkFrom
<1> QED BY <1>36 DEF M

(* remove takes out n and no other node.                                   *)
LEMMA FineRemove ==
    ASSUME NEW t, NEW P, NEW B, NEW N, Fine(t, P, B, N), NEW n \in N, Free(P, B, n),
           NEW l, l = AVLRemove(t, n)
    PROVE  Fine(l, P, B, N \ {n})
BY RemovesOuter, RemovesInner

-----------------------------------------------------------------------------
(* The loop of merge.  It goes up one side of the tree: e is the last node *)
(* on that side, and what it holds is above e.                             *)

Last(N, s, e) == e \in N /\ \A m \in N : m = e \/ Beyond(s, e, m)

LEMMA LastHangs ==
    ASSUME NEW C, NEW P, NEW D, Forest(C, P, D), NEW N, N \subseteq Node,
           NEW s \in Sides, NEW e, Last(N, s, e), NEW p \in Node, e \in D[p],
           NEW g, g = P[p], g # NULL, g \in N
    PROVE  C[s][g] = p /\ e \in D[g]
<1>1. g \in Node /\ e \in Node /\ p \in D[g]
    BY ParentFact DEF Last
<1>2. PICK u \in Sides : C[u][g] = p
    BY ParentFact
<1>3. p # NULL
    BY NodeFact
<1>4. e # g /\ Beyond(u, e, g)
    BY <1>1, <1>2, <1>3, SubtreeFact
<1>5. Beyond(s, e, g)
    BY <1>4 DEF Last
<1>6. u = s
    <2>1. SUFFICES ASSUME u # s PROVE FALSE
        OBVIOUS
    <2>2. u = Other(s)
        BY <2>1, SidesFact
    <2>3. Beyond(Other(s), e, g)
        BY <1>4, <2>2
    <2>4. Beyond(s, g, e)
        BY <1>1, <2>3, BeyondFact
    <2> QED BY <1>1, <1>5, <2>4, BeyondFact
<1>7. e \in D[g]
    BY <1>1, Inherits
<1> QED BY <1>2, <1>6, <1>7

SpineIn(P, B, N, s) ==
    {c \in Goings : c.side = s /\ \E D, V :
        /\ Kept(c.tree, D, P, B, N)
        /\ c.at = NULL => Exact(Kids(c.tree), c.tree.heavy, V)
        /\ c.at # NULL =>
            /\ \E w : GrowsAt(c.tree, V, c.at, s, w, N)
            /\ \E e : Last(N, s, e) /\ e \in D[c.at]}

LEMMA SpineEnd ==
    ASSUME NEW t, NEW D, NEW P, NEW B, NEW N, Kept(t, D, P, B, N),
           NEW V, Exact(Kids(t), t.heavy, V), NEW s \in Sides
    PROVE  Going(t, NULL, s) \in SpineIn(P, B, N, s) /\ Rank(Going(t, NULL, s)) = 0
<1>1. Going(t, NULL, s) \in Goings
    BY GoingFact, NodeFact, KeptFact
<1> QED BY <1>1, GoingFact DEF SpineIn, Rank

LEMMA SpineGoes ==
    ASSUME NEW t, NEW D, NEW P, NEW B, NEW N, Kept(t, D, P, B, N),
           NEW V, NEW p, NEW s, NEW w, GrowsAt(t, V, p, s, w, N),
           NEW e, Last(N, s, e), e \in D[p]
    PROVE  Going(t, p, s) \in SpineIn(P, B, N, s)
<1>1. Going(t, p, s) \in Goings /\ p # NULL
    BY GoingFact, NodeFact, KeptFact DEF GrowsAt
<1>2. PICK c : c = Going(t, p, s)
    OBVIOUS
<1>3. c.tree = t /\ c.at = p /\ c.side = s
    BY <1>2, GoingFact
<1> QED BY <1>1, <1>2, <1>3 DEF SpineIn

(* After a round that left the height as it was.                           *)
LEMMA SpineOff ==
    ASSUME NEW D, NEW P, NEW B, NEW N, NEW g, NEW s \in Sides,
           NEW l, NEW r, NEW v, NEW f, Moved(l, D, P, B, N, g, s, r, v, v, f)
    PROVE  Going(l, NULL, s) \in SpineIn(P, B, N, s) /\ Rank(Going(l, NULL, s)) = 0
<1>1. PICK E, W : Kept(l, E, P, B, N) /\ Exact(Kids(l), l.heavy, W)
    BY MovedExact
<1> QED BY <1>1, SpineEnd

(* After a round that made it greater by one.                              *)
LEMMA SpineOn ==
    ASSUME NEW t, NEW D, NEW P, NEW B, NEW N, Kept(t, D, P, B, N), NEW p \in N,
           NEW g, g = t.parent[p], NEW s \in Sides,
           NEW e, Last(N, s, e), e \in D[p],
           NEW l, NEW r, NEW v \in Nat, NEW f, Moved(l, D, P, B, N, g, s, r, v, v + 1, f)
    PROVE  /\ Going(l, g, s) \in SpineIn(P, B, N, s)
           /\ \/ Rank(Going(l, g, s)) = 0
              \/ Rank(Going(l, g, s)) < Rank(Going(t, p, s))
<1>1. CASE g = NULL
    <2>1. PICK E, W : Kept(l, E, P, B, N) /\ Exact(Kids(l), l.heavy, W)
        BY <1>1, MovedExact
    <2> QED BY <1>1, <2>1, SpineEnd
<1>2. CASE g # NULL
    <2>1. PICK E, W : /\ Kept(l, E, P, B, N) /\ E[g] = D[g]
                      /\ GrowsAt(l, W, g, s, v, N)
        BY <1>2, MovedGrows
    <2>2. e \in D[g]
        <3>1. Forest(Kids(t), t.parent, D) /\ N \subseteq Node /\ g \in N /\ p \in Node
            BY <1>2, KeptFact
        <3> QED BY <1>2, <3>1, LastHangs
    <2>3. Going(l, g, s) \in SpineIn(P, B, N, s)
        BY <2>1, <2>2, SpineGoes
    <2>4. Rank(Going(l, g, s)) < Rank(Going(t, p, s))
        BY <1>2, <2>1, RankDrops
    <2> QED BY <2>3, <2>4
<1> QED BY <1>1, <1>2

LEMMA SpineStep ==
    ASSUME NEW P, NEW B, NEW N, NEW s \in Sides, NEW c \in SpineIn(P, B, N, s)
    PROVE  /\ SpineRound(c) \in SpineIn(P, B, N, s)
           /\ Rank(SpineRound(c)) = 0 \/ Rank(SpineRound(c)) < Rank(c)
<1>1. CASE c.at = NULL
    <2>1. SpineRound(c) = c
        BY <1>1 DEF SpineRound
    <2> QED BY <1>1, <2>1 DEF Rank
<1>2. CASE c.at # NULL
    <2>1. PICK t, p : t = c.tree /\ p = c.at /\ s = c.side
        BY DEF SpineIn
    <2>2. c = Going(t, p, s)
        BY <2>1 DEF SpineIn, Goings, Going
    <2>3. PICK D, V, w, e :
              /\ Kept(t, D, P, B, N) /\ GrowsAt(t, V, p, s, w, N)
              /\ Last(N, s, e) /\ e \in D[p]
        BY <1>2, <2>1 DEF SpineIn
    <2>4. PICK y : y = t[s][p]
        OBVIOUS
    <2>5. PICK g : g = t.parent[p]
        OBVIOUS
    <2>7. Grove(t, D) /\ p \in N /\ p \in Node /\ V[p] \in Nat /\ Other(s) # s
        BY <2>3, GrowsFact, SidesFact DEF Kept, GrowsAt
    <2>8. g # NULL => t[s][g] = p
        <3> SUFFICES ASSUME g # NULL PROVE t[s][g] = p
            OBVIOUS
        <3>1. /\ Forest(Kids(t), t.parent, D) /\ N \subseteq Node
              /\ g \in N /\ Kids(t)[s][g] = t[s][g]
            BY <2>3, <2>5, <2>7, KeptFact
        <3>2. Kids(t)[s][g] = p
            BY <2>3, <2>5, <2>7, <3>1, LastHangs
        <3> QED BY <3>1, <3>2
    <2>9. CASE t.heavy[p] = s
        <3>1. PICK r : r = Rotation(t, p, y, s)
            OBVIOUS
        <3>2. PICK l : l = Attach(r.tree, g, r.node, s)
            OBVIOUS
        <3>3. SpineRound(c) = Going(l, IF \/ t.heavy[y] = Other(s)
                                          \/ l.heavy[r.node] = "none"
                                       THEN NULL ELSE g, s)
            BY <1>2, <2>1, <2>4, <2>5, <2>9, <3>1, <3>2 DEF SpineRound
        <3>4. Turns(t, l, D, P, B, N, V, p, y, s, g, s, r.node)
            <4>1. Hangs(t, p, g, s)
                BY <2>5, <2>8 DEF Hangs
            <4>2. Attached(t, l, p, y, s, g, s, r.node)
                BY <3>1, <3>2 DEF Attached
            <4> QED BY <2>3, <2>4, <2>9, <4>1, <4>2, GrowTurns
        <3>5. PICK h, f :
                  /\ h = IF t.heavy[y] = "none" THEN V[p] + 1 ELSE V[p]
                  /\ f = IF t.heavy[y] = "none" THEN Other(s) ELSE "none"
                  /\ Moved(l, D, P, B, N, g, s, r.node, V[p], h, f)
            BY <3>4 DEF Turns
        <3>6. l.heavy[r.node] = f
            BY <3>5 DEF Moved
        <3>7. Other(s) # "none"
            BY SidesFact
        <3>8. CASE t.heavy[y] = "none"
            <4>1. SpineRound(c) = Going(l, g, s)
                BY <3>3, <3>5, <3>6, <3>7, <3>8
            <4>2. Moved(l, D, P, B, N, g, s, r.node, V[p], V[p] + 1, f)
                BY <3>5, <3>8
            <4> QED BY <2>2, <2>3, <2>5, <2>7, <4>1, <4>2, SpineOn
        <3>9. CASE t.heavy[y] # "none"
            <4>1. SpineRound(c) = Going(l, NULL, s)
                BY <3>3, <3>5, <3>6, <3>9
            <4>2. Moved(l, D, P, B, N, g, s, r.node, V[p], V[p], f)
                BY <3>5, <3>9
            <4> QED BY <4>1, <4>2, SpineOff
        <3> QED BY <3>8, <3>9
    <2>10. CASE t.heavy[p] = Other(s)
        <3>1. PICK l : l = [t EXCEPT !.heavy[p] = "none"]
            OBVIOUS
        <3>3. SpineRound(c) = Going(l, NULL, s)
            BY <1>2, <2>1, <2>5, <2>7, <2>10, <3>1 DEF SpineRound
        <3>4. Moved(l, D, P, B, N, g, s, p, V[p], V[p], "none")
            BY <2>3, <2>5, <2>8, <2>10, <3>1, GrowEvens
        <3> QED BY <3>3, <3>4, SpineOff
    <2>11. CASE t.heavy[p] # s /\ t.heavy[p] # Other(s)
        <3>1. PICK l : l = [t EXCEPT !.heavy[p] = s]
            OBVIOUS
        <3>2. SpineRound(c) = Going(l, g, s)
            BY <1>2, <2>1, <2>5, <2>11, <3>1 DEF SpineRound
        <3>3. Moved(l, D, P, B, N, g, s, p, V[p], V[p] + 1, s)
            BY <2>3, <2>5, <2>8, <2>11, <3>1, GrowLeans
        <3> QED BY <2>2, <2>3, <2>5, <2>7, <3>2, <3>3, SpineOn
    <2> QED BY <2>9, <2>10, <2>11
<1> QED BY <1>1, <1>2

LEMMA SpineEnds ==
    ASSUME NEW P, NEW B, NEW N, NEW s \in Sides, NEW c \in SpineIn(P, B, N, s),
           NEW e, e = Loop(SpineRound, c)
    PROVE  e \in SpineIn(P, B, N, s) /\ Rank(e) = 0
<1> DEFINE S == SpineIn(P, B, N, s)
           M == Cardinality(Node)
           next == [x \in S |-> SpineRound(x)]
           rank == [x \in S |-> Rank(x)]
           F(f) == [k \in 0 .. M |-> IF k = 0 THEN c ELSE SpineRound(f[k - 1])]
           g == CHOOSE f : f = F(f)
<1>1. M \in Nat
    BY NodeFact, FS_CardinalityType
<1>2. \A x \in S : SpineRound(x) \in S
    BY SpineStep
<1>3. \A x \in S : Rank(x) \in Nat /\ Rank(x) <= M
    <2> TAKE x \in S
    <2>1. PICK t, p : t = x.tree /\ p = x.at
        OBVIOUS
    <2>2. x = Going(t, p, s) /\ p \in Pointer
        BY <2>1 DEF SpineIn, Goings, Going
    <2>3. PICK D : Kept(t, D, P, B, N)
        BY <2>1 DEF SpineIn
    <2> QED BY <2>2, <2>3, RankFact
<1>4. \A x \in S : Rank(SpineRound(x)) = 0 \/ Rank(SpineRound(x)) < Rank(x)
    BY SpineStep
<1> HIDE DEF S, M
<1>5. next \in [S -> S] /\ rank \in [S -> Nat] /\ c \in S /\ rank[c] <= M
    BY <1>2, <1>3 DEF S
<1>6. \A x \in S : rank[next[x]] = 0 \/ rank[next[x]] < rank[x]
    BY <1>2, <1>4
<1>7. \A x \in S : next[x] = SpineRound(x) /\ rank[x] = Rank(x)
    OBVIOUS
<1> HIDE DEF next, rank
<1>8. PICK h : h = RoundOf(c, next, M, h) /\ h \in [0 .. M -> S]
    BY <1>1, <1>5, RoundsExist
<1>9. h = F(h)
    <2>1. ASSUME NEW k \in 0 .. M
          PROVE  F(h)[k] = RoundOf(c, next, M, h)[k]
        <3>1. CASE k = 0
            BY <3>1 DEF RoundOf
        <3>2. CASE k # 0
            <4>1. k - 1 \in 0 .. M
                BY <1>1, <3>2
            <4>2. h[k - 1] \in S
                BY <1>8, <4>1
            <4>3. next[h[k - 1]] = SpineRound(h[k - 1])
                BY <1>7, <4>2
            <4> QED BY <3>2, <4>3 DEF RoundOf
        <3> QED BY <3>1, <3>2
    <2> QED BY <1>8, <2>1 DEF RoundOf
<1>10. g = F(g)
    BY <1>9, Zenon
<1>11. e = g[M]
    BY Zenon DEF Loop, M
<1> HIDE DEF g
<1>12. g[0] = c /\ \A k \in 1 .. M : g[k - 1] \in S => g[k] = next[g[k - 1]]
    BY <1>1, <1>7, <1>10
<1>13. g[M] \in S /\ rank[g[M]] = 0
    BY <1>1, <1>5, <1>6, <1>12, RoundsEnd
<1> QED BY <1>7, <1>11, <1>13 DEF S

LEMMA SpineFact ==
    ASSUME NEW P, NEW B, NEW N, NEW s \in Sides, NEW c \in SpineIn(P, B, N, s),
           NEW l, l = Loop(SpineRound, c).tree
    PROVE  \E D, V : Kept(l, D, P, B, N) /\ Exact(Kids(l), l.heavy, V)
<1>1. PICK e : e = Loop(SpineRound, c)
    OBVIOUS
<1>2. e \in SpineIn(P, B, N, s) /\ Rank(e) = 0 /\ l = e.tree
    BY <1>1, SpineEnds
<1>3. PICK D, V : /\ Kept(l, D, P, B, N)
                  /\ e.at = NULL => Exact(Kids(l), l.heavy, V)
    BY <1>2 DEF SpineIn
<1>4. e.at = NULL
    <2>1. SUFFICES ASSUME e.at # NULL PROVE FALSE
        OBVIOUS
    <2>2. e.at \in Node
        BY <1>2, <2>1, NodeFact DEF SpineIn, Goings
    <2>3. Rank(e) = 1 + Cardinality(Node) - Cardinality(NodesAt(l, e.at))
        BY <1>2, <2>1 DEF Rank
    <2> QED BY <1>2, <1>3, <2>2, <2>3, NodeCount
<1> QED BY <1>3, <1>4

-----------------------------------------------------------------------------
(* height() follows the flags down one path; Levels looks at all of them.  *)

LEMMA ExactSteps ==
    ASSUME NEW t, NEW D, Grove(t, D), NEW V, Exact(Kids(t), t.heavy, V)
    PROVE  /\ V \in [Node -> Nat]
           /\ \A n \in Node :
                /\ n # NULL /\ t.left[n] \in Pointer /\ t.right[n] \in Pointer
                /\ Tall(V, t.left[n]) \in Nat /\ Tall(V, t.right[n]) \in Nat
                /\ Poised(V[n], t.heavy[n], "left", Tall(V, t.left[n]), Tall(V, t.right[n]))
                /\ V[n] = IF t.heavy[n] = "right" THEN 2 + Tall(V, t.left[n])
                          ELSE IF t.heavy[n] = "left" THEN 2 + Tall(V, t.right[n])
                          ELSE 1 + Tall(V, t.right[n])
                /\ V[n] = 1 + IF Tall(V, t.left[n]) > Tall(V, t.right[n])
                              THEN Tall(V, t.left[n]) ELSE Tall(V, t.right[n])
                /\ Tall(V, t.left[n]) - Tall(V, t.right[n]) \in {-1, 0, 1}
                /\ t.heavy[n] = Heavier(Tall(V, t.left[n]), Tall(V, t.right[n]))
<1>1. V \in [Node -> Nat]
    BY DEF Exact, Fits
<1>2. ASSUME NEW n \in Node
      PROVE  /\ n # NULL /\ t.left[n] \in Pointer /\ t.right[n] \in Pointer
             /\ Tall(V, t.left[n]) \in Nat /\ Tall(V, t.right[n]) \in Nat
             /\ Poised(V[n], t.heavy[n], "left", Tall(V, t.left[n]), Tall(V, t.right[n]))
    <2>1. Typed(t) /\ "left" \in Sides /\ Other("left") = "right"
        BY SidesFact DEF Grove
    <2>2. n # NULL /\ t.left[n] \in Pointer /\ t.right[n] \in Pointer
        BY <2>1, TypedFields, NodeFact
    <2>3. Kids(t)["left"] = t.left /\ Kids(t)["right"] = t.right
        BY <2>1, KidsFact
    <2>4. Poised(V[n], t.heavy[n], "left", Tall(V, Kids(t)["left"][n]),
                 Tall(V, Kids(t)[Other("left")][n]))
        BY <2>1, ExactAt
    <2> QED BY <1>1, <2>1, <2>2, <2>3, <2>4, TallFact
<1>3. ASSUME NEW h \in Nat, NEW f, NEW a \in Nat, NEW b \in Nat, Poised(h, f, "left", a, b)
      PROVE  /\ h = IF f = "right" THEN 2 + a ELSE IF f = "left" THEN 2 + b ELSE 1 + b
             /\ h = 1 + IF a > b THEN a ELSE b
             /\ a - b \in {-1, 0, 1}
             /\ f = Heavier(a, b)
    <2>1. Other("left") = "right" /\ "left" # "right" /\ "left" # "none" /\ "right" # "none"
        BY SidesFact
    <2>2. CASE f = "left" /\ a = b + 1 /\ h = a + 1
        BY <2>1, <2>2 DEF Heavier
    <2>3. CASE f = "right" /\ b = a + 1 /\ h = b + 1
        BY <2>1, <2>3 DEF Heavier
    <2>4. CASE f = "none" /\ a = b /\ h = a + 1
        BY <2>1, <2>4 DEF Heavier
    <2> QED BY <1>3, <2>1, <2>2, <2>3, <2>4 DEF Poised
<1>4. ASSUME NEW n \in Node
      PROVE  /\ V[n] = IF t.heavy[n] = "right" THEN 2 + Tall(V, t.left[n])
                       ELSE IF t.heavy[n] = "left" THEN 2 + Tall(V, t.right[n])
                       ELSE 1 + Tall(V, t.right[n])
             /\ V[n] = 1 + IF Tall(V, t.left[n]) > Tall(V, t.right[n])
                           THEN Tall(V, t.left[n]) ELSE Tall(V, t.right[n])
             /\ Tall(V, t.left[n]) - Tall(V, t.right[n]) \in {-1, 0, 1}
             /\ t.heavy[n] = Heavier(Tall(V, t.left[n]), Tall(V, t.right[n]))
    <2>1. PICK h, f, a, b : h = V[n] /\ f = t.heavy[n] /\ a = Tall(V, t.left[n])
                            /\ b = Tall(V, t.right[n])
        OBVIOUS
    <2>2. h \in Nat /\ a \in Nat /\ b \in Nat /\ Poised(h, f, "left", a, b)
        BY <1>1, <1>2, <2>1
    <2> QED BY <1>3, <2>1, <2>2
<1> QED BY <1>1, <1>2, <1>4

LEMMA HeightFact ==
    ASSUME NEW t, NEW D, Grove(t, D), NEW V, Exact(Kids(t), t.heavy, V)
    PROVE  \A p \in Pointer : height(t, p) = Tall(V, p)
<1> DEFINE F(f) == [m \in Pointer |->
               IF m = NULL THEN 0
               ELSE IF t.heavy[m] = "right" THEN 2 + f[t.left[m]]
               ELSE IF t.heavy[m] = "left" THEN 2 + f[t.right[m]]
               ELSE 1 + f[t.right[m]]]
           d == [p \in Pointer |-> Tall(V, p)]
           g == CHOOSE f : f = F(f)
<1>1. Forest(Kids(t), t.parent, D) /\ Typed(t)
    BY DEF Grove
<1>2. \A n \in Node :
        /\ n # NULL /\ t.left[n] \in Pointer /\ t.right[n] \in Pointer
        /\ V[n] = IF t.heavy[n] = "right" THEN 2 + Tall(V, t.left[n])
                  ELSE IF t.heavy[n] = "left" THEN 2 + Tall(V, t.right[n])
                  ELSE 1 + Tall(V, t.right[n])
    BY ExactSteps
<1>3. d = F(d)
    <2>1. \A m \in Pointer : F(d)[m] = Tall(V, m)
        BY <1>2, NodeFact DEF Tall
    <2> QED BY <2>1
<1> HIDE DEF d
<1>4. g = F(g)
    BY <1>3, Zenon
<1>5. \A p \in Pointer : height(t, p) = g[p]
    BY Zenon DEF height
<1> HIDE DEF g
<1>6. /\ g[NULL] = 0
      /\ \A n \in Node : g[n] = IF t.heavy[n] = "right" THEN 2 + g[t.left[n]]
                                ELSE IF t.heavy[n] = "left" THEN 2 + g[t.right[n]]
                                ELSE 1 + g[t.right[n]]
    BY <1>2, <1>4, NodeFact
<1> DEFINE S == {n \in Node : g[n] = V[n]}
<1>7. ASSUME NEW n \in Node,
             \A s \in Sides : Kids(t)[s][n] # NULL => Kids(t)[s][n] \in S
      PROVE  n \in S
    <2>1. /\ t.left[n] # NULL => t.left[n] \in S
          /\ t.right[n] # NULL => t.right[n] \in S
        BY <1>1, <1>7, KidsFact, SidesFact
    <2>2. /\ g[t.left[n]] = Tall(V, t.left[n])
          /\ g[t.right[n]] = Tall(V, t.right[n])
        BY <1>6, <2>1 DEF Tall
    <2> QED BY <1>2, <1>6, <2>2
<1>8. S = Node
    <2> HIDE DEF S
    <2>1. S \subseteq Node
        BY DEF S
    <2> QED BY <1>1, <1>7, <2>1, BottomUp
<1> QED BY <1>5, <1>6, <1>8, NodeFact DEF Tall

LEMMA LevelsFact ==
    ASSUME NEW t, NEW D, Grove(t, D), NEW V, Exact(Kids(t), t.heavy, V)
    PROVE  \A p \in Pointer : Levels(t, p) = Tall(V, p)
<1> DEFINE F(f) == [m \in Pointer |->
               IF m = NULL THEN 0
               ELSE LET l == f[t.left[m]]
                        r == f[t.right[m]]
                    IN  1 + IF l > r THEN l ELSE r]
           d == [p \in Pointer |-> Tall(V, p)]
           g == CHOOSE f : f = F(f)
<1>1. Forest(Kids(t), t.parent, D) /\ Typed(t)
    BY DEF Grove
<1>2. \A n \in Node :
        /\ n # NULL /\ t.left[n] \in Pointer /\ t.right[n] \in Pointer
        /\ V[n] = 1 + IF Tall(V, t.left[n]) > Tall(V, t.right[n])
                      THEN Tall(V, t.left[n]) ELSE Tall(V, t.right[n])
    BY ExactSteps
<1>3. d = F(d)
    <2>1. \A m \in Pointer : F(d)[m] = Tall(V, m)
        BY <1>2, NodeFact DEF Tall
    <2> QED BY <2>1
<1> HIDE DEF d
<1>4. g = F(g)
    BY <1>3, Zenon
<1>5. \A p \in Pointer : Levels(t, p) = g[p]
    BY Zenon DEF Levels
<1> HIDE DEF g
<1>6. /\ g[NULL] = 0
      /\ \A n \in Node : g[n] = 1 + IF g[t.left[n]] > g[t.right[n]]
                                    THEN g[t.left[n]] ELSE g[t.right[n]]
    BY <1>2, <1>4, NodeFact
<1> DEFINE S == {n \in Node : g[n] = V[n]}
<1>7. ASSUME NEW n \in Node,
             \A s \in Sides : Kids(t)[s][n] # NULL => Kids(t)[s][n] \in S
      PROVE  n \in S
    <2>1. /\ t.left[n] # NULL => t.left[n] \in S
          /\ t.right[n] # NULL => t.right[n] \in S
        BY <1>1, <1>7, KidsFact, SidesFact
    <2>2. /\ g[t.left[n]] = Tall(V, t.left[n])
          /\ g[t.right[n]] = Tall(V, t.right[n])
        BY <1>6, <2>1 DEF Tall
    <2> QED BY <1>2, <1>6, <2>2
<1>8. S = Node
    <2> HIDE DEF S
    <2>1. S \subseteq Node
        BY DEF S
    <2> QED BY <1>1, <1>7, <2>1, BottomUp
<1> QED BY <1>5, <1>6, <1>8, NodeFact DEF Tall
=============================================================================
