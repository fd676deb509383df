------------------------------ MODULE AVLProofs ------------------------------
(***************************************************************************)
(* The theorems of AVL: for every finite set of nodes, insert, remove,     *)
(* split and merge leave two search trees that are linked, sized and       *)
(* balanced, and that are one sorted set of keys.                          *)
(***************************************************************************)
EXTENDS AVLTreeProofs

-----------------------------------------------------------------------------
(* Two trees on one heap: at a with the nodes N, at b with the nodes M.    *)

Stable(h, D, V) == Grove(h, D) /\ Summed(h) /\ Exact(Kids(h), h.heavy, V)

Rooting(h, D, a, N) ==
    a \in Pointer /\ N = At(D, a) /\ (a # NULL => h.parent[a] = NULL)

Both(h, a, b, N, M) ==
    \E D, V :
        /\ Stable(h, D, V)
        /\ Rooting(h, D, a, N) /\ Rooting(h, D, b, M)
        /\ N \cap M = {}
        /\ \A m \in Node \ (N \cup M) : Single(h.parent, D, m)

(* A tree record knows of one root.                                        *)
SameHeap(l, t) ==
    /\ Typed(l)
    /\ l.left = t.left /\ l.right = t.right /\ l.parent = t.parent
    /\ l.heavy = t.heavy /\ l.size = t.size

LEMMA SameHeapFact ==
    ASSUME NEW t, Typed(t), NEW p \in Pointer, NEW l, l = [t EXCEPT !.root = p]
    PROVE  SameHeap(l, t) /\ l.root = p
BY DEF SameHeap, Typed

LEMMA SameHeapIs ==
    ASSUME NEW t, NEW l, SameHeap(l, t)
    PROVE  /\ Kids(l) = Kids(t)
           /\ \A p : SizeAt(l, p) = SizeAt(t, p)
           /\ Summed(t) => Summed(l)
           /\ \A D : Grove(t, D) => Grove(l, D)
           /\ \A D, V : Stable(t, D, V) => Stable(l, D, V)
<1>1. \A s \in Sides : l[s] = t[s]
    BY SidesFact DEF SameHeap
<1>2. Kids(l) = Kids(t)
    BY <1>1 DEF Kids
<1>3. \A p : SizeAt(l, p) = SizeAt(t, p)
    BY DEF SizeAt, SameHeap
<1>4. Summed(t) => Summed(l)
    <2>1. \A n \in Node, s \in Sides : SumAt(l, n, s) = SumAt(t, n, s)
        BY <1>1, <1>3, SidesFact DEF SumAt
    <2> QED BY <2>1 DEF Summed, SameHeap
<1>5. \A D : Grove(t, D) => Grove(l, D)
    BY <1>2 DEF Grove, SameHeap
<1> QED BY <1>2, <1>3, <1>4, <1>5 DEF Stable, SameHeap

LEMMA SameBoth ==
    ASSUME NEW t, NEW a, NEW b, NEW N, NEW M, Both(t, a, b, N, M), NEW l, SameHeap(l, t)
    PROVE  Both(l, a, b, N, M)
<1>1. PICK D, V :
        /\ Stable(t, D, V)
        /\ Rooting(t, D, a, N) /\ Rooting(t, D, b, M)
        /\ N \cap M = {}
        /\ \A m \in Node \ (N \cup M) : Single(t.parent, D, m)
    BY DEF Both
<1>2. l.parent = t.parent
    BY DEF SameHeap
<1>3. Stable(l, D, V)
    BY <1>1, SameHeapIs
<1>4. Rooting(l, D, a, N) /\ Rooting(l, D, b, M)
    BY <1>1, <1>2 DEF Rooting
<1> QED BY <1>1, <1>2, <1>3, <1>4 DEF Both

LEMMA BothSwapped ==
    ASSUME NEW t, NEW a, NEW b, NEW N, NEW M, Both(t, a, b, N, M)
    PROVE  Both(t, b, a, M, N)
BY DEF Both

(* The links, and the nodes.                                               *)
LEMMA BothFact ==
    ASSUME NEW t, NEW a, NEW b, NEW N, NEW M, Both(t, a, b, N, M)
    PROVE  /\ Typed(t) /\ a \in Pointer /\ b \in Pointer
           /\ N \subseteq Node /\ M \subseteq Node /\ N \cap M = {}
           /\ NodesAt(t, a) = N /\ NodesAt(t, b) = M
           /\ a = NULL <=> N = {}
           /\ b = NULL <=> M = {}
           /\ a # NULL => a \in N
           /\ b # NULL => b \in M
<1>1. PICK D, V :
        /\ Stable(t, D, V)
        /\ Rooting(t, D, a, N) /\ Rooting(t, D, b, M)
        /\ N \cap M = {}
    BY DEF Both
<1>2. Grove(t, D) /\ Typed(t) /\ Forest(Kids(t), t.parent, D)
    BY <1>1 DEF Stable, Grove
<1>3. ASSUME NEW p, NEW K, Rooting(t, D, p, K)
      PROVE  /\ p \in Pointer /\ K \subseteq Node /\ NodesAt(t, p) = K
             /\ p = NULL <=> K = {}
             /\ p # NULL => p \in K
    <2>1. p \in Pointer /\ K = At(D, p)
        BY <1>3 DEF Rooting
    <2>2. K \subseteq Node /\ NodesAt(t, p) = K
        BY <1>2, <2>1, ForestTyped, NodesAtFact
    <2>3. p = NULL => K = {}
        BY <2>1 DEF At
    <2>4. p # NULL => p \in K
        <3> SUFFICES ASSUME p # NULL PROVE p \in K
            OBVIOUS
        <3>1. p \in Node
            BY <2>1, NodeFact
        <3> QED BY <1>2, <2>1, <3>1, SubtreeFact DEF At
    <2> QED BY <2>1, <2>2, <2>3, <2>4
<1> QED BY <1>1, <1>2, <1>3

(* An operation on the tree at a leaves the tree at b as it is.            *)
Beside(P, B, b, M) ==
    \A l, K : Fine(l, P, B, K) /\ K \cap M = {} => Both(l, l.root, b, K, M)

LEMMA BothFine ==
    ASSUME NEW h, NEW a, NEW b, NEW N, NEW M, Both(h, a, b, N, M),
           NEW t, SameHeap(t, h), t.root = a
    PROVE  \E P, B : /\ Fine(t, P, B, N)
                     /\ \A m \in Node \ M : Free(P, B, m)
                     /\ Beside(P, B, b, M)
                     /\ \A m \in M : B[m] = NodesAt(h, m)
<1>7. PICK D, V :
        /\ Stable(h, D, V)
        /\ Rooting(h, D, a, N) /\ Rooting(h, D, b, M)
        /\ N \cap M = {}
        /\ \A m \in Node \ (N \cup M) : Single(h.parent, D, m)
    BY DEF Both
<1>1. /\ Stable(t, D, V)
      /\ Rooting(t, D, a, N) /\ Rooting(t, D, b, M)
      /\ N \cap M = {}
      /\ \A m \in Node \ (N \cup M) : Single(t.parent, D, m)
    <2>1. Stable(t, D, V)
        BY <1>7, SameHeapIs
    <2>2. t.parent = h.parent
        BY DEF SameHeap
    <2> QED BY <1>7, <2>1, <2>2 DEF Rooting
<1>2. PICK P : P = [m \in Node |-> IF m \in N THEN NULL ELSE t.parent[m]]
    OBVIOUS
<1>3. PICK B : B = [m \in Node |-> IF m \in N THEN {m} ELSE D[m]]
    OBVIOUS
<1>4. Fine(t, P, B, N)
    <2>1. Kept(t, D, P, B, N)
        BY <1>1, <1>2, <1>3 DEF Kept, Stable, Rooting
    <2> QED BY <1>1, <2>1 DEF Fine, Stable
<1>5. \A m \in Node \ M : Free(P, B, m)
    BY <1>1, <1>2, <1>3 DEF Free, Single
<1>6. ASSUME NEW l, NEW K, Fine(l, P, B, K), K \cap M = {}
      PROVE  Both(l, l.root, b, K, M)
    <2>1. PICK E, W : Kept(l, E, P, B, K) /\ Exact(Kids(l), l.heavy, W)
        BY <1>6 DEF Fine
    <2>2. Stable(l, E, W)
        BY <2>1 DEF Stable, Kept
    <2>3. Rooting(l, E, l.root, K)
        BY <2>1, TypedFields, KeptFact DEF Rooting, Kept
    <2>4. Rooting(l, E, b, M)
        <3>1. CASE b = NULL
            BY <1>1, <3>1 DEF Rooting, At
        <3>2. CASE b # NULL
            <4>1. b \in Node /\ M = D[b] /\ t.parent[b] = NULL
                BY <1>1, <3>2, NodeFact DEF Rooting, At
            <4>2. b \in M
                BY <1>1, <4>1, SubtreeFact DEF Stable, Grove
            <4>3. b \notin N /\ b \notin K
                BY <1>1, <1>6, <4>2
            <4>4. l.parent[b] = P[b] /\ E[b] = B[b]
                BY <2>1, <4>1, <4>3 DEF Kept
            <4>5. P[b] = NULL /\ B[b] = M
                BY <1>2, <1>3, <4>1, <4>3
            <4> QED BY <1>1, <3>2, <4>4, <4>5 DEF Rooting, At
        <3> QED BY <3>1, <3>2
    <2>5. \A m \in Node \ (K \cup M) : Single(l.parent, E, m)
        BY <1>5, <2>1 DEF Free, Single, Kept
    <2> QED BY <1>6, <2>2, <2>3, <2>4, <2>5 DEF Both
<1>8. Beside(P, B, b, M)
    BY <1>6 DEF Beside
<1>9. \A m \in M : B[m] = NodesAt(h, m)
    <2>1. Grove(h, D) /\ M = At(D, b) /\ b \in Pointer
        BY <1>7 DEF Stable, Rooting
    <2>2. M \subseteq Node
        BY <2>1, ForestTyped DEF Grove
    <2>3. \A m \in M : NodesAt(h, m) = D[m]
        BY <2>1, <2>2, NodesAtFact, NodeFact DEF At
    <2> QED BY <1>1, <1>3, <2>2, <2>3
<1> QED BY <1>4, <1>5, <1>8, <1>9

(* And the subtree of every node outside stays.                            *)
LEMMA FineOutside ==
    ASSUME NEW t, NEW P, NEW B, NEW N, Fine(t, P, B, N), NEW m \in Node, m \notin N
    PROVE  \E D : Grove(t, D) /\ D[m] = B[m]
    BY DEF Fine, Kept

-----------------------------------------------------------------------------
(* split.  The root is taken out from above its subtrees.                  *)

UprootKids(C, r) ==
    [u \in Sides |-> [m \in Node |-> IF m = r THEN NULL ELSE C[u][m]]]
UprootParents(P, r) ==
    [m \in Node |-> IF m = r \/ P[m] = r THEN NULL ELSE P[m]]
UprootTrees(D, r) == [m \in Node |-> IF m = r THEN {r} ELSE D[m]]

LEMMA Uprooted ==
    ASSUME NEW C, NEW P, NEW D, Forest(C, P, D), NEW r \in Node, P[r] = NULL
    PROVE  Forest(UprootKids(C, r), UprootParents(P, r), UprootTrees(D, r))
<1> DEFINE K == UprootKids(C, r)
           Q == UprootParents(P, r)
           E == UprootTrees(D, r)
<1>1. \A m \in Node, s \in Sides : C[s][m] \in Pointer
    BY ForestTyped
<1>2. \A m \in Node : P[m] \in Pointer /\ D[m] \subseteq Node
    BY ForestTyped
<1>3. \A m \in Node, s \in Sides : C[s][m] # r
    <2>1. \A m \in Node, s \in Sides : C[s][m] # NULL => P[C[s][m]] = m
        BY DEF Forest
    <2> QED BY <2>1, NodeFact
<1>4. K \in Links
    BY <1>1, NodeFact DEF Links, UprootKids
<1>5. Q \in [Node -> Pointer]
    BY <1>2, NodeFact DEF UprootParents
<1>6. E \in [Node -> SUBSET Node]
    BY <1>2 DEF UprootTrees
<1>7. \A s \in Sides, m \in Node : K[s][m] = IF m = r THEN NULL ELSE C[s][m]
    BY DEF UprootKids
<1>8. \A m \in Node : /\ Q[m] = IF m = r \/ P[m] = r THEN NULL ELSE P[m]
                      /\ E[m] = IF m = r THEN {r} ELSE D[m]
    BY DEF UprootParents, UprootTrees
<1>9. \A m \in Node, s \in Sides : At(E, C[s][m]) = At(D, C[s][m])
    BY <1>1, <1>3, <1>8, NodeFact DEF At
<1> HIDE DEF K, Q, E
<1>10. \A n \in Node : \E s \in Sides :
          E[n] = {n} \cup At(E, K[s][n]) \cup At(E, K[Other(s)][n])
    <2> TAKE n \in Node
    <2>1. "left" \in Sides /\ Other("left") \in Sides
        BY SidesFact
    <2>2. E[n] = {n} \cup At(E, K["left"][n]) \cup At(E, K[Other("left")][n])
        <3>1. CASE n = r
            BY <1>7, <1>8, <2>1, <3>1 DEF At
        <3>2. CASE n # r
            <4>1. D[n] = {n} \cup At(D, C["left"][n]) \cup At(D, C[Other("left")][n])
                BY <2>1, ForestAt
            <4> QED BY <1>7, <1>8, <1>9, <2>1, <3>2, <4>1
        <3> QED BY <3>1, <3>2
    <2> QED BY <2>1, <2>2
<1>11. \A n \in Node, s \in Sides : \A m \in At(E, K[s][n]) : Beyond(s, m, n)
    <2> TAKE n \in Node, s \in Sides
    <2>1. CASE n = r
        BY <1>7, <2>1 DEF At
    <2>2. CASE n # r
        <3>1. \A m \in At(D, C[s][n]) : Beyond(s, m, n)
            BY DEF Forest
        <3> QED BY <1>7, <1>9, <2>2, <3>1
    <2> QED BY <2>1, <2>2
<1>12. \A n \in Node, s \in Sides : K[s][n] # NULL => Q[K[s][n]] = n
    <2> TAKE n \in Node, s \in Sides
    <2> SUFFICES ASSUME K[s][n] # NULL PROVE Q[K[s][n]] = n
        OBVIOUS
    <2>1. n # r /\ K[s][n] = C[s][n]
        BY <1>7
    <2>2. C[s][n] \in Node /\ P[C[s][n]] = n /\ C[s][n] # r
        BY <1>1, <1>3, <2>1, NodeFact DEF Forest
    <2> QED BY <1>8, <2>1, <2>2
<1>13. \A n \in Node : Q[n] # NULL => \E s \in Sides : K[s][Q[n]] = n
    <2> TAKE n \in Node
    <2> SUFFICES ASSUME Q[n] # NULL PROVE \E s \in Sides : K[s][Q[n]] = n
        OBVIOUS
    <2>1. Q[n] = P[n] /\ P[n] # r /\ P[n] # NULL
        BY <1>8
    <2>2. P[n] \in Node
        BY <1>2, <2>1, NodeFact
    <2>3. PICK s \in Sides : C[s][P[n]] = n
        BY <2>1 DEF Forest
    <2> QED BY <1>7, <2>1, <2>2, <2>3
<1>14. Forest(K, Q, E)
    BY <1>4, <1>5, <1>6, <1>10, <1>11, <1>12, <1>13, ForestIs
<1> QED BY <1>14 DEF K, Q, E

(* The record of the three trees.                                          *)
UprootDone(t, l, r) ==
    /\ Typed(l)
    /\ \A u \in Sides, m \in Node : l[u][m] = IF m = r THEN NULL ELSE t[u][m]
    /\ \A m \in Node : l.parent[m] = IF m = r \/ t.parent[m] = r THEN NULL
                                     ELSE t.parent[m]
    /\ \A m \in Node : l.size[m] = IF m = r THEN 1 ELSE t.size[m]
    /\ \A m \in Node : l.heavy[m] = IF m = r THEN "none" ELSE t.heavy[m]

LEMMA UprootedRecord ==
    ASSUME NEW t, NEW D, Grove(t, D), NEW r \in Node,
           NEW a, a = t.left[r], NEW b, b = t.right[r],
           NEW right, right = Rooted(Blanked(t, r), b),
           NEW l, l = Rooted(right, a)
    PROVE  UprootDone(t, l, r) /\ right.root = b /\ l.root = a
<1>1. /\ Typed(t) /\ Forest(Kids(t), t.parent, D)
      /\ Kids(t)["left"] = t.left /\ Kids(t)["right"] = t.right
    BY KidsFact DEF Grove
<1>2. PICK k : k = Blanked(t, r)
    OBVIOUS
<1>3. Loosed(k, t, r) /\ Typed(k)
    BY <1>1, <1>2, BlankedFact DEF Loosed
<1>4. a \in Pointer /\ b \in Pointer /\ NULL \in Pointer /\ "left" \in Sides
    BY <1>1, TypedFields, NodeFact, SidesFact
<1>5. Joined(right, k, NULL, b, "left") /\ right.root = b
    <2>1. right = Attach(k, NULL, b, "left")
        BY <1>2 DEF Rooted
    <2> QED BY <1>3, <1>4, <2>1, AttachFact
<1>6. Joined(l, right, NULL, a, "left") /\ l.root = a
    <2>1. l = Attach(right, NULL, a, "left") /\ Typed(right)
        BY <1>5 DEF Rooted, Joined
    <2> QED BY <1>4, <2>1, AttachFact
<1>7. \A u \in Sides, m \in Node : l[u][m] = IF m = r THEN NULL ELSE t[u][m]
    <2>1. \A m \in Node : m # NULL
        BY NodeFact
    <2> QED BY <1>3, <1>5, <1>6, <2>1 DEF Joined, Loosed
<1>8. \A m \in Node : t.parent[m] = r <=> m = a \/ m = b
    <2> TAKE m \in Node
    <2>1. m = a \/ m = b => t.parent[m] = r
        BY <1>1, NodeFact, SidesFact DEF Forest
    <2>2. t.parent[m] = r => m = a \/ m = b
        BY <1>1, NodeFact, SidesFact DEF Forest
    <2> QED BY <2>1, <2>2
<1>9. \A m \in Node : l.parent[m] = IF m = r \/ t.parent[m] = r THEN NULL
                                    ELSE t.parent[m]
    BY <1>3, <1>5, <1>6, <1>8 DEF Joined, Loosed
<1>10. \A m \in Node : /\ l.size[m] = IF m = r THEN 1 ELSE t.size[m]
                       /\ l.heavy[m] = IF m = r THEN "none" ELSE t.heavy[m]
    BY <1>3, <1>5, <1>6 DEF Joined, Loosed
<1> QED BY <1>5, <1>6, <1>7, <1>9, <1>10 DEF UprootDone, Joined

LEMMA UprootedStable ==
    ASSUME NEW t, NEW D, NEW V, Stable(t, D, V), NEW r \in Node, t.parent[r] = NULL,
           NEW l, UprootDone(t, l, r),
           NEW E, E = UprootTrees(D, r)
    PROVE  \E W : Stable(l, E, W)
<1>1. Grove(t, D) /\ Typed(t) /\ Forest(Kids(t), t.parent, D) /\ Typed(l)
    BY DEF Stable, Grove, UprootDone
<1>2. \A u \in Sides, m \in Node : /\ Kids(t)[u][m] = t[u][m]
                                   /\ Kids(l)[u][m] = l[u][m]
    BY <1>1, KidsFact
<1>3. \A u \in Sides, m \in Node : t[u][m] \in Pointer /\ t[u][m] # r
    <2> TAKE u \in Sides, m \in Node
    <2>1. t[u][m] # NULL => t.parent[t[u][m]] = m
        BY <1>1, <1>2 DEF Forest
    <2>2. m # NULL /\ r # NULL
        BY NodeFact
    <2>3. t[u][m] \in Pointer
        BY <1>1, SizeAtFact
    <2> QED BY <2>1, <2>2, <2>3
<1>4. Grove(l, E)
    <2>1. PICK K, Q : K = UprootKids(Kids(t), r) /\ Q = UprootParents(t.parent, r)
        OBVIOUS
    <2>2. Forest(K, Q, E)
        BY <1>1, <2>1, Uprooted
    <2>3. \A m \in Node, u \in Sides : l[u][m] = K[u][m]
        BY <1>2, <2>1 DEF UprootDone, UprootKids
    <2>4. \A m \in Node : l.parent[m] = Q[m]
        BY <2>1 DEF UprootDone, UprootParents
    <2> QED BY <1>1, <2>2, <2>3, <2>4, GroveIs
<1>5. Summed(l)
    <2>1. \A p \in Pointer : p # r => SizeAt(l, p) = SizeAt(t, p)
        BY NodeFact DEF SizeAt, UprootDone
    <2>2. ASSUME NEW n \in Node PROVE \E s \in Sides : l.size[n] = SumAt(l, n, s)
        <3>1. "left" \in Sides /\ Other("left") \in Sides
            BY SidesFact
        <3>2. CASE n = r
            <4>1. l["left"][n] = NULL /\ l[Other("left")][n] = NULL /\ l.size[n] = 1
                BY <3>1, <3>2 DEF UprootDone
            <4>2. l.size[n] = SumAt(l, n, "left")
                BY <4>1 DEF SumAt, SizeAt
            <4> QED BY <3>1, <4>2
        <3>3. CASE n # r
            <4>1. /\ l["left"][n] = t["left"][n] /\ l[Other("left")][n] = t[Other("left")][n]
                  /\ l.size[n] = t.size[n]
                BY <3>1, <3>3 DEF UprootDone
            <4>2. /\ SizeAt(l, l["left"][n]) = SizeAt(t, t["left"][n])
                  /\ SizeAt(l, l[Other("left")][n]) = SizeAt(t, t[Other("left")][n])
                BY <1>3, <2>1, <3>1, <4>1
            <4>3. t.size[n] = SumAt(t, n, "left")
                BY <3>1 DEF Stable, Summed
            <4>4. l.size[n] = SumAt(l, n, "left")
                BY <4>1, <4>2, <4>3 DEF SumAt
            <4> QED BY <3>1, <4>4
        <3> QED BY <3>2, <3>3
    <2> QED BY <1>1, <2>2, SummedIs
<1>6. PICK W : W = [m \in Node |-> IF m = r THEN 1 ELSE V[m]]
    OBVIOUS
<1>7. Exact(Kids(l), l.heavy, W)
    <2>1. V \in [Node -> Nat] /\ W \in [Node -> Nat]
        BY <1>6 DEF Stable, Exact, Fits
    <2>2. \A p \in Pointer : p # r => Tall(W, p) = Tall(V, p)
        BY <1>6, NodeFact DEF Tall
    <2>3. ASSUME NEW n \in Node
          PROVE  \E s \in Sides : PoisedAt(Kids(l), l.heavy, W, n, s, NULL, "left", 0)
        <3>1. "left" \in Sides /\ Other("left") \in Sides /\ n # NULL
            BY SidesFact, NodeFact
        <3>2. /\ Seen(Kids(l), W, n, "left", NULL, "left", 0) = Tall(W, l["left"][n])
              /\ Seen(Kids(l), W, n, Other("left"), NULL, "left", 0)
                     = Tall(W, l[Other("left")][n])
            BY <1>2, <3>1 DEF Seen
        <3>3. Poised(W[n], l.heavy[n], "left", Tall(W, l["left"][n]),
                     Tall(W, l[Other("left")][n]))
            <4>1. CASE n = r
                <5>1. /\ l["left"][n] = NULL /\ l[Other("left")][n] = NULL
                      /\ W[n] = 1 /\ l.heavy[n] = "none"
                    BY <1>6, <3>1, <4>1 DEF UprootDone
                <5> QED BY <5>1 DEF Poised, Tall
            <4>2. CASE n # r
                <5>1. /\ l["left"][n] = t["left"][n] /\ l[Other("left")][n] = t[Other("left")][n]
                      /\ W[n] = V[n] /\ l.heavy[n] = t.heavy[n]
                    BY <1>6, <3>1, <4>2 DEF UprootDone
                <5>2. /\ Tall(W, l["left"][n]) = Tall(V, t["left"][n])
                      /\ Tall(W, l[Other("left")][n]) = Tall(V, t[Other("left")][n])
                    BY <1>3, <2>2, <3>1, <5>1
                <5>3. Poised(V[n], t.heavy[n], "left", Tall(V, Kids(t)["left"][n]),
                             Tall(V, Kids(t)[Other("left")][n]))
                    BY <3>1, ExactAt DEF Stable
                <5> QED BY <1>2, <3>1, <5>1, <5>2, <5>3
            <4> QED BY <4>1, <4>2
        <3> QED BY <3>1, <3>2, <3>3 DEF PoisedAt
    <2> QED BY <2>1, <2>3, FitsIs DEF Exact
<1> QED BY <1>4, <1>5, <1>7 DEF Stable

(* What is left and right of the root, and the root by itself.             *)
LEMMA UprootedBoth ==
    ASSUME NEW t, NEW N, NEW r, r # NULL, Both(t, r, NULL, N, {}),
           NEW a, a = t.left[r], NEW b, b = t.right[r],
           NEW right, right = Rooted(Blanked(t, r), b),
           NEW l, l = Rooted(right, a)
    PROVE  \E L, R : /\ Both(l, a, b, L, R)
                     /\ r \in N /\ r \notin L /\ r \notin R
                     /\ N = {r} \cup L \cup R
                     /\ \A x \in L : KeyOf[x] < KeyOf[r]
                     /\ \A y \in R : KeyOf[r] < KeyOf[y]
<1>1. PICK D, V :
        /\ Stable(t, D, V)
        /\ Rooting(t, D, r, N)
        /\ \A m \in Node \ N : Single(t.parent, D, m)
    BY DEF Both
<1>2. /\ Grove(t, D) /\ Typed(t) /\ Forest(Kids(t), t.parent, D)
      /\ Kids(t)["left"] = t.left /\ Kids(t)["right"] = t.right
      /\ "left" \in Sides /\ "right" \in Sides /\ Other("left") = "right"
    BY <1>1, KidsFact, SidesFact DEF Stable, Grove
<1>3. r \in Node /\ t.parent[r] = NULL /\ N = D[r] /\ r \in D[r]
    <2>1. r \in Node /\ t.parent[r] = NULL /\ N = D[r]
        BY <1>1, NodeFact DEF Rooting, At
    <2> QED BY <1>2, <2>1, SubtreeFact
<1>4. a \in Pointer /\ b \in Pointer
    BY <1>2, <1>3, TypedFields
<1>5. PICK E : E = UprootTrees(D, r)
    OBVIOUS
<1>6. UprootDone(t, l, r)
    BY <1>2, <1>3, UprootedRecord
<1>7. PICK W : Stable(l, E, W)
    BY <1>1, <1>3, <1>5, <1>6, UprootedStable
<1>8. D[r] = {r} \cup At(D, a) \cup At(D, b)
    BY <1>2, <1>3 DEF Forest
<1>9. /\ \A x \in At(D, a) : KeyOf[x] < KeyOf[r]
      /\ \A y \in At(D, b) : KeyOf[r] < KeyOf[y]
    BY <1>2, <1>3, SidesFact DEF Forest, Beyond
<1>10. r \notin At(D, a) /\ r \notin At(D, b) /\ At(D, a) \cap At(D, b) = {}
    <2>1. r \notin At(D, a) /\ r \notin At(D, b)
        BY <1>3, <1>9, NodeFact
    <2>2. \A m : m \in At(D, a) => m \notin At(D, b)
        BY <1>2, <1>3, SidesApart
    <2> QED BY <2>1, <2>2
<1>11. ASSUME NEW p \in Pointer, p # r, p # NULL => t.parent[p] = r
       PROVE  Rooting(l, E, p, At(D, p))
    <2>1. p # NULL => p \in Node /\ l.parent[p] = NULL /\ E[p] = D[p]
        BY <1>5, <1>6, <1>11, NodeFact DEF UprootDone, UprootTrees
    <2> QED BY <1>11, <2>1 DEF Rooting, At
<1>12. /\ a # r /\ (a # NULL => t.parent[a] = r)
       /\ b # r /\ (b # NULL => t.parent[b] = r)
    BY <1>2, <1>3, SubtreeFact, NodeFact DEF Forest
<1>13. Rooting(l, E, a, At(D, a)) /\ Rooting(l, E, b, At(D, b))
    BY <1>4, <1>11, <1>12
<1>14. ASSUME NEW m \in Node \ (At(D, a) \cup At(D, b))
       PROVE  Single(l.parent, E, m)
    <2>1. CASE m = r
        BY <1>3, <1>5, <1>6, <2>1 DEF Single, UprootDone, UprootTrees
    <2>2. CASE m # r
        <3>1. m \notin N
            BY <1>3, <1>8, <2>2
        <3> QED BY <1>1, <1>5, <1>6, <2>2, <3>1 DEF Single, UprootDone, UprootTrees
    <2> QED BY <2>1, <2>2
<1>15. Both(l, a, b, At(D, a), At(D, b))
    BY <1>7, <1>10, <1>13, <1>14 DEF Both
<1> QED BY <1>3, <1>8, <1>9, <1>10, <1>15

(* split leaves two trees, one below the other in key order.               *)
Lower(N, M) == \A m \in N, x \in M : KeyOf[m] < KeyOf[x]

Parted(s, N) ==
    \E L, R : Both(s.tree, s.left, s.right, L, R) /\ L \cup R = N /\ Lower(L, R)

LEMMA SplitFact ==
    ASSUME NEW t, NEW N, t.root # NULL, Both(t, t.root, NULL, N, {}),
           NEW s, s = AVLSplit(t)
    PROVE  Parted(s, N)
<1>1. PICK r : r = t.root
    OBVIOUS
<1>2. PICK a, b : a = t.left[r] /\ b = t.right[r]
    OBVIOUS
<1>3. PICK right : right = Rooted(Blanked(t, r), b)
    OBVIOUS
<1>4. PICK k : k = Rooted(right, a)
    OBVIOUS
<1>5. PICK l : l = AVLInsert(k, r)
    OBVIOUS
<1>6. PICK L, R : /\ Both(k, a, b, L, R)
                  /\ r \in N /\ r \notin L /\ r \notin R
                  /\ N = {r} \cup L \cup R
                  /\ \A x \in L : KeyOf[x] < KeyOf[r]
                  /\ \A y \in R : KeyOf[r] < KeyOf[y]
    BY <1>1, <1>2, <1>3, <1>4, UprootedBoth
<1>7. /\ Typed(t) /\ r \in Node
      /\ L \subseteq Node /\ R \subseteq Node /\ L \cap R = {}
    <2>1. Typed(t) /\ N \subseteq Node /\ L \subseteq Node /\ R \subseteq Node /\ L \cap R = {}
        BY <1>6, BothFact
    <2> QED BY <1>6, <2>1
<1>8. k.root = a /\ right.root = b
    <2>1. \E D : Grove(t, D)
        BY DEF Both, Stable
    <2> QED BY <1>2, <1>3, <1>4, <1>7, <2>1, UprootedRecord
<1>9. s.tree = l /\ s.left = l.root /\ s.right = b
    BY <1>1, <1>2, <1>3, <1>4, <1>5, <1>8 DEF AVLSplit
<1>10. SameHeap(k, k)
    BY <1>6, BothFact DEF SameHeap
<1>11. PICK P, B : /\ Fine(k, P, B, L)
                   /\ \A m \in Node \ R : Free(P, B, m)
                   /\ Beside(P, B, b, R)
    BY <1>6, <1>8, <1>10, BothFine
<1>12. Fine(l, P, B, Without(L, KeyOf[r]) \cup {r})
    <2>1. \A m \in L \cup {r} : Free(P, B, m)
        BY <1>6, <1>7, <1>11
    <2> QED BY <1>5, <1>6, <1>7, <1>11, <2>1, FineInsert
<1>13. Without(L, KeyOf[r]) = L
    BY <1>6, <1>7, NodeFact DEF Without
<1>14. Both(l, l.root, b, L \cup {r}, R)
    BY <1>6, <1>7, <1>11, <1>12, <1>13 DEF Beside
<1>15. \A x \in L \cup {r}, y \in R : KeyOf[x] < KeyOf[y]
    <2> TAKE x \in L \cup {r}, y \in R
    <2>1. KeyOf[x] \in Nat /\ KeyOf[y] \in Nat /\ KeyOf[r] \in Nat
        BY <1>7, NodeFact
    <2>2. KeyOf[x] <= KeyOf[r] /\ KeyOf[r] < KeyOf[y]
        BY <1>6, <2>1
    <2> QED BY <2>1, <2>2
<1>16. L \cup {r} \cup R = N
    BY <1>6
<1> QED BY <1>9, <1>14, <1>15, <1>16 DEF Parted, Lower

-----------------------------------------------------------------------------
(* merge climbs the side of the taller tree, to a subtree as tall as the   *)
(* other tree, or one level taller.                                        *)

Climbing(t, s, h, x, k) ==
    [tree |-> t, side |-> s, enough |-> h, probe |-> x, height |-> k]

Climbs(t, D, V, N, s, e, h) ==
    \E P, B : /\ Kept(t, D, P, B, N) /\ Exact(Kids(t), t.heavy, V)
              /\ s \in Sides /\ Last(N, s, e) /\ h \in Nat
              /\ h <= V[t.root] /\ V[e] <= h + 1

Rungs(D, V, N, e, h) == {x \in N : e \in D[x] /\ V[x] <= h + 1}

LEMMA ClimbStep ==
    ASSUME NEW t, NEW D, NEW V, NEW N, NEW s, NEW e, NEW h, Climbs(t, D, V, N, s, e, h),
           NEW x \in Rungs(D, V, N, e, h), NEW c, c = Climbing(t, s, h, x, V[x])
    PROVE  /\ h <= V[x] => ClimbedRound(c) = c
           /\ ~(h <= V[x]) => \E p \in Rungs(D, V, N, e, h) :
                  /\ ClimbedRound(c) = Climbing(t, s, h, p, V[p])
                  /\ Cardinality(D[x]) < Cardinality(D[p])
<1>1. PICK P, B : /\ Kept(t, D, P, B, N) /\ Exact(Kids(t), t.heavy, V)
                  /\ s \in Sides /\ Last(N, s, e) /\ h \in Nat
                  /\ h <= V[t.root] /\ V[e] <= h + 1
    BY DEF Climbs
<1>2. /\ Grove(t, D) /\ Typed(t) /\ Forest(Kids(t), t.parent, D) /\ N \subseteq Node
      /\ x \in N /\ x \in Node /\ e \in D[x] /\ V[x] <= h + 1
      /\ V \in [Node -> Nat] /\ V[x] \in Nat /\ Other(s) # s /\ Other(s) \in Sides
    BY <1>1, KeptFact, SidesFact DEF Rungs, Exact, Fits, Kept
<1>3. /\ c.tree = t /\ c.side = s /\ c.enough = h /\ c.probe = x /\ c.height = V[x]
    BY DEF Climbing
<1>4. h <= V[x] => ClimbedRound(c) = c
    BY <1>1, <1>2, <1>3 DEF ClimbedRound
<1>5. ASSUME ~(h <= V[x])
      PROVE  \E p \in Rungs(D, V, N, e, h) :
                  /\ ClimbedRound(c) = Climbing(t, s, h, p, V[p])
                  /\ Cardinality(D[x]) < Cardinality(D[p])
    <2>1. PICK p : p = t.parent[x]
        OBVIOUS
    <2>2. p # NULL /\ p \in N /\ p \in Node
        <3>1. x # t.root
            BY <1>1, <1>5
        <3>2. p # NULL
            BY <1>1, <1>2, <2>1, <3>1, KeptRoot
        <3> QED BY <1>1, <1>2, <2>1, <3>2, KeptFact
    <2>3. Kids(t)[s][p] = x /\ e \in D[p]
        BY <1>1, <1>2, <2>1, <2>2, LastHangs
    <2>4. Poised(V[p], t.heavy[p], s, Tall(V, Kids(t)[s][p]), Tall(V, Kids(t)[Other(s)][p]))
        BY <1>1, <2>2, ExactAt
    <2>5. Tall(V, Kids(t)[s][p]) = V[x] /\ Tall(V, Kids(t)[Other(s)][p]) \in Nat /\ V[p] \in Nat
        <3>1. Kids(t)[Other(s)][p] \in Pointer /\ x # NULL
            BY <1>2, <2>2, ForestTyped, NodeFact
        <3> QED BY <1>2, <2>2, <2>3, <3>1, TallFact
    <2>6. PICK b : b = Tall(V, Kids(t)[Other(s)][p]) /\ b \in Nat
        BY <2>5
    <2>7. Poised(V[p], t.heavy[p], s, V[x], b)
        BY <2>4, <2>5, <2>6
    <2>8. V[p] = V[x] + IF t.heavy[p] = Other(s) THEN 2 ELSE 1
        <3>1. s # "none" /\ Other(s) # "none"
            BY <1>1, SidesFact
        <3> QED BY <1>2, <2>5, <2>6, <2>7, <3>1 DEF Poised
    <2>9. ClimbedRound(c) = Climbing(t, s, h, p, V[p])
        <3>1. ~(c.height >= c.enough)
            BY <1>1, <1>2, <1>3, <1>5
        <3>2. ClimbedRound(c) = [c EXCEPT !.probe = p, !.height = V[p]]
            <4>1. c.tree.parent[c.probe] = p
                BY <1>3, <2>1
            <4> QED BY <1>3, <2>8, <3>1, <4>1 DEF ClimbedRound, Climbing
        <3> QED BY <3>2 DEF Climbing
    <2>10. V[p] <= h + 1
        BY <1>1, <1>2, <1>5, <2>5, <2>8
    <2>11. Cardinality(D[x]) < Cardinality(D[p])
        BY <1>1, <1>2, <2>2, <2>3, SubtreeSmaller, NodeFact
    <2> QED BY <2>2, <2>3, <2>9, <2>10, <2>11 DEF Rungs
<1> QED BY <1>4, <1>5

LEMMA ClimbEnds ==
    ASSUME NEW t, NEW D, NEW V, NEW N, NEW s, NEW e, NEW h, Climbs(t, D, V, N, s, e, h),
           NEW r, r = Climbed(t, e, V[e], h, s)
    PROVE  \E x \in Rungs(D, V, N, e, h) : r = Climbing(t, s, h, x, V[x]) /\ h <= V[x]
<1> DEFINE X == Rungs(D, V, N, e, h)
           C(x) == Climbing(t, s, h, x, V[x])
           S == {C(x) : x \in X}
           M == Cardinality(Node)
           Left(c) == IF h <= c.height THEN 0 ELSE 1 + M - Cardinality(D[c.probe])
           next == [x \in S |-> ClimbedRound(x)]
           rank == [x \in S |-> Left(x)]
           c == C(e)
           F(f) == [k \in 0 .. M |-> IF k = 0 THEN c ELSE ClimbedRound(f[k - 1])]
           g == CHOOSE f : f = F(f)
<1>1. M \in Nat
    BY NodeFact, FS_CardinalityType
<1>a. PICK P, B : /\ Kept(t, D, P, B, N) /\ Exact(Kids(t), t.heavy, V)
                  /\ s \in Sides /\ Last(N, s, e) /\ h \in Nat
                  /\ h <= V[t.root] /\ V[e] <= h + 1
    BY DEF Climbs
<1>b. /\ Forest(Kids(t), t.parent, D) /\ N \subseteq Node /\ V \in [Node -> Nat]
      /\ e \in N /\ e \in Node
    BY <1>a, KeptFact DEF Exact, Fits, Last
<1>c. \A x \in X : /\ x \in Node /\ V[x] \in Nat
                   /\ Cardinality(D[x]) \in Nat
                   /\ 1 <= Cardinality(D[x]) /\ Cardinality(D[x]) <= M
    BY <1>a, <1>b, NodeCount DEF Rungs
<1>d. \A x \in X : C(x).height = V[x] /\ C(x).probe = x
    BY DEF Climbing
<1>2. \A x \in X : ClimbedRound(C(x)) \in S
    <2> TAKE x \in X
    <2>1. CASE h <= V[x]
        BY <2>1, ClimbStep
    <2>2. CASE ~(h <= V[x])
        <3>1. \E p \in X : ClimbedRound(C(x)) = C(p)
            BY <2>2, ClimbStep
        <3> QED BY <3>1
    <2> QED BY <2>1, <2>2
<1>3. \A x \in X : Left(C(x)) \in Nat /\ Left(C(x)) <= M
    BY <1>1, <1>a, <1>c, <1>d
<1>4. \A x \in X : Left(ClimbedRound(C(x))) = 0 \/ Left(ClimbedRound(C(x))) < Left(C(x))
    <2> TAKE x \in X
    <2>1. CASE h <= V[x]
        <3>1. ClimbedRound(C(x)) = C(x)
            BY <2>1, ClimbStep
        <3> QED BY <1>d, <2>1, <3>1
    <2>2. CASE ~(h <= V[x])
        <3>1. PICK p \in X : /\ ClimbedRound(C(x)) = C(p)
                             /\ Cardinality(D[x]) < Cardinality(D[p])
            BY <2>2, ClimbStep
        <3>2. Left(C(x)) = 1 + M - Cardinality(D[x])
            BY <1>d, <2>2
        <3>3. Left(C(p)) = 0 \/ Left(C(p)) = 1 + M - Cardinality(D[p])
            BY <1>d
        <3>4. Left(C(p)) = 0 \/ Left(C(p)) < Left(C(x))
            <4> HIDE DEF Left, C, X, M
            <4> QED BY <1>1, <1>c, <3>1, <3>2, <3>3
        <3> QED BY <3>1, <3>4
    <2> QED BY <2>1, <2>2
<1>e. c \in S
    BY <1>a, <1>b, SubtreeFact DEF Rungs
<1> HIDE DEF C, X, M, Left
<1>5. next \in [S -> S] /\ rank \in [S -> Nat] /\ c \in S /\ rank[c] <= M
    BY <1>2, <1>3, <1>e
<1>6. \A x \in S : rank[next[x]] = 0 \/ rank[next[x]] < rank[x]
    BY <1>2, <1>4
<1>7. \A x \in S : next[x] = ClimbedRound(x) /\ rank[x] = Left(x)
    OBVIOUS
<1> HIDE DEF next, rank
<1>8. PICK k : k = RoundOf(c, next, M, k) /\ k \in [0 .. M -> S]
    <2> HIDE DEF S, c
    <2>1. next \in [S -> S] /\ c \in S /\ M \in Nat
        BY <1>1, <1>5
    <2>2. \E f : f = RoundOf(c, next, M, f) /\ f \in [0 .. M -> S]
        BY <2>1, RoundsExist
    <2> QED BY <2>2
<1>9. k = F(k)
    <2>1. ASSUME NEW i \in 0 .. M
          PROVE  F(k)[i] = RoundOf(c, next, M, k)[i]
        <3> HIDE DEF S, c
        <3>1. CASE i = 0
            BY <3>1 DEF RoundOf
        <3>2. CASE i # 0
            <4>1. i - 1 \in 0 .. M
                BY <1>1, <3>2
            <4>2. k[i - 1] \in S
                BY <1>8, <4>1
            <4>3. next[k[i - 1]] = ClimbedRound(k[i - 1])
                BY <1>7, <4>2
            <4> QED BY <3>2, <4>3 DEF RoundOf
        <3> QED BY <3>1, <3>2
    <2> HIDE DEF S, c
    <2> QED BY <1>8, <2>1 DEF RoundOf
<1>10. g = F(g)
    BY <1>9, Zenon
<1>11. r = g[M]
    BY Zenon DEF Climbed, Loop, M, C, Climbing
<1> HIDE DEF g
<1>12. g[0] = c /\ \A i \in 1 .. M : g[i - 1] \in S => g[i] = next[g[i - 1]]
    BY <1>1, <1>7, <1>10
<1>13. g[M] \in S /\ rank[g[M]] = 0
    <2> HIDE DEF S, c
    <2> QED BY <1>1, <1>5, <1>6, <1>12, RoundsEnd
<1>14. PICK x \in X : r = C(x)
    BY <1>11, <1>13
<1>15. Left(r) = 0
    BY <1>7, <1>11, <1>13
<1>16. h <= V[x]
    BY <1>1, <1>c, <1>d, <1>14, <1>15 DEF Left
<1> QED BY <1>14, <1>16 DEF C, X

-----------------------------------------------------------------------------
(* merge puts n where x was, below g on side s or at the root, with x on   *)
(* the other side of it and the other tree, low, on side s.                *)

JoinKids(C, n, x, low, s, g) ==
    [u \in Sides |-> [m \in Node |->
        IF m = n THEN (IF u = s THEN low ELSE x)
        ELSE IF u = s /\ m = g THEN n ELSE C[u][m]]]
JoinParents(P, n, x, low, g) ==
    [m \in Node |-> IF m = n THEN g ELSE IF m = x \/ m = low THEN n ELSE P[m]]
JoinTrees(D, n, x, low) ==
    [m \in Node |-> IF m = n THEN {n} \cup D[x] \cup At(D, low)
                    ELSE IF x \in D[m] /\ m # x THEN D[m] \cup {n} \cup At(D, low)
                    ELSE D[m]]

Joins(C, P, D, n, x, low, s, g) ==
    /\ Forest(C, P, D) /\ n \in Node /\ Single(P, D, n) /\ s \in Sides
    /\ x \in Node /\ x # n /\ g = P[x] /\ (g # NULL => C[s][g] = x)
    /\ low \in Pointer /\ low # n /\ x \notin At(D, low)
    /\ low # NULL => P[low] = NULL
    /\ \A m \in D[x] : Beyond(Other(s), m, n)
    /\ \A m \in At(D, low) : Beyond(s, m, n)
    /\ \A m \in Node : x \in D[m] /\ m # x =>
           \A y \in {n} \cup At(D, low) : Beyond(s, y, m)
    /\ \A m \in Node, u \in Sides : x \in At(D, C[u][m]) => u = s

LEMMA JoinsFact ==
    ASSUME NEW C, NEW P, NEW D, NEW n, NEW x, NEW low, NEW s, NEW g,
           Joins(C, P, D, n, x, low, s, g)
    PROVE  /\ \A m \in Node, u \in Sides : C[u][m] \in Pointer /\ C[u][m] # n
           /\ \A m \in Node : P[m] \in Pointer /\ P[m] # n /\ D[m] \subseteq Node
           /\ \A m \in Node, u \in Sides : C[u][m] = x <=> u = s /\ m = g
           /\ \A m \in Node, u \in Sides : low # NULL => C[u][m] # low
           /\ Other(s) \in Sides /\ Other(s) # s /\ \A u \in Sides : u # s => u = Other(s)
           /\ g \in Pointer /\ g # n /\ g # x /\ x # low
           /\ n # NULL /\ x # NULL
           /\ g # NULL => g \in Node /\ x \in D[g]
           /\ low # NULL => low \in Node
           /\ x \in D[x]
<1>1. /\ Forest(C, P, D) /\ n \in Node /\ Single(P, D, n) /\ s \in Sides
      /\ x \in Node /\ x # n /\ g = P[x] /\ (g # NULL => C[s][g] = x)
      /\ low \in Pointer /\ low # n /\ x \notin At(D, low)
      /\ low # NULL => P[low] = NULL
    BY DEF Joins
<1>2. /\ \A m \in Node, u \in Sides : C[u][m] \in Pointer
      /\ \A m \in Node : P[m] \in Pointer /\ D[m] \subseteq Node
    BY <1>1, ForestTyped
<1>3. /\ \A m \in Node, u \in Sides : C[u][m] # n
      /\ \A m \in Node : P[m] # n
    BY <1>1, SingleFact
<1>4. \A m \in Node, u \in Sides : C[u][m] = x <=> u = s /\ m = g
    BY <1>1, HangsFact
<1>5. \A m \in Node, u \in Sides : C[u][m] # NULL => P[C[u][m]] = m
    BY <1>1 DEF Forest
<1>6. \A m \in Node, u \in Sides : low # NULL => C[u][m] # low
    BY <1>1, <1>5, NodeFact
<1>7. Other(s) \in Sides /\ Other(s) # s /\ \A u \in Sides : u # s => u = Other(s)
    BY <1>1, SidesFact
<1>8. n # NULL /\ x # NULL /\ x \in D[x]
    BY <1>1, NodeFact, SubtreeFact
<1>9. low # NULL => low \in Node
    BY <1>1, NodeFact
<1>10. x # low
    BY <1>1, <1>8 DEF At
<1>11. g \in Pointer /\ g # n /\ g # x
    BY <1>1, <1>2, <1>3, <1>8, ParentFact
<1>12. g # NULL => g \in Node /\ x \in D[g]
    BY <1>1, ParentFact
<1> QED BY <1>2, <1>3, <1>4, <1>6, <1>7, <1>8, <1>9, <1>10, <1>11, <1>12

JoinLinks(C, P, D, K, Q, E, n, x, low, s, g) ==
    /\ \A m \in Node, u \in Sides :
           K[u][m] = IF m = n THEN (IF u = s THEN low ELSE x)
                     ELSE IF u = s /\ m = g THEN n ELSE C[u][m]
    /\ \A m \in Node :
           /\ Q[m] = IF m = n THEN g ELSE IF m = x \/ m = low THEN n ELSE P[m]
           /\ E[m] = IF m = n THEN {n} \cup D[x] \cup At(D, low)
                     ELSE IF x \in D[m] /\ m # x THEN D[m] \cup {n} \cup At(D, low)
                     ELSE D[m]

(* What the subtrees gain.                                                 *)
LEMMA JoinAt ==
    ASSUME NEW C, NEW P, NEW D, NEW n, NEW x, NEW low, NEW s, NEW g,
           Joins(C, P, D, n, x, low, s, g),
           NEW K, NEW Q, NEW E, JoinLinks(C, P, D, K, Q, E, n, x, low, s, g)
    PROVE  /\ At(E, low) = At(D, low) /\ At(E, x) = D[x]
           /\ At(E, n) = {n} \cup D[x] \cup At(D, low)
           /\ \A m \in Node, u \in Sides : m # g \/ u # s =>
                  At(E, C[u][m]) = IF x \in At(D, C[u][m])
                                   THEN At(D, C[u][m]) \cup {n} \cup At(D, low)
                                   ELSE At(D, C[u][m])
<1>1. \A m \in Node : E[m] = IF m = n THEN {n} \cup D[x] \cup At(D, low)
                             ELSE IF x \in D[m] /\ m # x THEN D[m] \cup {n} \cup At(D, low)
                             ELSE D[m]
    BY DEF JoinLinks
<1>2. n \in Node /\ x \in Node /\ n # x /\ low # n /\ x \notin At(D, low) /\ s \in Sides
    BY DEF Joins
<1>3. n # NULL /\ x # NULL /\ (low # NULL => low \in Node)
    BY JoinsFact
<1>4. At(E, low) = At(D, low)
    BY <1>1, <1>2, <1>3 DEF At
<1>5. At(E, x) = D[x] /\ At(E, n) = {n} \cup D[x] \cup At(D, low)
    BY <1>1, <1>2, <1>3 DEF At
<1>6. ASSUME NEW m \in Node, NEW u \in Sides, m # g \/ u # s
      PROVE  At(E, C[u][m]) = IF x \in At(D, C[u][m])
                              THEN At(D, C[u][m]) \cup {n} \cup At(D, low)
                              ELSE At(D, C[u][m])
    <2>1. C[u][m] \in Pointer /\ C[u][m] # n /\ C[u][m] # x
        BY <1>6, JoinsFact
    <2>2. CASE C[u][m] = NULL
        BY <2>2 DEF At
    <2>3. CASE C[u][m] # NULL
        BY <1>1, <2>1, <2>3, NodeFact DEF At
    <2> QED BY <2>2, <2>3
<1> QED BY <1>4, <1>5, <1>6

LEMMA JoinSums ==
    ASSUME NEW C, NEW P, NEW D, NEW n, NEW x, NEW low, NEW s, NEW g,
           Joins(C, P, D, n, x, low, s, g),
           NEW K, NEW Q, NEW E, JoinLinks(C, P, D, K, Q, E, n, x, low, s, g),
           NEW m \in Node
    PROVE  E[m] = {m} \cup At(E, K[s][m]) \cup At(E, K[Other(s)][m])
<1>1. /\ Forest(C, P, D) /\ n \in Node /\ x \in Node /\ s \in Sides
      /\ g # NULL => C[s][g] = x
      /\ \A k \in Node, u \in Sides : x \in At(D, C[u][k]) => u = s
    BY DEF Joins
<1>2. Other(s) \in Sides /\ Other(s) # s /\ n # NULL /\ x # NULL /\ g # n /\ g # x
    BY JoinsFact
<1>3. /\ At(E, low) = At(D, low) /\ At(E, x) = D[x]
      /\ At(E, n) = {n} \cup D[x] \cup At(D, low)
      /\ \A k \in Node, u \in Sides : k # g \/ u # s =>
             At(E, C[u][k]) = IF x \in At(D, C[u][k])
                              THEN At(D, C[u][k]) \cup {n} \cup At(D, low)
                              ELSE At(D, C[u][k])
    BY JoinAt
<1>4. D[m] = {m} \cup At(D, C[s][m]) \cup At(D, C[Other(s)][m])
    BY <1>1, ForestAt
<1>5. E[m] = IF m = n THEN {n} \cup D[x] \cup At(D, low)
             ELSE IF x \in D[m] /\ m # x THEN D[m] \cup {n} \cup At(D, low)
             ELSE D[m]
    BY DEF JoinLinks
<1>6. CASE m = n
    <2>1. K[s][m] = low /\ K[Other(s)][m] = x
        BY <1>1, <1>2, <1>6 DEF JoinLinks
    <2> QED BY <1>3, <1>5, <1>6, <2>1
<1>7. CASE m # n /\ m = g
    <2>1. K[s][m] = n /\ K[Other(s)][m] = C[Other(s)][m]
        BY <1>1, <1>2, <1>7 DEF JoinLinks
    <2>2. x \notin At(D, C[Other(s)][m])
        BY <1>1, <1>2
    <2>3. At(E, C[Other(s)][m]) = At(D, C[Other(s)][m])
        BY <1>2, <1>3, <2>2
    <2>4. g \in Node /\ C[s][m] = x /\ At(D, C[s][m]) = D[x] /\ x \in D[m]
        BY <1>1, <1>2, <1>7, JoinsFact, NodeFact DEF At
    <2> QED BY <1>2, <1>3, <1>4, <1>5, <1>7, <2>1, <2>3, <2>4
<1>8. CASE m # n /\ m # g
    <2>1. K[s][m] = C[s][m] /\ K[Other(s)][m] = C[Other(s)][m]
        BY <1>1, <1>2, <1>8 DEF JoinLinks
    <2>2. x \notin At(D, C[Other(s)][m])
        BY <1>1, <1>2
    <2>3. At(E, C[Other(s)][m]) = At(D, C[Other(s)][m])
        BY <1>2, <1>3, <2>2
    <2>4. At(E, C[s][m]) = IF x \in At(D, C[s][m])
                           THEN At(D, C[s][m]) \cup {n} \cup At(D, low)
                           ELSE At(D, C[s][m])
        BY <1>1, <1>3, <1>8
    <2>5. x \in At(D, C[s][m]) <=> x \in D[m] /\ m # x
        <3>1. x \in At(D, C[s][m]) => m # x
            BY <1>1, SubtreeFact DEF At
        <3> QED BY <1>4, <2>2, <3>1
    <2> QED BY <1>4, <1>5, <1>8, <2>1, <2>3, <2>4, <2>5
<1> QED BY <1>6, <1>7, <1>8

LEMMA JoinOrder ==
    ASSUME NEW C, NEW P, NEW D, NEW n, NEW x, NEW low, NEW s, NEW g,
           Joins(C, P, D, n, x, low, s, g),
           NEW K, NEW Q, NEW E, JoinLinks(C, P, D, K, Q, E, n, x, low, s, g),
           NEW m \in Node, NEW u \in Sides, NEW y \in At(E, K[u][m])
    PROVE  Beyond(u, y, m)
<1>1. /\ Forest(C, P, D) /\ n \in Node /\ x \in Node /\ s \in Sides
      /\ g # NULL => C[s][g] = x
      /\ \A k \in D[x] : Beyond(Other(s), k, n)
      /\ \A k \in At(D, low) : Beyond(s, k, n)
      /\ \A k \in Node : x \in D[k] /\ k # x =>
             \A z \in {n} \cup At(D, low) : Beyond(s, z, k)
      /\ \A k \in Node, w \in Sides : x \in At(D, C[w][k]) => w = s
    BY DEF Joins
<1>2. /\ Other(s) \in Sides /\ Other(s) # s /\ n # NULL /\ x # NULL /\ g # n /\ g # x
      /\ u # s => u = Other(s)
    BY JoinsFact
<1>3. /\ At(E, low) = At(D, low) /\ At(E, x) = D[x]
      /\ At(E, n) = {n} \cup D[x] \cup At(D, low)
    BY JoinAt
<1>4. \A k \in At(D, C[u][m]) : Beyond(u, k, m)
    BY <1>1 DEF Forest
<1>5. CASE m = n
    <2>1. K[u][m] = IF u = s THEN low ELSE x
        BY <1>1, <1>5 DEF JoinLinks
    <2> QED BY <1>1, <1>2, <1>3, <1>5, <2>1
<1>6. CASE m # n /\ m = g /\ u = s
    <2>1. K[u][m] = n
        BY <1>1, <1>6 DEF JoinLinks
    <2>2. x \in D[m] /\ m # x /\ C[s][m] = x /\ At(D, C[u][m]) = D[x]
        BY <1>1, <1>2, <1>6, JoinsFact, NodeFact DEF At
    <2> QED BY <1>1, <1>3, <1>4, <1>6, <2>1, <2>2
<1>7. CASE m # n /\ (m # g \/ u # s)
    <2>1. K[u][m] = C[u][m]
        BY <1>7 DEF JoinLinks
    <2>2. At(E, C[u][m]) = IF x \in At(D, C[u][m])
                           THEN At(D, C[u][m]) \cup {n} \cup At(D, low)
                           ELSE At(D, C[u][m])
        BY <1>7, JoinAt
    <2>3. CASE y \in At(D, C[u][m])
        BY <1>4, <2>3
    <2>4. CASE y \notin At(D, C[u][m])
        <3>1. x \in At(D, C[u][m]) /\ y \in {n} \cup At(D, low)
            BY <2>1, <2>2, <2>4
        <3>2. u = s
            BY <1>1, <3>1
        <3>3. x \in D[m] /\ m # x
            BY <1>1, <3>1, SubtreeFact DEF At
        <3> QED BY <1>1, <3>1, <3>2, <3>3
    <2> QED BY <2>3, <2>4
<1> QED BY <1>5, <1>6, <1>7

LEMMA JoinForest ==
    ASSUME NEW C, NEW P, NEW D, NEW n, NEW x, NEW low, NEW s, NEW g,
           Joins(C, P, D, n, x, low, s, g),
           NEW K, NEW Q, NEW E,
           K = JoinKids(C, n, x, low, s, g), Q = JoinParents(P, n, x, low, g),
           E = JoinTrees(D, n, x, low)
    PROVE  Forest(K, Q, E) /\ JoinLinks(C, P, D, K, Q, E, n, x, low, s, g)
<1>1. JoinLinks(C, P, D, K, Q, E, n, x, low, s, g)
    BY DEF JoinLinks, JoinKids, JoinParents, JoinTrees
<1>2. /\ Forest(C, P, D) /\ n \in Node /\ x \in Node /\ s \in Sides /\ low \in Pointer
      /\ g = P[x] /\ (g # NULL => C[s][g] = x) /\ low # n /\ x # n
    BY DEF Joins
<1>3. /\ \A m \in Node, u \in Sides : C[u][m] \in Pointer /\ C[u][m] # n
      /\ \A m \in Node : P[m] \in Pointer /\ P[m] # n /\ D[m] \subseteq Node
      /\ \A m \in Node, u \in Sides : C[u][m] = x <=> u = s /\ m = g
      /\ \A m \in Node, u \in Sides : low # NULL => C[u][m] # low
      /\ Other(s) \in Sides /\ Other(s) # s /\ \A u \in Sides : u # s => u = Other(s)
      /\ g \in Pointer /\ g # n /\ g # x /\ x # low
      /\ n # NULL /\ x # NULL
      /\ low # NULL => low \in Node
    BY JoinsFact
<1>4. n \in Pointer /\ x \in Pointer
    BY <1>2, NodeFact
<1>5. K \in Links
    BY <1>2, <1>3, <1>4 DEF Links, JoinKids
<1>6. Q \in [Node -> Pointer]
    BY <1>3, <1>4 DEF JoinParents
<1>7. E \in [Node -> SUBSET Node]
    <2>1. At(D, low) \subseteq Node
        BY <1>3 DEF At
    <2> QED BY <1>2, <1>3, <2>1 DEF JoinTrees
<1>8. \A m \in Node : \E u \in Sides :
          E[m] = {m} \cup At(E, K[u][m]) \cup At(E, K[Other(u)][m])
    BY <1>1, <1>2, JoinSums
<1>9. \A m \in Node, u \in Sides : \A y \in At(E, K[u][m]) : Beyond(u, y, m)
    BY <1>1, JoinOrder
<1>10. \A m \in Node, u \in Sides : K[u][m] # NULL => Q[K[u][m]] = m
    <2> TAKE m \in Node, u \in Sides
    <2> SUFFICES ASSUME K[u][m] # NULL PROVE Q[K[u][m]] = m
        OBVIOUS
    <2>1. CASE m = n
        <3>1. K[u][m] = low \/ K[u][m] = x
            BY <1>1, <2>1 DEF JoinLinks
        <3>2. K[u][m] \in Node /\ K[u][m] # n
            BY <1>2, <1>3, <3>1
        <3>3. Q[K[u][m]] = n
            BY <1>1, <3>1, <3>2 DEF JoinLinks
        <3> QED BY <2>1, <3>3
    <2>2. CASE m # n /\ u = s /\ m = g
        <3>1. K[u][m] = n
            BY <1>1, <2>2 DEF JoinLinks
        <3>2. Q[n] = g
            BY <1>1, <1>2 DEF JoinLinks
        <3> QED BY <2>2, <3>1, <3>2
    <2>3. CASE m # n /\ (u # s \/ m # g)
        <3>1. K[u][m] = C[u][m]
            BY <1>1, <2>3 DEF JoinLinks
        <3>2. C[u][m] \in Node /\ P[C[u][m]] = m
            BY <1>2, <1>3, <3>1, NodeFact DEF Forest
        <3>3. C[u][m] # n /\ C[u][m] # x /\ C[u][m] # low
            BY <1>3, <2>3, <3>1
        <3> QED BY <1>1, <3>1, <3>2, <3>3 DEF JoinLinks
    <2> QED BY <2>1, <2>2, <2>3
<1>11. \A m \in Node : Q[m] # NULL => \E u \in Sides : K[u][Q[m]] = m
    <2> TAKE m \in Node
    <2> SUFFICES ASSUME Q[m] # NULL PROVE \E u \in Sides : K[u][Q[m]] = m
        OBVIOUS
    <2>1. Q[m] = IF m = n THEN g ELSE IF m = x \/ m = low THEN n ELSE P[m]
        BY <1>1 DEF JoinLinks
    <2>2. CASE m = n
        <3>1. Q[m] = g /\ g \in Node
            BY <1>3, <2>1, <2>2, NodeFact
        <3>2. K[s][g] = n
            BY <1>1, <1>2, <1>3, <3>1 DEF JoinLinks
        <3> QED BY <1>2, <2>2, <3>1, <3>2
    <2>3. CASE m = x
        <3>1. Q[m] = n
            BY <1>2, <2>1, <2>3
        <3>2. K[Other(s)][n] = x
            BY <1>1, <1>2, <1>3 DEF JoinLinks
        <3> QED BY <1>3, <2>3, <3>1, <3>2
    <2>4. CASE m = low
        <3>1. Q[m] = n
            BY <1>2, <2>1, <2>4
        <3>2. K[s][n] = low
            BY <1>1, <1>2 DEF JoinLinks
        <3> QED BY <1>2, <2>4, <3>1, <3>2
    <2>5. CASE m # n /\ m # x /\ m # low
        <3>1. Q[m] = P[m] /\ P[m] \in Node /\ P[m] # n
            BY <1>3, <2>1, <2>5, NodeFact
        <3>2. PICK u \in Sides : C[u][P[m]] = m
            BY <1>2, <3>1 DEF Forest
        <3>3. ~(u = s /\ P[m] = g)
            BY <1>3, <2>5, <3>1, <3>2
        <3>4. K[u][P[m]] = C[u][P[m]]
            BY <1>1, <3>1, <3>3 DEF JoinLinks
        <3> QED BY <3>1, <3>2, <3>4
    <2> QED BY <2>2, <2>3, <2>4, <2>5
<1> QED BY <1>1, <1>5, <1>6, <1>7, <1>8, <1>9, <1>10, <1>11, ForestIs

(* g still sees the height of x.                                           *)
LEMMA JoinFits ==
    ASSUME NEW C, NEW P, NEW D, NEW n, NEW x, NEW low, NEW s, NEW g,
           Joins(C, P, D, n, x, low, s, g),
           NEW K, NEW Q, NEW E, JoinLinks(C, P, D, K, Q, E, n, x, low, s, g),
           NEW H, NEW V, Exact(C, H, V),
           NEW w \in Nat, NEW f, Poised(w, f, Other(s), V[x], Tall(V, low)),
           NEW I, \A m \in Node : I[m] = IF m = n THEN f ELSE H[m]
    PROVE  \E W : Fits(K, I, W, g, s, V[x]) /\ W[n] = w
<1>1. n \in Node /\ x \in Node /\ x # n /\ s \in Sides /\ low # n
    BY DEF Joins
<1>2. /\ \A m \in Node, u \in Sides : C[u][m] \in Pointer /\ C[u][m] # n
      /\ \A m \in Node, u \in Sides : C[u][m] = x <=> u = s /\ m = g
      /\ Other(s) \in Sides /\ Other(s) # s /\ Other(Other(s)) = s
      /\ g # n /\ n # NULL /\ x # NULL
    BY <1>1, JoinsFact, SidesFact
<1>3. PICK W : W = [m \in Node |-> IF m = n THEN w ELSE V[m]]
    OBVIOUS
<1>4. V \in [Node -> Nat] /\ W \in [Node -> Nat] /\ V[x] \in Nat /\ W[n] = w
    BY <1>1, <1>3 DEF Exact, Fits
<1>5. \A p : p # n /\ p \in Pointer => Tall(W, p) = Tall(V, p)
    BY <1>3, NodeFact DEF Tall
<1>6. ASSUME NEW m \in Node
      PROVE  \E u \in Sides : PoisedAt(K, I, W, m, u, g, s, V[x])
    <2>1. CASE m = n
        <3>1. K[s][m] = low /\ K[Other(s)][m] = x
            BY <1>1, <1>2, <2>1 DEF JoinLinks
        <3>2. /\ Seen(K, W, m, Other(s), g, s, V[x]) = Tall(W, x)
              /\ Seen(K, W, m, s, g, s, V[x]) = Tall(W, low)
            BY <1>2, <2>1, <3>1 DEF Seen
        <3>3. Tall(W, x) = V[x] /\ Tall(W, low) = Tall(V, low)
            <4>1. Tall(W, x) = V[x]
                BY <1>1, <1>2, <1>3 DEF Tall
            <4>2. low \in Pointer
                BY DEF Joins
            <4> QED BY <1>1, <1>5, <4>1, <4>2
        <3>4. W[m] = w /\ I[m] = f
            BY <1>4, <2>1
        <3>5. PoisedAt(K, I, W, m, Other(s), g, s, V[x])
            BY <1>2, <3>2, <3>3, <3>4 DEF PoisedAt
        <3> QED BY <1>2, <3>5
    <2>2. CASE m # n
        <3>1. W[m] = V[m] /\ I[m] = H[m]
            BY <1>3, <2>2
        <3>2. Seen(K, W, m, s, g, s, V[x]) = Tall(V, C[s][m])
            <4>1. CASE m = g
                BY <1>1, <1>2, <4>1 DEF Seen, Tall
            <4>2. CASE m # g
                <5>1. K[s][m] = C[s][m]
                    BY <1>1, <2>2, <4>2 DEF JoinLinks
                <5>2. Tall(W, C[s][m]) = Tall(V, C[s][m])
                    BY <1>1, <1>2, <1>5
                <5> QED BY <4>2, <5>1, <5>2 DEF Seen
            <4> QED BY <4>1, <4>2
        <3>3. Seen(K, W, m, Other(s), g, s, V[x]) = Tall(V, C[Other(s)][m])
            <4>1. K[Other(s)][m] = C[Other(s)][m]
                BY <1>2, <2>2 DEF JoinLinks
            <4>2. Tall(W, C[Other(s)][m]) = Tall(V, C[Other(s)][m])
                BY <1>2, <1>5
            <4> QED BY <1>2, <4>1, <4>2 DEF Seen
        <3>4. Poised(V[m], H[m], s, Tall(V, C[s][m]), Tall(V, C[Other(s)][m]))
            BY <1>1, ExactAt
        <3>5. PoisedAt(K, I, W, m, s, g, s, V[x])
            BY <3>1, <3>2, <3>3, <3>4 DEF PoisedAt
        <3> QED BY <1>1, <3>5
    <2> QED BY <2>1, <2>2
<1>7. Fits(K, I, W, g, s, V[x])
    BY <1>4, <1>6, FitsIs
<1> QED BY <1>4, <1>7

(* The sizes on the way up from n are computed anew: n and all above it    *)
(* count again, if the others do.                                          *)
LEMMA UpdatePathFact ==
    ASSUME NEW t, NEW D, Grove(t, D), NEW n \in Node,
           \A m \in Node : n \notin D[m] => Counts(t, D, m),
           NEW l, l = update_size_path(t, n)
    PROVE  SameLinks(l, t) /\ \A m \in Node : Counts(l, D, m)
<1> DEFINE path == Path(t, n)
           F(f) == [m \in Pointer |->
               IF m = NULL THEN 0
               ELSE IF m \notin path THEN t.size[m]
               ELSE 1 + f[t.left[m]] + f[t.right[m]]]
           d == [p \in Pointer |-> Cardinality(At(D, p))]
           g == CHOOSE f : f = F(f)
<1>1. Forest(Kids(t), t.parent, D) /\ Typed(t)
    BY DEF Grove
<1>2. path = {m \in Node : n \in D[m]}
    <2>1. NULL \notin Node /\ n \in Pointer
        BY NodeFact
    <2>2. \A m \in Node \ {NULL} : t.parent[m] = t.parent[m]
        OBVIOUS
    <2> QED BY <1>1, <2>1, <2>2, PathFact
<1> HIDE DEF path
<1>3. /\ \A m \in Node : t.left[m] \in Pointer /\ t.right[m] \in Pointer /\ m # NULL
                         /\ m \in Pointer
      /\ NULL \in Pointer /\ \A p \in Pointer : p # NULL => p \in Node
    BY <1>1, TypedFields, NodeFact
<1>4. \A m \in Node :
        Cardinality(D[m]) = 1 + Cardinality(At(D, t.left[m])) + Cardinality(At(D, t.right[m]))
    <2> TAKE m \in Node
    <2>1. "left" \in Sides /\ Other("left") = "right"
        BY SidesFact
    <2>2. Kids(t)["left"] = t.left /\ Kids(t)["right"] = t.right
        BY <1>1, KidsFact
    <2> QED BY <1>1, <2>1, <2>2, CountFact
<1>5. \A m \in Node : m \notin path => t.size[m] = Cardinality(D[m])
    BY <1>2 DEF Counts
<1>6. Cardinality({}) = 0
    BY FS_EmptySet
<1>7. d = F(d)
    <2>1. ASSUME NEW m \in Pointer PROVE F(d)[m] = Cardinality(At(D, m))
        <3>1. CASE m = NULL
            BY <1>6, <3>1 DEF At
        <3>2. CASE m # NULL /\ m \notin path
            <4>1. m \in Node
                BY <1>3, <3>2
            <4> QED BY <1>5, <3>2, <4>1 DEF At
        <3>3. CASE m # NULL /\ m \in path
            <4>1. m \in Node /\ t.left[m] \in Pointer /\ t.right[m] \in Pointer
                BY <1>3, <3>3
            <4>2. F(d)[m] = 1 + d[t.left[m]] + d[t.right[m]]
                <5> HIDE DEF d
                <5> QED BY <3>3
            <4>3. /\ d[t.left[m]] = Cardinality(At(D, t.left[m]))
                  /\ d[t.right[m]] = Cardinality(At(D, t.right[m]))
                BY <4>1
            <4>4. At(D, m) = D[m]
                BY <3>3 DEF At
            <4> HIDE DEF d, F
            <4> QED BY <1>4, <4>1, <4>2, <4>3, <4>4
        <3> QED BY <3>1, <3>2, <3>3
    <2> QED BY <2>1
<1> HIDE DEF d
<1>8. g = F(g)
    BY <1>7, Zenon
<1>9. l = [t EXCEPT !.size = [m \in Node |-> g[m]]]
    BY Zenon DEF update_size_path, path
<1> HIDE DEF g
<1>10. /\ g[NULL] = 0
       /\ \A m \in Node : g[m] = IF m \notin path THEN t.size[m]
                                 ELSE 1 + g[t.left[m]] + g[t.right[m]]
    BY <1>3, <1>8
<1> DEFINE S == {m \in Node : g[m] = Cardinality(D[m])}
<1>11. ASSUME NEW m \in Node,
              \A s \in Sides : Kids(t)[s][m] # NULL => Kids(t)[s][m] \in S
       PROVE  m \in S
    <2>1. /\ t.left[m] # NULL => t.left[m] \in S
          /\ t.right[m] # NULL => t.right[m] \in S
        BY <1>1, <1>11, KidsFact, SidesFact
    <2>2. /\ g[t.left[m]] = Cardinality(At(D, t.left[m]))
          /\ g[t.right[m]] = Cardinality(At(D, t.right[m]))
        BY <1>6, <1>10, <2>1 DEF At
    <2>3. g[m] = Cardinality(D[m])
        BY <1>4, <1>5, <1>10, <2>2
    <2> QED BY <2>3
<1>12. S = Node
    <2> HIDE DEF S
    <2>1. S \subseteq Node
        BY DEF S
    <2> QED BY <1>1, <1>11, <2>1, BottomUp
<1>13. \A m \in Node : g[m] = Cardinality(D[m]) /\ g[m] \in Nat
    <2>1. \A m \in Node : Cardinality(D[m]) \in Nat
        BY <1>1, SubtreeFinite
    <2> QED BY <1>12, <2>1
<1>14. SameLinks(l, t)
    <2>1. [m \in Node |-> g[m]] \in [Node -> Nat]
        BY <1>13
    <2> QED BY <1>1, <1>9, <2>1 DEF SameLinks, Typed
<1>15. \A m \in Node : l.size[m] = g[m]
    BY <1>1, <1>9 DEF Typed
<1> QED BY <1>13, <1>14, <1>15 DEF Counts

(* l is t with n, x and low joined, and the flags f of n.                  *)
JoinDone(t, l, n, x, low, s, g, f) ==
    /\ Typed(l)
    /\ \A m \in Node, u \in Sides : l[u][m] = JoinKids(Kids(t), n, x, low, s, g)[u][m]
    /\ \A m \in Node : l.parent[m] = JoinParents(t.parent, n, x, low, g)[m]
    /\ \A m \in Node : l.heavy[m] = IF m = n THEN f ELSE t.heavy[m]

LEMMA JoinedStable ==
    ASSUME NEW t, NEW D, NEW V, Stable(t, D, V),
           NEW n, NEW x, NEW low, NEW s, NEW g,
           Joins(Kids(t), t.parent, D, n, x, low, s, g),
           NEW l, NEW f, JoinDone(t, l, n, x, low, s, g, f),
           NEW E, E = JoinTrees(D, n, x, low), \A m \in Node : Counts(l, E, m),
           NEW w \in Nat, Poised(w, f, Other(s), V[x], Tall(V, low))
    PROVE  /\ Grove(l, E) /\ Summed(l)
           /\ \E W : Fits(Kids(l), l.heavy, W, g, s, V[x]) /\ W[n] = w
<1>1. PICK C, P : C = Kids(t) /\ P = t.parent
    OBVIOUS
<1>2. PICK K, Q : K = JoinKids(C, n, x, low, s, g) /\ Q = JoinParents(P, n, x, low, g)
    OBVIOUS
<1>3. Joins(C, P, D, n, x, low, s, g)
    BY <1>1
<1>4. Forest(K, Q, E) /\ JoinLinks(C, P, D, K, Q, E, n, x, low, s, g)
    BY <1>2, <1>3, JoinForest
<1>5. Grove(l, E)
    <2>1. /\ Typed(l)
          /\ \A m \in Node, u \in Sides : l[u][m] = K[u][m]
          /\ \A m \in Node : l.parent[m] = Q[m]
        BY <1>1, <1>2 DEF JoinDone
    <2> QED BY <1>4, <2>1, GroveIs
<1>6. Summed(l)
    BY <1>5, CountsSums
<1>7. JoinLinks(C, P, D, Kids(l), Q, E, n, x, low, s, g)
    <2>1. PICK k : k = Kids(l)
        OBVIOUS
    <2>2. \A m \in Node, u \in Sides : k[u][m] = K[u][m]
        BY <1>1, <1>2, <2>1, KidsFact DEF JoinDone
    <2>3. \A m \in Node, u \in Sides :
              k[u][m] = IF m = n THEN (IF u = s THEN low ELSE x)
                        ELSE IF u = s /\ m = g THEN n ELSE C[u][m]
        BY <1>4, <2>2 DEF JoinLinks
    <2>4. JoinLinks(C, P, D, k, Q, E, n, x, low, s, g)
        BY <1>4, <2>3 DEF JoinLinks
    <2> QED BY <2>1, <2>4
<1>8. Exact(C, t.heavy, V)
    BY <1>1 DEF Stable
<1>9. \A m \in Node : l.heavy[m] = IF m = n THEN f ELSE t.heavy[m]
    BY DEF JoinDone
<1>10. \E W : Fits(Kids(l), l.heavy, W, g, s, V[x]) /\ W[n] = w
    BY <1>3, <1>7, <1>8, <1>9, JoinFits
<1> QED BY <1>5, <1>6, <1>10

(* n is between the nodes N and the nodes M, which are on side s of it.    *)
Between(N, M, n, s) ==
    /\ s \in Sides /\ n \in Node /\ n \notin N /\ n \notin M
    /\ \A m \in N : Beyond(s, n, m)
    /\ \A m \in M : Beyond(s, m, n)

LEMMA JoinsAt ==
    ASSUME NEW t, NEW D, NEW V, Stable(t, D, V), NEW a \in Node, NEW N, NEW b, NEW M,
           Rooting(t, D, a, N), Rooting(t, D, b, M), N \cap M = {},
           NEW n, NEW s, Between(N, M, n, s), Single(t.parent, D, n),
           NEW x \in N, \A m \in Node, u \in Sides : x \in At(D, t[u][m]) => u = s,
           NEW g, g = t.parent[x]
    PROVE  Joins(Kids(t), t.parent, D, n, x, b, s, g)
<1>1. PICK C, P : C = Kids(t) /\ P = t.parent
    OBVIOUS
<1>2. /\ Typed(t) /\ Forest(C, P, D)
      /\ \A m \in Node, u \in Sides : C[u][m] = t[u][m]
    BY <1>1, KidsFact DEF Stable, Grove
<1>3. /\ s \in Sides /\ n \in Node /\ n \notin N /\ n \notin M
      /\ \A m \in N : Beyond(s, n, m)
      /\ \A m \in M : Beyond(s, m, n)
    BY DEF Between
<1>4. /\ N = D[a] /\ P[a] = NULL /\ N \subseteq Node
      /\ b \in Pointer /\ M = At(D, b) /\ (b # NULL => P[b] = NULL) /\ M \subseteq Node
    <2>1. N = D[a] /\ P[a] = NULL
        BY <1>1, NodeFact DEF Rooting, At
    <2>2. b \in Pointer /\ M = At(D, b) /\ (b # NULL => P[b] = NULL)
        BY <1>1 DEF Rooting
    <2> QED BY <1>2, <2>1, <2>2, ForestTyped
<1>5. x \in Node /\ x # n /\ D[x] \subseteq N
    BY <1>2, <1>3, <1>4, Inherits
<1>6. g # NULL => C[s][g] = x
    <2> SUFFICES ASSUME g # NULL PROVE C[s][g] = x
        OBVIOUS
    <2>1. g \in Node /\ x # NULL /\ x \in D[x]
        BY <1>1, <1>2, <1>5, ParentFact, NodeFact, SubtreeFact
    <2>2. PICK u \in Sides : C[u][g] = x
        BY <1>1, <1>2, <1>5, ParentFact
    <2>3. u = s
        BY <1>2, <2>1, <2>2 DEF At
    <2> QED BY <2>2, <2>3
<1>7. b # n
    <2>1. b # NULL => b \in M
        BY <1>2, <1>4, NodeFact, SubtreeFact DEF At
    <2> QED BY <1>3, <2>1, NodeFact
<1>8. \A m \in D[x] : Beyond(Other(s), m, n)
    <2> TAKE m \in D[x]
    <2>1. m \in Node /\ Beyond(s, n, m)
        BY <1>3, <1>4, <1>5
    <2> QED BY <1>3, <2>1, BeyondFact
<1>9. ASSUME NEW m \in Node, x \in D[m], m # x, NEW y \in {n} \cup At(D, b)
      PROVE  Beyond(s, y, m)
    <2>1. m \in N
        BY <1>2, <1>4, <1>5, <1>9, SameTree
    <2>2. Beyond(s, n, m)
        BY <1>3, <2>1
    <2>3. CASE y = n
        BY <2>2, <2>3
    <2>4. CASE y \in M
        <3>1. y \in Node /\ Beyond(s, y, n)
            BY <1>3, <1>4, <2>4
        <3> QED BY <1>3, <2>2, <3>1, BeyondFact
    <2> QED BY <1>4, <1>9, <2>3, <2>4
<1>10. x \notin At(D, b)
    BY <1>4
<1>11. \A m \in Node, u \in Sides : x \in At(D, C[u][m]) => u = s
    BY <1>2
<1>12. Single(P, D, n)
    BY <1>1
<1>13. \A m \in At(D, b) : Beyond(s, m, n)
    BY <1>3, <1>4
<1>14. Joins(C, P, D, n, x, b, s, g)
    BY <1>1, <1>2, <1>3, <1>4, <1>5, <1>6, <1>7, <1>8, <1>9, <1>10, <1>11, <1>12, <1>13
       DEF Joins
<1> QED BY <1>1, <1>14

(* Where the trees are about as tall, n becomes their root.                *)
LEMMA EvenRecord ==
    ASSUME NEW t, NEW D, Grove(t, D), \A m \in Node : Counts(t, D, m),
           NEW n, NEW x, NEW low,
           Joins(Kids(t), t.parent, D, n, x, low, "right", NULL),
           NEW joined, joined = Link(Link(t, n, x, "left"), n, low, "right"),
           NEW f \in Sides \cup {"none"},
           NEW l, l = Rooted([update_size(joined, n) EXCEPT !.heavy[n] = f], n),
           NEW E, E = JoinTrees(D, n, x, low)
    PROVE  /\ JoinDone(t, l, n, x, low, "right", NULL, f)
           /\ l.root = n
           /\ \A m \in Node : Counts(l, E, m)
<1>1. PICK C, P : C = Kids(t) /\ P = t.parent
    OBVIOUS
<1>2. /\ Typed(t) /\ Forest(C, P, D)
      /\ \A m \in Node, u \in Sides : C[u][m] = t[u][m]
    BY <1>1, KidsFact DEF Grove
<1>3. Joins(C, P, D, n, x, low, "right", NULL)
    BY <1>1
<1>4. n \in Node /\ x \in Node /\ low \in Pointer /\ x # n /\ low # n
    BY <1>3 DEF Joins
<1>5. /\ "left" \in Sides /\ "right" \in Sides /\ Other("right") = "left"
      /\ Sides = {"left", "right"} /\ "left" # "right"
      /\ n \in Pointer /\ x \in Pointer /\ NULL \in Pointer /\ n # NULL /\ x # NULL
      /\ \A m \in Node : m # NULL
    BY <1>4, SidesFact, NodeFact
<1>6. \A m \in Node : m = NULL <=> FALSE
    BY <1>5
<1>7. PICK k : k = Link(t, n, x, "left")
    OBVIOUS
<1>8. Joined(k, t, n, x, "left")
    BY <1>2, <1>5, <1>7, LinkFact
<1>9. Joined(joined, k, n, low, "right")
    <2>1. Typed(k)
        BY <1>8 DEF Joined
    <2> QED BY <1>4, <1>5, <1>7, <2>1, LinkFact
<1>10. PICK h : h = update_size(joined, n)
    OBVIOUS
<1>11. /\ SameLinks(h, joined)
       /\ \A m \in Node : h.size[m] = IF m = n THEN SumAt(joined, n, "left")
                                      ELSE joined.size[m]
    <2>1. Typed(joined)
        BY <1>9 DEF Joined
    <2> QED BY <1>4, <1>5, <1>10, <2>1, UpdateSizeFact
<1>12. PICK i : i = [h EXCEPT !.heavy[n] = f]
    OBVIOUS
<1>13. OneFlag(i, h, n, f)
    <2>1. Typed(h)
        BY <1>11 DEF SameLinks
    <2> QED BY <1>4, <1>12, <2>1, SetFlagFact
<1>14. Joined(l, i, NULL, n, "left") /\ l.root = n
    <2>1. Typed(i) /\ l = Attach(i, NULL, n, "left")
        BY <1>10, <1>12, <1>13 DEF OneFlag, SameShape, Rooted
    <2> QED BY <1>5, <2>1, AttachFact
<1>15. \A m \in Node, u \in Sides : l[u][m] = IF m = n THEN (IF u = "right" THEN low ELSE x)
                                              ELSE t[u][m]
    <2> TAKE m \in Node, u \in Sides
    <2>1. l[u][m] = i[u][m]
        BY <1>5, <1>14 DEF Joined
    <2>2. i[u][m] = joined[u][m]
        BY <1>5, <1>11, <1>13 DEF OneFlag, SameShape, SameLinks
    <2>3. joined[u][m] = IF u = "right" /\ m = n THEN low ELSE k[u][m]
        BY <1>9 DEF Joined
    <2>4. k[u][m] = IF u = "left" /\ m = n THEN x ELSE t[u][m]
        BY <1>8 DEF Joined
    <2> QED BY <1>5, <2>1, <2>2, <2>3, <2>4
<1>16. \A m \in Node : l.parent[m] = IF m = n THEN NULL
                                     ELSE IF m = x \/ m = low THEN n ELSE t.parent[m]
    <2> TAKE m \in Node
    <2>1. l.parent[m] = IF m = n THEN NULL ELSE i.parent[m]
        BY <1>14 DEF Joined
    <2>2. i.parent[m] = joined.parent[m]
        BY <1>11, <1>13 DEF OneFlag, SameShape, SameLinks
    <2>3. joined.parent[m] = IF m = low THEN n ELSE k.parent[m]
        BY <1>9 DEF Joined
    <2>4. k.parent[m] = IF m = x THEN n ELSE t.parent[m]
        BY <1>8 DEF Joined
    <2> QED BY <2>1, <2>2, <2>3, <2>4
<1>17. \A m \in Node : l.heavy[m] = IF m = n THEN f ELSE t.heavy[m]
    BY <1>8, <1>9, <1>11, <1>13, <1>14 DEF Joined, OneFlag, SameLinks
<1>18. Typed(l)
    BY <1>14 DEF Joined
<1>19. JoinDone(t, l, n, x, low, "right", NULL, f)
    <2>1. \A m \in Node, u \in Sides :
              l[u][m] = JoinKids(C, n, x, low, "right", NULL)[u][m]
        BY <1>2, <1>5, <1>15 DEF JoinKids
    <2>2. \A m \in Node : l.parent[m] = JoinParents(P, n, x, low, NULL)[m]
        BY <1>1, <1>16 DEF JoinParents
    <2> QED BY <1>1, <1>17, <1>18, <2>1, <2>2 DEF JoinDone
<1>20. \A m \in Node : E[m] = IF m = n THEN {n} \cup D[x] \cup At(D, low) ELSE D[m]
    <2>1. \A m \in Node : x \in D[m] => m = x
        <3>1. P[x] = NULL
            BY <1>3 DEF Joins
        <3> QED BY <1>2, <1>4, <3>1, AboveRoot
    <2> QED BY <2>1 DEF JoinTrees
<1>21. \A m \in Node : l.size[m] = IF m = n THEN SumAt(joined, n, "left") ELSE t.size[m]
    BY <1>8, <1>9, <1>11, <1>13, <1>14 DEF Joined, OneFlag, SameShape
<1>22. SumAt(joined, n, "left") = 1 + SizeAt(t, x) + SizeAt(t, low)
    <2>1. joined["left"][n] = x /\ joined["right"][n] = low /\ Other("left") = "right"
        BY <1>4, <1>5, <1>8, <1>9, SidesFact DEF Joined
    <2>2. joined.size = t.size
        BY <1>8, <1>9 DEF Joined
    <2> QED BY <2>1, <2>2 DEF SumAt, SizeAt
<1>23. Counts(l, E, n)
    <2>1. PICK K, Q : K = JoinKids(C, n, x, low, "right", NULL)
                      /\ Q = JoinParents(P, n, x, low, NULL)
        OBVIOUS
    <2>2. Forest(K, Q, E) /\ JoinLinks(C, P, D, K, Q, E, n, x, low, "right", NULL)
        BY <1>3, <2>1, JoinForest
    <2>3. K["left"][n] = x /\ K["right"][n] = low
        BY <1>4, <1>5, <2>2 DEF JoinLinks
    <2>4. At(E, x) = D[x] /\ At(E, low) = At(D, low)
        BY <1>3, <2>2, JoinAt
    <2>5. Cardinality(E[n]) = 1 + Cardinality(At(E, x)) + Cardinality(At(E, low))
        BY <1>4, <1>5, <2>2, <2>3, CountFact, SidesFact
    <2>6. SizeAt(t, x) = Cardinality(At(D, x)) /\ SizeAt(t, low) = Cardinality(At(D, low))
        <3>1. low # NULL => low \in Node
            BY <1>4, NodeFact
        <3> QED BY <1>4, <3>1, SizeCounts
    <2>7. At(D, x) = D[x]
        BY <1>5 DEF At
    <2> QED BY <1>4, <1>21, <1>22, <2>4, <2>5, <2>6, <2>7 DEF Counts
<1>24. \A m \in Node : Counts(l, E, m)
    BY <1>20, <1>21, <1>23 DEF Counts
<1> QED BY <1>14, <1>19, <1>24

LEMMA JoinedOutside ==
    ASSUME NEW t, NEW D, Grove(t, D), NEW N, N \subseteq Node, NEW M,
           NEW n, NEW x \in N, NEW b, NEW s, NEW g, NEW f, M = At(D, b), b \in Pointer,
           \A m \in Node \ (N \cup M \cup {n}) : Single(t.parent, D, m),
           NEW l, JoinDone(t, l, n, x, b, s, g, f),
           NEW E, E = JoinTrees(D, n, x, b)
    PROVE  \A m \in Node \ (N \cup M \cup {n}) : Single(l.parent, E, m)
<1> TAKE m \in Node \ (N \cup M \cup {n})
<1>1. D[m] = {m} /\ t.parent[m] = NULL
    BY DEF Single
<1>2. m # n /\ m # x
    OBVIOUS
<1>3. m # b
    <2>1. b # NULL => b \in M
        BY NodeFact, SubtreeFact DEF At, Grove
    <2> QED BY <2>1, NodeFact
<1>4. l.parent[m] = NULL
    BY <1>1, <1>2, <1>3 DEF JoinDone, JoinParents
<1>5. x \notin D[m]
    BY <1>1, <1>2
<1>6. E[m] = {m}
    BY <1>1, <1>2, <1>5 DEF JoinTrees
<1> QED BY <1>4, <1>6 DEF Single

LEMMA EvenFact ==
    ASSUME NEW t, NEW a, NEW b, NEW N, NEW M, Both(t, a, b, N, M), a # NULL,
           NEW n, Between(N, M, n, "right"),
           NEW lh, lh = height(t, a), NEW rh, rh = height(t, b),
           lh <= rh + 1, rh <= lh + 1,
           NEW l, l = MergeEven(t, n, a, b, lh, rh)
    PROVE  Both(l, l.root, NULL, N \cup M \cup {n}, {})
<1>1. PICK D, V :
        /\ Stable(t, D, V)
        /\ Rooting(t, D, a, N) /\ Rooting(t, D, b, M)
        /\ N \cap M = {}
        /\ \A m \in Node \ (N \cup M) : Single(t.parent, D, m)
    BY DEF Both
<1>2. /\ Grove(t, D) /\ Typed(t) /\ Forest(Kids(t), t.parent, D)
      /\ Exact(Kids(t), t.heavy, V) /\ V \in [Node -> Nat]
      /\ \A m \in Node : Counts(t, D, m)
    <2>1. Grove(t, D) /\ Summed(t) /\ Exact(Kids(t), t.heavy, V)
        BY <1>1 DEF Stable
    <2> QED BY <2>1, SumsCounts DEF Grove, Exact, Fits
<1>3. /\ a \in Node /\ N = D[a] /\ t.parent[a] = NULL
      /\ b \in Pointer /\ M = At(D, b)
      /\ N \subseteq Node /\ M \subseteq Node /\ a \in N
    <2>1. /\ a \in Node /\ N = D[a] /\ t.parent[a] = NULL
          /\ b \in Pointer /\ M = At(D, b)
        BY <1>1, NodeFact DEF Rooting, At
    <2> QED BY <1>2, <2>1, ForestTyped, SubtreeFact
<1>4. n \in Node /\ n \notin N /\ n \notin M /\ "right" \in Sides /\ Other("right") = "left"
    BY SidesFact DEF Between
<1>5. Single(t.parent, D, n)
    BY <1>1, <1>4
<1>6. Joins(Kids(t), t.parent, D, n, a, b, "right", NULL)
    <2>1. ASSUME NEW m \in Node, NEW u \in Sides, a \in At(D, t[u][m]) PROVE FALSE
        <3>1. t[u][m] \in Node /\ a \in D[t[u][m]]
            BY <1>2, <2>1, SizeAtFact, NodeFact DEF At
        <3>2. t[u][m] = a
            BY <1>2, <1>3, <3>1, AboveRoot
        <3>3. Kids(t)[u][m] = a
            BY <1>2, <3>2, KidsFact
        <3>4. t.parent[a] = m
            BY <1>2, <3>3, NodeFact, <1>3 DEF Forest
        <3> QED BY <1>3, <3>4, NodeFact
    <2>2. \A m \in Node, u \in Sides : a \in At(D, t[u][m]) => u = "right"
        BY <2>1
    <2> QED BY <1>1, <1>3, <1>5, <2>2, JoinsAt
<1>7. lh = V[a] /\ rh = Tall(V, b) /\ lh \in Nat /\ rh \in Nat
    <2>1. height(t, a) = Tall(V, a) /\ height(t, b) = Tall(V, b)
        BY <1>2, <1>3, HeightFact, NodeFact
    <2>2. Tall(V, a) = V[a] /\ V[a] \in Nat /\ Tall(V, b) \in Nat
        BY <1>2, <1>3, TallFact
    <2> QED BY <2>1, <2>2
<1>8. PICK f : f = IF lh > rh THEN "left" ELSE IF lh < rh THEN "right" ELSE "none"
    OBVIOUS
<1>9. f \in Sides \cup {"none"}
    BY <1>8, SidesFact
<1>10. PICK w : w = IF lh > rh THEN lh + 1 ELSE rh + 1
    OBVIOUS
<1>11. w \in Nat /\ Poised(w, f, "left", lh, rh)
    BY <1>7, <1>8, <1>10, SidesFact DEF Poised
<1>12. PICK joined : joined = Link(Link(t, n, a, "left"), n, b, "right")
    OBVIOUS
<1>13. l = Rooted([update_size(joined, n) EXCEPT !.heavy[n] = f], n)
    BY <1>8, <1>12 DEF MergeEven
<1>14. PICK E : E = JoinTrees(D, n, a, b)
    OBVIOUS
<1>15. /\ JoinDone(t, l, n, a, b, "right", NULL, f)
       /\ l.root = n
       /\ \A m \in Node : Counts(l, E, m)
    BY <1>2, <1>6, <1>9, <1>12, <1>13, <1>14, EvenRecord
<1>16. /\ Grove(l, E) /\ Summed(l)
       /\ \E W : Fits(Kids(l), l.heavy, W, NULL, "right", V[a]) /\ W[n] = w
    <2>1. Poised(w, f, Other("right"), V[a], Tall(V, b))
        BY <1>4, <1>7, <1>11
    <2> QED BY <1>1, <1>6, <1>11, <1>14, <1>15, <2>1, JoinedStable
<1>17. PICK W : Exact(Kids(l), l.heavy, W)
    <2>1. PICK W : Fits(Kids(l), l.heavy, W, NULL, "right", V[a])
        BY <1>16
    <2>2. Exact(Kids(l), l.heavy, W)
        BY <2>1, NodeFact, ExactFact
    <2> QED BY <2>2
<1>18. Stable(l, E, W)
    BY <1>16, <1>17 DEF Stable
<1>19. PICK K : K = N \cup M \cup {n}
    OBVIOUS
<1>20. E[n] = K
    BY <1>3, <1>4, <1>14, <1>19 DEF JoinTrees
<1>21. l.parent[n] = NULL
    BY <1>4, <1>15 DEF JoinDone, JoinParents
<1>22. Rooting(l, E, n, K) /\ Rooting(l, E, NULL, {})
    BY <1>4, <1>20, <1>21, NodeFact DEF Rooting, At
<1>23. \A m \in Node \ (K \cup {}) : Single(l.parent, E, m)
    <2>1. \A m \in Node \ (N \cup M \cup {n}) : Single(l.parent, E, m)
        <3>1. \A m \in Node \ (N \cup M \cup {n}) : Single(t.parent, D, m)
            BY <1>1
        <3> QED BY <1>2, <1>3, <1>14, <1>15, <3>1, JoinedOutside
    <2> QED BY <1>19, <2>1
<1>24. Both(l, n, NULL, K, {})
    BY <1>18, <1>22, <1>23 DEF Both
<1> QED BY <1>15, <1>19, <1>24

(* Where one tree is taller, n goes into it: the record of the merged tree *)
(* before the loop up the spine.                                           *)
TallerOf(t, n, x, low, s, g, f) ==
    LET inner == Link(t, n, x, Other(s))
        joined == Link(Link(inner, n, low, s), g, n, s)
    IN  [update_size_path(joined, n) EXCEPT !.heavy[n] = f]

TallerDone(t, l, D, n, x, low, s, g, f) ==
    /\ JoinDone(t, l, n, x, low, s, g, f)
    /\ l.root = t.root
    /\ \A m \in Node : Counts(l, JoinTrees(D, n, x, low), m)

Tallied(t, D) == Grove(t, D) /\ \A m \in Node : Counts(t, D, m)

LEMMA TallerRecord ==
    ASSUME NEW t, NEW D, Tallied(t, D),
           NEW n, NEW x, NEW low, NEW s, NEW g,
           Joins(Kids(t), t.parent, D, n, x, low, s, g), g # NULL,
           NEW f, f \in Sides \cup {"none"},
           NEW l, l = TallerOf(t, n, x, low, s, g, f)
    PROVE  TallerDone(t, l, D, n, x, low, s, g, f)
<1> SUFFICES ASSUME NEW inner, inner = Link(t, n, x, Other(s)),
                    NEW joined, joined = Link(Link(inner, n, low, s), g, n, s),
                    l = [update_size_path(joined, n) EXCEPT !.heavy[n] = f],
                    NEW E, E = JoinTrees(D, n, x, low),
                    Grove(t, D), \A m \in Node : Counts(t, D, m)
             PROVE  /\ JoinDone(t, l, n, x, low, s, g, f)
                    /\ l.root = t.root
                    /\ \A m \in Node : Counts(l, E, m)
    BY DEF Tallied, TallerOf, TallerDone
<1>1. PICK C, P : C = Kids(t) /\ P = t.parent
    OBVIOUS
<1>2. /\ Typed(t) /\ Forest(C, P, D)
      /\ \A m \in Node, u \in Sides : C[u][m] = t[u][m]
    BY <1>1, KidsFact DEF Grove
<1>3. Joins(C, P, D, n, x, low, s, g)
    BY <1>1
<1>4. n \in Node /\ x \in Node /\ low \in Pointer /\ x # n /\ low # n /\ s \in Sides
    BY <1>3 DEF Joins
<1>5. /\ Other(s) \in Sides /\ Other(s) # s /\ \A u \in Sides : u # s => u = Other(s)
      /\ g \in Pointer /\ g # n /\ x # low
      /\ n \in Pointer /\ x \in Pointer /\ n # NULL /\ x # NULL
    BY <1>3, <1>4, JoinsFact, NodeFact
<1>6. PICK k : k = Link(inner, n, low, s)
    OBVIOUS
<1>7. Joined(inner, t, n, x, Other(s)) /\ inner.root = t.root
    BY <1>2, <1>5, LinkFact
<1>8. Joined(k, inner, n, low, s) /\ k.root = inner.root
    <2>1. Typed(inner)
        BY <1>7 DEF Joined
    <2> QED BY <1>4, <1>5, <1>6, <2>1, LinkFact
<1>9. Joined(joined, k, g, n, s) /\ joined.root = k.root
    <2>1. Typed(k)
        BY <1>8 DEF Joined
    <2> QED BY <1>4, <1>5, <1>6, <2>1, LinkFact
<1>10. \A m \in Node, u \in Sides :
           joined[u][m] = IF m = n THEN (IF u = s THEN low ELSE x)
                          ELSE IF u = s /\ m = g THEN n ELSE t[u][m]
    <2> TAKE m \in Node, u \in Sides
    <2>1. joined[u][m] = IF u = s /\ m = g THEN n ELSE k[u][m]
        BY <1>9 DEF Joined
    <2>2. k[u][m] = IF u = s /\ m = n THEN low ELSE inner[u][m]
        BY <1>8 DEF Joined
    <2>3. inner[u][m] = IF u = Other(s) /\ m = n THEN x ELSE t[u][m]
        BY <1>7 DEF Joined
    <2> QED BY <1>5, <2>1, <2>2, <2>3
<1>11. \A m \in Node : joined.parent[m] = IF m = n THEN g
                                          ELSE IF m = x \/ m = low THEN n ELSE t.parent[m]
    <2> TAKE m \in Node
    <2>1. joined.parent[m] = IF m = n THEN g ELSE k.parent[m]
        BY <1>9 DEF Joined
    <2>2. k.parent[m] = IF m = low THEN n ELSE inner.parent[m]
        BY <1>8 DEF Joined
    <2>3. inner.parent[m] = IF m = x THEN n ELSE t.parent[m]
        BY <1>7 DEF Joined
    <2> QED BY <2>1, <2>2, <2>3
<1>12. joined.size = t.size /\ joined.heavy = t.heavy /\ Typed(joined) /\ joined.root = t.root
    BY <1>7, <1>8, <1>9 DEF Joined
<1>13. PICK K, Q : K = JoinKids(C, n, x, low, s, g) /\ Q = JoinParents(P, n, x, low, g)
    OBVIOUS
<1>14. Forest(K, Q, E) /\ JoinLinks(C, P, D, K, Q, E, n, x, low, s, g)
    BY <1>3, <1>13, JoinForest
<1>15. Grove(joined, E)
    <2>1. \A m \in Node, u \in Sides : joined[u][m] = K[u][m]
        BY <1>2, <1>10, <1>14 DEF JoinLinks
    <2>2. \A m \in Node : joined.parent[m] = Q[m]
        BY <1>1, <1>11, <1>14 DEF JoinLinks
    <2> QED BY <1>12, <1>14, <2>1, <2>2, GroveIs
<1>16. \A m \in Node : n \notin E[m] => Counts(joined, E, m)
    <2>1. \A m \in Node : n \notin E[m] => E[m] = D[m]
        BY <1>14 DEF JoinLinks
    <2> QED BY <1>12, <2>1 DEF Counts
<1>17. PICK h : h = update_size_path(joined, n)
    OBVIOUS
<1>18. SameLinks(h, joined) /\ \A m \in Node : Counts(h, E, m)
    BY <1>4, <1>15, <1>16, <1>17, UpdatePathFact
<1>19. OneFlag(l, h, n, f)
    <2>1. Typed(h)
        BY <1>18 DEF SameLinks
    <2> QED BY <1>4, <1>17, <2>1, SetFlagFact
<1>20. \A m \in Node : Counts(l, E, m)
    BY <1>18, <1>19 DEF Counts, OneFlag, SameShape
<1>21. l.root = t.root
    BY <1>12, <1>18, <1>19 DEF OneFlag, SameShape, SameLinks
<1>22. JoinDone(t, l, n, x, low, s, g, f)
    <2>1. \A m \in Node, u \in Sides : l[u][m] = joined[u][m]
        <3>1. \A u \in Sides : h[u] = joined[u]
            BY <1>18, SameLinksFact
        <3>2. \A u \in Sides : l[u] = h[u]
            <4>1. SameShape(l, h)
                BY <1>19 DEF OneFlag
            <4> QED BY <4>1, SameShapeFact
        <3> QED BY <3>1, <3>2
    <2>2. l.parent = joined.parent /\ Typed(l)
        BY <1>18, <1>19 DEF OneFlag, SameShape, SameLinks
    <2>3. \A m \in Node : l.heavy[m] = IF m = n THEN f ELSE t.heavy[m]
        BY <1>12, <1>18, <1>19 DEF OneFlag, SameLinks
    <2>4. \A m \in Node, u \in Sides : l[u][m] = K[u][m]
        BY <1>2, <1>10, <1>14, <2>1 DEF JoinLinks
    <2>5. \A m \in Node : l.parent[m] = Q[m]
        BY <1>1, <1>11, <1>14, <2>2 DEF JoinLinks
    <2> QED BY <1>1, <1>13, <2>2, <2>3, <2>4, <2>5 DEF JoinDone
<1> QED BY <1>20, <1>21, <1>22

(* A tree with no other beside it.                                         *)
LEMMA FineAlone ==
    ASSUME NEW t, NEW P, NEW B, NEW N, Fine(t, P, B, N), \A m \in Node \ N : Free(P, B, m)
    PROVE  Both(t, t.root, NULL, N, {})
<1>1. PICK D, V : Kept(t, D, P, B, N) /\ Exact(Kids(t), t.heavy, V)
    BY DEF Fine
<1>2. Stable(t, D, V)
    BY <1>1 DEF Stable, Kept
<1>3. Rooting(t, D, t.root, N)
    BY <1>1, TypedFields, KeptFact DEF Rooting, Kept
<1>4. Rooting(t, D, NULL, {})
    BY NodeFact DEF Rooting, At
<1>5. \A m \in Node \ (N \cup {}) : Single(t.parent, D, m)
    BY <1>1 DEF Kept, Free, Single
<1> QED BY <1>2, <1>3, <1>4, <1>5 DEF Both

(* What is above the last node has it on that side.                        *)
LEMMA LastSpine ==
    ASSUME NEW C, NEW P, NEW D, Forest(C, P, D), NEW a \in Node, P[a] = NULL,
           NEW N, N = D[a], NEW s \in Sides, NEW e, Last(N, s, e),
           NEW x \in N, e \in D[x]
    PROVE  \A m \in Node, u \in Sides : x \in At(D, C[u][m]) => u = s
<1> SUFFICES ASSUME NEW m \in Node, NEW u \in Sides, x \in At(D, C[u][m])
             PROVE  u = s
    OBVIOUS
<1>1. N \subseteq Node /\ x \in Node /\ e \in Node
    BY ForestTyped DEF Last
<1>2. C[u][m] \in Node /\ C[u][m] # NULL /\ x \in D[C[u][m]]
    BY ForestTyped DEF At
<1>3. e \in D[C[u][m]]
    BY <1>1, <1>2, Inherits
<1>4. e # m /\ Beyond(u, e, m) /\ D[C[u][m]] \subseteq D[m]
    BY <1>2, <1>3, SubtreeFact
<1>5. m \in N
    BY <1>1, <1>2, <1>4, SameTree
<1>6. Beyond(s, e, m)
    BY <1>4, <1>5 DEF Last
<1>7. SUFFICES ASSUME u # s PROVE FALSE
    OBVIOUS
<1>8. u = Other(s)
    BY <1>7, SidesFact
<1>9. Beyond(Other(s), e, m)
    BY <1>4, <1>8
<1>10. Beyond(s, m, e)
    BY <1>1, <1>9, BeyondFact
<1> QED BY <1>1, <1>6, <1>10, BeyondFact

LEMMA TallerFact ==
    ASSUME NEW t, NEW a, NEW b, NEW N, NEW M, Both(t, a, b, N, M), a # NULL, t.root = a,
           NEW n, NEW s, Between(N, M, n, s),
           NEW low, low = height(t, b), height(t, a) > low + 1,
           b = NULL => t[Other(s)][Outermost(t, a, s)] = NULL,
           NEW l, l = MergeTaller(t, n, b, low, s)
    PROVE  Both(l, l.root, NULL, N \cup M \cup {n}, {})
<1>1. PICK D, V :
        /\ Stable(t, D, V)
        /\ Rooting(t, D, a, N) /\ Rooting(t, D, b, M)
        /\ N \cap M = {}
        /\ \A m \in Node \ (N \cup M) : Single(t.parent, D, m)
    BY DEF Both
<1>2. /\ Grove(t, D) /\ Typed(t) /\ Forest(Kids(t), t.parent, D) /\ Summed(t)
      /\ Exact(Kids(t), t.heavy, V) /\ V \in [Node -> Nat]
      /\ \A m \in Node : Counts(t, D, m)
    <2>1. Grove(t, D) /\ Summed(t) /\ Exact(Kids(t), t.heavy, V)
        BY <1>1 DEF Stable
    <2> QED BY <2>1, SumsCounts DEF Grove, Exact, Fits
<1>3. /\ a \in Node /\ N = D[a] /\ t.parent[a] = NULL
      /\ b \in Pointer /\ M = At(D, b)
      /\ N \subseteq Node /\ M \subseteq Node /\ a \in N
    <2>1. /\ a \in Node /\ N = D[a] /\ t.parent[a] = NULL
          /\ b \in Pointer /\ M = At(D, b)
        BY <1>1, NodeFact DEF Rooting, At
    <2> QED BY <1>2, <2>1, ForestTyped, SubtreeFact
<1>4. /\ n \in Node /\ n \notin N /\ n \notin M /\ s \in Sides
      /\ Other(s) \in Sides /\ Other(s) # s /\ s # "none" /\ Other(s) # "none"
      /\ Other(Other(s)) = s /\ n # NULL
    BY SidesFact, NodeFact DEF Between
<1>5. Single(t.parent, D, n)
    BY <1>1, <1>4
<1>6. low = Tall(V, b) /\ low \in Nat /\ V[a] \in Nat /\ V[a] > low + 1
    <2>1. height(t, a) = Tall(V, a) /\ height(t, b) = Tall(V, b)
        BY <1>2, <1>3, HeightFact, NodeFact
    <2>2. Tall(V, a) = V[a] /\ V[a] \in Nat /\ Tall(V, b) \in Nat
        BY <1>2, <1>3, TallFact
    <2> QED BY <2>1, <2>2
<1>7. PICK e : e = Outermost(t, a, s)
    OBVIOUS
<1>8. e \in Node /\ e \in N /\ t[s][e] = NULL /\ Last(N, s, e)
    <2>1. /\ e \in Node /\ e \in D[a] /\ t[s][e] = NULL
          /\ \A m \in D[a] : m = e \/ Beyond(s, e, m)
        BY <1>2, <1>3, <1>4, <1>7, EndFact
    <2> QED BY <1>3, <2>1 DEF Last
<1>9. height(t, e) = V[e] /\ V[e] \in Nat /\ V[e] <= low + 1
    <2>1. height(t, e) = V[e] /\ V[e] \in Nat
        BY <1>2, <1>8, HeightFact, TallFact, NodeFact
    <2>2. PICK o : o = Tall(V, t[Other(s)][e])
        OBVIOUS
    <2>3. o \in Nat /\ Poised(V[e], t.heavy[e], s, 0, o)
        <3>1. Poised(V[e], t.heavy[e], s, Tall(V, Kids(t)[s][e]), Tall(V, Kids(t)[Other(s)][e]))
            BY <1>2, <1>4, <1>8, ExactAt
        <3>2. /\ Kids(t)[s][e] = NULL /\ Kids(t)[Other(s)][e] = t[Other(s)][e]
              /\ t[Other(s)][e] \in Pointer
            BY <1>2, <1>4, <1>8, KidsFact, SizeAtFact
        <3> QED BY <1>2, <2>2, <3>1, <3>2, TallFact
    <2>4. V[e] = o + 1 /\ o <= 1
        BY <1>4, <2>1, <2>3 DEF Poised
    <2>5. CASE b = NULL
        BY <1>7, <2>1, <2>2, <2>4, <2>5, <1>6 DEF Tall
    <2>6. CASE b # NULL
        <3>1. b \in Node
            BY <1>3, <2>6, NodeFact
        <3>2. low = V[b] /\ Poised(V[b], t.heavy[b], s, Tall(V, Kids(t)[s][b]),
                                   Tall(V, Kids(t)[Other(s)][b]))
            BY <1>2, <1>4, <1>6, <3>1, ExactAt, TallFact
        <3>3. Tall(V, Kids(t)[s][b]) \in Nat /\ Tall(V, Kids(t)[Other(s)][b]) \in Nat
            BY <1>2, <1>4, <3>1, TallFact, ForestTyped
        <3>4. low >= 1
            BY <1>6, <3>2, <3>3 DEF Poised
        <3> QED BY <1>6, <2>1, <2>3, <2>4, <3>4
    <2> QED BY <2>1, <2>5, <2>6
<1>10. Climbs(t, D, V, N, s, e, low)
    <2>1. Kept(t, D, t.parent, D, N)
        BY <1>2, <1>3, NodeFact DEF Kept, At
    <2>2. low <= V[t.root]
        BY <1>6
    <2> QED BY <1>2, <1>4, <1>6, <1>8, <1>9, <2>1, <2>2 DEF Climbs
<1>11. PICK at : at = Climbed(t, e, height(t, e), low, s)
    OBVIOUS
<1>12. PICK x \in Rungs(D, V, N, e, low) :
           at = Climbing(t, s, low, x, V[x]) /\ low <= V[x]
    BY <1>9, <1>10, <1>11, ClimbEnds
<1>13. /\ x \in N /\ e \in D[x] /\ V[x] <= low + 1 /\ low <= V[x]
       /\ x \in Node /\ V[x] \in Nat
       /\ at.probe = x /\ at.height = V[x]
    BY <1>2, <1>3, <1>12 DEF Rungs, Climbing
<1>14. PICK g : g = t.parent[x]
    OBVIOUS
<1>15. x # a /\ g # NULL /\ g \in N /\ g \in Node /\ x \in D[g]
    <2>1. x # a
        BY <1>6, <1>13
    <2>2. g # NULL /\ g \in N
        BY <1>2, <1>3, <1>13, <1>14, <2>1, ParentAbove
    <2> QED BY <1>2, <1>3, <1>13, <1>14, <2>1, <2>2, ParentFact
<1>16. Joins(Kids(t), t.parent, D, n, x, b, s, g)
    <2>1. \A m \in Node, u \in Sides : x \in At(D, Kids(t)[u][m]) => u = s
        BY <1>2, <1>3, <1>4, <1>8, <1>13, LastSpine
    <2>2. \A m \in Node, u \in Sides : x \in At(D, t[u][m]) => u = s
        BY <1>2, <2>1, KidsFact
    <2> QED BY <1>1, <1>3, <1>5, <1>13, <1>14, <2>2, JoinsAt
<1>17. PICK f : f = IF V[x] > low THEN Other(s) ELSE IF V[x] < low THEN s ELSE "none"
    OBVIOUS
<1>18. f \in Sides \cup {"none"} /\ Poised(V[x] + 1, f, Other(s), V[x], low)
    <2>1. f \in Sides \cup {"none"}
        BY <1>4, <1>17
    <2>2. Poised(V[x] + 1, f, Other(s), V[x], low)
        BY <1>4, <1>6, <1>13, <1>17 DEF Poised
    <2> QED BY <2>1, <2>2
<1>21. PICK k : k = TallerOf(t, n, x, b, s, g, f)
    OBVIOUS
<1>22. l = SpineGrown(k, g, s)
    BY <1>7, <1>11, <1>13, <1>14, <1>17, <1>21 DEF MergeTaller, TallerOf
<1>23. PICK E : E = JoinTrees(D, n, x, b)
    OBVIOUS
<1>24. /\ JoinDone(t, k, n, x, b, s, g, f)
       /\ k.root = a
       /\ \A m \in Node : Counts(k, E, m)
    <2>1. Tallied(t, D)
        BY <1>2 DEF Tallied
    <2>2. TallerDone(t, k, D, n, x, b, s, g, f)
        BY <1>15, <1>16, <1>18, <1>21, <2>1, TallerRecord
    <2> QED BY <1>3, <1>23, <2>2 DEF TallerDone
<1>25. PICK w : w = V[x] + 1
    OBVIOUS
<1>26. /\ Grove(k, E) /\ Summed(k)
       /\ \E W : Fits(Kids(k), k.heavy, W, g, s, V[x]) /\ W[n] = w
    <2>1. w \in Nat /\ Poised(w, f, Other(s), V[x], Tall(V, b))
        BY <1>6, <1>13, <1>18, <1>25
    <2> QED BY <1>1, <1>16, <1>23, <1>24, <2>1, JoinedStable
<1>27. PICK W : Fits(Kids(k), k.heavy, W, g, s, V[x]) /\ W[n] = V[x] + 1
    BY <1>25, <1>26
<1>28. PICK K : K = N \cup M \cup {n}
    OBVIOUS
<1>29. PICK P, B : P = k.parent /\ B = E
    OBVIOUS
<1>30. \A m \in Node : E[m] = IF m = n THEN {n} \cup D[x] \cup M
                              ELSE IF x \in D[m] /\ m # x THEN D[m] \cup {n} \cup M ELSE D[m]
    BY <1>3, <1>23 DEF JoinTrees
<1>31. Kept(k, E, P, B, K)
    <2>1. E[a] = K
        BY <1>3, <1>4, <1>13, <1>15, <1>28, <1>30
    <2>2. k.parent[a] = NULL
        <3>1. a # b
            <4>1. b # NULL => b \in M
                BY <1>2, <1>3, NodeFact, SubtreeFact DEF At
            <4> QED BY <1>1, <1>3, <4>1
        <3> QED BY <1>3, <1>4, <1>15, <1>24, <3>1 DEF JoinDone, JoinParents
    <2>3. At(E, k.root) = K
        BY <1>3, <1>24, <2>1, NodeFact DEF At
    <2> QED BY <1>24, <1>26, <1>29, <2>2, <2>3 DEF Kept
<1>32. GrowsAt(k, W, g, s, V[x], K)
    <2>1. k[s][g] = n
        <3>1. k[s][g] = JoinKids(Kids(t), n, x, b, s, g)[s][g]
            BY <1>4, <1>15, <1>24 DEF JoinDone
        <3> QED BY <1>4, <1>15, <3>1 DEF JoinKids
    <2> QED BY <1>4, <1>15, <1>27, <1>28, <2>1 DEF GrowsAt
<1>33. PICK d : d = Outermost(k, n, s)
    OBVIOUS
<1>34. d \in E[n] /\ \A m \in E[n] : m = d \/ Beyond(s, d, m)
    BY <1>4, <1>26, <1>33, EndFact
<1>35. D[x] \subseteq D[g] /\ D[x] \subseteq N
    BY <1>2, <1>3, <1>13, <1>15, Inherits
<1>36. Last(K, s, d)
    <2>1. E[n] = {n} \cup D[x] \cup M
        BY <1>4, <1>30
    <2>2. d \in K /\ d \in Node
        BY <1>3, <1>4, <1>28, <1>34, <1>35, <2>1
    <2>3. ASSUME NEW m \in K PROVE m = d \/ Beyond(s, d, m)
        <3>1. CASE m \in E[n]
            BY <1>34, <3>1
        <3>2. CASE m \notin E[n]
            <4>1. m \in N /\ m \in Node /\ Beyond(s, n, m)
                BY <1>3, <1>28, <2>1, <3>2 DEF Between
            <4>2. d = n \/ Beyond(s, d, n)
                BY <1>34, <2>1
            <4>3. CASE d = n
                BY <4>1, <4>3
            <4>4. CASE Beyond(s, d, n)
                BY <1>4, <2>2, <4>1, <4>4, BeyondFact
            <4> QED BY <4>2, <4>3, <4>4
        <3> QED BY <3>1, <3>2
    <2> QED BY <2>2, <2>3 DEF Last
<1>37. d \in E[g]
    <2>1. g # n /\ g # x
        <3>1. g # x
            BY <1>2, <1>13, <1>14, <1>15, ParentFact
        <3> QED BY <1>4, <1>15, <3>1
    <2>2. E[g] = D[g] \cup {n} \cup M
        BY <1>15, <1>30, <2>1
    <2>3. E[n] = {n} \cup D[x] \cup M
        BY <1>4, <1>30
    <2> QED BY <1>34, <1>35, <2>2, <2>3
<1>38. Going(k, g, s) \in SpineIn(P, B, K, s)
    BY <1>31, <1>32, <1>36, <1>37, SpineGoes
<1>39. Fine(l, P, B, K)
    <2>1. PICK c : c = Going(k, g, s)
        OBVIOUS
    <2>2. c \in SpineIn(P, B, K, s) /\ l = Loop(SpineRound, c).tree
        BY <1>22, <1>38, <2>1 DEF SpineGrown
    <2>3. \E D1, V1 : Kept(l, D1, P, B, K) /\ Exact(Kids(l), l.heavy, V1)
        BY <1>4, <2>2, SpineFact
    <2> QED BY <2>3 DEF Fine
<1>40. \A m \in Node \ K : Free(P, B, m)
    <2>1. \A m \in Node \ (N \cup M \cup {n}) : Single(k.parent, E, m)
        <3>1. \A m \in Node \ (N \cup M \cup {n}) : Single(t.parent, D, m)
            BY <1>1
        <3> QED BY <1>2, <1>3, <1>13, <1>23, <1>24, <3>1, JoinedOutside
    <2> QED BY <1>28, <1>29, <2>1 DEF Single, Free
<1> QED BY <1>28, <1>39, <1>40, FineAlone

(* The node between the two trees goes where the heights say.              *)
LEMMA MergeAroundFact ==
    ASSUME NEW t, NEW a, NEW b, NEW N, NEW M, Both(t, a, b, N, M), a # NULL, t.root = b,
           NEW n, Between(N, M, n, "right"),
           b = NULL => \A e : Last(N, "right", e) => t.left[e] = NULL,
           NEW l, l = MergeAround(t, a, n)
    PROVE  Both(l, l.root, NULL, N \cup M \cup {n}, {})
<1>1. PICK D, V : Stable(t, D, V) /\ Rooting(t, D, a, N)
    BY DEF Both
<1>2. Grove(t, D) /\ Typed(t) /\ Exact(Kids(t), t.heavy, V)
    BY <1>1 DEF Stable, Grove
<1>3. a \in Pointer /\ b \in Pointer /\ a \in Node
    BY BothFact, NodeFact
<1>4. PICK lh, rh : lh = height(t, a) /\ rh = height(t, b)
    OBVIOUS
<1>5. /\ lh \in Nat /\ rh \in Nat /\ lh = Tall(V, a) /\ rh = Tall(V, b)
      /\ b = NULL => rh = 0
    <2>1. lh = Tall(V, a) /\ rh = Tall(V, b)
        BY <1>2, <1>3, <1>4, HeightFact
    <2>2. V \in [Node -> Nat]
        BY <1>2 DEF Exact, Fits
    <2> QED BY <1>3, <2>1, <2>2, TallFact DEF Tall
<1>6. l = IF lh > rh + 1
              THEN MergeTaller([t EXCEPT !.root = a], n, b, rh, "right")
          ELSE IF rh > lh + 1 THEN MergeTaller(t, n, a, lh, "left")
          ELSE MergeEven(t, n, a, b, lh, rh)
    BY <1>4 DEF MergeAround
<1>7. CASE lh > rh + 1
    <2>1. PICK t1 : t1 = [t EXCEPT !.root = a]
        OBVIOUS
    <2>2. SameHeap(t1, t) /\ t1.root = a
        BY <1>2, <1>3, <2>1, SameHeapFact
    <2>3. Both(t1, a, b, N, M)
        BY <2>2, SameBoth
    <2>4. Grove(t1, D) /\ Exact(Kids(t1), t1.heavy, V)
        <3>1. Stable(t1, D, V)
            BY <1>1, <2>2, SameHeapIs
        <3> QED BY <3>1 DEF Stable
    <2>5. height(t1, a) = lh /\ height(t1, b) = rh
        BY <1>3, <1>5, <2>4, HeightFact
    <2>6. PICK e : e = Outermost(t1, a, "right")
        OBVIOUS
    <2>7. Last(N, "right", e)
        <3>1. e \in D[a] /\ \A m \in D[a] : m = e \/ Beyond("right", e, m)
            BY <1>3, <2>4, <2>6, EndFact, SidesFact
        <3>2. N = D[a]
            BY <1>1, <1>3, NodeFact DEF Rooting, At
        <3> QED BY <3>1, <3>2 DEF Last
    <2>8. b = NULL => t1[Other("right")][Outermost(t1, a, "right")] = NULL
        BY <2>2, <2>6, <2>7, SidesFact DEF SameHeap
    <2>9. l = MergeTaller(t1, n, b, rh, "right")
        BY <1>6, <1>7, <2>1
    <2>10. height(t1, a) > rh + 1 /\ rh = height(t1, b)
        BY <1>7, <2>5
    <2> QED BY <2>2, <2>3, <2>8, <2>9, <2>10, TallerFact
<1>8. CASE rh > lh + 1
    <2>1. b # NULL
        BY <1>5, <1>8
    <2>2. Both(t, b, a, M, N)
        BY BothSwapped
    <2>3. Between(M, N, n, "left")
        BY BothFact, BeyondFact, SidesFact DEF Between, Beyond
    <2>4. l = MergeTaller(t, n, a, lh, "left")
        BY <1>5, <1>6, <1>8
    <2>5. height(t, b) > lh + 1
        BY <1>4, <1>8
    <2>6. Both(l, l.root, NULL, M \cup N \cup {n}, {})
        BY <1>4, <2>1, <2>2, <2>3, <2>4, <2>5, TallerFact
    <2>7. M \cup N \cup {n} = N \cup M \cup {n}
        OBVIOUS
    <2> QED BY <2>6, <2>7
<1>9. CASE ~(lh > rh + 1) /\ ~(rh > lh + 1)
    <2>1. l = MergeEven(t, n, a, b, lh, rh)
        BY <1>6, <1>9
    <2>2. lh <= rh + 1 /\ rh <= lh + 1
        BY <1>5, <1>9
    <2> QED BY <1>4, <2>1, <2>2, EvenFact
<1> QED BY <1>7, <1>8, <1>9

(* merge of a tree at a with a greater one at b, given in either order.    *)
Stranded(h, a, b) ==
    SizeAt(h, b) = 1 /\ h.left[EndOf([h EXCEPT !.root = a], "right")] # NULL

LEMMA MergeFact ==
    ASSUME NEW h, NEW a, NEW b, NEW N, NEW M, Both(h, a, b, N, M), a # NULL, b # NULL,
           Lower(N, M), ~Stranded(h, a, b),
           NEW l, l = AVLMerge(h, a, b) \/ l = AVLMerge(h, b, a)
    PROVE  Both(l, l.root, NULL, N \cup M, {})
<1>1. /\ Typed(h) /\ a \in Node /\ b \in Node /\ a \in N /\ b \in M
      /\ N \subseteq Node /\ M \subseteq Node /\ N \cap M = {}
    BY BothFact, NodeFact
<1>2. PICK g : g = [h EXCEPT !.root = b]
    OBVIOUS
<1>3. SameHeap(g, h) /\ g.root = b
    BY <1>1, <1>2, SameHeapFact, NodeFact
<1>4. PICK n : n = EndOf(g, "left")
    OBVIOUS
<1>5. PICK k : k = AVLRemove(g, n)
    OBVIOUS
<1>6. l = MergeAround(k, a, n)
    <2>1. /\ KeyOf[a] < KeyOf[b] /\ ~(KeyOf[b] < KeyOf[a])
        BY <1>1, NodeFact DEF Lower
    <2> QED BY <1>2, <1>4, <1>5, <2>1 DEF AVLMerge
<1>7. PICK D, V :
        /\ Stable(h, D, V) /\ Rooting(h, D, a, N) /\ Rooting(h, D, b, M)
    BY DEF Both
<1>8. Grove(h, D) /\ N = D[a] /\ M = D[b] /\ Grove(g, D) /\ Summed(h)
    <2>1. Grove(h, D) /\ Summed(h)
        BY <1>7 DEF Stable
    <2>2. Grove(g, D)
        BY <1>3, <2>1, SameHeapIs
    <2> QED BY <1>1, <1>7, <2>1, <2>2, NodeFact DEF Rooting, At
<1>9. n \in M /\ n \in Node /\ \A m \in M : m = n \/ Beyond("left", n, m)
    <2>1. n = Outermost(g, b, "left")
        BY <1>1, <1>3, <1>4, NodeFact DEF EndOf
    <2> QED BY <1>1, <1>8, <2>1, EndFact, SidesFact
<1>10. PICK P, B :
        /\ Fine(g, P, B, M)
        /\ \A m \in Node \ N : Free(P, B, m)
        /\ Beside(P, B, a, N)
        /\ \A m \in N : B[m] = NodesAt(h, m)
    <2>1. Both(h, b, a, M, N)
        BY BothSwapped
    <2> QED BY <1>3, <2>1, BothFine
<1>11. PICK K : K = M \ {n}
    OBVIOUS
<1>12. Fine(k, P, B, K)
    <2>1. Free(P, B, n)
        BY <1>1, <1>9, <1>10
    <2> QED BY <1>5, <1>9, <1>10, <1>11, <2>1, FineRemove
<1>13. Both(k, a, k.root, N, K)
    <2>1. K \cap N = {}
        BY <1>1, <1>11
    <2>2. Both(k, k.root, a, K, N)
        BY <1>10, <1>12, <2>1 DEF Beside
    <2> QED BY <2>2, BothSwapped
<1>14. Between(N, K, n, "right")
    <2>1. \A m \in N : Beyond("right", n, m)
        BY <1>9 DEF Lower, Beyond
    <2>2. \A m \in K : Beyond("right", m, n)
        BY <1>9, <1>11 DEF Beyond
    <2> QED BY <1>1, <1>9, <1>11, <2>1, <2>2, SidesFact DEF Between
<1>15. ASSUME k.root = NULL, NEW e, Last(N, "right", e)
       PROVE  k.left[e] = NULL
    <2>1. K = {}
        BY <1>13, <1>15, BothFact
    <2>2. M = {n} /\ n = b
        BY <1>1, <1>9, <1>11, <2>1
    <2>3. SizeAt(h, b) = 1
        <3>1. Counts(h, D, b)
            BY <1>1, <1>8, SumsCounts
        <3>2. Cardinality({n}) = 1
            BY FS_Singleton
        <3> QED BY <1>1, <1>8, <2>2, <3>1, <3>2, NodeFact DEF Counts, SizeAt
    <2>4. PICK f : f = Outermost([h EXCEPT !.root = a], a, "right")
        OBVIOUS
    <2>5. h.left[f] = NULL
        <3>1. EndOf([h EXCEPT !.root = a], "right") = f
            <4>1. [h EXCEPT !.root = a].root = a
                BY <1>1, NodeFact, SameHeapFact
            <4> QED BY <2>4, <4>1 DEF EndOf
        <3> QED BY <2>3, <3>1 DEF Stranded
    <2>6. f \in Node /\ f \in N /\ h.right[f] = NULL /\ \A m \in N : m = f \/ Beyond("right", f, m)
        <3>1. PICK t : t = [h EXCEPT !.root = a]
            OBVIOUS
        <3>2. SameHeap(t, h)
            BY <1>1, <3>1, SameHeapFact, NodeFact
        <3>3. Grove(t, D)
            BY <1>8, <3>2, SameHeapIs
        <3>5. f = Outermost(t, a, "right")
            BY <2>4, <3>1
        <3>4. /\ f \in Node /\ f \in D[a] /\ t["right"][f] = NULL
              /\ \A m \in D[a] : m = f \/ Beyond("right", f, m)
            BY <1>1, <3>3, <3>5, EndFact, SidesFact
        <3> QED BY <1>8, <3>2, <3>4 DEF SameHeap
    <2>7. e = f
        <3>1. e \in N /\ e \in Node /\ (f = e \/ Beyond("right", e, f))
            BY <1>1, <1>15, <2>6 DEF Last
        <3> QED BY <2>6, <3>1, BeyondFact, SidesFact
    <2>8. D[f] = {f}
        <3>1. Kids(h)["left"][f] = NULL /\ Kids(h)["right"][f] = NULL
            BY <1>1, <2>5, <2>6, KidsFact
        <3> QED BY <1>8, <2>6, <3>1 DEF Grove, Forest, At
    <2>9. B[f] = {f}
        <3>1. NodesAt(h, f) = D[f]
            BY <1>8, <2>6, NodesAtFact, NodeFact DEF At
        <3> QED BY <1>10, <2>6, <2>8, <3>1
    <2>10. PICK E : Grove(k, E) /\ E[f] = B[f]
        BY <1>12, <2>1, <2>6, FineOutside
    <2>11. k.left[f] = Kids(k)["left"][f] /\ Forest(Kids(k), k.parent, E)
        BY <2>10, KidsFact DEF Grove
    <2>12. Kids(k)["left"][f] = NULL
        <3>1. E[f] = {f}
            BY <2>9, <2>10
        <3> QED BY <2>6, <2>11, <3>1, SubtreeFact, SidesFact
    <2> QED BY <2>7, <2>11, <2>12
<1>16. Both(l, l.root, NULL, N \cup K \cup {n}, {})
    <2>1. k.root = NULL => \A e : Last(N, "right", e) => k.left[e] = NULL
        BY <1>15
    <2> QED BY <1>6, <1>13, <1>14, <2>1, MergeAroundFact
<1>17. N \cup K \cup {n} = N \cup M
    BY <1>9, <1>11
<1> QED BY <1>16, <1>17

-----------------------------------------------------------------------------
(* The operations on two trees.                                            *)

LEMMA TreeOfBoth ==
    ASSUME NEW h, NEW a, NEW b, NEW N, NEW M, Both(h, a, b, N, M),
           NEW t, t = [h EXCEPT !.root = a]
    PROVE  /\ SameHeap(t, h) /\ t.root = a /\ NodesOf(t) = N
           /\ \A s \in Sides : a # NULL => Last(N, s, EndOf(t, s))
<1>1. Typed(h) /\ a \in Pointer
    BY BothFact
<1>2. SameHeap(t, h) /\ t.root = a
    BY <1>1, SameHeapFact
<1>3. Both(t, a, b, N, M)
    BY <1>2, SameBoth
<1>4. NodesOf(t) = N
    BY <1>2, <1>3, BothFact DEF NodesOf
<1>5. PICK D : Grove(t, D) /\ N = At(D, a)
    BY <1>3 DEF Both, Stable, Rooting
<1>6. ASSUME NEW s \in Sides, a # NULL PROVE Last(N, s, EndOf(t, s))
    <2>1. PICK e : e = Outermost(t, a, s)
        OBVIOUS
    <2>2. EndOf(t, s) = e
        BY <1>2, <1>6, <2>1 DEF EndOf
    <2>3. a \in Node /\ N = D[a]
        BY <1>1, <1>5, <1>6, NodeFact DEF At
    <2>4. e \in D[a] /\ \A m \in D[a] : m = e \/ Beyond(s, e, m)
        BY <1>5, <1>6, <2>1, <2>3, EndFact
    <2> QED BY <2>2, <2>3, <2>4 DEF Last
<1> QED BY <1>2, <1>4, <1>6

LEMMA HeapFact ==
    ASSUME NEW l, NEW a, NEW b, NEW N, NEW M, Both(l, a, b, N, M)
    PROVE  Both(Heap(l), a, b, N, M)
<1>1. PICK k : k = Heap(l)
    OBVIOUS
<1>2. SameHeap(k, l)
    BY <1>1, BothFact, SameHeapFact, NodeFact DEF Heap
<1>3. Both(k, a, b, N, M)
    BY <1>2, SameBoth
<1> QED BY <1>1, <1>3

LEMMA BothInsert ==
    ASSUME NEW h, NEW a, NEW b, NEW N, NEW M, Both(h, a, b, N, M),
           NEW n \in Node, n \notin N \cup M,
           NEW t, t = [h EXCEPT !.root = a], NEW l, l = AVLInsert(t, n)
    PROVE  Both(Heap(l), l.root, b, Without(N, KeyOf[n]) \cup {n}, M)
<1>1. SameHeap(t, h) /\ t.root = a
    BY TreeOfBoth
<1>2. PICK P, B :
        /\ Fine(t, P, B, N)
        /\ \A m \in Node \ M : Free(P, B, m)
        /\ Beside(P, B, b, M)
    BY <1>1, BothFine
<1>3. N \subseteq Node /\ N \cap M = {}
    BY BothFact
<1>4. PICK K : K = Without(N, KeyOf[n]) \cup {n}
    OBVIOUS
<1>5. K \cap M = {}
    BY <1>3, <1>4 DEF Without
<1>6. Fine(l, P, B, K)
    <2>1. \A m \in N \cup {n} : Free(P, B, m)
        BY <1>2, <1>3
    <2> QED BY <1>2, <1>4, <2>1, FineInsert
<1>7. Both(l, l.root, b, K, M)
    BY <1>2, <1>5, <1>6 DEF Beside
<1> QED BY <1>4, <1>7, HeapFact

LEMMA BothRemove ==
    ASSUME NEW h, NEW a, NEW b, NEW N, NEW M, Both(h, a, b, N, M), NEW n \in N,
           NEW t, t = [h EXCEPT !.root = a], NEW l, l = AVLRemove(t, n)
    PROVE  Both(Heap(l), l.root, b, N \ {n}, M)
<1>1. SameHeap(t, h) /\ t.root = a
    BY TreeOfBoth
<1>2. PICK P, B :
        /\ Fine(t, P, B, N)
        /\ \A m \in Node \ M : Free(P, B, m)
        /\ Beside(P, B, b, M)
    BY <1>1, BothFine
<1>3. N \subseteq Node /\ N \cap M = {}
    BY BothFact
<1>4. PICK K : K = N \ {n}
    OBVIOUS
<1>5. K \cap M = {}
    BY <1>3, <1>4
<1>6. Fine(l, P, B, K)
    <2>1. Free(P, B, n)
        BY <1>2, <1>3
    <2> QED BY <1>2, <1>4, <2>1, FineRemove
<1>7. Both(l, l.root, b, K, M)
    BY <1>2, <1>5, <1>6 DEF Beside
<1> QED BY <1>4, <1>7, HeapFact

LEMMA BothSplit ==
    ASSUME NEW h, NEW a, NEW N, NEW M, Both(h, a, NULL, N, M), a # NULL,
           NEW t, t = [h EXCEPT !.root = a], NEW s, s = AVLSplit(t)
    PROVE  \E L, R : /\ Both(Heap(s.tree), s.left, s.right, L, R)
                     /\ L \cup R = N /\ Lower(L, R)
<1>1. SameHeap(t, h) /\ t.root = a
    BY TreeOfBoth
<1>2. M = {}
    BY BothFact
<1>3. Both(t, t.root, NULL, N, {})
    BY <1>1, <1>2, SameBoth
<1>4. PICK L, R : Both(s.tree, s.left, s.right, L, R) /\ L \cup R = N /\ Lower(L, R)
    <2>1. t.root # NULL
        BY <1>1
    <2> QED BY <1>3, <2>1, SplitFact DEF Parted
<1>5. Both(Heap(s.tree), s.left, s.right, L, R)
    BY <1>4, HeapFact
<1> QED BY <1>4, <1>5

-----------------------------------------------------------------------------
(* The inductive invariant.  Besides the two trees, in order, the heap has *)
(* nothing: every other node is by itself, as insert finds it.  Sizes and  *)
(* flags are exact on the whole heap, for remove, split and merge to work  *)
(* out the new ones from a few of them.                                    *)

Whole == \E N, M : Both(heap, lo, hi, N, M) /\ Lower(N, M)

KeysIn(N, M) == {KeyOf[m] : m \in N \cup M}

Added(N, n) == Without(N, KeyOf[n]) \cup {n}

(* What a step makes of the trees of N and M: trees of N1 and M1.          *)
Becomes(N1, M1, K) ==
    Both(heap', lo', hi', N1, M1) /\ Lower(N1, M1) /\ KeysIn(N1, M1) = K

LEMMA ContentsFact ==
    ASSUME NEW h, NEW a, NEW b, NEW N, NEW M, Both(h, a, b, N, M)
    PROVE  /\ NodesOf([h EXCEPT !.root = a]) = N
           /\ NodesOf([h EXCEPT !.root = b]) = M
<1>1. Both(h, b, a, M, N)
    BY BothSwapped
<1> QED BY <1>1, TreeOfBoth

(* The key goes in, and no other key goes out.                             *)
LEMMA KeysInsert ==
    ASSUME NEW N, NEW M, NEW n
    PROVE  KeysIn(Added(N, n), M) = KeysIn(N, M) \cup {KeyOf[n]}
    BY DEF KeysIn, Without, Added

LEMMA KeysSwapped ==
    ASSUME NEW N, NEW M
    PROVE  KeysIn(N, M) = KeysIn(M, N)
    BY DEF KeysIn

LEMMA InsertLower ==
    ASSUME NEW N, NEW M, Both(heap, lo, hi, N, M), Lower(N, M),
           NEW n \in Node, n \notin N \cup M,
           hi # NULL => KeyOf[n] < KeyOf[EndOf(Hi, "left")],
           LoBecomes(AVLInsert(Lo, n))
    PROVE  \E N1, M1 : Becomes(N1, M1, KeysIn(N, M) \cup {KeyOf[n]})
<1>1. N \subseteq Node /\ M \subseteq Node /\ (hi = NULL <=> M = {})
    BY BothFact
<1>2. PICK N1 : N1 = Added(N, n)
    OBVIOUS
<1>3. PICK t, l : t = [heap EXCEPT !.root = lo] /\ l = AVLInsert(t, n)
    OBVIOUS
<1>4. heap' = Heap(l) /\ lo' = l.root /\ hi' = hi
    BY <1>3 DEF LoBecomes, Lo
<1>5. Both(Heap(l), l.root, hi, N1, M)
    BY <1>2, <1>3, BothInsert DEF Added
<1>6. ASSUME NEW x \in M PROVE KeyOf[n] < KeyOf[x]
    <2>1. hi # NULL /\ x \in Node
        BY <1>1, <1>6
    <2>2. PICK e : e = EndOf(Hi, "left")
        OBVIOUS
    <2>3. Last(M, "left", e)
        <3>1. Both(heap, hi, lo, M, N)
            BY BothSwapped
        <3> QED BY <2>1, <2>2, <3>1, TreeOfBoth, SidesFact DEF Hi
    <2>4. e \in Node /\ (x = e \/ KeyOf[e] < KeyOf[x]) /\ KeyOf[n] < KeyOf[e]
        BY <1>1, <2>1, <2>2, <2>3 DEF Last, Beyond
    <2> QED BY <2>1, <2>4, NodeFact
<1>7. Lower(N1, M)
    BY <1>2, <1>6 DEF Lower, Added, Without
<1>8. KeysIn(N1, M) = KeysIn(N, M) \cup {KeyOf[n]}
    BY <1>2, KeysInsert
<1> QED BY <1>4, <1>5, <1>7, <1>8 DEF Becomes

LEMMA InsertUpper ==
    ASSUME NEW N, NEW M, Both(heap, lo, hi, N, M), Lower(N, M),
           NEW n \in Node, n \notin N \cup M,
           lo # NULL => KeyOf[EndOf(Lo, "right")] < KeyOf[n],
           HiBecomes(AVLInsert(Hi, n))
    PROVE  \E N1, M1 : Becomes(N1, M1, KeysIn(N, M) \cup {KeyOf[n]})
<1>1. N \subseteq Node /\ M \subseteq Node /\ (lo = NULL <=> N = {})
    BY BothFact
<1>2. PICK M1 : M1 = Added(M, n)
    OBVIOUS
<1>3. PICK t, l : t = [heap EXCEPT !.root = hi] /\ l = AVLInsert(t, n)
    OBVIOUS
<1>4. heap' = Heap(l) /\ hi' = l.root /\ lo' = lo
    BY <1>3 DEF HiBecomes, Hi
<1>5. Both(Heap(l), lo, l.root, N, M1)
    <2>1. Both(heap, hi, lo, M, N) /\ n \notin M \cup N
        BY BothSwapped
    <2>2. Both(Heap(l), l.root, lo, M1, N)
        BY <1>2, <1>3, <2>1, BothInsert DEF Added
    <2> QED BY <2>2, BothSwapped
<1>6. ASSUME NEW x \in N PROVE KeyOf[x] < KeyOf[n]
    <2>1. lo # NULL /\ x \in Node
        BY <1>1, <1>6
    <2>2. PICK e : e = EndOf(Lo, "right")
        OBVIOUS
    <2>3. Last(N, "right", e)
        BY <2>1, <2>2, TreeOfBoth, SidesFact DEF Lo
    <2>4. e \in Node /\ (x = e \/ KeyOf[x] < KeyOf[e]) /\ KeyOf[e] < KeyOf[n]
        BY <1>1, <2>1, <2>2, <2>3, SidesFact DEF Last, Beyond
    <2> QED BY <2>1, <2>4, NodeFact
<1>7. Lower(N, M1)
    BY <1>2, <1>6 DEF Lower, Added, Without
<1>8. KeysIn(N, M1) = KeysIn(N, M) \cup {KeyOf[n]}
    <2>1. KeysIn(M1, N) = KeysIn(M, N) \cup {KeyOf[n]}
        BY <1>2, KeysInsert
    <2> QED BY <2>1, KeysSwapped
<1> QED BY <1>4, <1>5, <1>7, <1>8 DEF Becomes

LEMMA InsertWhole ==
    ASSUME NEW N, NEW M, Both(heap, lo, hi, N, M), Lower(N, M),
           NEW n \in Node \ Members, Insert(n)
    PROVE  \E N1, M1 : Becomes(N1, M1, KeysIn(N, M) \cup {KeyOf[n]})
<1>1. n \notin N \cup M
    BY ContentsFact DEF Members, Lo, Hi
<1> QED BY <1>1, InsertLower, InsertUpper DEF Insert

(* A key is in the trees once.                                             *)
LEMMA KeysOnce ==
    ASSUME NEW h, NEW a, NEW b, NEW N, NEW M, Both(h, a, b, N, M), Lower(N, M)
    PROVE  \A x \in N \cup M, y \in N \cup M : KeyOf[x] = KeyOf[y] => x = y
<1>1. PICK D, V : Stable(h, D, V) /\ Rooting(h, D, a, N) /\ Rooting(h, D, b, M)
    BY DEF Both
<1>2. Forest(Kids(h), h.parent, D)
    BY <1>1 DEF Stable, Grove
<1>3. ASSUME NEW r, NEW K, Rooting(h, D, r, K)
      PROVE  \A x \in K, y \in K : KeyOf[x] = KeyOf[y] => x = y
    <2> SUFFICES ASSUME r # NULL PROVE \A x \in K, y \in K : KeyOf[x] = KeyOf[y] => x = y
        BY <1>3 DEF Rooting, At
    <2>1. r \in Node /\ K = D[r]
        BY <1>3, NodeFact DEF Rooting, At
    <2> QED BY <1>2, <2>1, TreeKeysDiffer
<1>4. N \subseteq Node /\ M \subseteq Node
    BY BothFact
<1> TAKE x \in N \cup M, y \in N \cup M
<1>5. KeyOf[x] \in Nat /\ KeyOf[y] \in Nat
    BY <1>4, NodeFact
<1>6. x \in N /\ y \in M => KeyOf[x] # KeyOf[y]
    BY <1>5 DEF Lower
<1>7. x \in M /\ y \in N => KeyOf[x] # KeyOf[y]
    BY <1>5 DEF Lower
<1> QED BY <1>1, <1>3, <1>6, <1>7

LEMMA KeysRemove ==
    ASSUME NEW N, NEW M, NEW n \in N, n \notin M,
           \A x \in N \cup M, y \in N \cup M : KeyOf[x] = KeyOf[y] => x = y
    PROVE  KeysIn(N \ {n}, M) = KeysIn(N, M) \ {KeyOf[n]}
    BY DEF KeysIn

Removes(N, M) ==
    \E N1, M1, n : n \in N \cup M /\ Becomes(N1, M1, KeysIn(N, M) \ {KeyOf[n]})

LEMMA RemoveWhole ==
    ASSUME NEW N, NEW M, Both(heap, lo, hi, N, M), Lower(N, M), Remove
    PROVE  Removes(N, M)
<1>1. NodesOf(Lo) = N /\ NodesOf(Hi) = M
    BY ContentsFact DEF Lo, Hi
<1>2. N \cap M = {}
    BY BothFact
<1>3. \A x \in N \cup M, y \in N \cup M : KeyOf[x] = KeyOf[y] => x = y
    BY KeysOnce
<1>4. CASE \E n \in NodesOf(Lo) : LoBecomes(AVLRemove(Lo, n))
    <2>1. PICK n \in N : LoBecomes(AVLRemove(Lo, n))
        BY <1>1, <1>4
    <2>2. PICK t, l : t = [heap EXCEPT !.root = lo] /\ l = AVLRemove(t, n)
        OBVIOUS
    <2>3. heap' = Heap(l) /\ lo' = l.root /\ hi' = hi
        BY <2>1, <2>2 DEF LoBecomes, Lo
    <2>4. PICK N1 : N1 = N \ {n}
        OBVIOUS
    <2>5. Both(Heap(l), l.root, hi, N1, M)
        BY <2>2, <2>4, BothRemove
    <2>6. Lower(N1, M)
        BY <2>4 DEF Lower
    <2>7. KeysIn(N1, M) = KeysIn(N, M) \ {KeyOf[n]}
        BY <1>2, <1>3, <2>4, KeysRemove
    <2> QED BY <2>3, <2>5, <2>6, <2>7 DEF Becomes, Removes
<1>5. CASE \E n \in NodesOf(Hi) : HiBecomes(AVLRemove(Hi, n))
    <2>1. PICK n \in M : HiBecomes(AVLRemove(Hi, n))
        BY <1>1, <1>5
    <2>2. PICK t, l : t = [heap EXCEPT !.root = hi] /\ l = AVLRemove(t, n)
        OBVIOUS
    <2>3. heap' = Heap(l) /\ hi' = l.root /\ lo' = lo
        BY <2>1, <2>2 DEF HiBecomes, Hi
    <2>4. PICK M1 : M1 = M \ {n}
        OBVIOUS
    <2>5. Both(Heap(l), lo, l.root, N, M1)
        <3>1. Both(heap, hi, lo, M, N)
            BY BothSwapped
        <3>2. Both(Heap(l), l.root, lo, M1, N)
            BY <2>2, <2>4, <3>1, BothRemove
        <3> QED BY <3>2, BothSwapped
    <2>6. Lower(N, M1)
        BY <2>4 DEF Lower
    <2>7. KeysIn(N, M1) = KeysIn(N, M) \ {KeyOf[n]}
        <3>1. n \notin N /\ \A x \in M \cup N, y \in M \cup N : KeyOf[x] = KeyOf[y] => x = y
            BY <1>2, <1>3
        <3>2. KeysIn(M1, N) = KeysIn(M, N) \ {KeyOf[n]}
            BY <2>4, <3>1, KeysRemove
        <3> QED BY <3>2, KeysSwapped
    <2> QED BY <2>3, <2>5, <2>6, <2>7 DEF Becomes, Removes
<1> QED BY <1>4, <1>5 DEF Remove

LEMMA SplitWhole ==
    ASSUME NEW N, NEW M, Both(heap, lo, hi, N, M), Split
    PROVE  \E N1, M1 : Becomes(N1, M1, KeysIn(N, M))
<1>1. lo # NULL /\ hi = NULL
    BY DEF Split
<1>2. PICK t, s : t = [heap EXCEPT !.root = lo] /\ s = AVLSplit(t)
    OBVIOUS
<1>3. heap' = Heap(s.tree) /\ lo' = s.left /\ hi' = s.right
    BY <1>2 DEF Split, Lo
<1>4. Both(heap, lo, NULL, N, M) /\ M = {}
    BY <1>1, BothFact
<1>5. PICK L, R : /\ Both(Heap(s.tree), s.left, s.right, L, R)
                  /\ L \cup R = N /\ Lower(L, R)
    BY <1>1, <1>2, <1>4, BothSplit
<1>6. KeysIn(L, R) = KeysIn(N, M)
    <2>1. L \cup R = N \cup M
        BY <1>4, <1>5
    <2> QED BY <2>1 DEF KeysIn
<1> QED BY <1>3, <1>5, <1>6 DEF Becomes

LEMMA MergeWhole ==
    ASSUME NEW N, NEW M, Both(heap, lo, hi, N, M), Lower(N, M), Merge, ~StrandsMerge
    PROVE  \E N1, M1 : Becomes(N1, M1, KeysIn(N, M))
<1>1. lo # NULL /\ hi # NULL
    BY DEF Merge
<1>2. PICK l : /\ l = AVLMerge(heap, lo, hi) \/ l = AVLMerge(heap, hi, lo)
               /\ heap' = Heap(l) /\ lo' = l.root /\ hi' = NULL
    BY DEF Merge
<1>3. ~Stranded(heap, lo, hi)
    BY <1>1 DEF StrandsMerge, Stranded, Lo
<1>4. Both(l, l.root, NULL, N \cup M, {})
    BY <1>1, <1>2, <1>3, MergeFact
<1>5. PICK N1 : N1 = N \cup M
    OBVIOUS
<1>6. Both(Heap(l), l.root, NULL, N1, {})
    BY <1>4, <1>5, HeapFact
<1>7. KeysIn(N1, {}) = KeysIn(N, M) /\ Lower(N1, {})
    BY <1>5 DEF KeysIn, Lower
<1> QED BY <1>2, <1>6, <1>7 DEF Becomes

-----------------------------------------------------------------------------
(* The theorems.                                                           *)

LEMMA InitWhole == Init => Whole /\ Contents = {}
<1> SUFFICES ASSUME Init PROVE Whole /\ Contents = {}
    OBVIOUS
<1>1. PICK h : h = NoTree
    OBVIOUS
<1>2. heap = h /\ lo = NULL /\ hi = NULL
    BY <1>1 DEF Init
<1>3. PICK D, V : D = [m \in Node |-> {m}] /\ V = [m \in Node |-> 1]
    OBVIOUS
<1>4. /\ Typed(h)
      /\ \A m \in Node : h.parent[m] = NULL /\ h.size[m] = 1 /\ h.heavy[m] = "none"
      /\ \A m \in Node, u \in Sides : h[u][m] = NULL
    <2>1. Typed(h)
        BY <1>1, NodeFact DEF NoTree, Typed
    <2>2. \A m \in Node : h.parent[m] = NULL /\ h.size[m] = 1 /\ h.heavy[m] = "none"
        BY <1>1 DEF NoTree
    <2>3. \A m \in Node : h.left[m] = NULL /\ h.right[m] = NULL
        BY <1>1 DEF NoTree
    <2> QED BY <2>1, <2>2, <2>3, SidesFact
<1>5. \A m \in Node, u \in Sides : Kids(h)[u][m] = NULL
    BY <1>4, KidsFact
<1>6. Grove(h, D)
    <2>1. Kids(h) \in Links /\ h.parent \in [Node -> Pointer]
        BY <1>4, KidsFact, TypedFields
    <2>2. D \in [Node -> SUBSET Node] /\ \A m \in Node : D[m] = {m}
        BY <1>3
    <2>3. Forest(Kids(h), h.parent, D)
        BY <1>4, <1>5, <2>1, <2>2, SidesFact DEF Forest, At
    <2> QED BY <1>4, <2>3 DEF Grove
<1>7. Summed(h)
    <2> SUFFICES ASSUME NEW m \in Node, NEW u \in Sides PROVE h.size[m] = SumAt(h, m, u)
        BY DEF Summed
    <2>1. h[u][m] = NULL /\ h[Other(u)][m] = NULL
        BY <1>4, SidesFact
    <2> QED BY <1>4, <2>1 DEF SumAt, SizeAt
<1>8. Exact(Kids(h), h.heavy, V)
    <2>1. V \in [Node -> Nat] /\ 0 \in Nat
        BY <1>3
    <2>2. ASSUME NEW m \in Node, NEW u \in Sides
          PROVE  PoisedAt(Kids(h), h.heavy, V, m, u, NULL, "left", 0)
        <3>1. Kids(h)[u][m] = NULL /\ Kids(h)[Other(u)][m] = NULL /\ m # NULL
            BY <1>5, SidesFact, NodeFact
        <3>2. V[m] = 1 /\ h.heavy[m] = "none"
            BY <1>3, <1>4
        <3> QED BY <3>1, <3>2 DEF PoisedAt, Seen, Tall, Poised
    <2> QED BY <2>1, <2>2 DEF Exact, Fits
<1>9. Both(h, NULL, NULL, {}, {})
    <2>1. Stable(h, D, V)
        BY <1>6, <1>7, <1>8 DEF Stable
    <2>2. Rooting(h, D, NULL, {})
        BY NodeFact DEF Rooting, At
    <2>3. \A m \in Node \ ({} \cup {}) : Single(h.parent, D, m)
        BY <1>3, <1>4 DEF Single
    <2> QED BY <2>1, <2>2, <2>3 DEF Both
<1>10. Lower({}, {})
    BY DEF Lower
<1>11. Whole
    BY <1>2, <1>9, <1>10 DEF Whole
<1>12. NodesOf(Lo) = {} /\ NodesOf(Hi) = {}
    BY <1>2, <1>9, ContentsFact DEF Lo, Hi
<1> QED BY <1>11, <1>12 DEF Contents, Members

(* What one step does to the trees, and to the keys in them.               *)
LEMMA StepWhole ==
    ASSUME NEW N, NEW M, Both(heap, lo, hi, N, M), Lower(N, M), GuardedNext
    PROVE  \E N1, M1, K : /\ Becomes(N1, M1, K)
                          /\ \/ K = KeysIn(N, M)
                             \/ \E n \in Node : K = KeysIn(N, M) \cup {KeyOf[n]}
                             \/ \E n \in N \cup M : K = KeysIn(N, M) \ {KeyOf[n]}
<1>1. ASSUME NEW n \in Node \ Members, Insert(n)
      PROVE  \E N1, M1 : Becomes(N1, M1, KeysIn(N, M) \cup {KeyOf[n]})
    BY <1>1, InsertWhole
<1>2. CASE Remove
    <2>1. PICK N1, M1, n : n \in N \cup M /\ Becomes(N1, M1, KeysIn(N, M) \ {KeyOf[n]})
        BY <1>2, RemoveWhole DEF Removes
    <2> QED BY <2>1
<1>3. CASE Split
    BY <1>3, SplitWhole
<1>4. CASE ~StrandsMerge /\ Merge
    BY <1>4, MergeWhole
<1> QED BY <1>1, <1>2, <1>3, <1>4 DEF GuardedNext

LEMMA ContentsAre ==
    ASSUME NEW N, NEW M, Both(heap, lo, hi, N, M)
    PROVE  Contents = KeysIn(N, M)
    BY ContentsFact DEF Contents, Members, Lo, Hi, KeysIn

LEMMA ContentsBecome ==
    ASSUME NEW N1, NEW M1, NEW K, Becomes(N1, M1, K)
    PROVE  Whole' /\ Contents' = K
<1>1. Both(heap', lo', hi', N1, M1) /\ Lower(N1, M1) /\ KeysIn(N1, M1) = K
    BY DEF Becomes
<1>2. /\ NodesOf([heap' EXCEPT !.root = lo']) = N1
      /\ NodesOf([heap' EXCEPT !.root = hi']) = M1
    BY <1>1, ContentsFact
<1>3. Contents' = K
    BY <1>1, <1>2 DEF Contents, Members, Lo, Hi, KeysIn
<1> QED BY <1>1, <1>3 DEF Whole

LEMMA KeepsWhole == Whole /\ [GuardedNext]_vars => Whole'
<1> SUFFICES ASSUME Whole, [GuardedNext]_vars PROVE Whole'
    OBVIOUS
<1>1. PICK N, M : Both(heap, lo, hi, N, M) /\ Lower(N, M)
    BY DEF Whole
<1>2. CASE GuardedNext
    <2>1. \E N1, M1, K : Becomes(N1, M1, K)
        BY <1>1, <1>2, StepWhole
    <2> QED BY <2>1, ContentsBecome
<1>3. CASE UNCHANGED vars
    BY <1>1, <1>3 DEF Whole, vars
<1> QED BY <1>2, <1>3

(* What the invariant says of one of the trees.                            *)
LEMMA TreeFollows ==
    ASSUME NEW h, NEW a, NEW b, NEW N, NEW M, Both(h, a, b, N, M),
           NEW t, t = [h EXCEPT !.root = a]
    PROVE  Sorted(t) /\ Linked(t) /\ Sized(t) /\ FlagsExact(t)
<1>1. SameHeap(t, h) /\ t.root = a /\ NodesOf(t) = N
    BY TreeOfBoth
<1>2. PICK D, V : Stable(t, D, V) /\ Rooting(t, D, a, N)
    BY <1>1, SameBoth DEF Both
<1>3. /\ Grove(t, D) /\ Typed(t) /\ Forest(Kids(t), t.parent, D) /\ Summed(t)
      /\ Exact(Kids(t), t.heavy, V)
      /\ NodesOf(t) \subseteq Node
      /\ t.root # NULL => t.parent[t.root] = NULL
      /\ \A m \in Node, u \in Sides : Kids(t)[u][m] = t[u][m]
    <2>1. Grove(t, D) /\ Summed(t) /\ Exact(Kids(t), t.heavy, V)
        BY <1>2 DEF Stable
    <2>2. N \subseteq Node
        BY BothFact
    <2>3. \A m \in Node, u \in Sides : Kids(t)[u][m] = t[u][m]
        BY <2>1, KidsFact DEF Grove
    <2> QED BY <1>1, <1>2, <2>1, <2>2, <2>3 DEF Grove, Rooting
<1>4. Linked(t)
    <2>1. \A m \in Node, u \in Sides : t[u][m] # NULL => t.parent[t[u][m]] = m
        BY <1>3 DEF Forest
    <2> QED BY <1>3, <2>1 DEF Linked
<1>5. Sized(t)
    <2>1. \A m \in Node : Counts(t, D, m)
        BY <1>3, SumsCounts
    <2>2. \A m \in Node : NodesAt(t, m) = D[m]
        BY <1>3, NodesAtFact, NodeFact DEF At
    <2> QED BY <1>3, <2>1, <2>2 DEF Sized, Counts
<1>6. Sorted(t)
    <2> SUFFICES ASSUME NEW n \in NodesOf(t)
                 PROVE  /\ \A m \in NodesAt(t, t.left[n]) : KeyOf[m] < KeyOf[n]
                        /\ \A m \in NodesAt(t, t.right[n]) : KeyOf[n] < KeyOf[m]
        BY DEF Sorted
    <2>1. n \in Node
        BY <1>3
    <2>2. ASSUME NEW u \in Sides, NEW m \in NodesAt(t, t[u][n]) PROVE Beyond(u, m, n)
        <3>1. t[u][n] \in Pointer /\ Kids(t)[u][n] = t[u][n]
            BY <1>3, <2>1, ForestTyped
        <3>2. m \in At(D, Kids(t)[u][n])
            BY <1>3, <2>2, <3>1, NodesAtFact
        <3> QED BY <1>3, <2>1, <3>2 DEF Forest
    <2> QED BY <2>2, SidesFact DEF Beyond
<1>7. FlagsExact(t)
    <2>1. ASSUME NEW n \in NodesOf(t), NEW l, NEW r,
                 l = Levels(t, t.left[n]), r = Levels(t, t.right[n])
          PROVE  l - r \in {-1, 0, 1} /\ t.heavy[n] = Heavier(l, r)
        <3>1. n \in Node
            BY <1>3
        <3>2. t.left[n] \in Pointer /\ t.right[n] \in Pointer
            BY <1>3, <3>1, ExactSteps
        <3>3. l = Tall(V, t.left[n]) /\ r = Tall(V, t.right[n])
            BY <1>3, <2>1, <3>2, LevelsFact
        <3>4. l \in Nat /\ r \in Nat
            BY <1>3, <3>1, <3>3, ExactSteps
        <3>5. Poised(V[n], t.heavy[n], "left", Tall(V, t.left[n]), Tall(V, t.right[n]))
            BY <1>3, <3>1, ExactSteps
        <3>6. Poised(V[n], t.heavy[n], "left", l, r)
            BY <3>3, <3>5
        <3> QED BY <3>4, <3>6, SidesFact DEF Poised, Heavier
    <2> QED BY <2>1 DEF FlagsExact
<1> QED BY <1>4, <1>5, <1>6, <1>7

(* The sizes a height allows: every subtree has at least the sparsest and  *)
(* at most the fullest number of nodes.                                    *)
LEMMA HeightsFit ==
    ASSUME NEW t, NEW D, NEW V, Stable(t, D, V)
    PROVE  \A p \in Pointer : HasHeight(Cardinality(At(D, p)), Tall(V, p))
<1>1. /\ Grove(t, D) /\ Typed(t) /\ Forest(Kids(t), t.parent, D) /\ Summed(t)
      /\ Exact(Kids(t), t.heavy, V)
    BY DEF Stable, Grove
<1>2. \A m \in Node : Counts(t, D, m)
    BY <1>1, SumsCounts
<1> DEFINE S == {m \in Node : HasHeight(t.size[m], V[m])}
<1>3. ASSUME NEW n \in Node, \A s \in Sides : Kids(t)[s][n] # NULL => Kids(t)[s][n] \in S
      PROVE  n \in S
    <2>1. PICK l, r : l = t.left[n] /\ r = t.right[n]
        OBVIOUS
    <2>2. l \in Pointer /\ r \in Pointer /\ Tall(V, l) \in Nat /\ Tall(V, r) \in Nat
        BY <1>1, <2>1, ExactSteps
    <2>3. Poised(V[n], t.heavy[n], "left", Tall(V, l), Tall(V, r))
        <3>1. Poised(V[n], t.heavy[n], "left", Tall(V, t.left[n]), Tall(V, t.right[n]))
            BY <1>1, ExactSteps
        <3> QED BY <2>1, <3>1
    <2>4. ASSUME NEW p \in {l, r} PROVE SizeAt(t, p) \in Nat /\ HasHeight(SizeAt(t, p), Tall(V, p))
        <3>1. p \in Pointer /\ SizeAt(t, p) \in Nat
            BY <1>1, <2>2, SizeAtFact
        <3>2. CASE p = NULL
            BY <3>1, <3>2, HeightNone DEF SizeAt, Tall
        <3>3. CASE p # NULL
            <4>1. p \in S
                <5>1. Kids(t)["left"][n] = l /\ Kids(t)["right"][n] = r
                    BY <1>1, <2>1, KidsFact
                <5> QED BY <1>3, <3>3, <5>1, SidesFact
            <4> QED BY <3>1, <3>3, <4>1 DEF SizeAt, Tall
        <3> QED BY <3>2, <3>3
    <2>5. t.size[n] = 1 + SizeAt(t, l) + SizeAt(t, r)
        BY <1>1, <2>1, SidesFact DEF Summed, SumAt
    <2>6. PICK a, b, i, j : /\ a = SizeAt(t, l) /\ b = SizeAt(t, r)
                            /\ i = Tall(V, l) /\ j = Tall(V, r)
        OBVIOUS
    <2>7. /\ a \in Nat /\ b \in Nat /\ i \in Nat /\ j \in Nat
          /\ HasHeight(a, i) /\ HasHeight(b, j)
        BY <2>2, <2>4, <2>6
    <2>8. \/ i = j /\ V[n] = i + 1
          \/ i = j + 1 /\ V[n] = i + 1
          \/ j = i + 1 /\ V[n] = j + 1
        BY <2>3, <2>6 DEF Poised
    <2>9. HasHeight(1 + a + b, V[n])
        BY <2>7, <2>8, HeightAbove
    <2> QED BY <2>5, <2>6, <2>9
<1>4. S = Node
    <2> HIDE DEF S
    <2>1. S \subseteq Node
        BY DEF S
    <2> QED BY <1>1, <1>3, <2>1, BottomUp
<1> TAKE p \in Pointer
<1>5. CASE p = NULL
    <2>1. Cardinality({}) = 0
        BY FS_EmptySet
    <2> QED BY <1>5, <2>1, HeightNone DEF At, Tall
<1>6. CASE p # NULL
    <2>1. p \in Node
        BY <1>6, NodeFact
    <2>2. HasHeight(t.size[p], V[p])
        BY <1>4, <2>1
    <2> QED BY <1>2, <1>6, <2>1, <2>2 DEF Counts, At, Tall
<1> QED BY <1>5, <1>6

(* Nodes with different keys are as many as their keys.                    *)
LEMMA KeysCount ==
    ASSUME NEW N, N \subseteq Node, \A x \in N, y \in N : KeyOf[x] = KeyOf[y] => x = y,
           NEW K, K = {KeyOf[m] : m \in N}
    PROVE  Cardinality(K) = Cardinality(N) /\ Cardinality(N) \in Nat
<1>1. IsFiniteSet(N)
    BY NodeFact, FS_Subset
<1> DEFINE f == [x \in N |-> KeyOf[x]]
<1>2. f \in Bijection(N, K)
    <2>1. f \in [N -> K] /\ \A x \in N : f[x] = KeyOf[x]
        OBVIOUS
    <2> HIDE DEF f
    <2> QED BY <2>1 DEF Bijection, Injection, Surjection, IsInjective
<1>3. Cardinality(K) = Cardinality(N)
    BY <1>1, <1>2, FS_Bijection DEF ExistsBijection
<1> QED BY <1>1, <1>3, FS_CardinalityType

LEMMA RootFollows ==
    ASSUME NEW h, NEW a, NEW b, NEW N, NEW M, Both(h, a, b, N, M),
           NEW t, t = [h EXCEPT !.root = a], t.root # NULL
    PROVE  KeyOf[t.root] \in AvlRoots(KeysOf(t))
<1>1. SameHeap(t, h) /\ t.root = a /\ NodesOf(t) = N
    BY TreeOfBoth
<1>2. PICK D, V : Stable(t, D, V) /\ Rooting(t, D, a, N)
    BY <1>1, SameBoth DEF Both
<1>3. /\ Grove(t, D) /\ Typed(t) /\ Forest(Kids(t), t.parent, D)
      /\ Exact(Kids(t), t.heavy, V)
    BY <1>2 DEF Stable, Grove
<1>4. a \in Node /\ N = D[a] /\ N \subseteq Node
    <2>1. a \in Node /\ N = D[a]
        BY <1>1, <1>2, NodeFact DEF Rooting, At
    <2> QED BY <1>3, <2>1, ForestTyped
<1>5. PICK l, r : l = t.left[a] /\ r = t.right[a]
    OBVIOUS
<1>6. PICK L, R : L = At(D, l) /\ R = At(D, r)
    OBVIOUS
<1>7. /\ N = {a} \cup L \cup R /\ a \in N
      /\ \A m \in L : KeyOf[m] < KeyOf[a]
      /\ \A m \in R : KeyOf[a] < KeyOf[m]
    <2>1. Kids(t)["left"][a] = l /\ Kids(t)["right"][a] = r
        BY <1>3, <1>5, KidsFact
    <2>2. N = {a} \cup L \cup R
        BY <1>3, <1>4, <1>6, <2>1 DEF Forest
    <2>3. \A m \in L : Beyond("left", m, a)
        BY <1>3, <1>4, <1>6, <2>1, SidesFact DEF Forest
    <2>4. \A m \in R : Beyond("right", m, a)
        BY <1>3, <1>4, <1>6, <2>1, SidesFact DEF Forest
    <2> QED BY <2>2, <2>3, <2>4, SidesFact DEF Beyond
<1>8. \A x \in N, y \in N : KeyOf[x] = KeyOf[y] => x = y
    BY <1>3, <1>4, TreeKeysDiffer
<1>9. PICK k, K : k = KeyOf[a] /\ K = KeysOf(t)
    OBVIOUS
<1>10. K = {KeyOf[m] : m \in N} /\ k \in K /\ \A m \in N : KeyOf[m] \in Nat
    BY <1>1, <1>4, <1>7, <1>9, NodeFact DEF KeysOf
<1>11. PICK A, B : A = {x \in K : x < k} /\ B = {x \in K : k < x}
    OBVIOUS
<1>12. A = {KeyOf[m] : m \in L} /\ B = {KeyOf[m] : m \in R}
    <2>1. k \in Nat
        BY <1>7, <1>9, <1>10
    <2>2. ASSUME NEW m \in N
          PROVE  /\ KeyOf[m] < k <=> m \in L
                 /\ k < KeyOf[m] <=> m \in R
        BY <1>7, <1>9, <1>10, <2>1, <2>2
    <2>3. L \subseteq N /\ R \subseteq N
        BY <1>7
    <2> QED BY <1>10, <1>11, <2>2, <2>3
<1>13. PICK p, q : p = Cardinality(A) /\ q = Cardinality(B)
    OBVIOUS
<1>14. p = Cardinality(L) /\ q = Cardinality(R) /\ p \in Nat /\ q \in Nat
    <2>1. L \subseteq Node /\ \A x \in L, y \in L : KeyOf[x] = KeyOf[y] => x = y
        BY <1>4, <1>7, <1>8
    <2>2. R \subseteq Node /\ \A x \in R, y \in R : KeyOf[x] = KeyOf[y] => x = y
        BY <1>4, <1>7, <1>8
    <2>3. Cardinality(A) = Cardinality(L) /\ Cardinality(L) \in Nat
        BY <1>12, <2>1, KeysCount
    <2>4. Cardinality(B) = Cardinality(R) /\ Cardinality(R) \in Nat
        BY <1>12, <2>2, KeysCount
    <2> QED BY <1>13, <2>3, <2>4
<1>15. PICK i, j : i = Tall(V, l) /\ j = Tall(V, r)
    OBVIOUS
<1>16. i \in Nat /\ j \in Nat /\ i - j \in {-1, 0, 1} /\ l \in Pointer /\ r \in Pointer
    <2>1. i \in Nat /\ j \in Nat /\ l \in Pointer /\ r \in Pointer
        BY <1>3, <1>4, <1>5, <1>15, ExactSteps
    <2>2. Poised(V[a], t.heavy[a], "left", Tall(V, t.left[a]), Tall(V, t.right[a]))
        BY <1>3, <1>4, ExactSteps
    <2>3. Poised(V[a], t.heavy[a], "left", i, j)
        BY <1>5, <1>15, <2>2
    <2> QED BY <2>1, <2>3 DEF Poised
<1>17. HasHeight(p, i) /\ HasHeight(q, j)
    <2>1. HasHeight(Cardinality(At(D, l)), Tall(V, l))
        BY <1>2, <1>16, HeightsFit
    <2>2. HasHeight(Cardinality(At(D, r)), Tall(V, r))
        BY <1>2, <1>16, HeightsFit
    <2> QED BY <1>6, <1>14, <1>15, <2>1, <2>2
<1>18. i \in 0 .. p /\ j \in 0 .. q
    <2>1. /\ Sparsest[i] <= p /\ Sparsest[i] \in Nat /\ i <= Sparsest[i]
          /\ Sparsest[j] <= q /\ Sparsest[j] \in Nat /\ j <= Sparsest[j]
        BY <1>16, <1>17, SparsestGrows DEF HasHeight
    <2> QED BY <1>14, <1>16, <2>1
<1>19. AvlSizes(p, q)
    BY <1>16, <1>17, <1>18 DEF AvlSizes
<1>20. k \in AvlRoots(K)
    BY <1>10, <1>11, <1>13, <1>19 DEF AvlRoots
<1> QED BY <1>1, <1>9, <1>20

LEMMA AllFollow ==
    ASSUME Whole
    PROVE  /\ TypeOK /\ TreesSorted /\ TreesLinked /\ TreesSized /\ TreesBalanced
           /\ RootsInRange
<1>1. PICK N, M : Both(heap, lo, hi, N, M)
    BY DEF Whole
<1>2. Both(heap, hi, lo, M, N)
    BY <1>1, BothSwapped
<1>3. Sorted(Lo) /\ Linked(Lo) /\ Sized(Lo) /\ FlagsExact(Lo)
    BY <1>1, TreeFollows DEF Lo
<1>4. Sorted(Hi) /\ Linked(Hi) /\ Sized(Hi) /\ FlagsExact(Hi)
    BY <1>2, TreeFollows DEF Hi
<1>5. TypeOK
    BY <1>1, BothFact DEF TypeOK
<1>6. RootsInRange
    BY <1>1, <1>2, RootFollows DEF RootsInRange, Lo, Hi
<1> QED BY <1>3, <1>4, <1>5, <1>6 DEF TreesSorted, TreesLinked, TreesSized, TreesBalanced

(* The inductive invariant holds: through all rotations, splits and merges *)
(* the heap holds two balanced search trees, one below the other, with     *)
(* exact sizes and flags, and no link anywhere else.                       *)
THEOREM WholeHolds == GuardedSpec => []Whole
<1>1. Init => Whole
    BY InitWhole
<1> QED BY <1>1, KeepsWhole, PTL DEF GuardedSpec

(* The links are to nodes, or nullptr, and the sizes are numbers: no size  *)
(* is taken below zero.                                                    *)
THEOREM TypeCorrect == GuardedSpec => []TypeOK
BY WholeHolds, AllFollow, PTL

(* Rotations, split and merge keep every key on its side of every node.    *)
THEOREM SortedCorrect == GuardedSpec => []TreesSorted
BY WholeHolds, AllFollow, PTL

(* The parent links are the child links turned round, whatever a rotation  *)
(* or a join has relinked.                                                 *)
THEOREM LinkedCorrect == GuardedSpec => []TreesLinked
BY WholeHolds, AllFollow, PTL

(* Every node counts the nodes of its subtree, which rotations and merge   *)
(* work out from a few sizes only.                                         *)
THEOREM SizedCorrect == GuardedSpec => []TreesSized
BY WholeHolds, AllFollow, PTL

(* The flags are the exact difference of two heights, at most one: every   *)
(* loop that rebalances stops where the height is the old one again.       *)
THEOREM BalancedCorrect == GuardedSpec => []TreesBalanced
BY WholeHolds, AllFollow, PTL

(* The key at the root of a tree is one that AvlRoots allows: XFast and    *)
(* YFast, which only know the keys of a tree, leave out no root it can     *)
(* have.                                                                   *)
THEOREM RootsCorrect == GuardedSpec => []RootsInRange
BY WholeHolds, AllFollow, PTL

(* insert adds one key, remove takes one away, split and merge leave them. *)
THEOREM Refinement == GuardedSpec => ImplementsSortedSet
<1>1. Init => Abstract!Init
    BY InitWhole DEF Abstract!Init
<1>2. ASSUME Whole, [GuardedNext]_vars PROVE [Abstract!Next]_Contents
    <2>1. PICK N, M : Both(heap, lo, hi, N, M) /\ Lower(N, M)
        BY <1>2 DEF Whole
    <2>2. Contents = KeysIn(N, M) /\ N \cup M \subseteq Node
        BY <2>1, ContentsAre, BothFact
    <2>3. CASE GuardedNext
        <3>1. PICK N1, M1, K :
                  /\ Becomes(N1, M1, K)
                  /\ \/ K = KeysIn(N, M)
                     \/ \E n \in Node : K = KeysIn(N, M) \cup {KeyOf[n]}
                     \/ \E n \in N \cup M : K = KeysIn(N, M) \ {KeyOf[n]}
            BY <2>1, <2>3, StepWhole
        <3>2. Contents' = K
            BY <3>1, ContentsBecome
        <3>3. CASE K = KeysIn(N, M)
            BY <2>2, <3>2, <3>3
        <3>4. CASE \E n \in Node : K = KeysIn(N, M) \cup {KeyOf[n]}
            <4>1. Contents' \in Abstract!Inserted
                BY <2>2, <3>2, <3>4 DEF Abstract!Inserted, Key
            <4> QED BY <4>1 DEF Abstract!Next
        <3>5. CASE \E n \in N \cup M : K = KeysIn(N, M) \ {KeyOf[n]}
            <4>1. Contents' \in Abstract!Removed
                BY <2>2, <3>2, <3>5 DEF Abstract!Removed, KeysIn
            <4> QED BY <4>1 DEF Abstract!Next
        <3> QED BY <3>1, <3>3, <3>4, <3>5
    <2>4. CASE UNCHANGED vars
        BY <2>4 DEF vars, Contents, Members, Lo, Hi
    <2> QED BY <1>2, <2>3, <2>4
<1> QED BY <1>1, <1>2, WholeHolds, PTL DEF GuardedSpec, ImplementsSortedSet, Abstract!Spec
=============================================================================
