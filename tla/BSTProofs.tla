------------------------------ MODULE BSTProofs ------------------------------
(***************************************************************************)
(* The theorems of BST: for every finite set of nodes, insert and remove   *)
(* leave a search tree, linked both ways and with exact sizes, that is the *)
(* sorted set of its keys.                                                 *)
(***************************************************************************)
EXTENDS BST, BinaryTreeProofs

-----------------------------------------------------------------------------
(* The inductive invariant.  A tree that stands and counts its nodes is    *)
(* not enough: insert relies on its node having no links, and remove on    *)
(* leaving none, so the nodes outside are trees of their own.              *)

Trees(t) == [m \in Node |-> NodesAt(t, m)]

WholeOver(t, D) ==
    /\ Standing(t, D)
    /\ \A m \in NodesOf(t) : Counts(t, D, m)
    /\ \A m \in Node \ NodesOf(t) : Single(t.parent, D, m)

Whole == WholeOver(tree, Trees(tree))

LEMMA TreesFact ==
    ASSUME NEW t, NEW D, Grove(t, D)
    PROVE  D = Trees(t)
<1>1. D \in [Node -> SUBSET Node]
    BY DEF Grove, Forest
<1>2. \A m \in Node : NodesAt(t, m) = D[m]
    BY NodesAtFact, NodeFact DEF At
<1> QED BY <1>1, <1>2 DEF Trees

LEMMA WholeFact ==
    ASSUME NEW t, NEW D, WholeOver(t, D)
    PROVE  /\ Grove(t, D) /\ Typed(t) /\ Forest(Kids(t), t.parent, D)
           /\ D = Trees(t)
           /\ NodesOf(t) \subseteq Node /\ NodesOf(t) = At(D, t.root)
           /\ t.root # NULL => /\ t.root \in Node /\ NodesOf(t) = D[t.root]
                               /\ t.parent[t.root] = NULL
           /\ \A m \in Node, u \in Sides : Kids(t)[u][m] = t[u][m]
<1>1. Standing(t, D) /\ Grove(t, D)
    BY DEF WholeOver, Standing
<1>2. Typed(t) /\ Forest(Kids(t), t.parent, D)
    BY <1>1 DEF Grove
<1>3. /\ NodesOf(t) \subseteq Node /\ NodesOf(t) = At(D, t.root)
      /\ t.root # NULL => t.root \in Node /\ NodesOf(t) = D[t.root]
    BY <1>1, NodesOfFact
<1>4. t.root # NULL => t.parent[t.root] = NULL
    BY <1>1 DEF Standing
<1>5. D = Trees(t)
    BY <1>1, TreesFact
<1>6. \A m \in Node, u \in Sides : Kids(t)[u][m] = t[u][m]
    BY <1>2, KidsFact
<1> QED BY <1>1, <1>2, <1>3, <1>4, <1>5, <1>6

(* What a tree has to show to be whole.                                    *)
LEMMA WholeIs ==
    ASSUME NEW l, NEW E, Grove(l, E), NEW N, N = At(E, l.root),
           l.root # NULL => l.parent[l.root] = NULL,
           \A m \in N : Counts(l, E, m),
           \A m \in Node \ N : Single(l.parent, E, m)
    PROVE  WholeOver(l, E) /\ NodesOf(l) = N
<1>1. NodesOf(l) = N
    BY NodesOfFact
<1> QED BY <1>1 DEF WholeOver, Standing

-----------------------------------------------------------------------------
(* insert.                                                                 *)

LEMMA InsertsFirst ==
    ASSUME NEW t, NEW D, WholeOver(t, D), NEW n \in Node, n \notin NodesOf(t),
           t.root = NULL, NEW l, l = BSTInsert(t, n).tree
    PROVE  WholeOver(l, D) /\ NodesOf(l) = NodesOf(t) \cup {n}
<1>1. Standing(t, D) /\ Single(t.parent, D, n)
    BY DEF WholeOver
<1>2. PICK b : b = BSTInsert(t, n)
    OBVIOUS
<1>3. l = b.tree
    BY <1>2
<1>4. /\ Grove(l, D) /\ l.root = n
      /\ \A m \in Node : l.parent[m] = t.parent[m]
      /\ Counts(l, D, n)
    BY <1>1, <1>2, <1>3, InsertFirst
<1>5. NodesOf(t) = {}
    BY WholeFact DEF At
<1>6. At(D, l.root) = {n} /\ l.parent[l.root] = NULL
    BY <1>1, <1>4, NodeFact DEF At, Single
<1>7. \A m \in Node \ {n} : Single(l.parent, D, m)
    BY <1>4, <1>5 DEF WholeOver, Single
<1>8. \A m \in {n} : Counts(l, D, m)
    BY <1>4
<1>9. WholeOver(l, D) /\ NodesOf(l) = {n}
    BY <1>4, <1>6, <1>7, <1>8, WholeIs
<1> QED BY <1>5, <1>9

LEMMA InsertsLeaf ==
    ASSUME NEW t, NEW D, WholeOver(t, D), NEW n \in Node, n \notin NodesOf(t),
           t.root # NULL, find(t, KeyOf[n]) = NULL,
           NEW l, l = BSTInsert(t, n).tree
    PROVE  \E E : WholeOver(l, E) /\ NodesOf(l) = NodesOf(t) \cup {n}
<1>1. Standing(t, D) /\ Single(t.parent, D, n) /\ Grove(t, D) /\ KeyOf[n] \in Nat
    BY NodeFact DEF WholeOver, Standing
<1>2. /\ t.root \in Node /\ NodesOf(t) = D[t.root] /\ t.parent[t.root] = NULL
      /\ Forest(Kids(t), t.parent, D)
    BY WholeFact
<1>3. KeyOf[t.root] # KeyOf[n]
    BY <1>1, <1>2, PlaceFact DEF find
<1>4. PICK p \in Node, s \in Sides :
          /\ Place(t, KeyOf[n]) = Spot(t, p, s)
          /\ Placed(Kids(t), D, KeyOf[n], t.root, p, s)
    BY <1>1, <1>3, PlaceFact
<1>5. t[s][p] = NULL
    BY <1>4 DEF find, Spot
<1>6. PICK b : b = BSTInsert(t, n)
    OBVIOUS
<1>7. l = b.tree
    BY <1>6
<1>8. PICK E : E = HungTrees(D, p, n)
    OBVIOUS
<1>9. /\ Grove(l, E) /\ l.root = t.root
      /\ \A m \in Node : l.parent[m] = IF m = n THEN p ELSE t.parent[m]
      /\ Counts(l, E, n)
      /\ \A m \in Node \ {n} : Counts(t, D, m) => Counts(l, E, m)
    BY <1>1, <1>4, <1>5, <1>6, <1>7, <1>8, InsertLeaf
<1>10. \A m \in Node : E[m] = IF p \in D[m] THEN D[m] \cup {n} ELSE D[m]
    BY <1>8 DEF HungTrees
<1>11. p \in D[t.root]
    BY <1>4 DEF Placed
<1>12. At(E, l.root) = NodesOf(t) \cup {n}
    BY <1>2, <1>9, <1>10, <1>11 DEF At
<1>13. l.root # NULL => l.parent[l.root] = NULL
    <2>1. t.root # n
        BY <1>2, SubtreeFact
    <2> QED BY <1>2, <1>9, <2>1
<1>14. \A m \in NodesOf(t) \cup {n} : Counts(l, E, m)
    BY <1>9, WholeFact DEF WholeOver
<1>15. \A m \in Node \ (NodesOf(t) \cup {n}) : Single(l.parent, E, m)
    BY <1>2, <1>9, <1>10, <1>11 DEF WholeOver, Single
<1>16. WholeOver(l, E) /\ NodesOf(l) = NodesOf(t) \cup {n}
    BY <1>9, <1>12, <1>13, <1>14, <1>15, WholeIs
<1> QED BY <1>16

LEMMA InsertsOver ==
    ASSUME NEW t, NEW D, WholeOver(t, D), NEW n \in Node, n \notin NodesOf(t),
           NEW old, old = find(t, KeyOf[n]), old # NULL,
           NEW l, l = BSTInsert(t, n).tree
    PROVE  /\ old \in NodesOf(t) /\ KeyOf[old] = KeyOf[n]
           /\ \E E : WholeOver(l, E) /\ NodesOf(l) = (NodesOf(t) \ {old}) \cup {n}
<1> DEFINE S(q) == Swap(old, n, q)
<1>1. Standing(t, D) /\ Single(t.parent, D, n) /\ KeyOf[n] \in Nat
    BY NodeFact DEF WholeOver
<1>2. old \in Node /\ old \in NodesOf(t) /\ KeyOf[old] = KeyOf[n] /\ old # n
    BY <1>1, PlaceOver
<1>3. /\ t.root \in Node /\ NodesOf(t) = D[t.root] /\ t.parent[t.root] = NULL
      /\ Forest(Kids(t), t.parent, D) /\ NodesOf(t) \subseteq Node
    BY <1>2, WholeFact DEF At
<1>4. PICK b : b = BSTInsert(t, n)
    OBVIOUS
<1>5. l = b.tree
    BY <1>4
<1>6. PICK E : E = SwapTrees(D, old, n)
    OBVIOUS
<1>7. /\ Grove(l, E) /\ l.root = S(t.root)
      /\ \A m \in Node : l.parent[m] = S(t.parent[S(m)])
      /\ \A m \in Node \ {old} : Counts(t, D, S(m)) => Counts(l, E, m)
    BY <1>1, <1>2, <1>4, <1>5, <1>6, InsertOver
<1>8. \A m \in Node : E[m] = {x \in Node : S(x) \in D[S(m)]}
    BY <1>6 DEF SwapTrees
<1>9. /\ S(old) = n /\ S(n) = old
      /\ \A q : q # old /\ q # n => S(q) = q
      /\ \A q : S(S(q)) = q
      /\ \A q : S(q) = NULL <=> q = NULL
      /\ \A m \in Node : S(m) \in Node
    BY <1>2, SwapFact
<1> HIDE DEF S
<1> DEFINE N == (NodesOf(t) \ {old}) \cup {n}
<1>10. \A x \in Node : x \in N <=> S(x) \in NodesOf(t)
    BY <1>2, <1>9
<1>11. N = At(E, l.root)
    <2>1. l.root \in Node /\ l.root # NULL /\ S(l.root) = t.root
        BY <1>3, <1>7, <1>9, NodeFact
    <2>2. At(E, l.root) = {x \in Node : S(x) \in NodesOf(t)}
        BY <1>3, <1>8, <2>1 DEF At
    <2>3. N \subseteq Node
        BY <1>3
    <2> HIDE DEF N
    <2> QED BY <1>10, <2>2, <2>3
<1>12. l.root # NULL => l.parent[l.root] = NULL
    BY <1>3, <1>7, <1>9
<1>13. \A m \in N : Counts(l, E, m)
    <2> TAKE m \in N
    <2>1. m \in Node \ {old} /\ S(m) \in NodesOf(t)
        BY <1>2, <1>3, <1>10
    <2>2. Counts(t, D, S(m))
        BY <2>1 DEF WholeOver
    <2> QED BY <1>7, <2>1, <2>2
<1>14. \A m \in Node \ N : Single(l.parent, E, m)
    <2> TAKE m \in Node \ N
    <2>1. m \in Node /\ S(m) \in Node /\ S(m) \notin NodesOf(t)
        BY <1>9, <1>10
    <2>2. D[S(m)] = {S(m)} /\ t.parent[S(m)] = NULL
        BY <2>1 DEF WholeOver, Single
    <2>3. l.parent[m] = NULL
        BY <1>7, <1>9, <2>1, <2>2
    <2>4. E[m] = {x \in Node : S(x) = S(m)}
        BY <1>8, <2>1, <2>2
    <2>5. E[m] = {m}
        BY <1>9, <2>1, <2>4
    <2> QED BY <2>3, <2>5 DEF Single
<1>15. WholeOver(l, E) /\ NodesOf(l) = N
    <2> HIDE DEF N
    <2> QED BY <1>7, <1>11, <1>12, <1>13, <1>14, WholeIs
<1> QED BY <1>2, <1>15

(* insert adds n, and takes out the node with n's key if there is one.     *)
LEMMA WholeInsert ==
    ASSUME NEW t, NEW D, WholeOver(t, D), NEW n \in Node, n \notin NodesOf(t),
           NEW l, l = BSTInsert(t, n).tree
    PROVE  /\ WholeOver(l, Trees(l))
           /\ KeysOf(l) = KeysOf(t) \cup {KeyOf[n]}
<1>1. CASE find(t, KeyOf[n]) # NULL
    <2>1. PICK old : old = find(t, KeyOf[n])
        OBVIOUS
    <2>2. /\ old \in NodesOf(t) /\ KeyOf[old] = KeyOf[n]
          /\ \E E : WholeOver(l, E) /\ NodesOf(l) = (NodesOf(t) \ {old}) \cup {n}
        BY <1>1, <2>1, InsertsOver
    <2>3. WholeOver(l, Trees(l))
        BY <2>2, WholeFact
    <2>4. KeysOf(l) = KeysOf(t) \cup {KeyOf[n]}
        BY <2>2 DEF KeysOf
    <2> QED BY <2>3, <2>4
<1>2. CASE find(t, KeyOf[n]) = NULL
    <2>1. \E E : WholeOver(l, E) /\ NodesOf(l) = NodesOf(t) \cup {n}
        BY <1>2, InsertsFirst, InsertsLeaf
    <2>2. WholeOver(l, Trees(l))
        BY <2>1, WholeFact
    <2>3. KeysOf(l) = KeysOf(t) \cup {KeyOf[n]}
        BY <2>1 DEF KeysOf
    <2> QED BY <2>2, <2>3
<1> QED BY <1>1, <1>2

-----------------------------------------------------------------------------
(* remove.                                                                 *)

LEMMA RemovesOuter ==
    ASSUME NEW t, NEW D, WholeOver(t, D), NEW n \in NodesOf(t),
           t.left[n] = NULL \/ t.right[n] = NULL,
           NEW l, l = Blanked(BSTRemoveOuter(t, n).tree, n)
    PROVE  \E E : WholeOver(l, E) /\ NodesOf(l) = NodesOf(t) \ {n}
<1> DEFINE P == t.parent
           Q == l.parent
<1>1. /\ Standing(t, D) /\ Grove(t, D) /\ Forest(Kids(t), P, D) /\ n \in Node
      /\ t.root \in Node /\ NodesOf(t) = D[t.root] /\ P[t.root] = NULL
      /\ \A m \in Node, u \in Sides : Kids(t)[u][m] = t[u][m]
      /\ \A m \in NodesOf(t) : Counts(t, D, m)
    BY WholeFact DEF WholeOver, At
<1>2. PICK a \in Sides : t[a][n] = NULL
    BY SidesFact
<1>3. PICK c : c = t[Other(a)][n]
    OBVIOUS
<1>4. PICK E : E = CutTrees(D, n)
    OBVIOUS
<1>5. /\ Grove(l, E)
      /\ l.root = IF P[n] = NULL THEN c ELSE t.root
      /\ l.parent = CutParents(P, n, c)
      /\ \A m \in Node \ {n} : Counts(t, D, m) => Counts(l, E, m)
    BY <1>1, <1>2, <1>3, <1>4, RemoveOuter
<1>6. /\ \A m \in Node : Q[m] = IF m = n THEN NULL ELSE IF m = c THEN P[n] ELSE P[m]
      /\ \A m \in Node : E[m] = IF m = n THEN {n} ELSE D[m] \ {n}
    BY <1>4, <1>5 DEF CutParents, CutTrees
<1> HIDE DEF P, Q
<1>7. /\ c \in Pointer
      /\ c # NULL => /\ c \in Node /\ c # n /\ P[c] = n /\ c \in D[n]
      /\ D[n] = {n} \cup At(D, c)
      /\ n \notin At(D, c)
    <2>1. Other(a) \in Sides /\ Kids(t)[Other(a)][n] = c /\ Kids(t)[a][n] = NULL
        BY <1>1, <1>2, <1>3, SidesFact
    <2>2. c \in Pointer /\ (c # NULL => c \in Node /\ c # n /\ c \in D[n] /\ n \notin D[c])
        BY <1>1, <2>1, ForestTyped, SubtreeFact
    <2>3. c # NULL => P[c] = n
        BY <1>1, <2>1 DEF Forest
    <2>4. D[n] = {n} \cup At(D, Kids(t)["left"][n]) \cup At(D, Kids(t)["right"][n])
        BY <1>1 DEF Forest
    <2>5. D[n] = {n} \cup At(D, c)
        BY <1>2, <2>1, <2>4, SidesFact DEF At
    <2> QED BY <2>2, <2>3, <2>5 DEF At
<1>8. P[n] = NULL <=> t.root = n
    BY <1>1, AboveRoot
<1>9. n # NULL /\ t.root # NULL /\ D[n] \subseteq NodesOf(t) /\ NodesOf(t) \subseteq Node
    BY <1>1, Inherits, NodeFact, WholeFact
<1> DEFINE N == NodesOf(t) \ {n}
<1>10. N = At(E, l.root)
    <2>1. CASE P[n] = NULL
        <3>1. l.root = c /\ NodesOf(t) = {n} \cup At(D, c)
            BY <1>1, <1>5, <1>7, <1>8, <2>1
        <3>2. At(E, c) = At(D, c)
            <4>1. c # NULL => E[c] = D[c] \ {n}
                BY <1>6, <1>7
            <4> QED BY <1>7, <4>1 DEF At
        <3> QED BY <1>7, <3>1, <3>2
    <2>2. CASE P[n] # NULL
        <3>1. l.root = t.root /\ E[t.root] = D[t.root] \ {n}
            BY <1>1, <1>5, <1>6, <1>8, <2>2
        <3> QED BY <1>1, <1>9, <3>1 DEF At
    <2> QED BY <2>1, <2>2
<1>11. l.root # NULL => l.parent[l.root] = NULL
    <2>1. CASE P[n] = NULL
        BY <1>5, <1>6, <1>7, <2>1 DEF Q
    <2>2. CASE P[n] # NULL
        BY <1>1, <1>5, <1>6, <1>7, <1>8, <1>9, <2>2 DEF P, Q
    <2> QED BY <2>1, <2>2
<1>12. \A m \in N : Counts(l, E, m)
    BY <1>1, <1>5, <1>9
<1>13. \A m \in Node \ N : Single(l.parent, E, m)
    <2>1. Single(l.parent, E, n)
        BY <1>1, <1>6 DEF Q, Single
    <2>2. ASSUME NEW m \in Node, m \notin NodesOf(t) PROVE Single(l.parent, E, m)
        <3>1. m # n /\ m # c
            BY <1>7, <1>9, <2>2, NodeFact
        <3>2. D[m] = {m} /\ P[m] = NULL
            BY <2>2 DEF WholeOver, Single, P
        <3> QED BY <1>6, <3>1, <3>2 DEF Q, Single
    <2> QED BY <2>1, <2>2
<1>14. WholeOver(l, E) /\ NodesOf(l) = N
    <2> HIDE DEF N
    <2> QED BY <1>5, <1>10, <1>11, <1>12, <1>13, WholeIs
<1> QED BY <1>14

LEMMA RemovesInner ==
    ASSUME NEW t, NEW D, WholeOver(t, D), NEW n \in NodesOf(t),
           t.left[n] # NULL, t.right[n] # NULL,
           NEW l, l = Blanked(BSTRemoveInner(t, n).tree, n)
    PROVE  \E E : WholeOver(l, E) /\ NodesOf(l) = NodesOf(t) \ {n}
<1> DEFINE P == t.parent
           Q == l.parent
<1>1. /\ Standing(t, D) /\ Grove(t, D) /\ Forest(Kids(t), P, D) /\ n \in Node
      /\ t.root \in Node /\ NodesOf(t) = D[t.root] /\ P[t.root] = NULL
      /\ \A m \in Node, u \in Sides : Kids(t)[u][m] = t[u][m]
      /\ \A m \in NodesOf(t) : Counts(t, D, m)
    BY WholeFact DEF WholeOver, At
<1>2. PICK s : s = Neighbour(t, n, "right")
    OBVIOUS
<1>3. PICK c : c = t.right[s]
    OBVIOUS
<1>4. PICK E : E = InnerTrees(D, n, s)
    OBVIOUS
<1> DEFINE S(q) == Swap(n, s, q)
           F == CutTrees(D, s)
           G == CutParents(P, s, c)
<1>5. /\ Inner(t, D, n, s, P[s], c)
      /\ Grove(l, E)
      /\ l.root = IF P[n] = NULL THEN s ELSE t.root
      /\ l.parent = InnerParents(P, n, s, c)
      /\ \A m \in Node \ {n} : Counts(t, D, S(m)) => Counts(l, E, m)
    BY <1>1, <1>2, <1>3, <1>4, RemoveInner
<1>6. /\ \A m \in Node : Q[m] = S(G[S(m)])
      /\ \A m \in Node : E[m] = {x \in Node : S(x) \in F[S(m)]}
      /\ \A m \in Node : G[m] = IF m = s THEN NULL ELSE IF m = c THEN P[s] ELSE P[m]
      /\ \A m \in Node : F[m] = IF m = s THEN {s} ELSE D[m] \ {s}
    BY <1>4, <1>5 DEF InnerParents, InnerTrees, SwapParents, SwapTrees, CutParents, CutTrees
<1>7. /\ s \in Node /\ s # n /\ s # NULL /\ P[s] \in Node /\ P[s] # NULL
      /\ s \in D[t.right[n]] /\ t.right[n] \in Node /\ c = t.right[s]
    BY <1>5, NodeFact DEF Inner
<1> HIDE DEF P, Q, F, G
<1>8. /\ S(n) = s /\ S(s) = n
      /\ \A q : q # n /\ q # s => S(q) = q
      /\ \A q : S(S(q)) = q
      /\ \A q : S(q) = NULL <=> q = NULL
      /\ \A m \in Node : S(m) \in Node
    <2>1. n \in Node /\ s \in Node
        BY <1>1, <1>7
    <2> QED BY <2>1, SwapFact
<1> HIDE DEF S
<1>9. /\ "right" \in Sides /\ Kids(t)["right"][n] = t.right[n]
      /\ Kids(t)["right"][s] = t.right[s]
    BY <1>1, <1>7, SidesFact
<1>10. /\ D[n] \subseteq NodesOf(t) /\ NodesOf(t) \subseteq Node
       /\ s \in D[n]
       /\ c # NULL => c \in Node /\ P[c] = s /\ c \in NodesOf(t)
    <2>1. D[n] \subseteq NodesOf(t) /\ NodesOf(t) \subseteq Node
        BY <1>1, Inherits, WholeFact
    <2>2. s \in D[n]
        BY <1>1, <1>7, <1>9, SubtreeFact, NodeFact
    <2>3. D[s] \subseteq NodesOf(t)
        BY <1>1, <2>1, <2>2, Inherits
    <2>4. c # NULL => c \in Node /\ c \in D[s]
        BY <1>1, <1>7, <1>9, SubtreeFact
    <2>5. c # NULL => P[c] = s
        BY <1>1, <1>7, <1>9 DEF Forest
    <2> QED BY <2>1, <2>2, <2>3, <2>4, <2>5
<1>11. /\ P[n] = NULL <=> t.root = n
       /\ t.root # s /\ t.root # c /\ t.root # NULL
    BY <1>1, <1>7, <1>10, AboveRoot, NodeFact
<1>12. l.root = S(t.root) /\ l.root \in Node /\ l.root # NULL /\ S(l.root) = t.root
    BY <1>1, <1>5, <1>7, <1>8, <1>11
<1> DEFINE N == NodesOf(t) \ {n}
<1>13. \A x \in Node : x \in N <=> S(x) \in NodesOf(t) /\ S(x) # s
    BY <1>7, <1>8, <1>10
<1>14. N = At(E, l.root)
    <2>1. F[t.root] = NodesOf(t) \ {s}
        BY <1>1, <1>6, <1>11
    <2>2. At(E, l.root) = {x \in Node : S(x) \in F[t.root]}
        BY <1>6, <1>12 DEF At
    <2>3. N \subseteq Node
        BY <1>10
    <2> HIDE DEF N
    <2> QED BY <1>13, <2>1, <2>2, <2>3
<1>15. l.root # NULL => l.parent[l.root] = NULL
    <2>1. G[t.root] = NULL
        BY <1>1, <1>6, <1>11
    <2> QED BY <1>6, <1>8, <1>12, <2>1 DEF Q
<1>16. \A m \in N : Counts(l, E, m)
    <2> TAKE m \in N
    <2>1. m \in Node \ {n} /\ Counts(t, D, S(m))
        BY <1>1, <1>10, <1>13
    <2> QED BY <1>5, <2>1 DEF S
<1>17. \A m \in Node \ N : Single(l.parent, E, m)
    <2>1. ASSUME NEW m \in Node, NEW r \in Node, r = S(m), F[r] = {r}, G[r] = NULL
          PROVE  Single(l.parent, E, m)
        <3>1. Q[m] = NULL
            BY <1>6, <1>8, <2>1
        <3>2. E[m] = {x \in Node : S(x) = r}
            BY <1>6, <2>1
        <3>3. E[m] = {m}
            BY <1>8, <2>1, <3>2
        <3> QED BY <3>1, <3>3 DEF Q, Single
    <2>2. Single(l.parent, E, n)
        BY <1>1, <1>6, <1>7, <1>8, <2>1
    <2>3. ASSUME NEW m \in Node, m \notin NodesOf(t) PROVE Single(l.parent, E, m)
        <3>1. m # n /\ m # s /\ m # c /\ S(m) = m
            BY <1>8, <1>10, <2>3, NodeFact
        <3>2. D[m] = {m} /\ P[m] = NULL
            BY <2>3 DEF WholeOver, Single, P
        <3>3. F[m] = {m} /\ G[m] = NULL
            BY <1>6, <3>1, <3>2
        <3> QED BY <2>1, <3>1, <3>3
    <2> QED BY <2>2, <2>3
<1>18. WholeOver(l, E) /\ NodesOf(l) = N
    <2> HIDE DEF N
    <2> QED BY <1>5, <1>14, <1>15, <1>16, <1>17, WholeIs
<1> QED BY <1>18

(* remove takes out n and no other node.                                   *)
LEMMA WholeRemove ==
    ASSUME NEW t, NEW D, WholeOver(t, D), NEW n \in NodesOf(t),
           NEW l, l = Blanked(BSTRemove(t, n).tree, n)
    PROVE  /\ WholeOver(l, Trees(l))
           /\ KeysOf(l) = KeysOf(t) \ {KeyOf[n]}
<1>1. \E E : WholeOver(l, E) /\ NodesOf(l) = NodesOf(t) \ {n}
    <2>1. CASE t.left[n] = NULL \/ t.right[n] = NULL
        <3>1. l = Blanked(BSTRemoveOuter(t, n).tree, n)
            BY <2>1 DEF BSTRemove
        <3> QED BY <2>1, <3>1, RemovesOuter
    <2>2. CASE t.left[n] # NULL /\ t.right[n] # NULL
        <3>1. l = Blanked(BSTRemoveInner(t, n).tree, n)
            BY <2>2 DEF BSTRemove
        <3> QED BY <2>2, <3>1, RemovesInner
    <2> QED BY <2>1, <2>2
<1>2. WholeOver(l, Trees(l))
    BY <1>1, WholeFact
<1>3. \A m \in NodesOf(t) : KeyOf[m] = KeyOf[n] => m = n
    BY NodesOfFact, WholeFact
<1>4. KeysOf(l) = KeysOf(t) \ {KeyOf[n]}
    BY <1>1, <1>3 DEF KeysOf
<1> QED BY <1>2, <1>4

-----------------------------------------------------------------------------
(* The theorems.                                                           *)

LEMMA InitWhole == Init => Whole /\ KeysOf(tree) = {}
<1> SUFFICES ASSUME Init PROVE Whole /\ KeysOf(tree) = {}
    OBVIOUS
<1>1. tree = NoTree
    BY DEF Init
<1> DEFINE D == [m \in Node |-> {m}]
<1>2. /\ Typed(tree) /\ tree.root = NULL
      /\ \A m \in Node : tree.parent[m] = NULL /\ \A u \in Sides : tree[u][m] = NULL
    <2>1. Typed(tree)
        BY <1>1, NodeFact DEF NoTree, Typed
    <2>2. tree.root = NULL /\ \A m \in Node : tree.parent[m] = NULL
        BY <1>1 DEF NoTree
    <2>3. \A m \in Node : tree.left[m] = NULL /\ tree.right[m] = NULL
        BY <1>1 DEF NoTree
    <2> QED BY <2>1, <2>2, <2>3, SidesFact
<1>3. Forest(Kids(tree), tree.parent, D)
    <2>1. \A m \in Node, u \in Sides : Kids(tree)[u][m] = NULL
        BY <1>2, KidsFact
    <2>2. Kids(tree) \in Links /\ tree.parent \in [Node -> Pointer]
        BY <1>2, KidsFact, TypedFields
    <2>3. D \in [Node -> SUBSET Node] /\ \A m \in Node : D[m] = {m}
        OBVIOUS
    <2> HIDE DEF D
    <2> QED BY <1>2, <2>1, <2>2, <2>3, SidesFact DEF Forest, At
<1>4. \A m \in Node : D[m] = {m}
    OBVIOUS
<1> HIDE DEF D
<1>5. Grove(tree, D)
    BY <1>2, <1>3 DEF Grove
<1>6. WholeOver(tree, D) /\ NodesOf(tree) = {}
    <2>1. At(D, tree.root) = {}
        BY <1>2 DEF At
    <2>2. \A m \in Node \ {} : Single(tree.parent, D, m)
        BY <1>2, <1>4 DEF Single
    <2> QED BY <1>2, <1>5, <2>1, <2>2, WholeIs
<1>7. WholeOver(tree, Trees(tree))
    BY <1>6, WholeFact
<1> QED BY <1>6, <1>7 DEF Whole, KeysOf

LEMMA InsertKeepsWhole ==
    ASSUME Whole, NEW n \in Node, Insert(n)
    PROVE  Whole' /\ KeysOf(tree') = KeysOf(tree) \cup {KeyOf[n]}
<1>1. PICK t : t = tree
    OBVIOUS
<1>2. PICK l : l = tree'
    OBVIOUS
<1>3. WholeOver(t, Trees(t)) /\ n \notin NodesOf(t) /\ l = BSTInsert(t, n).tree
    BY <1>1, <1>2 DEF Whole, Insert
<1>4. WholeOver(l, Trees(l)) /\ KeysOf(l) = KeysOf(t) \cup {KeyOf[n]}
    BY <1>3, WholeInsert
<1> QED BY <1>1, <1>2, <1>4 DEF Whole

LEMMA RemoveKeepsWhole ==
    ASSUME Whole, NEW n \in Node, Remove(n)
    PROVE  Whole' /\ KeysOf(tree') = KeysOf(tree) \ {KeyOf[n]}
<1>1. PICK t : t = tree
    OBVIOUS
<1>2. PICK l : l = tree'
    OBVIOUS
<1>3. /\ WholeOver(t, Trees(t)) /\ n \in NodesOf(t)
      /\ l = Blanked(BSTRemove(t, n).tree, n)
    BY <1>1, <1>2 DEF Whole, Remove
<1>4. WholeOver(l, Trees(l)) /\ KeysOf(l) = KeysOf(t) \ {KeyOf[n]}
    BY <1>3, WholeRemove
<1> QED BY <1>1, <1>2, <1>4 DEF Whole

LEMMA AllFollow ==
    ASSUME Whole
    PROVE  TypeOK /\ TreeLinked /\ TreeSized /\ TreeWalked /\ TreeAnswers
<1>1. PICK t, D : t = tree /\ D = Trees(t) /\ WholeOver(t, D)
    BY DEF Whole
<1>2. /\ Standing(t, D) /\ Grove(t, D) /\ Typed(t) /\ Forest(Kids(t), t.parent, D)
      /\ NodesOf(t) \subseteq Node
      /\ t.root # NULL => t.parent[t.root] = NULL
      /\ \A m \in Node, u \in Sides : Kids(t)[u][m] = t[u][m]
    BY <1>1, WholeFact DEF WholeOver
<1>3. Linked(t)
    <2>1. \A m \in Node, u \in Sides : t[u][m] # NULL => t.parent[t[u][m]] = m
        BY <1>2 DEF Forest
    <2> QED BY <1>2, <2>1 DEF Linked
<1>4. Sized(t)
    <2>1. \A m \in NodesOf(t) : Counts(t, D, m) /\ NodesAt(t, m) = D[m]
        BY <1>1, <1>2, NodesAtFact, NodeFact DEF WholeOver, At
    <2> QED BY <2>1 DEF Sized, Counts
<1>5. Walked(t) /\ Answers(t)
    BY <1>2, WalkedFact, AnswersFact
<1> QED BY <1>1, <1>2, <1>3, <1>4, <1>5
    DEF TypeOK, TreeLinked, TreeSized, TreeWalked, TreeAnswers

(* The inductive invariant holds: the nodes of the tree form one search    *)
(* tree with exact sizes and no node outside has a link, through all       *)
(* inserts, replacements and removals.                                     *)
THEOREM WholeHolds == Spec => []Whole
<1>1. Init => Whole
    BY InitWhole
<1>2. Whole /\ [Next]_tree => Whole'
    <2> SUFFICES ASSUME Whole, [Next]_tree PROVE Whole'
        OBVIOUS
    <2>1. ASSUME NEW n \in Node, Insert(n) PROVE Whole'
        BY <2>1, InsertKeepsWhole
    <2>2. ASSUME NEW n \in Node, Remove(n) PROVE Whole'
        BY <2>2, RemoveKeepsWhole
    <2>3. CASE UNCHANGED tree
        BY <2>3 DEF Whole
    <2> QED BY <2>1, <2>2, <2>3 DEF Next
<1> QED BY <1>1, <1>2, PTL DEF Spec

(* The links are to nodes, or nullptr, and the sizes are numbers: no size  *)
(* is taken below zero.                                                    *)
THEOREM TypeCorrect == Spec => []TypeOK
BY WholeHolds, AllFollow, PTL

(* The parent links are the child links turned round, whatever remove has  *)
(* relinked.                                                               *)
THEOREM LinkedCorrect == Spec => []TreeLinked
BY WholeHolds, AllFollow, PTL

(* Every node counts the nodes of its subtree.                             *)
THEOREM SizedCorrect == Spec => []TreeSized
BY WholeHolds, AllFollow, PTL

(* pred(node) and succ(node) are the neighbours in the order of the keys.  *)
THEOREM WalkedCorrect == Spec => []TreeWalked
BY WholeHolds, AllFollow, PTL

(* find, pred, succ, leftmost and rightmost answer as for a sorted set.    *)
THEOREM AnswersCorrect == Spec => []TreeAnswers
BY WholeHolds, AllFollow, PTL

(* insert adds one key and remove takes one away.                          *)
THEOREM Refinement == Spec => ImplementsSortedSet
<1>1. Init => Abstract!Init
    BY InitWhole DEF Abstract!Init
<1>2. ASSUME Whole, [Next]_tree PROVE [Abstract!Next]_(KeysOf(tree))
    <2>1. ASSUME NEW n \in Node, Insert(n) PROVE KeysOf(tree') \in Abstract!Inserted
        <3>1. KeysOf(tree') = KeysOf(tree) \cup {KeyOf[n]} /\ KeyOf[n] \in Key
            BY <1>2, <2>1, InsertKeepsWhole DEF Key
        <3> QED BY <3>1 DEF Abstract!Inserted
    <2>2. ASSUME NEW n \in Node, Remove(n) PROVE KeysOf(tree') \in Abstract!Removed
        <3>1. KeysOf(tree') = KeysOf(tree) \ {KeyOf[n]}
            BY <1>2, <2>2, RemoveKeepsWhole
        <3>2. KeyOf[n] \in KeysOf(tree)
            BY <2>2 DEF Remove, KeysOf
        <3> QED BY <3>1, <3>2 DEF Abstract!Removed
    <2>3. CASE UNCHANGED tree
        BY <2>3
    <2> QED BY <1>2, <2>1, <2>2, <2>3 DEF Next, Abstract!Next
<1> QED BY <1>1, <1>2, WholeHolds, PTL DEF Spec, ImplementsSortedSet, Abstract!Spec
=============================================================================
