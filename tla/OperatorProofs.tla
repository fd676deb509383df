--------------------------- MODULE OperatorProofs ----------------------------
(***************************************************************************)
(* What the operators of OrderedKeys and TreeShape return: the least and   *)
(* greatest keys and the nearest ones of every finite set of naturals, and *)
(* how evenly the root of an AVL tree divides its keys.                    *)
(***************************************************************************)
EXTENDS OrderedKeys, TreeShape, FiniteSetTheorems, WellFoundedInduction, TLAPS

-----------------------------------------------------------------------------
(* The least, the greatest and the nearest keys of a set.                  *)

(* NULL is not a key, and comes before every key.                          *)
LEMMA NullFact ==
    /\ NULL \in Int
    /\ \A k \in Nat : NULL # k /\ NULL < k
BY DEF NULL

(* A finite, non-empty set of naturals has a least and a greatest member:  *)
(* a smallest counterexample would lose one of its members to a set that   *)
(* has them.                                                               *)
LEMMA EndsExist ==
    ASSUME NEW S \in SUBSET Nat, IsFiniteSet(S), S # {}
    PROVE  /\ \E m \in S : \A x \in S : m <= x
           /\ \E m \in S : \A x \in S : x <= m
<1> DEFINE HasEnds(T) == /\ \E m \in T : \A x \in T : m <= x
                         /\ \E m \in T : \A x \in T : x <= m
           Without == {T \in SUBSET S : T # {} /\ ~HasEnds(T)}
<1>1. SUFFICES ASSUME Without # {} PROVE FALSE
    OBVIOUS
<1>2. IsWellFoundedOn(StrictSubsetOrdering(S), SUBSET S)
    BY FS_StrictSubsetOrderingWellFounded, FS_FiniteSubsetsOfFinite
<1>3. Without \subseteq SUBSET S
    OBVIOUS
<1>4. PICK T \in Without :
          \A U \in Without : ~(<<U, T>> \in StrictSubsetOrdering(S))
    <2> HIDE DEF Without
    <2> QED BY <1>1, <1>2, <1>3, WFMin
<1>5. PICK x \in T : TRUE
    OBVIOUS
<1>6. T \ {x} \notin Without
    BY <1>4, <1>5 DEF StrictSubsetOrdering
<1>7. CASE T = {x}
    BY <1>7
<1>8. CASE T # {x}
    <2>1. HasEnds(T \ {x})
        BY <1>5, <1>6, <1>8
    <2>2. PICK a \in T \ {x}, b \in T \ {x} :
              \A y \in T \ {x} : a <= y /\ y <= b
        BY <2>1
    <2>3. \E m \in T : \A y \in T : m <= y
        <3>1. CASE a <= x
            BY <2>2, <3>1
        <3>2. CASE x < a
            BY <2>2, <3>2
        <3> QED BY <2>2, <3>1, <3>2
    <2>4. \E m \in T : \A y \in T : y <= m
        <3>1. CASE x <= b
            BY <2>2, <3>1
        <3>2. CASE b < x
            BY <2>2, <3>2
        <3> QED BY <2>2, <3>1, <3>2
    <2> QED BY <2>3, <2>4
<1> QED BY <1>7, <1>8

(* LeastOf is the least member, and NULL just when there is none.          *)
LEMMA LeastOfFact ==
    ASSUME NEW S \in SUBSET Nat, IsFiniteSet(S)
    PROVE  /\ LeastOf(S) = NULL <=> S = {}
           /\ S # {} => /\ LeastOf(S) \in S
                        /\ \A x \in S : LeastOf(S) <= x
<1>1. CASE S = {}
    BY <1>1 DEF LeastOf
<1>2. CASE S # {}
    <2>1. LeastOf(S) \in S /\ \A x \in S : LeastOf(S) <= x
        BY <1>2, EndsExist DEF LeastOf
    <2>2. LeastOf(S) # NULL
        BY <2>1, NullFact
    <2> QED BY <1>2, <2>1, <2>2
<1> QED BY <1>1, <1>2

(* GreatestOf is the greatest member, and NULL just when there is none.    *)
LEMMA GreatestOfFact ==
    ASSUME NEW S \in SUBSET Nat, IsFiniteSet(S)
    PROVE  /\ GreatestOf(S) = NULL <=> S = {}
           /\ S # {} => /\ GreatestOf(S) \in S
                        /\ \A x \in S : x <= GreatestOf(S)
<1>1. CASE S = {}
    BY <1>1 DEF GreatestOf
<1>2. CASE S # {}
    <2>1. GreatestOf(S) \in S /\ \A x \in S : x <= GreatestOf(S)
        BY <1>2, EndsExist DEF GreatestOf
    <2>2. GreatestOf(S) # NULL
        BY <2>1, NullFact
    <2> QED BY <1>2, <2>1, <2>2
<1> QED BY <1>1, <1>2

(* The candidates for an answer, with and without the key itself.          *)
LEMMA BelowFact ==
    ASSUME NEW S \in SUBSET Nat, NEW k \in Nat
    PROVE  /\ \A x : x \in Below(S, k, TRUE) <=> x \in S /\ x < k
           /\ \A x : x \in Below(S, k, FALSE) <=> x \in S /\ x <= k
<1>1. \A x \in S : x <= k <=> x < k \/ x = k
    OBVIOUS
<1> QED BY <1>1, Zenon DEF Below

LEMMA AboveFact ==
    ASSUME NEW S \in SUBSET Nat, NEW k \in Nat
    PROVE  /\ \A x : x \in Above(S, k, TRUE) <=> x \in S /\ k < x
           /\ \A x : x \in Above(S, k, FALSE) <=> x \in S /\ k <= x
<1>1. \A x \in S : k <= x <=> k < x \/ x = k
    OBVIOUS
<1> QED BY <1>1, Zenon DEF Above

(* PredIn is the last of the candidates below k, or NULL if there is none. *)
LEMMA PredInFact ==
    ASSUME NEW S \in SUBSET Nat, IsFiniteSet(S), NEW k, NEW strict
    PROVE  LET p == PredIn(S, k, strict)
               B == Below(S, k, strict)
           IN  \/ p = NULL /\ B = {}
               \/ p # NULL /\ p \in S /\ p \in B /\ \A x \in B : x <= p
<1> DEFINE B == Below(S, k, strict)
<1>1. B \in SUBSET Nat /\ IsFiniteSet(B) /\ B \subseteq S
    BY FS_Subset DEF Below
<1>2. PredIn(S, k, strict) = GreatestOf(B)
    BY DEF PredIn
<1> HIDE DEF B
<1>3. \/ GreatestOf(B) = NULL /\ B = {}
      \/ GreatestOf(B) # NULL /\ GreatestOf(B) \in B /\ \A x \in B : x <= GreatestOf(B)
    BY <1>1, GreatestOfFact
<1> QED BY <1>1, <1>2, <1>3 DEF B

(* SuccIn is the first of the candidates above k, or NULL if there is none. *)
LEMMA SuccInFact ==
    ASSUME NEW S \in SUBSET Nat, IsFiniteSet(S), NEW k, NEW strict
    PROVE  LET p == SuccIn(S, k, strict)
               A == Above(S, k, strict)
           IN  \/ p = NULL /\ A = {}
               \/ p # NULL /\ p \in S /\ p \in A /\ \A x \in A : p <= x
<1> DEFINE A == Above(S, k, strict)
<1>1. A \in SUBSET Nat /\ IsFiniteSet(A) /\ A \subseteq S
    BY FS_Subset DEF Above
<1>2. SuccIn(S, k, strict) = LeastOf(A)
    BY DEF SuccIn
<1> HIDE DEF A
<1>3. \/ LeastOf(A) = NULL /\ A = {}
      \/ LeastOf(A) # NULL /\ LeastOf(A) \in A /\ \A x \in A : LeastOf(A) <= x
    BY <1>1, LeastOfFact
<1> QED BY <1>1, <1>2, <1>3 DEF A

(* The four queries in terms of the set: the last member up to k, the last *)
(* before k, the first from k on and the first after k.                    *)
LEMMA LastUpTo ==
    ASSUME NEW S \in SUBSET Nat, IsFiniteSet(S), NEW k \in Nat,
           NEW p, p = PredIn(S, k, FALSE)
    PROVE  \/ p = NULL /\ \A s \in S : k < s
           \/ p # NULL /\ p \in S /\ p <= k /\ \A s \in S : s <= p \/ k < s
<1> DEFINE C == Below(S, k, FALSE)
<1>1. \/ p = NULL /\ C = {}
      \/ p # NULL /\ p \in S /\ p \in C /\ \A s \in C : s <= p
    BY PredInFact
<1>2. \A s : s \in C <=> s \in S /\ s <= k
    BY BelowFact
<1>3. \A s \in S : s <= k \/ k < s
    OBVIOUS
<1> HIDE DEF C
<1>4. CASE p = NULL
    BY <1>1, <1>2, <1>3, <1>4
<1>5. CASE p # NULL
    BY <1>1, <1>2, <1>3, <1>5
<1> QED BY <1>4, <1>5

LEMMA LastBefore ==
    ASSUME NEW S \in SUBSET Nat, IsFiniteSet(S), NEW k \in Nat,
           NEW p, p = PredIn(S, k, TRUE)
    PROVE  \/ p = NULL /\ \A s \in S : k <= s
           \/ p # NULL /\ p \in S /\ p < k /\ \A s \in S : s <= p \/ k <= s
<1> DEFINE C == Below(S, k, TRUE)
<1>1. \/ p = NULL /\ C = {}
      \/ p # NULL /\ p \in S /\ p \in C /\ \A s \in C : s <= p
    BY PredInFact
<1>2. \A s : s \in C <=> s \in S /\ s < k
    BY BelowFact
<1>3. \A s \in S : s < k \/ k <= s
    OBVIOUS
<1> HIDE DEF C
<1>4. CASE p = NULL
    BY <1>1, <1>2, <1>3, <1>4
<1>5. CASE p # NULL
    BY <1>1, <1>2, <1>3, <1>5
<1> QED BY <1>4, <1>5

LEMMA FirstFrom ==
    ASSUME NEW S \in SUBSET Nat, IsFiniteSet(S), NEW k \in Nat,
           NEW p, p = SuccIn(S, k, FALSE)
    PROVE  \/ p = NULL /\ \A s \in S : s < k
           \/ p # NULL /\ p \in S /\ k <= p /\ \A s \in S : p <= s \/ s < k
<1> DEFINE C == Above(S, k, FALSE)
<1>1. \/ p = NULL /\ C = {}
      \/ p # NULL /\ p \in S /\ p \in C /\ \A s \in C : p <= s
    BY SuccInFact
<1>2. \A s : s \in C <=> s \in S /\ k <= s
    BY AboveFact
<1>3. \A s \in S : k <= s \/ s < k
    OBVIOUS
<1> HIDE DEF C
<1>4. CASE p = NULL
    BY <1>1, <1>2, <1>3, <1>4
<1>5. CASE p # NULL
    BY <1>1, <1>2, <1>3, <1>5
<1> QED BY <1>4, <1>5

LEMMA FirstAfter ==
    ASSUME NEW S \in SUBSET Nat, IsFiniteSet(S), NEW k \in Nat,
           NEW p, p = SuccIn(S, k, TRUE)
    PROVE  \/ p = NULL /\ \A s \in S : s <= k
           \/ p # NULL /\ p \in S /\ k < p /\ \A s \in S : p <= s \/ s <= k
<1> DEFINE C == Above(S, k, TRUE)
<1>1. \/ p = NULL /\ C = {}
      \/ p # NULL /\ p \in S /\ p \in C /\ \A s \in C : p <= s
    BY SuccInFact
<1>2. \A s : s \in C <=> s \in S /\ k < s
    BY AboveFact
<1>3. \A s \in S : k < s \/ s <= k
    OBVIOUS
<1> HIDE DEF C
<1>4. CASE p = NULL
    BY <1>1, <1>2, <1>3, <1>4
<1>5. CASE p # NULL
    BY <1>1, <1>2, <1>3, <1>5
<1> QED BY <1>4, <1>5

(* Conversely, the last candidate below k is what PredIn returns, and the  *)
(* first above k what SuccIn returns.                                      *)
LEMMA PredInIs ==
    ASSUME NEW S \in SUBSET Nat, IsFiniteSet(S), NEW k, NEW strict,
           NEW p \in Below(S, k, strict), \A x \in Below(S, k, strict) : x <= p
    PROVE  PredIn(S, k, strict) = p
<1>1. Below(S, k, strict) \subseteq Nat
    BY DEF Below
<1> QED BY <1>1, PredInFact

LEMMA SuccInIs ==
    ASSUME NEW S \in SUBSET Nat, IsFiniteSet(S), NEW k, NEW strict,
           NEW p \in Above(S, k, strict), \A x \in Above(S, k, strict) : p <= x
    PROVE  SuccIn(S, k, strict) = p
<1>1. Above(S, k, strict) \subseteq Nat
    BY DEF Above
<1> QED BY <1>1, SuccInFact

-----------------------------------------------------------------------------
(* Trees level by level.  A recursive definition means a function that     *)
(* obeys it only if there is one: it is built up height by height.         *)

LEMMA LeastNatural ==
    ASSUME NEW S, S \subseteq Nat, S # {}
    PROVE  \E m \in S : \A n \in S : m <= n
<1>1. PICK m \in S : \A n \in S : ~(<<n, m>> \in OpToRel(<, Nat))
    BY NatLessThanWellFounded, WFMin
<1>2. \A n \in S : ~(n < m)
    BY <1>1 DEF OpToRel
<1> QED BY <1>2

OneTaller(d, f) == [h \in Nat |-> IF h < 2 THEN h ELSE f[h - 1] + f[h - d] + 1]

Obeys(d, f, n) == \A h \in 0 .. n : f[h] = OneTaller(d, f)[h]

LEMMA SolvesStep ==
    ASSUME NEW d \in {1, 2}, NEW n \in Nat, NEW f, n = 0 \/ Obeys(d, f, n - 1)
    PROVE  Obeys(d, OneTaller(d, f), n)
<1> DEFINE g == OneTaller(d, f)
<1>1. SUFFICES ASSUME NEW h \in 0 .. n PROVE g[h] = OneTaller(d, g)[h]
    BY DEF Obeys
<1>2. CASE h < 2
    BY <1>2 DEF OneTaller
<1>3. CASE ~(h < 2)
    <2>1. h - 1 \in 0 .. n - 1 /\ h - d \in 0 .. n - 1 /\ n # 0 /\ h \in Nat
        BY <1>3
    <2>2. f[h - 1] = OneTaller(d, f)[h - 1] /\ f[h - d] = OneTaller(d, f)[h - d]
        BY <2>1 DEF Obeys
    <2>3. g[h] = f[h - 1] + f[h - d] + 1 /\ OneTaller(d, g)[h] = g[h - 1] + g[h - d] + 1
        BY <1>3, <2>1 DEF OneTaller
    <2> QED BY <2>2, <2>3
<1> QED BY <1>2, <1>3

LEMMA SolvesExists ==
    ASSUME NEW d \in {1, 2}, NEW n \in Nat
    PROVE  \E f : Obeys(d, f, n)
<1> DEFINE Unsolved == {i \in Nat : ~\E f : Obeys(d, f, i)}
<1>1. SUFFICES ASSUME Unsolved # {} PROVE FALSE
    OBVIOUS
<1>2. PICK i \in Unsolved : \A j \in Unsolved : i <= j
    BY <1>1, LeastNatural
<1>3. i # 0 => i - 1 \in Nat /\ i - 1 \notin Unsolved
    BY <1>2
<1>4. \E f : i = 0 \/ Obeys(d, f, i - 1)
    BY <1>3
<1> QED BY <1>2, <1>4, SolvesStep

LEMMA SolvesUnique ==
    ASSUME NEW d \in {1, 2}, NEW n \in Nat, NEW m \in Nat, NEW f, NEW g, Obeys(d, f, n), Obeys(d, g, m)
    PROVE  \A h \in Nat : h <= n /\ h <= m => f[h] = g[h]
<1> DEFINE Wrong == {h \in Nat : h <= n /\ h <= m /\ f[h] # g[h]}
<1>1. SUFFICES ASSUME Wrong # {} PROVE FALSE
    OBVIOUS
<1>2. PICK h \in Wrong : \A j \in Wrong : h <= j
    BY <1>1, LeastNatural
<1>3. f[h] = OneTaller(d, f)[h] /\ g[h] = OneTaller(d, g)[h] /\ h \in Nat
    BY <1>2 DEF Obeys
<1>4. CASE h < 2
    BY <1>2, <1>3, <1>4 DEF OneTaller
<1>5. CASE ~(h < 2)
    <2>1. h - 1 \in Nat /\ h - d \in Nat /\ h - 1 \notin Wrong /\ h - d \notin Wrong
        BY <1>2, <1>5
    <2>2. f[h - 1] = g[h - 1] /\ f[h - d] = g[h - d]
        BY <1>2, <2>1
    <2>3. f[h] = f[h - 1] + f[h - d] + 1 /\ g[h] = g[h - 1] + g[h - d] + 1
        BY <1>3, <1>5 DEF OneTaller
    <2> QED BY <1>2, <2>2, <2>3
<1> QED BY <1>4, <1>5

LEMMA SizesByDefined ==
    ASSUME NEW d \in {1, 2}
    PROVE  SizesBy(d) = OneTaller(d, SizesBy(d))
<1> DEFINE s == [n \in Nat |-> (CHOOSE f : Obeys(d, f, n))[n]]
<1>1. ASSUME NEW n \in Nat, NEW h \in 0 .. n
      PROVE  (CHOOSE f : Obeys(d, f, n))[h] = s[h]
    <2>1. Obeys(d, CHOOSE f : Obeys(d, f, n), n)
        BY SolvesExists, Zenon
    <2>2. Obeys(d, CHOOSE f : Obeys(d, f, h), h)
        <3>1. h \in Nat
            OBVIOUS
        <3> QED BY <3>1, SolvesExists, Zenon
    <2>3. (CHOOSE f : Obeys(d, f, n))[h] = (CHOOSE f : Obeys(d, f, h))[h]
        BY <2>1, <2>2, SolvesUnique
    <2> QED BY <2>3
<1>2. ASSUME NEW n \in Nat PROVE s[n] = OneTaller(d, s)[n]
    <2> DEFINE f == CHOOSE f : Obeys(d, f, n)
    <2>1. Obeys(d, f, n)
        BY SolvesExists, Zenon
    <2>2. \A h \in 0 .. n : f[h] = s[h]
        BY <1>1
    <2> HIDE DEF f, s
    <2>3. s[n] = OneTaller(d, f)[n]
        BY <2>1, <2>2 DEF Obeys
    <2>4. CASE n < 2
        BY <2>3, <2>4 DEF OneTaller
    <2>5. CASE ~(n < 2)
        <3>1. n - 1 \in 0 .. n /\ n - d \in 0 .. n
            BY <2>5
        <3>2. OneTaller(d, f)[n] = f[n - 1] + f[n - d] + 1 /\ OneTaller(d, s)[n] = s[n - 1] + s[n - d] + 1
            BY <2>5 DEF OneTaller
        <3> QED BY <2>2, <2>3, <3>1, <3>2
    <2> QED BY <2>4, <2>5
<1>3. s = OneTaller(d, s)
    <2>1. s = [n \in Nat |-> s[n]]
        OBVIOUS
    <2>2. OneTaller(d, s) = [n \in Nat |-> OneTaller(d, s)[n]]
        BY DEF OneTaller
    <2> HIDE DEF s
    <2> QED BY <1>2, <2>1, <2>2
<1> HIDE DEF s
<1>4. \E t : t = OneTaller(d, t)
    BY <1>3
<1> DEFINE c == CHOOSE t : t = OneTaller(d, t)
<1>5. c = OneTaller(d, c)
    BY <1>4, Zenon
<1>6. SizesBy(d) = c
    BY Zenon DEF SizesBy, OneTaller
<1> QED BY <1>5, <1>6

LEMMA SizesByStep ==
    ASSUME NEW d \in {1, 2}, NEW f, f = SizesBy(d)
    PROVE  \A h \in Nat : f[h] = IF h < 2 THEN h ELSE f[h - 1] + f[h - d] + 1
<1>1. f = OneTaller(d, f)
    BY SizesByDefined
<1> QED BY <1>1, Zenon DEF OneTaller

LEMMA SparsestStep ==
    /\ Sparsest[0] = 0 /\ Sparsest[1] = 1
    /\ \A h \in Nat : Sparsest[h + 2] = Sparsest[h + 1] + Sparsest[h] + 1
<1>1. \A h \in Nat : Sparsest[h] = IF h < 2 THEN h ELSE Sparsest[h - 1] + Sparsest[h - 2] + 1
    BY SizesByStep DEF Sparsest
<1>2. Sparsest[0] = 0 /\ Sparsest[1] = 1
    BY <1>1
<1>3. ASSUME NEW h \in Nat PROVE Sparsest[h + 2] = Sparsest[h + 1] + Sparsest[h] + 1
    <2>1. h + 2 \in Nat /\ ~(h + 2 < 2) /\ h + 2 - 1 = h + 1 /\ h + 2 - 2 = h
        OBVIOUS
    <2> QED BY <1>1, <2>1
<1> QED BY <1>2, <1>3

(* The full trees, one more level each.                                    *)
LEMMA FullestStep ==
    /\ Fullest[0] = 0
    /\ \A h \in Nat : Fullest[h + 1] = Fullest[h] + Fullest[h] + 1
<1>1. \A h \in Nat : Fullest[h] = IF h < 2 THEN h ELSE Fullest[h - 1] + Fullest[h - 1] + 1
    BY SizesByStep DEF Fullest
<1>2. Fullest[0] = 0 /\ Fullest[1] = 1
    BY <1>1
<1>3. ASSUME NEW h \in Nat PROVE Fullest[h + 1] = Fullest[h] + Fullest[h] + 1
    <2>1. CASE h = 0
        BY <1>2, <2>1
    <2>2. CASE h # 0
        <3>1. h + 1 \in Nat /\ ~(h + 1 < 2) /\ h + 1 - 1 = h
            BY <2>2
        <3> QED BY <1>1, <3>1
    <2> QED BY <2>1, <2>2
<1> QED BY <1>2, <1>3

(* The heights that matter here.                                           *)
LEMMA SparsestSmall ==
    /\ Sparsest[0] = 0 /\ Sparsest[1] = 1 /\ Sparsest[2] = 2 /\ Sparsest[3] = 4
    /\ Sparsest[4] = 7 /\ Sparsest[5] = 12 /\ Sparsest[6] = 20 /\ Sparsest[7] = 33
    /\ Sparsest[8] = 54
<1>1. Sparsest[0] = 0 /\ Sparsest[1] = 1
    BY SparsestStep
<1>2. Sparsest[0 + 2] = Sparsest[0 + 1] + Sparsest[0] + 1
    BY SparsestStep
<1>3. Sparsest[1 + 2] = Sparsest[1 + 1] + Sparsest[1] + 1
    BY SparsestStep
<1>4. Sparsest[2 + 2] = Sparsest[2 + 1] + Sparsest[2] + 1
    BY SparsestStep
<1>5. Sparsest[3 + 2] = Sparsest[3 + 1] + Sparsest[3] + 1
    BY SparsestStep
<1>6. Sparsest[4 + 2] = Sparsest[4 + 1] + Sparsest[4] + 1
    BY SparsestStep
<1>7. Sparsest[5 + 2] = Sparsest[5 + 1] + Sparsest[5] + 1
    BY SparsestStep
<1>8. Sparsest[6 + 2] = Sparsest[6 + 1] + Sparsest[6] + 1
    BY SparsestStep
<1> QED BY <1>1, <1>2, <1>3, <1>4, <1>5, <1>6, <1>7, <1>8

(* Taller trees have more nodes, and at least one per level.               *)
LEMMA SparsestGrows ==
    \A h \in Nat : /\ Sparsest[h] \in Nat /\ Sparsest[h + 1] \in Nat
                   /\ Sparsest[h] < Sparsest[h + 1]
                   /\ h <= Sparsest[h]
                   /\ h >= 8 => Sparsest[h] >= 54
<1> DEFINE Grows(h) == /\ Sparsest[h] \in Nat /\ Sparsest[h + 1] \in Nat
                       /\ Sparsest[h] < Sparsest[h + 1]
                       /\ h <= Sparsest[h]
                       /\ h >= 8 => Sparsest[h] >= 54
           Wrong == {h \in Nat : ~Grows(h)}
<1>1. SUFFICES ASSUME Wrong # {} PROVE FALSE
    OBVIOUS
<1>2. PICK h \in Wrong : \A j \in Wrong : h <= j
    <2> HIDE DEF Wrong
    <2>1. Wrong \subseteq Nat
        BY DEF Wrong
    <2> QED BY <1>1, <2>1, LeastNatural
<1>3. h \in Nat /\ ~Grows(h)
    BY <1>2
<1>4. CASE h = 0
    BY <1>3, <1>4, SparsestSmall
<1>5. CASE h # 0
    <2>1. h - 1 \in Nat /\ h - 1 \notin Wrong /\ h - 1 + 1 = h
        BY <1>2, <1>3, <1>5
    <2>2. Grows(h - 1)
        BY <2>1
    <2>3. Sparsest[h - 1 + 2] = Sparsest[h - 1 + 1] + Sparsest[h - 1] + 1
        BY <2>1, SparsestStep
    <2>4. h - 1 + 2 = h + 1
        BY <2>1
    <2>5. Sparsest[h + 1] = Sparsest[h] + Sparsest[h - 1] + 1
        BY <2>1, <2>3, <2>4
    <2>6. CASE h = 8
        BY <1>3, <2>1, <2>2, <2>5, <2>6, SparsestSmall
    <2>7. CASE h # 8
        BY <1>3, <2>1, <2>2, <2>5, <2>7
    <2> QED BY <2>6, <2>7
<1> QED BY <1>4, <1>5

LEMMA FullestGrows ==
    \A h \in Nat : Fullest[h] \in Nat /\ Fullest[h + 1] \in Nat /\ Fullest[h] <= Fullest[h + 1]
<1> DEFINE Wrong == {h \in Nat : Fullest[h] \notin Nat}
<1>1. Wrong = {}
    <2>1. SUFFICES ASSUME Wrong # {} PROVE FALSE
        OBVIOUS
    <2>2. PICK h \in Wrong : \A j \in Wrong : h <= j
        <3> HIDE DEF Wrong
        <3>1. Wrong \subseteq Nat
            BY DEF Wrong
        <3> QED BY <2>1, <3>1, LeastNatural
    <2>3. h \in Nat /\ h # 0
        BY <2>2, FullestStep
    <2>4. h - 1 \in Nat /\ h - 1 \notin Wrong /\ h - 1 + 1 = h
        BY <2>2, <2>3
    <2>5. Fullest[h - 1 + 1] = Fullest[h - 1] + Fullest[h - 1] + 1
        BY <2>4, FullestStep
    <2> QED BY <2>2, <2>4, <2>5
<1>2. ASSUME NEW h \in Nat
      PROVE  Fullest[h] \in Nat /\ Fullest[h + 1] \in Nat /\ Fullest[h] <= Fullest[h + 1]
    <2>1. Fullest[h] \in Nat
        BY <1>1
    <2>2. Fullest[h + 1] = Fullest[h] + Fullest[h] + 1
        BY FullestStep
    <2> QED BY <2>1, <2>2
<1> QED BY <1>2

(* A node above subtrees of the two heights.                               *)
LEMMA HeightAbove ==
    ASSUME NEW a \in Nat, NEW b \in Nat, NEW i \in Nat, NEW j \in Nat,
           HasHeight(a, i), HasHeight(b, j), NEW h,
           \/ i = j /\ h = i + 1
           \/ i = j + 1 /\ h = i + 1
           \/ j = i + 1 /\ h = j + 1
    PROVE  HasHeight(1 + a + b, h)
<1>1. /\ Sparsest[i] <= a /\ a <= Fullest[i] /\ Sparsest[i] \in Nat /\ Fullest[i] \in Nat
      /\ Sparsest[j] <= b /\ b <= Fullest[j] /\ Sparsest[j] \in Nat /\ Fullest[j] \in Nat
    BY SparsestGrows, FullestGrows DEF HasHeight
<1>2. /\ Fullest[i + 1] = Fullest[i] + Fullest[i] + 1
      /\ Fullest[j + 1] = Fullest[j] + Fullest[j] + 1
    BY FullestStep
<1>3. CASE i = j /\ h = i + 1
    <2>1. Sparsest[i + 1] <= Sparsest[i] + Sparsest[i] + 1
        <3>1. CASE i = 0
            BY <3>1, SparsestStep
        <3>2. CASE i # 0
            <4>1. i - 1 \in Nat /\ i - 1 + 1 = i /\ i - 1 + 2 = i + 1
                BY <3>2
            <4>2. Sparsest[i - 1 + 2] = Sparsest[i - 1 + 1] + Sparsest[i - 1] + 1
                BY <4>1, SparsestStep
            <4>3. Sparsest[i - 1] < Sparsest[i - 1 + 1] /\ Sparsest[i - 1] \in Nat
                BY <4>1, SparsestGrows
            <4>4. Sparsest[i + 1] = Sparsest[i] + Sparsest[i - 1] + 1
                BY <4>1, <4>2
            <4>5. Sparsest[i - 1] < Sparsest[i]
                BY <4>1, <4>3
            <4> QED BY <1>1, <4>3, <4>4, <4>5
        <3> QED BY <3>1, <3>2
    <2>2. Sparsest[i + 1] \in Nat
        BY SparsestGrows
    <2> QED BY <1>1, <1>2, <1>3, <2>1, <2>2 DEF HasHeight
<1>4. CASE i = j + 1 /\ h = i + 1
    <2>1. Sparsest[j + 2] = Sparsest[j + 1] + Sparsest[j] + 1 /\ h = j + 2
        BY <1>4, SparsestStep
    <2>2. Fullest[j] <= Fullest[i]
        BY <1>4, FullestGrows
    <2>3. Sparsest[h] = Sparsest[i] + Sparsest[j] + 1
        BY <1>4, <2>1
    <2>4. Fullest[h] = Fullest[i] + Fullest[i] + 1
        BY <1>2, <1>4
    <2> QED BY <1>1, <2>2, <2>3, <2>4 DEF HasHeight
<1>5. CASE j = i + 1 /\ h = j + 1
    <2>1. Sparsest[i + 2] = Sparsest[i + 1] + Sparsest[i] + 1 /\ h = i + 2
        BY <1>5, SparsestStep
    <2>2. Fullest[i] <= Fullest[j]
        BY <1>5, FullestGrows
    <2>3. Sparsest[h] = Sparsest[j] + Sparsest[i] + 1
        BY <1>5, <2>1
    <2>4. Fullest[h] = Fullest[j] + Fullest[j] + 1
        BY <1>2, <1>5
    <2> QED BY <1>1, <2>2, <2>3, <2>4 DEF HasHeight
<1> QED BY <1>3, <1>4, <1>5

LEMMA HeightNone == HasHeight(0, 0)
    BY SparsestStep, FullestStep DEF HasHeight

-----------------------------------------------------------------------------
(* The parts of a tree.                                                    *)

Full(n, h) ==
    /\ (h = 0 => n < 1) /\ (h = 1 => n < 2) /\ (h = 2 => n < 4)
    /\ (h = 3 => n < 8) /\ (h = 4 => n < 16) /\ (h = 5 => n < 32)
    /\ (h = 6 => n < 64) /\ (h = 7 => n < 128) /\ (h = 8 => n < 256)

LEMMA FullestSmall ==
    ASSUME NEW n \in Nat, NEW h, n <= Fullest[h]
    PROVE  Full(n, h)
<1>1. Fullest[0] = 0
    BY FullestStep
<1>2. Fullest[0 + 1] = Fullest[0] + Fullest[0] + 1
    BY FullestStep
<1>3. Fullest[1 + 1] = Fullest[1] + Fullest[1] + 1
    BY FullestStep
<1>4. Fullest[2 + 1] = Fullest[2] + Fullest[2] + 1
    BY FullestStep
<1>5. Fullest[3 + 1] = Fullest[3] + Fullest[3] + 1
    BY FullestStep
<1>6. Fullest[4 + 1] = Fullest[4] + Fullest[4] + 1
    BY FullestStep
<1>7. Fullest[5 + 1] = Fullest[5] + Fullest[5] + 1
    BY FullestStep
<1>8. Fullest[6 + 1] = Fullest[6] + Fullest[6] + 1
    BY FullestStep
<1>9. Fullest[7 + 1] = Fullest[7] + Fullest[7] + 1
    BY FullestStep
<1>10. /\ Fullest[1] = 1 /\ Fullest[2] = 3 /\ Fullest[3] = 7 /\ Fullest[4] = 15
       /\ Fullest[5] = 31 /\ Fullest[6] = 63 /\ Fullest[7] = 127 /\ Fullest[8] = 255
    BY <1>1, <1>2, <1>3, <1>4, <1>5, <1>6, <1>7, <1>8, <1>9
<1> QED BY <1>1, <1>10 DEF Full

(* A subtree of height g holds at least g nodes and its sibling, of height *)
(* at most g + 1, at most Fullest[g + 1]: the smaller one cannot be tiny   *)
(* beside a large one.                                                     *)
LEMMA SplitSizes ==
    ASSUME NEW l \in Nat, NEW r \in Nat, AvlSizes(l, r)
    PROVE  /\ l + r >= 5 => l + 1 >= 2 /\ r >= 2
           /\ l + r >= 10 => l + 1 >= 3 /\ r >= 3
<1>1. PICK h \in 0 .. l, g \in 0 .. r :
          l <= Fullest[h] /\ r <= Fullest[g] /\ h - g \in {-1, 0, 1}
    BY DEF AvlSizes, HasHeight
<1>2. Full(l, h)
    BY <1>1, FullestSmall
<1>6. Full(r, g)
    BY <1>1, FullestSmall
<1>3. h <= l /\ g <= r /\ h \in Nat /\ g \in Nat /\ h <= g + 1 /\ g <= h + 1
    BY <1>1
<1>4. r <= 2 => l <= 7 /\ (r <= 1 => l <= 3)
    BY <1>2, <1>3, <1>6 DEF Full
<1>5. l <= 1 => r <= 3
    BY <1>2, <1>3, <1>6 DEF Full
<1> QED BY <1>4, <1>5

(* So the two halves of a tree t that split makes, its root m going into   *)
(* the left one, have two members each if t has six, three if eleven.      *)
LEMMA HalvesSizes ==
    ASSUME NEW t \in SUBSET Nat, IsFiniteSet(t), NEW m \in AvlRoots(t),
           NEW left, left = {x \in t : x <= m},
           NEW right, right = {x \in t : m < x}
    PROVE  /\ Cardinality(t) >= 6 =>
                  Cardinality(left) >= 2 /\ Cardinality(right) >= 2
           /\ Cardinality(t) >= 11 =>
                  Cardinality(left) >= 3 /\ Cardinality(right) >= 3
<1> DEFINE lower == {x \in t : x < m}
<1>1. m \in t /\ AvlSizes(Cardinality(lower), Cardinality(right))
    BY DEF AvlRoots
<1>2. \A x \in t : /\ x <= m <=> x < m \/ x = m
                   /\ x <= m <=> ~(m < x)
                   /\ ~(m < m)
    BY <1>1
<1>3. left = lower \cup {m} /\ m \notin lower
    BY <1>1, <1>2
<1>4. t = left \cup right /\ left \cap right = {}
    BY <1>1, <1>2
<1>5. IsFiniteSet(lower) /\ IsFiniteSet(right) /\ IsFiniteSet(left)
    BY FS_Subset
<1> HIDE DEF lower
<1>6. Cardinality(left) = Cardinality(lower) + 1
    BY <1>3, <1>5, FS_AddElement
<1>7. Cardinality(left) \in Nat /\ Cardinality(right) \in Nat /\ Cardinality(lower) \in Nat
    BY <1>5, FS_CardinalityType
<1>8. Cardinality(t) = Cardinality(left) + Cardinality(right)
    <2>1. Cardinality(left \cap right) = 0
        BY <1>4, FS_EmptySet
    <2>2. Cardinality(left \cup right)
              = Cardinality(left) + Cardinality(right) - Cardinality(left \cap right)
        BY <1>5, FS_Union
    <2>3. Cardinality(t) = Cardinality(left \cup right)
        BY <1>4
    <2> QED BY <1>7, <2>1, <2>2, <2>3
<1> QED BY <1>1, <1>6, <1>7, <1>8, SplitSizes

(* With the thresholds 2 * H and H / 4, a tree that has outgrown the split *)
(* threshold, by one key or by as many as a merge may add, is split in two *)
(* that have not: the taller side fills less than twice its height's share *)
(* before the other one alone reaches H / 4.                               *)
LEMMA HalvesFit ==
    ASSUME NEW H \in 8 .. 223, NEW l \in Nat, NEW r \in Nat, AvlSizes(l, r),
           l + r + 1 < 2 * H + H \div 4
    PROVE  l + 1 <= 2 * H /\ r <= 2 * H
<1>1. PICK h \in 0 .. l, g \in 0 .. r :
          /\ Sparsest[h] <= l /\ l <= Fullest[h]
          /\ Sparsest[g] <= r /\ r <= Fullest[g]
          /\ h - g \in {-1, 0, 1}
    BY DEF AvlSizes, HasHeight
<1>2. /\ h \in Nat /\ g \in Nat /\ h <= g + 1 /\ g <= h + 1
      /\ H \in Nat /\ H \div 4 \in 2 .. 55
    BY <1>1
<1> DEFINE M == H \div 4
<1>3. 4 * M <= H /\ H < 4 * M + 4
    OBVIOUS
<1> HIDE DEF M
<1>4. Full(l, h)
    BY <1>1, FullestSmall
<1>5. Full(r, g)
    BY <1>1, FullestSmall
<1>6. /\ h = 4 => l >= 7
      /\ h = 5 => l >= 12
      /\ h = 6 => l >= 20
      /\ h = 7 => l >= 33
      /\ g = 4 => r >= 7
      /\ g = 5 => r >= 12
      /\ g = 6 => r >= 20
      /\ g = 7 => r >= 33
    BY <1>1, SparsestSmall
<1>7. /\ h >= 8 => l >= 54
      /\ g >= 8 => r >= 54
    <2>1. h >= 8 => Sparsest[h] >= 54 /\ Sparsest[h] \in Nat
        BY <1>2, SparsestGrows
    <2>2. g >= 8 => Sparsest[g] >= 54 /\ Sparsest[g] \in Nat
        BY <1>2, SparsestGrows
    <2> QED BY <1>1, <2>1, <2>2
<1>8. l + r + 1 < 2 * H + M /\ M \in 2 .. 55 /\ H \in 8 .. 223
    BY <1>2 DEF M
<1>9. l + 1 <= 2 * H
    <2>1. SUFFICES ASSUME l >= 2 * H PROVE FALSE
        BY <1>2
    <2>2. r <= M - 2
        BY <1>8, <2>1
    <2>3. g <= 7 /\ h <= 8
        BY <1>2, <1>7, <1>8, <2>2
    <2>4. CASE g = 7
        BY <1>2, <1>3, <1>4, <1>5, <1>6, <1>8, <2>1, <2>2, <2>3, <2>4 DEF Full
    <2>5. CASE g = 6
        BY <1>2, <1>3, <1>4, <1>5, <1>6, <1>8, <2>1, <2>2, <2>3, <2>5 DEF Full
    <2>6. CASE g = 5
        BY <1>2, <1>3, <1>4, <1>5, <1>6, <1>8, <2>1, <2>2, <2>3, <2>6 DEF Full
    <2>7. CASE g = 4
        BY <1>2, <1>3, <1>4, <1>5, <1>6, <1>8, <2>1, <2>2, <2>3, <2>7 DEF Full
    <2>8. CASE g <= 3
        BY <1>2, <1>4, <1>5, <1>8, <2>1, <2>2, <2>8 DEF Full
    <2> QED BY <1>2, <2>3, <2>4, <2>5, <2>6, <2>7, <2>8
<1>10. r <= 2 * H
    <2>1. SUFFICES ASSUME r > 2 * H PROVE FALSE
        BY <1>2
    <2>2. l <= M - 2
        BY <1>8, <2>1
    <2>3. h <= 7 /\ g <= 8
        BY <1>2, <1>7, <1>8, <2>2
    <2>4. CASE h = 7
        BY <1>2, <1>3, <1>4, <1>5, <1>6, <1>8, <2>1, <2>2, <2>3, <2>4 DEF Full
    <2>5. CASE h = 6
        BY <1>2, <1>3, <1>4, <1>5, <1>6, <1>8, <2>1, <2>2, <2>3, <2>5 DEF Full
    <2>6. CASE h = 5
        BY <1>2, <1>3, <1>4, <1>5, <1>6, <1>8, <2>1, <2>2, <2>3, <2>6 DEF Full
    <2>7. CASE h = 4
        BY <1>2, <1>3, <1>4, <1>5, <1>6, <1>8, <2>1, <2>2, <2>3, <2>7 DEF Full
    <2>8. CASE h <= 3
        BY <1>2, <1>4, <1>5, <1>8, <2>1, <2>2, <2>8 DEF Full
    <2> QED BY <1>2, <2>3, <2>4, <2>5, <2>6, <2>7, <2>8
<1> QED BY <1>9, <1>10
=============================================================================
