----------------------------- MODULE OrderedKeys -----------------------------
(***************************************************************************)
(* The order queries every level of yfast answers: the least and greatest  *)
(* member of a set of keys, and the predecessor and successor of a key in  *)
(* it.  Keys are natural numbers: yfast only ever compares them (Compare)  *)
(* and takes their bit prefixes (BitExtractor), and both must induce one   *)
(* order.  NULL stands for nullptr; it is below every key.                 *)
(***************************************************************************)
EXTENDS Integers, FiniteSets

NULL == -1

(* The bounds, as "no member is further out"; NULL for the empty set.      *)
LeastOf(S) ==
    IF S = {} THEN NULL ELSE CHOOSE m \in S : \A x \in S : m <= x

GreatestOf(S) ==
    IF S = {} THEN NULL ELSE CHOOSE m \in S : \A x \in S : x <= m

(* The members a query may answer with: `strict' excludes the key itself.  *)
Below(S, k, strict) == {x \in S : x < k \/ (~strict /\ x = k)}
Above(S, k, strict) == {x \in S : k < x \/ (~strict /\ x = k)}

PredIn(S, k, strict) == GreatestOf(Below(S, k, strict))
SuccIn(S, k, strict) == LeastOf(Above(S, k, strict))
=============================================================================
