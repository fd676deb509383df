------------------------------ MODULE Cursors --------------------------------
(***************************************************************************)
(* What fastmap promises of its iterators (src/README.md, "Iterators"): a  *)
(* set of keys, and cursors that stay on their entries whatever happens to *)
(* other entries, step to the neighbouring entry of the set as it is by    *)
(* then, and are invalidated only with their entry.                        *)
(***************************************************************************)
EXTENDS OrderedKeys

CONSTANTS Key, Iterator

VARIABLES
    keys,
    at,         \* the entry a cursor points at; NULL at the end, GONE if none
    reverse     \* whether the cursor runs downwards

vars == <<keys, at, reverse>>

GONE == -2

Init ==
    /\ keys = {}
    /\ at = [i \in Iterator |-> GONE]
    /\ reverse = [i \in Iterator |-> FALSE]

(* The position after p for a cursor running down (or up); from the end,   *)
(* only a step back leads anywhere.                                        *)
After(p, down) ==
    IF p = NULL THEN NULL
    ELSE IF down THEN PredIn(keys, p, TRUE) ELSE SuccIn(keys, p, TRUE)

Before(p, down) ==
    IF p = NULL THEN IF down THEN LeastOf(keys) ELSE GreatestOf(keys)
    ELSE After(p, ~down)

(* Where the cursors are left when the entries `erased' are destroyed.     *)
Left(erased) ==
    [i \in Iterator |-> IF at[i] \in erased THEN GONE ELSE at[i]]

Make(i) ==
    /\ at[i] = GONE
    /\ \E p \in keys \cup {NULL}, down \in BOOLEAN :
        /\ at' = [at EXCEPT ![i] = p]
        /\ reverse' = [reverse EXCEPT ![i] = down]
    /\ UNCHANGED keys

Drop(i) ==
    /\ at' = [at EXCEPT ![i] = GONE]
    /\ reverse' = [reverse EXCEPT ![i] = FALSE]
    /\ UNCHANGED keys

Step(i) ==
    /\ at[i] # GONE
    /\ \E p \in {After(at[i], reverse[i]), Before(at[i], reverse[i])} :
        at' = [at EXCEPT ![i] = p]
    /\ UNCHANGED <<keys, reverse>>

(* Only a forward cursor can be reversed: it then points where a step back *)
(* would have taken it.                                                    *)
Reverse(i) ==
    /\ at[i] # GONE /\ ~reverse[i]
    /\ at' = [at EXCEPT ![i] = Before(at[i], FALSE)]
    /\ reverse' = [reverse EXCEPT ![i] = TRUE]
    /\ UNCHANGED keys

Dropped(new) == [i \in Iterator |-> reverse[i] /\ new[i] # GONE]

(* insert replaces an entry of equal key; it returns a cursor.             *)
Insert(k) ==
    /\ keys' = keys \cup {k}
    /\ \/ at' = Left({k})
       \/ \E i \in Iterator :
            Left({k})[i] = GONE /\ at' = [Left({k}) EXCEPT ![i] = k]
    /\ reverse' = Dropped(Left({k}))

Erase(k) ==
    /\ keys' = keys \ {k}
    /\ at' = Left({k})
    /\ reverse' = Dropped(at')

(* erase(i) returns the cursor after i.                                    *)
EraseAt(i) ==
    /\ at[i] \in keys
    /\ keys' = keys \ {at[i]}
    /\ at' = [Left({at[i]}) EXCEPT ![i] = After(at[i], reverse[i])]
    /\ reverse' = Dropped(at')

Clear ==
    /\ keys' = {}
    /\ at' = Left(keys)
    /\ reverse' = Dropped(at')

Next ==
    \/ \E i \in Iterator : Make(i) \/ Drop(i) \/ Step(i) \/ Reverse(i) \/ EraseAt(i)
    \/ \E k \in Key : Insert(k) \/ Erase(k)
    \/ Clear

Spec == Init /\ [][Next]_vars
=============================================================================
