------------------------------ MODULE SortedSet ------------------------------
(***************************************************************************)
(* What the containers of yfast promise about their contents, whatever     *)
(* they are built of: insert adds one key or replaces an equal one, remove *)
(* takes out one key that is present, clear takes out all of them.  The    *)
(* tree, the x-fast trie and the y-fast trie are each shown to implement   *)
(* this specification.                                                     *)
(***************************************************************************)
CONSTANT Key

VARIABLE keys

Init == keys = {}

Inserted == {keys \cup {k} : k \in Key}
Removed == {keys \ {k} : k \in keys}
Cleared == {}

Next == keys' \in Inserted \cup Removed \cup {Cleared}

Spec == Init /\ [][Next]_keys
=============================================================================
