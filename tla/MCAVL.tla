------------------------------- MODULE MCAVL ---------------------------------
(***************************************************************************)
(* Small instances of AVL.  Trees of ten nodes have up to four levels:     *)
(* merge then climbs the spine of the taller tree from either side.  The   *)
(* last node has the key of another, to replace it.                        *)
(***************************************************************************)
EXTENDS AVL

MCNode == 0 .. 10
MCKeyOf == [n \in MCNode |-> IF n = 10 THEN 3 ELSE n]
=============================================================================
