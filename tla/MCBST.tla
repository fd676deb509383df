------------------------------- MODULE MCBST ---------------------------------
(***************************************************************************)
(* A small instance of BST: seven keys give every shape of seven nodes,   *)
(* and the middle key has a second node, to replace the first.             *)
(***************************************************************************)
EXTENDS BST

MCNode == 0 .. 7
MCKeyOf == [n \in MCNode |-> IF n = 7 THEN 2 ELSE n]
=============================================================================
