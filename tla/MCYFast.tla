------------------------------ MODULE MCYFast --------------------------------
(***************************************************************************)
(* Small instances of YFast.  A split needs one key more than the split    *)
(* threshold, a merge that splits again needs that many in two trees, and  *)
(* with three trees pick_neighbor has a choice.                            *)
(***************************************************************************)
EXTENDS YFast

MCKey == 0 .. 8
=============================================================================
