----------------------------- MODULE MCFastMap -------------------------------
(***************************************************************************)
(* Small instances of FastMap.  The iterators have no effect on the        *)
(* container or on one another, so one is enough to meet every case; seven *)
(* keys give two trees that can be merged and split again.                 *)
(***************************************************************************)
EXTENDS FastMap

MCKey == 0 .. 6
=============================================================================
