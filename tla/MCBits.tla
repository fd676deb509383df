------------------------------- MODULE MCBits --------------------------------
(***************************************************************************)
(* Small instances of BitKeys: bytes of three bits, three to a string, so  *)
(* that there are shifts by whole bytes, by one bit and by two.            *)
(***************************************************************************)
EXTENDS BitKeys

MCBytes == {0, 1, 4, 7}
MCStrings == [1 .. 3 -> MCBytes]
MCNumbers == {Number(s) : s \in MCStrings}

MCWideNumbers == 0 .. 15
MCNoStrings == {}
=============================================================================
