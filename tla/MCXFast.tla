------------------------------ MODULE MCXFast --------------------------------
(***************************************************************************)
(* Small instances of XFast: one leaf object per key, or two of them where *)
(* an insert is to meet the key of a leaf in the trie.                     *)
(***************************************************************************)
EXTENDS XFast

MCAnyKey == 0 .. 2^H - 1
MCShift(k, h) == k \div 2^h
MCBit(k, n) == MCShift(k, n) % 2 = 1

(* Four bits: the binary search takes three steps; the keys touch both     *)
(* ends and leave gaps of several sizes in both halves.                    *)
MCLeaf == {0, 1, 3, 6, 8, 9, 12, 15}
MCKeyOf == [x \in MCLeaf |-> x]

MCTwinLeaf == 0 .. 15
MCTwinKeyOf == [x \in MCTwinLeaf |-> x % 8]
=============================================================================
