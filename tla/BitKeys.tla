------------------------------ MODULE BitKeys --------------------------------
(***************************************************************************)
(* How BitExtractor (src/include/yfast/internal/bit_extractor.h) takes a   *)
(* key apart: an integer, or a string of bytes with the most significant   *)
(* one first.  The x-fast trie looks up shift(key, h) in the table of      *)
(* level h and turns by extract_bit(key, h - 1); elsewhere it trusts       *)
(* Compare.  Two keys are followed down the levels together, as the trie   *)
(* would follow them.                                                      *)
(***************************************************************************)
EXTENDS Integers, SequencesExt

CONSTANTS
    H,              \* the levels of the trie
    IntBits,        \* the width of an int
    ByteBits,       \* the width of a byte
    Numbers,        \* keys of an integral type
    Strings         \* keys that are strings of bytes

ASSUME WidthAssumption ==
    /\ H \in Nat \ {0} /\ IntBits \in Nat \ {0} /\ ByteBits \in Nat \ {0}
    /\ Numbers \subseteq Int
    /\ Strings \subseteq Seq(0 .. 2^ByteBits - 1)

VARIABLES
    kind,           \* the specialization in use
    a, b,           \* two keys
    level,          \* how far down they have been followed
    order           \* what their bits have told of their order so far

vars == <<kind, a, b, level, order>>

-----------------------------------------------------------------------------
(* Integral keys.  1 << n is an int: at its last bit it is negative, and,  *)
(* widened to a wider key, has all higher bits set.  Beyond, it is         *)
(* undefined: processors take n modulo the width, compilers may take the   *)
(* result to be zero.                                                      *)

MaskedBit(k, n) ==
    IF n = IntBits - 1 THEN k \div 2^n # 0 ELSE (k \div 2^n) % 2 = 1

IntBit(k, n) ==
    IF n < IntBits THEN {MaskedBit(k, n)}
    ELSE {MaskedBit(k, n % IntBits), FALSE}

IntShift(k, n) == k \div 2^n

-----------------------------------------------------------------------------
(* Byte strings.                                                           *)

(* Mutant: bytes are counted from the wrong end.                           *)
BytesBit_LowFirst(data, n) ==
    LET s == n \div ByteBits
    IN  s < Len(data) /\ (data[s + 1] \div 2^(n % ByteBits)) % 2 = 1

BytesBit(data, n) ==
    LET s == n \div ByteBits
    IN  s < Len(data) /\ (data[Len(data) - s] \div 2^(n % ByteBits)) % 2 = 1

(* b << n, cut off at the width of a byte.                                 *)
ByteLeft(byte, n) == (byte * 2^n) % 2^ByteBits

(* Mutant: the bits shifted out of a byte are not carried into the next.   *)
BytesShift_NoCarry(data, n) ==
    [i \in 1 .. Len(data) - n \div ByteBits |-> data[i] \div 2^(n % ByteBits)]

(* Mutant: the bits carried over are not moved to the upper end.           *)
BytesShift_LowCarry(data, n) ==
    LET r == n % ByteBits
    IN  [i \in 1 .. Len(data) - n \div ByteBits |->
            data[i] \div 2^r + IF i = 1 \/ r = 0 THEN 0 ELSE ByteLeft(data[i - 1], r)]

(* Mutant: one byte too many is kept.                                      *)
BytesShift_Long(data, n) ==
    [i \in 1 .. Len(data) |-> data[i] \div 2^(n % ByteBits)]

(* The upper bytes, each with the bits shifted out of the one before it.   *)
BytesShift(data, n) ==
    LET r == n % ByteBits
    IN  [i \in 1 .. Len(data) - n \div ByteBits |->
            data[i] \div 2^r
                + IF i = 1 \/ r = 0 THEN 0 ELSE ByteLeft(data[i - 1], ByteBits - r)]

-----------------------------------------------------------------------------
(* The specializations.                                                    *)

INTEGRAL == "integral"
BYTES == "bytes"

(* The bits extract_bit may read.                                          *)
extract_bit(k, n) == IF kind = INTEGRAL THEN IntBit(k, n) ELSE {BytesBit(k, n)}

shift(k, n) == IF kind = INTEGRAL THEN IntShift(k, n) ELSE BytesShift(k, n)

(* std::less: bytes from the first on, and a string after its own prefix.  *)
BytesLess(s, t) ==
    \E i \in 1 .. Len(t) :
        /\ \A j \in 1 .. i - 1 : j <= Len(s) /\ s[j] = t[j]
        /\ i <= Len(s) => s[i] < t[i]

Less(k, l) == IF kind = INTEGRAL THEN k < l ELSE BytesLess(k, l)

-----------------------------------------------------------------------------
(* Two keys on their way down.                                             *)

SAME == "same"
BELOW == "below"
ABOVE == "above"

Init ==
    /\ \/ kind = INTEGRAL /\ a \in Numbers /\ b \in Numbers
       \/ kind = BYTES /\ a \in Strings /\ b \in Strings
    /\ level = H
    /\ order = SAME

(* The trie turns left or right by the next bit of a key; the keys part    *)
(* where they turn apart.                                                  *)
Descend ==
    /\ level > 0
    /\ level' = level - 1
    /\ \E p \in extract_bit(a, level - 1), q \in extract_bit(b, level - 1) :
        order' = IF order # SAME \/ p = q THEN order
                 ELSE IF q THEN BELOW ELSE ABOVE
    /\ UNCHANGED <<kind, a, b>>

Next == Descend

Spec == Init /\ [][Next]_vars

-----------------------------------------------------------------------------
(* Properties.                                                             *)

(* Prefixes are made of bytes, and strings of one length have prefixes of  *)
(* one length at every level, as their table requires.                     *)
PrefixesTyped ==
    /\ level \in 0 .. H
    /\ order \in {SAME, BELOW, ABOVE}
    /\ kind = BYTES =>
        /\ shift(a, level) \in Seq(0 .. 2^ByteBits - 1)
        /\ Len(shift(a, level)) = Len(a) - level \div ByteBits

(* Two keys have one prefix, and so one node, at a level exactly if their  *)
(* bits agree from the top down to it: shift and extract_bit tell of one   *)
(* trie.                                                                   *)
BitsTellPrefix == order = SAME <=> shift(a, level) = shift(b, level)

(* Where two keys part, the bits order them as Compare does, and keys that *)
(* never part are equal.                                                   *)
BitsTellOrder ==
    /\ order = BELOW => Less(a, b)
    /\ order = ABOVE => Less(b, a)
    /\ level = 0 /\ order = SAME => a = b

(* A byte string is shifted and read as the number it spells would be: to  *)
(* the trie there is no difference.                                        *)
Number(data) == FoldLeft(LAMBDA n, byte : n * 2^ByteBits + byte, 0, data)

BytesSpellNumber ==
    kind = BYTES =>
        /\ Number(shift(a, level)) = Number(a) \div 2^level
        /\ level > 0 =>
            extract_bit(a, level - 1) = {(Number(a) \div 2^(level - 1)) % 2 = 1}
=============================================================================
