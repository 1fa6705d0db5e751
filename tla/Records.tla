------------------------------ MODULE Records ------------------------------
(***************************************************************************)
(* The macros ENCODE_LZ_MATCH and DECODE_LZ_MATCH: a match as a sequence   *)
(* of STAT words.  With ROUND_MATCHES (-m3) offsets and lengths are        *)
(* multiples of L and written in units of L, the offset in one word only.  *)
(*                                                                         *)
(* A STAT holds the numbers below StatValues (2^32), an Offset those below *)
(* its square.                                                             *)
(***************************************************************************)
EXTENDS Naturals, Sequences

CONSTANT StatValues

ASSUME RecordsAssumption == StatValues \in Nat \ {0}

Unit(round, L) == IF round THEN L ELSE 1

\* One word for the offset, as with ROUND_MATCHES, whatever the case.
EncodeLowWord(round, L, litLen, offset, len) ==
    LET L1 == Unit(round, L)
        lit == litLen % StatValues
        low == (offset \div L1) % StatValues
        length == (len - L) \div L1
    IN IF round THEN <<lit, low, length>> ELSE <<lit, low, 0, length>>

EncodeLzMatch(round, L, litLen, offset, len) ==
    LET L1 == Unit(round, L)
        lit == litLen % StatValues
        low == (offset \div L1) % StatValues
        high == (offset \div L1) \div StatValues
        length == (len - L) \div L1
    IN IF round THEN <<lit, low, length>> ELSE <<lit, low, high, length>>

(***************************************************************************)
(* The match of record r.  In the I/O layouts it is given by its           *)
(* destination, litLen bytes after basicPos, in the others by its source.  *)
(* An offset larger than the destination leaves the source, an unsigned    *)
(* number, larger than the destination.                                    *)
(***************************************************************************)
DecodeLzMatch(futureLz, round, L, basicPos, r) ==
    LET L1 == Unit(round, L)
        offset == (r[2] + (IF round THEN 0 ELSE r[3] * StatValues)) * L1
        pos == basicPos + r[1]
        aligned == (pos \div L1) * L1
        OffsetValues == StatValues * StatValues
    IN [litLen |-> r[1],
        len |-> (r[Len(r)] * L1 + L) % StatValues,
        src |-> IF futureLz THEN pos ELSE (aligned + OffsetValues - offset) % OffsetValues,
        dest |-> IF futureLz THEN (pos + offset) % OffsetValues ELSE pos]
=============================================================================
