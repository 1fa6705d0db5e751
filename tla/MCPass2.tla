------------------------------ MODULE MCPass2 ------------------------------
(* Every small match set in a file of a few bytes.                          *)
EXTENDS Pass2, TLC

CONSTANTS
    MaxMatches,
    MinLength   \* bytes of the copies of MCCopies

\* The sequences of at most MaxMatches matches with disjoint copies, in file order.
MCDecoded ==
    LET pool == LM!LegalMatches(OrigSize, BufSize)
        seqs[k \in 0 .. MaxMatches] ==
            IF k = 0 THEN {<<>>}
            ELSE seqs[k - 1] \cup
                 UNION {{Append(s, x) : x \in {y \in pool :
                            \A i \in 1 .. Len(s) : s[i].dest + s[i].len <= y.dest}} :
                        s \in seqs[k - 1]}
    IN seqs[MaxMatches]

\* After the first block the file has copies of its chunks of MinLength bytes, none of
\* them where a chunk begins: chunks are looked up everywhere, but stored only there,
\* and the first one never is.
MCCopies ==
    LET count == (OrigSize - BufSize) \div (2 * MinLength)
        chunks == {c * MinLength : c \in 1 .. BufSize \div MinLength - 1}
    IN {[k \in 1 .. count |-> [src |-> from[k], dest |-> BufSize + 1 + (k - 1) * 2 * MinLength,
                               len |-> MinLength]] :
           from \in [1 .. count -> chunks]}

\* Re-encoding ends: resetting the cursor does not repeat a block for ever.
EveryBlockEncoded ==
    <>(pc = "done" /\ (OrigSize > 0 => output[Len(output)].hi = OrigSize))
=============================================================================
