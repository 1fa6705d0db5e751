----------------------------- MODULE LzMatches -----------------------------
(***************************************************************************)
(* What the rest of the project says about sets of LZ matches, free of the *)
(* way the program computes it: a match [src, dest, len] states that the   *)
(* len bytes at dest repeat those at src < dest.                           *)
(***************************************************************************)
EXTENDS Naturals, Sequences, FiniteSets, FiniteSetsExt, SequencesExt

\* The blocks of a file of n bytes: block b is the positions BlockLo..BlockHi-1.
BlockCount(n, bufSize) == (n + bufSize - 1) \div bufSize
BlockLo(b, bufSize) == (b - 1) * bufSize
BlockHi(b, n, bufSize) == Min({b * bufSize, n})

(***************************************************************************)
(* The matches a compressor may emit for a file of n bytes: pass 1 works   *)
(* on one block at a time, so the copy lies in one block; its source may   *)
(* lie in any earlier place and may run across a block boundary, or into   *)
(* the copy itself.                                                        *)
(***************************************************************************)
LegalMatches(n, bufSize) ==
    UNION { {[src |-> s, dest |-> d, len |-> l] :
                s \in 0 .. d - 1,
                l \in 1 .. BlockHi(d \div bufSize + 1, n, bufSize) - d} :
            d \in 1 .. n - 1 }

\* Copies never overlap: pass 1 emits them left to right.
Disjoint(m1, m2) == m1.dest + m1.len <= m2.dest \/ m2.dest + m2.len <= m1.dest

Covers(m, p) == m.dest <= p /\ p < m.dest + m.len

\* The most general file consistent with ms: a byte that no match supplies is
\* unlike any other, so a wrong byte is never right by accident.
FileOf(n, ms) ==
    LET byte[p \in 0 .. n - 1] ==
            IF \E m \in ms : Covers(m, p)
            THEN LET m == CHOOSE x \in ms : Covers(x, p)
                 IN byte[m.src + (p - m.dest)]
            ELSE p
    IN [k \in 1 .. n |-> byte[k - 1]]

\* The literals of block b: the bytes no match supplies.
LiteralsOf(n, bufSize, ms, b) ==
    LET free == {p \in BlockLo(b, bufSize) .. BlockHi(b, n, bufSize) - 1 :
                    \A m \in ms : ~ Covers(m, p)}
        file == FileOf(n, ms)
    IN [k \in 1 .. Cardinality(free) |->
            file[1 + CHOOSE p \in free : Cardinality({q \in free : q < p}) = k - 1]]

\* The order of pass 2: by source; equal sources stay in file order.
Earlier(m1, m2) == m1.src < m2.src \/ (m1.src = m2.src /\ m1.dest < m2.dest)

SourceOrder(ms) ==
    [k \in 1 .. Cardinality(ms) |->
        CHOOSE m \in ms : Cardinality({x \in ms : Earlier(x, m)}) = k - 1]

\* The part of match m whose source lies in lo .. hi - 1.
Clip(m, lo, hi) ==
    LET from == Max({m.src, lo})
        to == Min({m.src + m.len, hi})
    IN [src |-> from, dest |-> from + (m.dest - m.src), len |-> to - from]

Touches(m, lo, hi) == m.src < hi /\ m.src + m.len > lo

\* The Future-LZ match list of the block lo .. hi - 1.
FutureListOf(ms, lo, hi) ==
    LET touching == SourceOrder({m \in ms : Touches(m, lo, hi)})
    IN [k \in DOMAIN touching |-> Clip(touching[k], lo, hi)]
=============================================================================
