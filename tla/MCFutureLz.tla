---------------------------- MODULE MCFutureLz ----------------------------
(* Small archives for TLC: what compression makes of small files.          *)
EXTENDS FutureLz, LzMatches

CONSTANTS
    SmallSize,      \* bytes of the files that are tried with all matches
    MaxMatches,     \* bound on the number of matches in them
    LongSize,       \* bytes of the files with many matches
    Inputs          \* which decompressions are run, see MCJobs

\* Every set of at most max matches with disjoint copies, from pool.
MatchSets(pool, max) ==
    LET sets[k \in 0 .. max] ==
            IF k = 0 THEN {{}}
            ELSE LET fewer == sets[k - 1]
                 IN fewer \cup UNION {{ms \cup {m} : m \in {x \in pool :
                                         \A y \in ms : y.dest + y.len <= x.dest}} : ms \in fewer}
    IN sets[max]

Archive(version, n, ms, lists, baseLen, round) ==
    LET count == BlockCount(n, BufSize)
    IN [original |-> FileOf(n, ms), version |-> version,
        lists |-> [b \in 1 .. count |-> lists[b]],
        literals |-> [b \in 1 .. count |-> LiteralsOf(n, BufSize, ms, b)],
        present |-> count, index |-> FALSE, baseLen |-> baseLen, round |-> round, intact |-> TRUE]

Future(n, ms) ==
    Archive("future", n, ms,
            [b \in 1 .. BlockCount(n, BufSize) |->
                FutureListOf(ms, BlockLo(b, BufSize), BlockHi(b, n, BufSize))], 1, FALSE)

\* The I/O layout: the matches of each block by destination, as ENCODE_LZ_MATCH writes them.
Io(n, ms, baseLen, round) ==
    LET sorted(b) == SetToSortSeq({m \in ms : m.dest \div BufSize = b - 1},
                                  LAMBDA m1, m2 : m1.dest < m2.dest)
        records(b) ==
            LET s == sorted(b)
                litLen(k) == s[k].dest - (IF k = 1 THEN BlockLo(b, BufSize)
                                          ELSE s[k - 1].dest + s[k - 1].len)
            IN [k \in DOMAIN s |-> EncodeLzMatch(round, baseLen, litLen(k),
                                                 s[k].dest - s[k].src, s[k].len)]
    IN Archive("io", n, ms, [b \in 1 .. BlockCount(n, BufSize) |-> records(b)], baseLen, round)

Run(program, vmBlockSize, usefulMemory) ==
    [program |-> program, checked |-> FALSE, wraps |-> FALSE, maximumSave |-> 99,
     vmBlockSize |-> vmBlockSize, usefulMemory |-> usefulMemory]

\* Every combination of an archive of A with options of O.
AllOf(A, O) == {[archive |-> a, opts |-> o] : a \in A, o \in O}

MCByte == 0 .. LongSize - 1

Both(vmBlockSize, usefulMemory) == {Run(p, vmBlockSize, usefulMemory) : p \in {"cpp", "rs"}}

Small == {Future(SmallSize, ms) : ms \in MatchSets(LegalMatches(SmallSize, BufSize), MaxMatches)}

\* Copies from s that fill block b, in pieces of the given lengths.
Fill(b, s, lengths) ==
    {[src |-> s, dest |-> FoldLeft(+, BlockLo(b, BufSize), SubSeq(lengths, 1, k - 1)),
      len |-> lengths[k]] :
        k \in DOMAIN lengths}

\* Every block after the first is filled with copies, of single bytes or longer, from
\* the first block or, later, from the third, or left alone: many matches are pending
\* at the same time, and more are saved while others wait in the VM file.
Waves ==
    LET third == 2 * BufSize
        second == {{}} \cup {Fill(2, 0, l) : l \in {<<1, 1, 1>>, <<2, 1>>}}
        thirds == {{}} \cup {Fill(3, 0, l) : l \in {<<1, 1, 1>>, <<3>>}}
        later(b) == {Fill(b, 0, <<1, 1, 1>>), Fill(b, 0, <<1, 2>>), Fill(b, third, <<1, 1, 1>>)}
    IN {Future(LongSize, m2 \cup m3 \cup m4 \cup m5) :
           m2 \in second, m3 \in thirds, m4 \in later(4), m5 \in later(5)}

\* Single bytes only, from the first and the third block in turn.
Crowded ==
    Future(LongSize - BufSize,
           {[src |-> IF d >= 3 * BufSize /\ d % 2 = 0 THEN 2 * BufSize ELSE 0, dest |-> d, len |-> 1] :
               d \in BufSize .. LongSize - BufSize - 1})

\* Archives cut at a block boundary that a match crosses.
Truncated(archives) ==
    UNION {{[a EXCEPT !.present = n] :
               n \in {k \in 0 .. a.present - 1 :
                         \E b \in 1 .. k : \E r \in Range(a.lists[b]) : r.dest >= k * BufSize}} :
           a \in archives}

\* The same archives with an index.
Indexed(archives) == {[a EXCEPT !.index = TRUE] : a \in archives}

\* Archives with one damaged record: any position, short or as long as a block.
Damaged(a) ==
    UNION {{[a EXCEPT !.lists[b][k] = [src |-> s, dest |-> d, len |-> l], !.intact = FALSE] :
               s \in 0 .. Len(a.original) - 1, d \in 0 .. Len(a.original),
               l \in {1, BufSize}, k \in DOMAIN a.lists[b]} :
           b \in DOMAIN a.lists}

\* I/O archives with one damaged word.
IoDamaged(a) ==
    UNION {UNION {{[a EXCEPT !.lists[b][k][w] = value, !.intact = FALSE] :
                      w \in DOMAIN a.lists[b][k], value \in 0 .. StatValues - 1} :
                  k \in DOMAIN a.lists[b]} :
           b \in DOMAIN a.lists}

\* Matches of at least baseLen bytes; with rounding, in units of baseLen from aligned sources.
IoArchives(n, baseLen, round) ==
    LET Allowed(m) == m.len >= baseLen /\ (round => m.src % baseLen = 0 /\ m.len % baseLen = 0)
    IN {Io(n, ms, baseLen, round) :
           ms \in MatchSets({m \in LegalMatches(n, BufSize) : Allowed(m)}, MaxMatches)}

IoBroken ==
    UNION {IoDamaged(a) : a \in IoArchives(BufSize + 2, 1, FALSE) \cup IoArchives(BufSize + 2, 2, TRUE)}

\* Six copies from the first block, one of a whole block.
Late ==
    Future(LongSize, {[src |-> 0, dest |-> BufSize, len |-> 1],
                      [src |-> 0, dest |-> 2 * BufSize, len |-> BufSize],
                      [src |-> BufSize - 1, dest |-> LongSize - 1, len |-> 1]}
                     \cup {[src |-> 0, dest |-> d, len |-> 1] : d \in 3 * BufSize .. LongSize - 2})

MCJobs ==
    CASE Inputs = "all" ->
            LET A == AllOf(Small, {[o EXCEPT !.maximumSave = 2] : o \in Both(4, 8)} \cup Both(3, 6))
                B == AllOf(Waves \cup {Crowded}, Both(4, 8))
                       \cup AllOf(Indexed(Waves \cup {Crowded}), Both(5, 10))
                C == AllOf(Waves, {[o EXCEPT !.wraps = TRUE] : o \in {Run("cpp", 6, 12)}})
                D == AllOf(Truncated(Small), {Run("cpp", 4, 8)})
                E == {j \in AllOf(Damaged(Crowded) \cup Indexed(Damaged(Crowded)) \cup IoBroken,
                                  {[o EXCEPT !.checked = TRUE] : o \in Both(4, 8)}) :
                         j.opts.program = "cpp" => Tame(j.archive)}
                F == AllOf(IoArchives(SmallSize, 1, FALSE) \cup IoArchives(SmallSize, 2, TRUE),
                           {Run("rs", 4, 8)})
            IN A \cup B \cup C \cup D \cup E \cup F
      [] Inputs = "truncated" -> AllOf(Truncated(Small), {Run("rs", 4, 8)})
      [] Inputs = "wraps" -> AllOf({Late}, {[o EXCEPT !.wraps = TRUE] : o \in {Run("cpp", 9, 18)}})
=============================================================================
