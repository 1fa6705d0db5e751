---------------------------- MODULE MCFirstPass ----------------------------
(* Every method on every small file of two byte values.                    *)
EXTENDS FirstPass, SequencesExt

\* "even": minimum match lengths and block sizes that fit the chunks; "lengths": -l larger
\* than -dl.
CONSTANT Options

MCByte == {0, 1}

\* Sequences with equal sums collide.
MCHash(bytes) == FoldLeft(+, 0, bytes)

Opts(method, chunk, minMatch, dict, dictChunk, dictMinMatch, bufSize) ==
    [method |-> method, L |-> chunk, minMatch |-> minMatch, dict |-> dict,
     dictL |-> dictChunk, dictMinMatch |-> dictMinMatch, bufSize |-> bufSize]

\* A compression of every file of n bytes.
All(n, o) == {[opts |-> o, input |-> s] : s \in [1 .. n -> MCByte]}

MCJobs ==
    CASE Options = "even" ->
         UNION {All(11, Opts("rep", 2, 2, 2, 1, 2, 3)),     \* the ring of 9 bytes wraps
                All(10, Opts("rep", 2, 2, 8, 1, 2, 4)),
                All(6, Opts("cdc", 2, 2, 0, 1, 9, 3)),
                All(5, Opts("cdc", 1, 1, 0, 1, 9, 5)),
                All(10, Opts("digest", 2, 2, 0, 1, 9, 4)),
                All(10, Opts("digest", 2, 3, 0, 1, 2, 6)),
                All(10, Opts("digest", 2, 3, 4, 2, 2, 6)),
                All(10, Opts("reread", 2, 3, 0, 1, 9, 5)),
                All(10, Opts("reread", 2, 2, 4, 1, 2, 6))}
      [] Options = "lengths" ->
         All(6, Opts("cdc", 2, 3, 0, 1, 2, 3))
=============================================================================
