---------------------------- MODULE RamEstimate ----------------------------
(***************************************************************************)
(* "Decompression memory is ... mb": what the compressor, at the end, and  *)
(* the command -i tell of the memory that saved matches take in the        *)
(* decoder.  Both follow the match lists block by block: a match is added  *)
(* in the block of its source if its copy is due later, and taken away     *)
(* when the block of the copy is reached.  Memory is counted in chunks.    *)
(***************************************************************************)
EXTENDS Integers, Sequences, SequencesExt

CONSTANT ChunkPayload   \* payload bytes of one chunk (USEFUL_CHUNK_SPACE)

NeedMemRoundedDown(len) == len \div ChunkPayload

NeedMem(len) == (len - 1) \div ChunkPayload + 1

\* A match is named by its place: <<b, k>> is the k-th of block b's list.
NeedMemOf(lists, places) ==
    MapThenSumSet(LAMBDA x : NeedMem(lists[x[1]][x[2]].len), places)

\* One block: acc.pending is the heap lz_matches, without its barrier.
RamAtBlock(acc, lists, b, blockEnd, maximumSave) ==
    LET reached == {x \in acc.pending : lists[x[1]][x[2]].dest < blockEnd}
        added == {<<b, k>> : k \in {j \in DOMAIN lists[b] : /\ lists[b][j].dest >= blockEnd
                                                           /\ lists[b][j].len < maximumSave}}
        ram == acc.ram - NeedMemOf(lists, reached) + NeedMemOf(lists, added)
    IN [pending |-> (acc.pending \ reached) \cup added, ram |-> ram,
        maxRam |-> IF ram > acc.maxRam THEN ram ELSE acc.maxRam]

\* The estimate for blocks with the given match lists and ends.
MaxRam(lists, ends, maximumSave) ==
    LET after[b \in 0 .. Len(lists)] ==
            IF b = 0 THEN [pending |-> {}, ram |-> 0, maxRam |-> 0]
            ELSE RamAtBlock(after[b - 1], lists, b, ends[b], maximumSave)
    IN after[Len(lists)].maxRam

\* Future-LZ: block headers are at hand, a block ends where the sizes so far add up to.
FutureLzEnds(sizes) == [b \in DOMAIN sizes |-> FoldLeft(+, 0, SubSeq(sizes, 1, b))]

IndexLzStarts(sizes) == [b \in DOMAIN sizes |-> (b - 1) * sizes[1]]

\* Index-LZ: the headers are not read, all blocks are taken to be as long as the first.
IndexLzEnds(sizes) == [b \in DOMAIN sizes |-> b * sizes[1]]

\* Index-LZ: the bytes of the original file are its literals and those of its matches.
IndexLzOrigSize(literalBytes, lists) ==
    literalBytes + FoldLeft(LAMBDA sum, m : sum + m.len, 0, FlattenSeq(lists))
=============================================================================
