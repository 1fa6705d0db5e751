-------------------------------- MODULE Pass2 --------------------------------
(***************************************************************************)
(* The second compression pass of the Future-LZ and Index-LZ layouts       *)
(* (srep.cpp:722-800, compress.rs:240-292): the matches of all blocks,     *)
(* decoded in file order and sorted by source, are re-encoded block by     *)
(* block, each under the block that holds its source.  A match whose       *)
(* source crosses a block boundary is cut there and must come up again in  *)
(* the next block; for that the scan of a block begins at saved_i, the     *)
(* last match that the scan of the previous block found already over.      *)
(***************************************************************************)
EXTENDS Integers, Sequences, FiniteSetsExt

CONSTANTS
    OrigSize,   \* bytes of the input file
    BufSize,    \* bytes per block; the last block is shorter
    Decoded,    \* the possible match sequences of pass 1, in file order
    RecordBytes,    \* bytes of one record: four STATs
    MaximumSave,    \* matches at least this long are not saved by the decoder
    ChunkPayload    \* payload bytes of one chunk of the decoder's memory

PlainMatch == [src : Nat, dest : Nat, len : Nat]

(***************************************************************************)
(* Pass 1 finds a match while it scans the block of dest, so the copy lies *)
(* in one block and len is at most BufSize; its source lies in the file.   *)
(* It scans from left to right, past each match it has found.              *)
(***************************************************************************)
ASSUME Pass2Assumption ==
    /\ OrigSize \in Nat
    /\ BufSize \in Nat \ {0}
    /\ MaximumSave \in Nat
    /\ ChunkPayload \in Nat \ {0}
    /\ \A d \in Decoded :
          /\ d \in Seq(PlainMatch)
          /\ \A k \in DOMAIN d : /\ d[k].len \in 1 .. BufSize
                                 /\ d[k].src < d[k].dest
                                 /\ d[k].src + d[k].len <= OrigSize
          /\ \A j, k \in DOMAIN d : j < k => d[j].dest < d[k].dest

VARIABLES
    m,          \* the matches sorted by source, closed by a barrier
    cursor,     \* index of the match looked at
    saved,      \* saved_i: where the scan of the next block begins
    blockStart, \* first byte of the current block
    blockpos,   \* source position the next record is relative to
    list,       \* block_matchlist: the records of the current block
    output,     \* the blocks done: [lo, hi, list]
    pc          \* "block", "scan" or "done"

vars == <<m, cursor, saved, blockStart, blockpos, list, output, pc>>

BlockEnd == IF blockStart + BufSize < OrigSize THEN blockStart + BufSize ELSE OrigSize

EndOf(match) == match.src + match.len

\* The matches sorted by source: p says where each comes from.  m.sort_by_key(|x| x.src)
\* keeps the order of equal sources; std::sort need not, and the order is without effect.
StableOrder(d) ==
    {p \in [DOMAIN d -> DOMAIN d] :
        \A i, j \in DOMAIN d :
            i < j => \/ d[p[i]].src < d[p[j]].src
                     \/ d[p[i]].src = d[p[j]].src /\ p[i] < p[j]}

\* The pushed end marker stops every scan: it starts where the file ends.
Sentinel == [src |-> OrigSize, dest |-> 0, len |-> 0]

SortedUnclosed(d, p) == [k \in 1 .. Len(d) |-> d[p[k]]]

Sorted(d, p) == [k \in 1 .. Len(d) + 1 |-> IF k <= Len(d) THEN d[p[k]] ELSE Sentinel]

Init ==
    /\ \E d \in Decoded : \E p \in StableOrder(d) : m = Sorted(d, p)
    /\ cursor = 1
    /\ saved = 1
    /\ blockStart = 0
    /\ blockpos = 0
    /\ list = <<>>
    /\ output = <<>>
    /\ pc = "block"

WholeBlockLeft == blockStart + BufSize <= OrigSize

MoreInput == blockStart < OrigSize

StartBlock ==
    /\ pc = "block"
    /\ MoreInput
    /\ saved' = cursor
    /\ blockpos' = blockStart
    /\ list' = <<>>
    /\ pc' = "scan"
    /\ UNCHANGED <<m, cursor, blockStart, output>>

\* The source of the match was over before this block began.
SkipEnded ==
    /\ pc = "scan"
    /\ m[cursor].src < BlockEnd
    /\ EndOf(m[cursor]) <= blockStart
    /\ saved' = cursor
    /\ cursor' = cursor + 1
    /\ UNCHANGED <<m, blockStart, blockpos, list, output, pc>>

\* The part of match m[k] whose source lies in the current block.
From(k) == IF m[k].src > blockStart THEN m[k].src ELSE blockStart
ToUnclipped(k) == EndOf(m[k])
To(k) == IF EndOf(m[k]) < BlockEnd THEN EndOf(m[k]) ELSE BlockEnd

PosPastRecord(k) == To(k)

\* block_pos = src: literal lengths count from the source of the last record.
PosAfterRecord(k) == From(k)

\* encode_lz_match with base length 0; of and at, not written, name the match the
\* record comes from and its source position.
EncodeMatch ==
    /\ pc = "scan"
    /\ m[cursor].src < BlockEnd
    /\ EndOf(m[cursor]) > blockStart
    /\ list' = Append(list, [lit |-> From(cursor) - blockpos,
                             off |-> m[cursor].dest - m[cursor].src,
                             len |-> To(cursor) - From(cursor),
                             of |-> cursor,
                             at |-> From(cursor)])
    /\ blockpos' = PosAfterRecord(cursor)
    /\ cursor' = cursor + 1
    /\ UNCHANGED <<m, saved, blockStart, output, pc>>

NoRewind == cursor

\* Where the scan of the next block begins.
Rewind == saved

EndBlock ==
    /\ pc = "scan"
    /\ m[cursor].src >= BlockEnd
    /\ output' = Append(output, [lo |-> blockStart, hi |-> BlockEnd, list |-> list])
    /\ cursor' = Rewind
    /\ blockStart' = BlockEnd
    /\ pc' = "block"
    /\ UNCHANGED <<m, saved, blockpos, list>>

Finish ==
    /\ pc = "block"
    /\ ~ MoreInput
    /\ pc' = "done"
    /\ UNCHANGED <<m, cursor, saved, blockStart, blockpos, list, output>>

Terminated == pc = "done" /\ UNCHANGED vars

Next == StartBlock \/ SkipEnded \/ EncodeMatch \/ EndBlock \/ Finish \/ Terminated

Spec == Init /\ [][Next]_vars

\* The pass is one sequential loop.
FairSpec == Spec /\ WF_vars(Next)

-----------------------------------------------------------------------------
(* The decompression memory announced at the end, added up along with the lists. *)

Ram == INSTANCE RamEstimate

Plain(r) == [src |-> r.at, dest |-> r.at + r.off, len |-> r.len]

PlainList(b) == [j \in DOMAIN output[b].list |-> Plain(output[b].list[j])]

AnnouncedRam ==
    Ram!MaxRam([b \in DOMAIN output |-> PlainList(b)], [b \in DOMAIN output |-> output[b].hi],
               MaximumSave)

-----------------------------------------------------------------------------
(* Properties. *)

Touches(match, lo, hi) == match.src < hi /\ EndOf(match) > lo

Record == [lit : Nat, off : Nat, len : Nat \ {0}, of : Nat, at : Nat]
Block == [lo : Nat, hi : Nat, list : Seq(Record)]

TypeOK ==
    /\ m \in Seq(PlainMatch)
    /\ Len(m) > 0 /\ m[Len(m)] = Sentinel
    /\ cursor \in 1 .. Len(m)
    /\ saved \in 1 .. Len(m)
    /\ blockStart \in 0 .. OrigSize
    /\ blockpos \in Nat
    /\ list \in Seq(Record)
    /\ output \in Seq(Block)
    /\ pc \in {"block", "scan", "done"}

\* The record of b that stands for the part of match k with source in b.
Represents(r, k, lo, hi) ==
    /\ r.of = k
    /\ r.at = (IF m[k].src > lo THEN m[k].src ELSE lo)
    /\ r.at + r.len = (IF EndOf(m[k]) < hi THEN EndOf(m[k]) ELSE hi)
    /\ r.off = m[k].dest - m[k].src

\* No part of a match is lost: although a scan begins at saved_i and never looks at
\* the matches before it, every match whose source touches a finished block has
\* been re-encoded there (compress.rs:258-281).
EveryPartEncoded ==
    \A b \in DOMAIN output : \A k \in DOMAIN m :
        Touches(m[k], output[b].lo, output[b].hi) =>
            \E j \in DOMAIN output[b].list :
                Represents(output[b].list[j], k, output[b].lo, output[b].hi)

LM == INSTANCE LzMatches

\* The list of a finished block is exactly the one the decoder is specified for
\* (LzMatches!FutureListOf): each part once, in source order, nothing else.
ListsAsSpecified ==
    \A b \in DOMAIN output :
        PlainList(b) = LM!FutureListOf({m[k] : k \in 1 .. Len(m) - 1}, output[b].lo, output[b].hi)

\* The part of match x[1] with source in block x[2].
Part(x) == LM!Clip(m[x[1]], output[x[2]].lo, output[x[2]].hi)

\* The parts that the decoder has read by the end of block b, will copy later, and so saves.
Waiting(b) ==
    {x \in (1 .. Len(m) - 1) \X (1 .. b) :
        /\ Touches(m[x[1]], output[x[2]].lo, output[x[2]].hi)
        /\ Part(x).dest >= output[b].hi
        /\ Part(x).len < MaximumSave}

PendingChunks(b) ==
    MapThenSumSet(LAMBDA x : (Part(x).len + ChunkPayload - 1) \div ChunkPayload, Waiting(b))

\* The memory announced at the end, kept up to date by adding and removing parts, is the
\* most that the decoder will have saved at the end of any block (srep.cpp:755-787).
RamIsPeakOfPending ==
    pc = "done" /\ OrigSize > 0 => AnnouncedRam = Max({PendingChunks(b) : b \in DOMAIN output})

\* The decoder recovers each source position by adding up the literal lengths
\* (records.rs:71-75): they lead from the block's start to every record in turn.
LiteralsLeadToSources ==
    \A b \in DOMAIN output : \A j \in DOMAIN output[b].list :
        LET before == IF j = 1 THEN output[b].lo ELSE output[b].list[j - 1].at
        IN output[b].list[j].at = before + output[b].list[j].lit

\* The original collects the records of a block in an array of bufsize bytes and does not
\* look at its end: "FUTURE_LZ needs more space because matches are moved to their source
\* blocks.  So we just alloc block_size bytes" (srep.cpp:100-102).
ListsFit == Len(list) * RecordBytes <= BufSize
=============================================================================
