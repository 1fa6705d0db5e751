------------------------------ MODULE FutureLz ------------------------------
(***************************************************************************)
(* The decoder, in the Rust program and in the C++ original: the block     *)
(* loop, the I/O-LZ block decoder (versions 1 and 2), the three phases of  *)
(* the Future-LZ block decoder (versions 3 and 4) and the spilling of      *)
(* saved match data to the VM file.  The Rust program is a port: where the *)
(* two differ, the model asks opts.program.                                *)
(*                                                                         *)
(* A Future-LZ record of block b says "the len bytes at src, in this       *)
(* block, are needed again at dest, further on".  When block b has been    *)
(* decoded the bytes are saved in chunked memory until dest is reached;    *)
(* when memory is short, saved matches are spilled to a block of the VM    *)
(* file, and a "marking point" put in the heap tells when that block must  *)
(* be read back.                                                           *)
(*                                                                         *)
(* A byte is a value of the constant Byte.  Chunked memory is the function *)
(* mm from handles to saved bytes (ChunkStore shows that the chunk chains  *)
(* implement such a function); only the number of chunks in use matters    *)
(* here.  Checksums do not collide: a checksum is the block itself.        *)
(***************************************************************************)
EXTENDS Records, FiniteSets, FiniteSetsExt, SequencesExt

CONSTANTS
    Byte,           \* byte values
    BufSize,        \* bytes per block (bufsize)
    Jobs,           \* the decompressions that may be run: [archive, opts]
    ChunkPayload,   \* payload bytes of one chunk (USEFUL_CHUNK_SPACE)
    SpillHeader,    \* bytes before the data of a spilled record
    EndMark,        \* bytes of the zero length that ends a VM block
    MaxOffset       \* Offset(-1), the dest of the heap barrier

INVALID_INDEX == 0

Match == [src : Nat, dest : Nat, len : Nat \ {0}]

\* Block b of the original of archive a is its bytes FirstOf(b) .. EndOf(a, b) - 1.
FirstOf(b) == (b - 1) * BufSize
EndOf(a, b) == Min({FirstOf(b) + BufSize, Len(a.original)})

\* The places of the records, <<block, index>>.
Places(a) == UNION {{<<b, k>> : k \in DOMAIN a.lists[b]} : b \in DOMAIN a.lists}

RecordAt(a, p) == a.lists[p[1]][p[2]]

Supplies(r, x) == r.dest <= x /\ x < r.dest + r.len

\* The bytes from .. to - 1 that no record supplies.
Uncovered(a, from, to) ==
    {x \in from .. to - 1 : \A p \in Places(a) : ~ Supplies(RecordAt(a, p), x)}

(***************************************************************************)
(* What the records of a "future" archive mean: those of block b copy      *)
(* bytes of block b, in the order of their sources, to a place further on, *)
(* each within a block, and no two to the same place; the literals of a    *)
(* block are the bytes that no record supplies.                            *)
(***************************************************************************)
MeansOriginal(a) ==
    /\ \A p \in Places(a) :
          LET r == RecordAt(a, p)
          IN /\ FirstOf(p[1]) <= r.src /\ r.src + r.len <= EndOf(a, p[1]) /\ r.src < r.dest
             /\ p[2] > 1 => a.lists[p[1]][p[2] - 1].src <= r.src
             /\ \E c \in DOMAIN a.lists : FirstOf(c) <= r.dest /\ r.dest + r.len <= EndOf(a, c)
             /\ \A x \in 1 .. r.len : a.original[r.dest + x] = a.original[r.src + x]
    /\ \A p, q \in Places(a) :
          LET r == RecordAt(a, p)
              s == RecordAt(a, q)
          IN p = q \/ r.dest + r.len <= s.dest \/ s.dest + s.len <= r.dest
    /\ \A b \in DOMAIN a.lists :
          /\ Len(a.literals[b]) = Cardinality(Uncovered(a, FirstOf(b), EndOf(a, b)))
          /\ \A x \in Uncovered(a, FirstOf(b), EndOf(a, b)) :
                a.literals[b][Cardinality(Uncovered(a, FirstOf(b), x)) + 1] = a.original[x + 1]

(***************************************************************************)
(* What those of an "io" archive mean: each record stands for literals of  *)
(* its block and a copy of bytes from anywhere before, from where the one  *)
(* before it ends; what is left of the block is literals.                  *)
(***************************************************************************)

\* After k records of block b: where they end, and how many literals they stand for.
IoPlaces(a, b) ==
    LET place[k \in 0 .. Len(a.lists[b])] ==
            IF k = 0 THEN [end |-> FirstOf(b), literals |-> 0]
            ELSE LET m == DecodeLzMatch(FALSE, a.round, a.baseLen, place[k - 1].end, a.lists[b][k])
                 IN [end |-> m.dest + m.len, literals |-> place[k - 1].literals + m.litLen]
    IN place

IoRecordAt(a, b, k) ==
    DecodeLzMatch(FALSE, a.round, a.baseLen, IoPlaces(a, b)[k - 1].end, a.lists[b][k])

IoMeansOriginal(a) ==
    \A b \in DOMAIN a.lists :
        LET n == Len(a.lists[b])
            place == IoPlaces(a, b)
            copyAfter(k) == IF k < n THEN IoRecordAt(a, b, k + 1).dest ELSE EndOf(a, b)
        IN /\ \A k \in 1 .. n :
                 LET m == IoRecordAt(a, b, k)
                 IN /\ m.src < m.dest /\ m.dest + m.len <= EndOf(a, b)
                    /\ \A x \in 1 .. m.len : a.original[m.dest + x] = a.original[m.src + x]
           /\ Len(a.literals[b]) = place[n].literals + (EndOf(a, b) - place[n].end)
           /\ \A k \in 0 .. n : \A x \in 1 .. copyAfter(k) - place[k].end :
                 a.literals[b][place[k].literals + x] = a.original[place[k].end + x]

(***************************************************************************)
(* An archive: the original file; per block its literals and its match     *)
(* list, in "future" archives the matches DECODE_LZ_MATCH delivers, in     *)
(* "io" archives the records themselves; the number of blocks that are     *)
(* really there (fewer than written if the file was cut); whether all      *)
(* lists are in an index at the end (version 4), which a cut file has not  *)
(* got, so that it is not accepted at all; the base length and rounding of *)
(* the records; and whether the lists are undamaged.                       *)
(***************************************************************************)
IsArchive(a) ==
    /\ a.original \in Seq(Byte)
    /\ a.version \in {"io", "future"}
    /\ a.round \in BOOLEAN
    /\ a.lists \in Seq(Seq(IF a.version = "future" THEN Match
                           ELSE [1 .. (IF a.round THEN 3 ELSE 4) -> Nat]))
    /\ a.literals \in Seq(Seq(Byte))
    /\ Len(a.lists) = (Len(a.original) + BufSize - 1) \div BufSize
    /\ Len(a.literals) = Len(a.lists)
    /\ a.present \in 0 .. Len(a.lists)
    /\ a.index \in BOOLEAN
    /\ a.index => a.version = "future" /\ a.present = Len(a.lists)
    /\ a.baseLen \in Nat \ {0}
    /\ a.intact \in BOOLEAN
    /\ a.intact /\ a.version = "future" => MeansOriginal(a)
    /\ a.intact /\ a.version = "io" => IoMeansOriginal(a)

(***************************************************************************)
(* program: the C++ original or the Rust port; checked: whether blocks     *)
(* carry a checksum; maximumSave: matches at least this long are re-read   *)
(* from the output; vmBlockSize: bytes of one block of the VM file;        *)
(* usefulMemory: payload bytes of the chunk memory.  The memory is at      *)
(* least four VM blocks, less what rounding to 1 MiB and the links take:   *)
(* 15/8 of a VM block when that is just under 512 KiB.  wraps: whether --  *)
(* of an iterator at begin(), which is undefined, may come out at end(),   *)
(* as it does with libstdc++ unless the least node is the tree's root.     *)
(***************************************************************************)
IsOptions(o) ==
    /\ o.program \in {"cpp", "rs"}
    /\ {o.checked, o.wraps} \subseteq BOOLEAN
    /\ {o.maximumSave, o.vmBlockSize} \subseteq Nat \ {0}
    /\ o.usefulMemory \in Nat
    /\ o.usefulMemory % ChunkPayload = 0
    /\ 8 * o.usefulMemory >= 15 * o.vmBlockSize

ASSUME FutureLzAssumption ==
    /\ {BufSize, ChunkPayload, MaxOffset} \subseteq Nat \ {0}
    /\ {SpillHeader, EndMark} \subseteq Nat
    /\ \A j \in Jobs : IsArchive(j.archive) /\ IsOptions(j.opts)
                       /\ Len(j.archive.original) < MaxOffset

(***************************************************************************)
(* The damaged archives that the original is given.  It erases a match it  *)
(* has spilled by its key, the dest (decompress.cpp:254), and with it      *)
(* every other entry of the heap with that dest; the model, as the port,   *)
(* takes out that match only, which is the same if no two records have one *)
(* dest (ErasesOne, below).  It adds litLen and len in 32 bits             *)
(* (decompress.cpp:18), the model without a bound.  Neither can matter in  *)
(* archives as compressors write them.                                     *)
(***************************************************************************)
Tame(a) ==
    IF a.version = "future"
    THEN \A p, q \in Places(a) : p # q => RecordAt(a, p).dest # RecordAt(a, q).dest
    ELSE \A b \in DOMAIN a.lists : \A r \in Range(a.lists[b]) :
            LET m == DecodeLzMatch(FALSE, a.round, a.baseLen, 0, r)
            IN m.litLen + m.len < StatValues

ASSUME OriginalAssumption == \A j \in Jobs : j.opts.program = "cpp" => Tame(j.archive)

VARIABLES
    archive,        \* the archive being decoded
    opts,           \* the options it is decoded with
    pc,             \* "read", "process", "save", "done", "spinning" or an error
    block,          \* index of the current block, from 1
    cur,            \* phase 3: index into the block's match list
    out,            \* bytes of the current block decoded so far
    inPos,          \* literals of the current block consumed so far
    backend,        \* the output file
    heap,           \* LzMatchHeap: entries ordered by (dest, seq)
    seqCounter,     \* LzMatchHeap.seq_counter
    mm,             \* MemoryManager: handle -> saved bytes
    disk,           \* the VM file: block number -> spilled records
    freeBlocks,     \* VirtualMemoryManager.free_blocks, a stack
    newBlock        \* VirtualMemoryManager.new_block

memoryVars == <<mm, disk, freeBlocks, newBlock>>
heapVars == <<heap, seqCounter>>
vars == <<archive, opts, pc, block, cur, out, inPos, backend, heapVars, memoryVars>>

-----------------------------------------------------------------------------
UsefulMemory == opts.usefulMemory
VmBlockSize == opts.vmBlockSize
MaximumSave == opts.maximumSave

(* The current block. *)

BlockStart == FirstOf(block)
BlockEnd == EndOf(archive, block)
OrigSize == BlockEnd - BlockStart
MatchList == archive.lists[block]
Literals == archive.literals[block]

(* The heap: a set of entries; seq orders entries with equal dest. *)

Entry(src, dest, len, index, seq) ==
    [src |-> src, dest |-> dest, len |-> len, index |-> index, seq |-> seq]

Barrier == Entry(MaxOffset, MaxOffset, MaxOffset, INVALID_INDEX, 0)

IsMarkingPoint(e) == e.len = 0

Before(e, f) == e.dest < f.dest \/ (e.dest = f.dest /\ e.seq < f.seq)

First(h) == CHOOSE e \in h : \A f \in h \ {e} : Before(e, f)
LastOf(h) == CHOOSE e \in h : \A f \in h \ {e} : Before(f, e)

\* The entries of S from the greatest to the smallest.
Descending(S) ==
    [k \in 1 .. Cardinality(S) |->
        CHOOSE e \in S : Cardinality({f \in S : Before(e, f)}) = k - 1]

(* Chunk memory. *)

ChunksFor(len) == (len + ChunkPayload - 1) \div ChunkPayload

UsedChunks(m) == MapThenSumSet(LAMBDA i : ChunksFor(Len(m[i])), DOMAIN m)

AvailableIfBytesCounted == UsefulMemory - MapThenSumSet(LAMBDA i : Len(mm[i]), DOMAIN mm)

AvailableSpace ==
    IF UsefulMemory > UsedChunks(mm) * ChunkPayload
    THEN UsefulMemory - UsedChunks(mm) * ChunkPayload
    ELSE 0

FreeHandlesFromZero(m, n) ==
    LET free == (0 .. Cardinality(DOMAIN m) + n) \ DOMAIN m
    IN [k \in 1 .. n |-> CHOOSE h \in free : Cardinality({g \in free : g < h}) = k - 1]

\* The n smallest handles that no saved match uses; 0 is INVALID_INDEX.
FreeHandles(m, n) ==
    LET free == (1 .. Cardinality(DOMAIN m) + n) \ DOMAIN m
    IN [k \in 1 .. n |-> CHOOSE h \in free : Cardinality({g \in free : g < h}) = k - 1]

\* mm.save of the n byte strings data[1], ..., data[n].
SaveAll(m, data) ==
    LET handle == FreeHandles(m, Len(data))
    IN [i \in DOMAIN m \cup Range(handle) |->
            IF i \in DOMAIN m THEN m[i]
            ELSE data[CHOOSE k \in DOMAIN data : handle[k] = i]]

FreeNothing(m, handles) == m

FreeAll(m, handles) == [i \in DOMAIN m \ handles |-> m[i]]

-----------------------------------------------------------------------------
(* The VM file. *)

RecordBytes(s) == FoldLeft(LAMBDA acc, e : acc + SpillHeader + e.len, 0, s)

FitsWithSpareByte(s, e) == RecordBytes(s) + SpillHeader + EndMark + e.len < VmBlockSize

\* Does entry e still fit after the records of s, together with the end mark?
Fits(s, e) == RecordBytes(s) + SpillHeader + EndMark + e.len <= VmBlockSize

\* save_to_disk looks at every entry but the last, the greatest first.
Candidates == Descending(heap \ {LastOf(heap)})

(***************************************************************************)
(* The iterator comes to entry e: it stops at the first match that does    *)
(* not fit, and passes over entries without data and over those already    *)
(* taken.  The original erases the match it has just taken through a       *)
(* reverse iterator, which then already stands on the next entry: its lz++ *)
(* leaves that entry out.                                                  *)
(***************************************************************************)
Consider(acc, e) ==
    IF acc.full \/ e \in Range(acc.saved) THEN acc
    ELSE IF acc.skip THEN [acc EXCEPT !.skip = FALSE]
    ELSE IF e.index = INVALID_INDEX THEN acc
    ELSE IF ~ Fits(acc.saved, e) THEN [acc EXCEPT !.full = TRUE]
    ELSE [acc EXCEPT !.saved = Append(@, e), !.skip = opts.program = "cpp"]

\* The iterator goes once through the heap, having come to any of the states of accs.
OnePass(accs) ==
    LET after[k \in 0 .. Len(Candidates)] ==
            IF k = 0 THEN accs ELSE {Consider(acc, Candidates[k]) : acc \in after[k - 1]}
    IN after[Len(Candidates)]

\* What may be taken: lz++ after the least entry of the heap may wrap round to the barrier.
Takings ==
    LET Wrapped(accs) == IF opts.wraps THEN {[acc EXCEPT !.skip = FALSE] : acc \in {a \in accs : a.skip}}
                         ELSE {}
        passes[n \in 1 .. Cardinality(heap)] ==
            IF n = 1 THEN OnePass({[saved |-> <<>>, skip |-> FALSE, full |-> FALSE]})
            ELSE UNION {accs \cup OnePass(Wrapped(accs)) : accs \in {passes[n - 1]}}
    IN {acc.saved : acc \in passes[IF opts.wraps THEN Cardinality(heap) ELSE 1]}

\* The dest of the marking point: that of the last entry spilled.
MarkAtGreatest(spilled) == IF spilled = <<>> THEN MaxOffset ELSE Head(spilled).dest

MarkDest(spilled) == IF spilled = <<>> THEN MaxOffset ELSE Last(spilled).dest

OldestFreeBlock == IF freeBlocks = <<>> THEN newBlock ELSE Head(freeBlocks)

VmBlockToUse == IF freeBlocks = <<>> THEN newBlock ELSE Last(freeBlocks)

Spill(spilled) ==
    LET records == [k \in DOMAIN spilled |-> [src |-> spilled[k].src, dest |-> spilled[k].dest,
                                              data |-> mm[spilled[k].index]]]
    IN /\ disk' = [v \in DOMAIN disk \cup {VmBlockToUse} |->
                      IF v = VmBlockToUse THEN records ELSE disk[v]]
       /\ IF freeBlocks = <<>>
          THEN newBlock' = newBlock + 1 /\ UNCHANGED freeBlocks
          ELSE freeBlocks' = Front(freeBlocks) /\ UNCHANGED newBlock
       /\ mm' = FreeAll(mm, {e.index : e \in Range(spilled)})
       /\ heap' = (heap \ Range(spilled))
                    \cup {Entry(VmBlockToUse, MarkDest(spilled), 0, INVALID_INDEX, seqCounter)}
       /\ seqCounter' = seqCounter + 1

SpinsWhenStuck == "spinning"

\* When save_to_disk takes nothing it never will: the Rust program gives up, the original
\* calls it for ever, with one more empty VM block each time.
WhenStuck == IF opts.program = "rs" THEN "stalled" ELSE "spinning"

\* One call of save_to_disk.
SaveToDisk ==
    \E taken \in Takings :
        /\ Spill(taken)
        /\ pc' = IF taken # <<>> THEN pc ELSE WhenStuck

\* restore_from_disk once there is room for a whole VM block; mark leaves the heap.
RestoreFromDisk(mark) ==
    LET records == disk[mark.src]
        handle == FreeHandles(mm, Len(records))
        restored == {Entry(records[k].src, records[k].dest, Len(records[k].data),
                           handle[k], seqCounter + k - 1) : k \in DOMAIN records}
    IN /\ mm' = SaveAll(mm, [k \in DOMAIN records |-> records[k].data])
       /\ heap' = (heap \cup restored) \ {mark}
       /\ seqCounter' = seqCounter + Len(records)
       /\ freeBlocks' = Append(freeBlocks, mark.src)
       /\ UNCHANGED <<disk, newBlock>>

-----------------------------------------------------------------------------
Init ==
    /\ \E j \in Jobs : archive = j.archive /\ opts = j.opts
    /\ pc = "read"
    /\ block = 1
    /\ cur = 1
    /\ out = <<>>
    /\ inPos = 0
    /\ backend = <<>>
    /\ heap = {Barrier}
    /\ seqCounter = 1
    /\ mm = [i \in {} |-> <<>>]
    /\ disk = [v \in {} |-> <<>>]
    /\ freeBlocks = <<>>
    /\ newBlock = 0

MoreBlocks == block <= archive.present

EndAlwaysAccepted == TRUE

\* At the end of the input the original insists that no match is waiting, but not when
\* an index told it which block is the last.
EndAccepted == opts.program = "rs" \/ archive.index \/ Cardinality(heap) = 1

EndOfInput ==
    /\ pc = "read"
    /\ ~ MoreBlocks
    /\ pc' = IF EndAccepted THEN "done" ELSE "broken"
    /\ UNCHANGED <<archive, opts, block, cur, out, inPos, backend, heapVars, memoryVars>>

(* Versions 1 and 2: literals and matches interleaved, sources anywhere before. *)

\* Forward byte-by-byte copy of len bytes from offset off to the end of s.
OverlapCopy(s, off, len) == [i \in 1 .. len |-> s[off + 1 + ((i - 1) % (Len(s) - off))]]

\* Does the match begin in an earlier block, to be read from the output file?
SourceBefore(src) == src < BlockStart

\* One record: its literals, then the part of the match in earlier blocks, then the rest.
IoMatch(acc, r) ==
    LET m == DecodeLzMatch(FALSE, archive.round, archive.baseLen, BlockStart + Len(acc.out), r)
        before == acc.out \o SubSeq(Literals, acc.inPos + 1, acc.inPos + m.litLen)
        bytes == IF SourceBefore(m.src) THEN Min({m.len, BlockStart - m.src}) ELSE 0
        middle == before \o SubSeq(backend, m.src + 1, m.src + bytes)
    IN IF \/ ~ acc.ok
          \/ m.litLen > Len(Literals) - acc.inPos
          \/ m.litLen + m.len > OrigSize - Len(acc.out)
          \/ m.src >= m.dest
       THEN [acc EXCEPT !.ok = FALSE]
       ELSE [ok |-> TRUE,
             inPos |-> acc.inPos + m.litLen,
             out |-> middle \o OverlapCopy(middle, m.src + bytes - BlockStart, m.len - bytes)]

IoBlock ==
    /\ pc = "read"
    /\ MoreBlocks
    /\ archive.version = "io"
    /\ LET end == FoldLeft(IoMatch, [ok |-> TRUE, inPos |-> 0, out |-> <<>>], MatchList)
       IN IF end.ok /\ Len(Literals) - end.inPos = OrigSize - Len(end.out)
          THEN /\ out' = end.out \o SubSeq(Literals, end.inPos + 1, Len(Literals))
               /\ inPos' = Len(Literals)
               /\ cur' = Len(MatchList) + 1
               /\ pc' = "save"
          ELSE pc' = "broken" /\ UNCHANGED <<out, inPos, cur>>
    /\ UNCHANGED <<archive, opts, block, backend, heapVars, memoryVars>>

(* Phase 1: the matches whose copy lies in the current block. *)

ValidIfSourcesGrow(k) ==
    LET r == MatchList[k]
    IN /\ r.src >= (IF k = 1 THEN BlockStart ELSE MatchList[k - 1].src + 1)
       /\ r.src + r.len <= BlockEnd
       /\ r.dest > r.src

ValidRecord(k) ==
    LET r == MatchList[k]
    IN /\ r.src >= (IF k = 1 THEN BlockStart ELSE MatchList[k - 1].src)
       /\ r.src + r.len <= BlockEnd
       /\ r.src < BlockEnd
       /\ r.dest > r.src

CopiedHereOrNext(r) == r.dest <= BlockEnd

\* Is the copy made in the current block?
CopiedHere(r) == r.dest < BlockEnd

InBlockOrLater == DOMAIN MatchList

InBlock == {k \in DOMAIN MatchList : CopiedHere(MatchList[k])}

\* A broken list ends the run: what phase 1 had inserted by then is never looked at.
ReadBlock ==
    /\ pc = "read"
    /\ MoreBlocks
    /\ archive.version = "future"
    /\ IF \A k \in DOMAIN MatchList : ValidRecord(k)
       THEN /\ heap' = heap \cup
                 {Entry(MatchList[k].src, MatchList[k].dest, MatchList[k].len, INVALID_INDEX,
                        seqCounter + Cardinality({j \in InBlock : j < k})) : k \in InBlock}
            /\ seqCounter' = seqCounter + Cardinality(InBlock)
            /\ pc' = "process"
       ELSE pc' = "broken" /\ UNCHANGED heapVars
    /\ out' = <<>>
    /\ inPos' = 0
    /\ UNCHANGED <<archive, opts, block, cur, backend, memoryVars>>

(* Phase 2: entries with dest before the block's end, in heap order. *)

\* The bytes of match e, given the block's bytes before them.
MatchData(e, before) ==
    IF e.len >= MaximumSave /\ e.src < BlockStart
    THEN SubSeq(backend, e.src + 1, e.src + e.len)
    ELSE IF e.index # INVALID_INDEX
    THEN mm[e.index]
    ELSE OverlapCopy(before, e.src - BlockStart, e.len)

TakeMatch ==
    LET e == First(heap)
        litLen == e.dest - (BlockStart + Len(out))
        before == out \o SubSeq(Literals, inPos + 1, inPos + litLen)
    IN /\ pc = "process"
       /\ e.dest < BlockEnd
       /\ ~ IsMarkingPoint(e)
       /\ IF /\ e.dest >= BlockStart + Len(out)
             /\ litLen <= Len(Literals) - inPos
             /\ litLen + e.len <= OrigSize - Len(out)
          THEN /\ out' = before \o MatchData(e, before)
               /\ inPos' = inPos + litLen
               /\ heap' = heap \ {e}
               /\ mm' = FreeAll(mm, {e.index})
               /\ UNCHANGED pc
          ELSE pc' = "broken" /\ UNCHANGED <<out, inPos, heap, mm>>
       /\ UNCHANGED <<archive, opts, block, cur, backend, seqCounter, disk, freeBlocks, newBlock>>

\* A marking point is due, but there is no room for its VM block yet.
SpillToRestore ==
    /\ pc = "process"
    /\ First(heap).dest < BlockEnd
    /\ IsMarkingPoint(First(heap))
    /\ AvailableSpace < VmBlockSize
    /\ SaveToDisk
    /\ UNCHANGED <<archive, opts, block, cur, out, inPos, backend>>

RestoreMark ==
    /\ pc = "process"
    /\ First(heap).dest < BlockEnd
    /\ IsMarkingPoint(First(heap))
    /\ AvailableSpace >= VmBlockSize
    /\ RestoreFromDisk(First(heap))
    /\ UNCHANGED <<archive, opts, pc, block, cur, out, inPos, backend>>

CopyTail ==
    /\ pc = "process"
    /\ First(heap).dest >= BlockEnd
    /\ IF Len(Literals) - inPos = OrigSize - Len(out)
       THEN /\ out' = out \o SubSeq(Literals, inPos + 1, Len(Literals))
            /\ inPos' = Len(Literals)
            /\ cur' = 1
            /\ pc' = "save"
       ELSE pc' = "broken" /\ UNCHANGED <<out, inPos, cur>>
    /\ UNCHANGED <<archive, opts, block, backend, heapVars, memoryVars>>

(* Phase 3: remember the matches whose copy lies in a later block. *)

ToSave == pc = "save" /\ cur <= Len(MatchList)

InsertNext(index) ==
    LET r == MatchList[cur]
    IN /\ heap' = heap \cup {Entry(r.src, r.dest, r.len, index, seqCounter)}
       /\ seqCounter' = seqCounter + 1
       /\ cur' = cur + 1

SkipDone ==
    /\ ToSave
    /\ CopiedHere(MatchList[cur])
    /\ cur' = cur + 1
    /\ UNCHANGED <<archive, opts, pc, block, out, inPos, backend, heapVars, memoryVars>>

RememberLong ==
    /\ ToSave
    /\ ~ CopiedHere(MatchList[cur])
    /\ MatchList[cur].len >= MaximumSave
    /\ InsertNext(INVALID_INDEX)
    /\ UNCHANGED <<archive, opts, pc, block, out, inPos, backend, memoryVars>>

MustSave == ToSave /\ ~ CopiedHere(MatchList[cur]) /\ MatchList[cur].len < MaximumSave

SpillToSave ==
    /\ MustSave
    /\ MatchList[cur].len > AvailableSpace
    /\ SaveToDisk
    /\ UNCHANGED <<archive, opts, block, cur, out, inPos, backend>>

SaveMatch ==
    LET from == MatchList[cur].src - BlockStart
    IN /\ MustSave
       /\ MatchList[cur].len <= AvailableSpace
       /\ mm' = SaveAll(mm, <<SubSeq(out, from + 1, from + MatchList[cur].len)>>)
       /\ InsertNext(FreeHandles(mm, 1)[1])
       /\ UNCHANGED <<archive, opts, pc, block, out, inPos, backend, disk, freeBlocks, newBlock>>

ChecksumIgnored == FALSE

ChecksumDiffers == opts.checked /\ out # SubSeq(archive.original, BlockStart + 1, BlockEnd)

\* The block is complete: verify its checksum, write it, go to the next one.
WriteBlock ==
    /\ pc = "save"
    /\ cur > Len(MatchList)
    /\ IF ChecksumDiffers
       THEN pc' = "mismatch" /\ UNCHANGED <<block, backend>>
       ELSE /\ backend' = backend \o out
            /\ block' = block + 1
            /\ pc' = "read"
    /\ UNCHANGED <<archive, opts, cur, out, inPos, heapVars, memoryVars>>

SpinOn == pc = "spinning" /\ UNCHANGED vars

Errors == {"broken", "stalled", "mismatch"}
Finished == pc \in Errors \cup {"done"}

Terminated == Finished /\ UNCHANGED vars

Next ==
    \/ EndOfInput \/ IoBlock \/ ReadBlock
    \/ TakeMatch \/ SpillToRestore \/ RestoreMark \/ CopyTail
    \/ SkipDone \/ RememberLong \/ SpillToSave \/ SaveMatch
    \/ WriteBlock \/ SpinOn \/ Terminated

Spec == Init /\ [][Next]_vars

\* The decoder is one sequential thread: it keeps taking steps until it stops.
FairSpec == Spec /\ WF_vars(Next)
-----------------------------------------------------------------------------
(* Properties. *)

HeapEntry == [src : Nat, dest : Nat, len : Nat, index : Nat, seq : Nat]
SpillRecord == [src : Nat, dest : Nat, data : Seq(Byte)]

TypeOK ==
    /\ IsArchive(archive)
    /\ IsOptions(opts)
    /\ pc \in {"read", "process", "save", "done", "spinning"} \cup Errors
    /\ block \in 1 .. Len(archive.lists) + 1
    /\ {cur, inPos, seqCounter, newBlock} \subseteq Nat
    /\ out \in Seq(Byte)
    /\ backend \in Seq(Byte)
    /\ heap \subseteq HeapEntry
    /\ DOMAIN mm \subseteq Nat \ {INVALID_INDEX} /\ Range(mm) \subseteq Seq(Byte)
    /\ DOMAIN disk = 0 .. newBlock - 1 /\ Range(disk) \subseteq Seq(SpillRecord)
    /\ freeBlocks \in Seq(0 .. newBlock - 1)

\* Everything the decoder writes is the original, block by block, and it reports
\* success only when all of it is written (decode/mod.rs:133-249, srep.cpp:1020-1148).
Output == INSTANCE BlockOutput WITH
    original <- archive.original,
    written <- backend,
    verdict <- IF pc = "done" THEN "success" ELSE IF pc \in Errors THEN "failure" ELSE "running"

WritesTheOriginal == Output!Spec

\* The archive is as the compressor wrote it, and the skipped iterator keeps its order.
Undamaged == archive.intact /\ archive.present = Len(archive.lists) /\ ~ opts.wraps

\* The match of record r is longer than any VM block can hold.
Oversized(r) == r.len < MaximumSave /\ SpillHeader + r.len + EndMark > VmBlockSize

SomeOversized(lastBlock) ==
    archive.version = "future" /\ \E b \in 1 .. lastBlock : \E r \in Range(archive.lists[b]) : Oversized(r)

\* An intact archive decodes: no block is found broken, no checksum differs, and the
\* spill loop finds something to spill (storage.rs:308-310, future.rs:124-126) unless a
\* match so far is longer than a VM block can hold.
IntactArchiveDecodes ==
    Undamaged => /\ pc \notin {"broken", "mismatch"}
                 /\ pc \in {"stalled", "spinning"} => SomeOversized(block)

Marks == {e \in heap : IsMarkingPoint(e)}

\* A marking point is due no later than any match of its VM block: "Save matches with
\* largest LZ.dest to disk", "Pseudo-match used to mark positions where
\* restore_from_disk() should be called" (decompress.cpp:232, 196).
MarksDueInTime ==
    pc # "spinning" => \A e \in Marks : \A r \in Range(disk[e.src]) : e.dest <= r.dest

\* Every block of the VM file is either on the free stack, once, or the target of
\* exactly one marking point, which is due exactly when the first match in it is:
\* never a block reused while in use, read twice, leaked, or read too late.
MarksCoverDisk ==
    pc \notin {"stalled", "spinning"} =>
    /\ \A v \in DOMAIN disk :
          Cardinality({k \in DOMAIN freeBlocks : freeBlocks[k] = v})
            + Cardinality({e \in Marks : e.src = v}) = 1
    /\ opts.wraps \/ \A e \in Marks : e.dest = Min({r.dest : r \in Range(disk[e.src])})

\* The saved bytes of chunk memory belong to exactly one heap entry each: nothing
\* is freed twice, used after being freed, or leaked (mm.save/restore/free).
HandlesOwned ==
    LET owners == {e \in heap : e.index # INVALID_INDEX}
    IN /\ {e.index : e \in owners} = DOMAIN mm
       /\ Cardinality(owners) = Cardinality(DOMAIN mm)
       /\ \A e \in owners : Len(mm[e.index]) = e.len

\* No two entries of the original's heap are due at the same place, marking points
\* included, so that lz_matches.erase(*lz), which erases every entry with that dest
\* (decompress.cpp:254), takes out no more than the match that has been spilled.
ErasesOne ==
    opts.program = "cpp" /\ pc \in {"process", "save"} =>
        \A e, f \in heap : e.dest = f.dest => e = f

\* The records whose block has been decoded and whose copy has not been made yet.
Outstanding ==
    LET reached == BlockStart + (IF pc \in {"process", "save"} THEN Len(out) ELSE 0)
        known(b) == IF pc = "save" /\ b = block
                    THEN {k \in DOMAIN archive.lists[b] : k < cur}
                    ELSE DOMAIN archive.lists[b]
        last == IF pc \in {"process", "save"} THEN block ELSE block - 1
    IN {r \in UNION {{archive.lists[b][k] : k \in known(b)} : b \in 1 .. last} :
            /\ r.dest >= reached
            /\ pc = "process" => (r.src < BlockStart \/ r.dest < BlockEnd)}

HeapRecords == {[src |-> e.src, dest |-> e.dest, len |-> e.len] :
                   e \in heap \ (Marks \cup {Barrier})}
DiskRecords == UNION {{[src |-> r.src, dest |-> r.dest, len |-> Len(r.data)] :
                          r \in Range(disk[e.src])} : e \in Marks}

\* However matches are saved, spilled, restored and spilled again, each one that is
\* still needed is in the heap or in a live VM block, not both, and nothing else is.
NothingLost ==
    ~ Finished /\ pc # "spinning" /\ archive.version = "future" /\ archive.intact /\ ~ opts.wraps =>
                  /\ HeapRecords \cup DiskRecords = Outstanding
                  /\ HeapRecords \cap DiskRecords = {}

\* The payload a VM block can expand to when its records are put into chunks.
RestoredPayload(records) ==
    MapThenSumSet(LAMBDA k : ChunksFor(Len(records[k].data)) * ChunkPayload, DOMAIN records)

\* Saving a match never overdraws the memory budget (future.rs:123-127); only a
\* restored VM block may, by what rounding its records up to chunks adds to it.
MemoryWithinBudget ==
    [][LET used == UsedChunks(mm') * ChunkPayload IN
       mm' # mm =>
          \/ used <= UsefulMemory
          \/ used < UsedChunks(mm) * ChunkPayload
          \/ \E v \in DOMAIN disk :
                /\ Len(freeBlocks') > Len(freeBlocks) /\ Last(freeBlocks') = v
                /\ used - UsefulMemory <= RestoredPayload(disk[v]) - VmBlockSize]_vars

(* What -i tells of the archive. *)

Info == INSTANCE RamEstimate

Sizes == [b \in DOMAIN archive.lists |->
             Min({b * BufSize, Len(archive.original)}) - (b - 1) * BufSize]

EstimatedMemory ==
    Info!MaxRam(archive.lists, Info!FutureLzEnds(Sizes), MaximumSave) * ChunkPayload

\* "Decompression memory is" what -i says: the VM file is used if, and only if, the saved
\* matches do not fit the chunk memory by that estimate (srep.cpp:1054-1083, 174-182).
EstimateExact ==
    Undamaged /\ archive.version = "future" =>
        /\ newBlock > 0 => EstimatedMemory > UsefulMemory
        /\ pc = "done" /\ newBlock = 0 => EstimatedMemory <= UsefulMemory

\* Reading the index only, -i of an Index-LZ archive finds the size of the original and
\* the same memory as block by block (srep.cpp:961-999).
IndexInfoRight ==
    pc = "done" /\ Undamaged /\ archive.version = "future" =>
        /\ Info!IndexLzOrigSize(Len(FlattenSeq(archive.literals)), archive.lists) = Len(backend)
        /\ Info!MaxRam(archive.lists, Info!IndexLzEnds(Sizes), MaximumSave) * ChunkPayload
              = EstimatedMemory

\* A decoder that succeeded has consumed everything: only the barrier is in the
\* heap, no chunk is in use and every VM block is free.
CleanFinish ==
    pc = "done" => /\ heap = {Barrier}
                   /\ DOMAIN mm = {}
                   /\ Marks = {}

\* Spilling to make room for a restore, and restoring what was spilled, cannot
\* go round in circles: decompression always comes to an end, in the original
\* program unless a match is longer than a VM block can hold.
MustEnd == archive.intact /\ (opts.program = "rs" \/ ~ SomeOversized(Len(archive.lists)))

Termination == <>(MustEnd => Finished)
=============================================================================
