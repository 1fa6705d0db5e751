------------------------------ MODULE FirstPass ------------------------------
(***************************************************************************)
(* The first compression pass: the search for matches, in all methods.     *)
(*                                                                         *)
(*   "rep"     -m0: the in-memory dictionary, compress_inmem.cpp           *)
(*   "cdc"     -m1, -m2: content-defined chunks, compress_cdc.cpp          *)
(*   "digest"  -m3: chunks of L bytes, matches checked by digests          *)
(*   "reread"  -m4, -m5: the same, matches checked by rereading the file   *)
(*                                                                         *)
(* With a dictionary (-d) the last two take the dictionary's matches as    *)
(* input matches and add their own between them.                           *)
(*                                                                         *)
(* The blocks are read by the background thread, one block ahead, into a   *)
(* ring that serves both as buffers and as dictionary; BgCompress has the  *)
(* events by which the threads hand blocks over.  A digest is taken to be  *)
(* the bytes it is computed from; the hashes, which do collide, are the    *)
(* parameter Hash.  The probing of the hash table (MAX_HASH_CHAIN), the    *)
(* bit array and the slice hashes can only hide an entry, and are left     *)
(* out: a table maps a key to the latest chunk stored under it.            *)
(***************************************************************************)
EXTENDS Records, Integers, FiniteSetsExt

CONSTANTS
    Jobs,           \* the compressions: [opts, input], see Setting
    Byte,
    Hash(_),        \* the rolling hash of a sequence of bytes
    Minimal,        \* MINIMAL_MIN_MATCH
    Lookahead,      \* LOOKAHEAD of compress()
    ReadSize        \* BUFSIZE of match_len()

(***************************************************************************)
(* L: bytes per chunk (-c); minMatch: -l; dict: -d, 0 for no dictionary;   *)
(* dictL and dictMinMatch: -dc and -dl; bufSize: -b.                       *)
(***************************************************************************)
Setting ==
    [method : {"rep", "cdc", "digest", "reread"}, L : Nat \ {0}, minMatch : Nat \ {0},
     dict : Nat, dictL : Nat \ {0}, dictMinMatch : Nat \ {0}, bufSize : Nat \ {0}]

\* A dictionary goes with every method but content-defined chunking.
ASSUME FirstPassAssumption ==
    /\ \A j \in Jobs :
          /\ j.opts \in Setting
          /\ j.input \in Seq(Byte)
          /\ j.opts.method = "rep" => j.opts.dict > 0
          /\ j.opts.method = "cdc" => j.opts.dict = 0
    /\ Minimal \in Nat \ {0}
    /\ Lookahead \in Nat \ {0}
    /\ ReadSize \in Nat \ {0}

\* The hashes of pieces of a file are numbers.
ASSUME HashAssumption ==
    \A j \in Jobs : \A n \in 1 .. Len(j.input) : \A a \in 0 .. Len(j.input) - n :
        Hash(SubSeq(j.input, a + 1, a + n)) \in Nat

VARIABLES
    opts, input,
    \* background thread
    read,           \* bytes read
    ring,           \* dict: the buffers and the dictionary
    digests,        \* digestarr: chunk -> digest, as far as computed
    \* main thread
    pc,             \* "block", "dict", "first", "scan", "cdc", "end", "done", "failed"
    origsize,       \* bytes compressed
    i,              \* position in the block
    blk,            \* the block so far, see NewBlock
    ins,            \* in_statbuf: the dictionary's matches, closed by the fence
    dictTable,      \* hasharr of the dictionary: hash -> ring position, never 0
    table,          \* chunkarr with hasharr: key -> chunk, never 0
    startarr,       \* starts of content-defined chunks 1, 2, ...
    blocks          \* the finished blocks: [start, size, literals, stat, found]

bgVars == <<read, ring, digests>>
tables == <<dictTable, table, startarr>>
vars == <<opts, input, bgVars, pc, origsize, i, blk, ins, tables, blocks>>

L == opts.L

\* What the lengths in the records are relative to.
BaseLen == Min({opts.minMatch, opts.dictMinMatch})

Round == opts.method = "digest" /\ opts.dict = 0

RoundUp(n, m) == ((n + m - 1) \div m) * m

DictSizeWithOneBuffer(o) == RoundUp(o.dict, o.bufSize) + o.bufSize

DictSize(o) == RoundUp(o.dict, o.bufSize) + 2 * o.bufSize

\* A byte of the ring that has not been written.
NoByte == -1

\* The bytes of the current block, in all and from a position.
Size == Min({opts.bufSize, Len(input) - origsize})

BufStart == origsize % DictSize(opts)

At(x) == ring[BufStart + x]

Bytes(x, n) == [k \in 1 .. n |-> At(x + k - 1)]

(***************************************************************************)
(* What the compressor of a block keeps: the end of the last match, the    *)
(* number of literal bytes, the matches, and the records that say them.    *)
(***************************************************************************)
NewBlock(literals) == [last_match_end |-> 0, literals |-> literals, found |-> <<>>, stat |-> <<>>]

\* ENCODE_LZ_MATCH of the len bytes at dest (in the block) copied from src (in the file).
Emit(s, base, src, dest, len) ==
    [last_match_end |-> dest + len,
     literals |-> s.literals - len,
     found |-> Append(s.found, [src |-> src, dest |-> origsize + dest, len |-> len]),
     stat |-> Append(s.stat, EncodeLzMatch(Round, base, dest - s.last_match_end,
                                           origsize + dest - src, len))]

Init ==
    /\ \E j \in Jobs : opts = j.opts /\ input = j.input
    /\ read = 0
    /\ ring = [x \in 0 .. DictSize(opts) - 1 |-> NoByte]
    /\ digests = <<>>
    /\ pc = "block"
    /\ origsize = 0
    /\ i = 0
    /\ blk = NewBlock(0)
    /\ ins = <<>>
    /\ dictTable = <<>>
    /\ table = <<>>
    /\ startarr = <<>>
    /\ blocks = <<>>

\* The table t with x stored under key.
Stored(t, key, x) == [k \in DOMAIN t \cup {key} |-> IF k = key THEN x ELSE t[k]]

-----------------------------------------------------------------------------
(* The background thread reads a block while the previous one is compressed. *)

ReadBlock ==
    /\ read < Len(input)
    /\ read <= origsize + opts.bufSize
    /\ LET from == read % DictSize(opts)
           len == Min({opts.bufSize, Len(input) - read})
           block == SubSeq(input, read + 1, read + len)
           first == read \div L
       IN /\ ring' = [x \in DOMAIN ring |->
                         IF x \in from .. from + len - 1 THEN block[x - from + 1] ELSE ring[x]]
          /\ digests' = IF opts.method # "digest" THEN digests
                        ELSE [c \in DOMAIN digests \cup first .. first + len \div L - 1 |->
                                 IF c < first THEN digests[c]
                                 ELSE SubSeq(block, (c - first) * L + 1, (c - first + 1) * L)]
          /\ read' = read + len
    /\ UNCHANGED <<opts, input, pc, origsize, i, blk, ins, tables, blocks>>

-----------------------------------------------------------------------------
(* The main thread, block by block. *)

\* The fence is an input match that begins after the end of the block.
WithFence(found, last) ==
    Append(found, [src |-> 0, dest |-> origsize + last + Size + 1, len |-> BaseLen])

\* The method proper, with the given input matches.
StartMethod(inputMatches) ==
    /\ i' = 0
    /\ ins' = inputMatches
    /\ blk' = NewBlock(IF opts.method = "cdc" THEN 0 ELSE Size)
    /\ pc' = IF opts.method = "cdc" THEN "cdc" ELSE IF 2 * L <= Size THEN "first" ELSE "end"

StartBlock ==
    /\ pc = "block"
    /\ IF origsize = Len(input)
       THEN pc' = "done" /\ UNCHANGED <<i, blk, ins>>
       ELSE /\ read > origsize
            /\ IF opts.dict > 0
               THEN /\ pc' = "dict"
                    /\ i' = 0
                    /\ blk' = NewBlock(Size)
                    /\ UNCHANGED ins
               ELSE StartMethod(WithFence(<<>>, 0))
    /\ UNCHANGED <<opts, input, bgVars, origsize, tables, blocks>>

FinishBlock ==
    /\ pc = "end"
    /\ blocks' = Append(blocks, [start |-> origsize, size |-> Size, literals |-> blk.literals,
                                 stat |-> blk.stat, found |-> blk.found])
    /\ origsize' = origsize + Size
    /\ pc' = "block"
    /\ UNCHANGED <<opts, input, bgVars, i, blk, ins, tables>>

-----------------------------------------------------------------------------
(* Runs of equal bytes. *)

\* The end of the run of positions x >= from, x < to, that satisfy Same.
RunEnd(from, to, Same(_)) == Min({to} \cup {x \in from .. to - 1 : ~ Same(x)})

\* The start of the run that ends before from and does not begin before to.
RunStart(from, to, Same(_)) == Max({to} \cup {x + 1 : x \in {y \in to .. from - 1 : ~ Same(y)}})

-----------------------------------------------------------------------------
(***************************************************************************)
(* The in-memory dictionary.  Of each dictL positions the one with the     *)
(* greatest hash is looked up and stored.  Positions p, match, start, end  *)
(* are positions of the ring.                                              *)
(***************************************************************************)

DictHash(x) == Hash(Bytes(x, opts.dictL))

\* The first position of the greatest hash.
LocalMaximum ==
    Min({x \in i .. i + opts.dictL - 1 :
            \A y \in i .. i + opts.dictL - 1 : DictHash(y) <= DictHash(x)})

\* The first byte of the dictionary that the background thread leaves alone.
DataStart == (BufStart + DictSize(opts) - opts.dict) % DictSize(opts)

Distance(match, p) == IF match < p THEN p - match ELSE DictSize(opts) - match + p

DictMatch(match, p) ==
    LET low == CASE match < DataStart -> p - match
                 [] match - DataStart > p -> 0
                 [] OTHER -> p - (match - DataStart)
        high == IF match < p THEN DictSize(opts) ELSE DictSize(opts) - match + p
        Same(x) == ring[x] = ring[x + match - p]
        start == RunStart(p, Max({BufStart + blk.last_match_end, low}), Same)
    IN [start |-> start, len |-> RunEnd(p, Min({BufStart + Size, high}), Same) - start]

LookUp(x) ==
    LET p == BufStart + x
        hash == DictHash(x)
    IN IF x < blk.last_match_end \/ hash \notin DOMAIN dictTable THEN blk
       ELSE LET match == dictTable[hash]
                distance == Distance(match, p)
                m == DictMatch(match, p)
                dest == m.start - BufStart
            IN IF distance <= opts.dict /\ m.len >= opts.dictMinMatch
               THEN Emit(blk, BaseLen, origsize + dest - distance, dest, m.len)
               ELSE blk

DictScan ==
    /\ pc = "dict"
    /\ i + 2 * opts.dictL <= Size
    /\ LET x == LocalMaximum
           p == BufStart + x
       IN /\ blk' = LookUp(x)
          /\ dictTable' = IF p = 0
                          THEN [h \in DOMAIN dictTable \ {DictHash(x)} |-> dictTable[h]]
                          ELSE Stored(dictTable, DictHash(x), p)
    /\ i' = i + opts.dictL
    /\ UNCHANGED <<opts, input, bgVars, pc, origsize, ins, table, startarr, blocks>>

DictEnd ==
    /\ pc = "dict"
    /\ i + 2 * opts.dictL > Size
    /\ IF opts.method = "rep"
       THEN pc' = "end" /\ UNCHANGED <<i, blk, ins>>
       ELSE StartMethod(WithFence(blk.found, blk.last_match_end))
    /\ UNCHANGED <<opts, input, bgVars, origsize, tables, blocks>>

-----------------------------------------------------------------------------
(* Chunks of L bytes: finding a match. *)

Key(bytes) == IF opts.method = "digest" THEN bytes ELSE Hash(bytes)

AddHashOfAnyChunk(x) ==
    LET chunk == (origsize + x) \div L
        key == IF opts.method = "digest" THEN digests[chunk] ELSE Hash(Bytes(x, L))
    IN table' = Stored(table, key, chunk)

\* Chunk 0 means "not found" and is never stored.
AddHash(x) ==
    LET chunk == (origsize + x) \div L
        key == IF opts.method = "digest" THEN digests[chunk] ELSE Hash(Bytes(x, L))
    IN table' = IF chunk = 0 THEN table ELSE Stored(table, key, chunk)

(***************************************************************************)
(* match_len with digests: the chunks that follow are compared by their    *)
(* digests up to the current block, and byte by byte in it.                *)
(***************************************************************************)
DigestLen(chunk, x) ==
    LET old == chunk * L
        InBlock(k) == old + k * L >= origsize
        Differs(k) == \/ Size - (x + k * L) < L
                      \/ chunk + k \notin DOMAIN digests
                      \/ Bytes(x + k * L, L) # digests[chunk + k]
        k == Min({n \in 1 .. Size : InBlock(n) \/ Differs(n)})
        Same(y) == At(y) = At(old - origsize + y - x)
    IN IF InBlock(k) THEN RunEnd(x + k * L, Size, Same) - x ELSE k * L

BackLenToBlockStart(chunk, x, from) ==
    LET old == chunk * L
        there == IF old < origsize THEN old ELSE old - origsize
        Same(y) == At(y) = IF old < origsize THEN input[old + y - x + 1] ELSE At(old - origsize + y - x)
    IN x - RunStart(x, x - Min({there, L, x}), Same)

\* As many bytes before x, from position from on, as equal those before the chunk.
BackLen(chunk, x, from) ==
    LET old == chunk * L
        there == IF old < origsize THEN old ELSE old - origsize
        Same(y) == At(y) = IF old < origsize THEN input[old + y - x + 1] ELSE At(old - origsize + y - x)
    IN x - RunStart(x, x - Min({there, L, x - from}), Same)

(***************************************************************************)
(* match_len with rereading: old data is read ReadSize bytes at a time up  *)
(* to the current block; an incomplete read ends the match before it.      *)
(***************************************************************************)
ForwardLen(chunk, x) ==
    LET old == chunk * L
        reads == IF old < origsize THEN (origsize - old + ReadSize - 1) \div ReadSize ELSE 0
        short == {k \in 0 .. reads - 1 : old + (k + 1) * ReadSize > Len(input)}
        Same(y) == At(y) = IF y - x < reads * ReadSize THEN input[old + y - x + 1]
                           ELSE At(old - origsize + y - x)
        limit == Min({Size - x} \cup {k * ReadSize : k \in short})
    IN RunEnd(x, x + limit, Same) - x

\* find_match, then match_len and record_match: the match at x, if there is a large enough one.
MatchAt(s, x) ==
    LET key == Key(Bytes(x, L))
        chunk == table[key]
        back == IF opts.method = "digest" THEN 0 ELSE BackLen(chunk, x, s.last_match_end)
        len == back + IF opts.method = "digest" THEN DigestLen(chunk, x) ELSE ForwardLen(chunk, x)
    IN IF key \notin DOMAIN table \/ len < opts.minMatch THEN {}
       ELSE {[src |-> chunk * L - back, dest |-> x - back,
              len |-> IF Round THEN (len \div L) * L ELSE len]}

\* ENCODE_LZ_MATCH ends the program if a match is shorter than BASE_LEN.
RecordFirst(s, hits, pcThen) ==
    IF hits = {}
    THEN blk' = s /\ pc' = pcThen
    ELSE LET m == CHOOSE x \in MatchAt(s, Min(hits)) : TRUE
         IN IF m.len < BaseLen
            THEN blk' = s /\ pc' = "failed"
            ELSE blk' = Emit(s, BaseLen, m.src, m.dest, m.len) /\ pc' = pcThen

-----------------------------------------------------------------------------
(* Chunks of L bytes: compress(). *)

\* The first chunk, looked up even where an input match begins.
FirstChunk ==
    /\ pc = "first"
    /\ RecordFirst(blk, {x \in {0} : MatchAt(blk, x) # {}}, "scan")
    /\ AddHash(0)
    /\ UNCHANGED <<opts, input, bgVars, origsize, i, ins, dictTable, startarr, blocks>>

\* The start of the next input match, in the block.
MatchStart(inputMatches) == Head(inputMatches).dest - origsize

\* The literals lose the match as it was before the cut.
CountWholeInputMatch(s, m) ==
    LET start == m.dest - origsize
        cut == Max({start, s.last_match_end}) - start
    IN IF start + m.len - BaseLen >= s.last_match_end
       THEN [Emit(s, BaseLen, m.src + cut, start + cut, m.len - cut) EXCEPT !.literals = @ - cut]
       ELSE s

\* Encode what our own matches have left of an input match, unless it is too short.
TakeInputMatch(s, m) ==
    LET start == m.dest - origsize
        cut == Max({start, s.last_match_end}) - start
    IN IF start + m.len - BaseLen >= s.last_match_end
       THEN Emit(s, BaseLen, m.src + cut, start + cut, m.len - cut)
       ELSE s

(***************************************************************************)
(* One iteration of the sub-main cycle: an input match if its start has    *)
(* been reached, a jump over what is already matched, then the lookup of   *)
(* the next Lookahead positions, until one of them makes a match.  At the  *)
(* end of a chunk's length the chunk there is stored.                      *)
(***************************************************************************)
Scan ==
    /\ pc = "scan"
    /\ i + 2 * L <= Size \/ i % L # 0
    /\ LET next == (i \div L + 1) * L
           taken == i >= MatchStart(ins)
           s == IF taken THEN TakeInputMatch(blk, Head(ins)) ELSE blk
           rest == IF taken THEN Tail(ins) ELSE ins
           from == Max({i, Min({next - 1, s.last_match_end - 1})})
           last == Min({next, from + Lookahead})
           hits == {x \in from + 1 .. last : /\ x >= s.last_match_end
                                             /\ x < MatchStart(rest)
                                             /\ MatchAt(s, x) # {}}
       IN /\ ins' = rest
          /\ RecordFirst(s, hits, "scan")
          /\ i' = last
          /\ IF last = next THEN AddHash(next) ELSE UNCHANGED table
    /\ UNCHANGED <<opts, input, bgVars, origsize, dictTable, startarr, blocks>>

ScanEnd ==
    /\ pc = "scan"
    /\ i + 2 * L > Size
    /\ i % L = 0
    /\ pc' = "end"
    /\ UNCHANGED <<opts, input, bgVars, origsize, i, blk, ins, tables, blocks>>

-----------------------------------------------------------------------------
(* Content-defined chunks: compress_CDC, given the ends of the chunks. *)

CdcMinMatch == Max({opts.minMatch, Minimal})

\* The chunks that startarr has room for, chunk 0 included.
TotalChunks ==
    LET n == Max({Len(input), L}) \div L
    IN n + n \div (IF n > 1024 THEN 10 ELSE 1)

(***************************************************************************)
(* The next chunk ends where some hash of the preceding bytes is large     *)
(* enough, that is anywhere, or at the end of the block.  Once startarr    *)
(* is full, chunks are neither stored nor looked up.                       *)
(***************************************************************************)
CutChunk ==
    /\ pc = "cdc"
    /\ \E next \in i + 1 .. Size :
          LET len == next - i
              curchunk == Len(startarr) + 1
              room == curchunk < TotalChunks
              key == Bytes(i, len)
              starts == Append(startarr, origsize + i)
              chunk == table[key]
              equal == room /\ key \in DOMAIN table /\ starts[chunk + 1] - starts[chunk] = len
          IN /\ startarr' = IF room THEN starts ELSE startarr
             /\ table' = IF room THEN Stored(table, key, curchunk) ELSE table
             /\ blk' = IF equal /\ len >= CdcMinMatch
                       THEN LET s == Emit(blk, CdcMinMatch, startarr[chunk], i, len)
                            IN [s EXCEPT !.literals = blk.literals]
                       ELSE [blk EXCEPT !.literals = @ + len]
             /\ i' = next
             /\ pc' = IF next = Size THEN "end" ELSE pc
    /\ UNCHANGED <<opts, input, bgVars, origsize, ins, dictTable, blocks>>

-----------------------------------------------------------------------------
MainStep ==
    \/ StartBlock \/ FinishBlock
    \/ DictScan \/ DictEnd
    \/ FirstChunk \/ Scan \/ ScanEnd
    \/ CutChunk

\* The program goes on to the second pass, or has ended with an error.
Stopped ==
    /\ pc \in {"done", "failed"}
    /\ UNCHANGED vars

Next == ReadBlock \/ MainStep \/ Stopped

Spec == Init /\ [][Next]_vars

-----------------------------------------------------------------------------
\* The state has its type; in particular a table holds neither chunk 0 nor position 0,
\* which mean "nothing", and startarr is not overrun.
TypeOK ==
    /\ read \in origsize .. Len(input)
    /\ ring \in [0 .. DictSize(opts) - 1 -> Byte \cup {NoByte}]
    /\ pc \in {"block", "dict", "first", "scan", "cdc", "end", "done", "failed"}
    /\ i \in 0 .. opts.bufSize
    /\ \A h \in DOMAIN dictTable : dictTable[h] \in 1 .. DictSize(opts) - 1
    /\ \A k \in DOMAIN table : table[k] \in 1 .. Len(input)
    /\ Len(startarr) < TotalChunks

\* The matches that records say, read with BASE_LEN as pass 2 and the decoder do.
ReadBack(stat, start) ==
    LET back[k \in 0 .. Len(stat)] ==
            IF k = 0 THEN [pos |-> start, matches |-> <<>>]
            ELSE LET prev == back[k - 1]
                     m == DecodeLzMatch(FALSE, Round, BaseLen, prev.pos, stat[k])
                 IN [pos |-> m.dest + m.len,
                     matches |-> Append(prev.matches, [src |-> m.src, dest |-> m.dest, len |-> m.len])]
    IN back[Len(stat)].matches

\* The records of a block say exactly the matches that were found, whatever mixture of
\* methods has written them: "Guaranteed minimum match length, so lengths in STAT are
\* encoded minus this value" (srep.cpp:385).
RecordsReadBack == \A k \in DOMAIN blocks : ReadBack(blocks[k].stat, blocks[k].start) = blocks[k].found

\* The header's literal_bytes is what is left of the block when the copies are taken out:
\* the decoder cuts the compressed block by it.
LiteralsCounted ==
    \A k \in DOMAIN blocks :
        LET b == blocks[k]
        IN b.literals = b.size - MapThenSumSet(LAMBDA n : b.found[n].len, DOMAIN b.found)

P == INSTANCE Parsing WITH file <- input, bufSize <- opts.bufSize, parsed <- origsize,
                           matches <- UNION {{blocks[k].found[n] : n \in DOMAIN blocks[k].found} :
                                             k \in DOMAIN blocks}

\* Every match of every method repeats earlier bytes of the file, inside its block and
\* apart from the others, although the ring is overwritten while it is searched, tables
\* hold stale positions, hashes collide and two searches' matches are merged.
StatesTrueMatches == P!Spec
=============================================================================
