# Formal verification of srep-rs

srep-rs is a Rust port of SREP, a huge-dictionary LZ77 preprocessor; the C++ original is kept
under `legacy/` and is the authority for what the program should do. This directory holds TLA+
models of both, the TLC runs that check them on small instances, and TLAPS proofs for every
value of the constants. Paths below are relative to the repository; `SREP/` stands for
`legacy/Compression/SREP/`.

## The system

### Components

| Component | Code | State | Operations | Modelled in |
|---|---|---|---|---|
| Future-LZ block decoder | `SREP/decompress.cpp:294-363`, `src/decode/future.rs` | position in the block, match heap, output file | insert in-block matches, copy in order of destination, save matches for later blocks | `FutureLz` |
| VM spilling and match heap | `SREP/decompress.cpp:161-290`, `src/decode/storage.rs` | VM file, free-block stack, heap with marking points | `save_to_disk`, `restore_from_disk` | `FutureLz` |
| Chunk memory manager | `SREP/decompress.cpp:54-143`, `src/decode/storage.rs` | chunk links, free chain, counters | `save`, `restore`, `free`, `available_space` | `ChunkStore` |
| I/O-LZ block decoder | `SREP/decompress.cpp:9-45`, `src/decode/backward.rs` | position in the block, output file | copy literals, and bytes decoded earlier | `FutureLz` |
| Decompression driver | `SREP/srep.cpp:1011-1148`, `src/decode/mod.rs` | output file, position | block loop, end of archive, checksum | `FutureLz` |
| Match records | `SREP/srep.cpp:107-131`, `src/format/records.rs` | none | encode, decode | `Records` |
| Information command, memory estimate | `SREP/srep.cpp:753-787, 961-990, 1054-1083` | heap of pending matches, sums | add, remove, take the maximum | `RamEstimate` |
| Second compression pass | `SREP/srep.cpp:716-846`, `src/compress.rs` | sorted matches, cursor, `saved_i`, current list | clip and re-encode matches per block | `Pass2` |
| Match search over fixed chunks | `SREP/compress.cpp`, `SREP/hash_table.cpp`, `src/encode.rs`, `src/matchfind/hash_table.rs` | table of chunks, digests | look up, verify, merge with input matches, store | `FirstPass` |
| REP in-memory dictionary | `SREP/compress_inmem.cpp`, `src/matchfind/rep.rs` | ring of bytes, table of positions | look up, store | `FirstPass` |
| Content-defined chunking | `SREP/compress_cdc.cpp`, `src/matchfind/cdc.rs` | starts of chunks, table | cut, look up, store | `FirstPass` |
| CDC thread pool (legacy) | `legacy/Compression/MultiThreading.h`, `SREP/compress_cdc.cpp` | job rings, events, per-thread storage | put, get, process, finish | `CdcPool` |
| Background compression thread (legacy) | `SREP/io.cpp`, `SREP/srep.cpp:589-704` | two slots, three events, `errcode` | read ahead, hash, hand over, write behind | `BgCompress` |
| Command line driver | `SREP/srep.cpp`, `src/main.rs`, `src/cli.rs` | input, output, spool and VM files | run one command, clean up | not modelled |
| Headers and footers, checksums, rolling hashes | `src/format/`, `src/checksum/`, `src/rolling.rs` | none | pure functions | not modelled |
| Utilities, vendored code, scripts | `legacy/`, `scripts/` | | | not modelled |

### How they interact

The compressor cuts its input into blocks. Pass 1 finds, per block, matches "the `len` bytes at
`dest` repeat those at `src`" and leaves the other bytes as literals. In the original this pass is
run by two threads: one compresses a block while the other reads the next and writes the previous
one; the buffers are part of the ring in which the REP dictionary looks for matches. Content-defined
chunking adds a pool of workers that hash the stripes of a block. In the Future-LZ and Index-LZ
layouts a second pass sorts the matches of all blocks by source and lists each under the block that
holds its source, cut at block boundaries, and announces how much memory decompression will take.

The decoder gets, with each block, the list of bytes that will be needed later. It keeps them in
chunked memory until their destination is reached. When memory is short, the matches due last are
spilled to a block of the VM file, and a marking point in the heap says when that block must be
read back. Long matches are not saved at all but read back from the output file. In the I/O layout
the decoder copies from the output file instead, and keeps nothing.

The modules meet in abstract specifications that none of the code's ways of computing enters:

* `Parsing`: a file is parsed block by block into disjoint copies of earlier bytes. `FirstPass` implements
  it, with all methods.
* `LzMatches`: the matches of such a parsing, and the list of a block. `Pass2` is proved to produce
  exactly those lists, and `FutureLz` to decode every archive made of them.
* `ByteStore`: handles to byte strings. `ChunkStore` implements it, `FutureLz` uses it.
* `BlockOutput`: the output grows by whole correct blocks, and success means all of them.
  `FutureLz`, `BgCompress` and, over stripes, `CdcPool` implement it.

### What is hard

* Spill and restore: a match may be spilled and restored several times, next to different
  neighbours; marks, VM blocks, chunk chains and the heap must agree all the time.
* The restart of each second-pass scan at `saved_i`, which skips matches it never looks at again.
* A ring that is overwritten by one thread while the other searches it, and a table of positions in
  it that is never cleaned.
* Three match searches, each with a minimum length of its own, whose records are merged and read by
  one base length.
* Two threads, two slots, three auto-reset events that do not count, and an unsynchronised
  `errcode`; a pool of workers that finish in any order, with storages used in turn.
* Arithmetic at the boundaries: wrap-around of the memory budget, overlap of a match with its copy,
  matches as large as a VM block, offsets of two words, an empty file.

`PROJECT.json` lists every such hazard at its line, with the properties that would catch it.

### What makes each component correct

| Component | Properties |
|---|---|
| Decoders | `WritesTheOriginal` (implements `BlockOutput`), `IntactArchiveDecodes`, `CleanFinish`, `Termination` |
| Spilling | `MarksCoverDisk`, `NothingLost`, `HandlesOwned`, `ErasesOne`, `MemoryWithinBudget`; violated: `MarksDueInTime` |
| Chunk memory | `KeepsBytes` (implements `ByteStore`), `ChunksPartitioned`, `WithinMemLimit` |
| Estimates | `EstimateExact`, `IndexInfoRight`, `RamIsPeakOfPending` |
| Second pass | `EveryPartEncoded`, `ListsAsSpecified`, `LiteralsLeadToSources`, `EveryBlockEncoded`; violated: `ListsFit` |
| First pass | `StatesTrueMatches` (implements `Parsing`), `RecordsReadBack` (violated for some options), `LiteralsCounted` |
| CDC pool | `StorageExclusive`, `JobsConserved`, `UsesTheStripes` (implements `BlockOutput`), `Termination` |
| Background thread | `SlotExclusive`, `NoHandOverLost`, `SavedInOrder`, `MatchesKept`, `SavesTheBlocks` (implements `BlockOutput`), `Termination`; violated: `ChecksumKept`, `ErrorReported` |

## Modules

* `FutureLz`. One action per branch of `decompress_FUTURE_LZ`: `ReadBlock` (phase 1),
  `TakeMatch`, `SpillToRestore`, `RestoreMark` and `CopyTail` (phase 2), `SkipDone`,
  `RememberLong`, `SpillToSave` and `SaveMatch` (phase 3); `IoBlock` is the I/O-LZ decoder;
  `EndOfInput` and `WriteBlock` belong to the block loop. `opts.program` says whether the original
  or the port runs; they differ in the iteration of `save_to_disk` (`Takings`), in what happens
  when nothing can be spilled (`WhenStuck`) and at the end of the archive (`EndAccepted`: the original looks at the heap,
  unless the index of a version 4 archive has told it which block is the last). `heap`
  is the match heap, with the sequence numbers by which equal destinations stay in order, `mm` the
  memory manager as a function from handles to bytes, `disk`, `freeBlocks` and `newBlock` are the
  fields of the VM manager. A VM block is a sequence of records; their sizes count. What an intact
  archive is, is not left to the runs: `MeansOriginal` and, for the I/O layout, `IoMeansOriginal` say which records and
  literals stand for an original, and `FutureLzAssumption` asks it of every archive that is called intact.
* `ChunkStore`. The free chain and the chains in use as one function `next`, the operations as
  functions of a record of the manager's fields, the client's calls as the actions `Save` and
  `Free`. `Word` stands for 2^64, so that `useful_memory` wraps as in the code.
* `Records`. The two macros as functions of the match and of the record; `StatValues` stands for 2^32.
* `RamEstimate`. The bookkeeping of pending matches, named by their places, as functions of a block's list; `Pass2` uses it
  for the number the compressor announces, `FutureLz` for those of `-i`.
* `Pass2`. The loop over `lz_matches[]`, one action per branch. `of` and `at` in a record are
  not written by the code; they say which match a record comes from.
* `FirstPass`. `ReadBlock` is the background thread, the rest the main thread: `DictScan` is one
  step of the REP search, `FirstChunk` and `Scan` those of `compress()`, `CutChunk` one chunk of
  `compress_CDC`. `found` in a block is not written by the code; it says which matches the records
  are meant to state. `Hash` may be any function to numbers (`HashAssumption`).
* `SyncQueue`, `CdcPool`. The ring queue as functions of a record; `PutJob` and `GetJob` are the
  calls of the main thread, `UseChunks` its reading of a storage, `GetTask` ... `Exit` the steps of a
  worker. A storage holds the number of the stripe it was filled from, 0 while being filled.
  `FinishedQueue` and `FreeEvents` are touched by the main thread alone, which is why a call that
  uses both and one shared queue is one step.
* `BgCompress`. `BgRead` ... `BgFinish` are the steps of `BG_COMPRESSION_THREAD::run`, `MainRead`
  ... `MainCleanup` those of the loop in `srep.cpp`; each touches the shared state once. What a
  slot holds is named by the number of the block it belongs to: a mix-up shows as a wrong number.
* `MC*` define the constants TLC needs; `*_proofs` hold the theorems. `Induction` has the induction
  principles the proofs use, and that recursive functions and folds are what their equations say.

## Runs

| Run | Question | Bounds |
|---|---|---|
| `FutureLz_decode` | Do both programs decode every intact archive, end, and never take a bad one for good? | files of 7 bytes in blocks of 3, up to 2 matches of any place and length, short ones or re-read ones; files of 15 bytes filled with waves of matches from the first and third block, VM blocks of 4 to 6 bytes and memory for two of them; the same with an index; cut archives (original), any one damaged record among many spilled ones and any one damaged word of an I/O record (both programs, the original if `Tame`; checksums on); I/O archives with and without rounding |
| `FutureLz_truncated` | **violated**: does success mean that everything was decoded (port)? | files of 6 bytes cut at any block boundary a match crosses |
| `FutureLz_marks` | **violated**: is every VM block due no later than its records (original)? | one archive of 16 bytes with seven matches |
| `Pass2_lists` | Are the lists what the decoder is specified for, and the announced memory what it needs? | all files of 8 bytes in blocks of 3, up to 3 matches |
| `Pass2_buffer` | **violated**: does a block's list fit its buffer? | one file of 6 blocks of 4 bytes, records of 1 |
| `BgCompress_handover` | Do the threads hand over every block, exclusively, end, and tell failure from success? | up to 5 blocks, all modes, oversized input, any write may fail |
| `BgCompress_checksum` | **violated**: does each kept header have its own block's checksum? | `-m..f`, up to 3 blocks |
| `BgCompress_diskfull` | **violated**: does an error end the program? | up to 3 blocks, a write may fail |
| `ChunkStore_chains` | Are bytes kept, chunks conserved, limits held? | chunks of 2 bytes, strings of 1, 3 and 6 bytes, up to 4 chunks in use, budgets below one block, of two blocks and of five |
| `CdcPool_stripes` | Are stripes used in order and complete, whatever the workers do? | 3 threads, up to 2 blocks and 5 stripes |
| `FirstPass_matches` | Are the matches of every method true, and recorded as found? | all files of 5 to 11 bits, blocks of 3 to 6, chunks of 1 and 2, minimum lengths 2 and 3, dictionaries of 2 to 8; the sum of the bits as the hash |
| `FirstPass_records` | **violated**: the same for `-l` larger than `-dl` | all files of 6 bits |

The bounds are small but reach every action and the cases that matter: a second spill of what was
restored, several VM blocks at once, a spill with two free blocks on the stack, a match cut at two
boundaries, both slots used twice, a storage used again within and across blocks, a dictionary
that wraps, input matches cut by the search's own. Files in the decoder and `Pass2` runs are the most general
ones: a byte that no match supplies is unlike any other, so a byte copied from a wrong place is
always seen as wrong. Files in the `FirstPass` runs, on the contrary, are all files of two byte values, so
that matches abound and hashes collide. Every property of a passing run is broken by a mutant of the model, listed
in `PROJECT.json`.

Deadlock is checked except in `BgCompress_handover` and `BgCompress_diskfull`, where the program
really may wait forever after a write error; that it does not without one is `Termination`.

### Fairness

`FutureLz` and `Pass2` are sequential loops: weak fairness of `Next` says that the thread keeps
running. In `BgCompress` and `CdcPool` each thread has weak fairness: a thread that is not waiting for an event
is run by the operating system in the end, and `Event_Wait` (`ThreadsUnix.c:488`) returns once
the event is set because the only waiter of each auto-reset event resets it; the manual event of `SyncQueue` may be reset
before a waiter has seen it, which the model allows. Nothing is assumed of inputs or
failures. A step stops being possible once the process has exited. `FirstPass` states no fairness; nothing it is checked
for needs any.

### Disagreements found

1. `FutureLz_truncated`. `decode/mod.rs:137` ends successfully when no block header follows, whatever
   the heap still holds. The original accepts the end of the archive only if
   `lz_matches.size()==1` (`srep.cpp:1026`), the barrier alone. A version 3 archive cut at a block
   boundary gives a shorter file and exit code 0.
2. `FutureLz_marks`. `decompress.cpp:254` erases the entry its reverse iterator stands on. The next
   `lz++` then skips an entry, and when only one is left before `begin()` it leaves the heap;
   with libstdc++ the decrement comes round to `end()` (option `wraps`), and the loop takes
   entries from the top again. The mark gets the dest of the last entry taken, which is then not the
   least, and the block is read back too late: an intact archive is called broken. Without the wrap, skipping is
   harmless, as `FutureLz_decode` shows; with it, that run still shows that no wrong block is written.
3. `BgCompress_checksum`. With `-m..f`, `srep.cpp:650` copies `header[]` after `bg_thread.write()` has
   released the slot. The background thread, which writes nothing in this mode, may already have
   read the block after next into it and stored that block's checksum.
4. `BgCompress_diskfull`. `io.cpp:162` leaves the thread on a write error without a
   `ReadDone.Signal()`; if `errcode` was read before, the main thread waits in `read()` forever.
5. `FirstPass_records`. `compress_cdc.cpp:208` writes lengths relative to the search's own minimum, which
   is `-l` or 16, whichever is larger; everything that reads them uses the smaller of `-l` and `-dl`
   (`srep.cpp:385`). With, for instance, `-m1 -c4096 -l1024`, all lengths are read wrong. The port
   has it from the original.
6. `Pass2_buffer`. `srep.cpp:772` writes a block's list to a buffer of `block_size` bytes, but the
   list has a record for every match that copies from the block, however many. The port's decoder
   refuses such a block for its size.

Met on the way, without a run of their own. Two of them came up as hypotheses the proofs of `FirstPass`
cannot do without, and TLC shows what happens otherwise when `MCJobs` is set to the job given:

* `-m3` with blocks that are no whole chunks stores digests under wrong chunk numbers
  (`hash_table.cpp:166-169`), and matches are stated that are none. The warning at
  `srep.cpp:388` is only about a `-c` that is no power of 2. Job: `All(10, Opts("digest", 2, 2, 0, 1, 9, 5))`;
  in the file 0000001010 two bytes at 7 are said to repeat those at 4 (`StatesTrueMatches` is violated).
* `-m3` without a dictionary writes lengths in units of the smaller of `-l` and `-dl`. They are multiples of `-c`,
  so this must divide `-c`, "lz_match_len should be divisible by L in -m3 mode" (`srep.cpp:109`); with
  `-m3 -c64 -l128` it does not, and lengths and sources are rounded. The port is the same. Job:
  `All(10, Opts("digest", 2, 4, 0, 1, 9, 10))`; a match of 6 bytes is written in units of 4
  (`RecordsReadBack` is violated).
* `-i` fails on an Index-LZ archive of an empty file, which has no first block header (`srep.cpp:967`).
* A block whose literals `save_data` finds inconsistent ends the background thread without an error code
  (`io.cpp:185`).

## Proofs

`FirstPass_proofs` begins with the records. For every word size, a record which fits its words reads back as
the match that was written (`RoundTrip`), by source and by destination; with rounding too, if length and source
are multiples of the unit, whatever the destination is (`RoundTripRounded`). The argument is the uniqueness of quotient and
remainder, applied to an offset of two words. `OneBase` says that a record never reads back right with another base
length, which is why finding 5 spoils every match.

The rest is about every file, every setting and every hash function. `Inductive` establishes the
invariant `IInv`. `Threads`: the background thread has read at most one block beyond the one in work, and where in a block each search may be.
`RingHolds`: the ring holds the last bytes read, each at its place modulo the size, which is
a multiple of the block size and no less than dictionary and two blocks. `Tables`: what the tables name is earlier than what is
looked up. The REP table is the delicate one, as it is never cleaned: it holds places in the ring, not in the file, so that an
entry is before the current byte only in the first lap (`DictEarlier`); afterwards any place in the ring is right, because what is
compared is what the ring holds now. `DigestsRight`, `ChunksNamed`: with `-m3` a chunk number leads to the digest of that
chunk, which needs blocks that are whole chunks (`Aligned`). `Found`: the matches of the block, and those the
dictionary has handed to the main search, lie one after the other inside the block and repeat earlier bytes; when the main
search cuts an input match because it has just emitted one that reaches into it, the rest still does.

From this follow `TypeCorrect`, and, where blocks of `-m3` are whole chunks (`WholeChunks`), `CopiesAreTrue` and
`Refinement`: the first pass implements `Parsing`, each `FinishBlock` one block of it and everything else a stutter.
`LiteralsAreCounted`: the literals a block announces are its size without the matches, although two searches count them in
turn; the invariant is the same equation for the block in progress, up to the current chunk for `compress_CDC`, which counts upwards.
`RecordsAreReadBack` puts the two parts together: each record states its match when it is read from where the match
before it ends (`Said`), which is what a decoder does, so reading all records gives exactly the matches found.
Its hypothesis `RecordsFit` says that the lengths and offsets fit their words and that writers and readers have one base
length, which divides `-c` where it is the unit; finding 5 and the second remark above are what happens otherwise. All jobs of
`FirstPass_matches` satisfy both hypotheses.

`Pass2_proofs` proves, for every file size, block size and set of matches, type correctness (no
index leaves the array, no literal length is negative), `EveryPartEncoded`, `LiteralsLeadToSources`,
`ListsAsSpecified` and `RamIsPeakOfPending`. The assumption is `Pass2Assumption`: no match is longer than a block or
reaches beyond the file, and they come in the order of their copies, because pass 1 looks for matches in one block at a
time, from left to right. The heart of the
invariant is `SavedAreOver`: whatever the coming scans skip is over. It is not inductive by
itself, because `saved_i` is the *last* match found over, not the first one alive; a match before
it may have been alive in that scan. It is over in the next block only because no match is longer
than a block, which is where the assumption is needed. TLC agrees: for a file of 9 bytes in
blocks of 3 and a match of 7, a part is lost once the assumption is dropped.
For `ListsAsSpecified` (`ListsRight`) the invariant adds that a list holds, in the order of the sorted matches, only parts
of matches that touch the block (`OnlyParts`); `EveryPartEncoded` says that it holds all of them, so it numbers exactly the touching
matches. The sorted array is strictly ascending in (source, copy), and a finite set numbered in strictly ascending order
is `SourceOrder` of it, by counting the predecessors of each member (`OrderIs`).
For `RamIsPeakOfPending` (`AnnouncedIsPeak`), what the estimate adds and takes away is shown to be the sum, after each block, over the
places in the lists that are read and not yet due (`DueStep`, `FollowsDue`); the largest of these sums is announced (`PeakIs`). By the two facts
above, places correspond one to one to parts of matches (`PartAtIs`), so the sum is that over the parts waiting.

`BgCompress_proofs` proves, for any number of blocks, with and without failures: `TypeOK`,
`SlotExclusive`, `NoHandOverLost`, `SavedInOrder`, `MatchesKept`, and that the threads implement
`BlockOutput`. The invariant says for each point of the background thread how far behind or ahead
the main thread is and which events are set (`Handshake`), derives from it which slot each thread is
on (`SlotParity`) and what the slots hold (`BgData`, `MainData`). `NoHandOverLost` is about the two signals that hand a block over:
neither finds its event still set, so each is seen. The third, by which the background thread reports input that is too large (`io.cpp:149`), may
find `ReadDone` set and merge with the signal before it; what matters then is that the main thread, which looks at `errcode`
first, never waits for it in vain (`ExitSeen`). Once `errcode` is set or the main thread is
cleaning up, the handshake is broken and only the data already in the file matters, so these
parts are conditional on that.

`CdcPool_proofs` proves, for any number of threads and any files: `TypeOK`, `StorageExclusive`,
`JobsConserved` and that the pool implements `BlockOutput` over stripes. It first shows that the
ring with its two indices is a first-in first-out queue while no more is put than it holds
(`RingIsFifo`); everything else speaks of the queues' contents. The invariant: the
pending jobs are consecutive stripes (`StripesInOrder`) whose storages are consecutive modulo the number
of threads (`StoragesInTurn`), and there are never more of them, with the one being read, than
threads, so no two share a storage. Each has an event of its own (`EventsOwned`). The worker queue holds a
tail of the pending jobs (`QueueIsTail`); every job before that tail is at one worker or has its event set
(`EachTakenOnce`), in which case its storage holds its stripe (`StoredWhenSignaled`). At the
end the threads leave one by one, each with the only NULL task in the queue (`StoppedOneByOne`).

`ChunkStore_proofs` proves, for any chunk size, block size, word size, limit and strings: `TypeOK`,
`ChunksPartitioned`, `WithinMemLimit` and that the memory manager implements `ByteStore`. The invariant is
existential: there are sequences of chunks, one for each handle and one for the free
chunks, which together list every chunk but chunk 0 once, which the links follow to 0, and which are as
long as the strings saved need. `save` and `free` are folds, so their effect is found by induction over the pieces
of the string and over the chunks of the chain: each round moves one chunk from the head of the free sequence to the end
of the new one (`PieceStep`, `SaveStep`), or back (`FreeStep`). That `Chain` computes the sequence of a handle
(`ChainIs`), and `Restore` the bytes in it (`RestoreIs`), are inductions over the
recursive functions they are defined by. `RoomForPieces` is the arithmetic of the limit: what `available_space` lets through
needs no block beyond it, although useful memory leaves out chunk 0 and is computed modulo the word size. It asks for a limit of at least one
block; below that `useful_memory` wraps and nothing is limited, as in the code.

`FutureLz_proofs` proves, for every block size, VM block size and memory size, and both programs: `TypeOK`, `HandlesOwned`,
`MarksCoverDisk` and `MemoryWithinBudget`. For the port that is for every archive of the right types, damaged and cut ones included, of
any version. For the original a damaged archive must be `Tame` (`OriginalAssumption`, see "What is abstracted"). The invariant `IInv` has a part for each structure. `HeapShape`: the barrier is
there, and no two entries have one sequence number. `Memory`: handles and entries with data correspond.
`VmFile`: a VM block is free once or has one mark, and is not empty when it has one; `MarksDue`: a
mark is due with the first record of its block. `Position`: the output ends where the current block
starts, and the block's own output is no longer than the block. `Sources`: what is in the heap or in
the VM file is copied from bytes that are decoded when they are needed. This last part is what makes the others
inductive: `MatchData` reads behind the current position, and only because a source is before the
copy, and the entry due first is due no earlier than the position, are those bytes there (`TypeOK` would fail otherwise).
Most of the work is in `save_to_disk`, a fold over the heap in descending order, in one
pass or, with the wrap of finding 2, in several. It takes a sequence of entries with data, each once, never the
barrier, and without the wrap in descending order, so that the last one taken is the first one due; this is found by
induction over the steps of the folds. Then each
action is shown to keep each part of the invariant, by way of a few kinds of change: entries leave the heap with
their data, entries join it with new data, a mark takes the place of the entries it covers or gives it back to them.
For `MemoryWithinBudget` (`WithinBudget`) the chunks in use are a sum over the handles (`UsedChunksIs`): freeing a match makes it
smaller (`FreeingLess`), saving adds the chunks of what is saved (`SavingMore`). Useful memory is a whole number of chunks, so a match that fits
the bytes available also fits them rounded up to chunks (`AvailableIs`, `ChunksForIs`), which is the point of the check in phase 3. A
restored VM block is checked by its own size only, so it may overdraw the memory by what rounding adds, and by no more.

`FutureLzIntact_proofs` takes the archives that are as the compressor wrote them (`Sound`) and proves, for the same parameters,
that they decode to the original. The hypothesis is the meaning of the
records, `MeansOriginal`, which is part of what an intact archive is. The invariant `Intact` is about the records
that wait: read, and not yet copied to their destination (`Waiting`). `Pending`: each of them is in the heap or in the VM
file, once, with its bytes if they are saved, and nothing else is there. `DecodedRight`: the output is the original as far as it goes, and the
literals used are as many as bytes that no record supplies. From these two, the entry due first is the waiting record with the
smallest destination, so no record supplies a byte before it and the literals copied up to there are right; the copy itself is
right because its source is decoded or saved, byte by byte if it overlaps itself (`CopyRepeats`). A change of the
heap is of one of few kinds: a record comes in (`PendingGrows`), is used up (`PendingLess`), goes to the VM file (`PendingSpilled`)
or comes back (`PendingRestored`). Hence the literals are never too few or too many, the records are always valid,
and no checksum differs (`IntactInvariant`); `NothingLost` restates `Pending`. At the end of the input no record
waits, so only the barrier is in the heap: `CleanFinish`. `FinishesClean` says it of undamaged archives, of the I/O layout, where
the heap is not used at all, and of whatever the original accepts in version 3, because it looks at the heap then; it does not
in version 4. That each record is kept once also gives `ErasesOne` for intact archives (`ErasesNothingElse`): with a mark that has the dest
of a record of its block, no two entries of the heap have the same dest, so erasing by dest erases one. `save_to_disk` takes nothing only if every candidate is without data, because an empty VM block has room
for any match that is not too long (`NothingTaken`); but memory is more than a VM block, so when it is short something is saved, and that entry is a
candidate because the barrier is after it (`StuckFor`).

In the I/O layout a record says how many literals come before it, and the place of its copy follows from the records before it (`IoPlaces`).
So the invariant is about the loop over the records of a block (`IoFoldIs`, `DecodedTo`): after each of them, what has been decoded is the original up to
the place where it ends, and the literals used are those it and the ones before stand for. The copy of a record is right in its two parts, the one read
from the output file and the one repeated within the block (`BytesFromOutput`, `RestOfCopy`, `IoMatchRight`), and what is left of the
literals is the end of the block (`IoBlockRight`). Hence `IoRight`: the output is the original as far as it goes, and nothing is found broken.

With these invariants, `IntactDecodes` proves `IntactArchiveDecodes` for every archive. `Refinement` proves `WritesTheOriginal` for every archive the program can trust: either blocks carry checksums, or the archive is intact (`Sound`, or of the I/O layout);
and the archive is not cut, or the C++ program will notice because a copy beyond the cut has not been made (finding 1 is that the Rust program does not).

The estimate of `-i` is proved of the same archives. What it computes is first put in closed form: after each block it holds the
matches met so far that are due later (`DueAfter`) and its sum is the sum of their chunks, so the result is the largest of these sums (`EstimateIs`), for
any ends of the blocks that differ from the true ones in the last block only (`AreEnds`); the ends for both layouts do. On the
side of the decoder, as long as the VM file is not used, the memory holds exactly the matches that wait and are not too long, by `Pending` (`SavedChunks`), and is not
overdrawn (`InMemory`, from `MemoryWithinBudget`). At the end of a block these are the matches of `DueAfter`: so if the VM file has not been
used, no sum so far was too much. It is first used in phase 3, when a match does not fit (in phase 2 only marks lead to it, and without VM blocks there are none); what is
saved then and the match itself are due after the block, so the sum of that block is too much (`FirstSpill`). This is the
invariant `AsEstimated`, and `EstimateIsExact` follows. For `IndexInfoIsRight`, records do not overlap, so
their lengths add up to the bytes they supply (`CopiesCounted`), and the literals are the others (`LiteralsCounted`);
together they are the original, which is what a decoder that succeeds has written (`AllOut`).

The library's induction theorems take an operator as a parameter, which the provers cannot
instantiate. `Induction` has the same principles for sets instead (`InductionUpTo`, `InductionOnNat`),
from the well-foundedness of `<`, and shows that the recursive functions and folds of the
models have the values their equations give (`RecursionExists`, `FoldExists`), and that a sum over a set is the sum in order,
whichever way its elements are taken out (`SumIs`),
that sums of disjoint sets add up (`SumOfUnion`), and that the names of the elements do not matter (`SumOfImage`). For elements that come and go at
given steps, it shows what is held after each step, and that the largest sum of their weights exists and is reached (`IsFlow`, `IsPeak`); both estimates rest on it. It also shows that the elements
of a finite ordered set have places (`RanksTaken`), on which the descending order of the heap rests.

The proofs assume only the named `ASSUME`s of the modules. What stays with TLC is liveness under fairness
(`Termination`, `EveryBlockEncoded`), which the proof system does not support, `ErasesOne` of damaged
archives and under the wrap of finding 2, `CleanFinish` of damaged archives where the program does not look at the heap, and `WritesTheOriginal` where `Trusted` does not hold: Future-LZ
archives without checksums under the wrap of finding 2, of which the runs check some, and damaged ones without
checksums and cut ones whose cut the program does not notice, for which it is not true. Every other property of the runs
is stated by a theorem.

## What is abstracted

* Checksums and digests do not collide: a block's checksum is the block itself. The hashes of the
  match searches do collide, and are a parameter.
* A damaged record has a length of at least 1. A decoded length of 0 would be taken for a marking
  point by the heap; no compressor writes one.
* The damaged archives given to the original are those the model is right about (`Tame`). `lz_matches.erase(*lz)` (`decompress.cpp:254`)
  erases by key, so if two records of a damaged archive have the same dest, spilling one drops the other's entry, and its chunks
  are never freed; the model and the port take out one entry. `ErasesOne` says that with distinct dests, as in
  every intact archive, it is one entry. And `lit_len+lz_match.len` (`decompress.cpp:18`) is a sum of 32 bits in the original: a damaged
  I/O record whose lengths add up to 2^32 or more may pass the check and be copied over the end of the buffer, which is
  undefined; the model and the port (`backward.rs:43`) add without a bound.
* Truncated archives are those where a match crosses the cut; where none does, the shorter file is a correct archive
  of the shorter input, and no version 3 decoder could tell.
* Memory for saved matches is at least 15/8 of a VM block: that is what `vm_block*4`, rounded down to blocks of
  1 MiB and diminished by the links, leaves in the worst case.
* VM file and output I/O errors of the decoder are not actions. In `BgCompress`,
  where they matter to the other thread, they are.
* The failing branch of the comparison in `future.rs:73` subtracts before it compares; the model
  follows release builds, where the subtraction wraps and the comparison then rejects the record.
* `RamEstimate` counts chunks where the code counts 64 bytes for each.
* `FirstPass` leaves out what can only hide an entry of the table: the limit of probes and the slots shared by
  different hashes, the bit array, the slice hashes of `-m5`. Chunk 0 is never stored, as in the code. That the background thread is at
  most one block ahead is a guard in it, and what `BgCompress` shows of the events. Where a content-defined chunk ends
  is any choice. A table position is found by its full key.
* `-m3` runs have block sizes that are multiples of the chunk size; see above for the others.
* Indices that the code reduces `% size` are compared with the size instead, since they grow by one at a time.
* Statistics and progress output are left out.

## Not modelled

* The command line driver: parsing of options and a single sequence of opening, processing, renaming
  and removing files. No state of it interacts with anything; what is wrong in it can be read
  off: `-i -delete` removes the archive it has described; after a checked I/O error during decompression the
  clean-up removes the index file, an input, as if it were output (`srep.cpp:1166-1170`); `fclose` of the output is not
  checked before the input is removed (1154-1174); `error()` exits without any clean-up
  (`io.cpp:9-19`) and leaves partial output, temporary and VM files; the output is opened, and so truncated,
  before the archive's header has been checked; the port does not refuse equal input and output names, and removes its
  VM file only on success (`decode/mod.rs:248`).
* Headers and footers: fields at fixed places.
* VMAC, SipHash, AES and the other ciphers, the rolling hashes: arithmetic over a string, without
  operations in any order that could matter. A model of them would be the algorithm written again.
* `Common.cpp`, `Common.h`, `Compression.h`: utilities of a larger archiver (number formatting,
  consoles, large pages, registry), of which SREP calls a few wrappers. `MTCompressor` and `ProcessingThread` in
  `MultiThreading.h` are never instantiated by SREP.

The last two groups are about three quarters of the lines under `legacy/`; the models cover most of what is
left, the code that is SREP proper.

## Plan

Every safety property of the passing runs is stated by a theorem, if not for every job. What could follow: the compressor's choice of matches for I/O-LZ archives
joined to `IoMeansOriginal`, by way of `RecordsAreReadBack`, so that what `FirstPass` writes is shown to be what `FutureLz` calls intact;
and the digests and checksums, if collisions are ever to matter.

## Running

```
tlc -config FutureLz_decode.cfg MCFutureLz.tla
tlapm Pass2_proofs.tla
```

Each run takes a minute or less, a proof module between one minute and ten.
