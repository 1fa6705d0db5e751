----------------------------- MODULE ChunkStore -----------------------------
(***************************************************************************)
(* The memory manager of the decoder (decode/storage.rs:18-173): byte      *)
(* strings are cut into chains of fixed-size chunks.  Chunks are numbered  *)
(* through; free ones are chained from first_free, the last freed first;   *)
(* more are made available K at a time.  Chunk 0 is never used: its number *)
(* is INVALID_INDEX, the end of every chain.                               *)
(***************************************************************************)
EXTENDS Naturals, Sequences, FiniteSets, FiniteSetsExt, SequencesExt

CONSTANTS
    K,              \* chunks per allocation block
    Payload,        \* bytes of a chunk that carry data (USEFUL_CHUNK_SPACE)
    ChunkSize,      \* bytes of a chunk, with its link
    Word,           \* size_t is computed modulo Word
    MemLimits,      \* the possible values of memlimit (-mem)
    Strings,        \* the byte strings a client may save
    MaxChunks       \* bound for model checking: chunks in use

INVALID_INDEX == 0

ASSUME ChunkStoreAssumption ==
    /\ K \in Nat /\ K > 1
    /\ Payload \in Nat \ {0} /\ ChunkSize \in Nat /\ ChunkSize > Payload
    /\ Word \in Nat /\ MemLimits \subseteq 0 .. Word - 1
    /\ \A s \in Strings : s \in Seq(Range(s)) /\ s # <<>>

VARIABLES
    memlimit,
    firstFree,
    next,           \* chunk -> the chunk after it, of all chunks allocated
    payload,        \* chunk -> its data
    usedChunks,
    blocks,         \* number of allocation blocks
    lengths         \* client's view: handle -> length of the string saved

vars == <<memlimit, firstFree, next, payload, usedChunks, blocks, lengths>>

ABlockSize == K * ChunkSize

UsefulWithChunkZero ==
    (((memlimit \div ABlockSize) * ABlockSize) \div ChunkSize) * Payload % Word

\* The arithmetic wraps: a limit below one block yields a huge useful_memory.
UsefulMemory ==
    LET chunks == ((memlimit \div ABlockSize) * ABlockSize) \div ChunkSize
    IN (((chunks + Word - 1) % Word) * Payload) % Word

AvailableSpace ==
    IF UsefulMemory > usedChunks * Payload THEN UsefulMemory - usedChunks * Payload ELSE 0

-----------------------------------------------------------------------------
(* The operations, as functions of the manager's state. *)

Manager == [firstFree |-> firstFree, next |-> next, payload |-> payload,
            used |-> usedChunks, blocks |-> blocks]

FirstEvenIfInvalid(m) == m.blocks * K

FirstOfNewBlock(m) == IF m.blocks * K = INVALID_INDEX THEN 1 ELSE m.blocks * K

\* A new block goes in front of the free chain; the very first omits chunk 0.
AllocateBlock(m) ==
    LET new == m.blocks * K .. (m.blocks + 1) * K - 1
    IN [m EXCEPT
          !.next = [c \in DOMAIN m.next \cup new |->
                      IF c \notin new THEN m.next[c]
                      ELSE IF c = (m.blocks + 1) * K - 1 THEN m.firstFree ELSE c + 1],
          !.payload = [c \in DOMAIN m.payload \cup new |->
                         IF c \notin new THEN m.payload[c] ELSE <<>>],
          !.firstFree = FirstOfNewBlock(m),
          !.blocks = @ + 1]

Allocate(m) ==
    LET n == IF m.firstFree = INVALID_INDEX THEN AllocateBlock(m) ELSE m
    IN [n EXCEPT !.firstFree = n.next[n.firstFree], !.used = @ + 1]

\* The chunk that Allocate takes.
Taken(m) == IF m.firstFree = INVALID_INDEX THEN AllocateBlock(m).firstFree ELSE m.firstFree

Pieces(s) ==
    [p \in 1 .. (Len(s) + Payload - 1) \div Payload |->
        SubSeq(s, (p - 1) * Payload + 1, Min({p * Payload, Len(s)}))]

LinkAfter(n, prev, chunk) ==
    IF prev = INVALID_INDEX THEN n ELSE [n EXCEPT !.next[prev] = chunk]

\* One round of the loop of save: acc holds the manager, prev_index and first_index.
SavePiece(acc, piece) ==
    LET chunk == Taken(acc.m)
        linked == LinkAfter(Allocate(acc.m), acc.prev, chunk)
    IN [m |-> [linked EXCEPT !.payload[chunk] = piece],
        prev |-> chunk,
        first |-> IF acc.prev = INVALID_INDEX THEN chunk ELSE acc.first]

EndOpen(m, last) == m

EndChain(m, last) == [m EXCEPT !.next[last] = INVALID_INDEX]

SaveString(m, s) ==
    LET saved == FoldLeft(SavePiece, [m |-> m, prev |-> INVALID_INDEX, first |-> INVALID_INDEX],
                          Pieces(s))
    IN [m |-> EndChain(saved.m, saved.prev), first |-> saved.first]

\* The chunks from c to the end of its chain.
Chain(m, c) ==
    LET follow[n \in 0 .. Cardinality(DOMAIN m.next)] ==
            IF n = 0 THEN <<c>>
            ELSE LET s == follow[n - 1]
                 IN IF Last(s) = INVALID_INDEX THEN s ELSE Append(s, m.next[Last(s)])
    IN Front(follow[Cardinality(DOMAIN m.next)])

\* restore reads len bytes along the chain.
Restore(m, c, len) ==
    LET read[n \in 1 .. len] ==     \* <<chunk, offset>> of byte n
            IF n = 1 THEN <<c, 1>>
            ELSE IF read[n - 1][2] < Payload THEN <<read[n - 1][1], read[n - 1][2] + 1>>
            ELSE <<m.next[read[n - 1][1]], 1>>
    IN [n \in 1 .. len |-> m.payload[read[n][1]][read[n][2]]]

MarkAsFree(m, c) == [m EXCEPT !.next[c] = m.firstFree, !.firstFree = c, !.used = @ - 1]

FreeHeadOnly(m, c) == MarkAsFree(m, c)

\* free: mark_as_free of every chunk, the first one first.
FreeChain(m, c) == FoldLeft(MarkAsFree, m, Chain(m, c))

Become(m) ==
    /\ firstFree' = m.firstFree
    /\ next' = m.next
    /\ payload' = m.payload
    /\ usedChunks' = m.used
    /\ blocks' = m.blocks
    /\ UNCHANGED memlimit

-----------------------------------------------------------------------------
Init ==
    /\ memlimit \in MemLimits
    /\ firstFree = INVALID_INDEX
    /\ next = [c \in {} |-> 0]
    /\ payload = [c \in {} |-> <<>>]
    /\ usedChunks = 0
    /\ blocks = 0
    /\ lengths = [h \in {} |-> 0]

\* A client saves what available_space says there is room for (future.rs:124-130).
Save(s) ==
    /\ Len(s) <= AvailableSpace
    /\ usedChunks + Len(Pieces(s)) <= MaxChunks
    /\ LET saved == SaveString(Manager, s)
       IN /\ Become(saved.m)
          /\ lengths' = [h \in DOMAIN lengths \cup {saved.first} |->
                            IF h = saved.first THEN Len(s) ELSE lengths[h]]

Free(h) ==
    /\ Become(FreeChain(Manager, h))
    /\ lengths' = [g \in DOMAIN lengths \ {h} |-> lengths[g]]

Next == (\E s \in Strings : Save(s)) \/ (\E h \in DOMAIN lengths : Free(h))

Spec == Init /\ [][Next]_vars

-----------------------------------------------------------------------------
(* Properties. *)

Chunks == 0 .. blocks * K - 1

TypeOK ==
    /\ memlimit \in MemLimits
    /\ firstFree \in Chunks \cup {INVALID_INDEX}
    /\ next \in [Chunks -> Chunks]
    /\ DOMAIN payload = Chunks
    /\ usedChunks \in Nat /\ blocks \in Nat
    /\ DOMAIN lengths \subseteq Chunks \ {INVALID_INDEX}

\* Clients see a byte store: what restore delivers for a handle is what was saved
\* under it, whatever was saved and freed in between.
Clients == INSTANCE ByteStore WITH
    Bytes <- Strings,
    store <- [h \in DOMAIN lengths |-> Restore(Manager, h, lengths[h])]

KeepsBytes == Clients!Spec

ChainsInUse == {Chain(Manager, h) : h \in DOMAIN lengths}

\* The chunks but chunk 0 are the free chain and the chains in use, each in one of
\* them, once; used_chunks, which available_space relies on, counts the latter.
ChunksPartitioned ==
    LET free == Chain(Manager, firstFree)
    IN /\ UNION {Range(c) : c \in ChainsInUse \cup {free}} = Chunks \ {INVALID_INDEX}
       /\ \A c, d \in ChainsInUse : c = d \/ Range(c) \cap Range(d) = {}
       /\ \A c \in ChainsInUse : Range(c) \cap Range(free) = {}
       /\ \A c \in ChainsInUse \cup {free} : IsInjective(c)
       /\ usedChunks = Cardinality(UNION {Range(c) : c \in ChainsInUse})

\* A client that heeds available_space makes the manager allocate no more than the
\* memory limit, if that is at least one block.
WithinMemLimit == memlimit >= ABlockSize => blocks * ABlockSize <= memlimit
=============================================================================
