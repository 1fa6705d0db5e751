-------------------------- MODULE FutureLz_proofs --------------------------
(***************************************************************************)
(* Proofs about FutureLz, for any block sizes and memory sizes.  Nothing   *)
(* is assumed of an archive that the port reads but its types; one that    *)
(* the original reads is Tame if it is damaged (OriginalAssumption), for   *)
(* others FutureLz is not a model of it.  Heap, chunk memory and VM file   *)
(* agree, and no byte is read that has not been written.                   *)
(***************************************************************************)
EXTENDS FutureLz, Induction, FiniteSetTheorems, FunctionTheorems, SequenceTheorems

Running == pc \in {"read", "process", "save"}

InABlock == pc \in {"process", "save"}

\* save_to_disk has found nothing to spill: an empty VM block was written.
Stuck == pc \in {"stalled", "spinning"}

\* The heap always has its barrier, and no two entries have the same sequence number.
HeapShape ==
    /\ IsFiniteSet(heap)
    /\ Barrier \in heap
    /\ \A e \in heap : e.seq < seqCounter
    /\ \A e, f \in heap : e.seq = f.seq => e = f

\* Handles and heap entries with data correspond to each other.
Memory ==
    /\ IsFiniteSet(DOMAIN mm)
    /\ \A e \in heap : e.index # 0 => e.index \in DOMAIN mm /\ Len(mm[e.index]) = e.len /\ e.len > 0
    /\ \A i \in DOMAIN mm : \E e \in heap : e.index = i
    /\ \A e, f \in heap : e.index # 0 /\ e.index = f.index => e = f

\* Every VM block is free, once, or has one mark.
VmFile ==
    /\ \A m \in Marks : m.src \in DOMAIN disk
    /\ \A m, n \in Marks : m.src = n.src => m = n
    /\ \A j, k \in DOMAIN freeBlocks : freeBlocks[j] = freeBlocks[k] => j = k
    /\ \A m \in Marks : \A k \in DOMAIN freeBlocks : freeBlocks[k] # m.src
    /\ \A v \in DOMAIN disk :
          \/ \E k \in DOMAIN freeBlocks : freeBlocks[k] = v
          \/ \E m \in Marks : m.src = v
    /\ \A v \in DOMAIN disk : \A k \in DOMAIN disk[v] : Len(disk[v][k].data) > 0
    /\ ~ Stuck => \A m \in Marks : disk[m.src] # <<>>

\* A mark is due with the first record of its VM block.
MarksDue ==
    ~ Stuck /\ ~ opts.wraps =>
        \A m \in Marks :
            /\ \E k \in DOMAIN disk[m.src] : disk[m.src][k].dest = m.dest
            /\ \A k \in DOMAIN disk[m.src] : m.dest <= disk[m.src][k].dest

\* How far the blocks and the current block have been decoded.
Position ==
    /\ Len(backend) = Min({BlockStart, Len(archive.original)})
    /\ InABlock => /\ block <= archive.present
                   /\ Len(out) <= OrigSize
                   /\ inPos <= Len(Literals)
    /\ pc = "save" => Len(out) = OrigSize
    /\ pc = "save" => cur > 0
    /\ pc = "save" /\ archive.version = "io" => cur > Len(MatchList)
    /\ pc = "process" => archive.version = "future"
    /\ InABlock /\ archive.version = "future" => \A k \in DOMAIN MatchList : ValidRecord(k)

\* The end of the bytes that saved matches can be taken from.
Complete == IF pc = "save" THEN BlockEnd ELSE BlockStart

FromBefore(src, dest, len) == src < dest /\ src + len <= Complete

\* A match whose source and copy are both in the current block.
Within(e) ==
    /\ pc = "process" /\ e.index = 0
    /\ BlockStart <= e.src /\ e.src < e.dest /\ e.dest < BlockEnd /\ e.src + e.len <= BlockEnd

\* What is to be copied has been decoded before: into the memory, into the output, or
\* into the current block.
Sources ==
    Running =>
        /\ \A e \in heap :
              \/ e = Barrier \/ IsMarkingPoint(e) \/ Within(e)
              \/ FromBefore(e.src, e.dest, e.len) /\ (e.index # 0 \/ e.len >= MaximumSave)
        /\ \A v \in DOMAIN disk : \A k \in DOMAIN disk[v] :
              FromBefore(disk[v][k].src, disk[v][k].dest, Len(disk[v][k].data))

\* The length of the original is below MaxOffset, as for all jobs.
TheJob == \E j \in Jobs : archive = j.archive /\ opts = j.opts

IInv ==
    /\ TheJob
    /\ TypeOK
    /\ HeapShape
    /\ Memory
    /\ VmFile
    /\ MarksDue
    /\ Position
    /\ Sources

-----------------------------------------------------------------------------
(* Blocks. *)

LEMMA LeastOfTwo ==
    ASSUME NEW a \in Int, NEW b \in Int
    PROVE  Min({a, b}) = IF a <= b THEN a ELSE b
<1>1. \A x \in {a, b} : (\A y \in {a, b} : x <= y) => x = IF a <= b THEN a ELSE b
  OBVIOUS
<1>2. \E x \in {a, b} : \A y \in {a, b} : x <= y
  OBVIOUS
<1>3. Min({a, b}) \in {a, b} /\ \A y \in {a, b} : Min({a, b}) <= y
  BY <1>2 DEF Min
<1> QED
  BY <1>1, <1>3

LEMMA DivMod ==
    ASSUME NEW x \in Nat, NEW d \in Nat \ {0}
    PROVE  /\ x \div d \in Nat
           /\ x % d \in 0 .. d - 1
           /\ x = d * (x \div d) + (x % d)
  OBVIOUS

LEMMA SizesPositive ==
    /\ BufSize \in Nat \ {0}
    /\ MaxOffset \in Nat \ {0}
  BY FutureLzAssumption

\* The starts of the blocks are multiples of BufSize.
LEMMA StartsGrow ==
    ASSUME NEW b \in Nat \ {0}
    PROVE  /\ FirstOf(b) \in Nat
           /\ FirstOf(1) = 0
           /\ FirstOf(b + 1) = FirstOf(b) + BufSize
           /\ \A c \in 1 .. b : FirstOf(c) <= FirstOf(b)
           /\ \A c \in 1 .. b - 1 : FirstOf(c) + BufSize <= FirstOf(b)
<1>1. BufSize \in Nat \ {0}
  BY SizesPositive
<1>2. ASSUME NEW c \in Nat, NEW d \in Nat, c <= d PROVE c * BufSize <= d * BufSize
  BY <1>1, <1>2
<1>3. FirstOf(b) \in Nat /\ FirstOf(1) = 0
  BY <1>1 DEF FirstOf
<1>4. FirstOf(b + 1) = FirstOf(b) + BufSize
  BY <1>1 DEF FirstOf
<1>5. ASSUME NEW c \in 1 .. b PROVE FirstOf(c) <= FirstOf(b)
  <2>1. c - 1 \in Nat /\ b - 1 \in Nat /\ c - 1 <= b - 1
    OBVIOUS
  <2> QED
    BY <1>2, <2>1 DEF FirstOf
<1>6. ASSUME NEW c \in 1 .. b - 1 PROVE FirstOf(c) + BufSize <= FirstOf(b)
  <2>1. c \in Nat /\ b - 1 \in Nat /\ c <= b - 1
    OBVIOUS
  <2>2. c * BufSize <= (b - 1) * BufSize
    BY <1>2, <2>1
  <2>3. (c - 1) * BufSize + BufSize = c * BufSize
    BY <1>1, <2>1
  <2> QED
    BY <2>2, <2>3 DEF FirstOf
<1> QED
  BY <1>3, <1>4, <1>5, <1>6

LEMMA ArchiveShape ==
    ASSUME NEW a, IsArchive(a)
    PROVE  /\ Len(a.original) \in Nat
           /\ a.original \in Seq(Byte)
           /\ Len(a.lists) \in Nat
           /\ DOMAIN a.lists = 1 .. Len(a.lists)
           /\ a.present \in 0 .. Len(a.lists)
           /\ FirstOf(Len(a.lists) + 1) >= Len(a.original)
           /\ \A b \in 1 .. Len(a.lists) :
                 /\ FirstOf(b) \in Nat
                 /\ EndOf(a, b) = (IF FirstOf(b + 1) <= Len(a.original) THEN FirstOf(b + 1)
                                   ELSE Len(a.original))
                 /\ FirstOf(b) < EndOf(a, b)
                 /\ EndOf(a, b) <= Len(a.original)
                 /\ EndOf(a, b) <= FirstOf(b + 1)
                 /\ EndOf(a, b) \in Nat
                 /\ a.literals[b] \in Seq(Byte)
                 /\ a.version = "future" =>
                       /\ a.lists[b] \in Seq(Match)
                       /\ \A k \in DOMAIN a.lists[b] : a.lists[b][k] \in Match
<1> DEFINE n == Len(a.original)
           q == Len(a.lists)
<1>1. /\ n \in Nat /\ q \in Nat /\ a.original \in Seq(Byte)
      /\ q = (n + BufSize - 1) \div BufSize
      /\ DOMAIN a.lists = 1 .. q
      /\ a.present \in 0 .. q
  BY DEF IsArchive
<1>2. BufSize \in Nat \ {0}
  BY SizesPositive
<1>3. q * BufSize <= n + BufSize - 1 /\ n + BufSize - 1 < q * BufSize + BufSize
  <2>1. n + BufSize - 1 \in Nat
    BY <1>1, <1>2
  <2> DEFINE t == n + BufSize - 1
  <2> HIDE DEF n, q, t
  <2>3. t \in Nat /\ q = t \div BufSize
    BY <1>1, <2>1 DEF t
  <2>4. t = BufSize * q + (t % BufSize) /\ t % BufSize \in 0 .. BufSize - 1
    BY <1>2, <2>3, DivMod
  <2>5. BufSize * q = q * BufSize /\ q * BufSize \in Nat
    BY <1>1, <1>2
  <2>6. q * BufSize <= t /\ t < q * BufSize + BufSize
    BY <1>2, <2>3, <2>4, <2>5
  <2> QED
    BY <2>6 DEF t
<1>4. FirstOf(q + 1) = q * BufSize /\ q * BufSize \in Nat
  <2> HIDE DEF n, q
  <2>1. (q + 1) - 1 = q
    BY <1>1
  <2> QED
    BY <1>1, <1>2, <2>1 DEF FirstOf
<1>5. ASSUME NEW b \in 1 .. q
      PROVE  /\ FirstOf(b) \in Nat
             /\ FirstOf(b + 1) = FirstOf(b) + BufSize
             /\ FirstOf(b) < n
  <2>1. b \in Nat \ {0} /\ q + 1 \in Nat \ {0} /\ b \in 1 .. (q + 1) - 1
    BY <1>1
  <2>2. FirstOf(b) \in Nat /\ FirstOf(b + 1) = FirstOf(b) + BufSize /\ FirstOf(b) + BufSize <= FirstOf(q + 1)
    BY <2>1, StartsGrow
  <2> DEFINE lo == FirstOf(b)
             p == q * BufSize
  <2> HIDE DEF n, q
  <2>3. lo \in Nat /\ lo + BufSize <= p /\ p \in Nat /\ p <= n + BufSize - 1
    BY <1>3, <1>4, <2>2
  <2> HIDE DEF lo, p
  <2>4. lo < n
    BY <1>1, <1>2, <2>3
  <2> QED
    BY <2>2, <2>4 DEF lo
<1>6. ASSUME NEW b \in 1 .. q
      PROVE  EndOf(a, b) = IF FirstOf(b + 1) <= n THEN FirstOf(b + 1) ELSE n
  <2>2. EndOf(a, b) = Min({FirstOf(b) + BufSize, n})
    BY DEF EndOf
  <2> DEFINE lo == FirstOf(b)
  <2>0. lo \in Nat /\ FirstOf(b + 1) = lo + BufSize
    BY <1>5
  <2> HIDE DEF n, q, lo
  <2>1. lo + BufSize \in Int /\ n \in Int
    BY <1>1, <1>2, <2>0
  <2>3. Min({lo + BufSize, n}) = IF lo + BufSize <= n THEN lo + BufSize ELSE n
    BY <2>1, LeastOfTwo
  <2>4. Min({FirstOf(b) + BufSize, n}) = IF FirstOf(b + 1) <= n THEN FirstOf(b + 1) ELSE n
    BY <2>0, <2>3 DEF lo
  <2> QED
    BY <2>2, <2>4
<1>7. ASSUME NEW b \in 1 .. q
      PROVE  /\ a.literals[b] \in Seq(Byte)
             /\ a.version = "future" =>
                       /\ a.lists[b] \in Seq(Match)
                       /\ \A k \in DOMAIN a.lists[b] : a.lists[b][k] \in Match
  <2>1. a.literals \in Seq(Seq(Byte)) /\ Len(a.literals) = q
    BY DEF IsArchive
  <2>2. a.literals[b] \in Seq(Byte)
    BY <2>1
  <2>3. ASSUME a.version = "future"
        PROVE  a.lists[b] \in Seq(Match) /\ \A k \in DOMAIN a.lists[b] : a.lists[b][k] \in Match
    <3>1. a.lists \in Seq(Seq(Match))
      BY <2>3 DEF IsArchive
    <3>2. a.lists[b] \in Seq(Match)
      BY <3>1
    <3> QED
      BY <3>2
  <2> QED
    BY <2>2, <2>3
<1> HIDE DEF n, q
<1>8. FirstOf(q + 1) >= n
  BY <1>1, <1>2, <1>3, <1>4
<1>9. ASSUME NEW b \in 1 .. q
      PROVE  FirstOf(b) < EndOf(a, b) /\ EndOf(a, b) <= n /\ EndOf(a, b) <= FirstOf(b + 1) /\ EndOf(a, b) \in Nat
  <2> DEFINE lo == FirstOf(b)
             hi == FirstOf(b + 1)
             end == EndOf(a, b)
  <2>1. lo \in Nat /\ hi = lo + BufSize /\ lo < n /\ end = (IF hi <= n THEN hi ELSE n)
    BY <1>5, <1>6
  <2> HIDE DEF lo, hi, end
  <2>2. lo < end /\ end <= n /\ end <= hi /\ end \in Nat
    BY <1>1, <1>2, <2>1
  <2> QED
    BY <2>2 DEF lo, hi, end
<1> QED
  BY <1>1, <1>5, <1>6, <1>7, <1>8, <1>9 DEF n, q

-----------------------------------------------------------------------------
(* The heap. *)

Distinct(S) == \A e, f \in S : e.seq = f.seq => e = f

\* The order of the heap, the first entry last.
HeapOrder(S) == {p \in S \X S : Before(p[2], p[1])}

ReverseOrder(S) == {p \in S \X S : Before(p[1], p[2])}

LEMMA HeapOrdered ==
    ASSUME NEW S, S \subseteq HeapEntry, Distinct(S)
    PROVE  /\ IsOrder(HeapOrder(S), S)
           /\ \A x, y \in S : <<x, y>> \in HeapOrder(S) <=> Before(y, x)
<1>1. \A x, y \in S : <<x, y>> \in HeapOrder(S) <=> Before(y, x)
  BY DEF HeapOrder
<1>2. \A x \in S : x.dest \in Nat /\ x.seq \in Nat
  BY DEF HeapEntry
<1>3. ASSUME NEW x \in S, NEW y \in S, NEW z \in S, Before(y, x), Before(z, y)
      PROVE  Before(z, x)
  <2> DEFINE a == x.dest
             b == y.dest
             c == z.dest
  <2>1. a \in Nat /\ b \in Nat /\ c \in Nat /\ x.seq \in Nat /\ y.seq \in Nat /\ z.seq \in Nat
    BY <1>2
  <2>2. b < a \/ (b = a /\ y.seq < x.seq)
    BY <1>3 DEF Before
  <2>3. c < b \/ (c = b /\ z.seq < y.seq)
    BY <1>3 DEF Before
  <2> HIDE DEF a, b, c
  <2>4. c < a \/ (c = a /\ z.seq < x.seq)
    BY <2>1, <2>2, <2>3
  <2> QED
    BY <2>4 DEF Before, a, b, c
<1>4. ASSUME NEW x \in S PROVE ~ Before(x, x)
  BY <1>2 DEF Before
<1>5. ASSUME NEW x \in S, NEW y \in S, x # y PROVE Before(x, y) \/ Before(y, x)
  <2>1. x.seq # y.seq
    BY <1>5 DEF Distinct
  <2>2. x.dest \in Nat /\ y.dest \in Nat /\ x.seq \in Nat /\ y.seq \in Nat
    BY <1>2
  <2> QED
    BY <2>1, <2>2 DEF Before
<1> HIDE DEF HeapOrder
<1>6. IsOrder(HeapOrder(S), S)
  BY <1>1, <1>3, <1>4, <1>5 DEF IsOrder
<1> QED
  BY <1>1, <1>6

\* The first entry comes before all others.
LEMMA FirstIs ==
    ASSUME NEW S, S \subseteq HeapEntry, Distinct(S), IsFiniteSet(S), S # {}
    PROVE  /\ First(S) \in S
           /\ \A f \in S \ {First(S)} : Before(First(S), f)
           /\ \A f \in S : First(S).dest <= f.dest
<1>1. PICK x \in S : \A y \in S \ {x} : <<y, x>> \in HeapOrder(S)
  BY HeapOrdered, LastExists
<1>2. \A y \in S \ {x} : Before(x, y)
  BY <1>1, HeapOrdered
<1>3. First(S) \in S /\ \A f \in S \ {First(S)} : Before(First(S), f)
  BY <1>2 DEF First
<1>4. ASSUME NEW f \in S PROVE First(S).dest <= f.dest
  <2>1. f.dest \in Nat /\ First(S).dest \in Nat
    BY <1>3 DEF HeapEntry
  <2>2. f = First(S) \/ Before(First(S), f)
    BY <1>3
  <2> QED
    BY <2>1, <2>2 DEF Before
<1> QED
  BY <1>3, <1>4

\* Descending(S) has distinct entries of S, each before those that precede it.
LEMMA DescendingIs ==
    ASSUME NEW S, S \subseteq HeapEntry, Distinct(S), IsFiniteSet(S)
    PROVE  /\ Descending(S) \in Seq(S)
           /\ Len(Descending(S)) = Cardinality(S)
           /\ \A j, k \in 1 .. Cardinality(S) :
                 j < k => Before(Descending(S)[k], Descending(S)[j])
<1> DEFINE R == HeapOrder(S)
           n == Cardinality(S)
           d == Descending(S)
<1>1. IsOrder(R, S) /\ \A x, y \in S : <<x, y>> \in R <=> Before(y, x)
  BY HeapOrdered
<1>2. n \in Nat
  BY FS_CardinalityType
<1>3. \A x \in S : Below(R, S, x) = {f \in S : Before(x, f)}
  BY <1>1 DEF Below
<1> HIDE DEF R
<1>4. ASSUME NEW k \in 1 .. n
      PROVE  d[k] \in S /\ Cardinality(Below(R, S, d[k])) = k - 1
  <2>1. PICK x \in S : Cardinality(Below(R, S, x)) = k - 1
    BY <1>1, RanksTaken
  <2>2. Cardinality({f \in S : Before(x, f)}) = k - 1
    BY <1>3, <2>1
  <2>3. d[k] = CHOOSE e \in S : Cardinality({f \in S : Before(e, f)}) = k - 1
    BY DEF Descending
  <2> HIDE DEF d
  <2>4. d[k] \in S /\ Cardinality({f \in S : Before(d[k], f)}) = k - 1
    BY <2>2, <2>3
  <2> QED
    BY <1>3, <2>4
<1>5. DOMAIN d = 1 .. n
  BY DEF Descending
<1>6. d = [k \in 1 .. n |-> d[k]]
  <2> DEFINE nth(k) == CHOOSE e \in S : Cardinality({f \in S : Before(e, f)}) = k - 1
  <2>1. d = [k \in 1 .. n |-> nth(k)]
    BY DEF Descending
  <2> HIDE DEF d, n, nth
  <2> QED
    BY <2>1
<1> HIDE DEF n, d
<1>7. d \in Seq(S) /\ Len(d) = n
  <2>1. d \in [1 .. n -> S]
    BY <1>4, <1>6
  <2> QED
    BY <1>2, <2>1
<1>8. ASSUME NEW j \in 1 .. n, NEW k \in 1 .. n, j < k
      PROVE  Before(d[k], d[j])
  <2>1. d[j] \in S /\ d[k] \in S
    BY <1>4
  <2>2. CASE d[j] = d[k]
    <3>1. k - 1 = j - 1
      BY <1>4, <2>2
    <3> QED
      BY <1>8, <3>1
  <2>3. CASE <<d[k], d[j]>> \in R
    <3>1. Cardinality(Below(R, S, d[k])) < Cardinality(Below(R, S, d[j]))
      BY <1>1, <2>1, <2>3, RanksGrow
    <3>2. k - 1 < j - 1
      BY <1>4, <3>1
    <3> QED
      BY <1>8, <3>2
  <2>4. CASE <<d[j], d[k]>> \in R
    BY <1>1, <2>1, <2>4
  <2> QED
    BY <1>1, <2>1, <2>2, <2>3, <2>4 DEF IsOrder
<1> QED
  BY <1>7, <1>8 DEF n, d

-----------------------------------------------------------------------------
(* Chunk memory. *)

NumberOrder(S) == {p \in S \X S : p[1] < p[2]}

\* There are handles enough, and none of them is in use.
LEMMA FreeHandlesAre ==
    ASSUME NEW m, IsFiniteSet(DOMAIN m), NEW n \in Nat
    PROVE  /\ DOMAIN FreeHandles(m, n) = 1 .. n
           /\ \A k \in 1 .. n : FreeHandles(m, n)[k] \in Nat \ {0}
                                /\ FreeHandles(m, n)[k] \notin DOMAIN m
           /\ \A j, k \in 1 .. n : FreeHandles(m, n)[j] = FreeHandles(m, n)[k] => j = k
<1> DEFINE D == DOMAIN m
           c == Cardinality(D)
           all == 1 .. c + n
           free == all \ D
           R == NumberOrder(free)
           h == FreeHandles(m, n)
<1>1. c \in Nat
  BY FS_CardinalityType
<1> HIDE DEF c
<1>2. IsFiniteSet(all) /\ Cardinality(all) = c + n
  <2> DEFINE d == c + n
  <2>1. d \in Nat /\ 1 \in Int /\ d \in Int
    BY <1>1
  <2> HIDE DEF d
  <2>2. IsFiniteSet(1 .. d) /\ Cardinality(1 .. d) = IF 1 > d THEN 0 ELSE d - 1 + 1
    BY <2>1, FS_Interval
  <2>3. Cardinality(1 .. d) = d
    BY <2>1, <2>2
  <2> QED
    BY <2>2, <2>3 DEF d
<1>3. \A x \in all : x \in Nat \ {0}
  BY <1>1
<1> HIDE DEF all, D
<1>4. IsFiniteSet(free) /\ Cardinality(free) \in Nat /\ Cardinality(free) >= n
  <2>1. IsFiniteSet(free) /\ Cardinality(free) = Cardinality(all) - Cardinality(all \cap D)
    BY <1>2, FS_Difference
  <2>2. Cardinality(all \cap D) <= c /\ Cardinality(all \cap D) \in Nat
    <3>1. IsFiniteSet(D) /\ all \cap D \subseteq D
      BY DEF D
    <3> QED
      BY <3>1, FS_Subset, FS_CardinalityType DEF c
  <2>3. Cardinality(free) \in Nat
    BY <2>1, FS_CardinalityType
  <2> QED
    BY <1>1, <1>2, <2>1, <2>2, <2>3
<1>5. \A x \in free : x \in Nat \ {0} /\ x \notin D
  BY <1>3
<1> HIDE DEF free
<1>6. IsOrder(R, free) /\ \A x, y \in free : <<x, y>> \in R <=> x < y
  BY <1>5 DEF IsOrder, NumberOrder
<1>7. \A x \in free : Below(R, free, x) = {g \in free : g < x}
  BY <1>6 DEF Below
<1> HIDE DEF R
<1>8. h = [k \in 1 .. n |-> CHOOSE x \in free : Cardinality({g \in free : g < x}) = k - 1]
  BY DEF FreeHandles, free, all, c, D
<1> HIDE DEF h
<1>9. ASSUME NEW k \in 1 .. n
      PROVE  h[k] \in free /\ Cardinality({g \in free : g < h[k]}) = k - 1
  <2>1. k \in 1 .. Cardinality(free)
    BY <1>4
  <2>2. PICK x \in free : Cardinality(Below(R, free, x)) = k - 1
    BY <1>4, <1>6, <2>1, RanksTaken
  <2>3. Cardinality({g \in free : g < x}) = k - 1
    BY <1>7, <2>2
  <2>4. h[k] = CHOOSE y \in free : Cardinality({g \in free : g < y}) = k - 1
    BY <1>8
  <2> QED
    BY <2>3, <2>4
<1>10. \A j, k \in 1 .. n : h[j] = h[k] => j = k
  <2>1. ASSUME NEW j \in 1 .. n, NEW k \in 1 .. n, h[j] = h[k] PROVE j = k
    <3>1. j - 1 = k - 1
      BY <1>9, <2>1
    <3> QED
      BY <3>1
  <2> QED
    BY <2>1
<1>11. DOMAIN h = 1 .. n
  BY <1>8
<1> QED
  BY <1>5, <1>9, <1>10, <1>11 DEF h, D

\* The memory r is m with the strings data under the handles h.
Added(m, data, h, r) ==
    /\ DOMAIN r = DOMAIN m \cup {h[k] : k \in DOMAIN data}
    /\ IsFiniteSet(DOMAIN r)
    /\ \A i \in DOMAIN m : r[i] = m[i]
    /\ \A k \in DOMAIN data : r[h[k]] = data[k]

\* What SaveAll adds: one string under each new handle.
LEMMA SaveAllIs ==
    ASSUME NEW m, IsFiniteSet(DOMAIN m), NEW data \in Seq(Seq(Byte))
    PROVE  Added(m, data, FreeHandles(m, Len(data)), SaveAll(m, data))
<1> DEFINE h == FreeHandles(m, Len(data))
           r == SaveAll(m, data)
           new == {h[k] : k \in DOMAIN data}
<1>1. Len(data) \in Nat /\ DOMAIN data = 1 .. Len(data)
  OBVIOUS
<1>2. /\ DOMAIN h = DOMAIN data
      /\ \A k \in DOMAIN data : h[k] \notin DOMAIN m
      /\ \A j, k \in DOMAIN data : h[j] = h[k] => j = k
  BY <1>1, FreeHandlesAre
<1>3. Range(h) = new
  BY <1>2 DEF Range
<1>4. r = [i \in DOMAIN m \cup Range(h) |->
              IF i \in DOMAIN m THEN m[i] ELSE data[CHOOSE k \in DOMAIN data : h[k] = i]]
  BY DEF SaveAll
<1> HIDE DEF h, r
<1>5. DOMAIN r = DOMAIN m \cup new /\ \A i \in DOMAIN m : r[i] = m[i]
  BY <1>3, <1>4
<1>6. ASSUME NEW k \in DOMAIN data PROVE r[h[k]] = data[k]
  <2>1. h[k] \in new /\ h[k] \notin DOMAIN m
    BY <1>2
  <2>2. (CHOOSE j \in DOMAIN data : h[j] = h[k]) = k
    BY <1>2
  <2> QED
    BY <1>3, <1>4, <2>1, <2>2
<1>7. IsFiniteSet(DOMAIN r)
  <2>1. IsFiniteSet(1 .. Len(data))
    BY <1>1, FS_Interval
  <2>2. IsFiniteSet(new)
    BY <1>1, <2>1, FiniteImage
  <2>3. IsFiniteSet(DOMAIN m \cup new)
    <3> HIDE DEF new
    <3> QED
      BY <2>2, FS_Union
  <2> QED
    BY <1>5, <2>3
<1>8. Added(m, data, h, r)
  BY <1>5, <1>6, <1>7 DEF Added
<1> QED
  BY <1>8 DEF h, r

LEMMA FreeAllIs ==
    ASSUME NEW m, IsFiniteSet(DOMAIN m), NEW handles
    PROVE  /\ DOMAIN FreeAll(m, handles) = DOMAIN m \ handles
           /\ IsFiniteSet(DOMAIN FreeAll(m, handles))
           /\ \A i \in DOMAIN m \ handles : FreeAll(m, handles)[i] = m[i]
<1>1. DOMAIN FreeAll(m, handles) = DOMAIN m \ handles
  BY DEF FreeAll
<1>2. IsFiniteSet(DOMAIN m \ handles)
  BY FS_Subset
<1> QED
  BY <1>1, <1>2 DEF FreeAll

-----------------------------------------------------------------------------
(* What save_to_disk takes. *)

GoodHeap ==
    /\ heap \subseteq HeapEntry
    /\ Distinct(heap)
    /\ IsFiniteSet(heap)
    /\ Barrier \in heap

LEMMA CandidatesAre ==
    ASSUME GoodHeap
    PROVE  /\ Candidates \in Seq(heap)
           /\ Len(Candidates) \in Nat
           /\ \A k \in 1 .. Len(Candidates) : Candidates[k] \in heap
           /\ \A j, k \in 1 .. Len(Candidates) : j < k => Before(Candidates[k], Candidates[j])
<1> DEFINE S == heap \ {LastOf(heap)}
<1>1. S \subseteq HeapEntry /\ Distinct(S) /\ S \subseteq heap
  BY DEF GoodHeap, Distinct
<1>2. IsFiniteSet(S)
  BY FS_Subset DEF GoodHeap
<1>3. Candidates = Descending(S)
  BY DEF Candidates
<1> HIDE DEF S
<1>4. /\ Candidates \in Seq(S) /\ Len(Candidates) = Cardinality(S)
      /\ \A j, k \in 1 .. Cardinality(S) : j < k => Before(Candidates[k], Candidates[j])
  BY <1>1, <1>2, <1>3, DescendingIs
<1>5. Candidates \in Seq(heap)
  BY <1>1, <1>4
<1>6. Len(Candidates) \in Nat /\ \A k \in 1 .. Len(Candidates) : Candidates[k] \in heap
  BY <1>5
<1> QED
  BY <1>4, <1>5, <1>6

\* The states that the iterator may come to: what it has taken are distinct entries with data.
Accs ==
    {acc \in [saved : Seq(heap), skip : BOOLEAN, full : BOOLEAN] :
        /\ \A k \in DOMAIN acc.saved : acc.saved[k].index # 0
        /\ \A j, k \in DOMAIN acc.saved : acc.saved[j] = acc.saved[k] => j = k}

LEMMA AccsUpdated ==
    ASSUME NEW S, NEW B, NEW acc \in [saved : S, skip : B, full : B], NEW t \in S, NEW x \in B,
           NEW r,
           \/ r = [acc EXCEPT !.skip = x]
           \/ r = [acc EXCEPT !.full = x]
           \/ r = [acc EXCEPT !.saved = t, !.skip = x]
    PROVE  /\ r \in [saved : S, skip : B, full : B]
           /\ \/ r = [acc EXCEPT !.saved = t, !.skip = x] /\ r.saved = t
              \/ r.saved = acc.saved
<1>1. acc.saved \in S /\ acc.skip \in B /\ acc.full \in B
  OBVIOUS
<1>2. acc = [saved |-> acc.saved, skip |-> acc.skip, full |-> acc.full]
  OBVIOUS
<1>3. CASE r = [acc EXCEPT !.skip = x]
  BY <1>1, <1>2, <1>3
<1>4. CASE r = [acc EXCEPT !.full = x]
  BY <1>1, <1>2, <1>4
<1>5. CASE r = [acc EXCEPT !.saved = t, !.skip = x]
  BY <1>1, <1>2, <1>5
<1> QED
  BY <1>3, <1>4, <1>5

LEMMA ConsiderIs ==
    ASSUME NEW acc \in Accs, NEW e \in heap
    PROVE  /\ Consider(acc, e) \in Accs
           /\ \/ Consider(acc, e).saved = acc.saved
              \/ Consider(acc, e).saved = Append(acc.saved, e)
<1> DEFINE s == acc.saved
           t == Append(s, e)
           Q == Seq(heap)
           B == BOOLEAN
           cpp == opts.program = "cpp"
           r == Consider(acc, e)
<1>1. /\ acc \in [saved : Q, skip : B, full : B]
      /\ \A k \in DOMAIN s : s[k].index # 0
      /\ \A j, k \in DOMAIN s : s[j] = s[k] => j = k
  BY DEF Accs
<1>2. s \in Seq(heap)
  BY <1>1
<1>3. /\ t \in Q /\ DOMAIN t = 1 .. Len(s) + 1 /\ t[Len(s) + 1] = e
      /\ Len(s) \in Nat /\ DOMAIN s = 1 .. Len(s)
      /\ \A k \in 1 .. Len(s) : t[k] = s[k]
  BY <1>2
<1>4. cpp \in B /\ TRUE \in B /\ FALSE \in B
  OBVIOUS
<1>5. \/ r = acc
      \/ r = [acc EXCEPT !.skip = FALSE]
      \/ r = [acc EXCEPT !.full = TRUE]
      \/ e.index # 0 /\ e \notin Range(s) /\ r = [acc EXCEPT !.saved = t, !.skip = cpp]
  BY DEF Consider, INVALID_INDEX
<1> HIDE DEF s, t, Q, B, cpp, r
<1>6. /\ r \in [saved : Q, skip : B, full : B]
      /\ \/ r.saved = s
         \/ r.saved = t /\ e.index # 0 /\ e \notin Range(s)
  <2> DEFINE no == FALSE
             yes == TRUE
  <2>1. CASE r = acc
    BY <1>1, <2>1 DEF s
  <2>2. CASE r = [acc EXCEPT !.skip = no]
    <3>1. no \in B
      BY <1>4
    <3> HIDE DEF no
    <3> QED
      BY <1>1, <1>3, <2>2, <3>1, AccsUpdated DEF s
  <2>3. CASE r = [acc EXCEPT !.full = yes]
    <3>1. yes \in B
      BY <1>4
    <3> HIDE DEF yes
    <3> QED
      BY <1>1, <1>3, <2>3, <3>1, AccsUpdated DEF s
  <2>4. CASE e.index # 0 /\ e \notin Range(s) /\ r = [acc EXCEPT !.saved = t, !.skip = cpp]
    BY <1>1, <1>3, <1>4, <2>4, AccsUpdated DEF s
  <2> QED
    BY <1>5, <2>1, <2>2, <2>3, <2>4
<1>7. CASE r.saved = s
  <2>1. r \in Accs
    BY <1>1, <1>6, <1>7 DEF Accs, Q, B
  <2> QED
    BY <1>7, <2>1 DEF r, s
<1>8. CASE r.saved = t /\ e.index # 0 /\ e \notin Range(s)
  <2>1. \A k \in DOMAIN t : k = Len(s) + 1 \/ k \in DOMAIN s
    BY <1>3
  <2>2. \A k \in DOMAIN s : s[k] # e
    BY <1>8 DEF Range
  <2>3. \A k \in DOMAIN t : t[k].index # 0
    BY <1>1, <1>3, <1>8, <2>1
  <2>4. \A j, k \in DOMAIN t : t[j] = t[k] => j = k
    BY <1>1, <1>3, <2>1, <2>2
  <2>5. r \in Accs
    BY <1>6, <1>8, <2>3, <2>4 DEF Accs, Q, B
  <2> QED
    BY <1>8, <2>5 DEF r, t, s
<1> QED
  BY <1>6, <1>7, <1>8

LEMMA OnePassIs ==
    ASSUME GoodHeap, NEW accs \in SUBSET Accs
    PROVE  \E after \in [0 .. Len(Candidates) -> SUBSET Accs] :
              /\ after[0] = accs
              /\ \A k \in 1 .. Len(Candidates) :
                    after[k] = {Consider(acc, Candidates[k]) : acc \in after[k - 1]}
              /\ OnePass(accs) = after[Len(Candidates)]
<1> DEFINE n == Len(Candidates)
           S == SUBSET Accs
           Next1(s, k) == {Consider(acc, Candidates[k]) : acc \in s}
           step == [i \in 1 .. n |-> [s \in S |-> Next1(s, i)]]
           Solves(f) == f = [k \in 0 .. n |-> IF k = 0 THEN accs
                                             ELSE {Consider(acc, Candidates[k]) : acc \in f[k - 1]}]
<1>1. n \in Nat /\ \A k \in 1 .. n : Candidates[k] \in heap
  BY CandidatesAre
<1>2. OnePass(accs) = (CHOOSE f : Solves(f))[n]
  BY DEF OnePass
<1> HIDE DEF n
<1>3. \A i \in 1 .. n, s \in S : Next1(s, i) \in S
  BY <1>1, ConsiderIs
<1> HIDE DEF Next1
<1>4. step \in [1 .. n -> [S -> S]] /\ \A i \in 1 .. n, s \in S : step[i][s] = Next1(s, i)
  BY <1>3
<1>5. AreSteps(step, n, S, accs)
  BY <1>1, <1>4 DEF AreSteps
<1> HIDE DEF step, S
<1>6. PICK f : IsRecursion(f, step, n, S, accs)
  BY <1>5, RecursionExists
<1>7. /\ f \in [0 .. n -> S] /\ f[0] = accs
      /\ \A i \in 1 .. n : f[i] = Next1(f[i - 1], i)
  <2>1. f \in [0 .. n -> S] /\ f[0] = accs /\ \A i \in 1 .. n : f[i] = step[i][f[i - 1]]
    BY <1>6 DEF IsRecursion
  <2>2. \A i \in 1 .. n : f[i - 1] \in S
    BY <1>1, <2>1
  <2> QED
    BY <1>4, <2>1, <2>2
<1>8. Solves(f)
  <2> DEFINE g == [k \in 0 .. n |-> IF k = 0 THEN accs
                                   ELSE {Consider(acc, Candidates[k]) : acc \in f[k - 1]}]
  <2>1. \A k \in 0 .. n : f[k] = g[k]
    BY <1>1, <1>7 DEF Next1
  <2>2. g = [k \in 0 .. n |-> g[k]] /\ f = [k \in 0 .. n |-> f[k]]
    BY <1>7
  <2> HIDE DEF g
  <2>3. f = g
    BY <2>1, <2>2
  <2> QED
    BY <2>3 DEF g
<1> DEFINE after == CHOOSE h : Solves(h)
<1>9. Solves(after)
  <2> HIDE DEF Solves
  <2> QED
    BY <1>8
<1> HIDE DEF after
<1>10. after[0] = accs /\ \A k \in 1 .. n : after[k] = Next1(after[k - 1], k)
  <2>1. after = [k \in 0 .. n |-> IF k = 0 THEN accs
                                 ELSE {Consider(acc, Candidates[k]) : acc \in after[k - 1]}]
    BY <1>9
  <2> DEFINE val(k) == IF k = 0 THEN accs ELSE {Consider(acc, Candidates[k]) : acc \in after[k - 1]}
  <2>2. ASSUME NEW k \in 0 .. n PROVE after[k] = val(k)
    BY <2>1, Zenon
  <2>3. after[0] = accs
    <3>1. 0 \in 0 .. n
      BY <1>1
    <3>2. val(0) = accs
      OBVIOUS
    <3> HIDE DEF val
    <3> QED
      BY <2>2, <3>1, <3>2
  <2>4. ASSUME NEW k \in 1 .. n PROVE after[k] = Next1(after[k - 1], k)
    <3>1. k \in 0 .. n /\ k # 0
      BY <1>1
    <3> QED
      BY <2>2, <3>1 DEF Next1
  <2> QED
    BY <2>3, <2>4
<1>11. \A k \in 0 .. n : after[k] \in S
  <2> DEFINE T == {k \in 0 .. n : after[k] \in S}
  <2>1. 0 \in T
    BY <1>1, <1>10 DEF S
  <2>2. ASSUME NEW i \in 0 .. n - 1, i \in T PROVE i + 1 \in T
    <3>1. i + 1 \in 1 .. n /\ (i + 1) - 1 = i /\ i + 1 \in 0 .. n
      BY <1>1
    <3>2. after[i + 1] = Next1(after[i], i + 1)
      BY <1>10, <3>1
    <3>3. after[i] \in S
      BY <2>2
    <3>4. after[i + 1] \in S
      BY <1>3, <3>1, <3>2, <3>3
    <3> QED
      BY <3>1, <3>4
  <2> HIDE DEF T
  <2>3. 0 .. n \subseteq T
    BY <1>1, <2>1, <2>2, InductionUpTo
  <2> QED
    BY <2>3 DEF T
<1>12. after \in [0 .. n -> S]
  <2>1. after = [k \in 0 .. n |-> after[k]]
    BY <1>9
  <2> HIDE DEF Solves
  <2> QED
    BY <1>11, <2>1
<1>13. OnePass(accs) = after[n]
  BY <1>2 DEF after
<1> HIDE DEF Solves
<1> QED
  BY <1>10, <1>12, <1>13 DEF n, S, Next1

Start == [saved |-> <<>>, skip |-> FALSE, full |-> FALSE]

LEMMA StartIs == {Start} \in SUBSET Accs /\ Start.saved = <<>>
<1>1. Start \in [saved : Seq(heap), skip : BOOLEAN, full : BOOLEAN]
  BY DEF Start
<1>2. Start.saved = <<>>
  BY DEF Start
<1> QED
  BY <1>1, <1>2 DEF Accs

\* In one pass the matches are taken from the greatest to the smallest.
LEMMA OnePassDescends ==
    ASSUME GoodHeap, NEW acc \in OnePass({Start})
    PROVE  \A i, j \in DOMAIN acc.saved : i < j => Before(acc.saved[j], acc.saved[i])
<1> DEFINE n == Len(Candidates)
           C == Candidates
           Ordered(k) == {a \in Accs :
              /\ \A i \in DOMAIN a.saved : \E j \in 1 .. k : a.saved[i] = C[j]
              /\ \A i, j \in DOMAIN a.saved : i < j => Before(a.saved[j], a.saved[i])}
<1>1. PICK after \in [0 .. n -> SUBSET Accs] :
              /\ after[0] = {Start}
              /\ \A k \in 1 .. n : after[k] = {Consider(a, C[k]) : a \in after[k - 1]}
              /\ OnePass({Start}) = after[n]
  BY StartIs, OnePassIs
<1>2. /\ n \in Nat /\ \A k \in 1 .. n : C[k] \in heap
      /\ \A j, k \in 1 .. n : j < k => Before(C[k], C[j])
  BY CandidatesAre
<1> HIDE DEF n, C
<1> DEFINE T == {k \in 0 .. n : after[k] \subseteq Ordered(k)}
<1>3. 0 \in T
  <2>1. Start \in Ordered(0)
    <3>1. Start \in Accs /\ DOMAIN Start.saved = {}
      BY StartIs
    <3> QED
      BY <3>1
  <2> HIDE DEF Ordered
  <2> QED
    BY <1>1, <1>2, <2>1
<1>4. ASSUME NEW k \in 0 .. n - 1, k \in T PROVE k + 1 \in T
  <2>0. k + 1 \in 1 .. n /\ (k + 1) - 1 = k /\ k + 1 \in 0 .. n /\ k \in 0 .. n
    BY <1>2
  <2>1. ASSUME NEW a \in after[k] PROVE Consider(a, C[k + 1]) \in Ordered(k + 1)
    <3> DEFINE e == C[k + 1]
               r == Consider(a, e)
               s == a.saved
    <3>1. a \in Ordered(k)
      BY <1>4, <2>1
    <3>2. /\ a \in Accs
          /\ \A i \in DOMAIN s : \E j \in 1 .. k : s[i] = C[j]
          /\ \A i, j \in DOMAIN s : i < j => Before(s[j], s[i])
      BY <3>1
    <3>3. e \in heap
      BY <1>2, <2>0
    <3>4. r \in Accs /\ (r.saved = s \/ r.saved = Append(s, e))
      BY <3>2, <3>3, ConsiderIs
    <3>5. s \in Seq(heap)
      BY <3>2 DEF Accs
    <3> HIDE DEF r, s
    <3>6. CASE r.saved = s
      <4>1. \A i \in DOMAIN s : \E j \in 1 .. k + 1 : s[i] = C[j]
        <5>1. \A j \in 1 .. k : j \in 1 .. k + 1
          BY <2>0
        <5> QED
          BY <3>2, <5>1
      <4>2. r \in Ordered(k + 1)
        BY <3>2, <3>4, <3>6, <4>1
      <4> QED
        BY <4>2 DEF r
    <3>7. CASE r.saved = Append(s, e)
      <4> DEFINE t == Append(s, e)
      <4>1. /\ DOMAIN t = 1 .. Len(s) + 1 /\ t[Len(s) + 1] = e
            /\ Len(s) \in Nat /\ DOMAIN s = 1 .. Len(s)
            /\ \A i \in 1 .. Len(s) : t[i] = s[i]
        BY <3>5
      <4> HIDE DEF t
      <4>2. ASSUME NEW i \in DOMAIN t PROVE \E j \in 1 .. k + 1 : t[i] = C[j]
        <5>1. CASE i = Len(s) + 1
          <6>1. t[i] = C[k + 1] /\ k + 1 \in 1 .. k + 1
            BY <2>0, <4>1, <5>1
          <6> QED
            BY <6>1
        <5>2. CASE i # Len(s) + 1
          <6>1. i \in DOMAIN s /\ t[i] = s[i]
            BY <4>1, <5>2
          <6>2. PICK j \in 1 .. k : s[i] = C[j]
            BY <3>2, <6>1
          <6>3. j \in 1 .. k + 1
            BY <2>0
          <6> QED
            BY <6>1, <6>2, <6>3
        <5> QED
          BY <5>1, <5>2
      <4>3. ASSUME NEW i \in DOMAIN t, NEW j \in DOMAIN t, i < j
            PROVE  Before(t[j], t[i])
        <5>0. i \in DOMAIN s /\ t[i] = s[i]
          BY <4>1, <4>3
        <5>1. CASE j = Len(s) + 1
          <6>1. PICK l \in 1 .. k : s[i] = C[l]
            BY <3>2, <5>0
          <6>2. l \in 1 .. n /\ l < k + 1
            BY <1>2, <2>0
          <6>3. Before(C[k + 1], C[l])
            BY <1>2, <2>0, <6>2
          <6> QED
            BY <4>1, <5>0, <5>1, <6>1, <6>3
        <5>2. CASE j # Len(s) + 1
          <6>1. j \in DOMAIN s /\ t[j] = s[j]
            BY <4>1, <5>2
          <6> QED
            BY <3>2, <4>3, <5>0, <6>1
        <5> QED
          BY <5>1, <5>2
      <4>4. r.saved = t
        BY <3>7 DEF t
      <4>5. r \in Ordered(k + 1)
        BY <3>4, <4>2, <4>3, <4>4
      <4> QED
        BY <4>5 DEF r
    <3> QED
      BY <3>4, <3>6, <3>7
  <2>2. after[k + 1] = {Consider(a, C[k + 1]) : a \in after[k]}
    BY <1>1, <2>0 DEF n, C
  <2> HIDE DEF Ordered
  <2> QED
    BY <2>0, <2>1, <2>2
<1> HIDE DEF T
<1>5. 0 .. n \subseteq T
  BY <1>2, <1>3, <1>4, InductionUpTo
<1>6. n \in 0 .. n
  BY <1>2
<1>7. acc \in Ordered(n)
  BY <1>1, <1>5, <1>6 DEF T, n
<1> QED
  BY <1>7

\* What is taken are distinct entries with data, without wraps the greatest first.
LEMMA TakingsAre ==
    ASSUME GoodHeap, NEW taken \in Takings
    PROVE  /\ taken \in Seq(heap)
           /\ \A k \in DOMAIN taken : taken[k].index # 0
           /\ \A j, k \in DOMAIN taken : taken[j] = taken[k] => j = k
           /\ ~ opts.wraps => \A j, k \in DOMAIN taken : j < k => Before(taken[k], taken[j])
           /\ ~ opts.wraps => \E acc \in OnePass({Start}) : taken = acc.saved
<1> DEFINE n == Cardinality(heap)
           S == SUBSET Accs
           Wrapped(accs) == IF opts.wraps THEN {[acc EXCEPT !.skip = FALSE] : acc \in {a \in accs : a.skip}}
                            ELSE {}
           More(accs) == accs \cup OnePass(Wrapped(accs))
           Solves(f) == f = [k \in 1 .. n |->
                               IF k = 1 THEN OnePass({Start})
                               ELSE UNION {accs \cup OnePass(Wrapped(accs)) : accs \in {f[k - 1]}}]
           last == IF opts.wraps THEN n ELSE 1
           passes == CHOOSE f : Solves(f)
<1>1. n \in Nat /\ 1 \in 1 .. n
  <2>1. n \in Nat /\ n # 0
    BY FS_CardinalityType, FS_EmptySet DEF GoodHeap
  <2> QED
    BY <2>1
<1>2. PICK acc \in passes[last] : taken = acc.saved
  BY DEF Takings, Start
<1> HIDE DEF n
<1>3. ASSUME NEW accs \in S PROVE OnePass(accs) \in S
  <2>1. PICK after \in [0 .. Len(Candidates) -> SUBSET Accs] :
              OnePass(accs) = after[Len(Candidates)]
    BY <1>3, OnePassIs
  <2>2. Len(Candidates) \in 0 .. Len(Candidates)
    BY CandidatesAre
  <2> QED
    BY <2>1, <2>2
<1>4. ASSUME NEW accs \in S PROVE Wrapped(accs) \in S
  <2>1. ASSUME NEW a \in accs PROVE [a EXCEPT !.skip = FALSE] \in Accs
    <3> DEFINE Q == Seq(heap)
               B == BOOLEAN
               no == FALSE
               r == [a EXCEPT !.skip = no]
    <3>1. a \in Accs /\ a \in [saved : Q, skip : B, full : B] /\ a.saved \in Q /\ no \in B
      BY <1>4, <2>1 DEF Accs
    <3>2. r = [a EXCEPT !.skip = no]
      OBVIOUS
    <3> HIDE DEF Q, B, no, r
    <3>3. r \in [saved : Q, skip : B, full : B] /\ r.saved = a.saved
      BY <3>1, <3>2, AccsUpdated
    <3>4. r \in Accs
      BY <3>1, <3>3 DEF Accs, Q, B
    <3> QED
      BY <3>4 DEF r, no
  <2> QED
    BY <2>1
<1> HIDE DEF Wrapped
<1>5. \A accs \in S : More(accs) \in S
  BY <1>3, <1>4
<1>6. OnePass({Start}) \in S
  BY <1>3, StartIs
<1> DEFINE step == [i \in 1 .. n - 1 |-> [accs \in S |-> More(accs)]]
<1> HIDE DEF More
<1>7. step \in [1 .. n - 1 -> [S -> S]] /\ \A i \in 1 .. n - 1, accs \in S : step[i][accs] = More(accs)
  BY <1>5
<1> HIDE DEF step, S
<1>8. PICK f : IsRecursion(f, step, n - 1, S, OnePass({Start}))
  <2>1. n - 1 \in Nat
    BY <1>1
  <2>2. AreSteps(step, n - 1, S, OnePass({Start}))
    BY <1>6, <1>7, <2>1 DEF AreSteps
  <2> QED
    BY <2>2, RecursionExists
<1> DEFINE g == [k \in 1 .. n |-> f[k - 1]]
<1>9. /\ g[1] = OnePass({Start})
      /\ \A k \in 1 .. n : k # 1 => g[k] = More(g[k - 1])
  <2>1. f \in [0 .. n - 1 -> S] /\ f[0] = OnePass({Start}) /\ \A i \in 1 .. n - 1 : f[i] = step[i][f[i - 1]]
    BY <1>8 DEF IsRecursion
  <2>2. \A i \in 1 .. n - 1 : f[i - 1] \in S
    BY <1>1, <2>1
  <2>3. \A i \in 1 .. n - 1 : f[i] = More(f[i - 1])
    BY <1>7, <2>1, <2>2
  <2>4. ASSUME NEW k \in 1 .. n, k # 1 PROVE g[k] = More(g[k - 1])
    <3>1. k - 1 \in 1 .. n - 1 /\ k - 1 \in 1 .. n /\ (k - 1) - 1 \in Int
      BY <1>1, <2>4
    <3> QED
      BY <2>3, <3>1
  <2>5. g[1] = OnePass({Start})
    BY <1>1, <2>1
  <2> HIDE DEF g
  <2> QED
    BY <2>4, <2>5
<1>10. Solves(g)
  <2> DEFINE h == [k \in 1 .. n |->
                     IF k = 1 THEN OnePass({Start})
                     ELSE UNION {accs \cup OnePass(Wrapped(accs)) : accs \in {g[k - 1]}}]
  <2>1. ASSUME NEW k \in 1 .. n PROVE g[k] = h[k]
    <3>1. CASE k = 1
      BY <1>9, <3>1
    <3>2. CASE k # 1
      <4>1. UNION {accs \cup OnePass(Wrapped(accs)) : accs \in {g[k - 1]}} = More(g[k - 1])
        BY DEF More
      <4> QED
        BY <1>9, <3>2, <4>1
    <3> QED
      BY <3>1, <3>2
  <2>2. g = [k \in 1 .. n |-> g[k]] /\ h = [k \in 1 .. n |-> h[k]]
    OBVIOUS
  <2> HIDE DEF g, h
  <2>3. g = h
    BY <2>1, <2>2
  <2> QED
    BY <2>3 DEF h
<1> HIDE DEF g
<1>11. Solves(passes)
  <2> HIDE DEF Solves
  <2> QED
    BY <1>10
<1> HIDE DEF passes
<1>12. passes[1] = OnePass({Start}) /\ \A k \in 1 .. n : k # 1 => passes[k] = More(passes[k - 1])
  <2> DEFINE val(k) == IF k = 1 THEN OnePass({Start})
                       ELSE UNION {accs \cup OnePass(Wrapped(accs)) : accs \in {passes[k - 1]}}
  <2>1. passes = [k \in 1 .. n |->
                     IF k = 1 THEN OnePass({Start})
                     ELSE UNION {accs \cup OnePass(Wrapped(accs)) : accs \in {passes[k - 1]}}]
    BY <1>11
  <2>2. ASSUME NEW k \in 1 .. n PROVE passes[k] = val(k)
    BY <2>1, Zenon
  <2>3. val(1) = OnePass({Start}) /\ \A k \in 1 .. n : k # 1 => val(k) = More(passes[k - 1])
    BY DEF More
  <2> HIDE DEF val
  <2> QED
    BY <1>1, <2>2, <2>3
<1>13. \A k \in 1 .. n : passes[k] \in S
  <2> DEFINE T == {k \in 0 .. n : k = 0 \/ passes[k] \in S}
  <2>1. 0 \in T
    BY <1>1
  <2>2. ASSUME NEW i \in 0 .. n - 1, i \in T PROVE i + 1 \in T
    <3>1. i + 1 \in 1 .. n /\ (i + 1) - 1 = i /\ i + 1 \in 0 .. n
      BY <1>1
    <3>2. CASE i = 0
      <4>1. i + 1 = 1
        BY <3>2
      <4> QED
        BY <1>6, <1>12, <3>1, <4>1
    <3>3. CASE i # 0
      <4>1. passes[i] \in S /\ passes[i + 1] = More(passes[i])
        <5>1. i + 1 # 1
          BY <3>3
        <5> QED
          BY <1>12, <2>2, <3>1, <3>3, <5>1
      <4> QED
        BY <1>5, <3>1, <4>1
    <3> QED
      BY <3>2, <3>3
  <2> HIDE DEF T
  <2>3. 0 .. n \subseteq T
    BY <1>1, <2>1, <2>2, InductionUpTo
  <2>4. \A k \in 1 .. n : k \in 0 .. n /\ k # 0
    BY <1>1
  <2> QED
    BY <2>3, <2>4 DEF T
<1>14. acc \in Accs
  <2>1. last \in 1 .. n
    BY <1>1
  <2> HIDE DEF last, Solves
  <2>2. passes[last] \in S
    BY <1>13, <2>1
  <2> QED
    BY <1>2, <2>2 DEF S, passes
<1>15. ASSUME ~ opts.wraps
       PROVE  /\ acc \in OnePass({Start})
              /\ \A j, k \in DOMAIN taken : j < k => Before(taken[k], taken[j])
  <2>1. acc \in OnePass({Start})
    <3>1. last = 1
      BY <1>15
    <3> HIDE DEF last
    <3> QED
      BY <1>2, <1>12, <3>1 DEF passes
  <2> QED
    BY <1>2, <2>1, OnePassDescends
<1> QED
  BY <1>2, <1>14, <1>15 DEF Accs

-----------------------------------------------------------------------------
(* The current block, and copies within it. *)

LEMMA ConstantsAre ==
    /\ BufSize \in Nat \ {0} /\ MaxOffset \in Nat \ {0} /\ ChunkPayload \in Nat \ {0}
    /\ StatValues \in Nat \ {0}
  BY FutureLzAssumption, RecordsAssumption

\* The current block is one of the archive's, and what precedes it has been written.
LEMMA BlockIs ==
    ASSUME TypeOK, block <= archive.present, Len(backend) = Min({BlockStart, Len(archive.original)})
    PROVE  /\ block \in 1 .. Len(archive.lists)
           /\ BlockStart \in Nat /\ BlockEnd \in Nat /\ BlockStart < BlockEnd
           /\ OrigSize \in Nat /\ BlockEnd = BlockStart + OrigSize
           /\ BlockEnd <= Len(archive.original)
           /\ Len(archive.original) \in Nat
           /\ Len(backend) = BlockStart
           /\ Literals \in Seq(Byte) /\ Len(Literals) \in Nat
           /\ archive.version = "future" =>
                 /\ MatchList \in Seq(Match)
                 /\ \A k \in DOMAIN MatchList : MatchList[k] \in Match
<1>1. IsArchive(archive) /\ block \in 1 .. Len(archive.lists) + 1
  BY DEF TypeOK
<1>2. Len(archive.lists) \in Nat /\ archive.present \in 0 .. Len(archive.lists)
  BY <1>1, ArchiveShape
<1>3. block \in 1 .. Len(archive.lists)
  BY <1>1, <1>2
<1>4. /\ FirstOf(block) \in Nat /\ EndOf(archive, block) \in Nat
      /\ FirstOf(block) < EndOf(archive, block)
      /\ EndOf(archive, block) <= Len(archive.original)
      /\ Len(archive.original) \in Nat
      /\ archive.literals[block] \in Seq(Byte)
      /\ archive.version = "future" =>
           /\ archive.lists[block] \in Seq(Match)
           /\ \A k \in DOMAIN archive.lists[block] : archive.lists[block][k] \in Match
  BY <1>1, <1>3, ArchiveShape
<1>5. /\ BlockStart \in Nat /\ BlockEnd \in Nat /\ BlockStart < BlockEnd
      /\ BlockEnd <= Len(archive.original) /\ Len(archive.original) \in Nat
  BY <1>4 DEF BlockStart, BlockEnd
<1>6. OrigSize \in Nat /\ BlockEnd = BlockStart + OrigSize
  BY <1>5 DEF OrigSize
<1>7. Min({BlockStart, Len(archive.original)}) = BlockStart
  <2>1. BlockStart \in Int /\ Len(archive.original) \in Int /\ BlockStart <= Len(archive.original)
    BY <1>5
  <2> QED
    BY <2>1, LeastOfTwo
<1>8. Len(Literals) \in Nat
  BY <1>4 DEF Literals
<1> QED
  BY <1>3, <1>4, <1>5, <1>6, <1>7, <1>8 DEF Literals, MatchList

LEMMA PartOf ==
    ASSUME NEW S, NEW s \in Seq(S), NEW from \in Nat, NEW n \in Nat, from + n <= Len(s)
    PROVE  /\ SubSeq(s, from + 1, from + n) \in Seq(S)
           /\ Len(SubSeq(s, from + 1, from + n)) = n
           /\ \A i \in 1 .. n : SubSeq(s, from + 1, from + n)[i] = s[from + i]
<1>1. \A i \in from + 1 .. from + n : s[i] \in S
  BY Len(s) \in Nat
<1> DEFINE t == SubSeq(s, from + 1, from + n)
<1>2. t = [i \in 1 .. n |-> s[from + i]]
  <2>1. t = [i \in 1 .. from + n - (from + 1) + 1 |-> s[i + (from + 1) - 1]]
    OBVIOUS
  <2>2. from + n - (from + 1) + 1 = n
    OBVIOUS
  <2>3. \A i \in 1 .. n : i + (from + 1) - 1 = from + i
    OBVIOUS
  <2> QED
    BY <2>1, <2>2, <2>3
<1>3. \A i \in 1 .. n : s[from + i] \in S
  BY <1>1
<1> HIDE DEF t
<1>4. t \in Seq(S) /\ Len(t) = n /\ \A i \in 1 .. n : t[i] = s[from + i]
  <2>1. t \in [1 .. n -> S]
    BY <1>2, <1>3
  <2> QED
    BY <1>2, <2>1
<1> QED
  BY <1>4 DEF t

LEMMA Joined ==
    ASSUME NEW S, NEW s \in Seq(S), NEW t \in Seq(S)
    PROVE  /\ s \o t \in Seq(S)
           /\ Len(s) \in Nat /\ Len(t) \in Nat
           /\ Len(s \o t) = Len(s) + Len(t)
           /\ \A i \in 1 .. Len(s) : (s \o t)[i] = s[i]
           /\ \A i \in 1 .. Len(t) : (s \o t)[Len(s) + i] = t[i]
  OBVIOUS

LEMMA OverlapCopyIs ==
    ASSUME NEW S, NEW s \in Seq(S), NEW off \in Nat, NEW n \in Nat, n = 0 \/ off < Len(s)
    PROVE  /\ OverlapCopy(s, off, n) \in Seq(S)
           /\ Len(OverlapCopy(s, off, n)) = n
           /\ \A i \in 1 .. n :
                 OverlapCopy(s, off, n)[i] = s[off + 1 + ((i - 1) % (Len(s) - off))]
<1> DEFINE t == OverlapCopy(s, off, n)
<1>1. t = [i \in 1 .. n |-> s[off + 1 + ((i - 1) % (Len(s) - off))]]
  BY DEF OverlapCopy
<1>2. ASSUME NEW i \in 1 .. n PROVE s[off + 1 + ((i - 1) % (Len(s) - off))] \in S
  <2> DEFINE d == Len(s) - off
             x == i - 1
  <2>1. d \in Nat \ {0} /\ x \in Nat /\ Len(s) \in Nat /\ off + d = Len(s)
    OBVIOUS
  <2> HIDE DEF d, x
  <2>2. x % d \in 0 .. d - 1
    BY <2>1, DivMod
  <2> DEFINE y == x % d
  <2>3. y \in 0 .. d - 1
    BY <2>2
  <2> HIDE DEF y
  <2>4. off + 1 + y \in 1 .. Len(s)
    BY <2>1, <2>3
  <2>5. s[off + 1 + y] \in S
    BY <2>4
  <2> QED
    BY <2>5 DEF y, x, d
<1> HIDE DEF t
<1>3. t \in [1 .. n -> S]
  BY <1>1, <1>2
<1>4. t \in Seq(S) /\ Len(t) = n
  BY <1>3
<1> QED
  BY <1>1, <1>4 DEF t

-----------------------------------------------------------------------------
(* The I/O-LZ block decoder writes bytes only, and never past the block's end. *)

IoAccs ==
    {acc \in [ok : BOOLEAN, inPos : Nat, out : Seq(Byte)] :
        acc.inPos <= Len(Literals) /\ Len(acc.out) <= OrigSize}

IoRecord == [1 .. (IF archive.round THEN 3 ELSE 4) -> Nat]

LEMMA IoFieldsAre ==
    ASSUME TypeOK, NEW r \in IoRecord, NEW pos \in Nat
    PROVE  LET m == DecodeLzMatch(FALSE, archive.round, archive.baseLen, pos, r)
           IN /\ m.litLen \in Nat /\ m.len \in Nat /\ m.src \in Nat
              /\ m.dest = pos + m.litLen
<1> DEFINE L == archive.baseLen
           n == IF archive.round THEN 3 ELSE 4
           m == DecodeLzMatch(FALSE, archive.round, L, pos, r)
           L1 == Unit(archive.round, L)
           V == StatValues
           offset == (r[2] + (IF archive.round THEN 0 ELSE r[3] * StatValues)) * L1
           aligned == ((pos + r[1]) \div L1) * L1
           num == r[Len(r)] * L1 + L
           V2 == V * V
           x == aligned + V2 - offset
<1>1. L \in Nat \ {0} /\ archive.round \in BOOLEAN
  BY DEF TypeOK, IsArchive
<1>2. V \in Nat \ {0}
  BY ConstantsAre
<1>3. L1 \in Nat \ {0}
  BY <1>1 DEF Unit
<1>4. n \in {3, 4} /\ r \in [1 .. n -> Nat]
  BY <1>1 DEF IoRecord
<1>5. r \in Seq(Nat) /\ Len(r) = n
  BY <1>4
<1>6. r[1] \in Nat /\ r[2] \in Nat /\ r[3] \in Nat /\ r[Len(r)] \in Nat
  BY <1>4, <1>5
<1>7. m.litLen = r[1] /\ m.len = num % V /\ m.src = x % V2 /\ m.dest = pos + r[1]
  BY DEF DecodeLzMatch
<1> HIDE DEF m
<1>8. V2 \in Nat \ {0}
  BY <1>2
<1>9. num \in Nat
  <2> DEFINE p == r[Len(r)] * L1
  <2>1. p \in Nat
    BY <1>3, <1>6
  <2> HIDE DEF p, L1
  <2> QED
    BY <1>1, <2>1 DEF p
<1>10. offset \in Nat
  <2> DEFINE y == IF archive.round THEN 0 ELSE r[3] * StatValues
  <2>1. y \in Nat
    BY <1>2, <1>6
  <2> HIDE DEF y, L1
  <2>2. r[2] + y \in Nat
    BY <1>6, <2>1
  <2> DEFINE z == r[2] + y
  <2> HIDE DEF z
  <2>3. z * L1 \in Nat
    BY <1>3, <2>2 DEF z
  <2> QED
    BY <2>3 DEF z, y
<1>11. aligned \in Nat
  <2> DEFINE p == pos + r[1]
  <2>1. p \in Nat
    BY <1>6
  <2> HIDE DEF p, L1
  <2>2. p \div L1 \in Nat
    BY <1>3, <2>1, DivMod
  <2> DEFINE q == p \div L1
  <2>3. q \in Nat
    BY <2>2
  <2> HIDE DEF q
  <2>4. q * L1 \in Nat
    BY <1>3, <2>3
  <2> QED
    BY <2>4 DEF q, p
<1> HIDE DEF L, offset, aligned, V2, num, V
<1>12. x \in Int
  BY <1>8, <1>10, <1>11
<1> HIDE DEF x
<1>13. x % V2 \in Nat
  BY <1>8, <1>12
<1>14. num % V \in Nat
  BY <1>2, <1>9, DivMod
<1> QED
  BY <1>6, <1>7, <1>13, <1>14 DEF m, L

LEMMA IoMatchIs ==
    ASSUME TypeOK, block <= archive.present, Len(backend) = Min({BlockStart, Len(archive.original)}),
           NEW acc \in IoAccs, NEW r \in IoRecord
    PROVE  IoMatch(acc, r) \in IoAccs
<1> DEFINE m == DecodeLzMatch(FALSE, archive.round, archive.baseLen, BlockStart + Len(acc.out), r)
           before == acc.out \o SubSeq(Literals, acc.inPos + 1, acc.inPos + m.litLen)
           bytes == IF SourceBefore(m.src) THEN Min({m.len, BlockStart - m.src}) ELSE 0
           middle == before \o SubSeq(backend, m.src + 1, m.src + bytes)
           rest == OverlapCopy(middle, m.src + bytes - BlockStart, m.len - bytes)
           bad == \/ ~ acc.ok
                  \/ m.litLen > Len(Literals) - acc.inPos
                  \/ m.litLen + m.len > OrigSize - Len(acc.out)
                  \/ m.src >= m.dest
<1>1. /\ BlockStart \in Nat /\ Len(backend) = BlockStart /\ OrigSize \in Nat
      /\ Literals \in Seq(Byte) /\ Len(Literals) \in Nat /\ backend \in Seq(Byte)
  BY BlockIs DEF TypeOK
<1>2. /\ acc.ok \in BOOLEAN /\ acc.inPos \in Nat /\ acc.out \in Seq(Byte) /\ Len(acc.out) \in Nat
      /\ acc.inPos <= Len(Literals) /\ Len(acc.out) <= OrigSize
      /\ acc = [ok |-> acc.ok, inPos |-> acc.inPos, out |-> acc.out]
  BY DEF IoAccs
<1>3. /\ m.litLen \in Nat /\ m.len \in Nat /\ m.src \in Nat
      /\ m.dest = BlockStart + Len(acc.out) + m.litLen
  <2> DEFINE pos == BlockStart + Len(acc.out)
  <2>1. pos \in Nat
    BY <1>1, <1>2
  <2> HIDE DEF pos
  <2> DEFINE mm2 == DecodeLzMatch(FALSE, archive.round, archive.baseLen, pos, r)
  <2>2. mm2.litLen \in Nat /\ mm2.len \in Nat /\ mm2.src \in Nat /\ mm2.dest = pos + mm2.litLen
    BY <2>1, IoFieldsAre
  <2> QED
    BY <2>2 DEF pos
<1>4. IoMatch(acc, r) = IF bad THEN [acc EXCEPT !.ok = FALSE]
                        ELSE [ok |-> TRUE, inPos |-> acc.inPos + m.litLen, out |-> middle \o rest]
  BY DEF IoMatch
<1> HIDE DEF m
<1>5. CASE bad
  <2> DEFINE a == acc.out
             b == acc.inPos
             no == FALSE
             rr == [acc EXCEPT !.ok = no]
  <2>1. rr = [ok |-> no, inPos |-> b, out |-> a]
    <3> DEFINE yes == acc.ok
    <3>1. acc = [ok |-> yes, inPos |-> b, out |-> a]
      BY <1>2
    <3> HIDE DEF a, b, no, yes
    <3> QED
      BY <3>1
  <2>2. IoMatch(acc, r) = rr
    BY <1>4, <1>5
  <2>3. no \in BOOLEAN
    OBVIOUS
  <2> HIDE DEF rr, no
  <2>4. rr \in [ok : BOOLEAN, inPos : Nat, out : Seq(Byte)] /\ rr.inPos = b /\ rr.out = a
    BY <1>2, <2>1, <2>3
  <2> QED
    BY <1>2, <2>2, <2>4 DEF IoAccs
<1>6. CASE ~ bad
  <2>1. /\ m.litLen <= Len(Literals) - acc.inPos /\ m.litLen + m.len <= OrigSize - Len(acc.out)
        /\ m.src < m.dest
    <3> DEFINE a == m.litLen
               b == Len(Literals) - acc.inPos
               c == m.litLen + m.len
               d == OrigSize - Len(acc.out)
               x == m.src
               y == m.dest
    <3> DEFINE i == acc.inPos
               o == Len(acc.out)
               w == BlockStart
               n == Len(Literals)
    <3>9. a \in Nat /\ m.len \in Nat /\ x \in Nat /\ y = w + o + a /\ i \in Nat /\ o \in Nat
          /\ w \in Nat /\ n \in Nat /\ OrigSize \in Nat
      BY <1>1, <1>2, <1>3
    <3>1. a \in Int /\ b \in Int /\ c \in Int /\ d \in Int /\ x \in Int /\ y \in Int
      <4> HIDE DEF a, i, o, w, n, x, y
      <4>1. b = n - i /\ c = a + m.len /\ d = OrigSize - o
        BY DEF a, i, o, n
      <4> HIDE DEF b, c, d
      <4> QED
        BY <3>9, <4>1
    <3>2. ~ (a > b) /\ ~ (c > d) /\ ~ (x >= y)
      BY <1>6
    <3> HIDE DEF a, b, c, d, x, y
    <3>3. a <= b /\ c <= d /\ x < y
      BY <3>1, <3>2
    <3> QED
      BY <3>3 DEF a, b, c, d, x, y
  <2> HIDE DEF bad
  <2> DEFINE lits == SubSeq(Literals, acc.inPos + 1, acc.inPos + m.litLen)
  <2>2. lits \in Seq(Byte) /\ Len(lits) = m.litLen
    <3> DEFINE p == acc.inPos
               n == m.litLen
    <3>1. p \in Nat /\ n \in Nat /\ p + n <= Len(Literals)
      BY <1>1, <1>2, <1>3, <2>1
    <3> HIDE DEF p, n
    <3>2. SubSeq(Literals, p + 1, p + n) \in Seq(Byte) /\ Len(SubSeq(Literals, p + 1, p + n)) = n
      BY <1>1, <3>1, PartOf
    <3> QED
      BY <3>2 DEF p, n
  <2> HIDE DEF lits
  <2>3. before \in Seq(Byte) /\ Len(before) = Len(acc.out) + m.litLen
    <3>1. before = acc.out \o lits
      BY DEF lits
    <3> DEFINE o == acc.out
    <3>2. o \in Seq(Byte) /\ before = o \o lits
      BY <1>2, <3>1
    <3> HIDE DEF before, o
    <3>3. before \in Seq(Byte) /\ Len(before) = Len(o) + Len(lits)
      BY <2>2, <3>2, Joined
    <3> QED
      BY <2>2, <3>3 DEF o
  <2> HIDE DEF before
  <2>4. /\ bytes \in Nat /\ bytes <= m.len
        /\ m.src >= BlockStart => bytes = 0
        /\ m.src < BlockStart => bytes = m.len \/ (bytes = BlockStart - m.src /\ bytes > 0)
        /\ bytes = 0 \/ m.src + bytes <= BlockStart
    <3>1. CASE m.src >= BlockStart
      <4>1. bytes = 0
        BY <1>1, <1>3, <3>1 DEF SourceBefore
      <4> QED
        BY <1>1, <1>3, <3>1, <4>1
    <3>2. CASE m.src < BlockStart
      <4>1. bytes = Min({m.len, BlockStart - m.src})
        BY <3>2 DEF SourceBefore
      <4>2. m.len \in Int /\ BlockStart - m.src \in Int
        BY <1>1, <1>3
      <4>3. bytes = IF m.len <= BlockStart - m.src THEN m.len ELSE BlockStart - m.src
        BY <4>1, <4>2, LeastOfTwo
      <4> HIDE DEF bytes
      <4> DEFINE l == m.len
                 x == m.src
                 w == BlockStart
      <4>4. l \in Nat /\ x \in Nat /\ w \in Nat /\ x < w
            /\ bytes = IF l <= w - x THEN l ELSE w - x
        BY <1>1, <1>3, <3>2, <4>3
      <4> HIDE DEF l, x, w
      <4>5. /\ bytes \in Nat /\ bytes <= l /\ ~ (x >= w)
            /\ bytes = l \/ (bytes = w - x /\ bytes > 0)
            /\ x + bytes <= w
        BY <4>4
      <4> QED
        BY <4>5 DEF l, x, w
    <3> QED
      BY <1>1, <1>3, <3>1, <3>2
  <2> HIDE DEF bytes
  <2> DEFINE old == SubSeq(backend, m.src + 1, m.src + bytes)
  <2>5. old \in Seq(Byte) /\ Len(old) = bytes
    <3>1. CASE bytes = 0
      <4>1. m.src + bytes < m.src + 1
        BY <1>3, <3>1
      <4>2. old = <<>>
        BY <1>1, <1>3, <3>1, <4>1
      <4> HIDE DEF old
      <4> QED
        BY <3>1, <4>2
    <3>2. CASE bytes # 0
      <4> DEFINE s == m.src
      <4>1. s \in Nat /\ bytes \in Nat /\ s + bytes <= Len(backend) /\ backend \in Seq(Byte)
        BY <1>1, <1>3, <2>4, <3>2
      <4> HIDE DEF s, old
      <4>2. SubSeq(backend, s + 1, s + bytes) \in Seq(Byte)
            /\ Len(SubSeq(backend, s + 1, s + bytes)) = bytes
        BY <4>1, PartOf
      <4> QED
        BY <4>2 DEF s, old
    <3> QED
      BY <3>1, <3>2
  <2> HIDE DEF old
  <2>6. middle \in Seq(Byte) /\ Len(middle) = Len(acc.out) + m.litLen + bytes
    <3>1. middle = before \o old
      BY DEF old
    <3> HIDE DEF middle
    <3>2. middle \in Seq(Byte) /\ Len(middle) = Len(before) + Len(old)
      BY <2>3, <2>5, <3>1, Joined
    <3> QED
      BY <2>3, <2>5, <3>2
  <2> HIDE DEF middle
  <2>7. rest \in Seq(Byte) /\ Len(rest) = m.len - bytes
    <3> DEFINE off == m.src + bytes - BlockStart
               n == m.len - bytes
    <3>1. n \in Nat
      BY <1>3, <2>4
    <3>2. CASE n = 0
      <4>1. rest = <<>>
        <5>1. rest = [i \in 1 .. n |-> middle[off + 1 + ((i - 1) % (Len(middle) - off))]]
          BY DEF OverlapCopy
        <5> HIDE DEF rest, off, n
        <5> QED
          BY <3>2, <5>1
      <4> HIDE DEF rest
      <4>2. rest \in Seq(Byte) /\ Len(rest) = 0
        BY <4>1
      <4> QED
        BY <3>2, <4>2
    <3>3. CASE n # 0
      <4>1. off \in Nat /\ off < Len(middle)
        <5> DEFINE o == Len(acc.out)
                   w == BlockStart
                   l == Len(middle)
        <5>1. /\ o \in Nat /\ w \in Nat /\ m.litLen \in Nat /\ m.len \in Nat /\ m.src \in Nat
              /\ bytes \in Nat /\ bytes <= m.len /\ l = o + m.litLen + bytes
              /\ m.src < w + o + m.litLen
          BY <1>1, <1>2, <1>3, <2>1, <2>4, <2>6
        <5>2. CASE m.src >= w
          <6>1. bytes = 0
            BY <2>4, <5>2
          <6> DEFINE s == m.src
                     t == m.litLen
          <6>2. /\ o \in Nat /\ w \in Nat /\ l \in Nat /\ s \in Nat /\ t \in Nat
                /\ s >= w /\ l = o + t + bytes /\ s < w + o + t
            BY <5>1, <5>2, <6>1
          <6> HIDE DEF o, w, l, s, t
          <6>3. s + bytes - w \in Nat /\ s + bytes - w < l
            BY <6>1, <6>2
          <6> QED
            BY <6>3 DEF w, l, s
        <5>3. CASE m.src < w
          <6>1. bytes = w - m.src /\ bytes > 0
            BY <2>4, <3>3, <5>1, <5>3
          <6> HIDE DEF o, w, l
          <6>2. m.src + bytes - w = 0
            BY <5>1, <5>3, <6>1
          <6>3. 0 < l
            BY <5>1, <6>1
          <6> QED
            BY <6>2, <6>3 DEF w, l
        <5> QED
          BY <5>1, <5>2, <5>3
      <4> HIDE DEF off, n
      <4>2. OverlapCopy(middle, off, n) \in Seq(Byte) /\ Len(OverlapCopy(middle, off, n)) = n
        BY <2>6, <3>1, <4>1, OverlapCopyIs
      <4> QED
        BY <4>2 DEF off, n
    <3> QED
      BY <3>2, <3>3
  <2> HIDE DEF rest
  <2> DEFINE end == middle \o rest
             p == acc.inPos + m.litLen
  <2>8. end \in Seq(Byte) /\ Len(end) <= OrigSize
    <3>1. end \in Seq(Byte) /\ Len(end) = Len(middle) + Len(rest)
      BY <2>6, <2>7, Joined
    <3> HIDE DEF end
    <3>2. Len(end) = Len(acc.out) + m.litLen + bytes + (m.len - bytes)
      BY <2>6, <2>7, <3>1
    <3>3. Len(acc.out) \in Nat /\ m.litLen \in Nat /\ m.len \in Nat /\ bytes \in Nat /\ OrigSize \in Nat
          /\ m.litLen + m.len <= OrigSize - Len(acc.out)
      BY <1>1, <1>2, <1>3, <2>1, <2>4
    <3>4. Len(end) <= OrigSize
      <4> DEFINE a == m.litLen
                 b == m.len
                 o == Len(acc.out)
      <4>1. /\ a \in Nat /\ b \in Nat /\ o \in Nat /\ bytes \in Nat /\ OrigSize \in Nat
            /\ a + b <= OrigSize - o /\ Len(end) = o + a + bytes + (b - bytes)
        BY <3>2, <3>3
      <4> HIDE DEF a, b, o
      <4> QED
        BY <4>1
    <3> QED
      BY <3>1, <3>4
  <2>9. p \in Nat /\ p <= Len(Literals)
    <3>1. /\ acc.inPos \in Nat /\ m.litLen \in Nat /\ Len(Literals) \in Nat
          /\ m.litLen <= Len(Literals) - acc.inPos
      BY <1>1, <1>2, <1>3, <2>1
    <3> QED
      BY <3>1
  <2>10. IoMatch(acc, r) = [ok |-> TRUE, inPos |-> p, out |-> end]
    BY <1>4, <1>6 DEF bad
  <2> HIDE DEF end, p
  <2> QED
    BY <2>8, <2>9, <2>10 DEF IoAccs
<1> QED
  BY <1>5, <1>6

\* What has been decoded after k of the records.
IsIoFold(acc) ==
    /\ acc \in [0 .. Len(MatchList) -> IoAccs]
    /\ acc[0] = [ok |-> TRUE, inPos |-> 0, out |-> <<>>]
    /\ \A k \in 1 .. Len(MatchList) : acc[k] = IoMatch(acc[k - 1], MatchList[k])

LEMMA IoFoldIs ==
    ASSUME TypeOK, block <= archive.present, Len(backend) = Min({BlockStart, Len(archive.original)}),
           archive.version = "io"
    PROVE  \E acc : /\ IsIoFold(acc)
                    /\ FoldLeft(IoMatch, [ok |-> TRUE, inPos |-> 0, out |-> <<>>], MatchList)
                          = acc[Len(MatchList)]
<1> DEFINE n == Len(MatchList)
           base == [ok |-> TRUE, inPos |-> 0, out |-> <<>>]
           S == IoAccs
           step == [i \in 1 .. n |-> [v \in S |-> IoMatch(v, MatchList[i])]]
           Solves(iter) ==
              iter = [s \in SUBSET (1 .. n) |->
                   IF s = {} THEN base
                   ELSE IoMatch(iter[s \ {Greatest(s)}], MatchList[Greatest(s)])]
<1>1. n \in Nat /\ DOMAIN MatchList = 1 .. n /\ \A i \in 1 .. n : MatchList[i] \in IoRecord
  <2>1. archive.lists \in Seq(Seq(IoRecord))
    BY DEF TypeOK, IsArchive, IoRecord
  <2>2. block \in 1 .. Len(archive.lists)
    BY BlockIs
  <2>3. MatchList \in Seq(IoRecord)
    BY <2>1, <2>2 DEF MatchList
  <2> QED
    BY <2>3
<1>2. base \in S
  <2>1. /\ Len(Literals) \in Nat /\ OrigSize \in Nat
    BY BlockIs
  <2>2. base \in [ok : BOOLEAN, inPos : Nat, out : Seq(Byte)] /\ base.inPos = 0 /\ base.out = <<>>
    OBVIOUS
  <2> QED
    BY <2>1, <2>2 DEF IoAccs
<1> DEFINE folded == FoldLeft(IoMatch, base, MatchList)
<1>3. folded = (CHOOSE iter : Solves(iter))[1 .. n]
  BY <1>1 DEF FoldLeft, MapThenFoldSet, Max, Greatest
<1> HIDE DEF folded, n, base
<1>4. \A i \in 1 .. n, v \in S : IoMatch(v, MatchList[i]) \in S
  BY <1>1, IoMatchIs
<1> HIDE DEF S
<1>5. /\ step \in [1 .. n -> [S -> S]]
      /\ \A i \in 1 .. n, v \in S : step[i][v] = IoMatch(v, MatchList[i])
  BY <1>4
<1>6. PICK f : IsFold(f, step, n, S, base)
  <2>1. AreSteps(step, n, S, base)
    BY <1>1, <1>2, <1>5 DEF AreSteps
  <2> HIDE DEF step
  <2> QED
    BY <2>1, FoldExists
<1> HIDE DEF step
<1>7. \A s \in SUBSET (1 .. n) : s # {} => Greatest(s) \in s
  BY <1>1, GreatestExists DEF Greatest
<1>8. Solves(f)
  <2>1. ASSUME NEW s \in SUBSET (1 .. n), s # {}
        PROVE  step[Greatest(s)][f[s \ {Greatest(s)}]] =
                  IoMatch(f[s \ {Greatest(s)}], MatchList[Greatest(s)])
    <3>1. Greatest(s) \in 1 .. n /\ s \ {Greatest(s)} \in SUBSET (1 .. n)
      BY <1>7, <2>1
    <3>2. f[s \ {Greatest(s)}] \in S
      BY <1>6, <3>1 DEF IsFold
    <3> QED
      BY <1>5, <3>1, <3>2
  <2> DEFINE g == [s \in SUBSET (1 .. n) |->
                     IF s = {} THEN base
                     ELSE IoMatch(f[s \ {Greatest(s)}], MatchList[Greatest(s)])]
  <2>2. \A s \in SUBSET (1 .. n) : f[s] = g[s]
    BY <1>6, <2>1 DEF IsFold
  <2>3. g = [s \in SUBSET (1 .. n) |-> g[s]] /\ f = [s \in SUBSET (1 .. n) |-> f[s]]
    BY <1>6 DEF IsFold
  <2> HIDE DEF g
  <2>4. f = g
    BY <2>2, <2>3
  <2> QED
    BY <2>4 DEF g
<1>9. PICK iter : Solves(iter) /\ folded = iter[1 .. n]
  <2> HIDE DEF Solves
  <2> QED
    BY <1>3, <1>8
<1>10. iter[1 .. 0] = base
  <2>1. 1 .. 0 = {} /\ {} \in SUBSET (1 .. n)
    BY <1>1
  <2> QED
    BY <1>9, <2>1
<1>11. ASSUME NEW k \in 0 .. n - 1 PROVE iter[1 .. k + 1] = IoMatch(iter[1 .. k], MatchList[k + 1])
  <2>0. k + 1 \in Nat /\ k + 1 > 0 /\ 1 \in 1 .. k + 1 /\ k + 1 \in 1 .. n
        /\ (k + 1) - 1 = k /\ \A x \in 1 .. k + 1 : x \in 1 .. n
    BY <1>1
  <2>1. 1 .. k + 1 \in SUBSET (1 .. n) /\ 1 .. k + 1 # {}
    BY <2>0
  <2> DEFINE j == k + 1
  <2>2. Greatest(1 .. j) = j /\ (1 .. j) \ {j} = 1 .. k
    <3>1. j \in Nat /\ j > 0 /\ j - 1 = k
      BY <2>0
    <3> HIDE DEF j
    <3>2. Greatest(1 .. j) = j /\ (1 .. j) \ {j} = 1 .. j - 1
      BY <3>1, GreatestOfInterval
    <3> QED
      BY <3>1, <3>2
  <2>3. iter[1 .. j] = IoMatch(iter[(1 .. j) \ {Greatest(1 .. j)}], MatchList[Greatest(1 .. j)])
    BY <1>9, <2>1
  <2> HIDE DEF j, Solves
  <2>4. iter[1 .. j] = IoMatch(iter[1 .. k], MatchList[j])
    BY <2>2, <2>3
  <2> QED
    BY <2>4 DEF j
<1> DEFINE acc == [k \in 0 .. n |-> iter[1 .. k]]
           T == {k \in 0 .. n : iter[1 .. k] \in S}
<1> HIDE DEF Solves
<1>12. 0 .. n \subseteq T
  <2>1. 0 \in T
    BY <1>1, <1>2, <1>10
  <2>2. ASSUME NEW k \in 0 .. n - 1, k \in T PROVE k + 1 \in T
    <3>1. k + 1 \in 1 .. n /\ k + 1 \in 0 .. n
      BY <1>1
    <3>2. iter[1 .. k] \in S
      BY <2>2
    <3>3. IoMatch(iter[1 .. k], MatchList[k + 1]) \in S
      BY <1>4, <3>1, <3>2
    <3>4. iter[1 .. k + 1] \in S
      BY <1>11, <3>3
    <3> QED
      BY <3>1, <3>4
  <2> HIDE DEF T
  <2> QED
    BY <1>1, <2>1, <2>2, InductionUpTo
<1>13. acc \in [0 .. n -> S] /\ acc[0] = base /\ acc[n] = folded
  <2>1. \A k \in 0 .. n : iter[1 .. k] \in S
    BY <1>12 DEF T
  <2>2. 0 \in 0 .. n /\ n \in 0 .. n
    BY <1>1
  <2> QED
    BY <1>9, <1>10, <2>1, <2>2
<1>14. ASSUME NEW k \in 1 .. n PROVE acc[k] = IoMatch(acc[k - 1], MatchList[k])
  <2> DEFINE j == k - 1
  <2>1. j \in 0 .. n - 1 /\ j \in 0 .. n /\ k \in 0 .. n /\ j + 1 = k
    BY <1>1
  <2> HIDE DEF j
  <2>2. iter[1 .. j + 1] = IoMatch(iter[1 .. j], MatchList[j + 1])
    BY <1>11, <2>1
  <2>3. acc[k] = iter[1 .. k] /\ acc[j] = iter[1 .. j]
    BY <2>1
  <2> HIDE DEF acc
  <2>4. acc[k] = IoMatch(acc[j], MatchList[k])
    BY <2>1, <2>2, <2>3
  <2> QED
    BY <2>4 DEF j
<1> HIDE DEF acc
<1>15. IsIoFold(acc)
  BY <1>13, <1>14 DEF IsIoFold, base, n, S
<1> QED
  BY <1>13, <1>15 DEF folded, base, n

LEMMA IoFold ==
    ASSUME TypeOK, block <= archive.present, Len(backend) = Min({BlockStart, Len(archive.original)}),
           archive.version = "io"
    PROVE  FoldLeft(IoMatch, [ok |-> TRUE, inPos |-> 0, out |-> <<>>], MatchList) \in IoAccs
<1> DEFINE n == Len(MatchList)
           end == FoldLeft(IoMatch, [ok |-> TRUE, inPos |-> 0, out |-> <<>>], MatchList)
<1>1. PICK acc : IsIoFold(acc) /\ end = acc[n]
  BY IoFoldIs
<1>2. n \in Nat
  <2>1. archive.lists \in Seq(Seq(IoRecord)) /\ block \in 1 .. Len(archive.lists)
    BY BlockIs DEF TypeOK, IsArchive, IoRecord
  <2>2. MatchList \in Seq(IoRecord)
    BY <2>1 DEF MatchList
  <2> QED
    BY <2>2
<1> HIDE DEF end
<1>3. acc[n] \in IoAccs
  BY <1>1, <1>2 DEF IsIoFold
<1> QED
  BY <1>1, <1>3 DEF end

-----------------------------------------------------------------------------
(* The invariant: the initial states. *)

LEMMA JobIs ==
    ASSUME TheJob
    PROVE  /\ IsArchive(archive)
           /\ IsOptions(opts)
           /\ Len(archive.original) < MaxOffset
  BY FutureLzAssumption DEF TheJob

LEMMA BarrierIs ==
    /\ Barrier \in HeapEntry
    /\ Barrier.src = MaxOffset /\ Barrier.dest = MaxOffset /\ Barrier.len = MaxOffset
    /\ Barrier.index = 0 /\ Barrier.seq = 0
    /\ ~ IsMarkingPoint(Barrier)
  BY ConstantsAre DEF Barrier, Entry, HeapEntry, INVALID_INDEX, IsMarkingPoint

LEMMA InitIs == Init => IInv
<1> SUFFICES ASSUME Init PROVE IInv
  OBVIOUS
<1>1. TheJob
  BY DEF Init, TheJob
<1>2. IsArchive(archive) /\ IsOptions(opts)
  BY <1>1, JobIs
<1>3. Len(archive.lists) \in Nat /\ Len(archive.original) \in Nat
  BY <1>2, ArchiveShape
<1>4. heap = {Barrier} /\ seqCounter = 1 /\ pc = "read" /\ DOMAIN mm = {} /\ DOMAIN disk = {}
      /\ freeBlocks = <<>> /\ newBlock = 0 /\ block = 1 /\ backend = <<>> /\ out = <<>>
      /\ cur = 1 /\ inPos = 0
  BY DEF Init
<1>5. TypeOK
  <2>1. block \in 1 .. Len(archive.lists) + 1
    BY <1>3, <1>4
  <2>2. out \in Seq(Byte) /\ backend \in Seq(Byte) /\ heap \subseteq HeapEntry
    BY <1>4, BarrierIs
  <2>3. Range(mm) = {} /\ Range(disk) = {}
    BY <1>4 DEF Range
  <2>4. DOMAIN disk = 0 .. newBlock - 1
    BY <1>4
  <2>5. freeBlocks \in Seq(0 .. newBlock - 1)
    BY <1>4
  <2>6. {cur, inPos, seqCounter, newBlock} \subseteq Nat
    BY <1>4
  <2> QED
    BY <1>2, <1>4, <2>1, <2>2, <2>3, <2>4, <2>5, <2>6 DEF TypeOK
<1>6. HeapShape
  <2>1. IsFiniteSet(heap)
    BY <1>4, FS_Singleton
  <2> QED
    BY <1>4, <2>1, BarrierIs DEF HeapShape
<1>7. Memory
  BY <1>4, BarrierIs, FS_EmptySet DEF Memory
<1>8. Marks = {}
  BY <1>4, BarrierIs DEF Marks
<1>9. VmFile /\ MarksDue
  BY <1>4, <1>8 DEF VmFile, MarksDue
<1>10. Position
  <2>1. BlockStart = 0
    BY <1>4, StartsGrow, 1 \in Nat \ {0} DEF BlockStart
  <2>2. Min({BlockStart, Len(archive.original)}) = 0
    BY <1>3, <2>1, LeastOfTwo
  <2>3. Len(backend) = 0
    BY <1>4
  <2> QED
    BY <1>4, <2>2, <2>3 DEF Position, InABlock
<1>11. Sources
  BY <1>4 DEF Sources
<1> QED
  BY <1>1, <1>5, <1>6, <1>7, <1>9, <1>10, <1>11 DEF IInv

-----------------------------------------------------------------------------
(* The invariant: what all steps need. *)

LEMMA TypesAre ==
    ASSUME TypeOK
    PROVE  /\ IsArchive(archive) /\ IsOptions(opts)
           /\ block \in Nat \ {0} /\ Len(archive.lists) \in Nat /\ block <= Len(archive.lists) + 1
           /\ archive.present \in Nat /\ archive.present <= Len(archive.lists)
           /\ Len(archive.original) \in Nat
           /\ cur \in Nat /\ inPos \in Nat /\ seqCounter \in Nat /\ newBlock \in Nat
           /\ out \in Seq(Byte) /\ backend \in Seq(Byte)
           /\ Len(out) \in Nat /\ Len(backend) \in Nat
           /\ \A e \in heap : /\ e \in HeapEntry
                              /\ e.src \in Nat /\ e.dest \in Nat /\ e.len \in Nat
                              /\ e.index \in Nat /\ e.seq \in Nat
           /\ \A i \in DOMAIN mm : i \in Nat \ {0} /\ mm[i] \in Seq(Byte) /\ Len(mm[i]) \in Nat
           /\ DOMAIN disk = 0 .. newBlock - 1
           /\ \A v \in DOMAIN disk : disk[v] \in Seq(SpillRecord) /\ Len(disk[v]) \in Nat
           /\ freeBlocks \in Seq(0 .. newBlock - 1) /\ Len(freeBlocks) \in Nat
           /\ opts.wraps \in BOOLEAN
           /\ opts.maximumSave \in Nat \ {0} /\ opts.vmBlockSize \in Nat \ {0} /\ opts.usefulMemory \in Nat
<1>1. IsArchive(archive) /\ IsOptions(opts)
  BY DEF TypeOK
<1>2. Len(archive.lists) \in Nat /\ archive.present \in 0 .. Len(archive.lists) /\ Len(archive.original) \in Nat
  BY <1>1, ArchiveShape
<1>3. block \in Nat \ {0} /\ block <= Len(archive.lists) + 1
  BY <1>2 DEF TypeOK
<1>4. cur \in Nat /\ inPos \in Nat /\ seqCounter \in Nat /\ newBlock \in Nat
      /\ out \in Seq(Byte) /\ backend \in Seq(Byte) /\ Len(out) \in Nat /\ Len(backend) \in Nat
  BY DEF TypeOK
<1>5. \A e \in heap : /\ e \in HeapEntry
                      /\ e.src \in Nat /\ e.dest \in Nat /\ e.len \in Nat
                      /\ e.index \in Nat /\ e.seq \in Nat
  BY DEF TypeOK, HeapEntry
<1>6. ASSUME NEW i \in DOMAIN mm PROVE i \in Nat \ {0} /\ mm[i] \in Seq(Byte) /\ Len(mm[i]) \in Nat
  <2>1. i \in Nat \ {0} /\ mm[i] \in Seq(Byte)
    BY <1>6 DEF TypeOK, Range, INVALID_INDEX
  <2> QED
    BY <2>1
<1>7. ASSUME NEW v \in DOMAIN disk PROVE disk[v] \in Seq(SpillRecord) /\ Len(disk[v]) \in Nat
  <2>1. disk[v] \in Seq(SpillRecord)
    BY <1>7 DEF TypeOK, Range
  <2> QED
    BY <2>1
<1>8. DOMAIN disk = 0 .. newBlock - 1 /\ freeBlocks \in Seq(0 .. newBlock - 1)
  BY DEF TypeOK
<1>9. Len(freeBlocks) \in Nat
  BY <1>8
<1>10. /\ opts.wraps \in BOOLEAN
       /\ opts.maximumSave \in Nat \ {0} /\ opts.vmBlockSize \in Nat \ {0} /\ opts.usefulMemory \in Nat
  BY <1>1 DEF IsOptions
<1> QED
  BY <1>1, <1>2, <1>3, <1>4, <1>5, <1>6, <1>7, <1>8, <1>9, <1>10

LEMMA HeapIs ==
    ASSUME TypeOK, HeapShape
    PROVE  GoodHeap
  BY DEF TypeOK, HeapShape, GoodHeap, Distinct

LEMMA FirstDue ==
    ASSUME TypeOK, HeapShape
    PROVE  First(heap) \in heap /\ \A f \in heap : First(heap).dest <= f.dest
<1>1. heap \subseteq HeapEntry /\ Distinct(heap) /\ IsFiniteSet(heap) /\ heap # {}
  BY HeapIs DEF GoodHeap
<1> QED
  BY <1>1, FirstIs

\* While the memory is not touched, it keeps its shape.
LEMMA MemoryKept ==
    ASSUME IInv, UNCHANGED <<archive, opts, heapVars, memoryVars>>, Stuck => Stuck'
    PROVE  TheJob' /\ HeapShape' /\ Memory' /\ VmFile' /\ MarksDue'
<1>1. /\ archive' = archive /\ opts' = opts /\ heap' = heap /\ seqCounter' = seqCounter /\ mm' = mm
      /\ disk' = disk /\ freeBlocks' = freeBlocks /\ newBlock' = newBlock
  BY DEF heapVars, memoryVars
<1>2. Marks' = Marks
  BY <1>1 DEF Marks
<1>3. TheJob'
  BY <1>1 DEF IInv, TheJob
<1>4. HeapShape'
  BY <1>1 DEF IInv, HeapShape
<1>5. Memory'
  BY <1>1 DEF IInv, Memory
<1>6. VmFile'
  BY <1>1, <1>2 DEF IInv, VmFile
<1>7. MarksDue'
  BY <1>1, <1>2 DEF IInv, MarksDue
<1> QED
  BY <1>3, <1>4, <1>5, <1>6, <1>7

\* What has been decoded once stays decoded.
LEMMA SourcesKept ==
    ASSUME IInv, UNCHANGED <<opts, heap, disk>>, Running, Running',
           \A e \in heap : ~ Within(e),
           Complete \in Nat, Complete' \in Nat, Complete <= Complete'
    PROVE  Sources'
<1>1. heap' = heap /\ disk' = disk /\ opts' = opts
  OBVIOUS
<1>2. ASSUME NEW src \in Nat, NEW dest \in Nat, NEW len \in Nat, FromBefore(src, dest, len)
      PROVE  FromBefore(src, dest, len)'
  BY <1>2 DEF FromBefore
<1>3. ASSUME NEW e \in heap
      PROVE  \/ e = Barrier \/ IsMarkingPoint(e)
             \/ FromBefore(e.src, e.dest, e.len)' /\ (e.index # 0 \/ e.len >= MaximumSave')
  <2>1. \/ e = Barrier \/ IsMarkingPoint(e)
        \/ FromBefore(e.src, e.dest, e.len) /\ (e.index # 0 \/ e.len >= MaximumSave)
    BY DEF IInv, Sources
  <2>2. e.src \in Nat /\ e.dest \in Nat /\ e.len \in Nat
    BY TypesAre DEF IInv
  <2> QED
    BY <1>1, <1>2, <2>1, <2>2 DEF MaximumSave
<1>4. ASSUME NEW v \in DOMAIN disk, NEW k \in DOMAIN disk[v]
      PROVE  FromBefore(disk[v][k].src, disk[v][k].dest, Len(disk[v][k].data))'
  <2>1. FromBefore(disk[v][k].src, disk[v][k].dest, Len(disk[v][k].data))
    BY DEF IInv, Sources
  <2>2. disk[v] \in Seq(SpillRecord)
    BY TypesAre DEF IInv
  <2>3. disk[v][k] \in SpillRecord
    BY <2>2
  <2>4. disk[v][k].src \in Nat /\ disk[v][k].dest \in Nat /\ Len(disk[v][k].data) \in Nat
    BY <2>3 DEF SpillRecord
  <2> QED
    BY <1>1, <1>2, <2>1, <2>4
<1> QED
  BY <1>1, <1>3, <1>4 DEF Sources

LEMMA TypesKept ==
    ASSUME TypeOK, UNCHANGED <<archive, opts, heapVars, memoryVars>>,
           pc' \in {"read", "process", "save", "done", "spinning"} \cup Errors,
           block' \in 1 .. Len(archive.lists) + 1, cur' \in Nat, inPos' \in Nat,
           out' \in Seq(Byte), backend' \in Seq(Byte)
    PROVE  TypeOK'
<1>1. /\ archive' = archive /\ opts' = opts /\ heap' = heap /\ seqCounter' = seqCounter /\ mm' = mm
      /\ disk' = disk /\ freeBlocks' = freeBlocks /\ newBlock' = newBlock
  BY DEF heapVars, memoryVars
<1>2. {cur', inPos', seqCounter', newBlock'} \subseteq Nat
  BY <1>1 DEF TypeOK
<1> QED
  BY <1>1, <1>2 DEF TypeOK

\* BlockIs in a state of the program.
LEMMA Inside ==
    ASSUME IInv, block <= archive.present
    PROVE  /\ block \in 1 .. Len(archive.lists)
           /\ BlockStart \in Nat /\ BlockEnd \in Nat /\ BlockStart < BlockEnd
           /\ OrigSize \in Nat /\ BlockEnd = BlockStart + OrigSize
           /\ BlockEnd <= Len(archive.original)
           /\ BlockEnd < MaxOffset
           /\ Len(archive.original) \in Nat
           /\ Len(backend) = BlockStart
           /\ Literals \in Seq(Byte) /\ Len(Literals) \in Nat
           /\ archive.version = "future" =>
                 /\ MatchList \in Seq(Match)
                 /\ Len(MatchList) \in Nat /\ DOMAIN MatchList = 1 .. Len(MatchList)
                 /\ \A k \in DOMAIN MatchList :
                       /\ MatchList[k] \in Match
                       /\ MatchList[k].src \in Nat /\ MatchList[k].dest \in Nat
                       /\ MatchList[k].len \in Nat \ {0}
<1>1. TypeOK /\ Len(backend) = Min({BlockStart, Len(archive.original)})
  BY DEF IInv, Position
<1>2. /\ block \in 1 .. Len(archive.lists)
      /\ BlockStart \in Nat /\ BlockEnd \in Nat /\ BlockStart < BlockEnd
      /\ OrigSize \in Nat /\ BlockEnd = BlockStart + OrigSize
      /\ BlockEnd <= Len(archive.original)
      /\ Len(archive.original) \in Nat
      /\ Len(backend) = BlockStart
      /\ Literals \in Seq(Byte) /\ Len(Literals) \in Nat
      /\ archive.version = "future" =>
            /\ MatchList \in Seq(Match)
            /\ \A k \in DOMAIN MatchList : MatchList[k] \in Match
  BY <1>1, BlockIs
<1>3. BlockEnd < MaxOffset
  <2>1. Len(archive.original) < MaxOffset
    BY JobIs DEF IInv
  <2> QED
    BY <1>2, <2>1, ConstantsAre
<1>4. ASSUME archive.version = "future"
      PROVE  /\ Len(MatchList) \in Nat /\ DOMAIN MatchList = 1 .. Len(MatchList)
             /\ \A k \in DOMAIN MatchList :
                   /\ MatchList[k].src \in Nat /\ MatchList[k].dest \in Nat
                   /\ MatchList[k].len \in Nat \ {0}
  <2>1. Len(MatchList) \in Nat /\ DOMAIN MatchList = 1 .. Len(MatchList)
    BY <1>2, <1>4
  <2> QED
    BY <1>2, <1>4, <2>1 DEF Match
<1> QED
  BY <1>2, <1>3, <1>4

LEMMA StopStep ==
    ASSUME IInv, UNCHANGED <<archive, opts, block, backend, heapVars, memoryVars>>,
           cur' \in Nat, inPos' \in Nat, out' \in Seq(Byte),
           pc \in {"read", "process", "save"}, pc' \in {"done", "broken", "mismatch"}
    PROVE  IInv'
<1>1. TypeOK
  BY DEF IInv
<1>2. TheJob' /\ HeapShape' /\ Memory' /\ VmFile' /\ MarksDue'
  BY MemoryKept DEF Stuck
<1>3. TypeOK'
  <2>1. block \in 1 .. Len(archive.lists) + 1
    BY <1>1 DEF TypeOK
  <2> QED
    BY <1>1, <2>1, TypesAre, TypesKept DEF Errors
<1>4. Position'
  <2>1. BlockStart' = BlockStart /\ archive' = archive /\ backend' = backend
    BY DEF BlockStart
  <2> QED
    BY <2>1 DEF IInv, Position, InABlock
<1>5. Sources'
  BY DEF Sources, Running
<1> QED
  BY <1>2, <1>3, <1>4, <1>5 DEF IInv

LEMMA EndOfInputStep == IInv /\ EndOfInput => IInv'
<1> SUFFICES ASSUME IInv, EndOfInput PROVE IInv'
  OBVIOUS
<1>1. pc = "read" /\ pc' \in {"done", "broken", "mismatch"}
      /\ UNCHANGED <<archive, opts, block, cur, out, inPos, backend, heapVars, memoryVars>>
  BY DEF EndOfInput
<1>2. cur \in Nat /\ inPos \in Nat /\ out \in Seq(Byte)
  BY TypesAre DEF IInv
<1> QED
  BY <1>1, <1>2, StopStep

LEMMA IoBlockStep == IInv /\ IoBlock => IInv'
<1> SUFFICES ASSUME IInv, IoBlock PROVE IInv'
  OBVIOUS
<1> DEFINE end == FoldLeft(IoMatch, [ok |-> TRUE, inPos |-> 0, out |-> <<>>], MatchList)
           tail == SubSeq(Literals, end.inPos + 1, Len(Literals))
<1>1. pc = "read" /\ block <= archive.present /\ archive.version = "io"
      /\ UNCHANGED <<archive, opts, block, backend, heapVars, memoryVars>>
  BY DEF IoBlock, MoreBlocks
<1>2. \/ /\ Len(Literals) - end.inPos = OrigSize - Len(end.out)
         /\ out' = end.out \o tail /\ inPos' = Len(Literals) /\ cur' = Len(MatchList) + 1
         /\ pc' = "save"
      \/ pc' = "broken" /\ UNCHANGED <<out, inPos, cur>>
  BY DEF IoBlock
<1>3. TypeOK /\ Len(backend) = Min({BlockStart, Len(archive.original)})
  BY DEF IInv, Position
<1>4. end \in IoAccs
  BY <1>1, <1>3, IoFold
<1> HIDE DEF end
<1>5. CASE pc' = "broken" /\ UNCHANGED <<out, inPos, cur>>
  <2>1. cur \in Nat /\ inPos \in Nat /\ out \in Seq(Byte)
    BY <1>3, TypesAre
  <2> QED
    BY <1>1, <1>5, <2>1, StopStep
<1>6. CASE /\ Len(Literals) - end.inPos = OrigSize - Len(end.out)
           /\ out' = end.out \o tail /\ inPos' = Len(Literals) /\ cur' = Len(MatchList) + 1
           /\ pc' = "save"
  <2>1. /\ end.inPos \in Nat /\ end.out \in Seq(Byte) /\ Len(end.out) \in Nat
        /\ end.inPos <= Len(Literals)
    BY <1>4 DEF IoAccs
  <2>2. /\ BlockStart \in Nat /\ BlockEnd \in Nat /\ BlockStart < BlockEnd
        /\ OrigSize \in Nat /\ Literals \in Seq(Byte) /\ Len(Literals) \in Nat
        /\ Len(backend) = BlockStart /\ block \in 1 .. Len(archive.lists)
    BY <1>1, Inside
  <2>3. tail \in Seq(Byte) /\ Len(tail) = Len(Literals) - end.inPos
    <3> DEFINE n == Len(Literals) - end.inPos
               from == end.inPos
    <3>1. n \in Nat /\ from \in Nat /\ from + n = Len(Literals) /\ from + n <= Len(Literals)
      BY <2>1, <2>2
    <3>2. tail = SubSeq(Literals, from + 1, from + n)
      BY <3>1
    <3> HIDE DEF n, from, tail
    <3>3. tail \in Seq(Byte) /\ Len(tail) = n
      BY <2>2, <3>1, <3>2, PartOf
    <3> QED
      BY <3>3 DEF n
  <2> HIDE DEF tail
  <2>4. out' \in Seq(Byte) /\ Len(out') = OrigSize
    <3> DEFINE a == end.out
    <3>1. a \in Seq(Byte) /\ out' = a \o tail
      BY <1>6, <2>1
    <3> HIDE DEF a
    <3>2. out' \in Seq(Byte) /\ Len(out') = Len(a) + Len(tail)
      BY <2>3, <3>1, Joined
    <3>3. Len(a) \in Nat /\ Len(tail) = OrigSize - Len(a)
      BY <1>6, <2>1, <2>3 DEF a
    <3> QED
      BY <2>2, <3>2, <3>3
  <2>5. archive.lists \in Seq(Seq(IoRecord))
    BY <1>1, <1>3 DEF TypeOK, IsArchive, IoRecord
  <2>6. Len(MatchList) \in Nat
    <3>1. MatchList \in Seq(IoRecord)
      BY <2>2, <2>5 DEF MatchList
    <3> QED
      BY <3>1
  <2>7. TypeOK'
    <3>1. block \in 1 .. Len(archive.lists) + 1 /\ cur' \in Nat /\ inPos' \in Nat
      BY <1>3, <1>6, <2>2, <2>6 DEF TypeOK
    <3> QED
      BY <1>1, <1>3, <1>6, <2>4, <3>1, TypesAre, TypesKept
  <2>8. TheJob' /\ HeapShape' /\ Memory' /\ VmFile' /\ MarksDue'
    BY <1>1, MemoryKept DEF Stuck
  <2>9. /\ archive' = archive /\ block' = block /\ backend' = backend
        /\ BlockStart' = BlockStart /\ BlockEnd' = BlockEnd /\ OrigSize' = OrigSize
        /\ Literals' = Literals /\ MatchList' = MatchList
    BY <1>1 DEF BlockStart, BlockEnd, OrigSize, Literals, MatchList
  <2>10. Position'
    <3>1. cur' > Len(MatchList) /\ cur' > 0 /\ Len(out') <= OrigSize /\ inPos' <= Len(Literals)
      BY <1>6, <2>2, <2>4, <2>6
    <3> QED
      BY <1>1, <1>3, <1>6, <2>4, <2>9, <3>1 DEF Position, InABlock
  <2>11. Sources'
    <3>1. Running /\ Running' /\ \A e \in heap : ~ Within(e)
      BY <1>1, <1>6 DEF Running, Within
    <3>2. Complete = BlockStart /\ Complete' = BlockEnd
      BY <1>1, <1>6, <2>9 DEF Complete
    <3> QED
      BY <1>1, <2>2, <3>1, <3>2, SourcesKept DEF heapVars, memoryVars
  <2> QED
    BY <2>7, <2>8, <2>10, <2>11 DEF IInv
<1> QED
  BY <1>2, <1>5, <1>6

LEMMA CopyTailStep == IInv /\ CopyTail => IInv'
<1> SUFFICES ASSUME IInv, CopyTail PROVE IInv'
  OBVIOUS
<1> DEFINE tail == SubSeq(Literals, inPos + 1, Len(Literals))
<1>1. pc = "process" /\ First(heap).dest >= BlockEnd
      /\ UNCHANGED <<archive, opts, block, backend, heapVars, memoryVars>>
  BY DEF CopyTail
<1>2. \/ /\ Len(Literals) - inPos = OrigSize - Len(out)
         /\ out' = out \o tail /\ inPos' = Len(Literals) /\ cur' = 1
         /\ pc' = "save"
      \/ pc' = "broken" /\ UNCHANGED <<out, inPos, cur>>
  BY DEF CopyTail
<1>3. TypeOK /\ HeapShape /\ Position
  BY DEF IInv
<1>4. /\ cur \in Nat /\ inPos \in Nat /\ out \in Seq(Byte) /\ backend \in Seq(Byte) /\ Len(out) \in Nat
      /\ \A e \in heap : e.dest \in Nat
  BY <1>3, TypesAre
<1>5. CASE pc' = "broken" /\ UNCHANGED <<out, inPos, cur>>
  BY <1>1, <1>4, <1>5, StopStep
<1>6. CASE /\ Len(Literals) - inPos = OrigSize - Len(out)
           /\ out' = out \o tail /\ inPos' = Len(Literals) /\ cur' = 1
           /\ pc' = "save"
  <2>1. /\ block <= archive.present /\ Len(out) <= OrigSize /\ inPos <= Len(Literals)
        /\ archive.version = "future" /\ \A k \in DOMAIN MatchList : ValidRecord(k)
    BY <1>1, <1>3 DEF Position, InABlock
  <2>2. /\ BlockStart \in Nat /\ BlockEnd \in Nat /\ BlockStart < BlockEnd
        /\ OrigSize \in Nat /\ Literals \in Seq(Byte) /\ Len(Literals) \in Nat
        /\ Len(backend) = BlockStart /\ block \in 1 .. Len(archive.lists)
    BY <2>1, Inside
  <2>3. tail \in Seq(Byte) /\ Len(tail) = Len(Literals) - inPos
    <3> DEFINE n == Len(Literals) - inPos
    <3>1. n \in Nat /\ inPos + n = Len(Literals) /\ inPos + n <= Len(Literals)
      BY <1>4, <2>1, <2>2
    <3>2. tail = SubSeq(Literals, inPos + 1, inPos + n)
      BY <3>1
    <3> HIDE DEF n, tail
    <3>3. tail \in Seq(Byte) /\ Len(tail) = n
      BY <1>4, <2>2, <3>1, <3>2, PartOf
    <3> QED
      BY <3>3 DEF n
  <2> HIDE DEF tail
  <2>4. out' \in Seq(Byte) /\ Len(out') = OrigSize
    <3>1. out' \in Seq(Byte) /\ Len(out') = Len(out) + Len(tail)
      BY <1>4, <1>6, <2>3, Joined
    <3> QED
      BY <1>4, <1>6, <2>2, <2>3, <3>1
  <2>5. TypeOK'
    <3>1. block \in 1 .. Len(archive.lists) + 1 /\ cur' \in Nat /\ inPos' \in Nat
      BY <1>3, <1>6, <2>2 DEF TypeOK
    <3> QED
      BY <1>1, <1>3, <1>4, <1>6, <2>4, <3>1, TypesKept
  <2>6. TheJob' /\ HeapShape' /\ Memory' /\ VmFile' /\ MarksDue'
    BY <1>1, MemoryKept DEF Stuck
  <2>7. /\ archive' = archive /\ block' = block /\ backend' = backend
        /\ BlockStart' = BlockStart /\ BlockEnd' = BlockEnd /\ OrigSize' = OrigSize
        /\ Literals' = Literals /\ MatchList' = MatchList
        /\ \A k : ValidRecord(k)' = ValidRecord(k)
    BY <1>1 DEF BlockStart, BlockEnd, OrigSize, Literals, MatchList, ValidRecord
  <2>8. Position'
    <3>1. cur' > 0 /\ Len(out') <= OrigSize /\ inPos' <= Len(Literals) /\ archive.version # "io"
      BY <1>6, <2>1, <2>2, <2>4
    <3> QED
      BY <1>3, <1>6, <2>1, <2>4, <2>7, <3>1 DEF Position, InABlock
  <2>9. Sources'
    <3>1. Running /\ Running'
      BY <1>1, <1>6 DEF Running
    <3>2. Complete = BlockStart /\ Complete' = BlockEnd
      BY <1>1, <1>6, <2>7 DEF Complete
    <3>3. \A e \in heap : ~ Within(e)
      <4>1. First(heap) \in heap /\ \A f \in heap : First(heap).dest <= f.dest
        BY <1>3, FirstDue
      <4>2. \A e \in heap : ~ (e.dest < BlockEnd)
        BY <1>1, <1>4, <2>2, <4>1
      <4> QED
        BY <4>2 DEF Within
    <3> QED
      BY <1>1, <2>2, <3>1, <3>2, <3>3, SourcesKept DEF heapVars, memoryVars
  <2> QED
    BY <2>5, <2>6, <2>8, <2>9 DEF IInv
<1> QED
  BY <1>2, <1>5, <1>6

LEMMA SkipDoneStep == IInv /\ SkipDone => IInv'
<1> SUFFICES ASSUME IInv, SkipDone PROVE IInv'
  OBVIOUS
<1>1. pc = "save" /\ cur <= Len(MatchList) /\ cur' = cur + 1
      /\ UNCHANGED <<archive, opts, pc, block, out, inPos, backend, heapVars, memoryVars>>
  BY DEF SkipDone, ToSave
<1>2. TypeOK /\ Position
  BY DEF IInv
<1>3. /\ cur \in Nat /\ inPos \in Nat /\ out \in Seq(Byte) /\ backend \in Seq(Byte)
  BY <1>2, TypesAre
<1>4. block <= archive.present /\ cur > 0
  BY <1>1, <1>2 DEF Position, InABlock
<1>5. BlockStart \in Nat /\ BlockEnd \in Nat
  BY <1>4, Inside
<1>6. TypeOK'
  <2>1. block' \in 1 .. Len(archive.lists) + 1 /\ cur' \in Nat /\ inPos' \in Nat
        /\ pc' \in {"read", "process", "save", "done", "spinning"} \cup Errors
    BY <1>1, <1>2, <1>3 DEF TypeOK
  <2>2. out' \in Seq(Byte) /\ backend' \in Seq(Byte)
    BY <1>1, <1>3
  <2> QED
    BY <1>1, <1>2, <2>1, <2>2, TypesKept
<1>7. TheJob' /\ HeapShape' /\ Memory' /\ VmFile' /\ MarksDue'
  BY <1>1, MemoryKept DEF Stuck
<1>8. /\ archive' = archive /\ block' = block /\ backend' = backend
      /\ BlockStart' = BlockStart /\ BlockEnd' = BlockEnd /\ OrigSize' = OrigSize
      /\ Literals' = Literals /\ MatchList' = MatchList
      /\ \A k : ValidRecord(k)' = ValidRecord(k)
  BY <1>1 DEF BlockStart, BlockEnd, OrigSize, Literals, MatchList, ValidRecord
<1>9. Position'
  <2>1. archive.version # "io"
    BY <1>1, <1>2, <1>3 DEF Position
  <2>2. cur' > 0
    BY <1>1, <1>3
  <2> QED
    BY <1>1, <1>2, <1>8, <2>1, <2>2 DEF Position, InABlock
<1>10. Sources'
  <2>1. Running /\ Running' /\ \A e \in heap : ~ Within(e)
    BY <1>1 DEF Running, Within
  <2>2. Complete = BlockEnd /\ Complete' = BlockEnd
    BY <1>1, <1>8 DEF Complete
  <2> QED
    BY <1>1, <1>5, <2>1, <2>2, SourcesKept DEF heapVars, memoryVars
<1> QED
  BY <1>6, <1>7, <1>9, <1>10 DEF IInv

LEMMA WriteBlockStep == IInv /\ WriteBlock => IInv'
<1> SUFFICES ASSUME IInv, WriteBlock PROVE IInv'
  OBVIOUS
<1>1. pc = "save" /\ UNCHANGED <<archive, opts, cur, out, inPos, heapVars, memoryVars>>
  BY DEF WriteBlock
<1>2. \/ pc' = "mismatch" /\ UNCHANGED <<block, backend>>
      \/ backend' = backend \o out /\ block' = block + 1 /\ pc' = "read"
  BY DEF WriteBlock
<1>3. TypeOK /\ Position
  BY DEF IInv
<1>4. /\ cur \in Nat /\ inPos \in Nat /\ out \in Seq(Byte) /\ backend \in Seq(Byte)
      /\ block \in Nat \ {0} /\ IsArchive(archive)
  BY <1>3, TypesAre
<1>5. CASE pc' = "mismatch" /\ UNCHANGED <<block, backend>>
  BY <1>1, <1>4, <1>5, StopStep
<1>6. CASE backend' = backend \o out /\ block' = block + 1 /\ pc' = "read"
  <2>1. block <= archive.present /\ Len(out) = OrigSize
    BY <1>1, <1>3 DEF Position, InABlock
  <2>2. /\ BlockStart \in Nat /\ BlockEnd \in Nat /\ BlockStart < BlockEnd
        /\ OrigSize \in Nat /\ BlockEnd = BlockStart + OrigSize
        /\ BlockEnd <= Len(archive.original) /\ Len(archive.original) \in Nat
        /\ Len(backend) = BlockStart /\ block \in 1 .. Len(archive.lists)
    BY <2>1, Inside
  <2>3. backend' \in Seq(Byte) /\ Len(backend') = BlockEnd
    <3>1. backend' \in Seq(Byte) /\ Len(backend') = Len(backend) + Len(out)
      BY <1>4, <1>6, Joined
    <3> QED
      BY <2>1, <2>2, <3>1
  <2>4. Len(archive.lists) \in Nat
    BY <1>4, ArchiveShape
  <2>5. TypeOK'
    <3>1. block' \in 1 .. Len(archive.lists) + 1 /\ cur' \in Nat /\ inPos' \in Nat /\ out' \in Seq(Byte)
      BY <1>1, <1>4, <1>6, <2>2, <2>4
    <3> QED
      BY <1>1, <1>3, <1>6, <2>3, <3>1, TypesKept
  <2>6. TheJob' /\ HeapShape' /\ Memory' /\ VmFile' /\ MarksDue'
    BY <1>1, <1>6, MemoryKept DEF Stuck
  <2>7. /\ BlockStart' = FirstOf(block + 1) /\ BlockStart' \in Nat
        /\ BlockEnd = IF BlockStart' <= Len(archive.original) THEN BlockStart'
                      ELSE Len(archive.original)
    <3>1. BlockStart' = FirstOf(block + 1)
      BY <1>6 DEF BlockStart
    <3>2. BlockEnd = IF FirstOf(block + 1) <= Len(archive.original) THEN FirstOf(block + 1)
                     ELSE Len(archive.original)
      BY <1>4, <2>2, ArchiveShape DEF BlockEnd
    <3>3. FirstOf(block + 1) \in Nat
      BY <1>4, StartsGrow, block + 1 \in Nat \ {0}
    <3> QED
      BY <3>1, <3>2, <3>3
  <2>8. Position'
    <3>1. BlockStart' \in Int /\ Len(archive.original) \in Int
      BY <2>2, <2>7
    <3>2. Min({BlockStart', Len(archive.original)}) = BlockEnd
      <4> DEFINE s == BlockStart'
                 n == Len(archive.original)
      <4>1. s \in Int /\ n \in Int /\ BlockEnd = IF s <= n THEN s ELSE n
        BY <2>7, <3>1
      <4> HIDE DEF s, n
      <4>2. Min({s, n}) = IF s <= n THEN s ELSE n
        BY <4>1, LeastOfTwo
      <4> QED
        BY <4>1, <4>2 DEF s, n
    <3> QED
      BY <1>1, <1>6, <2>3, <3>2 DEF Position, InABlock
  <2>9. Sources'
    <3>1. Running /\ Running' /\ \A e \in heap : ~ Within(e)
      BY <1>1, <1>6 DEF Running, Within
    <3>2. Complete = BlockEnd /\ Complete' = BlockStart'
      BY <1>1, <1>6 DEF Complete
    <3>3. BlockEnd <= BlockStart'
      BY <2>2, <2>7
    <3> QED
      BY <1>1, <2>2, <2>7, <3>1, <3>2, <3>3, SourcesKept DEF heapVars, memoryVars
  <2> QED
    BY <2>5, <2>6, <2>8, <2>9 DEF IInv
<1> QED
  BY <1>2, <1>5, <1>6

-----------------------------------------------------------------------------
(* The invariant: entries without data join the heap. *)

LEMMA NumberRanks ==
    ASSUME NEW S, S \subseteq Nat, IsFiniteSet(S)
    PROVE  /\ Cardinality(S) \in Nat
           /\ \A k \in S : /\ Cardinality({j \in S : j < k}) \in Nat
                           /\ Cardinality({j \in S : j < k}) < Cardinality(S)
           /\ \A j, k \in S :
                 Cardinality({i \in S : i < j}) = Cardinality({i \in S : i < k}) => j = k
<1> DEFINE R == NumberOrder(S)
           rank(k) == Cardinality({j \in S : j < k})
<1>1. IsOrder(R, S) /\ \A x, y \in S : <<x, y>> \in R <=> x < y
  BY DEF IsOrder, NumberOrder
<1>2. \A k \in S : Below(R, S, k) = {j \in S : j < k}
  BY <1>1 DEF Below
<1>3. Cardinality(S) \in Nat
  BY FS_CardinalityType
<1> HIDE DEF R
<1>4. ASSUME NEW k \in S
      PROVE  rank(k) \in Nat /\ rank(k) < Cardinality(S)
  <2> DEFINE B == {j \in S : j < k}
  <2>1. B \subseteq S \ {k}
    OBVIOUS
  <2>2. IsFiniteSet(S \ {k}) /\ Cardinality(S \ {k}) = Cardinality(S) - 1
    BY FS_RemoveElement
  <2>3. IsFiniteSet(B) /\ Cardinality(B) <= Cardinality(S \ {k})
    BY <2>1, <2>2, FS_Subset
  <2>4. Cardinality(B) \in Nat
    BY <2>3, FS_CardinalityType
  <2> HIDE DEF B
  <2>5. Cardinality(B) < Cardinality(S)
    BY <1>3, <2>2, <2>3, <2>4
  <2> QED
    BY <2>4, <2>5 DEF B
<1>5. ASSUME NEW j \in S, NEW k \in S, rank(j) = rank(k)
      PROVE  j = k
  <2>1. ASSUME NEW x \in S, NEW y \in S, x < y PROVE rank(x) < rank(y)
    <3>1. Cardinality(Below(R, S, x)) < Cardinality(Below(R, S, y))
      BY <1>1, <2>1, RanksGrow
    <3> QED
      BY <1>2, <3>1
  <2>2. rank(j) \in Nat /\ rank(k) \in Nat /\ j \in Nat /\ k \in Nat
    BY <1>4
  <2> HIDE DEF rank
  <2>3. ~ (j < k) /\ ~ (k < j)
    BY <1>5, <2>1, <2>2
  <2> QED
    BY <2>2, <2>3
<1> QED
  BY <1>3, <1>4, <1>5

\* The entries of E, none of them a mark, have new sequence numbers.
NewEntries(E, next) ==
    /\ IsFiniteSet(E)
    /\ E \subseteq HeapEntry
    /\ Distinct(E)
    /\ \A e \in E : e.len > 0 /\ seqCounter <= e.seq /\ e.seq < next
    /\ next \in Nat /\ seqCounter <= next

LEMMA HeapGrows ==
    ASSUME TypeOK, HeapShape, NEW E, NEW next, NewEntries(E, next),
           heap' = heap \cup E, seqCounter' = next
    PROVE  HeapShape' /\ heap' \subseteq HeapEntry /\ Marks' = Marks
<1>1. IsFiniteSet(heap')
  BY FS_Union DEF HeapShape, NewEntries
<1>2. heap' \subseteq HeapEntry
  BY DEF NewEntries, TypeOK
<1>3. seqCounter \in Nat /\ \A e \in heap : e.seq \in Nat /\ e.seq < seqCounter
  BY TypesAre DEF HeapShape
<1>4. \A e \in E : e.seq \in Nat /\ e.len \in Nat /\ e.len > 0 /\ seqCounter <= e.seq /\ e.seq < next
  BY DEF NewEntries, HeapEntry
<1>5. next \in Nat /\ seqCounter <= next
  BY DEF NewEntries
<1>6. \A e \in heap' : e.seq < seqCounter'
  <2>1. \A e \in heap : e.seq < next
    BY <1>3, <1>5
  <2> QED
    BY <1>4, <2>1
<1>7. ASSUME NEW e \in heap', NEW f \in heap', e.seq = f.seq PROVE e = f
  <2>1. CASE e \in heap /\ f \in heap
    BY <1>7, <2>1 DEF HeapShape
  <2>2. CASE e \in E /\ f \in E
    BY <1>7, <2>2 DEF NewEntries, Distinct
  <2>3. CASE e \in heap /\ f \in E
    BY <1>3, <1>4, <1>7, <2>3
  <2>4. CASE e \in E /\ f \in heap
    BY <1>3, <1>4, <1>7, <2>4
  <2> QED
    BY <2>1, <2>2, <2>3, <2>4
<1>8. Barrier \in heap'
  BY DEF HeapShape
<1>9. Marks' = Marks
  BY <1>4 DEF Marks, IsMarkingPoint
<1> QED
  BY <1>1, <1>2, <1>6, <1>7, <1>8, <1>9 DEF HeapShape

LEMMA PlainEntriesJoin ==
    ASSUME IInv, NEW E, NEW next, NewEntries(E, next), \A e \in E : e.index = 0,
           heap' = heap \cup E, seqCounter' = next, ~ Stuck, ~ Stuck',
           UNCHANGED <<archive, opts, memoryVars>>
    PROVE  TheJob' /\ HeapShape' /\ Memory' /\ VmFile' /\ MarksDue' /\ heap' \subseteq HeapEntry
<1>1. /\ archive' = archive /\ opts' = opts /\ mm' = mm
      /\ disk' = disk /\ freeBlocks' = freeBlocks /\ newBlock' = newBlock
  BY DEF memoryVars
<1>2. HeapShape' /\ heap' \subseteq HeapEntry /\ Marks' = Marks
  BY HeapGrows DEF IInv
<1>3. TheJob'
  BY <1>1 DEF IInv, TheJob
<1>4. Memory'
  <2>1. Memory
    BY DEF IInv
  <2>2. ASSUME NEW e \in heap', e.index # 0 PROVE e \in heap
    BY <2>2
  <2>3. IsFiniteSet(DOMAIN mm')
    BY <1>1, <2>1 DEF Memory
  <2>4. ASSUME NEW e \in heap', e.index # 0
        PROVE  e.index \in DOMAIN mm' /\ Len(mm'[e.index]) = e.len /\ e.len > 0
    BY <1>1, <2>1, <2>2, <2>4 DEF Memory
  <2>5. \A i \in DOMAIN mm' : \E e \in heap' : e.index = i
    BY <1>1, <2>1 DEF Memory
  <2>6. ASSUME NEW e \in heap', NEW f \in heap', e.index # 0, e.index = f.index PROVE e = f
    BY <2>1, <2>2, <2>6 DEF Memory
  <2> QED
    BY <2>3, <2>4, <2>5, <2>6 DEF Memory
<1>5. VmFile'
  BY <1>1, <1>2 DEF IInv, VmFile
<1>6. MarksDue'
  BY <1>1, <1>2 DEF IInv, MarksDue
<1> QED
  BY <1>2, <1>3, <1>4, <1>5, <1>6

\* The sources of a valid list lie in the block.
LEMMA SourcesInBlock ==
    ASSUME IInv, block <= archive.present, archive.version = "future",
           \A k \in DOMAIN MatchList : ValidRecord(k)
    PROVE  \A k \in DOMAIN MatchList :
              /\ BlockStart <= MatchList[k].src
              /\ MatchList[k].src + MatchList[k].len <= BlockEnd
              /\ MatchList[k].src < MatchList[k].dest
<1> DEFINE n == Len(MatchList)
           T == {k \in 0 .. n : k = 0 \/ BlockStart <= MatchList[k].src}
<1>1. /\ BlockStart \in Nat /\ n \in Nat /\ DOMAIN MatchList = 1 .. n
      /\ \A k \in 1 .. n : MatchList[k].src \in Nat /\ MatchList[k].dest \in Nat
  BY Inside
<1> HIDE DEF n
<1>2. 0 \in T
  BY <1>1
<1>3. ASSUME NEW i \in 0 .. n - 1, i \in T PROVE i + 1 \in T
  <2>1. i + 1 \in 1 .. n /\ (i + 1) - 1 = i /\ i + 1 \in 0 .. n
    BY <1>1
  <2>2. ValidRecord(i + 1)
    BY <1>1, <2>1
  <2>3. MatchList[i + 1].src >= IF i + 1 = 1 THEN BlockStart ELSE MatchList[(i + 1) - 1].src
    BY <2>2 DEF ValidRecord
  <2>4. CASE i = 0
    BY <1>1, <2>1, <2>3, <2>4
  <2>5. CASE i # 0
    <3>1. i \in 1 .. n /\ BlockStart <= MatchList[i].src /\ i + 1 # 1
      BY <1>1, <1>3, <2>5
    <3>2. MatchList[i + 1].src >= MatchList[i].src
      BY <2>1, <2>3, <3>1
    <3>3. BlockStart <= MatchList[i + 1].src
      BY <1>1, <2>1, <3>1, <3>2
    <3> QED
      BY <2>1, <3>3
  <2> QED
    BY <2>4, <2>5
<1> HIDE DEF T
<1>4. 0 .. n \subseteq T
  BY <1>1, <1>2, <1>3, InductionUpTo
<1>5. ASSUME NEW k \in 1 .. n PROVE BlockStart <= MatchList[k].src
  <2>1. k \in 0 .. n /\ k # 0
    BY <1>1
  <2> QED
    BY <1>4, <2>1 DEF T
<1>6. ASSUME NEW k \in 1 .. n
      PROVE  MatchList[k].src + MatchList[k].len <= BlockEnd /\ MatchList[k].src < MatchList[k].dest
  <2>1. ValidRecord(k)
    BY <1>1
  <2> QED
    BY <1>1, <2>1 DEF ValidRecord
<1> QED
  BY <1>1, <1>5, <1>6

LEMMA ReadBlockStep == IInv /\ ReadBlock => IInv'
<1> SUFFICES ASSUME IInv, ReadBlock PROVE IInv'
  OBVIOUS
<1> DEFINE rank(k) == Cardinality({j \in InBlock : j < k})
           new(k) == Entry(MatchList[k].src, MatchList[k].dest, MatchList[k].len, INVALID_INDEX,
                           seqCounter + rank(k))
           E == {new(k) : k \in InBlock}
           next == seqCounter + Cardinality(InBlock)
<1>1. /\ pc = "read" /\ block <= archive.present /\ archive.version = "future"
      /\ out' = <<>> /\ inPos' = 0
      /\ UNCHANGED <<archive, opts, block, cur, backend, memoryVars>>
  BY DEF ReadBlock, MoreBlocks
<1>2. \/ /\ \A k \in DOMAIN MatchList : ValidRecord(k)
         /\ heap' = heap \cup E /\ seqCounter' = next /\ pc' = "process"
      \/ pc' = "broken" /\ UNCHANGED heapVars
  BY DEF ReadBlock
<1>3. TypeOK /\ HeapShape /\ Position /\ Sources
  BY DEF IInv
<1>4. /\ cur \in Nat /\ backend \in Seq(Byte) /\ seqCounter \in Nat
  BY <1>3, TypesAre
<1>5. CASE pc' = "broken" /\ UNCHANGED heapVars
  <2>1. cur' \in Nat /\ inPos' \in Nat /\ out' \in Seq(Byte)
    BY <1>1, <1>4
  <2> QED
    BY <1>1, <1>5, <2>1, StopStep
<1>6. CASE /\ \A k \in DOMAIN MatchList : ValidRecord(k)
           /\ heap' = heap \cup E /\ seqCounter' = next /\ pc' = "process"
  <2>1. /\ BlockStart \in Nat /\ BlockEnd \in Nat /\ OrigSize \in Nat
        /\ Len(Literals) \in Nat /\ block \in 1 .. Len(archive.lists)
        /\ Len(MatchList) \in Nat /\ DOMAIN MatchList = 1 .. Len(MatchList)
        /\ \A k \in DOMAIN MatchList :
              /\ MatchList[k].src \in Nat /\ MatchList[k].dest \in Nat
              /\ MatchList[k].len \in Nat \ {0}
    BY <1>1, Inside
  <2>2. InBlock \subseteq Nat /\ IsFiniteSet(InBlock) /\ InBlock \subseteq DOMAIN MatchList
    <3>1. IsFiniteSet(DOMAIN MatchList)
      BY <2>1, FS_Interval
    <3>2. InBlock \subseteq DOMAIN MatchList
      BY DEF InBlock
    <3>3. IsFiniteSet(InBlock)
      BY <3>1, <3>2, FS_Subset
    <3>4. DOMAIN MatchList \subseteq Nat
      BY <2>1
    <3> QED
      BY <3>2, <3>3, <3>4
  <2>3. /\ Cardinality(InBlock) \in Nat
        /\ \A k \in InBlock : rank(k) \in Nat /\ rank(k) < Cardinality(InBlock)
        /\ \A j, k \in InBlock : rank(j) = rank(k) => j = k
    BY <2>2, NumberRanks
  <2> HIDE DEF rank
  <2>4. ASSUME NEW k \in InBlock
        PROVE  /\ new(k) \in HeapEntry
               /\ new(k).src = MatchList[k].src /\ new(k).dest = MatchList[k].dest
               /\ new(k).len = MatchList[k].len /\ new(k).index = 0
               /\ new(k).seq = seqCounter + rank(k)
    <3>9. k \in DOMAIN MatchList
      BY <2>2
    <3>0. seqCounter + rank(k) \in Nat
      BY <1>4, <2>3
    <3>1. /\ MatchList[k].src \in Nat /\ MatchList[k].dest \in Nat /\ MatchList[k].len \in Nat
          /\ seqCounter + rank(k) \in Nat /\ INVALID_INDEX \in Nat
      BY <2>1, <3>0, <3>9 DEF INVALID_INDEX
    <3> DEFINE sr == MatchList[k].src
               de == MatchList[k].dest
               le == MatchList[k].len
               se == seqCounter + rank(k)
               ix == INVALID_INDEX
    <3>2. sr \in Nat /\ de \in Nat /\ le \in Nat /\ se \in Nat /\ ix \in Nat
      BY <3>1
    <3>3. new(k) = Entry(sr, de, le, ix, se)
      OBVIOUS
    <3>4. ix = 0
      BY DEF INVALID_INDEX
    <3> HIDE DEF sr, de, le, se, ix, new
    <3>5. /\ new(k) \in HeapEntry /\ new(k).src = sr /\ new(k).dest = de
          /\ new(k).len = le /\ new(k).index = ix /\ new(k).seq = se
      BY <3>2, <3>3 DEF Entry, HeapEntry
    <3> QED
      BY <3>4, <3>5 DEF sr, de, le, se
  <2> HIDE DEF new
  <2>5. NewEntries(E, next)
    <3>1. IsFiniteSet(E)
      <4> DEFINE f == [k \in InBlock |-> new(k)]
      <4>1. E = {f[k] : k \in InBlock}
        OBVIOUS
      <4>2. IsFiniteSet({f[k] : k \in InBlock})
        <5> HIDE DEF f
        <5> QED
          BY <2>2, FiniteImage
      <4> QED
        BY <4>1, <4>2
    <3>2. E \subseteq HeapEntry
      BY <2>4
    <3>3. ASSUME NEW e \in E, NEW f \in E, e.seq = f.seq PROVE e = f
      <4>1. PICK j \in InBlock : e = new(j)
        OBVIOUS
      <4>2. PICK k \in InBlock : f = new(k)
        OBVIOUS
      <4>3. seqCounter + rank(j) = seqCounter + rank(k)
        BY <2>4, <3>3, <4>1, <4>2
      <4>4. rank(j) = rank(k)
        BY <1>4, <2>3, <4>3
      <4>5. j = k
        BY <2>3, <4>4
      <4> QED
        BY <4>1, <4>2, <4>5
    <3>4. ASSUME NEW e \in E PROVE e.len > 0 /\ seqCounter <= e.seq /\ e.seq < next
      <4>1. PICK k \in InBlock : e = new(k)
        OBVIOUS
      <4>2. e.len = MatchList[k].len /\ e.seq = seqCounter + rank(k)
        BY <2>4, <4>1
      <4>3. MatchList[k].len \in Nat \ {0}
        BY <2>1, <2>2
      <4> QED
        BY <1>4, <2>3, <4>2, <4>3
    <3>5. next \in Nat /\ seqCounter <= next
      BY <1>4, <2>3
    <3> HIDE DEF E, next
    <3> QED
      BY <3>1, <3>2, <3>3, <3>4, <3>5 DEF NewEntries, Distinct
  <2>6. \A e \in E : e.index = 0
    BY <2>4
  <2> HIDE DEF next
  <2>7. TheJob' /\ HeapShape' /\ Memory' /\ VmFile' /\ MarksDue' /\ heap' \subseteq HeapEntry
    <3> HIDE DEF E
    <3> QED
      BY <1>1, <1>6, <2>5, <2>6, PlainEntriesJoin DEF Stuck
  <2>8. next \in Nat
    BY <2>5 DEF NewEntries
  <2>9. TypeOK'
    <3>1. {cur', inPos', seqCounter', newBlock'} \subseteq Nat
      BY <1>1, <1>3, <1>4, <1>6, <2>8 DEF TypeOK, memoryVars
    <3> QED
      BY <1>1, <1>3, <1>6, <2>7, <3>1 DEF TypeOK, memoryVars
  <2>10. /\ archive' = archive /\ block' = block /\ backend' = backend
         /\ BlockStart' = BlockStart /\ BlockEnd' = BlockEnd /\ OrigSize' = OrigSize
         /\ Literals' = Literals /\ MatchList' = MatchList /\ MaximumSave' = MaximumSave
         /\ disk' = disk
         /\ \A k : ValidRecord(k)' = ValidRecord(k)
    BY <1>1 DEF BlockStart, BlockEnd, OrigSize, Literals, MatchList, ValidRecord, MaximumSave, memoryVars
  <2>11. Position'
    <3>1. Len(out') = 0 /\ Len(out') <= OrigSize /\ inPos' <= Len(Literals)
      BY <1>1, <2>1
    <3> QED
      BY <1>1, <1>3, <1>6, <2>10, <3>1 DEF Position, InABlock
  <2>12. Sources'
    <3>1. Complete = BlockStart /\ Complete' = BlockStart
      BY <1>1, <1>6, <2>10 DEF Complete
    <3>2. \A s, d, l : FromBefore(s, d, l)' = FromBefore(s, d, l)
      BY <3>1 DEF FromBefore
    <3>3. ASSUME NEW e \in heap
          PROVE  \/ e = Barrier \/ IsMarkingPoint(e)
                 \/ FromBefore(e.src, e.dest, e.len) /\ (e.index # 0 \/ e.len >= MaximumSave)
      BY <1>1, <1>3 DEF Sources, Running, Within
    <3>4. ASSUME NEW e \in E PROVE Within(e)'
      <4>1. PICK k \in InBlock : e = new(k)
        OBVIOUS
      <4>2. e.src = MatchList[k].src /\ e.dest = MatchList[k].dest /\ e.len = MatchList[k].len /\ e.index = 0
        BY <2>4, <4>1
      <4>3. /\ BlockStart <= MatchList[k].src
            /\ MatchList[k].src + MatchList[k].len <= BlockEnd
            /\ MatchList[k].src < MatchList[k].dest
        BY <1>1, <1>6, <2>2, SourcesInBlock
      <4>4. MatchList[k].dest < BlockEnd
        BY DEF InBlock, CopiedHere
      <4> QED
        BY <1>6, <2>10, <4>2, <4>3, <4>4 DEF Within
    <3>5. \A v \in DOMAIN disk : \A k \in DOMAIN disk[v] :
              FromBefore(disk[v][k].src, disk[v][k].dest, Len(disk[v][k].data))
      BY <1>1, <1>3 DEF Sources, Running
    <3> HIDE DEF E
    <3> QED
      BY <1>6, <2>10, <3>2, <3>3, <3>4, <3>5 DEF Sources
  <2> QED
    BY <2>7, <2>9, <2>11, <2>12 DEF IInv
<1> QED
  BY <1>2, <1>5, <1>6

\* The record that phase 3 has come to.
LEMMA NextRecord ==
    ASSUME IInv, ToSave
    PROVE  LET r == MatchList[cur]
           IN /\ archive.version = "future" /\ block <= archive.present
              /\ cur \in Nat /\ cur > 0 /\ cur \in DOMAIN MatchList
              /\ r.src \in Nat /\ r.dest \in Nat /\ r.len \in Nat \ {0}
              /\ BlockStart \in Nat /\ BlockEnd \in Nat /\ BlockEnd = BlockStart + OrigSize
              /\ BlockStart <= r.src /\ r.src + r.len <= BlockEnd /\ r.src < r.dest
<1> DEFINE r == MatchList[cur]
<1>1. TypeOK /\ Position /\ pc = "save" /\ cur <= Len(MatchList)
  BY DEF IInv, ToSave
<1>2. cur \in Nat /\ archive.version \in {"io", "future"}
  BY <1>1, TypesAre DEF IsArchive
<1>3. block <= archive.present /\ cur > 0
  BY <1>1 DEF Position, InABlock
<1>4. archive.version = "future"
  <2>1. archive.version # "io" \/ cur > Len(MatchList)
    BY <1>1 DEF Position
  <2>2. archive.lists \in Seq(Seq(IF archive.version = "future" THEN Match ELSE IoRecord))
    BY <1>1 DEF TypeOK, IsArchive, IoRecord
  <2>3. Len(MatchList) \in Nat
    <3>1. block \in 1 .. Len(archive.lists)
      BY <1>3, Inside
    <3>2. MatchList \in Seq(IF archive.version = "future" THEN Match ELSE IoRecord)
      BY <2>2, <3>1 DEF MatchList
    <3> QED
      BY <3>2
  <2> QED
    BY <1>1, <1>2, <2>1, <2>3
<1>5. /\ BlockStart \in Nat /\ BlockEnd \in Nat /\ BlockEnd = BlockStart + OrigSize
      /\ Len(MatchList) \in Nat /\ DOMAIN MatchList = 1 .. Len(MatchList)
      /\ \A k \in DOMAIN MatchList :
            /\ MatchList[k].src \in Nat /\ MatchList[k].dest \in Nat
            /\ MatchList[k].len \in Nat \ {0}
  BY <1>3, <1>4, Inside
<1>6. cur \in DOMAIN MatchList
  BY <1>1, <1>2, <1>3, <1>5
<1>7. \A k \in DOMAIN MatchList : ValidRecord(k)
  BY <1>1, <1>4 DEF Position, InABlock
<1>8. BlockStart <= r.src /\ r.src + r.len <= BlockEnd /\ r.src < r.dest
  BY <1>3, <1>4, <1>6, <1>7, SourcesInBlock
<1> QED
  BY <1>2, <1>3, <1>4, <1>5, <1>6, <1>8

LEMMA RememberLongStep == IInv /\ RememberLong => IInv'
<1> SUFFICES ASSUME IInv, RememberLong PROVE IInv'
  OBVIOUS
<1> DEFINE r == MatchList[cur]
           e == Entry(r.src, r.dest, r.len, INVALID_INDEX, seqCounter)
           E == {e}
           next == seqCounter + 1
<1>1. /\ pc = "save" /\ cur <= Len(MatchList) /\ r.len >= MaximumSave
      /\ heap' = heap \cup E /\ seqCounter' = next /\ cur' = cur + 1
      /\ UNCHANGED <<archive, opts, pc, block, out, inPos, backend, memoryVars>>
  BY DEF RememberLong, ToSave, InsertNext
<1>2. TypeOK /\ HeapShape /\ Position /\ Sources
  BY DEF IInv
<1>3. /\ cur \in Nat /\ backend \in Seq(Byte) /\ seqCounter \in Nat /\ archive.version \in {"io", "future"}
  BY <1>2, TypesAre DEF IsArchive
<1>4. block <= archive.present /\ cur > 0
  BY <1>1, NextRecord DEF ToSave
<1>5. archive.version = "future"
  BY <1>1, NextRecord DEF ToSave
<1>6. /\ BlockStart \in Nat /\ BlockEnd \in Nat
      /\ r.src \in Nat /\ r.dest \in Nat /\ r.len \in Nat \ {0}
  BY <1>1, NextRecord DEF ToSave
<1>7. e \in HeapEntry /\ e.src = r.src /\ e.dest = r.dest /\ e.len = r.len /\ e.index = 0
      /\ e.seq = seqCounter
  <2> DEFINE sr == r.src
             de == r.dest
             le == r.len
             ix == INVALID_INDEX
  <2>1. sr \in Nat /\ de \in Nat /\ le \in Nat /\ seqCounter \in Nat /\ ix \in Nat
    BY <1>3, <1>6 DEF INVALID_INDEX
  <2>2. e = Entry(sr, de, le, ix, seqCounter)
    OBVIOUS
  <2>3. ix = 0
    BY DEF INVALID_INDEX
  <2> HIDE DEF sr, de, le, ix, e
  <2>4. /\ e \in HeapEntry /\ e.src = sr /\ e.dest = de
        /\ e.len = le /\ e.index = ix /\ e.seq = seqCounter
    BY <2>1, <2>2 DEF Entry, HeapEntry
  <2> QED
    BY <2>3, <2>4 DEF sr, de, le
<1>8. r.src < r.dest /\ r.src + r.len <= BlockEnd
  BY <1>1, NextRecord DEF ToSave
<1> HIDE DEF e, r
<1>9. NewEntries(E, next) /\ \A f \in E : f.index = 0
  <2>1. IsFiniteSet(E)
    BY FS_Singleton
  <2> QED
    BY <1>3, <1>6, <1>7, <2>1 DEF NewEntries, Distinct
<1>10. TheJob' /\ HeapShape' /\ Memory' /\ VmFile' /\ MarksDue' /\ heap' \subseteq HeapEntry
  <2> HIDE DEF E, next
  <2> QED
    BY <1>1, <1>9, PlainEntriesJoin DEF Stuck
<1>11. TypeOK'
  <2>1. {cur', inPos', seqCounter', newBlock'} \subseteq Nat
    BY <1>1, <1>2, <1>3 DEF TypeOK, memoryVars
  <2> QED
    BY <1>1, <1>2, <1>10, <2>1 DEF TypeOK, memoryVars
<1>12. /\ archive' = archive /\ block' = block /\ backend' = backend /\ opts' = opts
       /\ BlockStart' = BlockStart /\ BlockEnd' = BlockEnd /\ OrigSize' = OrigSize
       /\ Literals' = Literals /\ MatchList' = MatchList /\ MaximumSave' = MaximumSave
       /\ disk' = disk /\ pc' = pc
       /\ \A k : ValidRecord(k)' = ValidRecord(k)
  BY <1>1 DEF BlockStart, BlockEnd, OrigSize, Literals, MatchList, ValidRecord, MaximumSave, memoryVars
<1>13. Position'
  <2>1. cur' > 0
    BY <1>1, <1>3
  <2> QED
    BY <1>1, <1>2, <1>5, <1>12, <2>1 DEF Position, InABlock
<1>14. Sources'
  <2>1. Complete = BlockEnd /\ Complete' = BlockEnd
    BY <1>1, <1>12 DEF Complete
  <2>2. \A s, d, l : FromBefore(s, d, l)' = FromBefore(s, d, l)
    BY <2>1 DEF FromBefore
  <2>3. ASSUME NEW f \in heap
        PROVE  \/ f = Barrier \/ IsMarkingPoint(f)
               \/ FromBefore(f.src, f.dest, f.len) /\ (f.index # 0 \/ f.len >= MaximumSave)
    BY <1>1, <1>2 DEF Sources, Running, Within
  <2>4. FromBefore(e.src, e.dest, e.len) /\ e.len >= MaximumSave
    BY <1>1, <1>7, <1>8, <2>1 DEF FromBefore
  <2>5. \A v \in DOMAIN disk : \A k \in DOMAIN disk[v] :
            FromBefore(disk[v][k].src, disk[v][k].dest, Len(disk[v][k].data))
    BY <1>1, <1>2 DEF Sources, Running
  <2> QED
    BY <1>1, <1>12, <2>2, <2>3, <2>4, <2>5 DEF Sources
<1> QED
  BY <1>10, <1>11, <1>13, <1>14 DEF IInv

-----------------------------------------------------------------------------
(* The invariant: a match is copied. *)

\* The match that is due next, and what it may be.
LEMMA MatchDue ==
    ASSUME IInv, pc = "process", First(heap).dest < BlockEnd, ~ IsMarkingPoint(First(heap))
    PROVE  LET e == First(heap)
           IN /\ e \in heap /\ e # Barrier /\ e.len > 0
              /\ e.src \in Nat /\ e.dest \in Nat /\ e.len \in Nat /\ e.index \in Nat
              /\ \/ Within(e)
                 \/ e.src < e.dest /\ e.src + e.len <= BlockStart /\ (e.index # 0 \/ e.len >= MaximumSave)
<1> DEFINE e == First(heap)
<1>1. TypeOK /\ HeapShape /\ Sources /\ block <= archive.present
  BY DEF IInv, Position, InABlock
<1>2. e \in heap
  BY <1>1, FirstDue
<1>3. BlockEnd < MaxOffset /\ BlockEnd \in Nat
  BY <1>1, Inside
<1>4. e.src \in Nat /\ e.dest \in Nat /\ e.len \in Nat /\ e.index \in Nat
  BY <1>1, <1>2, TypesAre
<1>5. e # Barrier
  <2>1. e.dest # MaxOffset
    BY <1>3, <1>4, ConstantsAre
  <2> HIDE DEF e
  <2> QED
    BY <2>1, BarrierIs
<1>6. e.len > 0
  BY <1>4 DEF IsMarkingPoint
<1>7. Complete = BlockStart
  BY DEF Complete
<1>8. \/ Within(e)
      \/ e.src < e.dest /\ e.src + e.len <= BlockStart /\ (e.index # 0 \/ e.len >= MaximumSave)
  BY <1>1, <1>2, <1>5, <1>7 DEF Sources, Running, FromBefore
<1> QED
  BY <1>2, <1>4, <1>5, <1>6, <1>8

LEMMA MatchDataIs ==
    ASSUME IInv, pc = "process", First(heap).dest < BlockEnd, ~ IsMarkingPoint(First(heap)),
           NEW before \in Seq(Byte), Len(before) = First(heap).dest - BlockStart
    PROVE  LET e == First(heap)
           IN MatchData(e, before) \in Seq(Byte) /\ Len(MatchData(e, before)) = e.len
<1> DEFINE e == First(heap)
<1>1. /\ e \in heap /\ e.len > 0
      /\ e.src \in Nat /\ e.dest \in Nat /\ e.len \in Nat /\ e.index \in Nat
      /\ \/ Within(e)
         \/ e.src < e.dest /\ e.src + e.len <= BlockStart /\ (e.index # 0 \/ e.len >= MaximumSave)
  BY MatchDue
<1>2. TypeOK /\ Memory /\ block <= archive.present
  BY DEF IInv, Position, InABlock
<1>3. BlockStart \in Nat /\ Len(backend) = BlockStart
  BY <1>2, Inside
<1>4. Len(before) = e.dest - BlockStart
  OBVIOUS
<1> HIDE DEF e
<1>5. CASE e.len >= MaximumSave /\ e.src < BlockStart
  <2>1. MatchData(e, before) = SubSeq(backend, e.src + 1, e.src + e.len)
    BY <1>5 DEF MatchData
  <2>2. e.src + e.len <= Len(backend)
    BY <1>1, <1>3, <1>5 DEF Within
  <2>3. backend \in Seq(Byte)
    BY <1>2, TypesAre
  <2> DEFINE s == e.src
             n == e.len
  <2>4. s \in Nat /\ n \in Nat /\ s + n <= Len(backend)
    BY <1>1, <2>2
  <2> HIDE DEF s, n
  <2>5. SubSeq(backend, s + 1, s + n) \in Seq(Byte) /\ Len(SubSeq(backend, s + 1, s + n)) = n
    BY <2>3, <2>4, PartOf
  <2> QED
    BY <2>1, <2>5 DEF e, s, n
<1>6. CASE ~ (e.len >= MaximumSave /\ e.src < BlockStart) /\ e.index # 0
  <2>1. MatchData(e, before) = mm[e.index]
    BY <1>6 DEF MatchData, INVALID_INDEX
  <2>2. e.index \in DOMAIN mm /\ Len(mm[e.index]) = e.len
    BY <1>1, <1>2, <1>6 DEF Memory
  <2>3. mm[e.index] \in Seq(Byte)
    BY <1>2, <2>2, TypesAre
  <2> QED
    BY <2>1, <2>2, <2>3 DEF e
<1>7. CASE ~ (e.len >= MaximumSave /\ e.src < BlockStart) /\ e.index = 0
  <2>1. MatchData(e, before) = OverlapCopy(before, e.src - BlockStart, e.len)
    BY <1>7 DEF MatchData, INVALID_INDEX
  <2>2. Within(e)
    <3>1. MaximumSave \in Nat
      BY <1>2, TypesAre DEF MaximumSave
    <3> QED
      BY <1>1, <1>3, <1>7, <3>1
  <2> DEFINE off == e.src - BlockStart
             n == e.len
  <2>3. off \in Nat /\ n \in Nat /\ off < Len(before)
    BY <1>1, <1>3, <1>4, <2>2 DEF Within
  <2> HIDE DEF off, n
  <2>4. OverlapCopy(before, off, n) \in Seq(Byte) /\ Len(OverlapCopy(before, off, n)) = n
    BY <2>3, OverlapCopyIs
  <2> QED
    BY <2>1, <2>4 DEF e, off, n
<1> QED
  BY <1>5, <1>6, <1>7

\* What TakeMatch adds to the block, and how long the block is then.
LEMMA TakeMatchAdds ==
    ASSUME IInv, TakeMatch, pc' # "broken"
    PROVE  LET e == First(heap)
               litLen == e.dest - (BlockStart + Len(out))
               before == out \o SubSeq(Literals, inPos + 1, inPos + litLen)
           IN /\ litLen \in Nat /\ inPos + litLen <= Len(Literals)
              /\ before \in Seq(Byte) /\ Len(before) = e.dest - BlockStart
              /\ Len(before) = Len(out) + litLen
              /\ MatchData(e, before) \in Seq(Byte) /\ Len(MatchData(e, before)) = e.len
              /\ out' = before \o MatchData(e, before)
              /\ out' \in Seq(Byte) /\ Len(out') = Len(before) + e.len
              /\ Len(out') <= OrigSize
              /\ inPos' = inPos + litLen
              /\ heap' = heap \ {e} /\ mm' = FreeAll(mm, {e.index}) /\ pc' = pc
<1> DEFINE e == First(heap)
           litLen == e.dest - (BlockStart + Len(out))
           lits == SubSeq(Literals, inPos + 1, inPos + litLen)
           before == out \o lits
           data == MatchData(e, before)
<1>1. /\ pc = "process" /\ e.dest < BlockEnd /\ ~ IsMarkingPoint(e)
      /\ e.dest >= BlockStart + Len(out)
      /\ litLen <= Len(Literals) - inPos
      /\ litLen + e.len <= OrigSize - Len(out)
      /\ out' = before \o data
      /\ inPos' = inPos + litLen
      /\ heap' = heap \ {e} /\ mm' = FreeAll(mm, {e.index}) /\ pc' = pc
  BY DEF TakeMatch
<1>2. e.dest \in Nat /\ e.len \in Nat
  BY <1>1, MatchDue
<1>3. TypeOK /\ block <= archive.present
  BY <1>1 DEF IInv, Position, InABlock
<1>4. BlockStart \in Nat /\ OrigSize \in Nat /\ Literals \in Seq(Byte) /\ Len(Literals) \in Nat
  BY <1>3, Inside
<1>5. out \in Seq(Byte) /\ Len(out) \in Nat /\ inPos \in Nat
  BY <1>3, TypesAre
<1>6. litLen \in Nat /\ inPos + litLen <= Len(Literals) /\ Len(out) + litLen = e.dest - BlockStart
  <2> DEFINE d == e.dest
             l == Len(Literals)
             o == Len(out)
             w == BlockStart
  <2>1. /\ d \in Nat /\ l \in Nat /\ o \in Nat /\ w \in Nat /\ inPos \in Nat
        /\ d >= w + o /\ litLen <= l - inPos /\ litLen = d - (w + o)
    BY <1>1, <1>2, <1>4, <1>5
  <2> HIDE DEF d, l, o, w, litLen
  <2>2. litLen \in Nat /\ inPos + litLen <= l /\ o + litLen = d - w
    BY <2>1
  <2> QED
    BY <2>2 DEF d, l, o, w
<1> HIDE DEF litLen
<1>7. lits \in Seq(Byte) /\ Len(lits) = litLen
  BY <1>4, <1>5, <1>6, PartOf
<1> HIDE DEF lits
<1>8. before \in Seq(Byte) /\ Len(before) = Len(out) + litLen
  BY <1>5, <1>7, Joined
<1> HIDE DEF before
<1>9. data \in Seq(Byte) /\ Len(data) = e.len
  <2>1. Len(before) = First(heap).dest - BlockStart
    BY <1>6, <1>8
  <2> QED
    BY <1>1, <1>8, <2>1, MatchDataIs
<1> HIDE DEF data, e
<1>10. out' \in Seq(Byte) /\ Len(out') = Len(before) + e.len
  <2>1. out' \in Seq(Byte) /\ Len(out') = Len(before) + Len(data)
    BY <1>1, <1>8, <1>9, Joined
  <2> QED
    BY <1>9, <2>1
<1>11. Len(out') <= OrigSize
  BY <1>1, <1>2, <1>4, <1>5, <1>6, <1>8, <1>10
<1> QED
  BY <1>1, <1>6, <1>8, <1>9, <1>10, <1>11 DEF e, litLen, lits, before, data

\* Some matches leave the heap, with what is saved for them, and entries without data join it.
LEMMA EntriesLeave ==
    ASSUME TypeOK, HeapShape, Memory,
           NEW S \in SUBSET heap, Barrier \notin S,
           NEW M \in SUBSET HeapEntry, IsFiniteSet(M), Distinct(M),
           NEW next \in Nat, seqCounter <= next,
           \A f \in M : f.index = 0 /\ seqCounter <= f.seq /\ f.seq < next,
           heap' = (heap \ S) \cup M, seqCounter' = next,
           mm' = FreeAll(mm, {e.index : e \in S})
    PROVE  /\ HeapShape' /\ Memory'
           /\ heap' \subseteq HeapEntry
           /\ DOMAIN mm' \subseteq Nat \ {0} /\ Range(mm') \subseteq Seq(Byte)
<1> DEFINE H == {e.index : e \in S}
<1>1. /\ IsFiniteSet(DOMAIN mm') /\ DOMAIN mm' = DOMAIN mm \ H
      /\ \A i \in DOMAIN mm \ H : mm'[i] = mm[i]
  <2> HIDE DEF H
  <2>1. mm' = FreeAll(mm, H) /\ IsFiniteSet(DOMAIN mm)
    BY DEF Memory, H
  <2> DEFINE r == FreeAll(mm, H)
  <2>2. /\ DOMAIN r = DOMAIN mm \ H
        /\ IsFiniteSet(DOMAIN r)
        /\ \A i \in DOMAIN mm \ H : r[i] = mm[i]
    BY <2>1, FreeAllIs
  <2> HIDE DEF r
  <2>3. mm' = r
    BY <2>1 DEF r
  <2> QED
    BY <2>2, <2>3
<1>2. IsFiniteSet(heap')
  <2>1. IsFiniteSet(heap \ S)
    BY FS_Difference DEF HeapShape
  <2> QED
    BY <2>1, FS_Union
<1>3. heap' \subseteq HeapEntry
  <2>1. heap \subseteq HeapEntry
    BY DEF TypeOK
  <2> QED
    BY <2>1
<1>4. seqCounter \in Nat /\ \A e \in heap : e.seq \in Nat /\ e.seq < seqCounter
  BY TypesAre DEF HeapShape
<1>5. \A f \in M : f.seq \in Nat
  BY DEF HeapEntry
<1>6. HeapShape'
  <2>1. \A e \in heap' : e.seq < seqCounter'
    <3>1. \A e \in heap : e.seq < next
      BY <1>4
    <3> QED
      BY <3>1
  <2>2. ASSUME NEW e \in heap', NEW f \in heap', e.seq = f.seq PROVE e = f
    <3>1. CASE e \in heap /\ f \in heap
      BY <2>2, <3>1 DEF HeapShape
    <3>2. CASE e \in M /\ f \in M
      BY <2>2, <3>2 DEF Distinct
    <3>3. CASE e \in heap /\ f \in M
      BY <1>4, <1>5, <2>2, <3>3
    <3>4. CASE e \in M /\ f \in heap
      BY <1>4, <1>5, <2>2, <3>4
    <3> QED
      BY <3>1, <3>2, <3>3, <3>4
  <2>3. Barrier \in heap'
    BY DEF HeapShape
  <2> QED
    BY <1>2, <2>1, <2>2, <2>3 DEF HeapShape
<1>7. Memory'
  <2>1. ASSUME NEW e \in heap', e.index # 0
        PROVE  e \in heap /\ e \notin S /\ e.index \in DOMAIN mm \ H
    <3>1. e \in heap /\ e \notin S
      BY <2>1
    <3>2. e.index \in DOMAIN mm
      BY <2>1, <3>1 DEF Memory
    <3>3. ASSUME e.index \in H PROVE FALSE
      <4>1. PICK f \in S : f.index = e.index
        BY <3>3
      <4> QED
        BY <2>1, <3>1, <4>1 DEF Memory
    <3> QED
      BY <3>1, <3>2, <3>3
  <2>2. ASSUME NEW e \in heap', e.index # 0
        PROVE  e.index \in DOMAIN mm' /\ Len(mm'[e.index]) = e.len /\ e.len > 0
    <3>1. Len(mm[e.index]) = e.len /\ e.len > 0
      BY <2>1, <2>2 DEF Memory
    <3> QED
      BY <1>1, <2>1, <2>2, <3>1
  <2>3. ASSUME NEW i \in DOMAIN mm' PROVE \E e \in heap' : e.index = i
    <3>1. i \in DOMAIN mm /\ i \notin H
      BY <1>1
    <3>2. PICK e \in heap : e.index = i
      BY <3>1 DEF Memory
    <3>3. e \notin S
      BY <3>1, <3>2
    <3> QED
      BY <3>2, <3>3
  <2>4. ASSUME NEW e \in heap', NEW f \in heap', e.index # 0, e.index = f.index PROVE e = f
    BY <2>1, <2>4 DEF Memory
  <2> QED
    BY <1>1, <2>2, <2>3, <2>4 DEF Memory
<1>8. DOMAIN mm' \subseteq Nat \ {0} /\ Range(mm') \subseteq Seq(Byte)
  <2>1. \A i \in DOMAIN mm : i \in Nat \ {0} /\ mm[i] \in Seq(Byte)
    BY TypesAre
  <2>2. \A i \in DOMAIN mm' : i \in Nat \ {0} /\ mm'[i] \in Seq(Byte)
    BY <1>1, <2>1
  <2> QED
    BY <2>2 DEF Range
<1> QED
  BY <1>3, <1>6, <1>7, <1>8

LEMMA TakeMatchStep == IInv /\ TakeMatch => IInv'
<1> SUFFICES ASSUME IInv, TakeMatch PROVE IInv'
  OBVIOUS
<1> DEFINE e == First(heap)
<1>1. /\ pc = "process"
      /\ UNCHANGED <<archive, opts, block, cur, backend, seqCounter, disk, freeBlocks, newBlock>>
      /\ e.dest < BlockEnd /\ ~ IsMarkingPoint(e)
  BY DEF TakeMatch
<1>2. TypeOK /\ HeapShape /\ Memory /\ Position /\ Sources /\ block <= archive.present
  BY <1>1 DEF IInv, Position, InABlock
<1>3. cur \in Nat /\ inPos \in Nat /\ seqCounter \in Nat /\ out \in Seq(Byte) /\ backend \in Seq(Byte)
  BY <1>2, TypesAre
<1>4. CASE pc' = "broken"
  <2>1. UNCHANGED <<out, inPos, heap, mm>>
    BY <1>1, <1>4 DEF TakeMatch
  <2> QED
    BY <1>1, <1>3, <1>4, <2>1, StopStep DEF heapVars, memoryVars
<1>5. CASE pc' # "broken"
  <2> DEFINE litLen == e.dest - (BlockStart + Len(out))
  <2>1. /\ litLen \in Nat /\ inPos + litLen <= Len(Literals)
        /\ out' \in Seq(Byte) /\ Len(out') <= OrigSize
        /\ inPos' = inPos + litLen
        /\ heap' = heap \ {e} /\ mm' = FreeAll(mm, {e.index}) /\ pc' = pc
    BY <1>5, TakeMatchAdds
  <2>2. e \in heap /\ e # Barrier
    BY <1>1, MatchDue
  <2> HIDE DEF e, litLen
  <2>3. /\ HeapShape' /\ Memory' /\ heap' \subseteq HeapEntry
        /\ DOMAIN mm' \subseteq Nat \ {0} /\ Range(mm') \subseteq Seq(Byte)
    <3> DEFINE S == {e}
               M == {}
    <3>1. S \in SUBSET heap /\ Barrier \notin S
      BY <2>2
    <3>2. M \in SUBSET HeapEntry /\ IsFiniteSet(M) /\ Distinct(M)
      BY FS_EmptySet DEF Distinct
    <3>3. \A f \in M : f.index = 0 /\ seqCounter <= f.seq /\ f.seq < seqCounter
      OBVIOUS
    <3>4. heap' = (heap \ S) \cup M /\ seqCounter' = seqCounter
          /\ mm' = FreeAll(mm, {f.index : f \in S})
      <4>1. {f.index : f \in S} = {e.index}
        OBVIOUS
      <4> QED
        BY <1>1, <2>1, <4>1
    <3>5. seqCounter <= seqCounter
      BY <1>3
    <3> HIDE DEF S, M
    <3> QED
      BY <1>2, <1>3, <3>1, <3>2, <3>3, <3>4, <3>5, EntriesLeave
  <2>4. Marks' = Marks
    BY <1>1, <2>1 DEF Marks
  <2>5. TheJob'
    BY <1>1 DEF IInv, TheJob
  <2>6. VmFile'
    BY <1>1, <2>1, <2>4 DEF IInv, VmFile, Stuck
  <2>7. MarksDue'
    BY <1>1, <2>1, <2>4 DEF IInv, MarksDue, Stuck
  <2>8. TypeOK'
    <3>1. {cur', inPos', seqCounter', newBlock'} \subseteq Nat
      BY <1>1, <1>2, <1>3, <2>1 DEF TypeOK
    <3> QED
      BY <1>1, <1>2, <2>1, <2>3, <3>1 DEF TypeOK, INVALID_INDEX
  <2>9. /\ BlockStart' = BlockStart /\ BlockEnd' = BlockEnd /\ OrigSize' = OrigSize
        /\ Literals' = Literals /\ MatchList' = MatchList /\ MaximumSave' = MaximumSave
        /\ \A k : ValidRecord(k)' = ValidRecord(k)
    BY <1>1 DEF BlockStart, BlockEnd, OrigSize, Literals, MatchList, ValidRecord, MaximumSave
  <2>10. Position'
    BY <1>1, <1>2, <2>1, <2>9 DEF Position, InABlock
  <2>11. Sources'
    <3>1. Complete' = Complete
      BY <1>1, <2>1, <2>9 DEF Complete
    <3>2. \A s, d, l : FromBefore(s, d, l)' = FromBefore(s, d, l)
      BY <3>1 DEF FromBefore
    <3>3. ASSUME NEW f \in heap'
          PROVE  \/ f = Barrier \/ IsMarkingPoint(f) \/ Within(f)'
                 \/ FromBefore(f.src, f.dest, f.len)' /\ (f.index # 0 \/ f.len >= MaximumSave')
      <4>1. \/ f = Barrier \/ IsMarkingPoint(f) \/ Within(f)
            \/ FromBefore(f.src, f.dest, f.len) /\ (f.index # 0 \/ f.len >= MaximumSave)
        BY <1>1, <1>2, <2>1 DEF Sources, Running
      <4>2. Within(f)' = Within(f)
        BY <1>1, <2>1, <2>9 DEF Within
      <4> QED
        BY <2>9, <3>2, <4>1, <4>2
    <3>4. \A v \in DOMAIN disk : \A k \in DOMAIN disk[v] :
              FromBefore(disk[v][k].src, disk[v][k].dest, Len(disk[v][k].data))
      BY <1>1, <1>2 DEF Sources, Running
    <3> QED
      BY <1>1, <3>2, <3>3, <3>4 DEF Sources
  <2> QED
    BY <2>3, <2>5, <2>6, <2>7, <2>8, <2>10, <2>11 DEF IInv
<1> QED
  BY <1>4, <1>5

-----------------------------------------------------------------------------
(* The invariant: matches are spilled. *)

\* Block v of the VM file, that holds nothing needed any more, is taken to be written to.
TakesBlock(v) ==
    /\ v \in Nat
    /\ newBlock' \in Nat
    /\ v \in 0 .. newBlock' - 1
    /\ 0 .. newBlock' - 1 = (0 .. newBlock - 1) \cup {v}
    /\ freeBlocks' \in Seq(0 .. newBlock' - 1)
    /\ \A m \in Marks : m.src # v
    /\ \A k \in DOMAIN freeBlocks' :
          /\ k \in DOMAIN freeBlocks /\ freeBlocks'[k] = freeBlocks[k]
          /\ freeBlocks'[k] # v
    /\ \A k \in DOMAIN freeBlocks :
          \/ freeBlocks[k] = v
          \/ \E j \in DOMAIN freeBlocks' : freeBlocks'[j] = freeBlocks[k]

LEMMA BlockTaken ==
    ASSUME TypeOK, VmFile,
           IF freeBlocks = <<>>
           THEN newBlock' = newBlock + 1 /\ UNCHANGED freeBlocks
           ELSE freeBlocks' = Front(freeBlocks) /\ UNCHANGED newBlock
    PROVE  TakesBlock(VmBlockToUse)
<1> DEFINE n == newBlock
           f == freeBlocks
           l == Len(freeBlocks)
           v == VmBlockToUse
<1>1. n \in Nat /\ f \in Seq(0 .. n - 1) /\ l \in Nat /\ DOMAIN f = 1 .. l /\ DOMAIN disk = 0 .. n - 1
  BY TypesAre
<1>2. /\ \A m \in Marks : m.src \in 0 .. n - 1
      /\ \A m \in Marks : \A k \in 1 .. l : f[k] # m.src
      /\ \A j, k \in 1 .. l : f[j] = f[k] => j = k
  BY <1>1 DEF VmFile
<1>3. CASE f = <<>>
  <2>1. v = n /\ newBlock' = n + 1 /\ f' = f /\ l = 0
    BY <1>1, <1>3 DEF VmBlockToUse
  <2> HIDE DEF n, f, l, v
  <2>2. v \in Nat /\ newBlock' \in Nat /\ v \in 0 .. newBlock' - 1
        /\ 0 .. newBlock' - 1 = (0 .. n - 1) \cup {v}
    BY <1>1, <2>1
  <2>3. \A m \in Marks : m.src # v
    BY <1>1, <1>2, <2>1
  <2>4. DOMAIN f' = {} /\ DOMAIN f = {}
    BY <1>1, <2>1
  <2>5. f' \in Seq(0 .. newBlock' - 1)
    BY <1>3, <2>1
  <2> QED
    BY <2>2, <2>3, <2>4, <2>5 DEF TakesBlock, n, f, v
<1>4. CASE f # <<>>
  <2>1. v = f[l] /\ f' = SubSeq(f, 1, l - 1) /\ newBlock' = n
    BY <1>4 DEF VmBlockToUse, Last, Front
  <2>2. l > 0
    BY <1>1, <1>4
  <2> HIDE DEF n, f, l, v
  <2>3. v \in 0 .. n - 1 /\ l \in 1 .. l
    BY <1>1, <2>1, <2>2
  <2>4. f' \in Seq(0 .. n - 1) /\ DOMAIN f' = 1 .. l - 1 /\ \A k \in 1 .. l - 1 : f'[k] = f[k]
    <3> DEFINE p == l - 1
    <3>1. p \in Nat /\ 0 + p <= Len(f) /\ 0 \in Nat
      BY <1>1, <2>2 DEF l, f
    <3> HIDE DEF p
    <3>2. /\ SubSeq(f, 0 + 1, 0 + p) \in Seq(0 .. n - 1)
          /\ Len(SubSeq(f, 0 + 1, 0 + p)) = p
          /\ \A i \in 1 .. p : SubSeq(f, 0 + 1, 0 + p)[i] = f[0 + i]
      BY <1>1, <3>1, PartOf
    <3>3. f' = SubSeq(f, 0 + 1, 0 + p)
      BY <2>1, <3>1 DEF p
    <3>4. f' \in Seq(0 .. n - 1) /\ Len(f') = p /\ \A i \in 1 .. p : f'[i] = f[i]
      BY <3>1, <3>2, <3>3
    <3> QED
      BY <3>4 DEF p
  <2>5. v \in Nat /\ newBlock' \in Nat /\ v \in 0 .. newBlock' - 1
        /\ 0 .. newBlock' - 1 = (0 .. n - 1) \cup {v}
    BY <1>1, <2>1, <2>3
  <2>6. \A m \in Marks : m.src # v
    BY <1>2, <2>1, <2>3
  <2>7. \A k \in DOMAIN f' : k \in DOMAIN f /\ f'[k] = f[k] /\ f'[k] # v
    BY <1>1, <1>2, <2>1, <2>3, <2>4
  <2>8. \A k \in DOMAIN f : f[k] = v \/ \E j \in DOMAIN f' : f'[j] = f[k]
    <3>1. \A k \in 1 .. l : k = l \/ k \in 1 .. l - 1
      BY <1>1
    <3> QED
      BY <1>1, <2>1, <2>4, <3>1
  <2> QED
    BY <2>1, <2>4, <2>5, <2>6, <2>7, <2>8 DEF TakesBlock, n, f, v
<1> QED
  BY <1>3, <1>4

SpillRecordsOf(taken) ==
    [k \in DOMAIN taken |-> [src |-> taken[k].src, dest |-> taken[k].dest,
                             data |-> mm[taken[k].index]]]

\* What is spilled are matches with their saved bytes, that come from before.
LEMMA SpilledAre ==
    ASSUME IInv, Running, NEW taken \in Takings
    PROVE  /\ taken \in Seq(heap) /\ Len(taken) \in Nat /\ DOMAIN taken = 1 .. Len(taken)
           /\ \A k \in DOMAIN taken :
                 LET e == taken[k]
                     s == SpillRecordsOf(taken)[k]
                 IN /\ e \in heap /\ e # Barrier /\ e.index # 0 /\ ~ IsMarkingPoint(e)
                    /\ s \in SpillRecord /\ s.src = e.src /\ s.dest = e.dest
                    /\ s.data = mm[e.index]
                    /\ Len(s.data) = e.len /\ e.len > 0
                    /\ FromBefore(e.src, e.dest, e.len)
           /\ SpillRecordsOf(taken) \in Seq(SpillRecord)
           /\ DOMAIN SpillRecordsOf(taken) = DOMAIN taken
<1>1. TypeOK /\ HeapShape /\ Memory /\ Sources
  BY DEF IInv
<1>2. taken \in Seq(heap) /\ \A k \in DOMAIN taken : taken[k].index # 0
  BY <1>1, HeapIs, TakingsAre
<1>3. Len(taken) \in Nat /\ DOMAIN taken = 1 .. Len(taken) /\ \A k \in DOMAIN taken : taken[k] \in heap
  BY <1>2
<1> DEFINE recs == SpillRecordsOf(taken)
<1>4. ASSUME NEW k \in DOMAIN taken
      PROVE  LET e == taken[k]
                 s == recs[k]
             IN /\ e \in heap /\ e # Barrier /\ e.index # 0 /\ ~ IsMarkingPoint(e)
                /\ s \in SpillRecord /\ s.src = e.src /\ s.dest = e.dest
                /\ s.data = mm[e.index]
                /\ Len(s.data) = e.len /\ e.len > 0
                /\ FromBefore(e.src, e.dest, e.len)
  <2> DEFINE e == taken[k]
             s == recs[k]
  <2>1. e \in heap /\ e.index # 0
    BY <1>2, <1>3
  <2>2. s = [src |-> e.src, dest |-> e.dest, data |-> mm[e.index]]
    BY DEF SpillRecordsOf
  <2> HIDE DEF e, s
  <2>3. e.src \in Nat /\ e.dest \in Nat /\ e.len \in Nat
    BY <1>1, <2>1, TypesAre
  <2>4. e.index \in DOMAIN mm /\ Len(mm[e.index]) = e.len /\ e.len > 0
    BY <1>1, <2>1 DEF Memory
  <2>5. mm[e.index] \in Seq(Byte)
    BY <1>1, <2>4, TypesAre
  <2>6. s \in SpillRecord /\ s.src = e.src /\ s.dest = e.dest /\ s.data = mm[e.index]
    <3> DEFINE d == mm[e.index]
               x == e.src
               y == e.dest
    <3>1. x \in Nat /\ y \in Nat /\ d \in Seq(Byte) /\ s = [src |-> x, dest |-> y, data |-> d]
      BY <2>2, <2>3, <2>5
    <3> HIDE DEF d, x, y
    <3>2. s \in SpillRecord /\ s.src = x /\ s.dest = y /\ s.data = d
      BY <3>1 DEF SpillRecord
    <3> QED
      BY <3>2 DEF d, x, y
  <2>7. e # Barrier /\ ~ IsMarkingPoint(e)
    BY <2>1, <2>4, BarrierIs DEF IsMarkingPoint
  <2>8. FromBefore(e.src, e.dest, e.len)
    BY <1>1, <2>1, <2>7 DEF Sources, Within
  <2> QED
    BY <2>1, <2>4, <2>6, <2>7, <2>8 DEF e, s
<1>5. DOMAIN recs = DOMAIN taken
  BY DEF SpillRecordsOf
<1>6. recs \in Seq(SpillRecord)
  <2>1. recs = [k \in 1 .. Len(taken) |-> recs[k]]
    BY <1>3 DEF SpillRecordsOf
  <2>2. \A k \in 1 .. Len(taken) : recs[k] \in SpillRecord
    BY <1>3, <1>4
  <2> HIDE DEF recs
  <2>3. recs \in [1 .. Len(taken) -> SpillRecord]
    BY <2>1, <2>2
  <2> QED
    BY <1>3, <2>3
<1> QED
  BY <1>2, <1>3, <1>4, <1>5, <1>6

LEMMA SaveToDiskKeeps ==
    ASSUME IInv, SaveToDisk, Running, UNCHANGED <<archive, opts, block, cur, out, inPos, backend>>
    PROVE  IInv'
<1>1. PICK taken \in Takings :
          Spill(taken) /\ pc' = IF taken # <<>> THEN pc ELSE WhenStuck
  BY DEF SaveToDisk
<1> DEFINE v == VmBlockToUse
           dest == MarkDest(taken)
           mark == Entry(v, dest, 0, INVALID_INDEX, seqCounter)
           recs == SpillRecordsOf(taken)
           T == Range(taken)
           l == Len(taken)
<1>2. /\ disk' = [w \in DOMAIN disk \cup {v} |-> IF w = v THEN recs ELSE disk[w]]
      /\ IF freeBlocks = <<>>
         THEN newBlock' = newBlock + 1 /\ UNCHANGED freeBlocks
         ELSE freeBlocks' = Front(freeBlocks) /\ UNCHANGED newBlock
      /\ mm' = FreeAll(mm, {e.index : e \in T})
      /\ heap' = (heap \ T) \cup {mark}
      /\ seqCounter' = seqCounter + 1
  BY <1>1 DEF Spill, SpillRecordsOf
<1>3. TypeOK /\ HeapShape /\ Memory /\ VmFile /\ Position /\ Sources /\ TheJob
  BY DEF IInv
<1>4. TakesBlock(v)
  BY <1>2, <1>3, BlockTaken
<1> HIDE DEF v
<1>5. /\ l \in Nat /\ DOMAIN taken = 1 .. l /\ DOMAIN recs = 1 .. l
      /\ recs \in Seq(SpillRecord)
      /\ \A k \in 1 .. l :
            /\ taken[k] \in heap /\ taken[k] # Barrier /\ taken[k].index # 0 /\ taken[k].len > 0
            /\ ~ IsMarkingPoint(taken[k])
            /\ recs[k].src = taken[k].src /\ recs[k].dest = taken[k].dest
            /\ Len(recs[k].data) = taken[k].len
            /\ FromBefore(taken[k].src, taken[k].dest, taken[k].len)
  BY SpilledAre
<1>6. taken \in Seq(heap)
  BY SpilledAre
<1> HIDE DEF recs
<1>7. T = {taken[k] : k \in 1 .. l}
  BY <1>5 DEF Range
<1>8. T \in SUBSET heap /\ Barrier \notin T /\ \A e \in T : ~ IsMarkingPoint(e)
  BY <1>5, <1>7
<1> HIDE DEF T
<1>9. seqCounter \in Nat /\ newBlock \in Nat /\ DOMAIN disk = 0 .. newBlock - 1
      /\ cur \in Nat /\ inPos \in Nat
  BY <1>3, TypesAre
<1>10. /\ dest \in Nat
       /\ taken # <<>> => l \in 1 .. l /\ dest = taken[l].dest
  <2>1. CASE taken = <<>>
    BY <2>1, ConstantsAre DEF MarkDest
  <2>2. CASE taken # <<>>
    <3>1. l \in 1 .. l
      BY <1>5, <1>6, <2>2
    <3>2. dest = taken[l].dest
      BY <2>2 DEF MarkDest, Last
    <3>3. taken[l].dest \in Nat
      BY <1>3, <1>5, <3>1, TypesAre
    <3> QED
      BY <3>1, <3>2, <3>3
  <2> QED
    BY <2>1, <2>2
<1> HIDE DEF dest
<1>11. /\ mark \in HeapEntry /\ mark.src = v /\ mark.dest = dest /\ mark.len = 0 /\ mark.index = 0
       /\ mark.seq = seqCounter
  <2>1. v \in Nat
    BY <1>4 DEF TakesBlock
  <2> QED
    BY <1>9, <1>10, <2>1 DEF Entry, HeapEntry, INVALID_INDEX
<1> HIDE DEF mark
<1>12. /\ HeapShape' /\ Memory' /\ heap' \subseteq HeapEntry
       /\ DOMAIN mm' \subseteq Nat \ {0} /\ Range(mm') \subseteq Seq(Byte)
  <2> DEFINE M == {mark}
             next == seqCounter + 1
  <2>1. M \in SUBSET HeapEntry /\ IsFiniteSet(M) /\ Distinct(M)
    BY <1>11, FS_Singleton DEF Distinct
  <2>2. next \in Nat /\ seqCounter <= next
    BY <1>9
  <2>3. \A f \in M : f.index = 0 /\ seqCounter <= f.seq /\ f.seq < next
    BY <1>9, <1>11
  <2>4. heap' = (heap \ T) \cup M /\ seqCounter' = next
    BY <1>2
  <2> HIDE DEF M, next
  <2> QED
    BY <1>2, <1>3, <1>8, <2>1, <2>2, <2>3, <2>4, EntriesLeave
<1>13. Marks' = Marks \cup {mark} /\ mark \notin Marks
  <2>1. IsMarkingPoint(mark)
    BY <1>11 DEF IsMarkingPoint
  <2>2. mark \notin Marks
    BY <1>4, <1>11 DEF TakesBlock
  <2>3. \A e : IsMarkingPoint(e)' = IsMarkingPoint(e)
    BY DEF IsMarkingPoint
  <2> QED
    BY <1>2, <1>8, <2>1, <2>2, <2>3 DEF Marks
<1>14. /\ DOMAIN disk' = DOMAIN disk \cup {v}
       /\ disk'[v] = recs
       /\ \A w \in DOMAIN disk : w # v => disk'[w] = disk[w]
  BY <1>2
<1>15. (pc' = pc /\ taken # <<>>) \/ Stuck'
  BY <1>1 DEF WhenStuck, Stuck
<1>16. TheJob'
  BY <1>3 DEF TheJob
<1>17. VmFile'
  <2>1. /\ v \in 0 .. newBlock' - 1
        /\ 0 .. newBlock' - 1 = DOMAIN disk \cup {v}
        /\ \A m \in Marks : m.src # v
        /\ \A k \in DOMAIN freeBlocks' :
              k \in DOMAIN freeBlocks /\ freeBlocks'[k] = freeBlocks[k] /\ freeBlocks'[k] # v
        /\ \A k \in DOMAIN freeBlocks :
              freeBlocks[k] = v \/ \E j \in DOMAIN freeBlocks' : freeBlocks'[j] = freeBlocks[k]
    BY <1>4, <1>9 DEF TakesBlock
  <2>2. \A m \in Marks' : m.src \in DOMAIN disk'
    BY <1>3, <1>11, <1>13, <1>14 DEF VmFile
  <2>3. \A m, n \in Marks' : m.src = n.src => m = n
    BY <1>3, <1>11, <1>13, <2>1 DEF VmFile
  <2>4. \A j, k \in DOMAIN freeBlocks' : freeBlocks'[j] = freeBlocks'[k] => j = k
    BY <1>3, <2>1 DEF VmFile
  <2>5. \A m \in Marks' : \A k \in DOMAIN freeBlocks' : freeBlocks'[k] # m.src
    BY <1>3, <1>11, <1>13, <2>1 DEF VmFile
  <2>6. ASSUME NEW w \in DOMAIN disk'
        PROVE  (\E k \in DOMAIN freeBlocks' : freeBlocks'[k] = w) \/ (\E m \in Marks' : m.src = w)
    <3>1. CASE w = v
      BY <1>11, <1>13, <3>1
    <3>2. CASE w # v
      <4>1. w \in DOMAIN disk
        BY <1>14, <3>2
      <4>2. CASE \E k \in DOMAIN freeBlocks : freeBlocks[k] = w
        BY <2>1, <3>2, <4>2
      <4>3. CASE \E m \in Marks : m.src = w
        BY <1>13, <4>3
      <4> QED
        BY <1>3, <4>1, <4>2, <4>3 DEF VmFile
    <3> QED
      BY <3>1, <3>2
  <2>7. ASSUME NEW w \in DOMAIN disk', NEW k \in DOMAIN disk'[w] PROVE Len(disk'[w][k].data) > 0
    <3>1. CASE w = v
      BY <1>5, <1>14, <3>1
    <3>2. CASE w # v
      BY <1>3, <1>14, <3>2 DEF VmFile
    <3> QED
      BY <3>1, <3>2
  <2>8. ASSUME ~ Stuck', NEW m \in Marks' PROVE disk'[m.src] # <<>>
    <3>1. CASE m = mark
      <4>1. l \in DOMAIN recs
        BY <1>5, <1>10, <1>15, <2>8
      <4>2. recs # <<>>
        BY <4>1
      <4> QED
        BY <1>11, <1>14, <3>1, <4>2
    <3>2. CASE m \in Marks
      BY <1>3, <1>14, <2>1, <3>2 DEF VmFile, Stuck, Running
    <3> QED
      BY <1>13, <3>1, <3>2
  <2> QED
    BY <2>2, <2>3, <2>4, <2>5, <2>6, <2>7, <2>8 DEF VmFile
<1>18. MarksDue'
  <2>1. ASSUME ~ Stuck', ~ opts.wraps, NEW m \in Marks'
        PROVE  /\ \E k \in DOMAIN disk'[m.src] : disk'[m.src][k].dest = m.dest
               /\ \A k \in DOMAIN disk'[m.src] : m.dest <= disk'[m.src][k].dest
    <3>1. CASE m = mark
      <4>1. l \in 1 .. l /\ dest = taken[l].dest /\ recs[l].dest = dest
        BY <1>5, <1>10, <1>15, <2>1
      <4>2. ASSUME NEW k \in 1 .. l PROVE dest <= recs[k].dest
        <5>1. taken[k].dest \in Nat /\ taken[l].dest \in Nat
          BY <1>3, <1>5, <4>1, TypesAre
        <5>2. k = l \/ k < l
          BY <1>5
        <5>3. k < l => Before(taken[l], taken[k])
          BY <1>3, <1>5, <2>1, <4>1, HeapIs, TakingsAre
        <5>4. taken[l].dest <= taken[k].dest
          <6> DEFINE x == taken[l].dest
                     y == taken[k].dest
          <6>1. x \in Nat /\ y \in Nat /\ (x = y \/ x < y)
            BY <5>1, <5>2, <5>3 DEF Before
          <6> HIDE DEF x, y
          <6>2. x <= y
            BY <6>1
          <6> QED
            BY <6>2 DEF x, y
        <5> QED
          BY <1>5, <4>1, <5>4
      <4> QED
        BY <1>5, <1>11, <1>14, <3>1, <4>1, <4>2
    <3>2. CASE m \in Marks
      <4>1. m.src \in DOMAIN disk /\ m.src # v
        BY <1>3, <1>4, <3>2 DEF VmFile, TakesBlock
      <4>2. ~ Stuck
        BY DEF Running, Stuck
      <4> QED
        BY <1>14, <2>1, <3>2, <4>1, <4>2 DEF IInv, MarksDue
    <3> QED
      BY <1>13, <3>1, <3>2
  <2> QED
    BY <2>1 DEF MarksDue
<1>19. TypeOK'
  <2>1. {cur', inPos', seqCounter', newBlock'} \subseteq Nat
    BY <1>2, <1>4, <1>9 DEF TakesBlock
  <2>2. pc' \in {"read", "process", "save", "done", "spinning"} \cup Errors
    BY <1>3, <1>15 DEF TypeOK, Stuck, Errors
  <2>3. DOMAIN disk' = 0 .. newBlock' - 1 /\ freeBlocks' \in Seq(0 .. newBlock' - 1)
    BY <1>4, <1>9, <1>14 DEF TakesBlock
  <2>4. \A w \in DOMAIN disk' : disk'[w] \in Seq(SpillRecord)
    <3>1. \A w \in DOMAIN disk : disk[w] \in Seq(SpillRecord)
      BY <1>3, TypesAre
    <3> QED
      BY <1>5, <1>14, <3>1
  <2>5. Range(disk') \subseteq Seq(SpillRecord)
    BY <2>4 DEF Range
  <2> QED
    BY <1>3, <1>12, <2>1, <2>2, <2>3, <2>5 DEF TypeOK, INVALID_INDEX
<1>20. /\ BlockStart' = BlockStart /\ BlockEnd' = BlockEnd /\ OrigSize' = OrigSize
       /\ Literals' = Literals /\ MatchList' = MatchList /\ MaximumSave' = MaximumSave
       /\ \A k : ValidRecord(k)' = ValidRecord(k)
  BY DEF BlockStart, BlockEnd, OrigSize, Literals, MatchList, ValidRecord, MaximumSave
<1>21. Position'
  BY <1>3, <1>15, <1>20 DEF Position, InABlock, Stuck
<1>22. Sources'
  <2> SUFFICES ASSUME Running' PROVE Sources'
    BY DEF Sources
  <2>1. pc' = pc
    BY <1>15 DEF Running, Stuck
  <2>2. Complete' = Complete
    BY <1>20, <2>1 DEF Complete
  <2>3. \A s, d, n : FromBefore(s, d, n)' = FromBefore(s, d, n)
    BY <2>2 DEF FromBefore
  <2>4. ASSUME NEW f \in heap'
        PROVE  \/ f = Barrier \/ IsMarkingPoint(f) \/ Within(f)'
               \/ FromBefore(f.src, f.dest, f.len)' /\ (f.index # 0 \/ f.len >= MaximumSave')
    <3>1. CASE f = mark
      BY <1>11, <3>1 DEF IsMarkingPoint
    <3>2. CASE f \in heap
      <4>1. \/ f = Barrier \/ IsMarkingPoint(f) \/ Within(f)
            \/ FromBefore(f.src, f.dest, f.len) /\ (f.index # 0 \/ f.len >= MaximumSave)
        BY <1>3, <3>2 DEF Sources
      <4>2. Within(f)' = Within(f)
        BY <1>20, <2>1 DEF Within
      <4> QED
        BY <1>20, <2>3, <4>1, <4>2
    <3> QED
      BY <1>2, <3>1, <3>2
  <2>5. ASSUME NEW w \in DOMAIN disk', NEW k \in DOMAIN disk'[w]
        PROVE  FromBefore(disk'[w][k].src, disk'[w][k].dest, Len(disk'[w][k].data))
    <3>1. CASE w = v
      BY <1>5, <1>14, <3>1
    <3>2. CASE w # v
      BY <1>3, <1>14, <3>2 DEF Sources
    <3> QED
      BY <3>1, <3>2
  <2> QED
    BY <2>3, <2>4, <2>5 DEF Sources
<1> QED
  BY <1>12, <1>16, <1>17, <1>18, <1>19, <1>21, <1>22 DEF IInv

LEMMA SpillToRestoreStep == IInv /\ SpillToRestore => IInv'
  BY SaveToDiskKeeps DEF SpillToRestore, Running

LEMMA SpillToSaveStep == IInv /\ SpillToSave => IInv'
  BY SaveToDiskKeeps DEF SpillToSave, MustSave, ToSave, Running

-----------------------------------------------------------------------------
(* The invariant: matches with data join the heap. *)

LEMMA MemorySaved ==
    ASSUME Memory, NEW data \in Seq(Seq(Byte)), mm' = SaveAll(mm, data)
    PROVE  Added(mm, data, FreeHandles(mm, Len(data)), mm')
<1>1. IsFiniteSet(DOMAIN mm)
  BY DEF Memory
<1>2. Added(mm, data, FreeHandles(mm, Len(data)), SaveAll(mm, data))
  BY <1>1, SaveAllIs
<1> QED
  BY <1>2

\* The strings data are saved under the handles h, one for each of the entries ent; they
\* join the heap, and the entries L, which have no data, leave it.
JoinAndLeave(data, h, ent, L) ==
    /\ data \in Seq(Seq(Byte)) /\ \A k \in DOMAIN data : Len(data[k]) > 0
    /\ h = FreeHandles(mm, Len(data))
    /\ \A k \in DOMAIN data :
          /\ ent[k] \in HeapEntry
          /\ ent[k].index = h[k]
          /\ ent[k].len = Len(data[k])
          /\ ent[k].seq = seqCounter + k - 1
    /\ L \in SUBSET heap /\ Barrier \notin L /\ \A e \in L : e.index = 0
    /\ heap' = (heap \cup {ent[k] : k \in DOMAIN data}) \ L
    /\ seqCounter' = seqCounter + Len(data)
    /\ mm' = SaveAll(mm, data)

LEMMA SavedEntriesJoin ==
    ASSUME TypeOK, HeapShape, Memory,
           NEW data, NEW h, NEW ent, NEW L, JoinAndLeave(data, h, ent, L)
    PROVE  /\ HeapShape' /\ Memory'
           /\ heap' \subseteq HeapEntry
           /\ DOMAIN mm' \subseteq Nat \ {0} /\ Range(mm') \subseteq Seq(Byte)
           /\ \A k \in DOMAIN data : ent[k].index # 0 /\ ent[k].len > 0 /\ ent[k] \in heap'
<1> DEFINE E == {ent[k] : k \in DOMAIN data}
           n == Len(data)
           H == {h[k] : k \in DOMAIN data}
<1>0. /\ data \in Seq(Seq(Byte)) /\ \A k \in DOMAIN data : Len(data[k]) > 0
      /\ h = FreeHandles(mm, Len(data))
      /\ L \in SUBSET heap /\ Barrier \notin L /\ \A e \in L : e.index = 0
      /\ heap' = (heap \cup E) \ L
      /\ seqCounter' = seqCounter + n
      /\ mm' = SaveAll(mm, data)
  BY DEF JoinAndLeave
<1>1. n \in Nat /\ DOMAIN data = 1 .. n /\ \A k \in DOMAIN data : data[k] \in Seq(Byte)
  BY <1>0
<1>2. IsFiniteSet(DOMAIN mm)
  BY DEF Memory
<1>3. /\ \A k \in DOMAIN data : h[k] \in Nat \ {0} /\ h[k] \notin DOMAIN mm
      /\ \A j, k \in DOMAIN data : h[j] = h[k] => j = k
  <2>1. h = FreeHandles(mm, n)
    BY <1>0
  <2> HIDE DEF n
  <2> DEFINE g == FreeHandles(mm, n)
  <2>2. /\ \A k \in 1 .. n : g[k] \in Nat \ {0} /\ g[k] \notin DOMAIN mm
        /\ \A j, k \in 1 .. n : g[j] = g[k] => j = k
    BY <1>1, <1>2, FreeHandlesAre
  <2> HIDE DEF g
  <2>3. h = g
    BY <2>1 DEF g
  <2> QED
    BY <1>1, <2>2, <2>3
<1>4. /\ DOMAIN mm' = DOMAIN mm \cup H
      /\ IsFiniteSet(DOMAIN mm')
      /\ \A i \in DOMAIN mm : mm'[i] = mm[i]
      /\ \A k \in DOMAIN data : mm'[h[k]] = data[k]
  <2>1. mm' = SaveAll(mm, data) /\ h = FreeHandles(mm, Len(data))
    BY <1>0
  <2>2. Added(mm, data, FreeHandles(mm, Len(data)), mm')
    BY <1>0, <2>1, MemorySaved
  <2>3. Added(mm, data, h, mm')
    BY <2>1, <2>2
  <2> QED
    BY <2>3 DEF Added
<1>5. \A k \in DOMAIN data :
          /\ ent[k] \in HeapEntry /\ ent[k].index = h[k] /\ ent[k].len = Len(data[k])
          /\ ent[k].len > 0
          /\ ent[k].seq = seqCounter + k - 1
  BY <1>0 DEF JoinAndLeave
<1>6. seqCounter \in Nat /\ \A e \in heap : e.seq \in Nat /\ e.seq < seqCounter
  BY TypesAre DEF HeapShape
<1>7. \A k \in DOMAIN data : ent[k].seq \in Nat /\ seqCounter <= ent[k].seq /\ ent[k].seq < seqCounter + n
  BY <1>1, <1>5, <1>6
<1>8. IsFiniteSet(heap')
  <2> DEFINE f == [k \in DOMAIN data |-> ent[k]]
  <2>1. IsFiniteSet(DOMAIN data)
    BY <1>1, FS_Interval
  <2>2. IsFiniteSet({f[k] : k \in DOMAIN data})
    <3> DEFINE D == DOMAIN data
    <3>1. IsFiniteSet(D)
      BY <2>1
    <3> HIDE DEF f, D
    <3>2. IsFiniteSet({f[k] : k \in D})
      BY <3>1, FiniteImage
    <3> QED
      BY <3>2 DEF D
  <2>3. IsFiniteSet(E)
    BY <2>2
  <2>4. IsFiniteSet(heap \cup E)
    <3> HIDE DEF E
    <3> QED
      BY <2>3, FS_Union DEF HeapShape
  <2> DEFINE U == heap \cup E
  <2>5. heap' = U \ L
    BY <1>0
  <2> HIDE DEF U
  <2>6. IsFiniteSet(U \ L)
    BY <2>4, FS_Difference DEF U
  <2> QED
    BY <2>5, <2>6
<1>9. heap' \subseteq HeapEntry
  <2>1. heap \subseteq HeapEntry
    BY DEF TypeOK
  <2> QED
    BY <1>0, <1>5, <2>1
<1>10. \A e \in heap' : (e \in heap /\ e \notin L) \/ \E k \in DOMAIN data : e = ent[k]
  BY <1>0
<1>11. \A k \in DOMAIN data : ent[k] \in heap'
  <2>1. ASSUME NEW k \in DOMAIN data PROVE ent[k] \in heap'
    <3>1. ent[k] \notin heap
      <4>1. SUFFICES ASSUME ent[k] \in heap PROVE FALSE
        OBVIOUS
      <4>2. ent[k].seq \in Nat /\ ent[k].seq < seqCounter
        BY <1>6, <4>1
      <4>3. seqCounter <= ent[k].seq
        BY <1>7
      <4> DEFINE q == ent[k].seq
      <4> HIDE DEF q
      <4> QED
        BY <1>6, <4>2, <4>3 DEF q
    <3>2. ent[k] \notin L /\ ent[k] \in E
      BY <1>0, <3>1
    <3> QED
      BY <1>0, <3>2
  <2> QED
    BY <2>1
<1>12. seqCounter' = seqCounter + n
  BY <1>0
<1>13. HeapShape'
  <2>1. ASSUME NEW e \in heap' PROVE e.seq < seqCounter'
    <3>1. CASE e \in heap
      BY <1>1, <1>6, <1>12, <3>1
    <3>2. CASE \E k \in DOMAIN data : e = ent[k]
      BY <1>7, <1>12, <3>2
    <3> QED
      BY <1>10, <3>1, <3>2
  <2>2. ASSUME NEW e \in heap', NEW f \in heap', e.seq = f.seq PROVE e = f
    <3>1. CASE e \in heap /\ f \in heap
      BY <2>2, <3>1 DEF HeapShape
    <3>2. CASE e \in heap /\ f \notin heap
      <4>1. PICK k \in DOMAIN data : f = ent[k]
        BY <1>10, <3>2
      <4> QED
        BY <1>6, <1>7, <2>2, <3>2, <4>1
    <3>3. CASE e \notin heap /\ f \in heap
      <4>1. PICK k \in DOMAIN data : e = ent[k]
        BY <1>10, <3>3
      <4> QED
        BY <1>6, <1>7, <2>2, <3>3, <4>1
    <3>4. CASE e \notin heap /\ f \notin heap
      <4>1. PICK j \in DOMAIN data : e = ent[j]
        BY <1>10, <3>4
      <4>2. PICK k \in DOMAIN data : f = ent[k]
        BY <1>10, <3>4
      <4>3. seqCounter + j - 1 = seqCounter + k - 1
        BY <1>5, <2>2, <4>1, <4>2
      <4>4. j = k
        BY <1>1, <1>6, <4>3
      <4> QED
        BY <4>1, <4>2, <4>4
    <3> QED
      BY <3>1, <3>2, <3>3, <3>4
  <2>3. Barrier \in heap'
    BY <1>0 DEF HeapShape
  <2> QED
    BY <1>8, <2>1, <2>2, <2>3 DEF HeapShape
<1>14. Memory'
  <2>1. ASSUME NEW e \in heap', e.index # 0
        PROVE  e.index \in DOMAIN mm' /\ Len(mm'[e.index]) = e.len /\ e.len > 0
    <3>1. CASE e \in heap
      BY <1>4, <2>1, <3>1 DEF Memory
    <3>2. CASE \E k \in DOMAIN data : e = ent[k]
      <4>1. PICK k \in DOMAIN data : e = ent[k]
        BY <3>2
      <4>2. h[k] \in DOMAIN mm' /\ mm'[h[k]] = data[k]
        BY <1>4
      <4> QED
        BY <1>5, <4>1, <4>2
    <3> QED
      BY <1>10, <3>1, <3>2
  <2>2. ASSUME NEW i \in DOMAIN mm' PROVE \E e \in heap' : e.index = i
    <3>1. CASE i \in DOMAIN mm
      <4>1. PICK e \in heap : e.index = i
        BY <3>1 DEF Memory
      <4>2. i # 0
        BY <3>1, TypesAre
      <4> QED
        BY <1>0, <4>1, <4>2
    <3>2. CASE i \in H
      <4>1. PICK k \in DOMAIN data : i = h[k]
        BY <3>2
      <4> QED
        BY <1>5, <1>11, <4>1
    <3> QED
      BY <1>4, <3>1, <3>2
  <2>3. ASSUME NEW e \in heap', NEW f \in heap', e.index # 0, e.index = f.index PROVE e = f
    <3>1. CASE e \in heap /\ f \in heap
      BY <2>3, <3>1 DEF Memory
    <3>2. CASE e \in heap /\ f \notin heap
      <4>1. PICK k \in DOMAIN data : f = ent[k]
        BY <1>10, <3>2
      <4>2. e.index \in DOMAIN mm
        BY <2>3, <3>2 DEF Memory
      <4> QED
        BY <1>3, <1>5, <2>3, <4>1, <4>2
    <3>3. CASE e \notin heap /\ f \in heap
      <4>1. PICK k \in DOMAIN data : e = ent[k]
        BY <1>10, <3>3
      <4>2. f.index \in DOMAIN mm
        BY <2>3, <3>3 DEF Memory
      <4> QED
        BY <1>3, <1>5, <2>3, <4>1, <4>2
    <3>4. CASE e \notin heap /\ f \notin heap
      <4>1. PICK j \in DOMAIN data : e = ent[j]
        BY <1>10, <3>4
      <4>2. PICK k \in DOMAIN data : f = ent[k]
        BY <1>10, <3>4
      <4>3. j = k
        BY <1>3, <1>5, <2>3, <4>1, <4>2
      <4> QED
        BY <4>1, <4>2, <4>3
    <3> QED
      BY <3>1, <3>2, <3>3, <3>4
  <2> QED
    BY <1>4, <2>1, <2>2, <2>3 DEF Memory
<1>15. DOMAIN mm' \subseteq Nat \ {0} /\ Range(mm') \subseteq Seq(Byte)
  <2>1. \A i \in DOMAIN mm : i \in Nat \ {0} /\ mm[i] \in Seq(Byte)
    BY TypesAre
  <2>2. ASSUME NEW i \in DOMAIN mm' PROVE i \in Nat \ {0} /\ mm'[i] \in Seq(Byte)
    <3>1. CASE i \in DOMAIN mm
      BY <1>4, <2>1, <3>1
    <3>2. CASE i \in H
      <4>1. PICK k \in DOMAIN data : i = h[k]
        BY <3>2
      <4> QED
        BY <1>1, <1>3, <1>4, <4>1
    <3> QED
      BY <1>4, <3>1, <3>2
  <2> QED
    BY <2>2 DEF Range
<1>16. \A k \in DOMAIN data : ent[k].index # 0 /\ ent[k].len > 0
  BY <1>3, <1>5
<1> QED
  BY <1>9, <1>11, <1>13, <1>14, <1>15, <1>16

LEMMA RestoreMarkStep == IInv /\ RestoreMark => IInv'
<1> SUFFICES ASSUME IInv, RestoreMark PROVE IInv'
  OBVIOUS
<1> DEFINE mark == First(heap)
           recs == disk[mark.src]
           data == [k \in DOMAIN recs |-> recs[k].data]
           n == Len(recs)
           h == FreeHandles(mm, n)
           ent == [k \in DOMAIN recs |-> Entry(recs[k].src, recs[k].dest, Len(recs[k].data),
                                               h[k], seqCounter + k - 1)]
<1>1. /\ pc = "process" /\ IsMarkingPoint(mark)
      /\ mm' = SaveAll(mm, data)
      /\ heap' = (heap \cup {ent[k] : k \in DOMAIN recs}) \ {mark}
      /\ seqCounter' = seqCounter + n
      /\ freeBlocks' = Append(freeBlocks, mark.src)
      /\ UNCHANGED <<archive, opts, pc, block, cur, out, inPos, backend, disk, newBlock>>
  <2>1. /\ pc = "process" /\ IsMarkingPoint(First(heap)) /\ RestoreFromDisk(First(heap))
        /\ UNCHANGED <<archive, opts, pc, block, cur, out, inPos, backend>>
    BY DEF RestoreMark
  <2>2. {ent[k] : k \in DOMAIN recs} =
            {Entry(recs[k].src, recs[k].dest, Len(recs[k].data), h[k], seqCounter + k - 1) : k \in DOMAIN recs}
    OBVIOUS
  <2> HIDE DEF ent
  <2> QED
    BY <2>1, <2>2 DEF RestoreFromDisk
<1>2. TypeOK /\ HeapShape /\ Memory /\ VmFile /\ Position /\ Sources /\ TheJob /\ MarksDue
  BY DEF IInv
<1>3. mark \in heap /\ mark \in Marks
  BY <1>1, <1>2, FirstDue DEF Marks
<1> HIDE DEF mark
<1>4. /\ mark.src \in DOMAIN disk /\ recs \in Seq(SpillRecord) /\ n \in Nat /\ DOMAIN recs = 1 .. n
      /\ \A k \in DOMAIN recs : recs[k] \in SpillRecord
  <2>1. mark.src \in DOMAIN disk
    BY <1>2, <1>3 DEF VmFile
  <2>2. recs \in Seq(SpillRecord)
    BY <1>2, <2>1, TypesAre
  <2> HIDE DEF recs
  <2>3. n \in Nat /\ DOMAIN recs = 1 .. n /\ \A k \in DOMAIN recs : recs[k] \in SpillRecord
    BY <2>2
  <2> QED
    BY <2>1, <2>2, <2>3
<1>5. /\ \A k \in DOMAIN recs : Len(recs[k].data) > 0
      /\ \A k \in DOMAIN recs : FromBefore(recs[k].src, recs[k].dest, Len(recs[k].data))
  BY <1>1, <1>2, <1>4 DEF VmFile, Sources, Running
<1>6. /\ seqCounter \in Nat /\ newBlock \in Nat /\ DOMAIN disk = 0 .. newBlock - 1
      /\ cur \in Nat /\ inPos \in Nat
      /\ freeBlocks \in Seq(0 .. newBlock - 1)
  BY <1>2, TypesAre
<1>7. mark.len = 0 /\ mark.index = 0 /\ mark # Barrier
  <2>1. mark.len = 0
    BY <1>1 DEF IsMarkingPoint
  <2>2. mark.index = 0
    BY <1>2, <1>3, <2>1 DEF Memory
  <2> QED
    BY <1>1, <2>1, <2>2, BarrierIs
<1> HIDE DEF recs
<1>8. data \in Seq(Seq(Byte)) /\ Len(data) = n /\ DOMAIN data = DOMAIN recs
      /\ \A k \in DOMAIN data : data[k] = recs[k].data /\ Len(data[k]) > 0
  <2>1. \A k \in DOMAIN recs : recs[k].data \in Seq(Byte)
    BY <1>4 DEF SpillRecord
  <2>2. data \in [1 .. n -> Seq(Byte)]
    BY <1>4, <2>1
  <2>3. data \in Seq(Seq(Byte))
    BY <1>4, <2>2
  <2>4. DOMAIN data = 1 .. n
    BY <1>4
  <2>5. Len(data) = n
    BY <1>4, <2>3, <2>4
  <2> QED
    BY <1>4, <1>5, <2>3, <2>4, <2>5
<1>9. IsFiniteSet(DOMAIN mm)
  BY <1>2 DEF Memory
<1>10. \A k \in DOMAIN recs : h[k] \in Nat \ {0}
  BY <1>4, <1>9, FreeHandlesAre
<1> HIDE DEF h
<1>11. ASSUME NEW k \in DOMAIN recs
       PROVE  /\ ent[k] \in HeapEntry /\ ent[k].src = recs[k].src /\ ent[k].dest = recs[k].dest
              /\ ent[k].len = Len(recs[k].data) /\ ent[k].index = h[k]
              /\ ent[k].seq = seqCounter + k - 1
  <2> DEFINE s == recs[k].src
             d == recs[k].dest
             l == Len(recs[k].data)
             i == h[k]
             q == seqCounter + k - 1
  <2>1. s \in Nat /\ d \in Nat /\ l \in Nat
    BY <1>4 DEF SpillRecord
  <2>2. i \in Nat
    BY <1>10
  <2>3. q \in Nat
    BY <1>4, <1>6
  <2>4. ent[k] = Entry(s, d, l, i, q)
    OBVIOUS
  <2> HIDE DEF s, d, l, i, q, ent
  <2>5. /\ ent[k] \in HeapEntry /\ ent[k].src = s /\ ent[k].dest = d
        /\ ent[k].len = l /\ ent[k].index = i /\ ent[k].seq = q
    BY <2>1, <2>2, <2>3, <2>4 DEF Entry, HeapEntry
  <2> QED
    BY <2>5 DEF s, d, l, i, q
<1> HIDE DEF ent
<1>12. /\ HeapShape' /\ Memory' /\ heap' \subseteq HeapEntry
       /\ DOMAIN mm' \subseteq Nat \ {0} /\ Range(mm') \subseteq Seq(Byte)
       /\ \A k \in DOMAIN recs : ent[k].index # 0 /\ ent[k].len > 0
  <2> DEFINE L == {mark}
  <2>1. L \in SUBSET heap /\ Barrier \notin L /\ \A e \in L : e.index = 0
    BY <1>3, <1>7
  <2>2. heap' = (heap \cup {ent[k] : k \in DOMAIN data}) \ L
    BY <1>1, <1>8
  <2>3. \A k \in DOMAIN data :
              /\ ent[k] \in HeapEntry
              /\ ent[k].index = h[k]
              /\ ent[k].len = Len(data[k])
              /\ ent[k].seq = seqCounter + k - 1
    BY <1>8, <1>11
  <2>4. seqCounter' = seqCounter + Len(data) /\ mm' = SaveAll(mm, data)
    BY <1>1, <1>8
  <2>5. \A k \in DOMAIN data : Len(data[k]) > 0
    BY <1>8
  <2>6. DOMAIN data = DOMAIN recs /\ data \in Seq(Seq(Byte))
    BY <1>8
  <2>0. h = FreeHandles(mm, Len(data))
    BY <1>8 DEF h
  <2> HIDE DEF L, data, ent
  <2>7. JoinAndLeave(data, h, ent, L)
    BY <2>0, <2>1, <2>2, <2>3, <2>4, <2>5, <2>6 DEF JoinAndLeave
  <2>8. /\ HeapShape' /\ Memory' /\ heap' \subseteq HeapEntry
        /\ DOMAIN mm' \subseteq Nat \ {0} /\ Range(mm') \subseteq Seq(Byte)
        /\ \A k \in DOMAIN data : ent[k].index # 0 /\ ent[k].len > 0 /\ ent[k] \in heap'
    BY <1>2, <2>7, SavedEntriesJoin
  <2> QED
    BY <2>6, <2>8
<1>13. Marks' = Marks \ {mark}
  <2>1. \A e : IsMarkingPoint(e)' = IsMarkingPoint(e)
    BY DEF IsMarkingPoint
  <2>2. \A k \in DOMAIN recs : ~ IsMarkingPoint(ent[k])
    BY <1>12 DEF IsMarkingPoint
  <2> QED
    BY <1>1, <2>1, <2>2 DEF Marks
<1>14. disk' = disk /\ newBlock' = newBlock /\ pc' = pc
  BY <1>1
<1>15. /\ freeBlocks' \in Seq(0 .. newBlock - 1)
       /\ DOMAIN freeBlocks' = 1 .. Len(freeBlocks) + 1
       /\ Len(freeBlocks) \in Nat /\ DOMAIN freeBlocks = 1 .. Len(freeBlocks)
       /\ \A k \in DOMAIN freeBlocks : freeBlocks'[k] = freeBlocks[k]
       /\ freeBlocks'[Len(freeBlocks) + 1] = mark.src
  <2> DEFINE f == freeBlocks
             x == mark.src
             S == 0 .. newBlock - 1
  <2>1. f \in Seq(S) /\ x \in S /\ f' = Append(f, x)
    BY <1>1, <1>4, <1>6
  <2> HIDE DEF f, x, S
  <2>2. /\ f' \in Seq(S) /\ DOMAIN f' = 1 .. Len(f) + 1
        /\ Len(f) \in Nat /\ DOMAIN f = 1 .. Len(f)
        /\ \A k \in DOMAIN f : f'[k] = f[k]
        /\ f'[Len(f) + 1] = x
    BY <2>1
  <2> QED
    BY <2>2 DEF f, x, S
<1>16. TheJob'
  BY <1>1, <1>2 DEF TheJob
<1>17. VmFile'
  <2>1. \A m \in Marks' : m.src \in DOMAIN disk'
    BY <1>2, <1>13, <1>14 DEF VmFile
  <2>2. \A m, p \in Marks' : m.src = p.src => m = p
    BY <1>2, <1>13 DEF VmFile
  <2>3. ASSUME NEW k \in DOMAIN freeBlocks'
        PROVE  \/ k \in DOMAIN freeBlocks /\ freeBlocks'[k] = freeBlocks[k] /\ freeBlocks'[k] # mark.src
               \/ k = Len(freeBlocks) + 1 /\ freeBlocks'[k] = mark.src
    <3>1. k \in 1 .. Len(freeBlocks) \/ k = Len(freeBlocks) + 1
      BY <1>15
    <3> QED
      BY <1>2, <1>3, <1>15, <3>1 DEF VmFile
  <2>4. \A j, k \in DOMAIN freeBlocks' : freeBlocks'[j] = freeBlocks'[k] => j = k
    BY <1>2, <2>3 DEF VmFile
  <2>5. \A m \in Marks' : \A k \in DOMAIN freeBlocks' : freeBlocks'[k] # m.src
    BY <1>2, <1>3, <1>13, <2>3 DEF VmFile
  <2>6. ASSUME NEW w \in DOMAIN disk'
        PROVE  (\E k \in DOMAIN freeBlocks' : freeBlocks'[k] = w) \/ (\E m \in Marks' : m.src = w)
    <3>1. CASE w = mark.src
      <4>1. Len(freeBlocks) + 1 \in DOMAIN freeBlocks'
        BY <1>15
      <4> QED
        BY <1>15, <3>1, <4>1
    <3>2. CASE \E k \in DOMAIN freeBlocks : freeBlocks[k] = w
      <4>1. \A k \in DOMAIN freeBlocks : k \in DOMAIN freeBlocks'
        BY <1>15
      <4> QED
        BY <1>15, <3>2, <4>1
    <3>3. CASE w # mark.src /\ \E m \in Marks : m.src = w
      BY <1>13, <3>3
    <3> QED
      BY <1>2, <1>14, <3>1, <3>2, <3>3 DEF VmFile
  <2>7. \A w \in DOMAIN disk' : \A k \in DOMAIN disk'[w] : Len(disk'[w][k].data) > 0
    BY <1>2, <1>14 DEF VmFile
  <2>8. ~ Stuck' => \A m \in Marks' : disk'[m.src] # <<>>
    BY <1>2, <1>13, <1>14 DEF VmFile, Stuck
  <2> QED
    BY <2>1, <2>2, <2>4, <2>5, <2>6, <2>7, <2>8 DEF VmFile
<1>18. MarksDue'
  BY <1>1, <1>2, <1>13, <1>14 DEF MarksDue, Stuck
<1>19. TypeOK'
  <2>1. {cur', inPos', seqCounter', newBlock'} \subseteq Nat
    BY <1>1, <1>4, <1>6
  <2> QED
    BY <1>1, <1>2, <1>12, <1>15, <2>1 DEF TypeOK, INVALID_INDEX
<1>20. /\ BlockStart' = BlockStart /\ BlockEnd' = BlockEnd /\ OrigSize' = OrigSize
       /\ Literals' = Literals /\ MatchList' = MatchList /\ MaximumSave' = MaximumSave
       /\ \A k : ValidRecord(k)' = ValidRecord(k)
  BY <1>1 DEF BlockStart, BlockEnd, OrigSize, Literals, MatchList, ValidRecord, MaximumSave
<1>21. Position'
  BY <1>1, <1>2, <1>20 DEF Position, InABlock
<1>22. Sources'
  <2>1. Complete' = Complete
    BY <1>1, <1>20 DEF Complete
  <2>2. \A s, d, l : FromBefore(s, d, l)' = FromBefore(s, d, l)
    BY <2>1 DEF FromBefore
  <2>3. ASSUME NEW f \in heap'
        PROVE  \/ f = Barrier \/ IsMarkingPoint(f) \/ Within(f)'
               \/ FromBefore(f.src, f.dest, f.len)' /\ (f.index # 0 \/ f.len >= MaximumSave')
    <3>1. CASE f \in heap
      <4>1. \/ f = Barrier \/ IsMarkingPoint(f) \/ Within(f)
            \/ FromBefore(f.src, f.dest, f.len) /\ (f.index # 0 \/ f.len >= MaximumSave)
        BY <1>1, <1>2, <3>1 DEF Sources, Running
      <4>2. Within(f)' = Within(f)
        BY <1>1, <1>20 DEF Within
      <4> QED
        BY <1>20, <2>2, <4>1, <4>2
    <3>2. CASE f \notin heap
      <4>1. PICK k \in DOMAIN recs : f = ent[k]
        BY <1>1, <3>2
      <4> QED
        BY <1>5, <1>11, <1>12, <2>2, <4>1
    <3> QED
      BY <3>1, <3>2
  <2>4. \A v \in DOMAIN disk : \A k \in DOMAIN disk[v] :
            FromBefore(disk[v][k].src, disk[v][k].dest, Len(disk[v][k].data))
    BY <1>1, <1>2 DEF Sources, Running
  <2> QED
    BY <1>1, <2>2, <2>3, <2>4 DEF Sources
<1> QED
  BY <1>12, <1>16, <1>17, <1>18, <1>19, <1>21, <1>22 DEF IInv

LEMMA SaveMatchStep == IInv /\ SaveMatch => IInv'
<1> SUFFICES ASSUME IInv, SaveMatch PROVE IInv'
  OBVIOUS
<1> DEFINE r == MatchList[cur]
           from == r.src - BlockStart
           bytes == SubSeq(out, from + 1, from + r.len)
           data == <<bytes>>
           h == FreeHandles(mm, 1)
           e == Entry(r.src, r.dest, r.len, h[1], seqCounter)
           ent == <<e>>
<1>1. /\ ToSave /\ pc = "save"
      /\ mm' = SaveAll(mm, data)
      /\ heap' = heap \cup {e} /\ seqCounter' = seqCounter + 1 /\ cur' = cur + 1
      /\ UNCHANGED <<archive, opts, pc, block, out, inPos, backend, disk, freeBlocks, newBlock>>
  BY DEF SaveMatch, MustSave, ToSave, InsertNext
<1>2. TypeOK /\ HeapShape /\ Memory /\ VmFile /\ Position /\ Sources /\ TheJob /\ MarksDue
  BY DEF IInv
<1>3. /\ archive.version = "future"
      /\ cur \in Nat
      /\ r.src \in Nat /\ r.dest \in Nat /\ r.len \in Nat \ {0}
      /\ BlockStart \in Nat /\ BlockEnd \in Nat /\ BlockEnd = BlockStart + OrigSize
      /\ BlockStart <= r.src /\ r.src + r.len <= BlockEnd /\ r.src < r.dest
  BY <1>1, NextRecord
<1>4. out \in Seq(Byte) /\ Len(out) = OrigSize /\ Len(out) \in Nat
      /\ seqCounter \in Nat /\ inPos \in Nat /\ newBlock \in Nat
  BY <1>1, <1>2, TypesAre DEF Position
<1> HIDE DEF r
<1>5. bytes \in Seq(Byte) /\ Len(bytes) = r.len
  <2> DEFINE n == r.len
             s == r.src
             b == BlockStart
  <2>1. from \in Nat /\ n \in Nat /\ from + n <= Len(out)
    <3>1. s \in Nat /\ n \in Nat /\ b \in Nat /\ b <= s /\ s + n <= b + Len(out) /\ from = s - b
      BY <1>3, <1>4
    <3> HIDE DEF n, s, b, from
    <3>2. from \in Nat /\ n \in Nat /\ from + n <= Len(out)
      BY <1>4, <3>1
    <3> QED
      BY <3>2 DEF n
  <2> HIDE DEF from, n
  <2>2. SubSeq(out, from + 1, from + n) \in Seq(Byte) /\ Len(SubSeq(out, from + 1, from + n)) = n
    BY <1>4, <2>1, PartOf
  <2> QED
    BY <2>2 DEF n
<1> HIDE DEF bytes
<1>6. /\ data \in Seq(Seq(Byte)) /\ Len(data) = 1 /\ DOMAIN data = {1} /\ data[1] = bytes
  BY <1>5
<1>7. h[1] \in Nat \ {0}
  <2>1. IsFiniteSet(DOMAIN mm)
    BY <1>2 DEF Memory
  <2> QED
    BY <2>1, FreeHandlesAre
<1>8. /\ e \in HeapEntry /\ e.src = r.src /\ e.dest = r.dest
      /\ e.len = r.len /\ e.index = h[1] /\ e.seq = seqCounter
  <2> DEFINE s == r.src
             d == r.dest
             l == r.len
             i == h[1]
  <2>1. s \in Nat /\ d \in Nat /\ l \in Nat /\ i \in Nat
    BY <1>3, <1>7
  <2>2. e = Entry(s, d, l, i, seqCounter)
    OBVIOUS
  <2> HIDE DEF s, d, l, i, e
  <2>3. /\ e \in HeapEntry /\ e.src = s /\ e.dest = d
        /\ e.len = l /\ e.index = i /\ e.seq = seqCounter
    BY <1>4, <2>1, <2>2 DEF Entry, HeapEntry
  <2> QED
    BY <2>3 DEF s, d, l, i
<1> HIDE DEF e
<1>9. ent[1] = e
  OBVIOUS
<1> HIDE DEF ent, data
<1>10. /\ HeapShape' /\ Memory' /\ heap' \subseteq HeapEntry
       /\ DOMAIN mm' \subseteq Nat \ {0} /\ Range(mm') \subseteq Seq(Byte)
       /\ e.index # 0 /\ e.len > 0
  <2> DEFINE L == {}
  <2>1. {ent[k] : k \in DOMAIN data} = {e}
    BY <1>6, <1>9
  <2>2. h = FreeHandles(mm, Len(data))
    BY <1>6
  <2> HIDE DEF h
  <2>3. \A k \in DOMAIN data :
              /\ ent[k] \in HeapEntry
              /\ ent[k].index = h[k]
              /\ ent[k].len = Len(data[k])
              /\ ent[k].seq = seqCounter + k - 1
    BY <1>4, <1>5, <1>6, <1>8, <1>9
  <2>4. heap' = (heap \cup {ent[k] : k \in DOMAIN data}) \ L
    BY <1>1, <2>1
  <2>5. seqCounter' = seqCounter + Len(data) /\ mm' = SaveAll(mm, data)
    BY <1>1, <1>6
  <2>6. \A k \in DOMAIN data : Len(data[k]) > 0
    BY <1>3, <1>5, <1>6
  <2>7. JoinAndLeave(data, h, ent, L)
    BY <1>6, <2>2, <2>3, <2>4, <2>5, <2>6 DEF JoinAndLeave
  <2> HIDE DEF L
  <2>8. /\ HeapShape' /\ Memory' /\ heap' \subseteq HeapEntry
        /\ DOMAIN mm' \subseteq Nat \ {0} /\ Range(mm') \subseteq Seq(Byte)
        /\ \A k \in DOMAIN data : ent[k].index # 0 /\ ent[k].len > 0
    BY <1>2, <2>7, SavedEntriesJoin
  <2> QED
    BY <1>6, <1>9, <2>8
<1>11. Marks' = Marks /\ disk' = disk /\ pc' = pc
  <2>1. \A f : IsMarkingPoint(f)' = IsMarkingPoint(f)
    BY DEF IsMarkingPoint
  <2>2. ~ IsMarkingPoint(e)
    BY <1>10 DEF IsMarkingPoint
  <2> QED
    BY <1>1, <2>1, <2>2 DEF Marks
<1>12. TheJob'
  BY <1>1, <1>2 DEF TheJob
<1>13. VmFile'
  BY <1>1, <1>2, <1>11 DEF VmFile, Stuck
<1>14. MarksDue'
  BY <1>1, <1>2, <1>11 DEF MarksDue, Stuck
<1>15. TypeOK'
  <2>1. {cur', inPos', seqCounter', newBlock'} \subseteq Nat
    BY <1>1, <1>3, <1>4
  <2> QED
    BY <1>1, <1>2, <1>10, <2>1 DEF TypeOK, INVALID_INDEX
<1>16. /\ BlockStart' = BlockStart /\ BlockEnd' = BlockEnd /\ OrigSize' = OrigSize
       /\ Literals' = Literals /\ MatchList' = MatchList /\ MaximumSave' = MaximumSave
       /\ \A k : ValidRecord(k)' = ValidRecord(k)
  BY <1>1 DEF BlockStart, BlockEnd, OrigSize, Literals, MatchList, ValidRecord, MaximumSave
<1>17. Position'
  <2>1. cur' > 0
    BY <1>1, <1>3
  <2> QED
    BY <1>1, <1>2, <1>3, <1>16, <2>1 DEF Position, InABlock
<1>18. Sources'
  <2>1. Complete = BlockEnd /\ Complete' = BlockEnd
    BY <1>1, <1>16 DEF Complete
  <2>2. \A s, d, l : FromBefore(s, d, l)' = FromBefore(s, d, l)
    BY <2>1 DEF FromBefore
  <2>3. ASSUME NEW f \in heap
        PROVE  \/ f = Barrier \/ IsMarkingPoint(f)
               \/ FromBefore(f.src, f.dest, f.len) /\ (f.index # 0 \/ f.len >= MaximumSave)
    BY <1>1, <1>2 DEF Sources, Running, Within
  <2>4. FromBefore(e.src, e.dest, e.len) /\ e.index # 0
    BY <1>3, <1>8, <1>10, <2>1 DEF FromBefore
  <2>5. \A v \in DOMAIN disk : \A k \in DOMAIN disk[v] :
            FromBefore(disk[v][k].src, disk[v][k].dest, Len(disk[v][k].data))
    BY <1>1, <1>2 DEF Sources, Running
  <2> QED
    BY <1>1, <1>16, <2>2, <2>3, <2>4, <2>5 DEF Sources
<1> QED
  BY <1>10, <1>12, <1>13, <1>14, <1>15, <1>17, <1>18 DEF IInv

-----------------------------------------------------------------------------
(* The invariant holds. *)

LEMMA NothingMoves == IInv /\ UNCHANGED vars => IInv'
<1> SUFFICES ASSUME IInv, UNCHANGED vars PROVE IInv'
  OBVIOUS
<1>1. /\ archive' = archive /\ opts' = opts /\ pc' = pc /\ block' = block /\ cur' = cur
      /\ out' = out /\ inPos' = inPos /\ backend' = backend /\ heap' = heap
      /\ seqCounter' = seqCounter /\ mm' = mm /\ disk' = disk
      /\ freeBlocks' = freeBlocks /\ newBlock' = newBlock
  BY DEF vars, heapVars, memoryVars
<1>2. TheJob' /\ HeapShape' /\ Memory' /\ VmFile' /\ MarksDue'
  BY <1>1, MemoryKept DEF Stuck, heapVars, memoryVars
<1>3. TypeOK'
  BY <1>1 DEF IInv, TypeOK
<1>4. /\ BlockStart' = BlockStart /\ BlockEnd' = BlockEnd /\ OrigSize' = OrigSize
      /\ Literals' = Literals /\ MatchList' = MatchList /\ MaximumSave' = MaximumSave
      /\ \A k : ValidRecord(k)' = ValidRecord(k)
  BY <1>1 DEF BlockStart, BlockEnd, OrigSize, Literals, MatchList, ValidRecord, MaximumSave
<1>5. Position'
  BY <1>1, <1>4 DEF IInv, Position, InABlock
<1>6. Sources'
  BY <1>1, <1>4 DEF IInv, Sources, Running, Within, FromBefore, Complete
<1> QED
  BY <1>2, <1>3, <1>5, <1>6 DEF IInv

LEMMA InvariantKept == IInv /\ [Next]_vars => IInv'
<1> SUFFICES ASSUME IInv, [Next]_vars PROVE IInv'
  OBVIOUS
<1>1. CASE EndOfInput
  BY <1>1, EndOfInputStep
<1>2. CASE IoBlock
  BY <1>2, IoBlockStep
<1>3. CASE ReadBlock
  BY <1>3, ReadBlockStep
<1>4. CASE TakeMatch
  BY <1>4, TakeMatchStep
<1>5. CASE SpillToRestore
  BY <1>5, SpillToRestoreStep
<1>6. CASE RestoreMark
  BY <1>6, RestoreMarkStep
<1>7. CASE CopyTail
  BY <1>7, CopyTailStep
<1>8. CASE SkipDone
  BY <1>8, SkipDoneStep
<1>9. CASE RememberLong
  BY <1>9, RememberLongStep
<1>10. CASE SpillToSave
  BY <1>10, SpillToSaveStep
<1>11. CASE SaveMatch
  BY <1>11, SaveMatchStep
<1>12. CASE WriteBlock
  BY <1>12, WriteBlockStep
<1>13. CASE SpinOn \/ Terminated \/ UNCHANGED vars
  BY <1>13, NothingMoves DEF SpinOn, Terminated
<1> QED
  BY <1>1, <1>2, <1>3, <1>4, <1>5, <1>6, <1>7, <1>8, <1>9, <1>10, <1>11, <1>12, <1>13 DEF Next

\* IInv is an inductive invariant of the decoder: of the port for every archive, whatever
\* its lists say; of the original for those of OriginalAssumption, in which no two records
\* have the same dest and no sum of lengths wraps (decompress.cpp:254, 18).
THEOREM Invariance == Spec => []IInv
<1>1. Init => IInv
  BY InitIs
<1>2. IInv /\ [Next]_vars => IInv'
  BY InvariantKept
<1> QED
  BY <1>1, <1>2, PTL DEF Spec

\* The variables keep their types, for the archives of Invariance: in particular no handle
\* of chunk memory is ever 0, and the VM file has exactly the blocks that new_block has
\* handed out.
THEOREM TypeCorrect == Spec => []TypeOK
<1>1. IInv => TypeOK
  BY DEF IInv
<1> QED
  BY <1>1, Invariance, PTL

\* A handle of chunk memory belongs to one match of the heap, whose length is that of the
\* saved bytes: nothing is freed twice, used after being freed, or leaked (for the archives
\* of Invariance).
THEOREM HandlesNeverShared == Spec => []HandlesOwned
<1>1. ASSUME IInv PROVE HandlesOwned
  <2> DEFINE owners == {e \in heap : e.index # INVALID_INDEX}
             D == DOMAIN mm
             f == [e \in owners |-> e.index]
  <2>1. TypeOK /\ HeapShape /\ Memory
    BY <1>1 DEF IInv
  <2>2. \A e \in owners : e \in heap /\ e.index # 0 /\ e.index \in D /\ Len(mm[e.index]) = e.len
    BY <2>1 DEF Memory, INVALID_INDEX
  <2>3. \A i \in D : \E e \in owners : e.index = i
    <3>1. \A i \in D : i # 0
      BY <2>1, TypesAre
    <3> QED
      BY <2>1, <3>1 DEF Memory, INVALID_INDEX
  <2>4. \A e, g \in owners : e.index = g.index => e = g
    BY <2>1, <2>2 DEF Memory
  <2>5. IsFiniteSet(owners)
    <3>1. IsFiniteSet(heap) /\ owners \subseteq heap
      BY <2>1 DEF HeapShape
    <3> HIDE DEF owners
    <3> QED
      BY <3>1, FS_Subset
  <2>6. {e.index : e \in owners} = D
    BY <2>2, <2>3
  <2>7. Cardinality(owners) = Cardinality(D)
    <3>1. f \in [owners -> D]
      BY <2>2
    <3>2. \A e, g \in owners : f[e] = f[g] => e = g
      BY <2>4
    <3>3. \A i \in D : \E e \in owners : f[e] = i
      BY <2>3
    <3> HIDE DEF f, owners, D
    <3>4. f \in Bijection(owners, D)
      BY <3>1, <3>2, <3>3 DEF Bijection, Injection, Surjection, IsInjective
    <3> QED
      BY <2>5, <3>4, FS_Bijection DEF ExistsBijection
  <2> QED
    BY <2>2, <2>6, <2>7 DEF HandlesOwned
<1> QED
  BY <1>1, Invariance, PTL

\* A block of the VM file is free, once, or has one marking point, which is due exactly
\* with the first match in it: no block is reused while in use, read twice, leaked, or
\* read too late (for the archives of Invariance; the date unless the loop wraps).
THEOREM MarksAlwaysCoverDisk == Spec => []MarksCoverDisk
<1>1. ASSUME IInv PROVE MarksCoverDisk
  <2> SUFFICES ASSUME pc \notin {"stalled", "spinning"} PROVE MarksCoverDisk
    BY DEF MarksCoverDisk
  <2>1. TypeOK /\ VmFile /\ MarksDue /\ ~ Stuck
    BY <1>1 DEF IInv, Stuck
  <2>2. ASSUME NEW v \in DOMAIN disk
        PROVE  Cardinality({k \in DOMAIN freeBlocks : freeBlocks[k] = v})
                 + Cardinality({e \in Marks : e.src = v}) = 1
    <3> DEFINE A == {k \in DOMAIN freeBlocks : freeBlocks[k] = v}
               B == {e \in Marks : e.src = v}
    <3>1. CASE \E k \in DOMAIN freeBlocks : freeBlocks[k] = v
      <4>1. PICK k \in DOMAIN freeBlocks : freeBlocks[k] = v
        BY <3>1
      <4>2. A = {k} /\ B = {}
        BY <2>1, <4>1 DEF VmFile
      <4> HIDE DEF A, B
      <4>3. Cardinality(A) = 1 /\ Cardinality(B) = 0
        BY <4>2, FS_Singleton, FS_EmptySet
      <4>4. Cardinality(A) + Cardinality(B) = 1
        BY <4>3
      <4> QED
        BY <4>4 DEF A, B
    <3>2. CASE ~ \E k \in DOMAIN freeBlocks : freeBlocks[k] = v
      <4>1. PICK m \in Marks : m.src = v
        BY <2>1, <3>2 DEF VmFile
      <4>2. A = {} /\ B = {m}
        BY <2>1, <3>2, <4>1 DEF VmFile
      <4> HIDE DEF A, B
      <4>3. Cardinality(A) = 0 /\ Cardinality(B) = 1
        BY <4>2, FS_Singleton, FS_EmptySet
      <4>4. Cardinality(A) + Cardinality(B) = 1
        BY <4>3
      <4> QED
        BY <4>4 DEF A, B
    <3> QED
      BY <3>1, <3>2
  <2>3. ASSUME ~ opts.wraps, NEW e \in Marks
        PROVE  e.dest = Min({r.dest : r \in Range(disk[e.src])})
    <3> DEFINE recs == disk[e.src]
               S == {r.dest : r \in Range(recs)}
    <3>1. e.src \in DOMAIN disk
      BY <2>1 DEF VmFile
    <3>2. recs \in Seq(SpillRecord)
      BY <2>1, <3>1, TypesAre
    <3>3. S = {recs[k].dest : k \in DOMAIN recs}
      BY DEF Range
    <3>4. (\E k \in DOMAIN recs : recs[k].dest = e.dest) /\ \A k \in DOMAIN recs : e.dest <= recs[k].dest
      BY <2>1, <2>3 DEF MarksDue
    <3>5. \A k \in DOMAIN recs : recs[k].dest \in Nat
      <4>1. \A k \in DOMAIN recs : recs[k] \in SpillRecord
        BY <3>2
      <4> QED
        BY <4>1 DEF SpillRecord
    <3> HIDE DEF recs
    <3> DEFINE d == e.dest
    <3>6. d \in S /\ (\A y \in S : d <= y) /\ S \subseteq Nat
      BY <3>3, <3>4, <3>5
    <3> HIDE DEF S, d
    <3>7. \A x \in S : (\A y \in S : x <= y) => x = d
      <4>1. ASSUME NEW x \in S, \A y \in S : x <= y PROVE x = d
        <5>1. x <= d /\ d <= x /\ x \in Nat /\ d \in Nat
          BY <3>6, <4>1
        <5> QED
          BY <5>1
      <4> QED
        BY <4>1
    <3>8. Min(S) = d
      BY <3>6, <3>7 DEF Min
    <3> QED
      BY <3>8 DEF S, d, recs
  <2> QED
    BY <2>2, <2>3 DEF MarksCoverDisk
<1> QED
  BY <1>1, Invariance, PTL
-----------------------------------------------------------------------------
(* The memory budget. *)

\* What a saved match takes, for each handle.
ChunkWeights(m) == [i \in DOMAIN m |-> ChunksFor(Len(m[i]))]

\* A number of bytes fits in as many chunks as ChunksFor says, and in no fewer.
LEMMA ChunksForIs ==
    ASSUME NEW n \in Nat
    PROVE  /\ ChunksFor(n) \in Nat
           /\ n > 0 => ChunksFor(n) > 0
           /\ \A k \in Nat : n <= k * ChunkPayload <=> ChunksFor(n) <= k
<1> DEFINE c == ChunkPayload
           x == n + c - 1
           q == x \div c
           r == x % c
<1>1. c \in Nat \ {0}
  BY FutureLzAssumption
<1>2. x \in Nat
  BY <1>1
<1>3. ChunksFor(n) = q
  BY DEF ChunksFor
<1> HIDE DEF c, q, r
<1>4. q \in Nat /\ r \in 0 .. c - 1 /\ x = c * q + r
  BY <1>1, <1>2, DivMod DEF q, r
<1>5. n > 0 => q > 0
  <2> SUFFICES ASSUME n > 0, q = 0 PROVE FALSE
    BY <1>4
  <2>1. c * q = 0
    BY <1>1
  <2> QED
    BY <1>1, <1>4, <2>1
<1>6. ASSUME NEW k \in Nat, n <= k * c PROVE q <= k
  <2> SUFFICES ASSUME q >= k + 1 PROVE FALSE
    BY <1>4
  <2>1. c * (k + 1) <= c * q
    BY <1>1, <1>4
  <2>2. c * (k + 1) = k * c + c
    BY <1>1
  <2> QED
    BY <1>1, <1>4, <1>6, <2>1, <2>2
<1>7. ASSUME NEW k \in Nat, q <= k PROVE n <= k * c
  <2>1. c * q <= k * c
    BY <1>1, <1>4, <1>7
  <2>2. n <= c * q
    BY <1>1, <1>4
  <2>3. c * q \in Int /\ k * c \in Int
    BY <1>1, <1>4
  <2> QED
    BY <2>1, <2>2, <2>3
<1> QED
  BY <1>3, <1>4, <1>5, <1>6, <1>7 DEF c

\* The chunks in use are the sum over the handles.
LEMMA UsedChunksIs ==
    ASSUME NEW D, IsFiniteSet(D), NEW v, NEW g, Additive(g, v, D),
           NEW m, DOMAIN m \subseteq D, \A i \in DOMAIN m : v[i] = ChunksFor(Len(m[i]))
    PROVE  UsedChunks(m) = g[DOMAIN m]
<1> DEFINE A == DOMAIN m
           Weigh(i) == ChunksFor(Len(m[i]))
           Solves(iter) ==
              iter = [s \in SUBSET A |->
                        IF s = {} THEN 0
                        ELSE Weigh(CHOOSE x \in s : TRUE) + iter[s \ {CHOOSE x \in s : TRUE}]]
<1>1. UsedChunks(m) = (CHOOSE iter : Solves(iter))[A]
  BY DEF UsedChunks, MapThenSumSet, MapThenFoldSet
<1>2. A \in SUBSET D /\ \A i \in A : v[i] = Weigh(i)
  OBVIOUS
<1> HIDE DEF A, Weigh
<1>3. ASSUME NEW iter PROVE Solves(iter) <=> IsSumOver(iter, v, A)
  <2> DEFINE f == [s \in SUBSET A |->
                     IF s = {} THEN 0
                     ELSE Weigh(CHOOSE x \in s : TRUE) + iter[s \ {CHOOSE x \in s : TRUE}]]
             h == [s \in SUBSET A |-> IF s = {} THEN 0 ELSE v[AnyValue(s)] + iter[s \ {AnyValue(s)}]]
  <2>1. \A s \in SUBSET A : f[s] = h[s]
    <3> SUFFICES ASSUME NEW s \in SUBSET A PROVE f[s] = h[s]
      OBVIOUS
    <3>1. CASE s = {}
      BY <3>1
    <3>2. CASE s # {}
      <4>1. AnyValue(s) \in A
        BY <3>2 DEF AnyValue
      <4>2. f[s] = Weigh(AnyValue(s)) + iter[s \ {AnyValue(s)}]
        BY <3>2 DEF AnyValue
      <4>3. h[s] = v[AnyValue(s)] + iter[s \ {AnyValue(s)}]
        BY <3>2
      <4> QED
        BY <1>2, <4>1, <4>2, <4>3
    <3> QED
      BY <3>1, <3>2
  <2>2. f = [s \in SUBSET A |-> f[s]] /\ h = [s \in SUBSET A |-> h[s]]
    OBVIOUS
  <2>3. (Solves(iter) <=> iter = f) /\ (IsSumOver(iter, v, A) <=> iter = h)
    BY DEF IsSumOver
  <2> HIDE DEF f, h, Solves
  <2>4. f = h
    BY <2>1, <2>2
  <2> QED
    BY <2>3, <2>4
<1> HIDE DEF Solves
<1>4. (\E iter : IsSumOver(iter, v, A)) /\ \A iter : IsSumOver(iter, v, A) => iter[A] = g[A]
  BY <1>2, SumOver
<1>5. Solves(CHOOSE iter : Solves(iter))
  BY <1>3, <1>4
<1>6. UsedChunks(m) = g[A]
  BY <1>1, <1>3, <1>4, <1>5
<1> QED
  BY <1>6 DEF A

\* So is what a VM block expands to, over its records.
LEMMA RestoredPayloadIs ==
    ASSUME NEW recs, IsFiniteSet(DOMAIN recs), NEW v, NEW g, Additive(g, v, DOMAIN recs),
           \A k \in DOMAIN recs : v[k] = ChunksFor(Len(recs[k].data)) * ChunkPayload
    PROVE  RestoredPayload(recs) = g[DOMAIN recs]
<1> DEFINE A == DOMAIN recs
           Weigh(k) == ChunksFor(Len(recs[k].data)) * ChunkPayload
           Solves(iter) ==
              iter = [s \in SUBSET A |->
                        IF s = {} THEN 0
                        ELSE Weigh(CHOOSE x \in s : TRUE) + iter[s \ {CHOOSE x \in s : TRUE}]]
<1>1. RestoredPayload(recs) = (CHOOSE iter : Solves(iter))[A]
  BY DEF RestoredPayload, MapThenSumSet, MapThenFoldSet
<1>2. A \in SUBSET A /\ \A i \in A : v[i] = Weigh(i)
  OBVIOUS
<1>0. IsFiniteSet(A) /\ Additive(g, v, A)
  OBVIOUS
<1> HIDE DEF A, Weigh
<1>3. ASSUME NEW iter PROVE Solves(iter) <=> IsSumOver(iter, v, A)
  <2> DEFINE f == [s \in SUBSET A |->
                     IF s = {} THEN 0
                     ELSE Weigh(CHOOSE x \in s : TRUE) + iter[s \ {CHOOSE x \in s : TRUE}]]
             h == [s \in SUBSET A |-> IF s = {} THEN 0 ELSE v[AnyValue(s)] + iter[s \ {AnyValue(s)}]]
  <2>1. \A s \in SUBSET A : f[s] = h[s]
    <3> SUFFICES ASSUME NEW s \in SUBSET A PROVE f[s] = h[s]
      OBVIOUS
    <3>1. CASE s = {}
      BY <3>1
    <3>2. CASE s # {}
      <4>1. AnyValue(s) \in A
        BY <3>2 DEF AnyValue
      <4>2. f[s] = Weigh(AnyValue(s)) + iter[s \ {AnyValue(s)}]
        BY <3>2 DEF AnyValue
      <4>3. h[s] = v[AnyValue(s)] + iter[s \ {AnyValue(s)}]
        BY <3>2
      <4> QED
        BY <1>2, <4>1, <4>2, <4>3
    <3> QED
      BY <3>1, <3>2
  <2>2. f = [s \in SUBSET A |-> f[s]] /\ h = [s \in SUBSET A |-> h[s]]
    OBVIOUS
  <2>3. (Solves(iter) <=> iter = f) /\ (IsSumOver(iter, v, A) <=> iter = h)
    BY DEF IsSumOver
  <2> HIDE DEF f, h, Solves
  <2>4. f = h
    BY <2>1, <2>2
  <2> QED
    BY <2>3, <2>4
<1> HIDE DEF Solves
<1>4. (\E iter : IsSumOver(iter, v, A)) /\ \A iter : IsSumOver(iter, v, A) => iter[A] = g[A]
  BY <1>0, <1>2, SumOver
<1>5. Solves(CHOOSE iter : Solves(iter))
  BY <1>3, <1>4
<1>6. RestoredPayload(recs) = g[A]
  BY <1>1, <1>3, <1>4, <1>5
<1> QED
  BY <1>6 DEF A

LEMMA WeightsAre ==
    ASSUME NEW m, IsFiniteSet(DOMAIN m), \A i \in DOMAIN m : Len(m[i]) \in Nat
    PROVE  /\ \A i \in DOMAIN m : ChunkWeights(m)[i] = ChunksFor(Len(m[i])) /\ ChunkWeights(m)[i] \in Nat
           /\ \E g : Additive(g, ChunkWeights(m), DOMAIN m)
<1>1. \A i \in DOMAIN m : ChunkWeights(m)[i] = ChunksFor(Len(m[i])) /\ ChunkWeights(m)[i] \in Nat
  BY ChunksForIs DEF ChunkWeights
<1>2. \E g : Additive(g, ChunkWeights(m), DOMAIN m)
  BY <1>1, AdditiveExists
<1> QED
  BY <1>1, <1>2

\* Freeing saved matches leaves fewer chunks in use.
LEMMA FreeingLess ==
    ASSUME NEW m, IsFiniteSet(DOMAIN m), \A i \in DOMAIN m : Len(m[i]) \in Nat,
           NEW H, NEW i \in H, i \in DOMAIN m, Len(m[i]) > 0
    PROVE  /\ UsedChunks(m) \in Nat /\ UsedChunks(FreeAll(m, H)) \in Nat
           /\ UsedChunks(FreeAll(m, H)) < UsedChunks(m)
<1> DEFINE D == DOMAIN m
           v == ChunkWeights(m)
           F == H \cap D
           r == FreeAll(m, H)
<1>0. IsFiniteSet(D)
  OBVIOUS
<1>1. (\A j \in D : v[j] = ChunksFor(Len(m[j])) /\ v[j] \in Nat) /\ \E g : Additive(g, v, D)
  BY WeightsAre
<1>2. DOMAIN r = D \ F /\ \A j \in D \ F : r[j] = m[j]
  BY FreeAllIs
<1>3. i \in F /\ F \in SUBSET D
  OBVIOUS
<1>4. v[i] > 0
  BY <1>1, <1>3, ChunksForIs
<1> HIDE DEF v, r
<1>5. PICK g : Additive(g, v, D)
  BY <1>1
<1>6. UsedChunks(m) = g[D]
  BY <1>0, <1>1, <1>5, UsedChunksIs
<1>7. UsedChunks(r) = g[DOMAIN r]
  <2>1. DOMAIN r \subseteq D /\ \A j \in DOMAIN r : v[j] = ChunksFor(Len(r[j]))
    BY <1>1, <1>2
  <2> HIDE DEF D
  <2> QED
    BY <1>0, <1>5, <2>1, UsedChunksIs
<1>8. g[D] = g[F] + g[D \ F]
  <2> DEFINE E == D \ F
  <2>1. E \in SUBSET D /\ F \cap E = {} /\ F \cup E = D
    OBVIOUS
  <2>2. (\A x \in D : v[x] \in Nat) /\ F \in SUBSET D
    BY <1>1, <1>3
  <2> HIDE DEF D, F, E
  <2>3. g[D] = g[F] + g[E]
    BY <1>0, <1>5, <2>1, <2>2, SumOfUnion
  <2> QED
    BY <2>3 DEF E
<1>9. g[F] = v[i] + g[F \ {i}] /\ \A s \in SUBSET D : g[s] \in Nat
  BY <1>3, <1>5 DEF Additive
<1>10. F \ {i} \in SUBSET D /\ D \ F \in SUBSET D /\ D \in SUBSET D
  OBVIOUS
<1>11. /\ g[D] \in Nat /\ g[D \ F] \in Nat /\ g[D \ F] < g[D]
  <2> DEFINE a == g[D \ F]
             b == g[F \ {i}]
             c == g[D]
             w == v[i]
  <2>1. a \in Nat /\ b \in Nat /\ c \in Nat /\ w \in Nat /\ w > 0 /\ c = (w + b) + a
    BY <1>1, <1>3, <1>4, <1>8, <1>9, <1>10
  <2> HIDE DEF a, b, c, w
  <2>2. a < c
    BY <2>1
  <2> QED
    BY <2>1, <2>2 DEF a, c
<1> QED
  BY <1>2, <1>6, <1>7, <1>11 DEF r

\* Saving strings adds the chunks that each of them takes.
LEMMA SavingMore ==
    ASSUME NEW m, IsFiniteSet(DOMAIN m), \A i \in DOMAIN m : Len(m[i]) \in Nat,
           NEW data \in Seq(Seq(Byte)),
           NEW c, NEW w, Additive(c, w, DOMAIN data),
           \A k \in DOMAIN data : w[k] = ChunksFor(Len(data[k]))
    PROVE  /\ UsedChunks(m) \in Nat /\ UsedChunks(SaveAll(m, data)) \in Nat
           /\ c[DOMAIN data] \in Nat
           /\ UsedChunks(SaveAll(m, data)) = UsedChunks(m) + c[DOMAIN data]
<1> DEFINE r == SaveAll(m, data)
           n == Len(data)
           I == DOMAIN data
           h == FreeHandles(m, n)
           f == [k \in I |-> h[k]]
           new == {f[k] : k \in I}
           D == DOMAIN m
           R == D \cup new
           v == ChunkWeights(r)
<1>1. n \in Nat /\ I = 1 .. n /\ \A k \in I : data[k] \in Seq(Byte) /\ Len(data[k]) \in Nat
  OBVIOUS
<1>2. /\ \A k \in I : h[k] \notin D
      /\ \A j, k \in I : h[j] = h[k] => j = k
  BY <1>1, FreeHandlesAre
<1>3. /\ DOMAIN r = D \cup {h[k] : k \in I}
      /\ IsFiniteSet(DOMAIN r)
      /\ \A i \in D : r[i] = m[i]
      /\ \A k \in I : r[h[k]] = data[k]
  <2>1. Added(m, data, h, r)
    BY SaveAllIs
  <2> HIDE DEF h, r
  <2> QED
    BY <2>1 DEF Added
<1>4. f \in [I -> R] /\ \A k \in I : f[k] = h[k] /\ f[k] \in new
  OBVIOUS
<1>5. D \cap new = {} /\ D \in SUBSET R /\ new \in SUBSET R /\ \A i \in R : i \in D \/ \E k \in I : i = h[k]
  BY <1>2
<1>6. DOMAIN r = R
  BY <1>3
<1>7. IsFiniteSet(I)
  BY <1>1, FS_Interval
<1> HIDE DEF h, f, n, I, r
<1> HIDE DEF new, D
<1> HIDE DEF R, v
<1>8. \A i \in R : Len(r[i]) \in Nat
  BY <1>1, <1>3, <1>5 DEF D
<1>9. /\ \A i \in R : v[i] = ChunksFor(Len(r[i])) /\ v[i] \in Nat
      /\ \E g : Additive(g, v, R)
  <2>1. IsFiniteSet(DOMAIN r) /\ \A i \in DOMAIN r : Len(r[i]) \in Nat
    BY <1>3, <1>6, <1>8
  <2>2. /\ \A i \in DOMAIN r : ChunkWeights(r)[i] = ChunksFor(Len(r[i])) /\ ChunkWeights(r)[i] \in Nat
        /\ \E g : Additive(g, ChunkWeights(r), DOMAIN r)
    BY <2>1, WeightsAre
  <2> QED
    BY <1>6, <2>2 DEF v
<1>10. PICK g : Additive(g, v, R)
  BY <1>9
<1>11. IsFiniteSet(R)
  BY <1>3, <1>6
<1>12. UsedChunks(r) = g[R]
  BY <1>6, <1>9, <1>10, <1>11, UsedChunksIs
<1>13. UsedChunks(m) = g[D]
  <2>1. DOMAIN m \subseteq R /\ \A i \in DOMAIN m : v[i] = ChunksFor(Len(m[i]))
    BY <1>3, <1>5, <1>9 DEF D
  <2>2. UsedChunks(m) = g[DOMAIN m]
    BY <1>10, <1>11, <2>1, UsedChunksIs
  <2> QED
    BY <2>2 DEF D
<1>14. R = D \cup new
  BY DEF R
<1>15. g[R] = g[D] + g[new]
  <2>1. \A i \in R : v[i] \in Nat
    BY <1>9
  <2> QED
    BY ONLY <1>5, <1>10, <1>11, <1>14, <2>1, SumOfUnion
<1>16. c[I] = g[new]
  <2>1. Additive(c, w, I)
    BY DEF I
  <2>2. \A j, k \in I : j # k => f[j] # f[k]
    BY <1>2, <1>4
  <2>3. \A k \in I : w[k] = v[f[k]]
    <3>1. \A k \in I : w[k] = ChunksFor(Len(data[k]))
      BY DEF I
    <3> QED
      BY <1>3, <1>4, <1>5, <1>9, <3>1
  <2>4. ASSUME IsFiniteSet(I), Additive(c, w, I), Additive(g, v, R), f \in [I -> R],
               \A j, k \in I : j # k => f[j] # f[k],
               \A k \in I : w[k] = v[f[k]],
               NEW J, J \in SUBSET I
        PROVE  c[J] = g[{f[k] : k \in J}]
    BY ONLY <2>4, SumOfImage
  <2>5. ASSUME NEW J, J \in SUBSET I PROVE c[J] = g[{f[k] : k \in J}]
    BY <1>4, <1>7, <1>10, <2>1, <2>2, <2>3, <2>4, <2>5
  <2>6. c[I] = g[{f[k] : k \in I}]
    BY <2>5
  <2> QED
    BY <2>6 DEF new
<1>17. g[D] \in Nat /\ g[new] \in Nat /\ g[R] \in Nat
  <2>1. D \in SUBSET R /\ new \in SUBSET R /\ R \in SUBSET R
    BY <1>5
  <2> QED
    BY <1>10, <2>1 DEF Additive
<1> QED
  BY <1>12, <1>13, <1>14, <1>15, <1>16, <1>17 DEF r, I

\* The room that is left, in chunks.
LEMMA AvailableIs ==
    ASSUME TypeOK, UsedChunks(mm) \in Nat
    PROVE  \E q \in Nat :
              /\ UsefulMemory = q * ChunkPayload
              /\ UsedChunks(mm) * ChunkPayload \in Nat
              /\ AvailableSpace > 0 =>
                    /\ UsedChunks(mm) < q
                    /\ AvailableSpace = (q - UsedChunks(mm)) * ChunkPayload
                    /\ AvailableSpace = UsefulMemory - UsedChunks(mm) * ChunkPayload
<1> DEFINE u == UsefulMemory
           c == ChunkPayload
           n == UsedChunks(mm)
           q == u \div c
<1>1. u \in Nat /\ c \in Nat \ {0} /\ u % c = 0 /\ n \in Nat
  BY FutureLzAssumption DEF TypeOK, IsOptions, UsefulMemory
<1>2. AvailableSpace = IF u > n * c THEN u - n * c ELSE 0
  BY DEF AvailableSpace
<1> HIDE DEF u, c, n, q
<1>3. q \in Nat /\ u = c * q + (u % c)
  BY <1>1, DivMod DEF q
<1>4. u = q * c /\ n * c \in Nat
  BY <1>1, <1>3
<1>5. ASSUME AvailableSpace > 0
      PROVE  n < q /\ AvailableSpace = (q - n) * c /\ AvailableSpace = u - n * c
  <2>1. u > n * c /\ AvailableSpace = u - n * c
    BY <1>1, <1>2, <1>4, <1>5
  <2>2. n < q
    <3> SUFFICES ASSUME q <= n PROVE FALSE
      BY <1>1, <1>3
    <3>1. q * c <= n * c
      BY <1>1, <1>3
    <3> QED
      BY <1>1, <1>3, <1>4, <2>1, <3>1
  <2>3. (q - n) * c = q * c - n * c
    BY <1>1, <1>3
  <2> QED
    BY <1>4, <2>1, <2>2, <2>3
<1> QED
  BY <1>3, <1>4, <1>5 DEF u, c, n

BudgetKept ==
    LET used == UsedChunks(mm') * ChunkPayload IN
       mm' # mm =>
          \/ used <= UsefulMemory
          \/ used < UsedChunks(mm) * ChunkPayload
          \/ \E v \in DOMAIN disk :
                /\ Len(freeBlocks') > Len(freeBlocks) /\ Last(freeBlocks') = v
                /\ used - UsefulMemory <= RestoredPayload(disk[v]) - VmBlockSize

\* Less is in use once a match with saved bytes is given up.
LEMMA FreeingKeepsBudget ==
    ASSUME IInv, NEW e \in heap, e.index # 0, NEW H, e.index \in H, mm' = FreeAll(mm, H)
    PROVE  BudgetKept
<1> DEFINE i == e.index
           a == UsedChunks(mm')
           b == UsedChunks(mm)
<1>1. IsFiniteSet(DOMAIN mm) /\ i \in DOMAIN mm /\ i \in H /\ Len(mm[i]) > 0
      /\ \A j \in DOMAIN mm : Len(mm[j]) \in Nat
  BY TypesAre DEF IInv, Memory
<1> HIDE DEF i
<1>2. b \in Nat /\ UsedChunks(FreeAll(mm, H)) \in Nat /\ UsedChunks(FreeAll(mm, H)) < b
  BY <1>1, FreeingLess
<1>3. a = UsedChunks(FreeAll(mm, H))
  OBVIOUS
<1>4. ChunkPayload \in Nat \ {0}
  BY FutureLzAssumption
<1> HIDE DEF a, b
<1>5. a \in Nat /\ b \in Nat /\ a < b
  BY <1>2, <1>3
<1>6. a * ChunkPayload < b * ChunkPayload
  BY <1>4, <1>5
<1> QED
  BY <1>6 DEF BudgetKept, a, b

\* The memory is a function: the same handles with the same bytes are the same memory.
MemoryIsFunction == mm = [i \in DOMAIN mm |-> mm[i]]

LEMMA MemoryStaysFunction == MemoryIsFunction /\ [Next]_vars => MemoryIsFunction'
<1> SUFFICES ASSUME MemoryIsFunction, [Next]_vars PROVE MemoryIsFunction'
  OBVIOUS
<1>1. ASSUME mm' = mm PROVE MemoryIsFunction'
  BY <1>1 DEF MemoryIsFunction
<1>2. ASSUME NEW H, mm' = FreeAll(mm, H) PROVE MemoryIsFunction'
  BY <1>2 DEF MemoryIsFunction, FreeAll
<1>3. ASSUME NEW data, mm' = SaveAll(mm, data) PROVE MemoryIsFunction'
  BY <1>3 DEF MemoryIsFunction, SaveAll
<1>4. CASE UNCHANGED vars
  BY <1>1, <1>4 DEF vars, memoryVars
<1>5. CASE EndOfInput \/ IoBlock \/ ReadBlock \/ CopyTail \/ SkipDone \/ RememberLong \/ WriteBlock
  BY <1>1, <1>5 DEF EndOfInput, IoBlock, ReadBlock, CopyTail, SkipDone, RememberLong, WriteBlock,
                    memoryVars
<1>6. CASE TakeMatch
  BY <1>1, <1>2, <1>6 DEF TakeMatch
<1>7. ASSUME SaveToDisk PROVE MemoryIsFunction'
  BY <1>2, <1>7 DEF SaveToDisk, Spill
<1>8. CASE SpillToRestore \/ SpillToSave
  BY <1>7, <1>8 DEF SpillToRestore, SpillToSave
<1>9. CASE RestoreMark
  BY <1>3, <1>9 DEF RestoreMark, RestoreFromDisk
<1>10. CASE SaveMatch
  BY <1>3, <1>10 DEF SaveMatch
<1>11. CASE SpinOn \/ Terminated
  BY <1>4, <1>11 DEF SpinOn, Terminated
<1> QED
  BY <1>4, <1>5, <1>6, <1>8, <1>9, <1>10, <1>11 DEF Next

LEMMA NothingFreed ==
    ASSUME MemoryIsFunction, NEW H, H \cap DOMAIN mm = {}
    PROVE  FreeAll(mm, H) = mm
<1>1. DOMAIN mm \ H = DOMAIN mm
  OBVIOUS
<1> QED
  BY <1>1 DEF FreeAll, MemoryIsFunction

LEMMA TakeMatchBudget == IInv /\ MemoryIsFunction /\ TakeMatch => BudgetKept
<1> SUFFICES ASSUME IInv, MemoryIsFunction, TakeMatch PROVE BudgetKept
  OBVIOUS
<1> DEFINE e == First(heap)
<1>1. e \in heap
  BY FirstDue DEF IInv
<1>2. mm' = mm \/ mm' = FreeAll(mm, {e.index})
  BY DEF TakeMatch
<1> HIDE DEF e
<1>3. CASE mm' = mm
  BY <1>3 DEF BudgetKept
<1>4. CASE mm' = FreeAll(mm, {e.index}) /\ e.index # 0
  <2> DEFINE H == {e.index}
  <2>1. e.index \in H /\ mm' = FreeAll(mm, H)
    BY <1>4
  <2> HIDE DEF H
  <2> QED
    BY <1>1, <1>4, <2>1, FreeingKeepsBudget
<1>5. CASE mm' = FreeAll(mm, {e.index}) /\ e.index = 0
  <2>1. {e.index} \cap DOMAIN mm = {}
    BY <1>5, TypesAre DEF IInv
  <2>2. mm' = mm
    BY <1>5, <2>1, NothingFreed
  <2> QED
    BY <2>2 DEF BudgetKept
<1> QED
  BY <1>2, <1>3, <1>4, <1>5

LEMMA SpillBudget == IInv /\ MemoryIsFunction /\ Running /\ SaveToDisk => BudgetKept
<1> SUFFICES ASSUME IInv, MemoryIsFunction, Running, SaveToDisk PROVE BudgetKept
  OBVIOUS
<1>1. PICK taken \in Takings : Spill(taken)
  BY DEF SaveToDisk
<1> DEFINE H == {e.index : e \in Range(taken)}
<1>2. mm' = FreeAll(mm, H)
  BY <1>1 DEF Spill
<1>3. /\ Len(taken) \in Nat /\ DOMAIN taken = 1 .. Len(taken)
      /\ \A k \in DOMAIN taken : taken[k] \in heap /\ taken[k].index # 0
      /\ taken \in Seq(heap)
  BY SpilledAre
<1>4. CASE taken = <<>>
  <2>1. H \cap DOMAIN mm = {}
    BY <1>4 DEF Range
  <2> HIDE DEF H
  <2>2. mm' = mm
    BY <1>2, <2>1, NothingFreed
  <2> QED
    BY <2>2 DEF BudgetKept
<1>5. CASE taken # <<>>
  <2>1. 1 \in DOMAIN taken
    BY <1>3, <1>5
  <2>2. taken[1] \in heap /\ taken[1].index # 0 /\ taken[1].index \in H
    BY <1>3, <2>1 DEF Range
  <2> HIDE DEF H
  <2> QED
    BY <1>2, <2>2, FreeingKeepsBudget
<1> QED
  BY <1>4, <1>5

LEMMA SaveMatchBudget == IInv /\ SaveMatch => BudgetKept
<1> SUFFICES ASSUME IInv, SaveMatch PROVE BudgetKept
  OBVIOUS
<1> DEFINE r == MatchList[cur]
           from == r.src - BlockStart
           bytes == SubSeq(out, from + 1, from + r.len)
           data == <<bytes>>
<1>1. /\ ToSave /\ pc = "save" /\ r.len <= AvailableSpace
      /\ mm' = SaveAll(mm, data)
  BY DEF SaveMatch, MustSave, ToSave
<1>2. TypeOK /\ Memory /\ Position
  BY DEF IInv
<1>3. /\ r.src \in Nat /\ r.len \in Nat \ {0}
      /\ BlockStart \in Nat /\ BlockEnd \in Nat /\ BlockEnd = BlockStart + OrigSize
      /\ BlockStart <= r.src /\ r.src + r.len <= BlockEnd
  BY <1>1, NextRecord
<1>4. out \in Seq(Byte) /\ Len(out) = OrigSize /\ Len(out) \in Nat
  BY <1>1, <1>2, TypesAre DEF Position
<1> HIDE DEF r
<1>5. bytes \in Seq(Byte) /\ Len(bytes) = r.len
  <2> DEFINE n == r.len
             s == r.src
             b == BlockStart
  <2>1. s \in Nat /\ n \in Nat /\ b \in Nat /\ b <= s /\ s + n <= b + Len(out) /\ from = s - b
    BY <1>3, <1>4
  <2> HIDE DEF n, s, b, from
  <2>2. from \in Nat /\ n \in Nat /\ from + n <= Len(out)
    BY <1>4, <2>1
  <2>3. SubSeq(out, from + 1, from + n) \in Seq(Byte) /\ Len(SubSeq(out, from + 1, from + n)) = n
    BY <1>4, <2>2, PartOf
  <2> QED
    BY <2>3 DEF n
<1> HIDE DEF bytes
<1> DEFINE n == r.len
           w == [k \in {1} |-> ChunksFor(n)]
<1>6. data \in Seq(Seq(Byte)) /\ DOMAIN data = {1} /\ data[1] = bytes
  BY <1>5
<1>7. n \in Nat \ {0} /\ ChunksFor(n) \in Nat /\ \A k \in Nat : n <= k * ChunkPayload => ChunksFor(n) <= k
  BY <1>3, ChunksForIs
<1>8. IsFiniteSet({1}) /\ \A k \in {1} : w[k] \in Nat /\ w[k] = ChunksFor(n)
  BY <1>7, FS_Singleton
<1> HIDE DEF w, n
<1>9. PICK c : Additive(c, w, {1})
  BY <1>8, AdditiveExists
<1>10. c[{1}] = ChunksFor(n)
  <2> DEFINE I == {1}
             E == I \ {1}
  <2>1. I \in SUBSET I /\ 1 \in I /\ E = {} /\ Additive(c, w, I)
    BY <1>9
  <2>2. w[1] = ChunksFor(n)
    BY <1>8
  <2> HIDE DEF I
  <2>3. c[I] = w[1] + c[E]
    BY <2>1 DEF Additive
  <2> HIDE DEF E
  <2>4. c[E] = 0
    BY <2>1 DEF Additive
  <2>5. c[I] = ChunksFor(n)
    BY <1>7, <2>2, <2>3, <2>4
  <2> QED
    BY <2>5 DEF I
<1> DEFINE a == UsedChunks(mm')
           b == UsedChunks(mm)
<1>11. a \in Nat /\ b \in Nat /\ a = b + ChunksFor(n)
  <2>1. IsFiniteSet(DOMAIN mm) /\ \A i \in DOMAIN mm : Len(mm[i]) \in Nat
    BY <1>2, TypesAre DEF Memory
  <2>2. \A k \in {1} : w[k] = ChunksFor(Len(data[k]))
    BY <1>5, <1>6, <1>8 DEF n
  <2>3. Additive(c, w, DOMAIN data) /\ \A k \in DOMAIN data : w[k] = ChunksFor(Len(data[k]))
    BY <1>6, <1>9, <2>2
  <2> HIDE DEF data
  <2>4. /\ b \in Nat /\ UsedChunks(SaveAll(mm, data)) \in Nat
        /\ UsedChunks(SaveAll(mm, data)) = b + c[DOMAIN data]
    BY <1>6, <2>1, <2>3, SavingMore
  <2> QED
    BY <1>1, <1>6, <1>10, <2>4
<1> HIDE DEF a
<1>12. PICK q \in Nat : /\ UsefulMemory = q * ChunkPayload
                        /\ AvailableSpace > 0 =>
                              b < q /\ AvailableSpace = (q - b) * ChunkPayload
  BY <1>2, <1>11, AvailableIs
<1> HIDE DEF b
<1>13. n <= AvailableSpace
  BY <1>1 DEF n
<1>14. ChunkPayload \in Nat \ {0}
  BY FutureLzAssumption
<1>15. b < q /\ n <= (q - b) * ChunkPayload
  <2>1. AvailableSpace \in Nat
    <3>1. UsefulMemory \in Nat
      BY <1>12, <1>14
    <3>2. UsedChunks(mm) * ChunkPayload \in Nat
      BY <1>11, <1>14 DEF b
    <3> QED
      BY <3>1, <3>2 DEF AvailableSpace
  <2> QED
    BY <1>7, <1>12, <1>13, <2>1
<1>16. q - b \in Nat
  BY <1>11, <1>12, <1>15
<1>17. ChunksFor(n) <= q - b
  BY <1>7, <1>15, <1>16
<1>18. a <= q
  BY <1>7, <1>11, <1>12, <1>17
<1>19. a * ChunkPayload <= q * ChunkPayload
  BY <1>11, <1>12, <1>14, <1>18
<1> QED
  BY <1>12, <1>19 DEF BudgetKept, a

LEMMA RestoreMarkBudget == IInv /\ RestoreMark => BudgetKept
<1> SUFFICES ASSUME IInv, RestoreMark PROVE BudgetKept
  OBVIOUS
<1> DEFINE v == First(heap).src
           recs == disk[v]
           data == [k \in DOMAIN recs |-> recs[k].data]
<1>1. /\ First(heap) \in Marks
      /\ AvailableSpace >= VmBlockSize
      /\ mm' = SaveAll(mm, data)
      /\ freeBlocks' = Append(freeBlocks, v)
  <2>1. First(heap) \in heap
    BY FirstDue DEF IInv
  <2> QED
    BY <2>1 DEF RestoreMark, RestoreFromDisk, Marks
<1> HIDE DEF v
<1>2. TypeOK /\ Memory /\ VmFile
  BY DEF IInv
<1>3. v \in DOMAIN disk /\ recs \in Seq(SpillRecord)
  <2>1. v \in DOMAIN disk
    BY <1>1, <1>2 DEF VmFile, v
  <2> QED
    BY <1>2, <2>1, TypesAre
<1> HIDE DEF recs
<1>4. /\ Len(recs) \in Nat /\ DOMAIN recs = 1 .. Len(recs)
      /\ \A k \in DOMAIN recs : recs[k].data \in Seq(Byte) /\ Len(recs[k].data) \in Nat
  <2>1. Len(recs) \in Nat /\ DOMAIN recs = 1 .. Len(recs) /\ \A k \in DOMAIN recs : recs[k] \in SpillRecord
    BY <1>3
  <2>2. \A k \in DOMAIN recs : recs[k].data \in Seq(Byte)
    BY <2>1 DEF SpillRecord
  <2> QED
    BY <2>1, <2>2
<1>5. /\ data \in Seq(Seq(Byte)) /\ DOMAIN data = DOMAIN recs
      /\ \A k \in DOMAIN recs : data[k] = recs[k].data
  <2>1. data \in [1 .. Len(recs) -> Seq(Byte)]
    BY <1>4
  <2> QED
    BY <1>4, <2>1
<1> HIDE DEF data
<1> DEFINE I == DOMAIN recs
           w == [k \in I |-> ChunksFor(Len(recs[k].data))]
           C == ChunkPayload
<1>6. IsFiniteSet(I)
  BY <1>4, FS_Interval
<1>7. \A k \in I : w[k] = ChunksFor(Len(recs[k].data)) /\ w[k] \in Nat
  BY <1>4, ChunksForIs
<1>8. C \in Nat \ {0}
  BY FutureLzAssumption
<1> HIDE DEF w, C
<1> HIDE DEF I
<1>9. PICK c : Additive(c, w, I)
  BY <1>6, <1>7, AdditiveExists
<1>10. RestoredPayload(recs) = c[I] * C /\ c[I] \in Nat
  <2> DEFINE u == [k \in I |-> w[k] * C]
             g == [s \in SUBSET I |-> c[s] * C]
  <2>1. Additive(g, u, I)
    <3>1. \A s \in SUBSET I : c[s] \in Nat
      BY <1>9 DEF Additive
    <3>2. g \in [SUBSET I -> Nat]
      BY <1>8, <3>1
    <3>3. g[{}] = 0
      BY <1>8, <1>9 DEF Additive
    <3>4. ASSUME NEW s \in SUBSET I, NEW x \in s PROVE g[s] = u[x] + g[s \ {x}]
      <4> DEFINE r == s \ {x}
                 n == c[s]
                 m == c[r]
                 y == w[x]
      <4>1. r \in SUBSET I /\ x \in I
        OBVIOUS
      <4>2. n = y + m
        BY <1>9 DEF Additive
      <4>3. g[s] = n * C /\ g[r] = m * C /\ u[x] = y * C
        BY <4>1
      <4>4. n \in Nat /\ m \in Nat /\ y \in Nat
        BY <1>7, <3>1, <4>1
      <4> HIDE DEF n, m, y, g, u
      <4>5. n * C = y * C + m * C
        BY <1>8, <4>2, <4>4
      <4>6. g[s] = u[x] + g[r]
        BY <4>3, <4>5
      <4> QED
        BY <4>6
    <3> HIDE DEF g, u
    <3> QED
      BY <3>2, <3>3, <3>4 DEF Additive
  <2>2. \A k \in I : u[k] = ChunksFor(Len(recs[k].data)) * ChunkPayload
    BY <1>7 DEF C
  <2>3. g[I] = c[I] * C /\ c[I] \in Nat
    BY <1>9 DEF Additive
  <2> HIDE DEF g, u
  <2>4. /\ IsFiniteSet(DOMAIN recs) /\ Additive(g, u, DOMAIN recs)
        /\ \A k \in DOMAIN recs : u[k] = ChunksFor(Len(recs[k].data)) * ChunkPayload
    BY <1>6, <2>1, <2>2 DEF I
  <2>5. RestoredPayload(recs) = g[DOMAIN recs]
    BY <2>4, RestoredPayloadIs
  <2> QED
    BY <2>3, <2>5 DEF I
<1> DEFINE a == UsedChunks(mm')
           b == UsedChunks(mm)
<1>11. a \in Nat /\ b \in Nat /\ a = b + c[I]
  <2>1. IsFiniteSet(DOMAIN mm) /\ \A i \in DOMAIN mm : Len(mm[i]) \in Nat
    BY <1>2, TypesAre DEF Memory
  <2>2. DOMAIN data = I
    BY <1>5 DEF I
  <2>3. \A k \in I : w[k] = ChunksFor(Len(data[k]))
    BY <1>5, <1>7 DEF I
  <2>4. Additive(c, w, DOMAIN data) /\ \A k \in DOMAIN data : w[k] = ChunksFor(Len(data[k]))
    BY <1>9, <2>2, <2>3
  <2>5. /\ b \in Nat /\ UsedChunks(SaveAll(mm, data)) \in Nat
        /\ UsedChunks(SaveAll(mm, data)) = b + c[DOMAIN data]
    BY <1>5, <2>1, <2>4, SavingMore
  <2> QED
    BY <1>1, <2>2, <2>5
<1> HIDE DEF a
<1>12. PICK q \in Nat : /\ UsefulMemory = q * C
                        /\ b * C \in Nat
                        /\ AvailableSpace > 0 => AvailableSpace = UsefulMemory - b * C
  BY <1>2, <1>11, AvailableIs DEF C
<1> HIDE DEF b
<1>13. VmBlockSize \in Nat \ {0}
  BY <1>2 DEF TypeOK, IsOptions, VmBlockSize
<1>14. AvailableSpace \in Nat /\ UsefulMemory \in Nat
  <2>1. UsefulMemory \in Nat
    BY <1>8, <1>12
  <2>2. UsedChunks(mm) * ChunkPayload \in Nat
    BY <1>12 DEF b, C
  <2> QED
    BY <2>1, <2>2 DEF AvailableSpace
<1>15. UsefulMemory - b * C >= VmBlockSize
  BY <1>1, <1>12, <1>13, <1>14
<1>16. a * C - UsefulMemory <= RestoredPayload(recs) - VmBlockSize
  <2> DEFINE x == b * C
             y == c[I]
             z == y * C
             o == VmBlockSize
             p == UsefulMemory
  <2>1. a * C = x + z
    <3>1. y \in Nat /\ a = b + y
      BY <1>10, <1>11
    <3> HIDE DEF y
    <3> QED
      BY <1>8, <1>11, <3>1
  <2>2. x \in Nat /\ z \in Nat /\ o \in Nat /\ p \in Nat /\ p - x >= o
    BY <1>8, <1>10, <1>12, <1>13, <1>14, <1>15
  <2>3. RestoredPayload(recs) = z
    BY <1>10
  <2> HIDE DEF x, y, z, o, p
  <2>4. a * C - p <= z - o
    BY <2>1, <2>2
  <2> QED
    BY <2>3, <2>4 DEF o, p
<1>17. Len(freeBlocks') > Len(freeBlocks) /\ Last(freeBlocks') = v
  <2> DEFINE f == freeBlocks
             g == freeBlocks'
             n == newBlock
  <2>1. f \in Seq(0 .. n - 1) /\ Len(f) \in Nat /\ v \in 0 .. n - 1 /\ g = Append(f, v)
    BY <1>1, <1>2, <1>3, TypesAre
  <2> HIDE DEF f, g
  <2>2. Len(g) = Len(f) + 1 /\ g[Len(g)] = v
    BY <2>1
  <2>3. Len(g) > Len(f) /\ Last(g) = v
    BY <2>1, <2>2 DEF Last
  <2> QED
    BY <2>3 DEF f, g
<1> QED
  BY <1>3, <1>16, <1>17 DEF BudgetKept, a, C, recs

LEMMA AlwaysFunction == Spec => []MemoryIsFunction
<1>1. Init => MemoryIsFunction
  BY DEF Init, MemoryIsFunction
<1> QED
  BY <1>1, MemoryStaysFunction, PTL DEF Spec

LEMMA BudgetAlwaysKept == Spec => [][BudgetKept]_vars
<1>1. IInv /\ MemoryIsFunction /\ [Next]_vars => [BudgetKept]_vars
  <2> SUFFICES ASSUME IInv, MemoryIsFunction, Next PROVE BudgetKept
    OBVIOUS
  <2>1. ASSUME mm' = mm PROVE BudgetKept
    BY <2>1 DEF BudgetKept
  <2>2. CASE EndOfInput \/ IoBlock \/ ReadBlock \/ CopyTail \/ SkipDone \/ RememberLong \/ WriteBlock
    BY <2>1, <2>2 DEF EndOfInput, IoBlock, ReadBlock, CopyTail, SkipDone, RememberLong, WriteBlock,
                      memoryVars
  <2>3. CASE TakeMatch
    BY <2>3, TakeMatchBudget
  <2>4. CASE SpillToRestore \/ SpillToSave
    BY <2>4, SpillBudget DEF SpillToRestore, SpillToSave, MustSave, ToSave, Running
  <2>5. CASE RestoreMark
    BY <2>5, RestoreMarkBudget
  <2>6. CASE SaveMatch
    BY <2>6, SaveMatchBudget
  <2>7. CASE SpinOn \/ Terminated
    BY <2>1, <2>7 DEF SpinOn, Terminated, vars, memoryVars
  <2> QED
    BY <2>2, <2>3, <2>4, <2>5, <2>6, <2>7 DEF Next
<1> QED
  BY <1>1, AlwaysFunction, Invariance, PTL DEF Spec

\* Saving a match never overdraws the memory budget; only a restored VM block may, by what
\* rounding its records up to chunks adds to it (future.rs:123-127; for the archives of
\* Invariance).
THEOREM WithinBudget == Spec => MemoryWithinBudget
  BY BudgetAlwaysKept DEF MemoryWithinBudget, BudgetKept
=============================================================================
