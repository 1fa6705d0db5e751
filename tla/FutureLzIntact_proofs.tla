----------------------- MODULE FutureLzIntact_proofs -----------------------
(***************************************************************************)
(* Proofs about FutureLz and intact archives.  FutureLz_proofs shows that  *)
(* no byte is read that has not been written; here each record that has    *)
(* been read and not been used yet is in the heap or in the VM file, once, *)
(* with its bytes.  So what is copied is right, the literals between the   *)
(* copies are right, and every block is the original's.  The same          *)
(* invariant says what the matches in memory take, so the estimate of -i   *)
(* is what decides whether the VM file is used.                            *)
(* In the I/O layout there is no heap to speak of, and the block is right  *)
(* after each of its records.                                              *)
(***************************************************************************)
EXTENDS FutureLz_proofs

\* The archive is as the compressor wrote it, if not all of it is there.
Sound == archive.intact /\ archive.version = "future" /\ ~ opts.wraps

Rec(p) == RecordAt(archive, p)

\* The first byte that has not been decoded.
Reached == BlockStart + (IF InABlock THEN Len(out) ELSE 0)

\* len bytes of the original.
Slice(from, len) == SubSeq(archive.original, from + 1, from + len)

\* The records of the current block that have been turned into entries.
Known(p) ==
    \/ p[1] < block
    \/ p[1] = block /\ pc = "process" /\ Rec(p).dest < BlockEnd
    \/ p[1] = block /\ pc = "save" /\ p[2] < cur

\* The records that have been read and whose copies have not been made.
Waiting == {p \in Places(archive) : Rec(p).dest >= Reached /\ Known(p)}

Matches == {e \in heap : e # Barrier /\ ~ IsMarkingPoint(e)}

\* Entry e is that of record p, with its bytes if they are saved.
IsEntryOf(e, p) ==
    /\ Rec(p).src = e.src /\ Rec(p).dest = e.dest /\ Rec(p).len = e.len
    /\ e.index # 0 => e.len < MaximumSave /\ mm[e.index] = Slice(e.dest, e.len)

\* Spilled record s is that of record p, with its bytes.
IsSpilled(s, p) ==
    /\ Rec(p).src = s.src /\ Rec(p).dest = s.dest /\ Rec(p).len = Len(s.data)
    /\ Len(s.data) < MaximumSave
    /\ s.data = Slice(s.dest, Len(s.data))

\* What is in the heap and in the VM file stands for records that wait.
AllTrue ==
    /\ \A e \in Matches : \E p \in Waiting : IsEntryOf(e, p)
    /\ \A m \in Marks : \A k \in DOMAIN disk[m.src] : \E p \in Waiting : IsSpilled(disk[m.src][k], p)

\* None is there twice.
Once ==
    /\ \A e, f \in Matches : e.dest = f.dest => e = f
    /\ \A m, n \in Marks : \A j \in DOMAIN disk[m.src], k \in DOMAIN disk[n.src] :
          disk[m.src][j].dest = disk[n.src][k].dest => m = n /\ j = k
    /\ \A e \in Matches, m \in Marks : \A k \in DOMAIN disk[m.src] : disk[m.src][k].dest # e.dest

HasEntry(dest) == \E e \in Matches : e.dest = dest
HasSpilled(dest) == \E m \in Marks : \E k \in DOMAIN disk[m.src] : disk[m.src][k].dest = dest

\* Every record that waits is there.
AllThere == \A p \in Waiting : HasEntry(Rec(p).dest) \/ HasSpilled(Rec(p).dest)

Pending == AllTrue /\ Once /\ AllThere

\* No copy is half made, and what has been decoded is the original.
DecodedRight ==
    /\ InABlock => /\ out = Slice(BlockStart, Len(out))
                   /\ inPos = Cardinality(Uncovered(archive, BlockStart, Reached))
    /\ \A p \in Places(archive) : Rec(p).dest < Reached => Rec(p).dest + Rec(p).len <= Reached
    /\ backend = Slice(0, Len(backend))

-----------------------------------------------------------------------------
(* Records and their places. *)

LEMMA PlacesAre ==
    ASSUME IsArchive(archive)
    PROVE  /\ \A p \in Places(archive) :
                 /\ p[1] \in 1 .. Len(archive.lists)
                 /\ p[2] \in DOMAIN archive.lists[p[1]]
                 /\ p = <<p[1], p[2]>>
                 /\ Rec(p) = archive.lists[p[1]][p[2]]
           /\ \A b \in 1 .. Len(archive.lists) : \A k \in DOMAIN archive.lists[b] :
                 <<b, k>> \in Places(archive) /\ Rec(<<b, k>>) = archive.lists[b][k]
<1>1. DOMAIN archive.lists = 1 .. Len(archive.lists)
  BY ArchiveShape
<1>2. ASSUME NEW p \in Places(archive)
      PROVE  /\ p[1] \in 1 .. Len(archive.lists)
             /\ p[2] \in DOMAIN archive.lists[p[1]]
             /\ p = <<p[1], p[2]>>
  <2>1. PICK b \in DOMAIN archive.lists : \E k \in DOMAIN archive.lists[b] : p = <<b, k>>
    BY <1>2 DEF Places
  <2> QED
    BY <1>1, <2>1
<1>3. ASSUME NEW b \in 1 .. Len(archive.lists), NEW k \in DOMAIN archive.lists[b]
      PROVE  <<b, k>> \in Places(archive)
  BY <1>1 DEF Places
<1> QED
  BY <1>2, <1>3 DEF Rec, RecordAt

\* What MeansOriginal says of a single record.
GoodRecord(p) ==
    LET r == Rec(p)
    IN /\ r.src \in Nat /\ r.dest \in Nat /\ r.len \in Nat \ {0}
       /\ FirstOf(p[1]) \in Nat /\ EndOf(archive, p[1]) \in Nat
       /\ FirstOf(p[1]) <= r.src /\ r.src + r.len <= EndOf(archive, p[1]) /\ r.src < r.dest
       /\ r.dest + r.len <= Len(archive.original)
       /\ \A x \in 1 .. r.len : archive.original[r.dest + x] = archive.original[r.src + x]

LEMMA RecordsAre ==
    ASSUME IsArchive(archive), Sound
    PROVE  /\ \A p \in Places(archive) : GoodRecord(p)
           /\ \A p \in Places(archive) : \E c \in 1 .. Len(archive.lists) :
                 /\ FirstOf(c) \in Nat /\ EndOf(archive, c) \in Nat
                 /\ FirstOf(c) <= Rec(p).dest /\ Rec(p).dest + Rec(p).len <= EndOf(archive, c)
           /\ \A p, q \in Places(archive) :
                 \/ p = q \/ Rec(p).dest + Rec(p).len <= Rec(q).dest
                 \/ Rec(q).dest + Rec(q).len <= Rec(p).dest
<1>1. MeansOriginal(archive) /\ archive.version = "future"
  BY DEF IsArchive, Sound
<1>2. /\ DOMAIN archive.lists = 1 .. Len(archive.lists)
      /\ Len(archive.original) \in Nat
      /\ \A b \in 1 .. Len(archive.lists) :
            /\ FirstOf(b) \in Nat /\ EndOf(archive, b) \in Nat
            /\ EndOf(archive, b) <= Len(archive.original)
            /\ \A k \in DOMAIN archive.lists[b] : archive.lists[b][k] \in Match
  BY <1>1, ArchiveShape
<1>3. ASSUME NEW p \in Places(archive)
      PROVE  /\ GoodRecord(p)
             /\ \E c \in 1 .. Len(archive.lists) :
                   /\ FirstOf(c) \in Nat /\ EndOf(archive, c) \in Nat
                   /\ FirstOf(c) <= Rec(p).dest /\ Rec(p).dest + Rec(p).len <= EndOf(archive, c)
  <2> DEFINE r == Rec(p)
  <2>1. p[1] \in 1 .. Len(archive.lists) /\ p[2] \in DOMAIN archive.lists[p[1]]
        /\ r = archive.lists[p[1]][p[2]]
    BY PlacesAre
  <2>2. r \in Match
    BY <1>2, <2>1
  <2>3. r.src \in Nat /\ r.dest \in Nat /\ r.len \in Nat \ {0}
    BY <2>2 DEF Match
  <2>4. /\ FirstOf(p[1]) <= r.src /\ r.src + r.len <= EndOf(archive, p[1]) /\ r.src < r.dest
        /\ \E c \in DOMAIN archive.lists : FirstOf(c) <= r.dest /\ r.dest + r.len <= EndOf(archive, c)
        /\ \A x \in 1 .. r.len : archive.original[r.dest + x] = archive.original[r.src + x]
    BY <1>1 DEF MeansOriginal, Rec
  <2> HIDE DEF r
  <2>5. PICK c \in 1 .. Len(archive.lists) : FirstOf(c) <= r.dest /\ r.dest + r.len <= EndOf(archive, c)
    BY <1>2, <2>4
  <2>6. r.dest + r.len <= Len(archive.original)
    BY <1>2, <2>3, <2>5
  <2>7. GoodRecord(p)
    BY <1>2, <2>1, <2>3, <2>4, <2>6 DEF GoodRecord, r
  <2> QED
    BY <1>2, <2>5, <2>7 DEF r
<1>4. ASSUME NEW p \in Places(archive), NEW q \in Places(archive)
      PROVE  \/ p = q \/ Rec(p).dest + Rec(p).len <= Rec(q).dest
             \/ Rec(q).dest + Rec(q).len <= Rec(p).dest
  BY <1>1 DEF MeansOriginal, Rec
<1> QED
  BY <1>3, <1>4

\* Two records with one destination are the same.
LEMMA DestsDiffer ==
    ASSUME IsArchive(archive), Sound,
           NEW p \in Places(archive), NEW q \in Places(archive), Rec(p).dest = Rec(q).dest
    PROVE  p = q
<1> DEFINE x == Rec(p).dest
           y == Rec(q).dest
           m == Rec(p).len
           n == Rec(q).len
<1>1. x \in Nat /\ y \in Nat /\ m \in Nat \ {0} /\ n \in Nat \ {0} /\ x = y
  BY RecordsAre DEF GoodRecord
<1>2. p = q \/ x + m <= y \/ y + n <= x
  BY RecordsAre
<1> HIDE DEF x, y, m, n
<1> QED
  BY <1>1, <1>2

-----------------------------------------------------------------------------
(* Parts of the original. *)

\* s are the len bytes of the original from byte from on.
HasBytes(s, from, len) ==
    /\ s \in Seq(Byte)
    /\ Len(s) = len
    /\ \A i \in 1 .. len : s[i] = archive.original[from + i]

LEMMA SliceIs ==
    ASSUME archive.original \in Seq(Byte), NEW from \in Nat, NEW len \in Nat,
           from + len <= Len(archive.original)
    PROVE  HasBytes(Slice(from, len), from, len)
<1> DEFINE o == archive.original
<1> HIDE DEF o
<1>1. o \in Seq(Byte) /\ from + len <= Len(o)
  BY DEF o
<1>2. /\ SubSeq(o, from + 1, from + len) \in Seq(Byte)
      /\ Len(SubSeq(o, from + 1, from + len)) = len
      /\ \A i \in 1 .. len : SubSeq(o, from + 1, from + len)[i] = o[from + i]
  BY <1>1, PartOf
<1> QED
  BY <1>2 DEF Slice, o, HasBytes

\* A sequence with the bytes of a slice is the slice.
LEMMA IsSlice ==
    ASSUME archive.original \in Seq(Byte), NEW from \in Nat, NEW len \in Nat,
           from + len <= Len(archive.original),
           NEW s, HasBytes(s, from, len)
    PROVE  s = Slice(from, len)
<1> DEFINE t == Slice(from, len)
<1>1. HasBytes(t, from, len)
  BY SliceIs
<1> HIDE DEF t
<1>2. \A i \in 1 .. len : s[i] = t[i]
  BY <1>1 DEF HasBytes
<1>3. s = t
  BY <1>1, <1>2 DEF HasBytes
<1> QED
  BY <1>3 DEF t

LEMMA PartIsSlice ==
    ASSUME archive.original \in Seq(Byte), NEW from \in Nat, NEW len \in Nat,
           from + len <= Len(archive.original),
           NEW s \in Seq(Byte), NEW k \in Nat, k + len <= Len(s),
           \A i \in 1 .. len : s[k + i] = archive.original[from + i]
    PROVE  SubSeq(s, k + 1, k + len) = Slice(from, len)
<1> DEFINE t == SubSeq(s, k + 1, k + len)
<1>1. t \in Seq(Byte) /\ Len(t) = len /\ \A i \in 1 .. len : t[i] = s[k + i]
  BY PartOf
<1> HIDE DEF t
<1>3. HasBytes(t, from, len)
  BY <1>1 DEF HasBytes
<1>2. t = Slice(from, len)
  BY <1>3, IsSlice
<1> QED
  BY <1>2 DEF t

LEMMA SlicesJoin ==
    ASSUME archive.original \in Seq(Byte), NEW from \in Nat, NEW m \in Nat, NEW n \in Nat,
           from + m + n <= Len(archive.original)
    PROVE  Slice(from, m) \o Slice(from + m, n) = Slice(from, m + n)
<1> DEFINE s == Slice(from, m)
           t == Slice(from + m, n)
           l == Len(archive.original)
<1>0. l \in Nat /\ from + m + n <= l
  OBVIOUS
<1> HIDE DEF l
<1>1. s \in Seq(Byte) /\ Len(s) = m /\ \A i \in 1 .. m : s[i] = archive.original[from + i]
  <2>1. from + m <= l
    BY <1>0
  <2> QED
    BY <2>1, SliceIs DEF l, HasBytes
<1>2. t \in Seq(Byte) /\ Len(t) = n /\ \A i \in 1 .. n : t[i] = archive.original[from + m + i]
  <2>1. from + m \in Nat /\ from + m + n <= l
    BY <1>0
  <2> QED
    BY <2>1, SliceIs DEF l, HasBytes
<1> HIDE DEF s, t
<1>3. /\ s \o t \in Seq(Byte) /\ Len(s \o t) = m + n
      /\ \A i \in 1 .. m : (s \o t)[i] = s[i]
      /\ \A i \in 1 .. n : (s \o t)[m + i] = t[i]
  <2>1. s \o t \in Seq(Byte) /\ Len(s \o t) = m + n
    BY <1>1, <1>2, Joined
  <2>2. \A i \in 1 .. m : (s \o t)[i] = s[i]
    BY <1>1, <1>2, Joined
  <2>3. \A i \in 1 .. n : (s \o t)[m + i] = t[i]
    BY <1>1, <1>2
  <2> QED
    BY <2>1, <2>2, <2>3
<1>4. ASSUME NEW i \in 1 .. m + n PROVE (s \o t)[i] = archive.original[from + i]
  <2>1. CASE i <= m
    <3>1. i \in 1 .. m
      BY <2>1
    <3> QED
      BY <1>1, <1>3, <3>1
  <2>2. CASE i > m
    <3> DEFINE j == i - m
    <3>1. j \in 1 .. n /\ m + j = i /\ from + m + j = from + i
      BY <2>2
    <3> HIDE DEF j
    <3>2. (s \o t)[m + j] = t[j] /\ t[j] = archive.original[from + m + j]
      BY <1>2, <1>3, <3>1
    <3> QED
      BY <3>1, <3>2
  <2>3. i <= m \/ i > m
    OBVIOUS
  <2> QED
    BY <2>1, <2>2, <2>3
<1> DEFINE u == s \o t
<1>5. HasBytes(u, from, m + n)
  BY <1>3, <1>4 DEF HasBytes
<1> HIDE DEF u
<1>6. u = Slice(from, m + n)
  <2>1. from + (m + n) <= l /\ m + n \in Nat
    BY <1>0
  <2> QED
    BY <1>5, <2>1, IsSlice DEF l
<1> QED
  BY <1>6 DEF s, t, u

-----------------------------------------------------------------------------
(* Literals. *)

\* No record supplies any of the n bytes from byte m on.
NotSupplied(a, m, n) == \A x \in m .. m + n - 1 : \A p \in Places(a) : ~ Supplies(RecordAt(a, p), x)

\* They add n to the number of such bytes.
LEMMA UncoveredGrows ==
    ASSUME NEW a, NEW from \in Nat, NEW m \in Nat, NEW n \in Nat, from <= m,
           NotSupplied(a, m, n)
    PROVE  /\ Cardinality(Uncovered(a, from, m)) \in Nat
           /\ Cardinality(Uncovered(a, from, m + n)) = Cardinality(Uncovered(a, from, m)) + n
<1> DEFINE free(x) == \A p \in Places(a) : ~ Supplies(RecordAt(a, p), x)
           S == Uncovered(a, from, m)
           T == Uncovered(a, from, m + n)
           I == m .. m + n - 1
<1>1. S = {x \in from .. m - 1 : free(x)} /\ T = {x \in from .. m + n - 1 : free(x)}
  BY DEF Uncovered
<1>2. \A x \in I : free(x)
  BY DEF NotSupplied
<1> HIDE DEF free, S, T
<1>3. T = S \cup I /\ S \cap I = {}
  BY <1>1, <1>2
<1>4. IsFiniteSet(S)
  <2>1. IsFiniteSet(from .. m - 1) /\ S \subseteq from .. m - 1
    BY <1>1, FS_Interval
  <2> QED
    BY <2>1, FS_Subset
<1>5. IsFiniteSet(I) /\ Cardinality(I) = n
  <2>1. m \in Int /\ m + n - 1 \in Int /\ (IF m > m + n - 1 THEN 0 ELSE m + n - 1 - m + 1) = n
    OBVIOUS
  <2> QED
    BY <2>1, FS_Interval
<1>6. Cardinality(S \cap I) = 0
  BY <1>3, FS_EmptySet
<1>7. Cardinality(S) \in Nat
  BY <1>4, FS_CardinalityType
<1> HIDE DEF I
<1>8. Cardinality(S \cup I) = Cardinality(S) + Cardinality(I) - Cardinality(S \cap I)
  BY <1>4, <1>5, FS_Union
<1>9. Cardinality(T) = Cardinality(S) + n
  BY <1>3, <1>5, <1>6, <1>7, <1>8
<1> QED
  BY <1>7, <1>9 DEF S, T

\* Records supply n bytes from byte m on: their number stays the same.
LEMMA CoveredSkipped ==
    ASSUME NEW a, NEW from \in Nat, NEW m \in Nat, NEW n \in Nat,
           NEW p \in Places(a), RecordAt(a, p).dest = m, RecordAt(a, p).len = n
    PROVE  Uncovered(a, from, m + n) = Uncovered(a, from, m)
<1>1. \A x \in m .. m + n - 1 : Supplies(RecordAt(a, p), x)
  BY DEF Supplies
<1> DEFINE free(x) == \A q \in Places(a) : ~ Supplies(RecordAt(a, q), x)
<1>2. \A x \in m .. m + n - 1 : ~ free(x)
  BY <1>1
<1> HIDE DEF free
<1>3. {x \in from .. m + n - 1 : free(x)} = {x \in from .. m - 1 : free(x)}
  BY <1>2
<1> QED
  BY <1>3 DEF Uncovered, free

LEMMA UncoveredLess ==
    ASSUME NEW a, NEW from \in Nat, NEW m \in Nat, NEW n \in Nat, m <= n
    PROVE  Cardinality(Uncovered(a, from, m)) <= Cardinality(Uncovered(a, from, n))
<1> DEFINE S == Uncovered(a, from, m)
           T == Uncovered(a, from, n)
<1>1. S \subseteq T /\ T \subseteq from .. n - 1
  BY DEF Uncovered
<1> HIDE DEF S, T
<1>2. IsFiniteSet(T)
  <2>1. IsFiniteSet(from .. n - 1)
    BY FS_Interval
  <2> QED
    BY <1>1, <2>1, FS_Subset
<1>3. Cardinality(S) <= Cardinality(T)
  BY <1>1, <1>2, FS_Subset
<1> QED
  BY <1>3 DEF S, T

\* The next n bytes of block b are not supplied by records: they are its next n literals.
LEMMA LiteralsAre ==
    ASSUME IsArchive(archive), Sound, NEW b \in 1 .. Len(archive.lists),
           NEW m \in Nat, NEW n \in Nat, FirstOf(b) <= m, m + n <= EndOf(archive, b),
           NotSupplied(archive, m, n)
    PROVE  LET k == Cardinality(Uncovered(archive, FirstOf(b), m))
           IN /\ Len(archive.literals[b]) \in Nat
              /\ k \in Nat
              /\ k + n <= Len(archive.literals[b])
              /\ SubSeq(archive.literals[b], k + 1, k + n) = Slice(m, n)
              /\ Cardinality(Uncovered(archive, FirstOf(b), m + n)) = k + n
<1> DEFINE lo == FirstOf(b)
           hi == EndOf(archive, b)
           lits == archive.literals[b]
           U(x) == Uncovered(archive, lo, x)
           C(x) == Cardinality(U(x))
           k == C(m)
<1>1. /\ lo \in Nat /\ hi \in Nat /\ lits \in Seq(Byte) /\ hi <= Len(archive.original)
      /\ DOMAIN archive.lists = 1 .. Len(archive.lists)
      /\ archive.original \in Seq(Byte) /\ Len(archive.original) \in Nat
  BY ArchiveShape
<1>2. /\ Len(lits) = C(hi)
      /\ \A x \in U(hi) : lits[C(x) + 1] = archive.original[x + 1]
  BY <1>1 DEF IsArchive, Sound, MeansOriginal
<1>3. ASSUME NEW i \in 0 .. n
      PROVE  C(m + i) = k + i
  <2>1. lo \in Nat /\ lo <= m
    BY <1>1
  <2> HIDE DEF lo, hi, lits, U, C, k
  <2>2. Cardinality(Uncovered(archive, lo, m + i)) = Cardinality(Uncovered(archive, lo, m)) + i
    <3>1. i \in Nat /\ NotSupplied(archive, m, i)
      <4>1. \A x \in m .. m + i - 1 : x \in m .. m + n - 1
        BY <1>3
      <4> QED
        BY <1>3, <4>1 DEF NotSupplied
    <3> QED
      BY ONLY <2>1, <3>1, m \in Nat, UncoveredGrows
  <2> QED
    BY <2>2 DEF U, C, k
<1>13. k \in Nat
  <2>1. lo \in Nat /\ lo <= m
    BY <1>1
  <2> HIDE DEF lo
  <2> QED
    BY <2>1, UncoveredGrows
<1> HIDE DEF k
<1>4. ASSUME NEW x \in m .. m + n - 1
      PROVE  x \in U(hi)
  <2>1. \A p \in Places(archive) : ~ Supplies(RecordAt(archive, p), x)
    BY <1>4 DEF NotSupplied
  <2>2. x \in lo .. hi - 1
    <3>1. lo <= m /\ m + n <= hi
      OBVIOUS
    <3> HIDE DEF lo, hi
    <3> QED
      BY <1>1, <3>1
  <2> QED
    BY <2>1, <2>2 DEF Uncovered
<1>5. k + n <= Len(lits)
  <2>1. C(m + n) <= C(hi)
    <3>1. m + n <= hi
      OBVIOUS
    <3> HIDE DEF lo, hi
    <3> QED
      BY <1>1, <3>1, UncoveredLess
  <2>2. C(m + n) = k + n
    BY <1>3
  <2> QED
    BY <1>2, <2>1, <2>2
<1>6. m + n <= Len(archive.original)
  <2>1. m + n <= hi
    OBVIOUS
  <2> HIDE DEF hi
  <2> QED
    BY <1>1, <2>1
<1>7. ASSUME NEW i \in 1 .. n
      PROVE  lits[k + i] = archive.original[m + i]
  <2> DEFINE x == m + (i - 1)
  <2>1. x \in m .. m + n - 1 /\ i - 1 \in 0 .. n /\ x + 1 = m + i
    OBVIOUS
  <2>2. C(x) = k + (i - 1)
    BY <1>3, <2>1
  <2> HIDE DEF x, U, C
  <2>3. lits[C(x) + 1] = archive.original[x + 1]
    BY <1>2, <1>4, <2>1
  <2>4. k + (i - 1) + 1 = k + i
    BY <1>13
  <2> HIDE DEF lits
  <2> QED
    BY <2>1, <2>2, <2>3, <2>4
<1> HIDE DEF lits, U, C
<1>10. SubSeq(lits, k + 1, k + n) = Slice(m, n)
  <2>1. lits \in Seq(Byte) /\ archive.original \in Seq(Byte)
    BY <1>1
  <2> QED
    BY <1>5, <1>6, <1>7, <1>13, <2>1, PartIsSlice
<1>11. C(m + n) = k + n
  BY <1>3, <1>13
<1>12. Len(lits) \in Nat
  BY <1>1
<1> QED
  BY <1>5, <1>10, <1>11, <1>12, <1>13 DEF lits, k, C, U

-----------------------------------------------------------------------------
(* Copies. *)

LEMMA OnlyZeroBetween ==
    ASSUME NEW d \in Nat \ {0}, NEW k \in Int, - d < d * k, d * k < d
    PROVE  k = 0
<1>1. ASSUME k >= 1 PROVE FALSE
  <2>1. d * k = d + d * (k - 1) /\ d * (k - 1) >= 0
    BY <1>1
  <2> QED
    BY <2>1
<1>2. ASSUME k <= -1 PROVE FALSE
  <2>1. d * (-1 - k) >= 0
    BY <1>2
  <2>2. d * (-1 - k) = - d - d * k
    OBVIOUS
  <2> QED
    BY <2>1, <2>2
<1> QED
  BY <1>1, <1>2

LEMMA ModSteps ==
    ASSUME NEW d \in Nat \ {0}, NEW x \in Nat
    PROVE  /\ x < d => x % d = x
           /\ x >= d => (x - d) % d = x % d
<1>1. x < d => x % d = x
  OBVIOUS
<1>2. ASSUME x >= d PROVE (x - d) % d = x % d
  <2> DEFINE y == x - d
             q == x \div d
             r == x % d
             u == y \div d
             v == y % d
             k == q - u - 1
  <2>1. x - d \in Nat
    BY <1>2
  <2>2. q \in Nat /\ r \in 0 .. d - 1 /\ x = d * q + r
    BY DivMod
  <2>3. u \in Nat /\ v \in 0 .. d - 1 /\ y = d * u + v
    BY <2>1, DivMod
  <2>4. y = x - d
    OBVIOUS
  <2> HIDE DEF y, q, r, u, v
  <2>5. k \in Int /\ d * k = d * q - d * u - d
    BY <2>2, <2>3
  <2>6. d * q \in Int /\ d * u \in Int
    BY <2>2, <2>3
  <2> HIDE DEF k
  <2>7. d * k = v - r
    BY <2>2, <2>3, <2>4, <2>5, <2>6
  <2>8. k = 0
    <3>1. - d < v - r /\ v - r < d
      BY <2>2, <2>3
    <3> QED
      BY <2>5, <2>7, <3>1, OnlyZeroBetween
  <2>9. v = r
    BY <2>2, <2>3, <2>7, <2>8
  <2> QED
    BY <2>9 DEF y, v, r
<1> QED
  BY <1>1, <1>2

\* A match that is longer than its distance repeats the bytes between source and copy.
Repeats(o, src, d, len) == \A i \in 1 .. len : o[src + d + i] = o[src + 1 + ((i - 1) % d)]

LEMMA CopyRepeats ==
    ASSUME NEW o, NEW src \in Nat, NEW d \in Nat \ {0}, NEW len \in Nat,
           \A x \in 1 .. len : o[src + d + x] = o[src + x]
    PROVE  Repeats(o, src, d, len)
<1> DEFINE P(j) == o[src + d + j] = o[src + 1 + ((j - 1) % d)]
           T == {i \in Nat : \A j \in 1 .. i : P(j)}
<1>1. 0 \in T
  OBVIOUS
<1>2. ASSUME NEW i \in 0 .. len - 1, i \in T PROVE i + 1 \in T
  <2> DEFINE j == i + 1
  <2>0. j \in Nat /\ j \in 1 .. len /\ j - 1 \in Nat
    OBVIOUS
  <2>1. P(j)
    <3>1. o[src + d + j] = o[src + j]
      BY <2>0
    <3>2. CASE j <= d
      <4>1. (j - 1) % d = j - 1
        BY <2>0, <3>2, ModSteps
      <4>2. src + 1 + (j - 1) = src + j
        BY <2>0
      <4> HIDE DEF j
      <4> QED
        BY <3>1, <4>1, <4>2
    <3>3. CASE j > d
      <4> DEFINE m == j - d
      <4>1. m \in 1 .. i /\ src + d + m = src + j /\ m - 1 = (j - 1) - d /\ j - 1 >= d
        BY <3>3
      <4>2. P(m)
        BY <1>2, <4>1
      <4>3. (m - 1) % d = (j - 1) % d
        <5>1. ((j - 1) - d) % d = (j - 1) % d
          BY <2>0, <4>1, ModSteps
        <5> HIDE DEF m, j
        <5> QED
          BY <4>1, <5>1
      <4> HIDE DEF m, j
      <4> QED
        BY <3>1, <4>1, <4>2, <4>3
    <3> QED
      BY <2>0, <3>2, <3>3
  <2>2. ASSUME NEW k \in 1 .. j PROVE P(k)
    <3>1. k \in 1 .. i \/ k = j
      BY <2>2
    <3>2. \A n \in 1 .. i : P(n)
      BY <1>2
    <3> HIDE DEF P, j
    <3> QED
      BY <2>1, <3>1, <3>2
  <2> HIDE DEF P
  <2> QED
    BY <2>0, <2>2
<1> HIDE DEF T, P
<1>3. 0 .. len \subseteq T
  BY <1>1, <1>2, InductionUpTo
<1>4. len \in T
  BY <1>3
<1>5. \A j \in 1 .. len : P(j)
  BY <1>4 DEF T
<1> QED
  BY <1>5 DEF P, Repeats

\* The len bytes of the original at dest repeat those at src.
IsCopy(src, dest, len) ==
    /\ src < dest /\ dest + len <= Len(archive.original)
    /\ \A x \in 1 .. len : archive.original[dest + x] = archive.original[src + x]

\* What OverlapCopy makes of a match whose source and copy are both after start.
LEMMA CopyAt ==
    ASSUME archive.original \in Seq(Byte),
           NEW src \in Nat, NEW dest \in Nat, NEW len \in Nat, IsCopy(src, dest, len),
           NEW start \in Nat, start <= src,
           NEW before, before = Slice(start, dest - start)
    PROVE  OverlapCopy(before, src - start, len) = Slice(dest, len)
<1> DEFINE o == archive.original
           d == dest - src
           off == src - start
<1>1. /\ src < dest
      /\ dest + len <= Len(o)
      /\ \A x \in 1 .. len : o[dest + x] = o[src + x]
  BY DEF IsCopy
<1>2. o \in Seq(Byte) /\ Len(o) \in Nat
  OBVIOUS
<1>3. start <= src /\ before = Slice(start, dest - start)
  OBVIOUS
<1>4. d \in Nat \ {0} /\ off \in Nat /\ src + d = dest /\ dest - start \in Nat /\ off < dest - start
      /\ (dest - start) - off = d /\ start + (dest - start) <= Len(o)
  <2> DEFINE l == Len(o)
  <2>1. src \in Nat /\ dest \in Nat /\ len \in Nat /\ src < dest /\ dest + len <= l /\ l \in Nat
        /\ start <= src
    BY <1>1, <1>2, <1>3
  <2> HIDE DEF l
  <2>2. d \in Nat \ {0} /\ off \in Nat /\ src + d = dest /\ dest - start \in Nat /\ off < dest - start
        /\ (dest - start) - off = d /\ start + (dest - start) <= l
    BY <2>1
  <2> QED
    BY <2>2 DEF l
<1>5. HasBytes(before, start, dest - start)
  <2> DEFINE n == dest - start
  <2>1. n \in Nat /\ start + n <= Len(o) /\ before = Slice(start, n)
    BY <1>3, <1>4
  <2> HIDE DEF n
  <2>2. HasBytes(before, start, n)
    BY <1>2, <2>1, SliceIs
  <2> QED
    BY <2>2 DEF n
<1> HIDE DEF d, off
<1> DEFINE c == OverlapCopy(before, off, len)
<1>6. /\ c \in Seq(Byte) /\ Len(c) = len
      /\ \A i \in 1 .. len : c[i] = before[off + 1 + ((i - 1) % (Len(before) - off))]
  <2>1. before \in Seq(Byte) /\ off < Len(before) /\ off \in Nat /\ len \in Nat
    BY <1>1, <1>4, <1>5 DEF HasBytes
  <2> QED
    <3>1. before \in Seq(Byte)
      BY <2>1
    <3> QED
      BY ONLY <2>1, <3>1, OverlapCopyIs, ZenonT(40)
<1> HIDE DEF c
<1>7. Repeats(o, src, d, len)
  <2>1. \A x \in 1 .. len : o[src + d + x] = o[src + x]
    BY <1>1, <1>4
  <2> HIDE DEF o
  <2> QED
    BY <1>1, <1>4, <2>1, CopyRepeats
<1>8. ASSUME NEW i \in 1 .. len PROVE c[i] = o[dest + i]
  <2> DEFINE r == (i - 1) % d
  <2>1. r \in 0 .. d - 1
    <3>1. i - 1 \in Nat
      BY <1>1
    <3> QED
      BY <1>4, <3>1, DivMod
  <2>2. c[i] = before[off + 1 + r]
    BY <1>4, <1>5, <1>6 DEF HasBytes
  <2>3. o[src + d + i] = o[src + 1 + r]
    BY <1>7 DEF Repeats
  <2> HIDE DEF r
  <2>4. off + 1 + r \in 1 .. dest - start /\ start + (off + 1 + r) = src + 1 + r
    BY <1>1, <1>4, <2>1 DEF off
  <2>5. before[off + 1 + r] = o[src + 1 + r]
    BY <1>5, <2>4 DEF HasBytes
  <2> QED
    BY <1>4, <2>2, <2>3, <2>5
<1>9. c = Slice(dest, len)
  <2>1. HasBytes(c, dest, len)
    BY <1>6, <1>8 DEF HasBytes
  <2> QED
    BY <1>1, <1>2, <2>1, IsSlice
<1> QED
  BY <1>9 DEF c, off

\* What it makes of a record whose source and copy are in the same block.
LEMMA CopyIsRight ==
    ASSUME IsArchive(archive), Sound, NEW p \in Places(archive),
           NEW start \in Nat, start <= Rec(p).src,
           NEW before, before = Slice(start, Rec(p).dest - start)
    PROVE  OverlapCopy(before, Rec(p).src - start, Rec(p).len) = Slice(Rec(p).dest, Rec(p).len)
<1> DEFINE src == Rec(p).src
           dest == Rec(p).dest
           len == Rec(p).len
<1>1. /\ archive.original \in Seq(Byte)
      /\ src \in Nat /\ dest \in Nat /\ len \in Nat /\ IsCopy(src, dest, len)
      /\ start <= src /\ before = Slice(start, dest - start)
  BY RecordsAre, ArchiveShape DEF GoodRecord, IsCopy
<1> HIDE DEF src, dest, len
<1>2. OverlapCopy(before, src - start, len) = Slice(dest, len)
  BY <1>1, CopyAt
<1> QED
  BY <1>2 DEF src, dest, len

-----------------------------------------------------------------------------
(* What comes next in the current block. *)

\* A block that starts before the end of block b is b or an earlier one.
LEMMA StartsBefore ==
    ASSUME IsArchive(archive), NEW b \in 1 .. Len(archive.lists), NEW c \in 1 .. Len(archive.lists),
           FirstOf(c) < EndOf(archive, b)
    PROVE  /\ c <= b
           /\ EndOf(archive, c) <= EndOf(archive, b)
           /\ c < b => EndOf(archive, c) <= FirstOf(b)
<1> DEFINE s == FirstOf(b)
           t == FirstOf(c)
           e == EndOf(archive, b)
           f == EndOf(archive, c)
<1>1. /\ s \in Nat /\ t \in Nat /\ e \in Nat /\ f \in Nat
      /\ s < e /\ e <= FirstOf(b + 1) /\ f <= FirstOf(c + 1) /\ t < e
      /\ Len(archive.lists) \in Nat
  BY ArchiveShape
<1>2. b \in Nat \ {0} /\ c \in Nat \ {0}
  BY <1>1
<1>3. FirstOf(b + 1) = s + BufSize /\ FirstOf(c + 1) = t + BufSize
  BY <1>2, StartsGrow
<1>4. b \in 1 .. c - 1 => s + BufSize <= t
  BY <1>2, StartsGrow
<1>5. c \in 1 .. b - 1 => t + BufSize <= s
  BY <1>2, StartsGrow
<1>6. BufSize \in Nat
  BY SizesPositive
<1> HIDE DEF s, t, e, f
<1>7. c <= b
  <2>1. ASSUME b < c PROVE FALSE
    <3>1. b \in 1 .. c - 1
      BY <1>2, <2>1
    <3> QED
      BY <1>1, <1>3, <1>4, <1>6, <3>1
  <2> QED
    BY <1>2, <2>1
<1>8. c < b => f <= s
  <2>1. ASSUME c < b PROVE f <= s
    <3>1. c \in 1 .. b - 1
      BY <1>2, <2>1
    <3> QED
      BY <1>1, <1>3, <1>5, <1>6, <3>1
  <2> QED
    BY <2>1
<1>9. f <= e
  <2>1. CASE c = b
    BY <1>1, <2>1 DEF e, f
  <2>2. CASE c < b
    BY <1>1, <1>8, <2>2
  <2> QED
    BY <1>2, <1>7, <2>1, <2>2
<1> QED
  BY <1>7, <1>8, <1>9 DEF s, e, f

\* A copy that starts before the end of block b ends there too, and its source is in b or
\* an earlier block.
LEMMA CopyInside ==
    ASSUME IsArchive(archive), Sound, NEW b \in 1 .. Len(archive.lists),
           NEW p \in Places(archive), Rec(p).dest < EndOf(archive, b)
    PROVE  /\ Rec(p).dest + Rec(p).len <= EndOf(archive, b)
           /\ p[1] <= b
           /\ p[1] < b => Rec(p).src + Rec(p).len <= FirstOf(b)
<1> DEFINE src == Rec(p).src
           dest == Rec(p).dest
           len == Rec(p).len
           e == EndOf(archive, b)
<1>1. /\ src \in Nat /\ dest \in Nat /\ len \in Nat \ {0}
      /\ FirstOf(p[1]) \in Nat /\ EndOf(archive, p[1]) \in Nat
      /\ FirstOf(p[1]) <= src /\ src + len <= EndOf(archive, p[1]) /\ src < dest
  BY RecordsAre DEF GoodRecord
<1>2. PICK c \in 1 .. Len(archive.lists) :
          /\ FirstOf(c) \in Nat /\ EndOf(archive, c) \in Nat
          /\ FirstOf(c) <= dest /\ dest + len <= EndOf(archive, c)
  BY RecordsAre
<1>3. p[1] \in 1 .. Len(archive.lists)
  BY PlacesAre
<1>4. e \in Nat /\ FirstOf(b) \in Nat /\ dest < e
  BY ArchiveShape
<1> HIDE DEF src, dest, len, e
<1>5. EndOf(archive, c) <= e
  <2>1. FirstOf(c) < e
    BY <1>1, <1>2, <1>4
  <2> QED
    BY <2>1, StartsBefore DEF e
<1>6. p[1] <= b /\ (p[1] < b => EndOf(archive, p[1]) <= FirstOf(b))
  <2>1. FirstOf(p[1]) < e
    BY <1>1, <1>4
  <2> QED
    BY <1>3, <2>1, StartsBefore DEF e
<1>7. dest + len <= e
  BY <1>1, <1>2, <1>4, <1>5
<1>8. p[1] < b => src + len <= FirstOf(b)
  BY <1>1, <1>4, <1>6
<1> QED
  BY <1>6, <1>7, <1>8 DEF e, src, dest, len

\* What waits is due no earlier than the first entry of the heap.
LEMMA FirstLeads ==
    ASSUME IInv, Sound, Running, AllThere, NEW p \in Waiting
    PROVE  First(heap).dest <= Rec(p).dest
<1> DEFINE d == Rec(p).dest
<1>1. TypeOK /\ HeapShape /\ MarksDue /\ ~ Stuck /\ ~ opts.wraps
  BY DEF IInv, Running, Stuck, Sound
<1>2. First(heap) \in heap /\ \A f \in heap : First(heap).dest <= f.dest
  BY <1>1, FirstDue
<1>3. HasEntry(d) \/ HasSpilled(d)
  BY DEF AllThere
<1> HIDE DEF d
<1>4. CASE HasEntry(d)
  <2>1. PICK e \in Matches : e.dest = d
    BY <1>4 DEF HasEntry
  <2> QED
    BY <1>2, <2>1 DEF Matches, d
<1>5. CASE HasSpilled(d)
  <2>1. PICK m \in Marks : \E k \in DOMAIN disk[m.src] : disk[m.src][k].dest = d
    BY <1>5 DEF HasSpilled
  <2>2. m \in heap /\ m.dest <= d
    BY <1>1, <2>1 DEF MarksDue, Marks
  <2> DEFINE x == m.dest
             y == First(heap).dest
  <2>3. x \in Nat /\ y \in Nat /\ y <= x /\ x <= d
    BY <1>1, <1>2, <2>2, TypesAre
  <2>4. d \in Nat
    BY <1>1, RecordsAre, TypesAre DEF GoodRecord, Waiting, d
  <2> HIDE DEF x, y
  <2>5. y <= d
    BY <2>3, <2>4
  <2> QED
    BY <2>5 DEF y, d
<1> QED
  BY <1>3, <1>4, <1>5

LEMMA ReachedIs ==
    ASSUME IInv, Running
    PROVE  /\ Reached \in Nat /\ BlockStart \in Nat /\ BlockStart <= Reached
           /\ pc = "read" => Reached = BlockStart
           /\ pc = "process" => Reached = BlockStart + Len(out) /\ Reached <= BlockEnd
           /\ pc = "save" => Reached = BlockEnd
<1>1. TypeOK /\ Position
  BY DEF IInv
<1>2. BlockStart \in Nat /\ Len(out) \in Nat
  <2>1. block \in Nat \ {0} /\ Len(out) \in Nat
    BY <1>1, TypesAre
  <2> QED
    BY <2>1, StartsGrow DEF BlockStart
<1>3. CASE pc = "read"
  BY <1>2, <1>3 DEF Reached, InABlock
<1>4. CASE InABlock
  <2>1. block <= archive.present
    BY <1>1, <1>4 DEF Position
  <2>2. OrigSize \in Nat /\ BlockEnd = BlockStart + OrigSize
    BY <2>1, Inside
  <2>3. Reached = BlockStart + Len(out) /\ Len(out) <= OrigSize /\ (pc = "save" => Len(out) = OrigSize)
    BY <1>1, <1>4 DEF Reached, Position
  <2> QED
    BY <1>2, <1>4, <2>2, <2>3 DEF InABlock
<1> QED
  BY <1>3, <1>4 DEF Running, InABlock

\* No record supplies the bytes from those decoded on, up to the first entry of the heap.
LEMMA NoneBetween ==
    ASSUME IInv, Sound, pc = "process", AllThere, DecodedRight,
           NEW n \in Nat, Reached + n <= BlockEnd, Reached + n <= First(heap).dest
    PROVE  NotSupplied(archive, Reached, n)
<1>1. Reached \in Nat /\ BlockEnd \in Nat /\ First(heap).dest \in Nat /\ block \in 1 .. Len(archive.lists)
  <2>1. TypeOK /\ HeapShape /\ block <= archive.present
    BY DEF IInv, Position, InABlock
  <2>2. First(heap) \in heap
    BY <2>1, FirstDue
  <2> QED
    BY <2>1, <2>2, Inside, ReachedIs, TypesAre DEF Running
<1>2. SUFFICES ASSUME NEW x \in Reached .. Reached + n - 1, NEW p \in Places(archive),
                      Supplies(RecordAt(archive, p), x)
               PROVE  FALSE
  BY DEF NotSupplied
<1> DEFINE d == Rec(p).dest
           l == Rec(p).len
           f == First(heap).dest
<1>3. d <= x /\ x < d + l
  BY <1>2 DEF Supplies, Rec
<1>4. IsArchive(archive)
  BY TypesAre DEF IInv
<1>5. d \in Nat /\ l \in Nat
  BY <1>4, RecordsAre DEF GoodRecord
<1>6. d < Reached => d + l <= Reached
  BY DEF DecodedRight
<1> HIDE DEF d, l, f
<1>7. d >= Reached /\ d < BlockEnd /\ d < f
  BY <1>1, <1>3, <1>5, <1>6 DEF f
<1>8. p[1] <= block
  BY <1>1, <1>4, <1>7, CopyInside DEF d, BlockEnd
<1>9. p[1] < block \/ p[1] = block
  <2>1. p[1] \in Nat /\ block \in Nat
    <3>1. p[1] \in 1 .. Len(archive.lists) /\ Len(archive.lists) \in Nat
      BY <1>4, PlacesAre, ArchiveShape
    <3> QED
      BY <1>1, <3>1
  <2> QED
    BY <1>8, <2>1
<1>10. p \in Waiting
  BY <1>7, <1>9 DEF Waiting, Known, d
<1>11. f <= d
  BY <1>10, FirstLeads DEF f, d, Running
<1> QED
  BY <1>1, <1>5, <1>7, <1>11 DEF f

-----------------------------------------------------------------------------
(* Entries come and go. *)

LEMMA ArchiveStays ==
    ASSUME UNCHANGED <<archive, opts>>
    PROVE  /\ Sound' = Sound /\ Places(archive)' = Places(archive)
           /\ \A p : Rec(p)' = Rec(p)
           /\ \A from, len : Slice(from, len)' = Slice(from, len)
           /\ MaximumSave' = MaximumSave
  BY DEF Sound, Places, Rec, RecordAt, Slice, MaximumSave

LEMMA PendingStays ==
    ASSUME Pending, UNCHANGED <<archive, opts, heap, mm, disk>>, Waiting' = Waiting
    PROVE  Pending'
<1>1. Matches' = Matches /\ Marks' = Marks
  BY DEF Matches, Marks, IsMarkingPoint
<1>2. /\ \A p : Rec(p)' = Rec(p)
      /\ \A from, len : Slice(from, len)' = Slice(from, len)
      /\ MaximumSave' = MaximumSave
  BY ArchiveStays
<1>3. /\ \A e, p : IsEntryOf(e, p)' = IsEntryOf(e, p)
      /\ \A s, p : IsSpilled(s, p)' = IsSpilled(s, p)
  BY <1>2 DEF IsEntryOf, IsSpilled
<1>4. AllTrue'
  BY <1>1, <1>3 DEF Pending, AllTrue
<1>5. Once'
  BY <1>1 DEF Pending, Once
<1>6. AllThere'
  BY <1>1, <1>2 DEF Pending, AllThere, HasEntry, HasSpilled
<1> QED
  BY <1>4, <1>5, <1>6 DEF Pending

\* The entries E of the records P join the heap.
Joins(E, P) ==
    /\ UNCHANGED <<archive, opts, disk>>
    /\ P \subseteq Places(archive) /\ P \cap Waiting = {}
    /\ Waiting' = Waiting \cup P
    /\ heap' = heap \cup E
    /\ \A e \in E : e.len # 0 /\ e # Barrier /\ \E p \in P : IsEntryOf(e, p)'
    /\ \A p \in P : \E e \in E : e.dest = Rec(p).dest
    /\ \A e, f \in E : e.dest = f.dest => e = f
    /\ \A e \in heap : e.index # 0 => mm'[e.index] = mm[e.index]

LEMMA PendingGrows ==
    ASSUME IsArchive(archive), Sound, Pending, NEW E, NEW P, Joins(E, P)
    PROVE  Pending'
<1>1. /\ \A p : Rec(p)' = Rec(p)
      /\ \A from, len : Slice(from, len)' = Slice(from, len)
      /\ MaximumSave' = MaximumSave
  BY ArchiveStays DEF Joins
<1>2. Matches' = Matches \cup E /\ Marks' = Marks
  BY DEF Joins, Matches, Marks, IsMarkingPoint
<1>3. disk' = disk /\ Waiting' = Waiting \cup P
  BY DEF Joins
<1>4. ASSUME NEW e \in Matches, NEW p, IsEntryOf(e, p)
      PROVE  IsEntryOf(e, p)'
  BY <1>1, <1>4 DEF IsEntryOf, Matches, Joins
<1>5. \A s, p : IsSpilled(s, p)' = IsSpilled(s, p)
  BY <1>1 DEF IsSpilled
<1>6. AllTrue'
  <2>1. ASSUME NEW e \in Matches' PROVE \E p \in Waiting' : IsEntryOf(e, p)'
    <3>1. CASE e \in Matches
      <4>1. PICK p \in Waiting : IsEntryOf(e, p)
        BY <3>1 DEF Pending, AllTrue
      <4> QED
        BY <1>3, <1>4, <3>1, <4>1
    <3>2. CASE e \in E
      BY <1>3, <3>2 DEF Joins
    <3> QED
      BY <1>2, <3>1, <3>2
  <2>2. ASSUME NEW m \in Marks', NEW k \in DOMAIN disk'[m.src]
        PROVE  \E p \in Waiting' : IsSpilled(disk[m.src][k], p)'
    <3>1. m \in Marks /\ k \in DOMAIN disk[m.src]
      BY <1>2, <1>3
    <3>2. PICK p \in Waiting : IsSpilled(disk[m.src][k], p)
      BY <3>1 DEF Pending, AllTrue
    <3> QED
      BY <1>3, <1>5, <3>2
  <2> QED
    BY <2>1, <2>2 DEF AllTrue
<1>7. ASSUME NEW e \in E, NEW q \in Waiting PROVE Rec(q).dest # e.dest
  <2>1. PICK p \in P : IsEntryOf(e, p)'
    BY DEF Joins
  <2>2. Rec(p).dest = e.dest
    BY <1>1, <2>1 DEF IsEntryOf
  <2>3. p \in Places(archive) /\ q \in Places(archive) /\ p # q
    BY <2>1 DEF Joins, Waiting
  <2> QED
    BY <2>2, <2>3, DestsDiffer
<1>8. ASSUME NEW e \in Matches, NEW f \in E PROVE e.dest # f.dest
  <2>1. PICK p \in Waiting : IsEntryOf(e, p)
    BY DEF Pending, AllTrue
  <2> QED
    BY <1>7, <2>1 DEF IsEntryOf
<1>9. ASSUME NEW m \in Marks, NEW k \in DOMAIN disk[m.src], NEW f \in E
      PROVE  disk[m.src][k].dest # f.dest
  <2>1. PICK p \in Waiting : IsSpilled(disk[m.src][k], p)
    BY DEF Pending, AllTrue
  <2> QED
    BY <1>7, <2>1 DEF IsSpilled
<1>10. Once'
  <2>1. ASSUME NEW e \in Matches', NEW f \in Matches', e.dest = f.dest PROVE e = f
    BY <1>2, <1>8, <2>1 DEF Pending, Once, Joins
  <2>2. \A m, n \in Marks' : \A j \in DOMAIN disk'[m.src], k \in DOMAIN disk'[n.src] :
           disk'[m.src][j].dest = disk'[n.src][k].dest => m = n /\ j = k
    BY <1>2, <1>3 DEF Pending, Once
  <2>3. \A e \in Matches', m \in Marks' : \A k \in DOMAIN disk'[m.src] : disk'[m.src][k].dest # e.dest
    BY <1>2, <1>3, <1>9 DEF Pending, Once
  <2> QED
    BY <2>1, <2>2, <2>3 DEF Once
<1>11. AllThere'
  <2>1. \A d : (HasEntry(d) => HasEntry(d)') /\ (HasSpilled(d) => HasSpilled(d)')
    BY <1>2, <1>3 DEF HasEntry, HasSpilled
  <2>2. ASSUME NEW p \in Waiting' PROVE HasEntry(Rec(p).dest)' \/ HasSpilled(Rec(p).dest)'
    <3>1. CASE p \in Waiting
      <4>1. HasEntry(Rec(p).dest) \/ HasSpilled(Rec(p).dest)
        BY <3>1 DEF Pending, AllThere
      <4>2. (Rec(p).dest)' = Rec(p).dest
        BY <1>1
      <4> QED
        BY <1>2, <1>3, <4>1, <4>2 DEF HasEntry, HasSpilled
    <3>2. CASE p \in P
      <4>1. PICK e \in E : e.dest = Rec(p).dest
        BY <3>2 DEF Joins
      <4>2. e \in Matches' /\ e.dest = (Rec(p).dest)'
        BY <1>1, <1>2, <4>1
      <4> QED
        BY <4>2 DEF HasEntry
    <3> QED
      BY <1>3, <3>1, <3>2
  <2> QED
    BY <2>2 DEF AllThere
<1> QED
  BY <1>6, <1>10, <1>11 DEF Pending

\* Entry e, of record p, leaves the heap: the copy has been made.
Leaves(e, p) ==
    /\ UNCHANGED <<archive, opts, disk>>
    /\ e \in Matches /\ p \in Waiting /\ IsEntryOf(e, p)
    /\ Waiting' = Waiting \ {p}
    /\ heap' = heap \ {e}
    /\ \A f \in heap \ {e} : f.index # 0 => mm'[f.index] = mm[f.index]

LEMMA PendingLess ==
    ASSUME IsArchive(archive), Sound, Pending, NEW e, NEW p, Leaves(e, p)
    PROVE  Pending'
<1>1. /\ \A q : Rec(q)' = Rec(q)
      /\ \A from, len : Slice(from, len)' = Slice(from, len)
      /\ MaximumSave' = MaximumSave
  BY ArchiveStays DEF Leaves
<1>2. /\ Matches' = Matches \ {e} /\ Marks' = Marks /\ disk' = disk
      /\ Waiting' = Waiting \ {p} /\ e \in Matches /\ p \in Waiting /\ Rec(p).dest = e.dest
  BY DEF Leaves, Matches, Marks, IsMarkingPoint, IsEntryOf
<1>3. ASSUME NEW f \in Matches \ {e}, NEW q, IsEntryOf(f, q)
      PROVE  IsEntryOf(f, q)'
  BY <1>1, <1>3 DEF IsEntryOf, Matches, Leaves
<1>4. \A s, q : IsSpilled(s, q)' = IsSpilled(s, q)
  BY <1>1 DEF IsSpilled
<1>5. AllTrue'
  <2>1. ASSUME NEW f \in Matches' PROVE \E q \in Waiting' : IsEntryOf(f, q)'
    <3>1. PICK q \in Waiting : IsEntryOf(f, q)
      BY <1>2 DEF Pending, AllTrue
    <3>2. Rec(q).dest = f.dest /\ f.dest # e.dest
      BY <1>2, <3>1 DEF IsEntryOf, Pending, Once
    <3>3. q \in Waiting'
      BY <1>2, <3>2
    <3> QED
      BY <1>2, <1>3, <3>1, <3>3
  <2>2. ASSUME NEW m \in Marks', NEW k \in DOMAIN disk'[m.src]
        PROVE  \E q \in Waiting' : IsSpilled(disk[m.src][k], q)'
    <3>1. m \in Marks /\ k \in DOMAIN disk[m.src]
      BY <1>2
    <3>2. PICK q \in Waiting : IsSpilled(disk[m.src][k], q)
      BY <3>1 DEF Pending, AllTrue
    <3>3. Rec(q).dest = disk[m.src][k].dest /\ disk[m.src][k].dest # e.dest
      BY <1>2, <3>1, <3>2 DEF IsSpilled, Pending, Once
    <3>4. q \in Waiting'
      BY <1>2, <3>3
    <3> QED
      BY <1>2, <1>4, <3>2, <3>4
  <2> QED
    BY <2>1, <2>2 DEF AllTrue
<1>6. Once'
  BY <1>2 DEF Pending, Once
<1>7. AllThere'
  <2>1. ASSUME NEW q \in Waiting' PROVE HasEntry(Rec(q).dest)' \/ HasSpilled(Rec(q).dest)'
    <3> DEFINE d == Rec(q).dest
    <3>1. q \in Waiting /\ q # p /\ d' = d
      BY <1>1, <1>2
    <3>2. d # e.dest
      BY <1>2, <3>1, DestsDiffer DEF Waiting
    <3>3. HasEntry(d) \/ HasSpilled(d)
      BY <3>1 DEF Pending, AllThere
    <3> QED
      BY <1>2, <3>1, <3>2, <3>3 DEF HasEntry, HasSpilled
  <2> QED
    BY <2>1 DEF AllThere
<1> QED
  BY <1>5, <1>6, <1>7 DEF Pending

\* The entries taken go to VM block v, and mark joins the heap.
Spills(taken, v, mark) ==
    /\ UNCHANGED <<archive, opts>>
    /\ Waiting' = Waiting
    /\ \A k \in DOMAIN taken : /\ taken[k] \in Matches /\ taken[k].index # 0
                               /\ Len(mm[taken[k].index]) = taken[k].len
    /\ \A j, k \in DOMAIN taken : taken[j] = taken[k] => j = k
    /\ heap' = (heap \ Range(taken)) \cup {mark}
    /\ IsMarkingPoint(mark) /\ mark.src = v
    /\ \A m \in Marks : m.src # v /\ disk'[m.src] = disk[m.src]
    /\ disk'[v] = SpillRecordsOf(taken)
    /\ \A f \in heap \ Range(taken) : f.index # 0 => mm'[f.index] = mm[f.index]

LEMMA PendingSpilled ==
    ASSUME Pending, NEW taken, NEW v, NEW mark, Spills(taken, v, mark)
    PROVE  Pending'
<1>1. /\ \A q : Rec(q)' = Rec(q)
      /\ \A from, len : Slice(from, len)' = Slice(from, len)
      /\ MaximumSave' = MaximumSave
  BY ArchiveStays DEF Spills
<1>2. /\ Matches' = Matches \ Range(taken) /\ Marks' = Marks \cup {mark}
      /\ Waiting' = Waiting /\ mark.src = v /\ DOMAIN disk'[v] = DOMAIN taken
      /\ \A m \in Marks : m.src # v /\ disk'[m.src] = disk[m.src]
  <2>1. ASSUME NEW k \in DOMAIN taken PROVE ~ IsMarkingPoint(taken[k])
    BY DEF Spills, Matches
  <2>2. \A e \in Range(taken) : ~ IsMarkingPoint(e)
    BY <2>1 DEF Range
  <2>3. \A e : IsMarkingPoint(e)' = IsMarkingPoint(e)
    BY DEF IsMarkingPoint
  <2> QED
    BY <2>2, <2>3 DEF Spills, Matches, Marks, SpillRecordsOf
<1>3. ASSUME NEW k \in DOMAIN taken
      PROVE  /\ taken[k] \in Matches /\ taken[k] \in Range(taken) /\ taken[k].index # 0
             /\ disk'[v][k].src = taken[k].src /\ disk'[v][k].dest = taken[k].dest
             /\ disk'[v][k].data = mm[taken[k].index]
             /\ Len(disk'[v][k].data) = taken[k].len
  BY <1>3 DEF Spills, SpillRecordsOf, Range
<1>4. \A e \in Range(taken) : \E k \in DOMAIN taken : e = taken[k]
  BY DEF Range
<1>5. AllTrue'
  <2>1. ASSUME NEW f \in Matches' PROVE \E q \in Waiting' : IsEntryOf(f, q)'
    <3>1. f \in Matches /\ f \in heap \ Range(taken)
      BY <1>2 DEF Matches
    <3>2. PICK q \in Waiting : IsEntryOf(f, q)
      BY <3>1 DEF Pending, AllTrue
    <3>3. f.index # 0 => mm'[f.index] = mm[f.index]
      BY <3>1 DEF Spills
    <3>4. IsEntryOf(f, q)'
      BY <1>1, <3>2, <3>3 DEF IsEntryOf
    <3> QED
      BY <1>2, <3>2, <3>4
  <2>2. ASSUME NEW m \in Marks', NEW k \in DOMAIN disk'[m.src]
        PROVE  \E q \in Waiting' : IsSpilled(disk[m.src][k], q)'
    <3>1. CASE m = mark
      <4>1. k \in DOMAIN taken
        BY <1>2, <3>1
      <4>2. PICK q \in Waiting : IsEntryOf(taken[k], q)
        BY <1>3, <4>1 DEF Pending, AllTrue
      <4> DEFINE s == disk'[v][k]
                 e == taken[k]
      <4>3. /\ s.src = e.src /\ s.dest = e.dest /\ Len(s.data) = e.len
            /\ s.data = mm[e.index] /\ e.index # 0
        BY <1>3, <4>1
      <4>4. /\ Rec(q).src = e.src /\ Rec(q).dest = e.dest /\ Rec(q).len = e.len
            /\ e.len < MaximumSave /\ mm[e.index] = Slice(e.dest, e.len)
        BY <4>2, <4>3 DEF IsEntryOf
      <4> HIDE DEF s, e
      <4>5. /\ Rec(q)'.src = s.src /\ Rec(q)'.dest = s.dest /\ Rec(q)'.len = Len(s.data)
            /\ Len(s.data) < MaximumSave' /\ s.data = Slice(s.dest, Len(s.data))
        BY <1>1, <4>3, <4>4
      <4>6. IsSpilled(disk[m.src][k], q)'
        BY <1>1, <1>2, <3>1, <4>5 DEF IsSpilled, s
      <4> QED
        BY <1>2, <4>2, <4>6
    <3>2. CASE m \in Marks
      <4>1. k \in DOMAIN disk[m.src] /\ disk'[m.src] = disk[m.src]
        BY <1>2, <3>2
      <4>2. PICK q \in Waiting : IsSpilled(disk[m.src][k], q)
        BY <3>2, <4>1 DEF Pending, AllTrue
      <4>3. IsSpilled(disk[m.src][k], q)'
        BY <1>1, <4>1, <4>2 DEF IsSpilled
      <4> QED
        BY <1>2, <4>2, <4>3
    <3> QED
      BY <1>2, <3>1, <3>2
  <2> QED
    BY <2>1, <2>2 DEF AllTrue
<1>6. Once'
  <2>1. \A e, f \in Matches' : e.dest = f.dest => e = f
    BY <1>2 DEF Pending, Once
  <2>2. ASSUME NEW m \in Marks', NEW n \in Marks', NEW j \in DOMAIN disk'[m.src],
               NEW k \in DOMAIN disk'[n.src], disk'[m.src][j].dest = disk'[n.src][k].dest
        PROVE  m = n /\ j = k
    <3>1. CASE m = mark /\ n = mark
      <4>1. taken[j].dest = taken[k].dest /\ taken[j] \in Matches /\ taken[k] \in Matches
            /\ j \in DOMAIN taken /\ k \in DOMAIN taken
        BY <1>2, <1>3, <2>2, <3>1
      <4>2. taken[j] = taken[k]
        BY <4>1 DEF Pending, Once
      <4> QED
        BY <3>1, <4>1, <4>2 DEF Spills
    <3>2. CASE m \in Marks /\ n \in Marks
      BY <1>2, <2>2, <3>2 DEF Pending, Once
    <3>3. CASE m = mark /\ n \in Marks
      <4>1. disk[n.src][k].dest = taken[j].dest /\ taken[j] \in Matches /\ k \in DOMAIN disk[n.src]
        BY <1>2, <1>3, <2>2, <3>3
      <4> QED
        BY <3>3, <4>1 DEF Pending, Once
    <3>4. CASE m \in Marks /\ n = mark
      <4>1. disk[m.src][j].dest = taken[k].dest /\ taken[k] \in Matches /\ j \in DOMAIN disk[m.src]
        BY <1>2, <1>3, <2>2, <3>4
      <4> QED
        BY <3>4, <4>1 DEF Pending, Once
    <3> QED
      BY <1>2, <3>1, <3>2, <3>3, <3>4
  <2>3. ASSUME NEW e \in Matches', NEW m \in Marks', NEW k \in DOMAIN disk'[m.src]
        PROVE  disk'[m.src][k].dest # e.dest
    <3>1. CASE m = mark
      <4>1. disk'[m.src][k].dest = taken[k].dest /\ taken[k] \in Matches /\ taken[k] \in Range(taken)
        BY <1>2, <1>3, <2>3, <3>1
      <4> QED
        BY <1>2, <4>1 DEF Pending, Once
    <3>2. CASE m \in Marks
      BY <1>2, <2>3, <3>2 DEF Pending, Once
    <3> QED
      BY <1>2, <3>1, <3>2
  <2> QED
    BY <2>1, <2>2, <2>3 DEF Once
<1>7. AllThere'
  <2>1. ASSUME NEW q \in Waiting' PROVE HasEntry(Rec(q).dest)' \/ HasSpilled(Rec(q).dest)'
    <3> DEFINE d == Rec(q).dest
    <3>1. q \in Waiting /\ d' = d
      BY <1>1, <1>2
    <3>2. CASE HasEntry(d)
      <4>1. PICK e \in Matches : e.dest = d
        BY <3>2 DEF HasEntry
      <4>2. CASE e \in Range(taken)
        <5>1. PICK k \in DOMAIN taken : e = taken[k]
          BY <1>4, <4>2
        <5>2. mark \in Marks' /\ k \in DOMAIN disk'[mark.src] /\ disk'[mark.src][k].dest = d
          BY <1>2, <1>3, <4>1, <5>1
        <5> HIDE DEF d
        <5>3. HasSpilled(d)'
          BY <3>1, <5>2 DEF HasSpilled
        <5> QED
          BY <5>3 DEF d
      <4>3. CASE e \notin Range(taken)
        BY <1>2, <3>1, <4>1, <4>3 DEF HasEntry
      <4> QED
        BY <4>2, <4>3
    <3>3. CASE HasSpilled(d)
      <4>1. PICK m \in Marks : \E k \in DOMAIN disk[m.src] : disk[m.src][k].dest = d
        BY <3>3 DEF HasSpilled
      <4> QED
        BY <1>2, <3>1, <4>1 DEF HasSpilled
    <3> QED
      BY <3>1, <3>2, <3>3 DEF Pending, AllThere
  <2> QED
    BY <2>1 DEF AllThere
<1> QED
  BY <1>5, <1>6, <1>7 DEF Pending

\* The records of the VM block of mark join the heap as entries ent[1], ent[2], ...
Restores(mark, ent) ==
    /\ UNCHANGED <<archive, opts, disk>>
    /\ Waiting' = Waiting
    /\ mark \in Marks
    /\ \A k \in DOMAIN disk[mark.src] :
          LET s == disk[mark.src][k]
          IN /\ ent[k].src = s.src /\ ent[k].dest = s.dest /\ ent[k].len = Len(s.data)
             /\ ent[k].len # 0 /\ ent[k] # Barrier /\ mm'[ent[k].index] = s.data
    /\ heap' = (heap \cup {ent[k] : k \in DOMAIN disk[mark.src]}) \ {mark}
    /\ \A f \in heap : f.index # 0 => mm'[f.index] = mm[f.index]

LEMMA PendingRestored ==
    ASSUME Pending, NEW mark, NEW ent, Restores(mark, ent)
    PROVE  Pending'
<1> DEFINE recs == disk[mark.src]
           E == {ent[k] : k \in DOMAIN recs}
<1>1. /\ \A q : Rec(q)' = Rec(q)
      /\ \A from, len : Slice(from, len)' = Slice(from, len)
      /\ MaximumSave' = MaximumSave
  BY ArchiveStays DEF Restores
<1>2. /\ mark \in Marks /\ Waiting' = Waiting /\ disk' = disk
      /\ \A k \in DOMAIN recs :
            /\ ent[k].src = recs[k].src /\ ent[k].dest = recs[k].dest
            /\ ent[k].len = Len(recs[k].data)
            /\ ent[k].len # 0 /\ ent[k] # Barrier /\ mm'[ent[k].index] = recs[k].data
      /\ heap' = (heap \cup E) \ {mark}
      /\ \A f \in heap : f.index # 0 => mm'[f.index] = mm[f.index]
  BY DEF Restores
<1>3. /\ \A e \in E : \E k \in DOMAIN recs : e = ent[k]
      /\ \A k \in DOMAIN recs : ent[k] \in E
  OBVIOUS
<1>11. \A k \in DOMAIN recs : recs[k] = disk[mark.src][k]
  OBVIOUS
<1>12. DOMAIN recs = DOMAIN disk[mark.src]
  OBVIOUS
<1> HIDE DEF E, recs
<1>4. Matches' = Matches \cup E /\ Marks' = Marks \ {mark}
  <2>1. \A e \in E : ~ IsMarkingPoint(e) /\ e # Barrier
    BY <1>2, <1>3 DEF IsMarkingPoint
  <2>2. \A e : IsMarkingPoint(e)' = IsMarkingPoint(e)
    BY DEF IsMarkingPoint
  <2>3. IsMarkingPoint(mark)
    BY <1>2 DEF Marks
  <2> QED
    BY <1>2, <2>1, <2>2, <2>3 DEF Matches, Marks
<1>5. AllTrue'
  <2>1. ASSUME NEW f \in Matches' PROVE \E q \in Waiting' : IsEntryOf(f, q)'
    <3>1. CASE f \in Matches
      <4>1. PICK q \in Waiting : IsEntryOf(f, q)
        BY <3>1 DEF Pending, AllTrue
      <4>2. IsEntryOf(f, q)'
        BY <1>1, <1>2, <3>1, <4>1 DEF IsEntryOf, Matches
      <4> QED
        BY <1>2, <4>1, <4>2
    <3>2. CASE f \in E
      <4>1. PICK k \in DOMAIN recs : f = ent[k]
        BY <1>3, <3>2
      <4>2. PICK q \in Waiting : IsSpilled(recs[k], q)
        BY <1>2, <1>11, <1>12 DEF Pending, AllTrue
      <4> DEFINE s == recs[k]
      <4>3. /\ f.src = s.src /\ f.dest = s.dest /\ f.len = Len(s.data) /\ mm'[f.index] = s.data
        BY <1>2, <4>1
      <4>4. /\ Rec(q).src = s.src /\ Rec(q).dest = s.dest /\ Rec(q).len = Len(s.data)
            /\ Len(s.data) < MaximumSave /\ s.data = Slice(s.dest, Len(s.data))
        BY <4>2 DEF IsSpilled
      <4> HIDE DEF s
      <4>5. /\ Rec(q)'.src = f.src /\ Rec(q)'.dest = f.dest /\ Rec(q)'.len = f.len
            /\ f.len < MaximumSave' /\ mm'[f.index] = Slice(f.dest, f.len)
        BY <1>1, <4>3, <4>4
      <4>6. IsEntryOf(f, q)'
        BY <1>1, <4>5 DEF IsEntryOf
      <4> QED
        BY <1>2, <4>2, <4>6
    <3> QED
      BY <1>4, <3>1, <3>2
  <2>2. ASSUME NEW m \in Marks', NEW k \in DOMAIN disk'[m.src]
        PROVE  \E q \in Waiting' : IsSpilled(disk[m.src][k], q)'
    <3>1. m \in Marks /\ k \in DOMAIN disk[m.src]
      BY <1>2, <1>4
    <3>2. PICK q \in Waiting : IsSpilled(disk[m.src][k], q)
      BY <3>1 DEF Pending, AllTrue
    <3>3. IsSpilled(disk[m.src][k], q)'
      BY <1>1, <1>2, <3>2 DEF IsSpilled
    <3> QED
      BY <1>2, <3>2, <3>3
  <2> QED
    BY <2>1, <2>2 DEF AllTrue
<1>6. ASSUME NEW e \in Matches, NEW k \in DOMAIN recs PROVE e.dest # ent[k].dest
  BY <1>2, <1>11, <1>12 DEF Pending, Once
<1>7. ASSUME NEW j \in DOMAIN recs, NEW k \in DOMAIN recs, ent[j].dest = ent[k].dest
      PROVE  j = k
  <2>1. recs[j].dest = recs[k].dest
    BY <1>2, <1>7
  <2>2. /\ j \in DOMAIN disk[mark.src] /\ k \in DOMAIN disk[mark.src]
        /\ disk[mark.src][j].dest = disk[mark.src][k].dest /\ mark \in Marks
    BY <1>2, <1>11, <1>12, <2>1
  <2> QED
    BY <2>2 DEF Pending, Once
<1>8. ASSUME NEW m \in Marks', NEW j \in DOMAIN disk'[m.src], NEW k \in DOMAIN recs
      PROVE  disk'[m.src][j].dest # ent[k].dest
  <2>1. m \in Marks /\ m # mark /\ disk' = disk /\ ent[k].dest = recs[k].dest
    BY <1>2, <1>4
  <2>2. /\ j \in DOMAIN disk[m.src] /\ k \in DOMAIN disk[mark.src] /\ mark \in Marks
        /\ disk'[m.src][j].dest = disk[m.src][j].dest /\ ent[k].dest = disk[mark.src][k].dest
    BY <1>2, <1>11, <1>12, <2>1
  <2> QED
    BY <2>1, <2>2 DEF Pending, Once
<1>9. Once'
  <2>1. ASSUME NEW e \in Matches', NEW f \in Matches', e.dest = f.dest PROVE e = f
    <3>1. CASE e \in Matches /\ f \in Matches
      BY <2>1, <3>1 DEF Pending, Once
    <3>2. CASE e \in E /\ f \in E
      BY <1>3, <1>7, <2>1, <3>2
    <3>3. CASE (e \in Matches /\ f \in E) \/ (e \in E /\ f \in Matches)
      BY <1>3, <1>6, <2>1, <3>3
    <3> QED
      BY <1>4, <3>1, <3>2, <3>3
  <2>2. \A m, n \in Marks' : \A j \in DOMAIN disk'[m.src], k \in DOMAIN disk'[n.src] :
           disk'[m.src][j].dest = disk'[n.src][k].dest => m = n /\ j = k
    BY <1>2, <1>4 DEF Pending, Once
  <2>3. ASSUME NEW e \in Matches', NEW m \in Marks', NEW k \in DOMAIN disk'[m.src]
        PROVE  disk'[m.src][k].dest # e.dest
    <3>1. CASE e \in Matches
      BY <1>2, <1>4, <3>1 DEF Pending, Once
    <3>2. CASE e \in E
      BY <1>3, <1>8, <3>2
    <3> QED
      BY <1>4, <3>1, <3>2
  <2> QED
    BY <2>1, <2>2, <2>3 DEF Once
<1>10. AllThere'
  <2>1. ASSUME NEW q \in Waiting' PROVE HasEntry(Rec(q).dest)' \/ HasSpilled(Rec(q).dest)'
    <3> DEFINE d == Rec(q).dest
    <3>1. q \in Waiting /\ d' = d
      BY <1>1, <1>2
    <3>2. CASE HasEntry(d)
      BY <1>4, <3>1, <3>2 DEF HasEntry
    <3>3. CASE HasSpilled(d)
      <4>1. PICK m \in Marks : \E k \in DOMAIN disk[m.src] : disk[m.src][k].dest = d
        BY <3>3 DEF HasSpilled
      <4>2. CASE m = mark
        <5>1. PICK k \in DOMAIN recs : recs[k].dest = d
          BY <1>11, <1>12, <4>1, <4>2
        <5>2. ent[k] \in Matches' /\ ent[k].dest = d
          BY <1>2, <1>3, <1>4, <5>1
        <5> HIDE DEF d
        <5>3. HasEntry(d)'
          BY <3>1, <5>2 DEF HasEntry
        <5> QED
          BY <5>3 DEF d
      <4>3. CASE m # mark
        BY <1>2, <1>4, <3>1, <4>1, <4>3 DEF HasSpilled
      <4> QED
        BY <4>2, <4>3
    <3> QED
      BY <3>1, <3>2, <3>3 DEF Pending, AllThere
  <2> QED
    BY <2>1 DEF AllThere
<1> QED
  BY <1>5, <1>9, <1>10 DEF Pending

-----------------------------------------------------------------------------
(* The steps of the decoder on an intact archive. *)

Right == Pending /\ DecodedRight

\* The next state is right, if the decoder is still running.
StaysRight ==
    /\ Running' => Right'
    /\ pc' # "mismatch" /\ pc' # "broken"

\* The records of the block are valid.
LEMMA ListsAreValid ==
    ASSUME IInv, Sound, block <= archive.present
    PROVE  \A k \in DOMAIN MatchList : ValidRecord(k)
<1>1. /\ IsArchive(archive) /\ archive.version = "future"
      /\ block \in 1 .. Len(archive.lists)
      /\ \A k \in DOMAIN MatchList : /\ MatchList[k].src \in Nat /\ MatchList[k].dest \in Nat
                                     /\ MatchList[k].len \in Nat \ {0}
      /\ BlockEnd \in Nat
  BY Inside, TypesAre DEF IInv, Sound
<1>2. SUFFICES ASSUME NEW k \in DOMAIN MatchList PROVE ValidRecord(k)
  OBVIOUS
<1> DEFINE p == <<block, k>>
           r == MatchList[k]
<1>3. p \in Places(archive) /\ Rec(p) = r
  BY <1>1, PlacesAre DEF MatchList
<1>4. /\ FirstOf(block) <= r.src /\ r.src + r.len <= EndOf(archive, block) /\ r.src < r.dest
  BY <1>1, <1>3, RecordsAre DEF GoodRecord
<1>5. k > 1 => MatchList[k - 1].src <= r.src
  <2>1. p[2] > 1 => archive.lists[p[1]][p[2] - 1].src <= RecordAt(archive, p).src
    <3>1. MeansOriginal(archive)
      BY <1>1 DEF IsArchive, Sound
    <3> QED
      BY <1>3, <3>1 DEF MeansOriginal
  <2> QED
    BY <1>3, <2>1 DEF MatchList, Rec
<1>6. k \in Nat \ {0}
  BY <1>1, Inside
<1> DEFINE s == r.src
           l == r.len
           e == BlockEnd
<1>7. s \in Nat /\ l \in Nat \ {0} /\ e \in Nat /\ s + l <= e
  BY <1>1, <1>4 DEF BlockEnd
<1> HIDE DEF s, l, e
<1>8. s < e
  BY <1>7
<1> QED
  BY <1>4, <1>5, <1>6, <1>8 DEF ValidRecord, BlockStart, BlockEnd, s, e

LEMMA NothingYet ==
    ASSUME IsArchive(archive), NEW from \in Nat, from <= Len(archive.original)
    PROVE  <<>> = Slice(from, 0) /\ 0 = Cardinality(Uncovered(archive, from, from))
<1>1. HasBytes(<<>>, from, 0)
  BY DEF HasBytes
<1>2. archive.original \in Seq(Byte) /\ Len(archive.original) \in Nat
  BY ArchiveShape
<1>3. from + 0 <= Len(archive.original)
  <2> DEFINE l == Len(archive.original)
  <2>1. l \in Nat /\ from <= l
    BY <1>2
  <2> HIDE DEF l
  <2>2. from + 0 <= l
    BY <2>1
  <2> QED
    BY <2>2 DEF l
<1>4. <<>> = Slice(from, 0)
  BY <1>1, <1>2, <1>3, IsSlice
<1>5. Uncovered(archive, from, from) = {}
  BY DEF Uncovered
<1> QED
  BY <1>4, <1>5, FS_EmptySet

LEMMA ReadBlockRight ==
    ASSUME IInv, Sound, Right, ReadBlock
    PROVE  StaysRight
<1> DEFINE rank(k) == Cardinality({j \in InBlock : j < k})
           new(k) == Entry(MatchList[k].src, MatchList[k].dest, MatchList[k].len, INVALID_INDEX,
                           seqCounter + rank(k))
           E == {new(k) : k \in InBlock}
           at(k) == <<block, k>>
           P == {at(k) : k \in InBlock}
<1>1. /\ pc = "read" /\ block <= archive.present
      /\ out' = <<>> /\ inPos' = 0
      /\ UNCHANGED <<archive, opts, block, cur, backend, mm, disk>>
  BY DEF ReadBlock, MoreBlocks, memoryVars
<1>2. heap' = heap \cup E /\ pc' = "process"
  BY <1>1, ListsAreValid DEF ReadBlock
<1>3. /\ IsArchive(archive) /\ block \in 1 .. Len(archive.lists)
      /\ BlockStart \in Nat /\ BlockEnd \in Nat /\ BlockEnd < MaxOffset /\ MaxOffset \in Nat
      /\ BlockStart < BlockEnd /\ BlockEnd <= Len(archive.original) /\ Len(archive.original) \in Nat
      /\ \A k \in DOMAIN MatchList : /\ MatchList[k].src \in Nat /\ MatchList[k].dest \in Nat
                                     /\ MatchList[k].len \in Nat \ {0}
  BY <1>1, Inside, TypesAre, ConstantsAre DEF IInv, Sound
<1>4. ASSUME NEW k \in InBlock
      PROVE  /\ k \in DOMAIN MatchList /\ MatchList[k].dest < BlockEnd
             /\ at(k) \in Places(archive) /\ Rec(at(k)) = MatchList[k] /\ at(k)[1] = block
             /\ BlockStart <= MatchList[k].src /\ MatchList[k].src < MatchList[k].dest
  <2>1. k \in DOMAIN MatchList /\ MatchList[k].dest < BlockEnd
    BY DEF InBlock, CopiedHere
  <2>2. at(k) \in Places(archive) /\ Rec(at(k)) = MatchList[k] /\ at(k)[1] = block
    BY <1>3, <2>1, PlacesAre DEF MatchList
  <2>3. GoodRecord(at(k))
    BY <1>3, <2>2, RecordsAre
  <2> QED
    BY <2>1, <2>2, <2>3 DEF GoodRecord, BlockStart
<1>5. ASSUME NEW k \in InBlock
      PROVE  /\ new(k).src = MatchList[k].src /\ new(k).dest = MatchList[k].dest
             /\ new(k).len = MatchList[k].len /\ new(k).index = 0
  BY DEF Entry, INVALID_INDEX
<1> HIDE DEF rank, new
<1>6. Reached = BlockStart /\ Reached' = BlockStart /\ BlockStart' = BlockStart /\ BlockEnd' = BlockEnd
  <2>1. BlockStart' = BlockStart /\ BlockEnd' = BlockEnd
    BY <1>1 DEF BlockStart, BlockEnd
  <2>2. Reached' = BlockStart + Len(out')
    BY <1>2, <2>1 DEF Reached, InABlock
  <2>3. Len(out') = 0
    BY <1>1
  <2>4. Reached = BlockStart + 0
    BY <1>1 DEF Reached, InABlock
  <2> QED
    BY <1>3, <2>1, <2>2, <2>3, <2>4
<1>7. /\ Places(archive)' = Places(archive)
      /\ \A q : Rec(q)' = Rec(q)
      /\ \A from, len : Slice(from, len)' = Slice(from, len)
      /\ MaximumSave' = MaximumSave
  BY <1>1, ArchiveStays
<1>8. Waiting' = Waiting \cup P
  <2>1. ASSUME NEW q \in Waiting' PROVE q \in Waiting \cup P
    <3>1. q \in Places(archive) /\ Rec(q).dest >= BlockStart
          /\ (q[1] < block \/ (q[1] = block /\ Rec(q).dest < BlockEnd))
      BY <1>1, <1>2, <1>6, <1>7 DEF Waiting, Known
    <3>2. CASE q[1] < block
      BY <1>6, <3>1, <3>2 DEF Waiting, Known
    <3>3. CASE q[1] = block /\ Rec(q).dest < BlockEnd
      <4>1. q = at(q[2]) /\ q[2] \in DOMAIN MatchList /\ Rec(q) = MatchList[q[2]]
        BY <1>3, <3>1, <3>3, PlacesAre DEF MatchList
      <4>2. q[2] \in InBlock
        BY <3>3, <4>1 DEF InBlock, CopiedHere
      <4> QED
        BY <4>1, <4>2
    <3> QED
      BY <3>1, <3>2, <3>3
  <2>2. ASSUME NEW q \in Waiting PROVE q \in Waiting'
    <3>1. q \in Places(archive) /\ Rec(q).dest >= BlockStart /\ q[1] < block
      BY <1>1, <1>6 DEF Waiting, Known
    <3> QED
      BY <1>1, <1>6, <1>7, <3>1 DEF Waiting, Known
  <2>3. ASSUME NEW k \in InBlock PROVE at(k) \in Waiting'
    <3> DEFINE d == MatchList[k].dest
    <3>1. at(k) \in Places(archive) /\ Rec(at(k)) = MatchList[k] /\ at(k)[1] = block
          /\ BlockStart <= MatchList[k].src /\ MatchList[k].src < d /\ d < BlockEnd
          /\ MatchList[k].src \in Nat /\ d \in Nat
      BY <1>3, <1>4
    <3>2. d >= BlockStart
      BY <1>3, <3>1
    <3> HIDE DEF at, d
    <3>3. at(k) \in Places(archive)' /\ (Rec(at(k)))'.dest >= Reached'
          /\ at(k)[1] = block' /\ pc' = "process" /\ (Rec(at(k)))'.dest < BlockEnd'
      BY <1>1, <1>2, <1>6, <1>7, <3>1, <3>2 DEF d, at
    <3> QED
      BY <3>3 DEF Waiting, Known, at
  <2> QED
    BY <2>1, <2>2, <2>3
<1>9. Joins(E, P)
  <2>1. P \subseteq Places(archive)
    BY <1>4
  <2>2. P \cap Waiting = {}
    <3>1. ASSUME NEW k \in InBlock PROVE at(k) \notin Waiting
      <4>1. at(k)[1] = block /\ ~ block < block
        BY <1>3
      <4> HIDE DEF at
      <4> QED
        BY <1>1, <4>1 DEF Waiting, Known
    <3> QED
      BY <3>1
  <2>3. ASSUME NEW k \in InBlock, NEW e, e = new(k), NEW p, p = at(k)
        PROVE  e.len # 0 /\ e # Barrier /\ IsEntryOf(e, p)'
    <3>1. new(k).len # 0
      BY <1>3, <1>4, <1>5
    <3>2. new(k) # Barrier
      <4> DEFINE d == new(k).dest
      <4>1. d \in Nat /\ d < BlockEnd
        BY <1>3, <1>4, <1>5
      <4> HIDE DEF d
      <4>2. d # MaxOffset
        BY <1>3, <4>1
      <4> QED
        BY <4>2, BarrierIs DEF d
    <3>3. Rec(p)' = MatchList[k]
      BY <1>1, <1>4, <1>7, <2>3
    <3> HIDE DEF at
    <3> QED
      BY <1>5, <2>3, <3>1, <3>2, <3>3 DEF IsEntryOf
  <2>4. ASSUME NEW k \in InBlock PROVE \E e \in E : e.dest = Rec(at(k)).dest
    BY <1>4, <1>5
  <2>5. ASSUME NEW j \in InBlock, NEW k \in InBlock, new(j).dest = new(k).dest PROVE j = k
    <3>1. at(j) = at(k)
      <4>1. at(j) \in Places(archive) /\ at(k) \in Places(archive) /\ Rec(at(j)).dest = Rec(at(k)).dest
        BY <1>4, <1>5, <2>5
      <4> HIDE DEF at
      <4> QED
        BY <1>3, <4>1, DestsDiffer
    <3> QED
      BY <3>1
  <2>6. \A e \in E : \E k \in InBlock : e = new(k)
    OBVIOUS
  <2>7. \A q \in P : \E k \in InBlock : q = at(k)
    OBVIOUS
  <2>8. \A e \in E : e.len # 0 /\ e # Barrier /\ \E p \in P : IsEntryOf(e, p)'
    BY <2>3, <2>6
  <2>9. \A p \in P : \E e \in E : e.dest = Rec(p).dest
    BY <2>4, <2>7
  <2>10. \A e, f \in E : e.dest = f.dest => e = f
    BY <2>5, <2>6
  <2> HIDE DEF E, P
  <2> QED
    BY <1>1, <1>2, <1>8, <2>1, <2>2, <2>8, <2>9, <2>10 DEF Joins
<1> HIDE DEF E, P
<1>10. Pending'
  BY <1>3, <1>9, PendingGrows DEF Right
<1>11. DecodedRight'
  <2>1. out' = (Slice(BlockStart, Len(out)))' /\ inPos' = Cardinality(Uncovered(archive, BlockStart, Reached))'
    <3>1. <<>> = Slice(BlockStart, 0) /\ 0 = Cardinality(Uncovered(archive, BlockStart, BlockStart))
      <4>1. BlockStart <= Len(archive.original)
        <5> DEFINE l == Len(archive.original)
        <5>1. l \in Nat /\ BlockStart < BlockEnd /\ BlockEnd <= l
          BY <1>3
        <5> HIDE DEF l
        <5>2. BlockStart <= l
          BY <1>3, <5>1
        <5> QED
          BY <5>2 DEF l
      <4> QED
        BY <1>3, <4>1, NothingYet
    <3>2. Len(out') = 0
      BY <1>1
    <3>3. (Slice(BlockStart, Len(out)))' = Slice(BlockStart, 0)
      BY <1>1, <1>6, <3>2 DEF Slice
    <3> QED
      BY <1>1, <1>6, <3>1, <3>3
  <2>2. \A q \in Places(archive) : Rec(q).dest < Reached' => Rec(q).dest + Rec(q).len <= Reached'
    BY <1>6 DEF Right, DecodedRight
  <2>3. backend' = (Slice(0, Len(backend)))'
    BY <1>1, <1>7 DEF Right, DecodedRight, Slice
  <2> QED
    BY <1>7, <2>1, <2>2, <2>3 DEF DecodedRight
<1> QED
  BY <1>2, <1>10, <1>11 DEF StaysRight, Right

\* The bytes of a match, taken from a part of the original that holds its source.
LEMMA PartAt ==
    ASSUME archive.original \in Seq(Byte),
           NEW b \in Nat, NEW k \in Nat, NEW n \in Nat, b + n <= Len(archive.original),
           NEW dest \in Nat, NEW len \in Nat, IsCopy(b + k, dest, len), k + len <= n,
           NEW s, s = Slice(b, n)
    PROVE  SubSeq(s, k + 1, k + len) = Slice(dest, len)
<1> DEFINE o == archive.original
           src == b + k
<1>1. /\ dest + len <= Len(o)
      /\ \A x \in 1 .. len : o[dest + x] = o[src + x]
  BY DEF IsCopy
<1>2. o \in Seq(Byte) /\ src = b + k /\ k + len <= n
  OBVIOUS
<1>3. HasBytes(s, b, n)
  BY <1>2, SliceIs
<1>4. s \in Seq(Byte) /\ k + len <= Len(s)
  BY <1>2, <1>3 DEF HasBytes
<1>5. ASSUME NEW i \in 1 .. len PROVE s[k + i] = o[dest + i]
  <2>1. k + i \in 1 .. n /\ b + (k + i) = src + i
    BY <1>1, <1>2
  <2>2. s[k + i] = o[src + i]
    BY <1>3, <2>1 DEF HasBytes
  <2> QED
    BY <1>1, <2>2
<1> DEFINE t == SubSeq(s, k + 1, k + len)
<1>6. t \in Seq(Byte) /\ Len(t) = len /\ \A i \in 1 .. len : t[i] = s[k + i]
  BY <1>1, <1>4, PartOf
<1> HIDE DEF t
<1>7. HasBytes(t, dest, len)
  BY <1>5, <1>6 DEF HasBytes
<1>8. t = Slice(dest, len)
  BY <1>1, <1>2, <1>7, IsSlice
<1> QED
  BY <1>8 DEF t

\* A record's bytes.
LEMMA FromSlice ==
    ASSUME IsArchive(archive), Sound, NEW p \in Places(archive), NEW b \in Nat, NEW k \in Nat,
           NEW n \in Nat, Rec(p).src = b + k, k + Rec(p).len <= n, b + n <= Len(archive.original),
           NEW s, s = Slice(b, n)
    PROVE  SubSeq(s, k + 1, k + Rec(p).len) = Slice(Rec(p).dest, Rec(p).len)
<1> DEFINE dest == Rec(p).dest
           len == Rec(p).len
<1>1. /\ archive.original \in Seq(Byte)
      /\ dest \in Nat /\ len \in Nat /\ IsCopy(b + k, dest, len) /\ k + len <= n
      /\ b \in Nat /\ k \in Nat /\ n \in Nat /\ b + n <= Len(archive.original)
      /\ s = Slice(b, n)
  BY RecordsAre, ArchiveShape DEF GoodRecord, IsCopy
<1> HIDE DEF dest, len
<1>2. SubSeq(s, k + 1, k + len) = Slice(dest, len)
  BY ONLY <1>1, PartAt
<1> QED
  BY <1>2 DEF dest, len

\* The copy of a match that is due has the bytes of the original.
LEMMA MatchDataRight ==
    ASSUME IInv, Sound, Right, pc = "process", First(heap).dest < BlockEnd,
           ~ IsMarkingPoint(First(heap)),
           NEW p \in Waiting, IsEntryOf(First(heap), p),
           NEW before, before = Slice(BlockStart, Rec(p).dest - BlockStart)
    PROVE  MatchData(First(heap), before) = Slice(Rec(p).dest, Rec(p).len)
<1> DEFINE e == First(heap)
<1>1. /\ IsArchive(archive) /\ block <= archive.present
      /\ BlockStart \in Nat /\ Len(backend) = BlockStart /\ BlockStart < BlockEnd
      /\ BlockEnd <= Len(archive.original) /\ BlockEnd \in Nat /\ Len(archive.original) \in Nat
  <2>1. block <= archive.present /\ TypeOK
    BY DEF IInv, Position, InABlock
  <2> QED
    BY <2>1, Inside, TypesAre
<1>2. /\ e.len > 0 /\ e.src \in Nat /\ e.len \in Nat
      /\ \/ Within(e)
         \/ e.src < e.dest /\ e.src + e.len <= BlockStart /\ (e.index # 0 \/ e.len >= MaximumSave)
  BY MatchDue
<1>3. /\ Rec(p).src = e.src /\ Rec(p).dest = e.dest /\ Rec(p).len = e.len
      /\ e.index # 0 => mm[e.index] = Slice(e.dest, e.len)
      /\ p \in Places(archive)
  BY DEF IsEntryOf, Waiting
<1>4. backend = Slice(0, BlockStart)
  BY <1>1 DEF Right, DecodedRight
<1> HIDE DEF e
<1>5. CASE e.len >= MaximumSave /\ e.src < BlockStart
  <2>1. e.src + e.len <= BlockStart
    BY <1>1, <1>2, <1>5 DEF Within
  <2>2. BlockStart <= Len(archive.original)
    <3> DEFINE l == Len(archive.original)
    <3>1. l \in Nat /\ BlockStart < BlockEnd /\ BlockEnd <= l
      BY <1>1
    <3> HIDE DEF l
    <3>2. BlockStart <= l
      BY <1>1, <3>1
    <3> QED
      BY <3>2 DEF l
  <2>3. SubSeq(backend, Rec(p).src + 1, Rec(p).src + Rec(p).len) = Slice(Rec(p).dest, Rec(p).len)
    <3>1. /\ Rec(p).src + Rec(p).len <= BlockStart /\ Rec(p).src \in Nat
          /\ Rec(p).src = 0 + Rec(p).src
      BY <1>2, <1>3, <2>1
    <3>2. 0 + BlockStart <= Len(archive.original)
      BY <1>1, <2>2
    <3> DEFINE k == Rec(p).src
    <3>3. k \in Nat /\ Rec(p).src = 0 + k /\ k + Rec(p).len <= BlockStart
      BY <3>1
    <3> HIDE DEF k
    <3>4. SubSeq(backend, k + 1, k + Rec(p).len) = Slice(Rec(p).dest, Rec(p).len)
      BY <1>1, <1>3, <1>4, <3>2, <3>3, FromSlice
    <3> QED
      BY <3>4 DEF k
  <2>4. MatchData(e, before) = SubSeq(backend, e.src + 1, e.src + e.len)
    BY <1>5 DEF MatchData
  <2> QED
    BY <1>3, <2>3, <2>4 DEF e
<1>6. CASE ~ (e.len >= MaximumSave /\ e.src < BlockStart) /\ e.index # 0
  <2>1. MatchData(e, before) = mm[e.index]
    BY <1>6 DEF MatchData, INVALID_INDEX
  <2> QED
    BY <1>3, <1>6, <2>1 DEF e
<1>7. CASE ~ (e.len >= MaximumSave /\ e.src < BlockStart) /\ e.index = 0
  <2>1. BlockStart <= e.src
    <3>1. CASE Within(e)
      BY <3>1 DEF Within
    <3>2. CASE e.src + e.len <= BlockStart /\ e.len >= MaximumSave
      <4> DEFINE s == e.src
                 l == e.len
      <4>1. s \in Nat /\ l \in Nat /\ l > 0 /\ s + l <= BlockStart
        BY <1>2, <3>2
      <4> HIDE DEF s, l
      <4>2. s < BlockStart
        BY <1>1, <4>1
      <4> QED
        BY <1>7, <3>2, <4>2 DEF s
    <3> QED
      BY <1>2, <1>7, <3>1, <3>2
  <2>2. MatchData(e, before) = OverlapCopy(before, e.src - BlockStart, e.len)
    BY <1>7 DEF MatchData, INVALID_INDEX
  <2>3. OverlapCopy(before, Rec(p).src - BlockStart, Rec(p).len) = Slice(Rec(p).dest, Rec(p).len)
    <3>1. BlockStart <= Rec(p).src
      BY <1>3, <2>1
    <3> QED
      BY <1>1, <1>3, <3>1, CopyIsRight
  <2> QED
    BY <1>3, <2>2, <2>3 DEF e
<1> QED
  BY <1>5, <1>6, <1>7

\* What is decoded before the copy of the match that is due.
LEMMA LiteralsBefore ==
    ASSUME IInv, Sound, Right, pc = "process", NEW n \in Nat,
           Reached + n <= BlockEnd, Reached + n <= First(heap).dest
    PROVE  LET t == SubSeq(Literals, inPos + 1, inPos + n)
           IN /\ inPos \in Nat /\ Len(Literals) \in Nat /\ inPos + n <= Len(Literals)
              /\ out \o t = Slice(BlockStart, Reached + n - BlockStart)
              /\ inPos + n = Cardinality(Uncovered(archive, BlockStart, Reached + n))
<1> DEFINE t == SubSeq(Literals, inPos + 1, inPos + n)
           b == BlockStart
           m == Len(out)
           end == BlockEnd
           r == Reached
           total == Len(archive.original)
<1>1. /\ IsArchive(archive) /\ block \in 1 .. Len(archive.lists)
      /\ b \in Nat /\ end \in Nat /\ total \in Nat /\ end <= total
      /\ archive.original \in Seq(Byte)
      /\ m \in Nat /\ Literals \in Seq(Byte)
  <2>1. block <= archive.present /\ TypeOK
    BY DEF IInv, Position, InABlock
  <2> QED
    BY <2>1, Inside, TypesAre, ArchiveShape
<1>2. r = b + m /\ r \in Nat /\ b <= r
  BY ReachedIs DEF Running
<1>3. /\ out = Slice(b, m)
      /\ inPos = Cardinality(Uncovered(archive, b, r))
  BY DEF Right, DecodedRight, InABlock
<1>4. NotSupplied(archive, r, n)
  BY NoneBetween DEF Right, Pending
<1>5. FirstOf(block) <= r /\ r + n <= EndOf(archive, block)
  BY <1>2 DEF BlockStart, BlockEnd
<1> HIDE DEF b, m, end, r, total
<1>6. LET k == Cardinality(Uncovered(archive, FirstOf(block), r))
      IN /\ Len(archive.literals[block]) \in Nat
         /\ k \in Nat
         /\ k + n <= Len(archive.literals[block])
         /\ SubSeq(archive.literals[block], k + 1, k + n) = Slice(r, n)
         /\ Cardinality(Uncovered(archive, FirstOf(block), r + n)) = k + n
  BY <1>1, <1>2, <1>4, <1>5, LiteralsAre
<1>7. /\ inPos \in Nat /\ Len(Literals) \in Nat /\ inPos + n <= Len(Literals)
      /\ t = Slice(r, n)
      /\ inPos + n = Cardinality(Uncovered(archive, b, r + n))
  BY <1>3, <1>6 DEF Literals, b, BlockStart
<1> HIDE DEF t
<1>8. out \o t = Slice(b, r + n - b)
  <2>1. b + m + n <= total /\ r + n - b = m + n
    <3>1. r + n <= end
      BY DEF r, end
    <3> QED
      BY <1>1, <1>2, <3>1
  <2>2. Slice(b, m) \o Slice(b + m, n) = Slice(b, m + n)
    BY <1>1, <2>1, SlicesJoin DEF total
  <2> QED
    BY <1>2, <1>3, <1>7, <2>1, <2>2
<1> QED
  BY <1>7, <1>8 DEF t, b, r

LEMMA TakeMatchRight ==
    ASSUME IInv, Sound, Right, TakeMatch
    PROVE  StaysRight
<1> DEFINE e == First(heap)
           B == BlockStart
           m == Len(out)
           End == BlockEnd
           R == Reached
           total == Len(archive.original)
<1>1. /\ pc = "process" /\ e.dest < End /\ ~ IsMarkingPoint(e)
      /\ UNCHANGED <<archive, opts, block, cur, backend, disk>>
  BY DEF TakeMatch
<1>2. /\ TypeOK /\ HeapShape /\ Memory /\ IsArchive(archive) /\ block <= archive.present
  BY <1>1, TypesAre DEF IInv, Position, InABlock
<1>3. /\ block \in 1 .. Len(archive.lists)
      /\ B \in Nat /\ End \in Nat /\ total \in Nat /\ End <= total /\ OrigSize = End - B
      /\ archive.original \in Seq(Byte)
      /\ m \in Nat /\ R = B + m /\ R \in Nat
  BY <1>1, <1>2, Inside, TypesAre, ArchiveShape, ReachedIs DEF Running, OrigSize
<1>4. e \in heap /\ e # Barrier /\ e \in Matches
  BY <1>1, MatchDue DEF Matches
<1>5. PICK p \in Waiting : IsEntryOf(e, p)
  BY <1>4 DEF Right, Pending, AllTrue
<1> DEFINE d == Rec(p).dest
           l == Rec(p).len
<1>6. /\ p \in Places(archive) /\ d >= R /\ d = e.dest /\ l = e.len
      /\ d \in Nat /\ l \in Nat \ {0}
  BY <1>2, <1>5, RecordsAre DEF Waiting, IsEntryOf, GoodRecord
<1>7. d + l <= End
  <2>1. d < EndOf(archive, block)
    BY <1>1, <1>6 DEF BlockEnd
  <2> QED
    BY <1>2, <1>3, <1>6, <2>1, CopyInside DEF BlockEnd
<1>15. \A q \in Waiting : e.dest <= Rec(q).dest
  BY <1>1, FirstLeads DEF Running, Right, Pending
<1> HIDE DEF e, B, m, End, R, total, d, l
<1>19. /\ B \in Nat /\ End \in Nat /\ total \in Nat /\ m \in Nat /\ R \in Nat
       /\ d \in Nat /\ l \in Nat /\ l > 0 /\ End <= total
       /\ R = B + m /\ d >= R /\ d + l <= End
  BY <1>3, <1>6, <1>7
<1> DEFINE n == d - R
           t == SubSeq(Literals, inPos + 1, inPos + n)
           before == out \o t
<1>8. n \in Nat /\ R + n = d /\ d <= End /\ d - (B + m) = n
  BY <1>19
<1> HIDE DEF n
<1>9. /\ inPos \in Nat /\ Len(Literals) \in Nat /\ inPos + n <= Len(Literals)
      /\ before = Slice(B, d - B)
      /\ inPos + n = Cardinality(Uncovered(archive, B, d))
  <2>1. R + n <= End /\ R + n <= e.dest
    BY <1>3, <1>6, <1>8
  <2>2. /\ inPos \in Nat /\ Len(Literals) \in Nat /\ inPos + n <= Len(Literals)
        /\ before = Slice(B, R + n - B)
        /\ inPos + n = Cardinality(Uncovered(archive, B, R + n))
    BY <1>1, <1>8, <2>1, LiteralsBefore DEF R, End, e, B
  <2>3. R + n - B = d - B /\ R + n = d
    BY <1>8, <1>19
  <2> HIDE DEF before
  <2> QED
    BY <2>2, <2>3
<1> HIDE DEF t
<1>10. MatchData(e, before) = Slice(d, l)
  <2> HIDE DEF before
  <2>1. before = Slice(BlockStart, Rec(p).dest - BlockStart)
    BY <1>9 DEF B, d
  <2>2. First(heap).dest < BlockEnd /\ ~ IsMarkingPoint(First(heap)) /\ IsEntryOf(First(heap), p)
    BY <1>1, <1>5 DEF e, End
  <2>3. MatchData(First(heap), before) = Slice(Rec(p).dest, Rec(p).len)
    BY <1>1, <1>5, <2>1, <2>2, MatchDataRight
  <2> QED
    BY <2>3 DEF e, d, l
<1>11. pc' # "broken"
  <2>1. /\ e.dest >= B + m
        /\ n <= Len(Literals) - inPos
        /\ n + e.len <= OrigSize - m
    <3> DEFINE x == Len(Literals)
               y == e.len
               z == e.dest
               o == OrigSize
    <3>1. x \in Nat /\ inPos \in Nat /\ inPos + n <= x /\ y = l /\ z = d /\ o = End - B
      BY <1>3, <1>6, <1>9
    <3> HIDE DEF x, y, z, o
    <3>3. z = e.dest /\ z = d
      BY <1>6 DEF z
    <3>2. z >= B + m /\ n <= x - inPos /\ n + y <= o - m
      BY <1>8, <1>19, <3>1
    <3> QED
      BY <3>2 DEF x, y, z, o
  <2>2. e.dest - (B + m) = n
    BY <1>6, <1>8
  <2>3. pc' = pc
    BY <2>1, <2>2 DEF TakeMatch, e, B, m
  <2> QED
    BY <1>1, <2>3
<1>12. /\ out' = before \o MatchData(e, before)
       /\ inPos' = inPos + n
       /\ heap' = heap \ {e} /\ mm' = FreeAll(mm, {e.index}) /\ pc' = pc
  <2>1. e.dest - (B + m) = n
    BY <1>6, <1>8
  <2>2. LET litLen == e.dest - (BlockStart + Len(out))
            bef == out \o SubSeq(Literals, inPos + 1, inPos + litLen)
        IN /\ out' = bef \o MatchData(e, bef)
           /\ inPos' = inPos + litLen
           /\ heap' = heap \ {e} /\ mm' = FreeAll(mm, {e.index}) /\ pc' = pc
    BY <1>11, TakeMatchAdds DEF e
  <2>3. e.dest - (BlockStart + Len(out)) = n
    BY <2>1 DEF B, m
  <2> QED
    BY <2>2, <2>3 DEF t
<1> HIDE DEF before
<1>13. /\ out' = Slice(B, d + l - B)
       /\ Len(out') = d + l - B
  <2>1. d - B \in Nat /\ B + (d - B) = d /\ B + (d - B) + l <= total /\ (d - B) + l = d + l - B
        /\ d + l - B \in Nat /\ B + (d + l - B) <= total
    BY <1>19
  <2> DEFINE x == d - B
             y == d + l - B
  <2> HIDE DEF x, y
  <2>2. x \in Nat /\ B + x = d /\ B + x + l <= total /\ x + l = y /\ y \in Nat /\ B + y <= total
    BY <2>1 DEF x, y
  <2>3. Slice(B, x) \o Slice(B + x, l) = Slice(B, x + l)
    <3>1. archive.original \in Seq(Byte) /\ B \in Nat /\ l \in Nat
      BY <1>3, <1>19
    <3> QED
      BY <2>2, <3>1, SlicesJoin DEF total
  <2>4. out' = Slice(B, y)
    BY <1>9, <1>10, <1>12, <2>2, <2>3 DEF x
  <2>5. HasBytes(Slice(B, y), B, y)
    BY <1>3, <2>2, SliceIs DEF total
  <2> QED
    BY <2>4, <2>5 DEF HasBytes, y
<1>14. /\ BlockStart' = B /\ BlockEnd' = End /\ Reached' = d + l /\ pc' = "process" /\ block' = block
  <2>1. BlockStart' = B /\ BlockEnd' = End /\ pc' = "process" /\ block' = block
    BY <1>1, <1>12 DEF BlockStart, BlockEnd, B, End
  <2>2. Reached' = B + Len(out')
    BY <2>1 DEF Reached, InABlock
  <2> QED
    BY <1>3, <1>6, <1>13, <2>1, <2>2
<1>16. /\ Places(archive)' = Places(archive)
       /\ \A q : Rec(q)' = Rec(q)
       /\ \A from, len : Slice(from, len)' = Slice(from, len)
  BY <1>1, ArchiveStays
<1>17. ASSUME NEW q \in Places(archive), q # p
       PROVE  /\ Rec(q).dest \in Nat
              /\ Rec(q).dest < d => Rec(q).dest + Rec(q).len <= d
              /\ Rec(q).dest >= d => Rec(q).dest >= d + l
  <2> DEFINE x == Rec(q).dest
             y == Rec(q).len
  <2>1. x \in Nat /\ y \in Nat \ {0} /\ (x + y <= d \/ d + l <= x)
    BY <1>2, <1>6, <1>17, RecordsAre DEF GoodRecord, d, l
  <2> HIDE DEF x, y
  <2>2. x \in Nat /\ (x < d => x + y <= d) /\ (x >= d => x >= d + l)
    BY <1>6, <2>1
  <2> QED
    BY <2>2 DEF x, y
<1>18. Waiting' = Waiting \ {p}
  <2>1. \A q : Known(q)' = Known(q)
    BY <1>1, <1>14, <1>16 DEF Known, End
  <2>2. ASSUME NEW q \in Waiting' PROVE q \in Waiting \ {p}
    <3>1. q \in Places(archive) /\ Rec(q).dest >= d + l /\ Known(q)
      BY <1>14, <1>16, <2>1 DEF Waiting
    <3> DEFINE x == Rec(q).dest
    <3>2. x \in Nat /\ x >= d + l
      BY <1>2, <3>1, RecordsAre DEF GoodRecord
    <3> HIDE DEF x
    <3>3. x >= R /\ x # d
      BY <1>3, <1>6, <3>2
    <3> QED
      BY <3>1, <3>3 DEF Waiting, x, d, R
  <2>3. ASSUME NEW q \in Waiting, q # p PROVE q \in Waiting'
    <3>1. q \in Places(archive) /\ Known(q)
      BY DEF Waiting
    <3>2. Rec(q).dest >= d
      <4> DEFINE x == Rec(q).dest
      <4>1. x \in Nat /\ e.dest <= x
        BY <1>15, <1>17, <2>3, <3>1
      <4> HIDE DEF x
      <4>2. x >= d
        BY <1>6, <4>1
      <4> QED
        BY <4>2 DEF x
    <3>3. Rec(q).dest >= d + l
      BY <1>17, <2>3, <3>1, <3>2
    <3> QED
      BY <1>14, <1>16, <2>1, <3>1, <3>3 DEF Waiting
  <2> QED
    BY <2>2, <2>3, <1>6, <1>14, <1>16
<1>20. Leaves(e, p)
  <2>1. ASSUME NEW f \in heap \ {e}, f.index # 0 PROVE mm'[f.index] = mm[f.index]
    <3>1. f.index \in DOMAIN mm /\ IsFiniteSet(DOMAIN mm)
      BY <1>2, <2>1 DEF Memory
    <3>2. f.index # e.index
      BY <1>2, <1>4, <2>1 DEF Memory
    <3>3. f.index \in DOMAIN mm \ {e.index}
      BY <3>1, <3>2
    <3> DEFINE H == {e.index}
               i == f.index
    <3>4. i \in DOMAIN mm \ H /\ mm' = FreeAll(mm, H)
      BY <1>12, <3>3
    <3> HIDE DEF H, i
    <3>5. \A j \in DOMAIN mm \ H : FreeAll(mm, H)[j] = mm[j]
      BY <3>1, FreeAllIs
    <3>6. mm'[i] = mm[i]
      BY <3>4, <3>5
    <3> QED
      BY <3>6 DEF i
  <2> QED
    BY <1>1, <1>4, <1>5, <1>12, <1>18, <2>1 DEF Leaves
<1>21. Pending'
  BY <1>2, <1>20, PendingLess DEF Right
<1>22. DecodedRight'
  <2>1. out' = (Slice(BlockStart, Len(out)))'
    BY <1>1, <1>13, <1>14 DEF Slice
  <2>2. inPos' = Cardinality(Uncovered(archive, BlockStart, Reached))'
    <3>1. Uncovered(archive, B, d + l) = Uncovered(archive, B, d)
      BY <1>6, <1>19, CoveredSkipped DEF Rec, d, l
    <3> QED
      BY <1>1, <1>9, <1>12, <1>14, <3>1
  <2>3. ASSUME NEW q \in Places(archive), Rec(q).dest < d + l
        PROVE  Rec(q).dest + Rec(q).len <= d + l
    <3>1. CASE q = p
      BY <1>19, <3>1 DEF d, l
    <3>2. CASE q # p
      <4> DEFINE x == Rec(q).dest
                 y == Rec(q).len
      <4>1. x \in Nat /\ y \in Nat /\ x < d + l
            /\ (x < d => x + y <= d) /\ (x >= d => x >= d + l)
        BY <1>2, <1>17, <2>3, <3>2, RecordsAre DEF GoodRecord
      <4> HIDE DEF x, y
      <4>2. x + y <= d + l
        BY <1>19, <4>1
      <4> QED
        BY <4>2 DEF x, y
    <3> QED
      BY <3>1, <3>2
  <2>4. backend' = (Slice(0, Len(backend)))'
    BY <1>1, <1>16 DEF Right, DecodedRight, Slice
  <2> QED
    BY <1>14, <1>16, <2>1, <2>2, <2>3, <2>4 DEF DecodedRight
<1> QED
  BY <1>14, <1>21, <1>22 DEF StaysRight, Right

\* The literals of the block are the bytes that no record supplies.
LEMMA AllLiterals ==
    ASSUME IsArchive(archive), Sound, block \in 1 .. Len(archive.lists)
    PROVE  Len(Literals) = Cardinality(Uncovered(archive, BlockStart, BlockEnd))
  BY ArchiveShape DEF IsArchive, Sound, MeansOriginal, Literals, BlockStart, BlockEnd

LEMMA CopyTailRight ==
    ASSUME IInv, Sound, Right, CopyTail
    PROVE  StaysRight
<1> DEFINE B == BlockStart
           m == Len(out)
           End == BlockEnd
           R == Reached
           total == Len(archive.original)
           f == First(heap).dest
           lits == Len(Literals)
           n == End - R
<1>1. /\ pc = "process" /\ f >= End
      /\ UNCHANGED <<archive, opts, block, backend, heap, mm, disk>>
  BY DEF CopyTail, heapVars, memoryVars
<1>2. TypeOK /\ HeapShape /\ IsArchive(archive) /\ block <= archive.present
  BY <1>1, TypesAre DEF IInv, Position, InABlock
<1>3. /\ block \in 1 .. Len(archive.lists)
      /\ B \in Nat /\ End \in Nat /\ total \in Nat /\ End <= total /\ OrigSize = End - B
      /\ m \in Nat /\ R = B + m /\ R \in Nat /\ R <= End /\ B <= R
  BY <1>1, <1>2, Inside, TypesAre, ReachedIs DEF Running, OrigSize
<1>4. f \in Nat /\ \A q \in Waiting : f <= Rec(q).dest
  <2>1. First(heap) \in heap
    BY <1>2, FirstDue
  <2> QED
    BY <1>1, <1>2, <2>1, FirstLeads, TypesAre DEF Running, Right, Pending
<1>5. lits = Cardinality(Uncovered(archive, B, End))
  BY <1>2, <1>3, AllLiterals
<1> HIDE DEF B, m, End, R, total, f, n, lits
<1>6. n \in Nat /\ R + n = End /\ End - B - m = n /\ B + (End - B) = End /\ End - B \in Nat
      /\ R + n <= f /\ R + n <= End
  BY <1>1, <1>3, <1>4 DEF n
<1>7. /\ inPos \in Nat /\ lits \in Nat /\ inPos + n <= lits
      /\ out \o SubSeq(Literals, inPos + 1, inPos + n) = Slice(B, R + n - B)
      /\ inPos + n = Cardinality(Uncovered(archive, B, R + n))
  BY <1>1, <1>6, LiteralsBefore DEF R, End, f, B, lits
<1>8. inPos + n = lits /\ lits - inPos = n
  <2>1. inPos + n = lits
    BY <1>5, <1>6, <1>7
  <2> QED
    BY <1>6, <1>7, <2>1
<1>9. /\ out' = Slice(B, End - B)
      /\ inPos' = lits /\ cur' = 1 /\ pc' = "save"
  <2>1. Len(Literals) - inPos = OrigSize - Len(out)
    BY <1>3, <1>6, <1>8 DEF lits, m
  <2>2. /\ out' = out \o SubSeq(Literals, inPos + 1, lits)
        /\ inPos' = lits /\ cur' = 1 /\ pc' = "save"
    BY <2>1 DEF CopyTail, lits
  <2>3. SubSeq(Literals, inPos + 1, inPos + n) = SubSeq(Literals, inPos + 1, lits)
    BY <1>8
  <2>4. R + n - B = End - B
    <3>1. R + n = End
      BY <1>6
    <3> QED
      BY <1>3, <1>6, <3>1
  <2> QED
    BY <1>7, <2>2, <2>3, <2>4
<1>10. Len(out') = End - B
  <2> DEFINE y == End - B
  <2>1. B \in Nat /\ y \in Nat /\ B + y <= total
    BY <1>3, <1>6
  <2> HIDE DEF y
  <2>2. HasBytes(Slice(B, y), B, y)
    BY <1>2, <2>1, SliceIs, ArchiveShape DEF total
  <2> QED
    BY <1>9, <2>2 DEF HasBytes, y
<1>11. BlockStart' = B /\ BlockEnd' = End /\ Reached' = End
  <2>1. BlockStart' = B /\ BlockEnd' = End
    BY <1>1 DEF BlockStart, BlockEnd, B, End
  <2>2. Reached' = B + Len(out')
    BY <1>9, <2>1 DEF Reached, InABlock
  <2> QED
    BY <1>6, <1>10, <2>1, <2>2
<1>12. /\ Places(archive)' = Places(archive)
       /\ \A q : Rec(q)' = Rec(q)
       /\ \A from, len : Slice(from, len)' = Slice(from, len)
  BY <1>1, ArchiveStays
<1>13. Waiting' = Waiting
  <2>1. ASSUME NEW q \in Waiting' PROVE q \in Waiting
    <3>1. q \in Places(archive) /\ Rec(q).dest >= End
          /\ (q[1] < block \/ (q[1] = block /\ q[2] < 1))
      BY <1>1, <1>9, <1>11, <1>12 DEF Waiting, Known
    <3>2. q[2] \in Nat \ {0}
      <4>1. q[1] \in 1 .. Len(archive.lists) /\ q[2] \in DOMAIN archive.lists[q[1]]
        BY <1>2, <3>1, PlacesAre
      <4>2. archive.lists[q[1]] \in Seq(Match)
        BY <1>2, <4>1, ArchiveShape DEF Sound
      <4> QED
        BY <4>1, <4>2
    <3> DEFINE x == Rec(q).dest
    <3>3. x \in Nat
      BY <1>2, <3>1, RecordsAre DEF GoodRecord
    <3> HIDE DEF x
    <3>4. x >= R
      BY <1>3, <3>1, <3>3 DEF x
    <3> QED
      BY <3>1, <3>2, <3>4 DEF Waiting, Known, x, R
  <2>2. ASSUME NEW q \in Waiting PROVE q \in Waiting'
    <3> DEFINE x == Rec(q).dest
    <3>1. q \in Places(archive) /\ f <= x /\ (q[1] < block \/ x < End) /\ x \in Nat
      BY <1>1, <1>2, <1>4, RecordsAre DEF Waiting, Known, GoodRecord, End
    <3> HIDE DEF x
    <3>2. x >= End /\ q[1] < block
      BY <1>1, <1>3, <1>4, <3>1
    <3> QED
      BY <1>1, <1>9, <1>11, <1>12, <3>1, <3>2 DEF Waiting, Known, x
  <2> QED
    BY <2>1, <2>2
<1>14. Pending'
  BY <1>1, <1>13, PendingStays DEF Right
<1>15. DecodedRight'
  <2>1. out' = (Slice(BlockStart, Len(out)))'
    BY <1>1, <1>9, <1>10, <1>11 DEF Slice
  <2>2. inPos' = Cardinality(Uncovered(archive, BlockStart, Reached))'
    BY <1>1, <1>5, <1>9, <1>11
  <2>3. \A q \in Places(archive) : Rec(q).dest < End => Rec(q).dest + Rec(q).len <= End
    BY <1>2, <1>3, CopyInside DEF End, BlockEnd
  <2>4. backend' = (Slice(0, Len(backend)))'
    BY <1>1, <1>12 DEF Right, DecodedRight, Slice
  <2> QED
    BY <1>11, <1>12, <2>1, <2>2, <2>3, <2>4 DEF DecodedRight
<1> QED
  BY <1>9, <1>14, <1>15 DEF StaysRight, Right

LEMMA DecodedStays ==
    ASSUME DecodedRight, UNCHANGED <<archive, opts, pc, block, out, inPos, backend>>
    PROVE  DecodedRight' /\ BlockStart' = BlockStart /\ BlockEnd' = BlockEnd /\ Reached' = Reached
<1>1. BlockStart' = BlockStart /\ BlockEnd' = BlockEnd
  BY DEF BlockStart, BlockEnd
<1>2. InABlock' = InABlock /\ Reached' = Reached
  BY <1>1 DEF InABlock, Reached
<1>3. /\ Places(archive)' = Places(archive)
      /\ \A q : Rec(q)' = Rec(q)
      /\ \A from, len : Slice(from, len)' = Slice(from, len)
  BY ArchiveStays
<1>4. InABlock' => /\ out' = (Slice(BlockStart, Len(out)))'
                   /\ inPos' = Cardinality(Uncovered(archive, BlockStart, Reached))'
  BY <1>1, <1>2 DEF DecodedRight, Slice
<1>5. \A q \in Places(archive) : Rec(q).dest < Reached => Rec(q).dest + Rec(q).len <= Reached
  BY DEF DecodedRight
<1>6. backend' = (Slice(0, Len(backend)))'
  BY DEF DecodedRight, Slice
<1> QED
  BY <1>1, <1>2, <1>3, <1>4, <1>5, <1>6 DEF DecodedRight

\* Phase 3 comes to the next record of the block.
LEMMA NextIsKnown ==
    ASSUME IInv, Sound, ToSave, UNCHANGED <<archive, opts, pc, block, out>>, cur' = cur + 1
    PROVE  LET p == <<block, cur>>
           IN /\ p \in Places(archive) /\ Rec(p) = MatchList[cur] /\ p \notin Waiting
              /\ Waiting' = IF CopiedHere(MatchList[cur]) THEN Waiting ELSE Waiting \cup {p}
<1> DEFINE p == <<block, cur>>
           d == MatchList[cur].dest
           End == BlockEnd
<1>1. pc = "save" /\ block <= archive.present /\ IsArchive(archive)
  BY TypesAre DEF ToSave, IInv, Position, InABlock
<1>2. /\ cur \in Nat /\ cur > 0 /\ cur \in DOMAIN MatchList /\ d \in Nat
      /\ End \in Nat /\ block \in 1 .. Len(archive.lists) /\ Len(archive.lists) \in Nat
  BY <1>1, NextRecord, Inside, ArchiveShape
<1>3. p \in Places(archive) /\ Rec(p) = MatchList[cur] /\ p[1] = block /\ p[2] = cur
  BY <1>1, <1>2, PlacesAre DEF MatchList
<1>4. Reached = End /\ Reached' = End
  <2>1. Reached = End
    BY <1>1, ReachedIs DEF Running
  <2>2. Reached' = Reached
    BY DEF Reached, InABlock, BlockStart
  <2> QED
    BY <2>1, <2>2
<1>5. /\ Places(archive)' = Places(archive)
      /\ \A q : Rec(q)' = Rec(q)
  BY ArchiveStays
<1>6. CopiedHere(MatchList[cur]) <=> d < End
  BY DEF CopiedHere
<1>7. ASSUME NEW q \in Places(archive)
      PROVE  /\ Known(q)' <=> Known(q) \/ q = p
             /\ Known(q) => q # p
  <2>1. q[1] \in Nat /\ q = <<q[1], q[2]>> /\ (q[1] = block => q[2] \in Nat)
    <3>1. q[1] \in 1 .. Len(archive.lists) /\ q = <<q[1], q[2]>> /\ q[2] \in DOMAIN archive.lists[q[1]]
      BY <1>1, PlacesAre
    <3>2. archive.lists[q[1]] \in Seq(Match)
      BY <1>1, <3>1, ArchiveShape DEF Sound
    <3> QED
      BY <1>2, <3>1, <3>2
  <2>2. Known(q) <=> q[1] < block \/ (q[1] = block /\ q[2] < cur)
    BY <1>1 DEF Known
  <2>3. Known(q)' <=> q[1] < block \/ (q[1] = block /\ q[2] < cur + 1)
    BY <1>1 DEF Known
  <2>4. q = p <=> q[1] = block /\ q[2] = cur
    BY <1>3, <2>1
  <2> HIDE DEF p
  <2> QED
    BY <1>2, <2>1, <2>2, <2>3, <2>4
<1> HIDE DEF p, End, d
<1>8. p \notin Waiting
  BY <1>3, <1>7 DEF Waiting
<1>9. \A q : q \in Waiting' <=> q \in Places(archive) /\ Rec(q).dest >= End /\ (Known(q) \/ q = p)
  BY <1>4, <1>5, <1>7 DEF Waiting
<1>10. \A q : q \in Waiting <=> q \in Places(archive) /\ Rec(q).dest >= End /\ Known(q)
  BY <1>4 DEF Waiting
<1>11. Rec(p).dest = d
  BY <1>3 DEF d
<1>12. CASE CopiedHere(MatchList[cur])
  <2>1. ~ (Rec(p).dest >= End)
    <3>1. ~ (d >= End)
      BY <1>2, <1>6, <1>12
    <3> QED
      BY <1>11, <3>1
  <2>2. Waiting' = Waiting
    BY <1>9, <1>10, <2>1
  <2> QED
    BY <1>3, <1>8, <1>12, <2>2 DEF p
<1>13. CASE ~ CopiedHere(MatchList[cur])
  <2>1. Rec(p).dest >= End
    <3>1. d >= End
      BY <1>2, <1>6, <1>13
    <3> QED
      BY <1>11, <3>1
  <2>2. Waiting' = Waiting \cup {p}
    BY <1>3, <1>9, <1>10, <2>1
  <2> QED
    BY <1>3, <1>8, <1>13, <2>2 DEF p
<1> QED
  BY <1>12, <1>13

LEMMA SkipDoneRight ==
    ASSUME IInv, Sound, Right, SkipDone
    PROVE  StaysRight
<1>1. /\ ToSave /\ pc = "save" /\ CopiedHere(MatchList[cur]) /\ cur' = cur + 1
      /\ UNCHANGED <<archive, opts, pc, block, out, inPos, backend, heap, mm, disk>>
  BY DEF SkipDone, ToSave, heapVars, memoryVars
<1>2. Waiting' = Waiting
  BY <1>1, NextIsKnown
<1>3. Pending'
  BY <1>1, <1>2, PendingStays DEF Right
<1>4. DecodedRight'
  BY <1>1, DecodedStays DEF Right
<1> QED
  BY <1>1, <1>3, <1>4 DEF StaysRight, Right

\* Phase 3 turns the next record of the block into an entry.
LEMMA NextJoins ==
    ASSUME IInv, Sound, Right, ToSave, ~ CopiedHere(MatchList[cur]),
           UNCHANGED <<archive, opts, pc, block, out, inPos, backend, disk>>, cur' = cur + 1,
           NEW e, heap' = heap \cup {e},
           e.src = MatchList[cur].src, e.dest = MatchList[cur].dest, e.len = MatchList[cur].len,
           e.index # 0 => e.len < MaximumSave /\ mm'[e.index] = Slice(e.dest, e.len),
           \A f \in heap : f.index # 0 => mm'[f.index] = mm[f.index]
    PROVE  StaysRight
<1> DEFINE p == <<block, cur>>
           d == Rec(p).dest
           l == Rec(p).len
           E == {e}
           P == {p}
<1>1. pc = "save" /\ IsArchive(archive)
  BY TypesAre DEF ToSave, IInv
<1>2. p \in Places(archive) /\ Rec(p) = MatchList[cur] /\ p \notin Waiting /\ Waiting' = Waiting \cup P
  BY NextIsKnown
<1>3. /\ \A q : Rec(q)' = Rec(q)
      /\ \A from, len : Slice(from, len)' = Slice(from, len)
      /\ MaximumSave' = MaximumSave
  BY ArchiveStays
<1>4. /\ Rec(p).src = e.src /\ d = e.dest /\ l = e.len
      /\ d \in Nat /\ l \in Nat \ {0} /\ d + l <= Len(archive.original)
      /\ Len(archive.original) < MaxOffset /\ Len(archive.original) \in Nat /\ MaxOffset \in Nat
  <2>1. TheJob
    BY DEF IInv
  <2> QED
    BY <1>1, <1>2, <2>1, RecordsAre, JobIs, ArchiveShape, ConstantsAre DEF GoodRecord
<1> HIDE DEF p, d, l
<1>5. e.len # 0 /\ e # Barrier
  <2>1. d # MaxOffset
    <3> DEFINE x == Len(archive.original)
    <3>1. x \in Nat /\ d + l <= x /\ x < MaxOffset
      BY <1>4
    <3> HIDE DEF x
    <3> QED
      BY <1>4, <3>1
  <2> QED
    BY <1>4, <2>1, BarrierIs
<1>6. ASSUME NEW q, q = p PROVE IsEntryOf(e, q)'
  <2>1. Rec(q)' = Rec(p)
    BY <1>3, <1>6
  <2>2. /\ Rec(q)'.src = e.src /\ Rec(q)'.dest = e.dest /\ Rec(q)'.len = e.len
    BY <1>4, <2>1 DEF d, l
  <2> QED
    BY <1>3, <2>2 DEF IsEntryOf
<1>7. Joins(E, P)
  <2>1. \A f \in E : f.len # 0 /\ f # Barrier /\ \E q \in P : IsEntryOf(f, q)'
    BY <1>5, <1>6
  <2>2. \A q \in P : \E f \in E : f.dest = Rec(q).dest
    BY <1>4 DEF d
  <2> QED
    BY <1>2, <2>1, <2>2 DEF Joins
<1> HIDE DEF E, P
<1>8. Pending'
  BY <1>1, <1>7, PendingGrows DEF Right
<1>9. DecodedRight'
  BY DecodedStays DEF Right
<1> QED
  BY <1>1, <1>8, <1>9 DEF StaysRight, Right

LEMMA RememberLongRight ==
    ASSUME IInv, Sound, Right, RememberLong
    PROVE  StaysRight
<1> DEFINE r == MatchList[cur]
           e == Entry(r.src, r.dest, r.len, INVALID_INDEX, seqCounter)
<1>1. /\ ToSave /\ ~ CopiedHere(r) /\ cur' = cur + 1 /\ heap' = heap \cup {e}
      /\ UNCHANGED <<archive, opts, pc, block, out, inPos, backend, mm, disk>>
  BY DEF RememberLong, InsertNext, memoryVars
<1>2. e.src = r.src /\ e.dest = r.dest /\ e.len = r.len /\ e.index = 0
  BY DEF Entry, INVALID_INDEX
<1> HIDE DEF e
<1> QED
  BY <1>1, <1>2, NextJoins

LEMMA SaveMatchRight ==
    ASSUME IInv, Sound, Right, SaveMatch
    PROVE  StaysRight
<1> DEFINE r == MatchList[cur]
           from == r.src - BlockStart
           bytes == SubSeq(out, from + 1, from + r.len)
           data == <<bytes>>
           h == FreeHandles(mm, 1)
           e == Entry(r.src, r.dest, r.len, h[1], seqCounter)
           p == <<block, cur>>
<1>1. /\ ToSave /\ ~ CopiedHere(r) /\ r.len < MaximumSave /\ pc = "save"
      /\ mm' = SaveAll(mm, data)
      /\ cur' = cur + 1 /\ heap' = heap \cup {e}
      /\ UNCHANGED <<archive, opts, pc, block, out, inPos, backend, disk>>
  BY DEF SaveMatch, MustSave, InsertNext, ToSave
<1>2. /\ TypeOK /\ Memory /\ IsArchive(archive)
  BY TypesAre DEF IInv
<1>3. /\ block \in 1 .. Len(archive.lists) /\ BlockStart \in Nat /\ BlockEnd \in Nat
      /\ OrigSize \in Nat /\ BlockEnd = BlockStart + OrigSize
      /\ BlockEnd <= Len(archive.original) /\ Len(archive.original) \in Nat
      /\ BlockStart <= r.src /\ r.src + r.len <= BlockEnd
      /\ r.src \in Nat /\ r.len \in Nat /\ r.dest \in Nat
      /\ archive.original \in Seq(Byte)
      /\ cur \in DOMAIN MatchList
  BY <1>1, <1>2, NextRecord, Inside, ArchiveShape
<1>4. out = Slice(BlockStart, OrigSize)
  BY <1>1 DEF IInv, Position, Right, DecodedRight, InABlock
<1>5. /\ p \in Places(archive) /\ Rec(p) = r
  BY <1>1, NextIsKnown
<1> HIDE DEF p
<1>6. bytes = Slice(r.dest, r.len)
  <2> DEFINE b == BlockStart
             n == OrigSize
             k == from
             s == r.src
             l == r.len
             total == Len(archive.original)
  <2>1. /\ b \in Nat /\ n \in Nat /\ k \in Nat /\ s = b + k /\ k + l <= n /\ b + n <= total
    <3>1. /\ b \in Nat /\ n \in Nat /\ s \in Nat /\ l \in Nat /\ total \in Nat
          /\ b <= s /\ s + l <= b + n /\ b + n <= total /\ k = s - b
      BY <1>3
    <3> HIDE DEF b, n, k, s, l, total
    <3> QED
      BY <3>1
  <2> HIDE DEF b, n, k
  <2>2. Rec(p).src = b + k /\ k + Rec(p).len <= n /\ b + n <= Len(archive.original)
    BY <1>5, <2>1
  <2>3. SubSeq(out, k + 1, k + Rec(p).len) = Slice(Rec(p).dest, Rec(p).len)
    BY <1>2, <1>4, <1>5, <2>1, <2>2, FromSlice DEF b, n
  <2> QED
    BY <1>5, <2>3 DEF k
<1>7. bytes \in Seq(Byte)
  <2> DEFINE d == Rec(p).dest
             l == Rec(p).len
  <2>1. d \in Nat /\ l \in Nat /\ d + l <= Len(archive.original)
    BY <1>2, <1>5, RecordsAre DEF GoodRecord
  <2>2. HasBytes(Slice(d, l), d, l)
    <3> HIDE DEF d, l
    <3> QED
      BY <1>3, <2>1, SliceIs
  <2> QED
    BY <1>5, <1>6, <2>2 DEF HasBytes
<1> HIDE DEF bytes
<1>8. data \in Seq(Seq(Byte)) /\ Len(data) = 1 /\ DOMAIN data = {1} /\ data[1] = bytes
  BY <1>7
<1> HIDE DEF data
<1>9. Added(mm, data, h, mm')
  BY <1>1, <1>2, <1>8, MemorySaved
<1> HIDE DEF h
<1>10. mm'[h[1]] = bytes
  BY <1>8, <1>9 DEF Added
<1>11. \A f \in heap : f.index # 0 => mm'[f.index] = mm[f.index]
  BY <1>2, <1>9 DEF Added, Memory
<1>12. e.src = r.src /\ e.dest = r.dest /\ e.len = r.len /\ e.index = h[1]
  BY DEF Entry
<1> HIDE DEF e
<1>13. e.index # 0 => e.len < MaximumSave /\ mm'[e.index] = Slice(e.dest, e.len)
  BY <1>1, <1>6, <1>10, <1>12
<1> QED
  BY <1>1, <1>11, <1>12, <1>13, NextJoins

\* The start of the next block, for what waits, is the end of this one.
LEMMA BlocksMeet ==
    ASSUME IsArchive(archive), Sound, block \in 1 .. Len(archive.lists), NEW q \in Places(archive)
    PROVE  /\ FirstOf(block + 1) \in Nat /\ BlockEnd <= FirstOf(block + 1)
           /\ Rec(q).dest >= BlockEnd <=> Rec(q).dest >= FirstOf(block + 1)
<1> DEFINE d == Rec(q).dest
           l == Rec(q).len
           s == FirstOf(block + 1)
           End == BlockEnd
           total == Len(archive.original)
<1>1. d \in Nat /\ l \in Nat \ {0} /\ d + l <= total
  BY RecordsAre DEF GoodRecord
<1>2. End = (IF s <= total THEN s ELSE total) /\ total \in Nat /\ End <= s
  BY ArchiveShape DEF BlockEnd
<1>3. s \in Nat
  <2>1. block + 1 \in Nat \ {0}
    BY ArchiveShape
  <2> QED
    BY <2>1, StartsGrow
<1> HIDE DEF d, l, s, End, total
<1>4. d >= End <=> d >= s
  BY <1>1, <1>2, <1>3
<1> QED
  BY <1>2, <1>3, <1>4 DEF d, s, End

\* A block that is right extends the output to the end of the block.
LEMMA BlockJoined ==
    ASSUME archive.original \in Seq(Byte), NEW b \in Nat, NEW n \in Nat, b + n <= Len(archive.original)
    PROVE  Slice(0, b) \o Slice(b, n) = Slice(0, b + n) /\ Len(Slice(0, b + n)) = b + n
<1> DEFINE total == Len(archive.original)
           y == b + n
<1>1. total \in Nat /\ y \in Nat /\ 0 \in Nat /\ 0 + y <= total /\ 0 + b = b
      /\ 0 + b + n <= total
  OBVIOUS
<1>2. Slice(0, b) \o Slice(0 + b, n) = Slice(0, b + n)
  <2>1. archive.original \in Seq(Byte) /\ 0 + b + n <= Len(archive.original)
    BY <1>1
  <2>2. 0 \in Nat /\ b \in Nat /\ n \in Nat
    BY <1>1
  <2> HIDE DEF total, y
  <2> QED
    BY <2>1, <2>2, SlicesJoin
<1> HIDE DEF y
<1>3. HasBytes(Slice(0, y), 0, y)
  BY <1>1, SliceIs DEF total
<1> QED
  BY <1>1, <1>2, <1>3 DEF HasBytes, y

LEMMA WriteBlockRight ==
    ASSUME IInv, Sound, Right, WriteBlock
    PROVE  StaysRight
<1>1. /\ pc = "save" /\ cur > Len(MatchList)
      /\ UNCHANGED <<archive, opts, cur, out, heap, mm, disk>>
  BY DEF WriteBlock, heapVars, memoryVars
<1>2. TypeOK /\ IsArchive(archive) /\ block <= archive.present
  BY <1>1, TypesAre DEF IInv, Position, InABlock
<1>3. /\ block \in 1 .. Len(archive.lists) /\ BlockStart \in Nat /\ BlockEnd \in Nat
      /\ OrigSize \in Nat /\ BlockEnd = BlockStart + OrigSize
      /\ BlockEnd <= Len(archive.original) /\ Len(archive.original) \in Nat
      /\ Len(backend) = BlockStart /\ archive.original \in Seq(Byte)
      /\ Len(archive.lists) \in Nat /\ cur \in Nat
  BY <1>1, <1>2, Inside, ArchiveShape, TypesAre
<1>4. out = Slice(BlockStart, OrigSize) /\ backend = Slice(0, BlockStart) /\ Reached = BlockEnd
  BY <1>1, <1>3, ReachedIs DEF IInv, Position, Right, DecodedRight, InABlock, Running
<1>5. ~ ChecksumDiffers
  BY <1>3, <1>4 DEF ChecksumDiffers, Slice
<1>6. backend' = backend \o out /\ block' = block + 1 /\ pc' = "read"
  BY <1>1, <1>5 DEF WriteBlock
<1>7. Reached' = FirstOf(block + 1)
  <2>1. BlockStart' = FirstOf(block + 1)
    BY <1>6 DEF BlockStart
  <2>2. FirstOf(block + 1) \in Nat
    <3>1. block + 1 \in Nat \ {0}
      BY <1>3
    <3> QED
      BY <3>1, StartsGrow
  <2> QED
    BY <1>6, <2>1, <2>2 DEF Reached, InABlock
<1>8. /\ Places(archive)' = Places(archive)
      /\ \A q : Rec(q)' = Rec(q)
      /\ \A from, len : Slice(from, len)' = Slice(from, len)
  BY <1>1, ArchiveStays
<1>9. Waiting' = Waiting
  <2>1. ASSUME NEW q \in Places(archive)
        PROVE  Known(q)' <=> Known(q)
    <3>1. q[1] \in 1 .. Len(archive.lists) /\ (q[1] = block => q[2] \in Nat /\ q[2] <= Len(MatchList))
      <4>1. q[1] \in 1 .. Len(archive.lists) /\ q[2] \in DOMAIN archive.lists[q[1]]
        BY <1>2, PlacesAre
      <4>2. archive.lists[q[1]] \in Seq(Match)
        BY <1>2, <4>1, ArchiveShape DEF Sound
      <4>3. q[2] \in 1 .. Len(archive.lists[q[1]]) /\ Len(archive.lists[q[1]]) \in Nat
        BY <4>1, <4>2
      <4> QED
        BY <4>1, <4>3 DEF MatchList
    <3>2. Known(q)' <=> q[1] < block + 1
      BY <1>6 DEF Known
    <3>3. Known(q) <=> q[1] < block \/ (q[1] = block /\ q[2] < cur)
      BY <1>1 DEF Known
    <3>4. q[1] = block => q[2] < cur
      <4> DEFINE x == Len(MatchList)
      <4>1. q[1] = block => x \in Nat
        BY <1>1, <1>2, Inside DEF Sound
      <4> HIDE DEF x
      <4> QED
        BY <1>1, <1>3, <3>1, <4>1 DEF x
    <3> QED
      BY <1>3, <3>1, <3>2, <3>3, <3>4
  <2>2. \A q \in Places(archive) : Rec(q).dest >= BlockEnd <=> Rec(q).dest >= FirstOf(block + 1)
    BY <1>2, <1>3, BlocksMeet
  <2> QED
    BY <1>4, <1>7, <1>8, <2>1, <2>2 DEF Waiting
<1>10. Pending'
  BY <1>1, <1>9, PendingStays DEF Right
<1>11. DecodedRight'
  <2>1. ASSUME NEW q \in Places(archive), Rec(q).dest < FirstOf(block + 1)
        PROVE  Rec(q).dest + Rec(q).len <= FirstOf(block + 1)
    <3> DEFINE d == Rec(q).dest
               l == Rec(q).len
               s == FirstOf(block + 1)
               End == BlockEnd
    <3>1. /\ s \in Nat /\ End <= s /\ (d >= End <=> d >= s)
          /\ d \in Nat /\ l \in Nat /\ End \in Nat /\ d < s
      BY <1>2, <1>3, <2>1, BlocksMeet, RecordsAre DEF GoodRecord
    <3>2. d < End => d + l <= End
      BY <1>2, <1>3, CopyInside DEF BlockEnd
    <3> HIDE DEF d, l, s, End
    <3>3. d + l <= s
      BY <3>1, <3>2
    <3> QED
      BY <3>3 DEF d, l, s
  <2>2. backend' = (Slice(0, Len(backend)))'
    <3> DEFINE b == BlockStart
               n == OrigSize
    <3>1. b \in Nat /\ n \in Nat /\ b + n <= Len(archive.original) /\ archive.original \in Seq(Byte)
      BY <1>3
    <3>2. backend' = Slice(0, b) \o Slice(b, n)
      BY <1>4, <1>6
    <3> HIDE DEF b, n
    <3>3. backend' = Slice(0, b + n) /\ Len(backend') = b + n
      BY <3>1, <3>2, BlockJoined
    <3> QED
      BY <1>1, <3>3 DEF Slice
  <2> QED
    BY <1>6, <1>7, <1>8, <2>1, <2>2 DEF DecodedRight, InABlock
<1> QED
  BY <1>6, <1>10, <1>11 DEF StaysRight, Right

LEMMA WaitingStays ==
    ASSUME UNCHANGED <<archive, opts, pc, block, cur, out>>
    PROVE  Waiting' = Waiting
<1>1. /\ Places(archive)' = Places(archive)
      /\ \A q : Rec(q)' = Rec(q)
  BY ArchiveStays
<1>2. Reached' = Reached
  BY DEF Reached, InABlock, BlockStart
<1>3. \A q : Known(q)' <=> Known(q)
  BY <1>1 DEF Known, BlockEnd
<1> QED
  BY <1>1, <1>2, <1>3 DEF Waiting

\* The destination of a record is in the original.
LEMMA DestInside ==
    ASSUME IInv, Sound, NEW p \in Places(archive)
    PROVE  /\ Rec(p).dest \in Nat /\ Rec(p).len \in Nat \ {0}
           /\ Rec(p).dest < Len(archive.original) /\ Len(archive.original) \in Nat
           /\ Len(archive.original) < MaxOffset /\ MaxOffset \in Nat
<1> DEFINE d == Rec(p).dest
           l == Rec(p).len
           x == Len(archive.original)
<1>1. /\ d \in Nat /\ l \in Nat \ {0} /\ d + l <= x /\ x \in Nat
      /\ x < MaxOffset /\ MaxOffset \in Nat
  <2>1. TheJob /\ IsArchive(archive)
    BY TypesAre DEF IInv
  <2> QED
    BY <2>1, RecordsAre, JobIs, ArchiveShape, ConstantsAre DEF GoodRecord
<1> HIDE DEF d, l, x
<1>2. d < x
  BY <1>1
<1> QED
  BY <1>1, <1>2 DEF d, l, x

LEMMA RestoreMarkRight ==
    ASSUME IInv, Sound, Right, RestoreMark
    PROVE  StaysRight
<1> DEFINE mark == First(heap)
           recs == disk[mark.src]
           data == [k \in DOMAIN recs |-> recs[k].data]
           n == Len(recs)
           h == FreeHandles(mm, n)
           ent == [k \in DOMAIN recs |-> Entry(recs[k].src, recs[k].dest, Len(recs[k].data),
                                               h[k], seqCounter + k - 1)]
<1>1. /\ pc = "process" /\ IsMarkingPoint(mark)
      /\ mm' = SaveAll(mm, data)
      /\ heap' = (heap \cup {ent[k] : k \in DOMAIN recs}) \ {mark}
      /\ UNCHANGED <<archive, opts, pc, block, cur, out, inPos, backend, disk>>
  <2>1. /\ pc = "process" /\ IsMarkingPoint(First(heap)) /\ RestoreFromDisk(First(heap))
        /\ UNCHANGED <<archive, opts, pc, block, cur, out, inPos, backend>>
    BY DEF RestoreMark
  <2>2. {ent[k] : k \in DOMAIN recs} =
            {Entry(recs[k].src, recs[k].dest, Len(recs[k].data), h[k], seqCounter + k - 1) : k \in DOMAIN recs}
    OBVIOUS
  <2> HIDE DEF ent
  <2> QED
    BY <2>1, <2>2 DEF RestoreFromDisk
<1>2. TypeOK /\ HeapShape /\ Memory /\ VmFile /\ IsArchive(archive)
  BY TypesAre DEF IInv
<1>3. mark \in heap /\ mark \in Marks
  BY <1>1, <1>2, FirstDue DEF Marks
<1> HIDE DEF mark
<1>4. /\ mark.src \in DOMAIN disk /\ recs \in Seq(SpillRecord) /\ n \in Nat /\ DOMAIN recs = 1 .. n
      /\ \A k \in DOMAIN recs : recs[k] \in SpillRecord /\ Len(recs[k].data) > 0
  <2>1. mark.src \in DOMAIN disk
    BY <1>2, <1>3 DEF VmFile
  <2>2. recs \in Seq(SpillRecord) /\ \A k \in DOMAIN recs : Len(recs[k].data) > 0
    BY <1>2, <2>1, TypesAre DEF VmFile
  <2> HIDE DEF recs
  <2>3. n \in Nat /\ DOMAIN recs = 1 .. n /\ \A k \in DOMAIN recs : recs[k] \in SpillRecord
    BY <2>2
  <2> QED
    BY <2>1, <2>2, <2>3
<1>5. \A k \in DOMAIN recs : recs[k].dest < MaxOffset /\ recs[k].dest \in Nat /\ MaxOffset \in Nat
  <2>1. ASSUME NEW k \in DOMAIN recs
        PROVE  recs[k].dest < MaxOffset /\ recs[k].dest \in Nat /\ MaxOffset \in Nat
    <3>1. PICK q \in Waiting : IsSpilled(disk[mark.src][k], q)
      BY <1>3 DEF Right, Pending, AllTrue
    <3>2. q \in Places(archive) /\ Rec(q).dest = recs[k].dest
      BY <3>1 DEF IsSpilled, Waiting
    <3> DEFINE d == recs[k].dest
               x == Len(archive.original)
    <3>3. d \in Nat /\ d < x /\ x \in Nat /\ x < MaxOffset /\ MaxOffset \in Nat
      BY <3>2, DestInside
    <3> HIDE DEF d, x
    <3>4. d < MaxOffset
      BY <3>3
    <3> QED
      BY <3>3, <3>4 DEF d
  <2> QED
    BY <2>1
<1> HIDE DEF recs
<1>6. data \in Seq(Seq(Byte)) /\ Len(data) = n /\ DOMAIN data = DOMAIN recs
      /\ \A k \in DOMAIN data : data[k] = recs[k].data
  <2>1. \A k \in DOMAIN recs : recs[k].data \in Seq(Byte)
    BY <1>4 DEF SpillRecord
  <2>2. data \in [1 .. n -> Seq(Byte)]
    BY <1>4, <2>1
  <2>3. data \in Seq(Seq(Byte))
    BY <1>4, <2>2
  <2>4. DOMAIN data = 1 .. n
    BY <1>4
  <2>5. Len(data) = n
    BY <1>4, <2>3, <2>4
  <2> QED
    BY <1>4, <2>3, <2>4, <2>5
<1> HIDE DEF data
<1>7. /\ \A i \in DOMAIN mm : mm'[i] = mm[i]
      /\ \A k \in DOMAIN recs : mm'[h[k]] = recs[k].data
  <2>1. Added(mm, data, FreeHandles(mm, Len(data)), mm')
    BY <1>1, <1>2, <1>6, MemorySaved
  <2>2. Added(mm, data, h, mm')
    BY <1>6, <2>1
  <2> HIDE DEF h
  <2> QED
    BY <1>6, <2>2 DEF Added
<1> HIDE DEF h, n
<1>8. ASSUME NEW k \in DOMAIN recs
      PROVE  /\ ent[k].src = recs[k].src /\ ent[k].dest = recs[k].dest
             /\ ent[k].len = Len(recs[k].data) /\ ent[k].index = h[k]
             /\ ent[k].len # 0 /\ ent[k] # Barrier /\ mm'[ent[k].index] = recs[k].data
  <2>1. /\ ent[k].src = recs[k].src /\ ent[k].dest = recs[k].dest
        /\ ent[k].len = Len(recs[k].data) /\ ent[k].index = h[k]
    BY DEF Entry
  <2> HIDE DEF ent
  <2> DEFINE d == recs[k].dest
             l == Len(recs[k].data)
  <2>2. l > 0 /\ d < MaxOffset /\ d \in Nat /\ MaxOffset \in Nat
    BY <1>4, <1>5
  <2> HIDE DEF d, l
  <2>3. l # 0 /\ d # MaxOffset
    BY <2>2
  <2>4. ent[k] # Barrier
    BY <2>1, <2>3, BarrierIs DEF d
  <2> QED
    BY <1>7, <2>1, <2>3, <2>4 DEF l
<1> HIDE DEF ent
<1>9. \A f \in heap : f.index # 0 => mm'[f.index] = mm[f.index]
  BY <1>2, <1>7 DEF Memory
<1>10. Waiting' = Waiting
  BY <1>1, WaitingStays
<1>11. Restores(mark, ent)
  BY <1>1, <1>3, <1>8, <1>9, <1>10 DEF Restores, recs
<1>12. Pending'
  BY <1>11, PendingRestored DEF Right
<1>13. DecodedRight'
  BY <1>1, DecodedStays DEF Right
<1> QED
  BY <1>1, <1>12, <1>13 DEF StaysRight, Right

\* What a call of save_to_disk takes stays pending, if it takes anything.
LEMMA SaveToDiskRight ==
    ASSUME IInv, Sound, Right, SaveToDisk, Running,
           UNCHANGED <<archive, opts, block, cur, out, inPos, backend>>
    PROVE  StaysRight
<1>1. PICK taken \in Takings :
          Spill(taken) /\ pc' = IF taken # <<>> THEN pc ELSE WhenStuck
  BY DEF SaveToDisk
<1>2. CASE taken = <<>>
  BY <1>1, <1>2 DEF StaysRight, Running, WhenStuck
<1>3. CASE taken # <<>>
  <2> DEFINE v == VmBlockToUse
             mark == Entry(v, MarkDest(taken), 0, INVALID_INDEX, seqCounter)
             T == Range(taken)
             H == {e.index : e \in T}
  <2>1. /\ disk' = [w \in DOMAIN disk \cup {v} |-> IF w = v THEN SpillRecordsOf(taken) ELSE disk[w]]
        /\ IF freeBlocks = <<>>
           THEN newBlock' = newBlock + 1 /\ UNCHANGED freeBlocks
           ELSE freeBlocks' = Front(freeBlocks) /\ UNCHANGED newBlock
        /\ mm' = FreeAll(mm, H)
        /\ heap' = (heap \ T) \cup {mark}
        /\ pc' = pc
    BY <1>1, <1>3 DEF Spill, SpillRecordsOf
  <2>2. TypeOK /\ HeapShape /\ Memory /\ VmFile
    BY DEF IInv
  <2>3. TakesBlock(v)
    BY <2>1, <2>2, BlockTaken
  <2> HIDE DEF v
  <2>4. \A m \in Marks : m.src # v /\ m.src \in DOMAIN disk
    BY <2>2, <2>3 DEF TakesBlock, VmFile
  <2>5. disk'[v] = SpillRecordsOf(taken) /\ \A m \in Marks : disk'[m.src] = disk[m.src]
    BY <2>1, <2>4
  <2>6. IsMarkingPoint(mark) /\ mark.src = v
    BY DEF IsMarkingPoint, Entry
  <2> HIDE DEF mark
  <2>7. /\ \A k \in DOMAIN taken : /\ taken[k] \in heap /\ taken[k] # Barrier /\ taken[k].index # 0
                                   /\ ~ IsMarkingPoint(taken[k])
        /\ \A j, k \in DOMAIN taken : taken[j] = taken[k] => j = k
    <3>1. GoodHeap
      BY <2>2, HeapIs
    <3> QED
      BY <3>1, SpilledAre, TakingsAre
  <2>8. \A k \in DOMAIN taken : /\ taken[k] \in Matches /\ taken[k].index # 0
                                /\ Len(mm[taken[k].index]) = taken[k].len
    BY <2>2, <2>7 DEF Matches, Memory
  <2>9. ASSUME NEW f \in heap \ T, f.index # 0
        PROVE  mm'[f.index] = mm[f.index]
    <3>1. f.index \in DOMAIN mm
      BY <2>2, <2>9 DEF Memory
    <3>2. f.index \notin H
      <4>1. \A e \in T : e \in heap
        BY <2>7 DEF Range
      <4> QED
        BY <2>2, <2>9, <4>1 DEF Memory
    <3> HIDE DEF H
    <3> QED
      BY <2>1, <3>1, <3>2 DEF FreeAll
  <2>10. Waiting' = Waiting
    BY <2>1, WaitingStays
  <2>11. Spills(taken, v, mark)
    BY <2>1, <2>4, <2>5, <2>6, <2>7, <2>8, <2>9, <2>10 DEF Spills
  <2>12. Pending'
    BY <2>11, PendingSpilled DEF Right
  <2>13. DecodedRight'
    BY <2>1, DecodedStays DEF Right
  <2> QED
    BY <2>1, <2>12, <2>13 DEF StaysRight, Right, Running
<1> QED
  BY <1>2, <1>3

-----------------------------------------------------------------------------
(* At the end of the input, everything has been used. *)

\* Only matches make entries other than the barrier, and marks stand for matches.
LEMMA AllUsed ==
    ASSUME IInv, Sound, Right, pc = "read", block > Len(archive.lists)
    PROVE  heap = {Barrier}
<1>1. IsArchive(archive) /\ TypeOK /\ HeapShape /\ VmFile
  BY TypesAre DEF IInv
<1>2. /\ block \in Nat \ {0} /\ Len(archive.lists) \in Nat /\ block <= Len(archive.lists) + 1
      /\ Len(archive.original) \in Nat
  BY <1>1, TypesAre
<1>3. Reached = BlockStart /\ BlockStart \in Nat
  <2>1. BlockStart \in Nat
    BY <1>2, StartsGrow DEF BlockStart
  <2> QED
    BY <2>1 DEF Reached, InABlock
<1>4. Len(archive.original) <= BlockStart
  <2> DEFINE l == Len(archive.lists)
  <2>1. FirstOf(l + 1) >= Len(archive.original)
    BY <1>1, ArchiveShape
  <2>2. block = l + 1
    BY <1>2
  <2> HIDE DEF l
  <2>3. BlockStart >= Len(archive.original)
    BY <2>1, <2>2 DEF BlockStart
  <2> DEFINE x == Len(archive.original)
  <2>4. x \in Nat /\ BlockStart >= x
    BY <1>2, <2>3
  <2> HIDE DEF x
  <2>5. x <= BlockStart
    BY <1>3, <2>4
  <2> QED
    BY <2>5 DEF x
<1>5. Waiting = {}
  <2>1. ASSUME NEW q \in Waiting PROVE FALSE
    <3> DEFINE d == Rec(q).dest
               x == Len(archive.original)
    <3>1. q \in Places(archive) /\ d >= BlockStart
      BY <1>3 DEF Waiting
    <3>2. d \in Nat /\ d < x /\ x \in Nat /\ x <= BlockStart
      BY <1>4, <3>1, DestInside
    <3> HIDE DEF d, x
    <3> QED
      BY <1>3, <3>1, <3>2
  <2> QED
    BY <2>1
<1>6. Matches = {}
  BY <1>5 DEF Right, Pending, AllTrue
<1>7. Marks = {}
  <2>1. ASSUME NEW m \in Marks PROVE FALSE
    <3>1. disk[m.src] # <<>> /\ disk[m.src] \in Seq(SpillRecord)
      BY <1>1, <2>1, TypesAre DEF VmFile, Stuck
    <3>2. 1 \in DOMAIN disk[m.src]
      BY <3>1
    <3> QED
      BY <1>5, <3>2 DEF Right, Pending, AllTrue
  <2> QED
    BY <2>1
<1> QED
  BY <1>1, <1>6, <1>7 DEF Matches, Marks, HeapShape

-----------------------------------------------------------------------------
(* The invariant of intact archives. *)

Intact ==
    Sound => /\ Running => Right
             /\ pc # "mismatch"
             /\ archive.present = Len(archive.lists) => pc # "broken"

LEMMA InitIntact == Init => Intact
<1> SUFFICES ASSUME Init, Sound PROVE Right /\ pc = "read"
  BY DEF Intact
<1>1. /\ pc = "read" /\ block = 1 /\ heap = {Barrier} /\ backend = <<>> /\ IInv
  BY InitIs DEF Init
<1>2. IsArchive(archive) /\ Len(archive.original) \in Nat
  BY <1>1, TypesAre DEF IInv
<1>3. Reached = 0
  <2>1. BlockStart = 0
    BY <1>1, StartsGrow, 1 \in Nat \ {0} DEF BlockStart
  <2> QED
    BY <1>1, <2>1 DEF Reached, InABlock
<1>4. Matches = {} /\ Marks = {}
  BY <1>1, BarrierIs DEF Matches, Marks
<1>5. Waiting = {}
  <2>1. ASSUME NEW q \in Places(archive) PROVE ~ Known(q)
    <3>1. q[1] \in 1 .. Len(archive.lists) /\ Len(archive.lists) \in Nat
      BY <1>2, PlacesAre, ArchiveShape
    <3> QED
      BY <1>1, <3>1 DEF Known
  <2> QED
    BY <2>1 DEF Waiting
<1>6. Pending
  BY <1>4, <1>5 DEF Pending, AllTrue, Once, AllThere
<1>7. DecodedRight
  <2>1. \A p \in Places(archive) : ~ (Rec(p).dest < Reached)
    <3>1. ASSUME NEW p \in Places(archive) PROVE ~ (Rec(p).dest < Reached)
      <4> DEFINE d == Rec(p).dest
      <4>1. d \in Nat
        BY <1>1, DestInside
      <4> HIDE DEF d
      <4>2. ~ (d < 0)
        BY <4>1
      <4> QED
        BY <1>3, <4>2 DEF d
    <3> QED
      BY <3>1
  <2>2. backend = Slice(0, Len(backend))
    <3>1. 0 \in Nat /\ 0 <= Len(archive.original)
      BY <1>2
    <3>2. <<>> = Slice(0, 0)
      BY <1>2, <3>1, NothingYet
    <3> QED
      BY <1>1, <3>2
  <2> QED
    BY <1>1, <2>1, <2>2 DEF DecodedRight, InABlock
<1> QED
  BY <1>1, <1>6, <1>7 DEF Right

LEMMA JobStays == [Next]_vars => UNCHANGED <<archive, opts>>
  BY DEF Next, EndOfInput, IoBlock, ReadBlock, TakeMatch, SpillToRestore, RestoreMark, CopyTail,
         SkipDone, RememberLong, SpillToSave, SaveMatch, WriteBlock, SpinOn, Terminated, vars

\* The barrier alone is accepted at the end of the input, and only it.
LEMMA OnlyTheBarrier ==
    ASSUME HeapShape
    PROVE  Cardinality(heap) = 1 <=> heap = {Barrier}
<1>1. IsFiniteSet(heap) /\ Barrier \in heap
  BY DEF HeapShape
<1>2. Cardinality(heap) = 1 <=> \E x : heap = {x}
  BY <1>1, FS_Singleton
<1>3. (\E x : heap = {x}) <=> heap = {Barrier}
  BY <1>1
<1> QED
  BY <1>2, <1>3

LEMMA EndOfInputRight ==
    ASSUME IInv, Sound, Right, EndOfInput
    PROVE  /\ ~ Running' /\ pc' # "mismatch"
           /\ archive.present = Len(archive.lists) => pc' = "done" /\ heap = {Barrier}
<1>1. pc = "read" /\ ~ MoreBlocks /\ pc' = (IF EndAccepted THEN "done" ELSE "broken")
  BY DEF EndOfInput
<1>2. ASSUME archive.present = Len(archive.lists)
      PROVE  EndAccepted /\ heap = {Barrier}
  <2>1. block > Len(archive.lists)
    <3>1. block \in Nat /\ archive.present \in Nat
      BY TypesAre DEF IInv
    <3> QED
      BY <1>1, <1>2, <3>1 DEF MoreBlocks
  <2>2. heap = {Barrier}
    BY <1>1, <2>1, AllUsed
  <2> QED
    BY <2>2, OnlyTheBarrier DEF EndAccepted, IInv
<1> QED
  BY <1>1, <1>2 DEF Running

LEMMA IntactKept ==
    ASSUME IInv, Intact, [Next]_vars
    PROVE  Intact'
<1>1. archive' = archive /\ opts' = opts /\ Sound' = Sound
  BY JobStays DEF Sound
<1> SUFFICES ASSUME Sound
             PROVE  /\ Running' => Right'
                    /\ pc' # "mismatch"
                    /\ archive.present = Len(archive.lists) => pc' # "broken"
  BY <1>1 DEF Intact
<1>2. /\ Running => Right
      /\ pc # "mismatch"
      /\ archive.present = Len(archive.lists) => pc # "broken"
  BY DEF Intact
<1>3. ASSUME StaysRight
      PROVE  (Running' => Right') /\ pc' # "mismatch" /\ pc' # "broken"
  BY <1>3 DEF StaysRight
<1>4. CASE EndOfInput
  BY <1>2, <1>4, EndOfInputRight DEF Running, EndOfInput
<1>5. CASE IoBlock
  BY <1>5 DEF IoBlock, Sound
<1>6. CASE ReadBlock
  BY <1>2, <1>3, <1>6, ReadBlockRight DEF Running, ReadBlock
<1>7. CASE TakeMatch
  BY <1>2, <1>3, <1>7, TakeMatchRight DEF Running, TakeMatch
<1>8. CASE SpillToRestore
  BY <1>2, <1>3, <1>8, SaveToDiskRight DEF Running, SpillToRestore
<1>9. CASE RestoreMark
  BY <1>2, <1>3, <1>9, RestoreMarkRight DEF Running, RestoreMark
<1>10. CASE CopyTail
  BY <1>2, <1>3, <1>10, CopyTailRight DEF Running, CopyTail
<1>11. CASE SkipDone
  BY <1>2, <1>3, <1>11, SkipDoneRight DEF Running, SkipDone, ToSave
<1>12. CASE RememberLong
  BY <1>2, <1>3, <1>12, RememberLongRight DEF Running, RememberLong, ToSave
<1>13. CASE SpillToSave
  BY <1>2, <1>3, <1>13, SaveToDiskRight DEF Running, SpillToSave, MustSave, ToSave
<1>14. CASE SaveMatch
  BY <1>2, <1>3, <1>14, SaveMatchRight DEF Running, SaveMatch, MustSave, ToSave
<1>15. CASE WriteBlock
  BY <1>2, <1>3, <1>15, WriteBlockRight DEF Running, WriteBlock
<1>16. CASE SpinOn \/ Terminated \/ UNCHANGED vars
  <2>1. UNCHANGED <<archive, opts, pc, block, cur, out, inPos, backend, heap, mm, disk>>
    BY <1>16 DEF SpinOn, Terminated, vars, heapVars, memoryVars
  <2>2. Running' = Running
    BY <2>1 DEF Running
  <2>3. Right => Right'
    BY <2>1, WaitingStays, PendingStays, DecodedStays DEF Right
  <2> QED
    BY <1>2, <2>1, <2>2, <2>3
<1> QED
  BY <1>4, <1>5, <1>6, <1>7, <1>8, <1>9, <1>10, <1>11, <1>12, <1>13, <1>14, <1>15, <1>16 DEF Next

\* While an archive that is as the compressor wrote it is decoded, each record that waits is
\* kept once with its bytes and the output is the original's; no checksum differs, and no
\* block is found broken unless the archive is cut.
THEOREM IntactInvariant == Spec => []Intact
<1>1. Init => Intact
  BY InitIntact
<1>2. IInv /\ Intact /\ [Next]_vars => Intact'
  BY IntactKept
<1> QED
  BY <1>1, <1>2, Invariance, PTL DEF Spec

-----------------------------------------------------------------------------
(* What is in the heap and in the VM file. *)

\* The records that are outstanding are those of the places that wait.
LEMMA OutstandingIs ==
    ASSUME IInv, Sound, Running
    PROVE  Outstanding = {Rec(p) : p \in Waiting}
<1> DEFINE reached == BlockStart + (IF InABlock THEN Len(out) ELSE 0)
           last == IF InABlock THEN block ELSE block - 1
           known(b) == IF pc = "save" /\ b = block
                       THEN {k \in DOMAIN archive.lists[b] : k < cur}
                       ELSE DOMAIN archive.lists[b]
           Stays(r) == /\ r.dest >= reached
                       /\ pc = "process" => (r.src < BlockStart \/ r.dest < BlockEnd)
           All == UNION {{archive.lists[b][k] : k \in known(b)} : b \in 1 .. last}
<1>1. Outstanding = {r \in All : Stays(r)}
  BY DEF Outstanding, InABlock
<1>2. /\ IsArchive(archive) /\ Len(archive.lists) \in Nat /\ block \in Nat \ {0}
      /\ block <= Len(archive.lists) + 1
      /\ InABlock => block <= Len(archive.lists) /\ block \in 1 .. Len(archive.lists)
  <2>1. TypeOK
    BY DEF IInv
  <2>2. InABlock => block <= archive.present
    BY DEF IInv, Position
  <2> QED
    <3>1. /\ IsArchive(archive) /\ Len(archive.lists) \in Nat /\ block \in Nat \ {0}
          /\ block <= Len(archive.lists) + 1
          /\ archive.present \in Nat /\ archive.present <= Len(archive.lists)
      BY <2>1, TypesAre
    <3> DEFINE l == Len(archive.lists)
               a == archive.present
    <3> HIDE DEF l, a
    <3>2. InABlock => block <= l /\ block \in 1 .. l
      BY <2>2, <3>1 DEF l, a
    <3> QED
      BY <3>1, <3>2 DEF l
<1>3. last \in Nat /\ last <= Len(archive.lists)
      /\ \A b \in Nat : b <= last <=> b < block \/ (InABlock /\ b = block)
  BY <1>2
<1> HIDE DEF last, reached
<1>4. reached = Reached
  BY DEF reached, Reached
<1>5. \A r : r \in All <=> \E b \in 1 .. last : \E k \in known(b) : r = archive.lists[b][k]
  OBVIOUS
<1> HIDE DEF All, Stays
<1>6. ASSUME NEW p \in Places(archive)
      PROVE  p \in Waiting <=> p[1] \in 1 .. last /\ p[2] \in known(p[1]) /\ Stays(Rec(p))
  <2> DEFINE b == p[1]
             k == p[2]
             s == Rec(p).src
             d == Rec(p).dest
  <2>1. b \in 1 .. Len(archive.lists) /\ k \in DOMAIN archive.lists[b]
    BY <1>2, PlacesAre
  <2>2. p \in Waiting <=> d >= reached /\ Known(p)
    BY <1>4, <1>6 DEF Waiting
  <2>3. InABlock => (s < BlockStart <=> b < block) \/ b > block
    <3> SUFFICES ASSUME InABlock, b <= block
                 PROVE  s < BlockStart <=> b < block
      BY <1>2, <2>1
    <3> DEFINE l == Rec(p).len
               f == FirstOf(b)
               g == EndOf(archive, b)
               B == BlockStart
    <3>1. /\ s \in Nat /\ l \in Nat \ {0} /\ f \in Nat /\ g \in Nat /\ f <= s /\ s + l <= g
      BY <1>2, <1>6, RecordsAre DEF GoodRecord
    <3>2. /\ B \in Nat
          /\ b < block => g <= B
          /\ b = block => f = B
      <4>1. B \in Nat
        BY <1>2, StartsGrow DEF BlockStart
      <4>2. ASSUME b < block PROVE g <= B
        <5>0. b \in Nat \ {0}
          BY <2>1
        <5>1. g <= FirstOf(b + 1) /\ FirstOf(b + 1) = f + BufSize
          <6>1. g <= FirstOf(b + 1)
            BY <1>2, <2>1, ArchiveShape
          <6> HIDE DEF b
          <6>2. FirstOf(b + 1) = f + BufSize
            BY <5>0, StartsGrow
          <6> QED
            BY <6>1, <6>2
        <5>2. b \in 1 .. block - 1
          BY <1>2, <4>2, <5>0
        <5>3. f + BufSize <= B
          BY <1>2, <5>2, StartsGrow DEF BlockStart
        <5>4. BufSize \in Nat
          BY SizesPositive
        <5> HIDE DEF f, g, B
        <5>5. g <= f + BufSize
          BY <5>1
        <5> QED
          BY <3>1, <4>1, <5>3, <5>4, <5>5
      <4> QED
        BY <4>1, <4>2 DEF BlockStart
    <3>3. b \in Nat
      BY <2>1
    <3> HIDE DEF b, k, s, l, f, g, B
    <3>4. s < B <=> b < block
      BY <1>2, <3>1, <3>2, <3>3
    <3> QED
      BY <3>4 DEF B
  <2>4. k \in known(b) <=> (pc = "save" /\ b = block => k < cur)
    BY <2>1
  <2>5. Known(p) <=> \/ b < block
                     \/ b = block /\ pc = "process" /\ d < BlockEnd
                     \/ b = block /\ pc = "save" /\ k < cur
    BY DEF Known
  <2>6. b \in 1 .. last <=> b < block \/ (InABlock /\ b = block)
    BY <1>3, <2>1
  <2>7. Stays(Rec(p)) <=> /\ d >= reached
                          /\ pc = "process" => (s < BlockStart \/ d < BlockEnd)
    BY DEF Stays
  <2>8. InABlock <=> pc = "process" \/ pc = "save"
    BY DEF InABlock
  <2>9. b \in Nat /\ block \in Nat
    BY <1>2, <2>1
  <2> HIDE DEF b, k, s, d, known
  <2>10. b < block => b # block
    BY <2>9
  <2>11. pc = "process" => (b < block => s < BlockStart) /\ (b = block => ~ (s < BlockStart))
    BY <2>3, <2>8, <2>9
  <2> QED
    BY <2>2, <2>4, <2>5, <2>6, <2>7, <2>8, <2>10, <2>11 DEF b, k
<1>7. ASSUME NEW r \in Outstanding PROVE \E p \in Waiting : r = Rec(p)
  <2>1. PICK b \in 1 .. last : \E k \in known(b) : r = archive.lists[b][k]
    BY <1>1, <1>5
  <2>2. PICK k \in known(b) : r = archive.lists[b][k]
    BY <2>1
  <2>3. b \in 1 .. Len(archive.lists) /\ k \in DOMAIN archive.lists[b]
    BY <1>2, <1>3
  <2>4. <<b, k>> \in Places(archive) /\ Rec(<<b, k>>) = r
    BY <1>2, <2>2, <2>3, PlacesAre
  <2>5. <<b, k>> \in Waiting
    BY <1>1, <1>6, <2>4
  <2> QED
    BY <2>4, <2>5
<1>8. ASSUME NEW p \in Waiting PROVE Rec(p) \in Outstanding
  <2>1. p \in Places(archive)
    BY DEF Waiting
  <2>2. p[1] \in 1 .. last /\ p[2] \in known(p[1]) /\ Stays(Rec(p))
    BY <1>6, <2>1
  <2>3. Rec(p) = archive.lists[p[1]][p[2]]
    BY <1>2, <2>1, PlacesAre
  <2>4. Rec(p) \in All
    BY <1>5, <2>2, <2>3
  <2> QED
    BY <1>1, <2>2, <2>4
<1> QED
  BY <1>7, <1>8

\* However matches are saved, spilled, restored and spilled again, each one that is still
\* needed is in the heap or in a live VM block, not both, and nothing else is.
THEOREM NothingEverLost == Spec => []NothingLost
<1>1. ASSUME IInv, Intact PROVE NothingLost
  <2> SUFFICES ASSUME Sound, Running
               PROVE  /\ HeapRecords \cup DiskRecords = Outstanding
                      /\ HeapRecords \cap DiskRecords = {}
    <3>1. TypeOK
      BY <1>1 DEF IInv
    <3> QED
      BY <3>1 DEF NothingLost, Sound, Finished, Running, TypeOK
  <2>1. IsArchive(archive) /\ Pending /\ TypeOK
    BY <1>1, TypesAre DEF IInv, Intact, Right
  <2>2. ASSUME NEW p \in Places(archive)
        PROVE  Rec(p) = [src |-> Rec(p).src, dest |-> Rec(p).dest, len |-> Rec(p).len]
    <3>1. /\ p[1] \in 1 .. Len(archive.lists) /\ p[2] \in DOMAIN archive.lists[p[1]]
          /\ Rec(p) = archive.lists[p[1]][p[2]]
      BY <2>1, PlacesAre
    <3>2. Rec(p) \in Match
      BY <2>1, <3>1, ArchiveShape DEF Sound
    <3> QED
      BY <3>2 DEF Match
  <2> DEFINE R == {Rec(p) : p \in Waiting}
             OfEntry(e) == [src |-> e.src, dest |-> e.dest, len |-> e.len]
             OfSpilled(s) == [src |-> s.src, dest |-> s.dest, len |-> Len(s.data)]
  <2>3. HeapRecords = {OfEntry(e) : e \in Matches}
    <3>1. heap \ (Marks \cup {Barrier}) = Matches
      BY DEF Marks, Matches
    <3> QED
      BY <3>1 DEF HeapRecords
  <2>4. \A x : x \in DiskRecords <=> \E m \in Marks : \E k \in DOMAIN disk[m.src] : x = OfSpilled(disk[m.src][k])
    <3>1. \A m, s : s \in Range(disk[m.src]) <=> \E k \in DOMAIN disk[m.src] : s = disk[m.src][k]
      BY DEF Range
    <3>2. \A x : x \in DiskRecords <=> \E m \in Marks : \E s \in Range(disk[m.src]) : x = OfSpilled(s)
      BY DEF DiskRecords
    <3> HIDE DEF OfSpilled
    <3>3. ASSUME NEW m \in Marks, NEW k \in DOMAIN disk[m.src], NEW x, x = OfSpilled(disk[m.src][k])
          PROVE  x \in DiskRecords
      <4>1. disk[m.src][k] \in Range(disk[m.src])
        BY <3>1
      <4> QED
        BY <3>2, <3>3, <4>1
    <3>4. ASSUME NEW x \in DiskRecords
          PROVE  \E m \in Marks : \E k \in DOMAIN disk[m.src] : x = OfSpilled(disk[m.src][k])
      <4>1. PICK m \in Marks : \E s \in Range(disk[m.src]) : x = OfSpilled(s)
        BY <3>2
      <4>2. PICK s \in Range(disk[m.src]) : x = OfSpilled(s)
        BY <4>1
      <4>3. PICK k \in DOMAIN disk[m.src] : s = disk[m.src][k]
        BY <3>1
      <4> QED
        BY <4>2, <4>3
    <3> QED
      BY <3>3, <3>4
  <2>5. ASSUME NEW e \in Matches PROVE \E p \in Waiting : IsEntryOf(e, p) /\ OfEntry(e) = Rec(p)
    <3>1. PICK p \in Waiting : IsEntryOf(e, p)
      BY <2>1 DEF Pending, AllTrue
    <3>2. OfEntry(e) = Rec(p)
      BY <2>2, <3>1 DEF IsEntryOf, Waiting
    <3> QED
      BY <3>1, <3>2
  <2>6. ASSUME NEW m \in Marks, NEW k \in DOMAIN disk[m.src]
        PROVE  \E p \in Waiting : OfSpilled(disk[m.src][k]) = Rec(p)
    <3>1. PICK p \in Waiting : IsSpilled(disk[m.src][k], p)
      BY <2>1 DEF Pending, AllTrue
    <3>2. OfSpilled(disk[m.src][k]) = Rec(p)
      BY <2>2, <3>1 DEF IsSpilled, Waiting
    <3> QED
      BY <3>1, <3>2
  <2>7. ASSUME NEW p \in Waiting PROVE Rec(p) \in HeapRecords \cup DiskRecords
    <3>1. CASE HasEntry(Rec(p).dest)
      <4>1. PICK e \in Matches : e.dest = Rec(p).dest
        BY <3>1 DEF HasEntry
      <4>2. PICK q \in Waiting : OfEntry(e) = Rec(q)
        BY <2>5
      <4>3. q = p
        <5>1. Rec(q).dest = Rec(p).dest
          BY <4>1, <4>2
        <5> QED
          BY <2>1, <5>1, DestsDiffer DEF Waiting
      <4> QED
        BY <2>3, <4>2, <4>3
    <3>2. CASE HasSpilled(Rec(p).dest)
      <4>1. PICK m \in Marks : \E k \in DOMAIN disk[m.src] : disk[m.src][k].dest = Rec(p).dest
        BY <3>2 DEF HasSpilled
      <4>2. PICK k \in DOMAIN disk[m.src] : disk[m.src][k].dest = Rec(p).dest
        BY <4>1
      <4>3. PICK q \in Waiting : OfSpilled(disk[m.src][k]) = Rec(q)
        BY <2>6
      <4>4. q = p
        <5>1. Rec(q).dest = Rec(p).dest
          BY <4>2, <4>3
        <5> QED
          BY <2>1, <5>1, DestsDiffer DEF Waiting
      <4> QED
        BY <2>4, <4>3, <4>4
    <3> QED
      BY <2>1, <3>1, <3>2 DEF Pending, AllThere
  <2>8. HeapRecords \cup DiskRecords = R
    <3>1. \A x \in HeapRecords : x \in R
      BY <2>3, <2>5
    <3>2. \A x \in DiskRecords : x \in R
      BY <2>4, <2>6
    <3> QED
      BY <2>7, <3>1, <3>2
  <2>9. HeapRecords \cap DiskRecords = {}
    <3>1. ASSUME NEW e \in Matches, NEW m \in Marks, NEW k \in DOMAIN disk[m.src]
          PROVE  OfEntry(e) # OfSpilled(disk[m.src][k])
      <4>1. disk[m.src][k].dest # e.dest
        BY <2>1 DEF Pending, Once
      <4> QED
        BY <4>1
    <3> QED
      BY <2>3, <2>4, <3>1
  <2> HIDE DEF OfEntry, OfSpilled
  <2>10. Outstanding = R
    BY <1>1, <2>1, OutstandingIs DEF Waiting
  <2> QED
    BY <2>8, <2>9, <2>10
<1> QED
  BY <1>1, Invariance, IntactInvariant, PTL

-----------------------------------------------------------------------------
(* The end of the input, and the output. *)

\* The original, unless an index tells it where the archive ends, accepts the end of the
\* input only when the heap is empty but for the barrier (srep.cpp:1026).
LooksAtHeap == opts.program = "cpp" /\ ~ archive.index

\* Decoding ends only after the last block that is there, with nothing left over unless
\* the archive is damaged or cut and the program does not look at the heap.
Ended ==
    /\ block <= archive.present + 1
    /\ archive.version = "io" => heap = {Barrier}
    /\ pc = "done" => block > archive.present
    /\ pc = "done" /\ (LooksAtHeap \/ Undamaged) => heap = {Barrier}

LEMMA InitEnded == Init => Ended
<1> SUFFICES ASSUME Init PROVE Ended
  OBVIOUS
<1>1. pc = "read" /\ block = 1 /\ heap = {Barrier} /\ archive.present \in Nat
  BY InitIs, TypesAre DEF Init, IInv
<1> QED
  BY <1>1 DEF Ended

LEMMA IoListIs ==
    ASSUME TypeOK, archive.version = "io", block \in 1 .. Len(archive.lists)
    PROVE  /\ Len(MatchList) \in Nat
           /\ \A k \in 1 .. Len(MatchList) : MatchList[k] \in IoRecord
<1>1. archive.lists \in Seq(Seq(IoRecord))
  BY DEF TypeOK, IsArchive, IoRecord
<1>2. MatchList \in Seq(IoRecord)
  BY <1>1 DEF MatchList
<1> QED
  BY <1>2

\* In an I/O-LZ archive there is no phase 2 and nothing to save.
LEMMA NoSaving ==
    ASSUME IInv, archive.version = "io"
    PROVE  pc # "process" /\ ~ ToSave
<1>1. Position
  BY DEF IInv
<1>2. ASSUME ToSave PROVE FALSE
  <2>1. cur <= Len(MatchList) /\ cur > Len(MatchList) /\ cur \in Nat
    BY <1>1, <1>2, TypesAre DEF Position, ToSave, IInv
  <2>2. Len(MatchList) \in Nat
    <3>1. block <= archive.present /\ TypeOK
      BY <1>1, <1>2 DEF Position, InABlock, ToSave, IInv
    <3>2. block \in DOMAIN archive.lists
      BY <3>1, Inside, TypesAre, ArchiveShape
    <3> QED
      BY <3>1, <3>2, IoListIs, Inside
  <2> DEFINE x == Len(MatchList)
  <2>3. cur <= x /\ cur > x /\ cur \in Nat /\ x \in Nat
    BY <2>1, <2>2
  <2> HIDE DEF x
  <2> QED
    BY <2>3
<1> QED
  BY <1>1, <1>2 DEF Position

\* Nor does any step touch the heap.
LEMMA IoKeepsHeap ==
    ASSUME IInv, [Next]_vars, archive.version = "io"
    PROVE  heap' = heap
<1>1. pc # "process" /\ ~ ToSave
  BY NoSaving
<1> QED
  BY <1>1 DEF Next, EndOfInput, IoBlock, ReadBlock, TakeMatch, SpillToRestore, RestoreMark, CopyTail,
         SkipDone, RememberLong, SpillToSave, SaveMatch, MustSave, WriteBlock, SpinOn, Terminated, vars,
         heapVars

LEMMA EndedKept ==
    ASSUME IInv, Intact, Ended, [Next]_vars
    PROVE  Ended'
<1>1. archive' = archive /\ opts' = opts /\ Undamaged' = Undamaged /\ LooksAtHeap' = LooksAtHeap
  BY JobStays DEF Undamaged, LooksAtHeap
<1>2. /\ block \in Nat /\ archive.present \in Nat /\ block <= archive.present + 1
      /\ HeapShape /\ IsArchive(archive)
  BY TypesAre DEF IInv, Ended
<1>3. archive.version = "io" => heap' = {Barrier}
  BY IoKeepsHeap DEF Ended
<1>4. block' <= archive.present + 1 /\ (pc' # "done" \/ UNCHANGED <<pc, block, heap>> \/ EndOfInput)
  <2>1. CASE WriteBlock
    <3>1. block <= archive.present /\ (block' = block \/ block' = block + 1) /\ pc' # "done"
      BY <2>1 DEF WriteBlock, IInv, Position, InABlock
    <3> QED
      BY <1>2, <3>1
  <2>2. CASE SaveToDisk /\ (SpillToRestore \/ SpillToSave)
    <3>1. block' = block /\ (pc = "process" \/ pc = "save")
      BY <2>2 DEF SpillToRestore, SpillToSave, MustSave, ToSave
    <3>2. pc' # "done"
      BY <2>2, <3>1 DEF SaveToDisk, WhenStuck
    <3> QED
      BY <1>2, <3>1, <3>2
  <2>3. CASE EndOfInput
    BY <1>2, <2>3 DEF EndOfInput
  <2>4. CASE IoBlock \/ ReadBlock \/ TakeMatch \/ RestoreMark \/ CopyTail \/ SkipDone
             \/ RememberLong \/ SaveMatch
    BY <1>2, <2>4 DEF IoBlock, ReadBlock, TakeMatch, RestoreMark, CopyTail, SkipDone, RememberLong,
         SaveMatch, MustSave, ToSave
  <2>5. CASE SpinOn \/ Terminated \/ UNCHANGED vars
    BY <1>2, <2>5 DEF SpinOn, Terminated, vars, heapVars
  <2> QED
    BY <2>1, <2>2, <2>3, <2>4, <2>5 DEF Next, SpillToRestore, SpillToSave
<1>5. CASE pc' # "done" \/ UNCHANGED <<pc, block, heap>>
  BY <1>1, <1>3, <1>4, <1>5 DEF Ended
<1>6. CASE EndOfInput
  <2>1. /\ pc = "read" /\ ~ MoreBlocks /\ pc' = (IF EndAccepted THEN "done" ELSE "broken")
        /\ block' = block /\ heap' = heap
    BY <1>6 DEF EndOfInput, heapVars
  <2>2. block > archive.present
    BY <1>2, <2>1 DEF MoreBlocks
  <2>3. ASSUME pc' = "done", LooksAtHeap PROVE heap = {Barrier}
    BY <1>2, <2>1, <2>3, OnlyTheBarrier DEF EndAccepted, LooksAtHeap
  <2>4. ASSUME Undamaged PROVE heap = {Barrier}
    <3>1. CASE archive.version = "io"
      BY <3>1 DEF Ended
    <3>2. CASE archive.version = "future"
      <4>1. Sound /\ archive.present = Len(archive.lists)
        BY <2>4, <3>2 DEF Sound, Undamaged
      <4>2. Right
        BY <2>1, <4>1 DEF Intact, Running
      <4> QED
        BY <1>6, <4>1, <4>2, EndOfInputRight
    <3> QED
      BY <1>2, <3>1, <3>2 DEF IsArchive
  <2> QED
    BY <1>1, <1>3, <1>4, <2>1, <2>2, <2>3, <2>4 DEF Ended
<1> QED
  BY <1>4, <1>5, <1>6

LEMMA AlwaysEnded == Spec => []Ended
<1>1. Init => Ended
  BY InitEnded
<1>2. IInv /\ Intact /\ Ended /\ [Next]_vars => Ended'
  BY EndedKept
<1> QED
  BY <1>1, <1>2, Invariance, IntactInvariant, PTL DEF Spec

\* A decoder that succeeded has consumed everything, whatever the archive, when it is in
\* the I/O layout, or in version 3 and read by the original, which looks at the heap when
\* the input ends (srep.cpp:1026). The port does not look, nor does the original in
\* version 4 (srep.cpp:1050): with those, if the archive is undamaged and all there.
THEOREM FinishesClean ==
    Spec => [](archive.version = "io" \/ LooksAtHeap \/ Undamaged => CleanFinish)
<1>1. ASSUME IInv, Ended, archive.version = "io" \/ LooksAtHeap \/ Undamaged
      PROVE  CleanFinish
  <2> SUFFICES ASSUME pc = "done" PROVE heap = {Barrier} /\ DOMAIN mm = {} /\ Marks = {}
    BY DEF CleanFinish
  <2>1. heap = {Barrier}
    BY <1>1 DEF Ended
  <2>2. DOMAIN mm = {}
    <3>1. ASSUME NEW i \in DOMAIN mm PROVE FALSE
      <4>1. i # 0 /\ \E e \in heap : e.index = i
        BY <1>1, TypesAre DEF IInv, Memory
      <4> QED
        BY <2>1, <4>1, BarrierIs
    <3> QED
      BY <3>1
  <2>3. Marks = {}
    BY <2>1, BarrierIs DEF Marks
  <2> QED
    BY <2>1, <2>2, <2>3
<1> QED
  BY <1>1, Invariance, AlwaysEnded, PTL

\* For every intact archive, cut or not, lz_matches.erase(*lz) (decompress.cpp:254), which
\* erases every entry with the dest of *lz, takes out no other entry, unless the loop of
\* save_to_disk has wrapped round: each record that waits is in the heap or in one VM
\* block, once, and a marking point has the dest of a record of its block.
THEOREM ErasesNothingElse ==
    Spec => [](archive.intact /\ ~ opts.wraps => ErasesOne)
<1>1. ASSUME IInv, Intact, Ended, archive.intact, ~ opts.wraps
      PROVE  ErasesOne
  <2> SUFFICES ASSUME pc \in {"process", "save"}, NEW e \in heap, NEW f \in heap,
                      e.dest = f.dest
               PROVE  e = f
    BY DEF ErasesOne
  <2>1. IsArchive(archive)
    BY <1>1, TypesAre DEF IInv
  <2>2. CASE archive.version = "io"
    BY <1>1, <2>2 DEF Ended
  <2>3. CASE archive.version = "future"
    <3>1. Sound /\ ~ Stuck /\ Pending /\ MarksDue
      BY <1>1, <2>3 DEF Sound, Intact, Right, Running, Stuck, IInv
    <3>2. Barrier.dest = MaxOffset
      BY BarrierIs
    <3>3. ASSUME NEW p \in Places(archive) PROVE Rec(p).dest # MaxOffset
      <4> DEFINE d == Rec(p).dest
                 n == Len(archive.original)
      <4>1. d \in Nat /\ d < n /\ n \in Nat /\ n < MaxOffset /\ MaxOffset \in Nat
        BY <1>1, <3>1, DestInside
      <4> HIDE DEF d, n
      <4>2. d # MaxOffset
        BY <4>1
      <4> QED
        BY <4>2 DEF d
    <3>4. ASSUME NEW g \in Matches PROVE g.dest # MaxOffset
      BY <3>1, <3>3 DEF Pending, AllTrue, Waiting, IsEntryOf
    <3>5. ASSUME NEW m \in Marks
          PROVE  /\ m.dest # MaxOffset
                 /\ \E k \in DOMAIN disk[m.src] : disk[m.src][k].dest = m.dest
      <4>1. PICK k \in DOMAIN disk[m.src] : disk[m.src][k].dest = m.dest
        BY <1>1, <3>1 DEF MarksDue
      <4>2. \E p \in Waiting : IsSpilled(disk[m.src][k], p)
        BY <3>1, <4>1 DEF Pending, AllTrue
      <4> QED
        BY <3>3, <4>1, <4>2 DEF Waiting, IsSpilled
    <3>6. \A g \in heap : g = Barrier \/ g \in Marks \/ g \in Matches
      BY DEF Marks, Matches
    <3>7. \A g, h \in Matches : g.dest = h.dest => g = h
      BY <3>1 DEF Pending, Once
    <3>8. \A m, n \in Marks : m.dest = n.dest => m = n
      BY <3>1, <3>5 DEF Pending, Once
    <3>9. \A g \in Matches, m \in Marks : g.dest # m.dest
      BY <3>1, <3>5 DEF Pending, Once
    <3> QED
      BY <3>2, <3>4, <3>5, <3>6, <3>7, <3>8, <3>9
  <2> QED
    BY <2>1, <2>2, <2>3 DEF IsArchive
<1> QED
  BY <1>1, Invariance, IntactInvariant, AlwaysEnded, PTL

-----------------------------------------------------------------------------
(* Blocks of the I/O-LZ layout. *)

\* The match of record k of the current block.
IoRec(k) == IoRecordAt(archive, block, k)

\* Where the records end, how many literals they stand for, and what they mean.
ArePlaces(place) ==
    /\ place[0].end = BlockStart /\ place[0].literals = 0
    /\ \A k \in 0 .. Len(MatchList) : place[k].end \in Nat /\ place[k].literals \in Nat
    /\ \A k \in 1 .. Len(MatchList) :
          LET m == IoRec(k)
          IN /\ m = DecodeLzMatch(FALSE, archive.round, archive.baseLen, place[k - 1].end, MatchList[k])
             /\ m.litLen \in Nat /\ m.len \in Nat /\ m.src \in Nat
             /\ m.dest = place[k - 1].end + m.litLen
             /\ place[k].end = m.dest + m.len
             /\ place[k].literals = place[k - 1].literals + m.litLen

LEMMA IoPlacesAre ==
    ASSUME TypeOK, archive.version = "io", block \in 1 .. Len(archive.lists)
    PROVE  ArePlaces(IoPlaces(archive, block))
<1> DEFINE n == Len(MatchList)
           S == [end : Nat, literals : Nat]
           base == [end |-> BlockStart, literals |-> 0]
           at(v, k) == DecodeLzMatch(FALSE, archive.round, archive.baseLen, v.end, MatchList[k])
           next(v, k) == [end |-> at(v, k).dest + at(v, k).len, literals |-> v.literals + at(v, k).litLen]
           step == [k \in 1 .. n |-> [v \in S |-> next(v, k)]]
           Solves(place) == place = [k \in 0 .. n |-> IF k = 0 THEN base ELSE next(place[k - 1], k)]
<1>1. n \in Nat /\ \A k \in 1 .. n : MatchList[k] \in IoRecord
  BY IoListIs
<1>2. IoPlaces(archive, block) = CHOOSE place : Solves(place)
  BY DEF IoPlaces, MatchList, BlockStart
<1>3. base \in S
  <2>1. BlockStart \in Nat
    <3>1. IsArchive(archive)
      BY TypesAre
    <3> QED
      BY <3>1, ArchiveShape DEF BlockStart
  <2> QED
    BY <2>1
<1>4. ASSUME NEW v \in S, NEW k \in 1 .. n
      PROVE  /\ at(v, k).litLen \in Nat /\ at(v, k).len \in Nat /\ at(v, k).src \in Nat
             /\ at(v, k).dest = v.end + at(v, k).litLen
             /\ next(v, k) \in S
             /\ next(v, k).end = at(v, k).dest + at(v, k).len
             /\ next(v, k).literals = v.literals + at(v, k).litLen
  <2> DEFINE r == MatchList[k]
             pos == v.end
             m == DecodeLzMatch(FALSE, archive.round, archive.baseLen, pos, r)
  <2>1. r \in IoRecord /\ pos \in Nat /\ v.literals \in Nat
    BY <1>1
  <2> HIDE DEF r, pos
  <2>2. m.litLen \in Nat /\ m.len \in Nat /\ m.src \in Nat /\ m.dest = pos + m.litLen
    BY <2>1, IoFieldsAre
  <2>3. at(v, k) = m
    BY DEF r, pos
  <2> HIDE DEF m, at
  <2> DEFINE e == m.dest + m.len
             l == v.literals + m.litLen
  <2>4. e \in Nat /\ l \in Nat
    <3> DEFINE d == m.dest
               a == m.litLen
               b == m.len
               c == v.literals
    <3>1. a \in Nat /\ b \in Nat /\ d = pos + a /\ pos \in Nat /\ c \in Nat
      BY <2>1, <2>2
    <3> HIDE DEF a, b, c, d
    <3>2. d + b \in Nat /\ c + a \in Nat
      BY ONLY <3>1
    <3> QED
      BY <3>2 DEF a, b, c, d
  <2>5. next(v, k) = [end |-> e, literals |-> l]
    BY <2>3
  <2> HIDE DEF e, l, next
  <2>6. next(v, k) \in S /\ next(v, k).end = e /\ next(v, k).literals = l
    BY <2>4, <2>5
  <2> QED
    BY <2>2, <2>3, <2>6 DEF pos, e, l
<1> HIDE DEF base, S, n, next, at
<1>5. step \in [1 .. n -> [S -> S]] /\ \A k \in 1 .. n : \A v \in S : step[k][v] = next(v, k)
  BY <1>4
<1> HIDE DEF step
<1>6. PICK f : IsRecursion(f, step, n, S, base)
  <2>1. AreSteps(step, n, S, base)
    BY <1>1, <1>3, <1>5 DEF AreSteps
  <2> QED
    BY <2>1, RecursionExists
<1>7. f \in [0 .. n -> S] /\ f[0] = base /\ \A k \in 1 .. n : f[k] = next(f[k - 1], k)
  <2>1. f \in [0 .. n -> S] /\ f[0] = base /\ \A k \in 1 .. n : f[k] = step[k][f[k - 1]]
    BY <1>6 DEF IsRecursion
  <2>2. \A k \in 1 .. n : k - 1 \in 0 .. n
    BY <1>1
  <2> QED
    BY <1>5, <2>1, <2>2
<1>8. Solves(f)
  <2> DEFINE g == [k \in 0 .. n |-> IF k = 0 THEN base ELSE next(f[k - 1], k)]
  <2>1. ASSUME NEW k \in 0 .. n PROVE f[k] = g[k]
    <3>1. k = 0 \/ k \in 1 .. n
      BY <1>1
    <3> QED
      BY <1>7, <3>1
  <2>2. f = g
    BY <1>7, <2>1
  <2> QED
    BY <2>2
<1>9. ASSUME NEW place, Solves(place), place = IoPlaces(archive, block) PROVE ArePlaces(place)
  <2>1. place[0] = base /\ \A k \in 1 .. n : place[k] = next(place[k - 1], k)
    BY <1>1, <1>9
  <2> DEFINE T == {k \in 0 .. n : place[k] \in S}
  <2>2. 0 \in T
    BY <1>1, <1>3, <2>1
  <2>3. ASSUME NEW k \in 0 .. n - 1, k \in T PROVE k + 1 \in T
    <3>1. k + 1 \in 1 .. n /\ k + 1 \in 0 .. n /\ (k + 1) - 1 = k
      BY <1>1
    <3>2. place[k] \in S
      BY <2>3
    <3>3. place[k + 1] = next(place[k], k + 1)
      BY <2>1, <3>1
    <3> QED
      BY <1>4, <3>1, <3>2, <3>3
  <2> HIDE DEF T, Solves
  <2>4. 0 .. n \subseteq T
    BY <1>1, <2>2, <2>3, InductionUpTo
  <2>5. \A k \in 0 .. n : place[k] \in S
    BY <2>4 DEF T
  <2>6. \A k \in 0 .. n : place[k].end \in Nat /\ place[k].literals \in Nat
    BY <2>5 DEF S
  <2>7. place[0].end = BlockStart /\ place[0].literals = 0
    BY <2>1 DEF base
  <2>8. ASSUME NEW k \in 1 .. n
        PROVE  LET m == IoRec(k)
               IN /\ m = DecodeLzMatch(FALSE, archive.round, archive.baseLen, place[k - 1].end, MatchList[k])
                  /\ m.litLen \in Nat /\ m.len \in Nat /\ m.src \in Nat
                  /\ m.dest = place[k - 1].end + m.litLen
                  /\ place[k].end = m.dest + m.len
                  /\ place[k].literals = place[k - 1].literals + m.litLen
    <3> DEFINE j == k - 1
               v == place[j]
    <3>1. j \in 0 .. n
      BY <1>1
    <3>2. v \in S /\ place[k] = next(v, k)
      BY <2>1, <2>5, <3>1
    <3>3. IoRec(k) = at(v, k) /\ at(v, k) = DecodeLzMatch(FALSE, archive.round, archive.baseLen, v.end, MatchList[k])
      BY <1>9 DEF IoRec, IoRecordAt, MatchList, at
    <3> DEFINE m == IoRec(k)
    <3> HIDE DEF v, m
    <3>4. /\ m.litLen \in Nat /\ m.len \in Nat /\ m.src \in Nat
          /\ m.dest = v.end + m.litLen
          /\ place[k].end = m.dest + m.len
          /\ place[k].literals = v.literals + m.litLen
      BY <1>4, <3>2, <3>3 DEF m
    <3> QED
      BY <3>3, <3>4 DEF m, v
  <2> QED
    BY <2>6, <2>7, <2>8 DEF ArePlaces, n
<1> DEFINE p == IoPlaces(archive, block)
<1>10. Solves(p)
  BY <1>2, <1>8
<1> HIDE DEF Solves
<1> QED
  BY <1>9, <1>10

\* What an intact archive says of the current block.
MeansBlock(place) ==
    /\ \A k \in 1 .. Len(MatchList) :
          /\ IsCopy(IoRec(k).src, IoRec(k).dest, IoRec(k).len)
          /\ IoRec(k).dest + IoRec(k).len <= BlockEnd
          /\ \A x \in 1 .. IoRec(k).litLen :
                Literals[place[k - 1].literals + x] = archive.original[place[k - 1].end + x]
    /\ \A k \in 0 .. Len(MatchList) :
          /\ BlockStart <= place[k].end /\ place[k].end <= BlockEnd
          /\ place[k].literals <= Len(Literals)
    /\ Len(Literals) - place[Len(MatchList)].literals = BlockEnd - place[Len(MatchList)].end
    /\ \A x \in 1 .. BlockEnd - place[Len(MatchList)].end :
          Literals[place[Len(MatchList)].literals + x] = archive.original[place[Len(MatchList)].end + x]

LEMMA BlockMeans ==
    ASSUME TypeOK, archive.version = "io", archive.intact, block \in 1 .. Len(archive.lists),
           NEW place, place = IoPlaces(archive, block)
    PROVE  ArePlaces(place) /\ MeansBlock(place)
<1> DEFINE n == Len(MatchList)
<1>1. IsArchive(archive) /\ IoMeansOriginal(archive) /\ DOMAIN archive.lists = 1 .. Len(archive.lists)
  BY TypesAre, ArchiveShape DEF IsArchive
<1>2. /\ BlockStart \in Nat /\ BlockEnd \in Nat /\ BlockStart < BlockEnd
      /\ BlockEnd <= Len(archive.original) /\ Len(archive.original) \in Nat
      /\ Literals \in Seq(Byte) /\ Len(Literals) \in Nat
  BY <1>1, ArchiveShape DEF BlockStart, BlockEnd, Literals
<1>3. n \in Nat
  BY IoListIs
<1>4. ArePlaces(place)
  BY IoPlacesAre
<1> DEFINE copyAfter(k) == IF k < n THEN IoRec(k + 1).dest ELSE BlockEnd
<1>5. /\ \A k \in 1 .. n :
            /\ IoRec(k).src < IoRec(k).dest /\ IoRec(k).dest + IoRec(k).len <= BlockEnd
            /\ \A x \in 1 .. IoRec(k).len :
                  archive.original[IoRec(k).dest + x] = archive.original[IoRec(k).src + x]
      /\ Len(Literals) = place[n].literals + (BlockEnd - place[n].end)
      /\ \A k \in 0 .. n : \A x \in 1 .. copyAfter(k) - place[k].end :
            Literals[place[k].literals + x] = archive.original[place[k].end + x]
  <2> DEFINE count == Len(archive.lists[block])
             of(k) == IoRecordAt(archive, block, k)
             p == IoPlaces(archive, block)
             after(k) == IF k < count THEN of(k + 1).dest ELSE EndOf(archive, block)
             lits == archive.literals[block]
             stop == EndOf(archive, block)
  <2>1. block \in DOMAIN archive.lists
    BY <1>1
  <2>2. /\ \A k \in 1 .. count :
              /\ of(k).src < of(k).dest /\ of(k).dest + of(k).len <= stop
              /\ \A x \in 1 .. of(k).len :
                    archive.original[of(k).dest + x] = archive.original[of(k).src + x]
        /\ Len(lits) = p[count].literals + (stop - p[count].end)
        /\ \A k \in 0 .. count : \A x \in 1 .. after(k) - p[k].end :
              lits[p[k].literals + x] = archive.original[p[k].end + x]
    BY <1>1, <2>1, Zenon DEF IoMeansOriginal
  <2>3. /\ count = n /\ p = place /\ lits = Literals /\ stop = BlockEnd
        /\ \A k : of(k) = IoRec(k)
    BY DEF IoRec, MatchList, Literals, BlockEnd
  <2>4. \A k : after(k) = copyAfter(k)
    BY <2>3, Zenon
  <2> HIDE DEF count, of, p, after, lits, stop, n, copyAfter
  <2> QED
    BY <2>2, <2>3, <2>4
<1> HIDE DEF n, copyAfter
<1>6. /\ place[0].end = BlockStart /\ place[0].literals = 0
      /\ \A k \in 0 .. n : place[k].end \in Nat /\ place[k].literals \in Nat
      /\ \A k \in 1 .. n :
            /\ IoRec(k).litLen \in Nat /\ IoRec(k).len \in Nat /\ IoRec(k).src \in Nat
            /\ IoRec(k).dest = place[k - 1].end + IoRec(k).litLen
            /\ place[k].end = IoRec(k).dest + IoRec(k).len
            /\ place[k].literals = place[k - 1].literals + IoRec(k).litLen
  BY <1>4 DEF ArePlaces, n
<1>7. ASSUME NEW k \in 0 .. n PROVE BlockStart <= place[k].end /\ place[k].end <= BlockEnd
  <2> DEFINE T == {j \in 0 .. n : BlockStart <= place[j].end}
  <2>1. 0 \in T
    BY <1>2, <1>3, <1>6
  <2>2. ASSUME NEW j \in 0 .. n - 1, j \in T PROVE j + 1 \in T
    <3> DEFINE i == j + 1
    <3>1. i \in 1 .. n /\ i \in 0 .. n /\ i - 1 = j /\ j \in 0 .. n
      BY <1>3
    <3> HIDE DEF i
    <3> DEFINE a == IoRec(i).litLen
               b == IoRec(i).len
               e == place[j].end
               f == place[i].end
    <3>2. a \in Nat /\ b \in Nat /\ e \in Nat /\ f \in Nat /\ f = e + a + b /\ BlockStart <= e
      BY <1>6, <2>2, <3>1
    <3> HIDE DEF a, b, e, f
    <3>3. BlockStart <= f
      BY <1>2, <3>2
    <3> QED
      BY <3>1, <3>3 DEF i, f
  <2> HIDE DEF T
  <2>3. 0 .. n \subseteq T
    BY <1>3, <2>1, <2>2, InductionUpTo
  <2>4. BlockStart <= place[k].end
    BY <2>3 DEF T
  <2>5. place[k].end <= BlockEnd
    <3>1. CASE k = 0
      BY <1>2, <1>6, <3>1
    <3>2. CASE k # 0
      <4>1. k \in 1 .. n
        BY <1>3, <3>2
      <4> QED
        BY <1>5, <1>6, <4>1
    <3> QED
      BY <3>1, <3>2
  <2> QED
    BY <2>4, <2>5
<1>8. ASSUME NEW k \in 0 .. n PROVE place[k].literals <= Len(Literals)
  <2> DEFINE v == [j \in 1 .. n |-> IoRec(j).litLen]
             c == [j \in 0 .. n |-> place[j].literals]
  <2>1. v \in [1 .. n -> Nat] /\ c \in [0 .. n -> Nat]
    BY <1>6
  <2>2. c[0] = 0 /\ \A j \in 1 .. n : c[j] = c[j - 1] + v[j]
    <3>1. 0 \in 0 .. n /\ \A j \in 1 .. n : j \in 0 .. n /\ j - 1 \in 0 .. n
      BY <1>3
    <3> QED
      BY <1>6, <3>1
  <2>3. AreSums(c, v, n)
    BY <2>1, <2>2 DEF AreSums
  <2>4. n \in 0 .. n /\ k <= n
    BY <1>3
  <2>5. c[k] = place[k].literals /\ c[n] = place[n].literals
    BY <2>4
  <2> HIDE DEF v, c
  <2>6. c[k] <= c[n]
    BY <1>3, <2>1, <2>3, <2>4, SumsGrow
  <2> DEFINE l == Len(Literals)
             p == place[n].literals
             q == place[k].literals
             e == place[n].end
  <2>7. l \in Nat /\ p \in Nat /\ q \in Nat /\ e \in Nat /\ l = p + (BlockEnd - e) /\ e <= BlockEnd /\ q <= p
    BY <1>2, <1>5, <1>6, <1>7, <2>4, <2>5, <2>6
  <2> HIDE DEF l, p, q, e
  <2>8. q <= l
    BY <1>2, <2>7
  <2> QED
    BY <2>8 DEF l, q
<1>9. ASSUME NEW k \in 1 .. n
      PROVE  /\ IsCopy(IoRec(k).src, IoRec(k).dest, IoRec(k).len)
             /\ IoRec(k).dest + IoRec(k).len <= BlockEnd
             /\ \A x \in 1 .. IoRec(k).litLen :
                   Literals[place[k - 1].literals + x] = archive.original[place[k - 1].end + x]
  <2> DEFINE j == k - 1
             a == IoRec(k).litLen
             e == place[j].end
  <2>1. j \in 0 .. n /\ j < n /\ j + 1 = k
    BY <1>3
  <2>2. a \in Nat /\ e \in Nat /\ copyAfter(j) = e + a
    BY <1>6, <2>1 DEF copyAfter
  <2>3. IoRec(k).dest + IoRec(k).len <= Len(archive.original)
    <3> DEFINE d == IoRec(k).dest
               b == IoRec(k).len
               l == Len(archive.original)
    <3>1. d = e + a /\ b \in Nat /\ d + b <= BlockEnd /\ BlockEnd <= l /\ l \in Nat /\ BlockEnd \in Nat
      BY <1>2, <1>5, <1>6
    <3> HIDE DEF a, b, d, e, l
    <3>2. a \in Nat /\ e \in Nat
      BY <2>2
    <3>3. d + b <= l
      BY ONLY <3>1, <3>2
    <3> QED
      BY <3>3 DEF d, b, l
  <2>4. IsCopy(IoRec(k).src, IoRec(k).dest, IoRec(k).len)
    BY <1>5, <2>3 DEF IsCopy
  <2>5. \A x \in 1 .. copyAfter(j) - e : Literals[place[j].literals + x] = archive.original[e + x]
    BY <1>5, <2>1
  <2> HIDE DEF j, a, e
  <2>6. copyAfter(j) - e = a
    BY <2>2
  <2>7. \A x \in 1 .. a : Literals[place[j].literals + x] = archive.original[e + x]
    BY <2>5, <2>6
  <2> QED
    BY <1>5, <2>4, <2>7 DEF j, a, e
<1>10. /\ Len(Literals) - place[n].literals = BlockEnd - place[n].end
       /\ \A x \in 1 .. BlockEnd - place[n].end :
             Literals[place[n].literals + x] = archive.original[place[n].end + x]
  <2>1. n \in 0 .. n /\ copyAfter(n) = BlockEnd
    BY <1>3 DEF copyAfter
  <2> DEFINE p == place[n].literals
             e == place[n].end
             l == Len(Literals)
  <2>2. p \in Nat /\ e \in Nat /\ l = p + (BlockEnd - e) /\ l \in Nat
    BY <1>2, <1>5, <1>6, <2>1
  <2> HIDE DEF p, e, l
  <2>3. l - p = BlockEnd - e
    BY <1>2, <2>2
  <2> QED
    BY <1>5, <2>1, <2>3 DEF p, e, l
<1> QED
  BY <1>4, <1>7, <1>8, <1>9, <1>10 DEF MeansBlock, n

\* The first bytes of a match whose source is at src may be in the output, which ends at start.
BytesBefore(src, len, start) == IF SourceBefore(src) THEN Min({len, start - src}) ELSE 0

LEMMA BytesBeforeAre ==
    ASSUME NEW start \in Nat, start = BlockStart, NEW src \in Nat, NEW len \in Nat,
           NEW bytes, bytes = BytesBefore(src, len, start)
    PROVE  /\ bytes \in Nat /\ bytes <= len
           /\ bytes = 0 \/ src + bytes <= start
           /\ bytes = len \/ start <= src + bytes
<1>1. CASE src < start
  <2>1. bytes = Min({len, start - src})
    BY <1>1 DEF BytesBefore, SourceBefore
  <2>2. len \in Int /\ start - src \in Int
    OBVIOUS
  <2>3. bytes = IF len <= start - src THEN len ELSE start - src
    BY <2>1, <2>2, LeastOfTwo
  <2> QED
    BY <1>1, <2>3
<1>2. CASE ~ (src < start)
  BY <1>2 DEF BytesBefore, SourceBefore
<1> QED
  BY <1>1, <1>2

\* They are right if what is in the output is.
LEMMA BytesFromOutput ==
    ASSUME archive.original \in Seq(Byte), NEW start \in Nat, start <= Len(archive.original),
           NEW src \in Nat, NEW dest \in Nat, NEW bytes \in Nat, IsCopy(src, dest, bytes),
           bytes = 0 \/ src + bytes <= start
    PROVE  SubSeq(Slice(0, start), src + 1, src + bytes) = Slice(dest, bytes)
<1> DEFINE s == Slice(0, start)
           old == SubSeq(s, src + 1, src + bytes)
           l == Len(archive.original)
<1>1. l \in Nat /\ start <= l /\ dest + bytes <= l
  BY DEF IsCopy
<1>2. s \in Seq(Byte)
  <2>1. 0 \in Nat /\ 0 + start <= Len(archive.original)
    BY <1>1
  <2> HIDE DEF s
  <2>2. HasBytes(s, 0, start)
    BY <2>1, SliceIs DEF s
  <2> QED
    BY <2>2 DEF HasBytes
<1>3. CASE bytes = 0
  <2> HIDE DEF s
  <2>1. src + bytes < src + 1
    BY <1>3
  <2>2. old = <<>>
    BY <1>2, <1>3, <2>1
  <2>3. HasBytes(<<>>, dest, 0) /\ dest + 0 <= Len(archive.original)
    BY <1>1, <1>3 DEF HasBytes
  <2>4. <<>> = Slice(dest, 0)
    BY <2>3, IsSlice
  <2> HIDE DEF old
  <2>5. old = Slice(dest, bytes)
    BY <1>3, <2>2, <2>4
  <2> QED
    BY <2>5 DEF old, s
<1>4. CASE bytes # 0
  <2> DEFINE z == 0
  <2>1. IsCopy(z + src, dest, bytes) /\ src + bytes <= start /\ z + start <= l /\ z \in Nat
    BY <1>1, <1>4
  <2>2. s = Slice(z, start)
    OBVIOUS
  <2> HIDE DEF s, z
  <2>3. SubSeq(s, src + 1, src + bytes) = Slice(dest, bytes)
    BY <2>1, <2>2, PartAt
  <2> QED
    BY <2>3 DEF s
<1> QED
  BY <1>3, <1>4

\* The rest of it is copied within the block.
LEMMA RestOfCopy ==
    ASSUME archive.original \in Seq(Byte), NEW start \in Nat,
           NEW from \in Nat, NEW end \in Nat, NEW rest \in Nat, start <= end,
           IsCopy(from, end, rest), rest = 0 \/ start <= from
    PROVE  OverlapCopy(Slice(start, end - start), from - start, rest) = Slice(end, rest)
<1> DEFINE s == Slice(start, end - start)
           c == OverlapCopy(s, from - start, rest)
           l == Len(archive.original)
<1>1. l \in Nat /\ end + rest <= l
  BY DEF IsCopy
<1>2. CASE rest = 0
  <2>1. c = [i \in 1 .. rest |-> s[from - start + 1 + ((i - 1) % (Len(s) - (from - start)))]]
    BY DEF OverlapCopy
  <2> HIDE DEF c, s
  <2>2. c = <<>>
    BY <1>2, <2>1
  <2>3. HasBytes(<<>>, end, 0) /\ end + 0 <= Len(archive.original)
    BY <1>1, <1>2 DEF HasBytes
  <2>4. <<>> = Slice(end, 0)
    BY <2>3, IsSlice
  <2>5. c = Slice(end, rest)
    BY <1>2, <2>2, <2>4
  <2> QED
    BY <2>5 DEF c, s
<1>3. CASE rest # 0
  <2>1. start <= from /\ s = Slice(start, end - start)
    BY <1>3
  <2> HIDE DEF s
  <2>2. OverlapCopy(s, from - start, rest) = Slice(end, rest)
    BY <2>1, CopyAt
  <2> QED
    BY <2>2 DEF s
<1> QED
  BY <1>2, <1>3

LEMMA CopyParts ==
    ASSUME NEW src \in Nat, NEW dest \in Nat, NEW len \in Nat, NEW bytes \in Nat,
           IsCopy(src, dest, len), bytes <= len, Len(archive.original) \in Nat
    PROVE  IsCopy(src, dest, bytes) /\ IsCopy(src + bytes, dest + bytes, len - bytes)
<1> DEFINE o == archive.original
           l == Len(archive.original)
<1>1. src < dest /\ dest + len <= l /\ l \in Nat /\ \A x \in 1 .. len : o[dest + x] = o[src + x]
  BY DEF IsCopy
<1> HIDE DEF o, l
<1>2. \A x \in 1 .. bytes : o[dest + x] = o[src + x]
  BY <1>1
<1>3. ASSUME NEW x \in 1 .. len - bytes PROVE o[dest + bytes + x] = o[src + bytes + x]
  <2> DEFINE y == bytes + x
  <2>1. y \in 1 .. len /\ dest + bytes + x = dest + y /\ src + bytes + x = src + y
    OBVIOUS
  <2> HIDE DEF y
  <2> QED
    BY <1>1, <2>1
<1>4. src + bytes < dest + bytes /\ dest + bytes + (len - bytes) <= l /\ dest + bytes <= l
  BY <1>1
<1> QED
  BY <1>1, <1>2, <1>3, <1>4 DEF IsCopy, o, l

\* A slice that ends where another starts.
LEMMA SlicesMeet ==
    ASSUME archive.original \in Seq(Byte), NEW from \in Nat, NEW mid \in Nat, NEW n \in Nat,
           from <= mid, mid + n <= Len(archive.original)
    PROVE  Slice(from, mid - from) \o Slice(mid, n) = Slice(from, (mid + n) - from)
<1> DEFINE l == Len(archive.original)
           m == mid - from
<1>1. l \in Nat /\ mid + n <= l
  OBVIOUS
<1> HIDE DEF l
<1>2. m \in Nat /\ from + m = mid /\ from + m + n <= l /\ m + n = (mid + n) - from
  BY <1>1
<1> HIDE DEF m
<1>3. Slice(from, m) \o Slice(from + m, n) = Slice(from, m + n)
  BY <1>2, SlicesJoin DEF l
<1> QED
  BY <1>2, <1>3 DEF m

\* What has been decoded before place at of the current block is right.
DecodedTo(acc, at) ==
    /\ acc.ok
    /\ acc.inPos = at.literals
    /\ acc.out = Slice(BlockStart, at.end - BlockStart)

LEMMA IoMatchRight ==
    ASSUME TypeOK, block <= archive.present, Len(backend) = Min({BlockStart, Len(archive.original)}),
           archive.version = "io", archive.intact, backend = Slice(0, BlockStart),
           NEW place, place = IoPlaces(archive, block), NEW k \in 1 .. Len(MatchList),
           NEW acc \in IoAccs, DecodedTo(acc, place[k - 1])
    PROVE  DecodedTo(IoMatch(acc, MatchList[k]), place[k])
<1> DEFINE r == MatchList[k]
           e == place[k - 1].end
           i == place[k - 1].literals
           m == IoRec(k)
           before == acc.out \o SubSeq(Literals, acc.inPos + 1, acc.inPos + m.litLen)
           bytes == IF SourceBefore(m.src) THEN Min({m.len, BlockStart - m.src}) ELSE 0
           middle == before \o SubSeq(backend, m.src + 1, m.src + bytes)
           rest == OverlapCopy(middle, m.src + bytes - BlockStart, m.len - bytes)
           bad == \/ ~ acc.ok
                  \/ m.litLen > Len(Literals) - acc.inPos
                  \/ m.litLen + m.len > OrigSize - Len(acc.out)
                  \/ m.src >= m.dest
           total == Len(archive.original)
<1>1. /\ block \in 1 .. Len(archive.lists) /\ archive.original \in Seq(Byte)
      /\ BlockStart \in Nat /\ BlockEnd \in Nat /\ OrigSize \in Nat /\ BlockEnd = BlockStart + OrigSize
      /\ BlockStart < BlockEnd
      /\ BlockEnd <= total /\ total \in Nat
      /\ Literals \in Seq(Byte) /\ Len(Literals) \in Nat
  BY BlockIs, TypesAre, ArchiveShape
<1>2. ArePlaces(place) /\ MeansBlock(place) /\ Len(MatchList) \in Nat
  BY <1>1, BlockMeans, IoListIs
<1>3. k - 1 \in 0 .. Len(MatchList) /\ k \in 0 .. Len(MatchList)
  BY <1>2
<1>4. /\ e \in Nat /\ i \in Nat
      /\ m.litLen \in Nat /\ m.len \in Nat /\ m.src \in Nat
      /\ m.dest = e + m.litLen
      /\ m = DecodeLzMatch(FALSE, archive.round, archive.baseLen, e, r)
      /\ place[k].end = m.dest + m.len /\ place[k].literals = i + m.litLen
  BY <1>2, <1>3 DEF ArePlaces
<1>5. /\ IsCopy(m.src, m.dest, m.len) /\ m.dest + m.len <= BlockEnd
      /\ \A x \in 1 .. m.litLen : Literals[i + x] = archive.original[e + x]
      /\ BlockStart <= e /\ e <= BlockEnd /\ i + m.litLen <= Len(Literals)
  BY <1>2, <1>3, <1>4 DEF MeansBlock
<1>6. acc.ok /\ acc.inPos = i /\ acc.out = Slice(BlockStart, e - BlockStart)
  BY DEF DecodedTo
<1>7. BlockStart + Len(acc.out) = e
  <2> DEFINE n == e - BlockStart
  <2>1. n \in Nat /\ BlockStart + n <= total /\ BlockStart + n = e
    <3> DEFINE w == BlockStart
    <3>1. w \in Nat /\ BlockEnd \in Nat /\ total \in Nat /\ e \in Nat /\ w <= e /\ e <= BlockEnd /\ BlockEnd <= total
      BY <1>1, <1>4, <1>5
    <3> HIDE DEF w, e, total
    <3>2. e - w \in Nat /\ w + (e - w) <= total /\ w + (e - w) = e
      BY <3>1
    <3> QED
      BY <3>2 DEF w
  <2>2. acc.out = Slice(BlockStart, n)
    BY <1>6
  <2> HIDE DEF n, e, total
  <2>3. HasBytes(Slice(BlockStart, n), BlockStart, n)
    BY <1>1, <2>1, SliceIs DEF total
  <2>4. Len(acc.out) = n
    BY <2>2, <2>3 DEF HasBytes
  <2> QED
    BY <2>1, <2>4
<1>8. IoMatch(acc, r) = IF bad THEN [acc EXCEPT !.ok = FALSE]
                        ELSE [ok |-> TRUE, inPos |-> acc.inPos + m.litLen, out |-> middle \o rest]
  <2>1. m = DecodeLzMatch(FALSE, archive.round, archive.baseLen, BlockStart + Len(acc.out), r)
    BY <1>4, <1>7
  <2> HIDE DEF m
  <2> QED
    BY <2>1 DEF IoMatch
<1> DEFINE src == m.src
           dest == m.dest
           len == m.len
           lit == m.litLen
<1>9. ~ bad
  <2> DEFINE l == Len(Literals)
             o == Len(acc.out)
  <2>1. /\ l \in Nat /\ e \in Nat /\ i \in Nat /\ lit \in Nat /\ len \in Nat /\ src \in Nat /\ dest \in Nat
        /\ i + lit <= l /\ dest = e + lit /\ dest + len <= BlockStart + OrigSize /\ BlockStart + o = e
        /\ src < dest /\ o \in Nat
    <3>1. acc.out \in Seq(Byte)
      BY DEF IoAccs
    <3>2. l \in Nat /\ o \in Nat
      BY <1>1, <3>1
    <3>3. src < dest
      BY <1>5 DEF IsCopy
    <3>4. i + lit <= l /\ dest + len <= BlockStart + OrigSize /\ BlockStart + o = e
      BY <1>1, <1>5, <1>7
    <3> HIDE DEF l, o, e, i, lit, len, src, dest
    <3>5. /\ e \in Nat /\ i \in Nat /\ lit \in Nat /\ len \in Nat /\ src \in Nat /\ dest = e + lit
      BY <1>4 DEF e, i, lit, len, src, dest
    <3> QED
      BY <3>2, <3>3, <3>4, <3>5
  <2> HIDE DEF l, o, e, i, lit, len, src, dest
  <2>2. ~ (lit > l - i) /\ ~ (lit + len > OrigSize - o) /\ ~ (src >= dest)
    BY <1>1, <2>1
  <2> QED
    BY <1>6, <2>2 DEF l, o, lit, len, src, dest
<1> HIDE DEF bad
<1> DEFINE next == IoMatch(acc, r)
           now == middle \o rest
           pos == acc.inPos + m.litLen
<1>10. next = [ok |-> TRUE, inPos |-> pos, out |-> now]
  BY <1>8, <1>9 DEF bad
<1> HIDE DEF next
<1>11. next.ok /\ next.inPos = pos /\ next.out = now
  BY <1>10
<1> DEFINE s == BlockStart
<1>12. /\ s \in Nat /\ s <= e /\ e \in Nat /\ i \in Nat /\ lit \in Nat /\ len \in Nat /\ src \in Nat
       /\ dest = e + lit /\ dest \in Nat /\ dest + len <= total /\ i + lit <= Len(Literals)
       /\ s <= dest /\ s <= total /\ e + lit <= total
  <2> HIDE DEF total
  <2>1. s \in Nat /\ BlockEnd \in Nat /\ s < BlockEnd /\ BlockEnd <= total /\ total \in Nat
    BY <1>1
  <2>2. e \in Nat /\ i \in Nat /\ lit \in Nat /\ len \in Nat /\ src \in Nat /\ dest = e + lit
    BY <1>4
  <2>3. s <= e /\ i + lit <= Len(Literals) /\ dest + len <= BlockEnd
    BY <1>5
  <2> HIDE DEF s, e, i, lit, len, src, dest
  <2> QED
    BY <2>1, <2>2, <2>3
<1>13. before = Slice(s, dest - s)
  <2> DEFINE lits == SubSeq(Literals, i + 1, i + lit)
  <2>1. \A x \in 1 .. lit : Literals[i + x] = archive.original[e + x]
    BY <1>5
  <2>2. before = Slice(s, e - s) \o lits
    BY <1>6
  <2> HIDE DEF before, s, e, i, lit, dest
  <2>3. lits = Slice(e, lit)
    BY <1>1, <1>12, <2>1, PartIsSlice
  <2>4. Slice(s, e - s) \o Slice(e, lit) = Slice(s, (e + lit) - s)
    BY <1>1, <1>12, SlicesMeet
  <2> QED
    BY <1>12, <2>2, <2>3, <2>4
<1>14. /\ bytes \in Nat /\ bytes <= len
       /\ bytes = 0 \/ src + bytes <= s
       /\ bytes = len \/ s <= src + bytes
  <2>1. bytes = BytesBefore(src, len, s)
    BY DEF BytesBefore
  <2>2. s = BlockStart
    OBVIOUS
  <2> HIDE DEF bytes, src, len, s
  <2> QED
    BY <1>12, <2>1, <2>2, BytesBeforeAre
<1>15. IsCopy(src, dest, bytes) /\ IsCopy(src + bytes, dest + bytes, len - bytes)
  <2>1. IsCopy(src, dest, len) /\ Len(archive.original) \in Nat
    BY <1>1, <1>5
  <2> HIDE DEF bytes, src, dest, len
  <2> QED
    BY <1>12, <1>14, <2>1, CopyParts
<1>16. middle = Slice(s, (dest + bytes) - s)
  <2> DEFINE old == SubSeq(backend, src + 1, src + bytes)
  <2>1. backend = Slice(0, s) /\ middle = before \o old
    OBVIOUS
  <2> HIDE DEF before, middle, bytes, src, dest, len, s
  <2>2. archive.original \in Seq(Byte) /\ s <= Len(archive.original)
    BY <1>1, <1>12
  <2>3. /\ s \in Nat /\ src \in Nat /\ dest \in Nat /\ bytes \in Nat /\ IsCopy(src, dest, bytes)
        /\ bytes = 0 \/ src + bytes <= s
    BY <1>12, <1>14, <1>15
  <2>4. SubSeq(Slice(0, s), src + 1, src + bytes) = Slice(dest, bytes)
    BY ONLY <2>2, <2>3, BytesFromOutput
  <2>5. old = Slice(dest, bytes)
    BY <2>1, <2>4
  <2> HIDE DEF old
  <2>6. dest + bytes <= total
    <3> HIDE DEF total
    <3>1. dest \in Nat /\ bytes \in Nat /\ len \in Nat /\ total \in Nat /\ dest + len <= total /\ bytes <= len
      BY <1>1, <1>12, <1>14
    <3> QED
      BY ONLY <3>1
  <2>7. Slice(s, dest - s) \o Slice(dest, bytes) = Slice(s, (dest + bytes) - s)
    BY <1>1, <1>12, <1>14, <2>6, SlicesMeet
  <2> QED
    BY <1>13, <2>1, <2>5, <2>7
<1> DEFINE from == src + bytes
           end == dest + bytes
           left == len - bytes
<1>17. /\ from \in Nat /\ end \in Nat /\ left \in Nat /\ s <= end /\ end + left = dest + len
       /\ left = 0 \/ s <= from
  <2>1. from = src + bytes /\ end = dest + bytes /\ left = len - bytes
    OBVIOUS
  <2> HIDE DEF bytes, src, dest, len, s, from, end, left, total, e, i, lit
  <2>2. /\ s \in Nat /\ len \in Nat /\ src \in Nat /\ dest \in Nat /\ s <= dest /\ bytes \in Nat /\ bytes <= len
        /\ bytes = len \/ s <= src + bytes
    BY <1>12, <1>14
  <2> QED
    BY ONLY <2>1, <2>2
<1>18. rest = OverlapCopy(middle, from - s, left)
  <2> DEFINE back == from - s
  <2>1. back = m.src + (bytes - BlockStart)
    <3>1. back = (src + bytes) - s /\ m.src = src /\ BlockStart = s
      BY Zenon
    <3>2. src \in Nat /\ bytes \in Nat /\ s \in Nat
      BY <1>12, <1>14
    <3> HIDE DEF back, src, bytes, s, m, from
    <3>3. back = src + (bytes - s)
      BY ONLY <3>1, <3>2
    <3> QED
      BY ONLY <3>1, <3>3, Zenon
  <2>2. left = m.len - bytes
    BY Zenon
  <2>3. rest = OverlapCopy(middle, m.src + bytes - BlockStart, m.len - bytes)
    BY Zenon
  <2> HIDE DEF rest, before, middle, bytes, back, from, s, left, m
  <2>4. rest = OverlapCopy(middle, back, left)
    BY ONLY <2>1, <2>2, <2>3, Zenon
  <2> QED
    BY <2>4 DEF back
<1>19. IsCopy(from, end, left)
  BY <1>15
<1>20. end = dest + bytes
  OBVIOUS
<1>21. /\ next = IoMatch(acc, r) /\ now = middle \o rest /\ pos = acc.inPos + m.litLen
       /\ dest = m.dest /\ len = m.len /\ s = BlockStart /\ lit = m.litLen
  BY DEF next
<1> HIDE DEF now, pos, middle, rest, from, end, left, bytes, src, dest, len, s, before, lit
<1>22. middle = Slice(s, end - s)
  BY <1>16, <1>20
<1>23. rest = Slice(end, left)
  <2>1. archive.original \in Seq(Byte) /\ s \in Nat
    BY <1>1, <1>12
  <2>2. OverlapCopy(Slice(s, end - s), from - s, left) = Slice(end, left)
    BY <1>17, <1>19, <2>1, RestOfCopy
  <2> QED
    BY <1>18, <1>22, <2>2
<1>24. middle \o rest = Slice(s, (dest + len) - s)
  <2>1. end + left <= total
    BY <1>12, <1>17
  <2>2. total = Len(archive.original) /\ archive.original \in Seq(Byte)
    BY <1>1
  <2> HIDE DEF total
  <2>3. end + left <= Len(archive.original) /\ s \in Nat /\ end \in Nat /\ left \in Nat /\ s <= end
    BY <1>12, <1>17, <2>1, <2>2
  <2>4. Slice(s, end - s) \o Slice(end, left) = Slice(s, (end + left) - s)
    BY ONLY <2>2, <2>3, SlicesMeet
  <2> QED
    BY <1>17, <1>22, <1>23, <2>4
<1>25. now = Slice(s, (dest + len) - s)
  BY <1>24, <1>21
<1>26. pos = place[k].literals
  <2>1. acc.inPos = i /\ place[k].literals = i + m.litLen
    BY <1>4, <1>6
  <2> QED
    BY <1>21, <2>1
<1>27. place[k].end = dest + len
  BY <1>4, <1>21
<1>28. next.out = Slice(BlockStart, place[k].end - BlockStart)
  BY <1>11, <1>25, <1>27, <1>21
<1> QED
  BY <1>11, <1>26, <1>28, <1>21 DEF DecodedTo, r

\* An intact block is not found broken, and what is decoded is right.
LEMMA IoBlockRight ==
    ASSUME IInv, archive.version = "io", archive.intact, backend = Slice(0, BlockStart), IoBlock
    PROVE  pc' = "save" /\ out' = Slice(BlockStart, OrigSize)
<1>1. /\ block <= archive.present /\ TypeOK /\ block \in Nat /\ archive.present \in Nat
      /\ Len(backend) = Min({BlockStart, Len(archive.original)})
  <2>1. block <= archive.present
    BY DEF IoBlock, MoreBlocks
  <2>2. TypeOK /\ Len(backend) = Min({BlockStart, Len(archive.original)})
    BY DEF IInv, Position
  <2> QED
    BY <2>1, <2>2, TypesAre, ArchiveShape
<1> DEFINE n == Len(MatchList)
           place == IoPlaces(archive, block)
           end == FoldLeft(IoMatch, [ok |-> TRUE, inPos |-> 0, out |-> <<>>], MatchList)
           total == Len(archive.original)
<1>2. /\ block \in 1 .. Len(archive.lists) /\ archive.original \in Seq(Byte)
      /\ BlockStart \in Nat /\ BlockEnd \in Nat /\ OrigSize \in Nat /\ BlockEnd = BlockStart + OrigSize
      /\ BlockStart < BlockEnd
      /\ BlockEnd <= total /\ total \in Nat
      /\ Literals \in Seq(Byte) /\ Len(Literals) \in Nat
  BY <1>1, BlockIs, TypesAre, ArchiveShape
<1>3. ArePlaces(place) /\ MeansBlock(place) /\ n \in Nat
  BY <1>1, <1>2, BlockMeans, IoListIs
<1>4. PICK acc : IsIoFold(acc) /\ end = acc[n]
  BY <1>1, IoFoldIs
<1>5. /\ acc \in [0 .. n -> IoAccs]
      /\ acc[0] = [ok |-> TRUE, inPos |-> 0, out |-> <<>>]
      /\ \A k \in 1 .. n : acc[k] = IoMatch(acc[k - 1], MatchList[k])
  BY <1>4 DEF IsIoFold
<1> HIDE DEF end
<1> DEFINE T == {k \in 0 .. n : DecodedTo(acc[k], place[k])}
<1>6. 0 \in T
  <2>1. place[0].end = BlockStart /\ place[0].literals = 0
    BY <1>3 DEF ArePlaces
  <2>2. acc[0].ok /\ acc[0].inPos = 0 /\ acc[0].out = <<>>
    BY <1>5
  <2>3. <<>> = Slice(BlockStart, 0)
    <3>1. IsArchive(archive)
      BY <1>1, TypesAre
    <3>2. BlockStart \in Nat /\ BlockStart <= total
      BY <1>2
    <3> QED
      BY <3>1, <3>2, NothingYet
  <2>4. BlockStart - BlockStart = 0
    BY <1>2
  <2> HIDE DEF place
  <2>5. DecodedTo(acc[0], place[0])
    BY <2>1, <2>2, <2>3, <2>4 DEF DecodedTo
  <2> HIDE DEF n
  <2> QED
    BY <1>3, <2>5
<1>7. ASSUME NEW k \in 0 .. n - 1, k \in T PROVE k + 1 \in T
  <2> DEFINE i == k + 1
  <2>1. i \in 1 .. n /\ i - 1 = k /\ i \in 0 .. n /\ k \in 0 .. n
    BY <1>3
  <2> HIDE DEF i
  <2>2. DecodedTo(acc[i - 1], place[i - 1]) /\ acc[i - 1] \in IoAccs
    BY <1>5, <1>7, <2>1
  <2>3. acc[i] = IoMatch(acc[i - 1], MatchList[i])
    BY <1>5, <2>1
  <2>4. i \in 1 .. Len(MatchList)
    BY <2>1
  <2> DEFINE b == acc[i - 1]
             p == place
  <2>5. b \in IoAccs /\ DecodedTo(b, p[i - 1]) /\ p = IoPlaces(archive, block)
    BY <2>2
  <2> HIDE DEF b, p
  <2>6. DecodedTo(IoMatch(b, MatchList[i]), p[i])
    BY <1>1, <2>4, <2>5, IoMatchRight
  <2>7. DecodedTo(acc[i], place[i])
    BY <2>3, <2>6 DEF b, p
  <2> QED
    BY <2>1, <2>7 DEF i
<1> HIDE DEF T
<1>8. DecodedTo(acc[n], place[n])
  <2>1. n \in 0 .. n
    BY <1>3
  <2>2. 0 .. n \subseteq T
    BY <1>3, <1>6, <1>7, InductionUpTo
  <2> QED
    BY <2>1, <2>2 DEF T
<1> DEFINE e == place[n].end
           i == place[n].literals
           s == BlockStart
           left == BlockEnd - e
           l == Len(Literals)
<1>9. /\ s <= e /\ e <= BlockEnd /\ i <= l /\ l - i = left
      /\ \A x \in 1 .. left : Literals[i + x] = archive.original[e + x]
      /\ e \in Nat /\ i \in Nat
  <2>1. n \in 0 .. n
    BY <1>3
  <2> QED
    BY <1>3, <2>1 DEF MeansBlock, ArePlaces
<1>10. end.ok /\ end.inPos = i /\ end.out = Slice(s, e - s)
  BY <1>4, <1>8 DEF DecodedTo
<1> HIDE DEF place, n
<1>11. /\ s \in Nat /\ e \in Nat /\ i \in Nat /\ l \in Nat /\ left \in Nat /\ i + left = l /\ e + left = BlockEnd
       /\ e + left <= total /\ s <= e /\ left = BlockEnd - e
  <2>1. s \in Nat /\ l \in Nat /\ BlockEnd \in Nat /\ BlockEnd <= total /\ total \in Nat
    BY <1>2
  <2>2. left = BlockEnd - e
    OBVIOUS
  <2> HIDE DEF s, l, total, e, i, left
  <2>3. e \in Nat /\ i \in Nat /\ s <= e /\ e <= BlockEnd /\ i <= l /\ l - i = left
    BY <1>9
  <2> QED
    BY ONLY <2>1, <2>2, <2>3
<1>12. s = BlockStart /\ l = Len(Literals) /\ total = Len(archive.original)
  OBVIOUS
<1> HIDE DEF e, i, s, left, l, total
<1>13. Len(end.out) = e - s
  <2> DEFINE m == e - s
  <2>1. m \in Nat /\ s + m <= Len(archive.original)
    BY <1>11, <1>12
  <2> HIDE DEF m
  <2>2. HasBytes(Slice(s, m), s, m)
    BY <1>2, <1>11, <2>1, SliceIs
  <2> QED
    BY <1>10, <2>2 DEF HasBytes, m
<1>14. end.ok /\ Len(Literals) - end.inPos = OrigSize - Len(end.out)
  <2> DEFINE o == OrigSize
  <2>1. o \in Nat /\ BlockEnd = s + o
    BY <1>2, <1>12
  <2> HIDE DEF o
  <2>2. l - i = o - (e - s)
    BY <1>11, <2>1
  <2> QED
    BY <1>10, <1>12, <1>13, <2>2 DEF o
<1>15. pc' = "save" /\ out' = end.out \o SubSeq(Literals, end.inPos + 1, Len(Literals))
  BY <1>14 DEF IoBlock, end
<1>16. SubSeq(Literals, i + 1, i + left) = Slice(e, left)
  <2>1. \A x \in 1 .. left : Literals[i + x] = archive.original[e + x]
    BY <1>9
  <2>2. e + left <= Len(archive.original) /\ i + left <= Len(Literals)
    BY <1>11, <1>12
  <2>3. archive.original \in Seq(Byte) /\ Literals \in Seq(Byte) /\ e \in Nat /\ i \in Nat /\ left \in Nat
    BY <1>2, <1>11
  <2> DEFINE lits == Literals
  <2> HIDE DEF lits
  <2>4. /\ lits \in Seq(Byte) /\ i + left <= Len(lits)
        /\ \A x \in 1 .. left : lits[i + x] = archive.original[e + x]
    BY <2>1, <2>2, <2>3 DEF lits
  <2>5. SubSeq(lits, i + 1, i + left) = Slice(e, left)
    BY ONLY <2>2, <2>3, <2>4, PartIsSlice
  <2> QED
    BY <2>5 DEF lits
<1>17. Slice(s, e - s) \o Slice(e, left) = Slice(s, (e + left) - s)
  <2>1. /\ archive.original \in Seq(Byte) /\ s \in Nat /\ e \in Nat /\ left \in Nat /\ s <= e
        /\ e + left <= Len(archive.original)
    BY <1>2, <1>11, <1>12
  <2> QED
    BY ONLY <2>1, SlicesMeet
<1>18. (e + left) - s = OrigSize
  <2> DEFINE o == OrigSize
  <2>1. o \in Nat /\ BlockEnd = s + o
    BY <1>2, <1>12
  <2> HIDE DEF o
  <2>2. (e + left) - s = o
    BY <1>11, <2>1
  <2> QED
    BY <2>2 DEF o
<1> QED
  BY <1>10, <1>11, <1>12, <1>15, <1>16, <1>17, <1>18

\* The I/O layout: what is decoded of an intact archive is right, and nothing is found
\* broken in it.
IoRight ==
    archive.intact /\ archive.version = "io" =>
        /\ backend = Slice(0, Len(backend))
        /\ pc = "save" => out = Slice(BlockStart, OrigSize)
        /\ pc \in {"read", "save", "done"}

LEMMA InitIoRight == Init => IoRight
<1> SUFFICES ASSUME Init PROVE backend = Slice(0, Len(backend)) /\ pc = "read"
  BY DEF IoRight
<1>1. backend = <<>> /\ IsArchive(archive) /\ Len(archive.original) \in Nat /\ pc = "read"
  BY InitIs, TypesAre DEF Init, IInv
<1>2. 0 \in Nat /\ 0 <= Len(archive.original)
  BY <1>1
<1>3. <<>> = Slice(0, 0)
  BY <1>1, <1>2, NothingYet
<1> QED
  BY <1>1, <1>3

LEMMA IoRightKept ==
    ASSUME IInv, Ended, IoRight, [Next]_vars
    PROVE  IoRight'
<1>1. archive' = archive /\ opts' = opts
  BY JobStays
<1> SUFFICES ASSUME archive.intact, archive.version = "io"
             PROVE  /\ backend' = (Slice(0, Len(backend)))'
                    /\ pc' = "save" => out' = (Slice(BlockStart, OrigSize))'
                    /\ pc' \in {"read", "save", "done"}
  BY <1>1 DEF IoRight
<1>2. /\ backend = Slice(0, Len(backend))
      /\ pc = "save" => out = Slice(BlockStart, OrigSize)
      /\ pc \in {"read", "save", "done"}
  BY DEF IoRight
<1>3. \A x, y : Slice(x, y)' = Slice(x, y)
  BY <1>1 DEF Slice
<1>4. (Slice(0, Len(backend)))' = Slice(0, Len(backend'))
  BY <1>1 DEF Slice
<1>5. block' = block => (Slice(BlockStart, OrigSize))' = Slice(BlockStart, OrigSize)
  BY <1>1 DEF Slice, BlockStart, BlockEnd, OrigSize
<1>6. pc # "process" /\ ~ ToSave
  BY NoSaving
<1>7. CASE EndOfInput
  <2>1. heap = {Barrier} /\ HeapShape
    BY DEF Ended, IInv
  <2>2. EndAccepted
    BY <2>1, OnlyTheBarrier DEF EndAccepted
  <2>3. pc' = "done" /\ backend' = backend
    BY <1>7, <2>2 DEF EndOfInput
  <2> QED
    BY <1>2, <1>4, <2>3
<1>8. CASE IoBlock
  <2>1. block <= archive.present /\ backend' = backend /\ block' = block
    BY <1>8 DEF IoBlock, MoreBlocks
  <2>2. backend = Slice(0, BlockStart)
    BY <1>2, <2>1, Inside
  <2>3. pc' = "save" /\ out' = Slice(BlockStart, OrigSize)
    BY <1>8, <2>2, IoBlockRight
  <2> QED
    BY <1>2, <1>4, <1>5, <2>1, <2>3
<1>9. CASE WriteBlock
  <2>1. /\ pc = "save" /\ block <= archive.present
        /\ out = Slice(BlockStart, OrigSize)
    BY <1>2, <1>9 DEF WriteBlock, IInv, Position, InABlock
  <2>2. /\ BlockStart \in Nat /\ BlockEnd \in Nat /\ OrigSize \in Nat /\ BlockEnd = BlockStart + OrigSize
        /\ BlockEnd <= Len(archive.original) /\ archive.original \in Seq(Byte)
        /\ Len(backend) = BlockStart
    BY <2>1, Inside, TypesAre, ArchiveShape DEF IInv
  <2>3. ~ ChecksumDiffers
    BY <2>1, <2>2 DEF ChecksumDiffers, Slice
  <2>4. backend' = backend \o out /\ pc' = "read"
    BY <1>9, <2>3 DEF WriteBlock
  <2> DEFINE b == BlockStart
             n == OrigSize
  <2>5. b \in Nat /\ n \in Nat /\ b + n <= Len(archive.original)
    BY <2>2
  <2>6. backend' = Slice(0, b) \o Slice(b, n)
    BY <1>2, <2>1, <2>2, <2>4
  <2> HIDE DEF b, n
  <2>7. backend' = Slice(0, b + n) /\ Len(backend') = b + n
    BY <2>2, <2>5, <2>6, BlockJoined
  <2> QED
    BY <1>4, <2>4, <2>7
<1>10. CASE SpinOn \/ Terminated \/ UNCHANGED vars
  <2>1. UNCHANGED <<pc, block, out, backend>>
    BY <1>10 DEF SpinOn, Terminated, vars
  <2> QED
    BY <1>2, <1>4, <1>5, <2>1
<1>11. ~ ReadBlock /\ ~ TakeMatch /\ ~ SpillToRestore /\ ~ RestoreMark /\ ~ CopyTail
  BY <1>6 DEF ReadBlock, TakeMatch, SpillToRestore, RestoreMark, CopyTail
<1>12. ~ SkipDone /\ ~ RememberLong /\ ~ SpillToSave /\ ~ SaveMatch
  BY <1>6 DEF SkipDone, RememberLong, SpillToSave, SaveMatch, MustSave
<1> QED
  BY <1>7, <1>8, <1>9, <1>10, <1>11, <1>12 DEF Next

LEMMA AlwaysIoRight == Spec => []IoRight
<1>1. Init => IoRight
  BY InitIoRight
<1>2. IInv /\ Ended /\ IoRight /\ [Next]_vars => IoRight'
  BY IoRightKept
<1> QED
  BY <1>1, <1>2, Invariance, AlwaysEnded, PTL DEF Spec

-----------------------------------------------------------------------------
(* What is written is the original. *)

\* Blocks carry checksums, or the archive is intact; and none of it is missing, or the
\* original program will see that a copy past its end has not been made.
Trusted ==
    /\ opts.checked \/ Sound \/ (archive.intact /\ archive.version = "io")
    /\ \/ archive.present = Len(archive.lists)
       \/ /\ opts.program = "cpp" /\ Sound
          /\ \E p \in Places(archive) :
                p[1] <= archive.present /\ Rec(p).dest >= FirstOf(archive.present + 1)

Written == Trusted => backend = Slice(0, Len(backend))

LEMMA TrustStays == [Next]_vars => Trusted' = Trusted /\ UNCHANGED archive
<1> SUFFICES ASSUME [Next]_vars PROVE Trusted' = Trusted /\ UNCHANGED archive
  OBVIOUS
<1>1. UNCHANGED <<archive, opts>>
  BY JobStays
<1>2. /\ Sound' = Sound /\ Places(archive)' = Places(archive)
      /\ \A p : Rec(p)' = Rec(p)
  BY <1>1, ArchiveStays
<1> QED
  BY <1>1, <1>2 DEF Trusted

\* A block that is written continues the original.
LEMMA BlockWritten ==
    ASSUME IInv, Intact, IoRight, Written, Trusted, WriteBlock, ~ ChecksumDiffers
    PROVE  /\ Len(backend) = BlockStart /\ backend' = Slice(0, BlockEnd) /\ Len(backend') = BlockEnd
           /\ block <= archive.present
<1>1. pc = "save" /\ block <= archive.present /\ backend' = backend \o out
  BY DEF WriteBlock, IInv, Position, InABlock
<1>2. IsArchive(archive)
  BY TypesAre DEF IInv
<1>3. /\ BlockStart \in Nat /\ BlockEnd \in Nat /\ OrigSize \in Nat /\ BlockEnd = BlockStart + OrigSize
      /\ BlockEnd <= Len(archive.original) /\ archive.original \in Seq(Byte)
      /\ Len(backend) = BlockStart
  BY <1>1, <1>2, Inside, ArchiveShape
<1>4. out = Slice(BlockStart, OrigSize)
  <2>1. CASE opts.checked
    BY <1>3, <2>1 DEF ChecksumDiffers, Slice
  <2>2. CASE Sound
    <3>1. DecodedRight /\ Len(out) = OrigSize
      BY <1>1, <2>2 DEF Intact, Right, Running, IInv, Position
    <3> QED
      BY <1>1, <3>1 DEF DecodedRight, InABlock
  <2>3. CASE archive.intact /\ archive.version = "io"
    BY <1>1, <2>3 DEF IoRight
  <2> QED
    BY <2>1, <2>2, <2>3 DEF Trusted
<1>5. backend = Slice(0, BlockStart)
  BY <1>3 DEF Written
<1> DEFINE b == BlockStart
           n == OrigSize
<1>6. b \in Nat /\ n \in Nat /\ b + n <= Len(archive.original) /\ b + n = BlockEnd
  BY <1>3
<1>7. backend' = Slice(0, b) \o Slice(b, n)
  BY <1>1, <1>4, <1>5
<1> HIDE DEF b, n
<1>8. backend' = Slice(0, b + n) /\ Len(backend') = b + n
  BY <1>3, <1>6, <1>7, BlockJoined
<1> QED
  BY <1>1, <1>3, <1>6, <1>8

LEMMA BackendStays ==
    ASSUME [Next]_vars
    PROVE  backend' = backend \/ (WriteBlock /\ ~ ChecksumDiffers)
  BY DEF Next, EndOfInput, IoBlock, ReadBlock, TakeMatch, SpillToRestore, RestoreMark, CopyTail,
         SkipDone, RememberLong, SpillToSave, SaveMatch, WriteBlock, SpinOn, Terminated, vars

LEMMA WrittenKept ==
    ASSUME IInv, Intact, IoRight, Written, [Next]_vars
    PROVE  Written'
<1>1. Trusted' = Trusted /\ archive' = archive
  BY TrustStays
<1> SUFFICES ASSUME Trusted PROVE backend' = (Slice(0, Len(backend)))'
  BY <1>1 DEF Written
<1>2. (Slice(0, Len(backend)))' = Slice(0, Len(backend'))
  BY <1>1 DEF Slice
<1>3. CASE backend' = backend
  BY <1>2, <1>3 DEF Written
<1>4. CASE WriteBlock /\ ~ ChecksumDiffers
  BY <1>2, <1>4, BlockWritten
<1> QED
  BY <1>3, <1>4, BackendStays

LEMMA InitWritten == Init => Written
<1> SUFFICES ASSUME Init PROVE backend = Slice(0, Len(backend))
  BY DEF Written
<1>1. backend = <<>> /\ IsArchive(archive) /\ Len(archive.original) \in Nat
  BY InitIs, TypesAre DEF Init, IInv
<1>2. 0 \in Nat /\ 0 <= Len(archive.original)
  BY <1>1
<1>3. <<>> = Slice(0, 0)
  BY <1>1, <1>2, NothingYet
<1> QED
  BY <1>1, <1>3

\* When the end of the input is accepted, all of a trusted archive has been written.
LEMMA AllWritten ==
    ASSUME IInv, Intact, Ended, Written, Trusted, EndOfInput, pc' = "done"
    PROVE  backend = archive.original
<1>1. /\ pc = "read" /\ ~ MoreBlocks /\ EndAccepted
  BY DEF EndOfInput
<1>2. /\ block \in Nat \ {0} /\ archive.present \in Nat /\ Len(archive.lists) \in Nat
      /\ IsArchive(archive) /\ HeapShape /\ Len(archive.original) \in Nat
      /\ archive.original \in Seq(Byte)
  BY TypesAre, ArchiveShape DEF IInv
<1>3. block = archive.present + 1
  BY <1>1, <1>2 DEF MoreBlocks, Ended
<1>4. archive.present = Len(archive.lists)
  <2> SUFFICES ASSUME archive.present # Len(archive.lists), opts.program = "cpp", Sound,
                      NEW p \in Places(archive), p[1] <= archive.present,
                      Rec(p).dest >= FirstOf(archive.present + 1)
               PROVE  FALSE
    BY DEF Trusted
  <2> ~ archive.index
    BY <1>2 DEF IsArchive
  <2>1. heap = {Barrier}
    BY <1>1, <1>2, OnlyTheBarrier DEF EndAccepted
  <2>2. Matches = {} /\ Marks = {}
    BY <2>1, BarrierIs DEF Matches, Marks
  <2>3. Waiting = {}
    BY <1>1, <2>2 DEF Intact, Running, Right, Pending, AllThere, HasEntry, HasSpilled
  <2>4. Reached = BlockStart
    BY <1>1, ReachedIs DEF Running
  <2>5. p[1] < block
    <3>1. p[1] \in Nat
      BY <1>2, PlacesAre
    <3> QED
      BY <1>2, <1>3, <3>1
  <2>6. Rec(p).dest >= Reached
    BY <1>3, <2>4 DEF BlockStart
  <2>7. p \in Waiting
    BY <2>5, <2>6 DEF Waiting, Known
  <2> QED
    BY <2>3, <2>7
<1>5. Len(backend) = Len(archive.original)
  <2> DEFINE x == Len(archive.original)
             l == Len(archive.lists)
  <2>1. Len(backend) = Min({BlockStart, x})
    BY DEF IInv, Position
  <2>2. FirstOf(l + 1) >= x /\ block = l + 1
    BY <1>2, <1>3, <1>4, ArchiveShape
  <2>3. BlockStart \in Nat /\ x \in Nat
    BY <1>2, StartsGrow DEF BlockStart
  <2> HIDE DEF l, x
  <2>4. BlockStart >= x
    BY <2>2 DEF BlockStart
  <2>5. Len(backend) = x
    BY <2>1, <2>3, <2>4, LeastOfTwo
  <2> QED
    BY <2>5 DEF x
<1>6. backend = Slice(0, Len(archive.original))
  BY <1>5 DEF Written
<1> DEFINE s == archive.original
<1>7. SubSeq(s, 0 + 1, 0 + Len(s)) = s
  <2>1. s \in Seq(Byte) /\ Len(s) \in Nat
    BY <1>2
  <2> HIDE DEF s
  <2> QED
    BY <2>1
<1> QED
  BY <1>6, <1>7 DEF Slice

\* How the run stands, as Output sees it.
Verdict == IF pc = "done" THEN "success" ELSE IF pc \in Errors THEN "failure" ELSE "running"

LEMMA OutputStep ==
    ASSUME IInv, Intact, IoRight, Ended, Written, Trusted, [Next]_vars
    PROVE  [Output!Next]_<<archive.original, backend, Verdict>>
<1>1. archive' = archive
  BY TrustStays
<1>2. CASE WriteBlock /\ ~ ChecksumDiffers
  <2>1. pc = "save" /\ pc' = "read" /\ Verdict = "running" /\ Verdict' = "running"
    BY <1>2 DEF WriteBlock, Verdict, Errors
  <2>2. /\ Len(backend) = BlockStart /\ backend' = Slice(0, BlockEnd)
        /\ block <= archive.present
    BY <1>2, BlockWritten
  <2>3. /\ BlockStart \in Nat /\ BlockEnd \in Nat /\ BlockStart < BlockEnd
        /\ BlockEnd <= Len(archive.original) /\ Len(archive.original) \in Nat
        /\ block \in 1 .. Len(archive.lists) /\ IsArchive(archive)
    BY <2>2, Inside, TypesAre DEF IInv
  <2>4. Len(backend) < Len(archive.original)
    <3> DEFINE l == Len(archive.original)
    <3>1. l \in Nat /\ BlockEnd <= l
      BY <2>3
    <3> HIDE DEF l
    <3>2. BlockStart < l
      BY <2>3, <3>1
    <3> QED
      BY <2>2, <3>2 DEF l
  <2>5. Output!BlockEndAfter(Len(backend)) = BlockEnd
    <3> DEFINE l == Len(archive.original)
               c == block
    <3>1. c \in Nat \ {0} /\ l \in Nat
      BY <2>3
    <3>2. BlockEnd = IF FirstOf(c + 1) <= l THEN FirstOf(c + 1) ELSE l
      BY <2>3, ArchiveShape DEF BlockEnd
    <3>3. FirstOf(c + 1) = FirstOf(c) + BufSize /\ FirstOf(c) \in Nat
      <4> HIDE DEF c
      <4> QED
        BY <3>1, StartsGrow
    <3>4. FirstOf(c) = Len(backend)
      BY <2>2 DEF BlockStart
    <3>5. Output!BlockEndAfter(Len(backend)) = IF Len(backend) + BufSize < l THEN Len(backend) + BufSize ELSE l
      BY DEF Output!BlockEndAfter
    <3>6. BufSize \in Nat
      BY SizesPositive
    <3> DEFINE n == Len(backend)
    <3>7. n \in Nat
      BY <2>2, <2>3
    <3> HIDE DEF l, c, n
    <3> QED
      BY <3>1, <3>2, <3>3, <3>4, <3>5, <3>6, <3>7 DEF n
  <2>6. Slice(0, BlockEnd) = SubSeq(archive.original, 1, BlockEnd)
    <3>1. 0 + 1 = 1 /\ 0 + BlockEnd = BlockEnd
      BY <2>3
    <3> QED
      BY <3>1 DEF Slice
  <2>7. Output!WriteBlock
    BY <1>1, <2>1, <2>2, <2>4, <2>5, <2>6 DEF Output!WriteBlock, Verdict
  <2> QED
    BY <2>7 DEF Output!Next
<1>3. CASE backend' = backend /\ EndOfInput
  <2>1. pc = "read" /\ pc' \in {"done", "broken"} /\ Verdict = "running"
    BY <1>3 DEF EndOfInput, Verdict, Errors
  <2>2. CASE pc' = "done"
    <3>1. backend = archive.original
      BY <1>3, <2>2, AllWritten
    <3>2. Output!Succeed
      BY <1>1, <1>3, <2>1, <2>2, <3>1 DEF Output!Succeed, Verdict
    <3> QED
      BY <3>2 DEF Output!Next
  <2>3. CASE pc' = "broken"
    <3>1. Output!Fail
      BY <1>1, <1>3, <2>1, <2>3 DEF Output!Fail, Verdict, Errors
    <3> QED
      BY <3>1 DEF Output!Next
  <2> QED
    BY <2>1, <2>2, <2>3
<1>4. CASE backend' = backend /\ ~ EndOfInput
  <2>1. pc' = pc \/ (Verdict = "running" /\ pc' # "done")
    BY <1>4 DEF Next, IoBlock, ReadBlock, TakeMatch, SpillToRestore, RestoreMark, CopyTail,
         SkipDone, RememberLong, SpillToSave, SaveMatch, MustSave, ToSave, SaveToDisk, WhenStuck,
         WriteBlock, SpinOn, Terminated, vars, Verdict, Errors
  <2>2. CASE Verdict' = Verdict
    BY <1>1, <1>4, <2>2
  <2>3. CASE Verdict' # Verdict
    <3>1. Verdict = "running" /\ Verdict' = "failure"
      BY <2>1, <2>3 DEF Verdict
    <3>2. Output!Fail
      BY <1>1, <1>4, <3>1 DEF Output!Fail, Verdict
    <3> QED
      BY <3>2 DEF Output!Next
  <2> QED
    BY <2>2, <2>3
<1> QED
  BY <1>2, <1>3, <1>4, BackendStays

\* Decompression of a trusted archive writes the original, block by block, and succeeds
\* only when all of it is written.
THEOREM Refinement == Spec /\ Trusted => WritesTheOriginal
<1>1. Init => Output!Init /\ Written
  <2> SUFFICES ASSUME Init PROVE Output!Init
    BY InitWritten
  <2>1. archive.original \in Seq(Byte)
    BY InitIs, TypesAre, ArchiveShape DEF IInv
  <2> QED
    BY <2>1 DEF Init, Output!Init, Errors
<1>2. IInv /\ Intact /\ IoRight /\ Written /\ [Next]_vars => Written'
  BY WrittenKept
<1>3. Trusted /\ [Next]_vars => Trusted'
  BY TrustStays
<1>4. IInv /\ Intact /\ IoRight /\ Ended /\ Written /\ Trusted /\ [Next]_vars => [Output!Next]_Output!outputVars
  BY OutputStep DEF Output!outputVars, Verdict
<1> QED
  BY <1>1, <1>2, <1>3, <1>4, Invariance, IntactInvariant, AlwaysIoRight, AlwaysEnded, PTL
  DEF Spec, WritesTheOriginal, Output!Spec

-----------------------------------------------------------------------------
(* save_to_disk finds something to spill, unless a match is longer than a VM block. *)

\* Every entry but the last is a candidate.
LEMMA CandidatesAll ==
    ASSUME GoodHeap, NEW e \in heap, e # LastOf(heap)
    PROVE  \E k \in 1 .. Len(Candidates) : Candidates[k] = e
<1> DEFINE S == heap \ {LastOf(heap)}
           n == Cardinality(S)
           d == Descending(S)
<1>1. S \subseteq HeapEntry /\ Distinct(S) /\ e \in S
  BY DEF GoodHeap, Distinct
<1>2. IsFiniteSet(S)
  BY FS_Subset DEF GoodHeap
<1>3. Candidates = d
  BY DEF Candidates
<1> HIDE DEF S
<1>4. d \in Seq(S) /\ Len(d) = n /\ \A j, k \in 1 .. n : j < k => Before(d[k], d[j])
  BY <1>1, <1>2, DescendingIs
<1>5. n \in Nat
  BY <1>2, FS_CardinalityType
<1>6. \A x \in S : x.dest \in Nat /\ x.seq \in Nat
  BY <1>1 DEF HeapEntry
<1> HIDE DEF d, n
<1>7. d \in [1 .. n -> S]
  BY <1>4
<1>8. ASSUME NEW j \in 1 .. n, NEW k \in 1 .. n, d[j] = d[k] PROVE j = k
  <2>1. \A x \in S : ~ Before(x, x)
    BY <1>6 DEF Before
  <2>2. d[j] \in S /\ ~ j < k /\ ~ k < j
    BY <1>4, <1>7, <1>8, <2>1
  <2> QED
    BY <2>2
<1>9. d \in Injection(1 .. n, S)
  BY <1>7, <1>8 DEF Injection, IsInjective
<1>10. Cardinality(1 .. n) = n
  BY <1>5, FS_Interval
<1>11. d \in Surjection(1 .. n, S)
  BY <1>2, <1>9, <1>10, FS_Injection DEF n
<1>12. \E k \in 1 .. n : d[k] = e
  BY <1>1, <1>11 DEF Surjection
<1> QED
  BY <1>3, <1>4, <1>12

\* An empty VM block has room for any entry that is not too long for one.
LEMMA FitsEmpty ==
    ASSUME NEW e, e.len \in Nat, SpillHeader + e.len + EndMark <= VmBlockSize, VmBlockSize \in Nat
    PROVE  Fits(<<>>, e)
<1> DEFINE add(acc, f) == acc + SpillHeader + f.len
           val(it, s) == add(it[s \ {Max(s)}], <<>>[Max(s)])
           Solves(it) == it = [s \in SUBSET (DOMAIN <<>>) |-> IF s = {} THEN 0 ELSE val(it, s)]
<1>1. RecordBytes(<<>>) = (CHOOSE it : Solves(it))[DOMAIN <<>>]
  BY DEF RecordBytes, FoldLeft, MapThenFoldSet
<1>2. DOMAIN <<>> = {} /\ SUBSET {} = {{}}
  OBVIOUS
<1> DEFINE z == [s \in {{}} |-> 0]
<1>3. Solves(z)
  <2> HIDE DEF val
  <2>1. z = [s \in {{}} |-> IF s = {} THEN 0 ELSE val(z, s)]
    OBVIOUS
  <2> QED
    BY <1>2, <2>1
<1> DEFINE it == CHOOSE f : Solves(f)
<1>4. Solves(it)
  <2> HIDE DEF Solves
  <2> QED
    BY <1>3
<1> HIDE DEF it
<1>5. it[{}] = 0
  <2> HIDE DEF val
  <2> QED
    BY <1>2, <1>4
<1>6. RecordBytes(<<>>) = 0
  BY <1>1, <1>2, <1>5 DEF it
<1> HIDE DEF Solves
<1>7. SpillHeader \in Nat /\ EndMark \in Nat
  BY FutureLzAssumption
<1> DEFINE l == e.len
           V == VmBlockSize
<1>8. l \in Nat /\ V \in Nat /\ SpillHeader + l + EndMark <= V
  OBVIOUS
<1> HIDE DEF l, V
<1>9. 0 + SpillHeader + EndMark + l <= V
  BY <1>7, <1>8
<1> QED
  BY <1>6, <1>9 DEF Fits, l, V

\* The iterator passes over an entry only if it has no data.
LEMMA ConsiderTakes ==
    ASSUME NEW acc \in Accs, NEW e \in heap,
           acc.saved = <<>> => ~ acc.skip /\ ~ acc.full,
           Consider(acc, e).saved = <<>>, e.index # 0 => Fits(<<>>, e)
    PROVE  acc.saved = <<>> /\ e.index = 0 /\ Consider(acc, e) = acc
<1> DEFINE s == acc.saved
           t == Append(s, e)
<1>1. s \in Seq(heap) /\ acc \in [saved : Seq(heap), skip : BOOLEAN, full : BOOLEAN]
  BY DEF Accs
<1>2. t # <<>>
  BY <1>1
<1>3. s = <<>>
  BY <1>1, <1>2, ConsiderIs DEF s, t
<1>4. ~ acc.full /\ ~ acc.skip /\ e \notin Range(s)
  BY <1>3 DEF Range
<1>5. CASE e.index = 0
  BY <1>3, <1>4, <1>5 DEF Consider, INVALID_INDEX
<1>6. CASE e.index # 0
  <2> DEFINE cpp == opts.program = "cpp"
             r == [acc EXCEPT !.saved = t, !.skip = cpp]
  <2>1. Fits(s, e)
    BY <1>3, <1>6
  <2>2. Consider(acc, e) = r
    BY <1>4, <1>6, <2>1 DEF Consider, INVALID_INDEX
  <2> HIDE DEF t, cpp
  <2>3. r.saved = t
    BY <1>1
  <2> QED
    BY <1>2, <2>2, <2>3
<1> QED
  BY <1>3, <1>5, <1>6

\* When nothing is taken, no candidate has data.
LEMMA NothingTaken ==
    ASSUME GoodHeap, ~ opts.wraps, <<>> \in Takings,
           \A e \in heap : e.index # 0 => Fits(<<>>, e)
    PROVE  \A k \in 1 .. Len(Candidates) : Candidates[k].index = 0
<1> DEFINE n == Len(Candidates)
           C == Candidates
           Passed(k) == {a \in Accs : a.saved = <<>> =>
              ~ a.skip /\ ~ a.full /\ \A j \in 1 .. k : C[j].index = 0}
<1>1. PICK acc \in OnePass({Start}) : <<>> = acc.saved
  BY TakingsAre
<1>2. PICK after \in [0 .. n -> SUBSET Accs] :
              /\ after[0] = {Start}
              /\ \A k \in 1 .. n : after[k] = {Consider(a, C[k]) : a \in after[k - 1]}
              /\ OnePass({Start}) = after[n]
  BY StartIs, OnePassIs
<1>3. n \in Nat /\ \A k \in 1 .. n : C[k] \in heap
  BY CandidatesAre
<1> HIDE DEF n, C
<1> DEFINE T == {k \in 0 .. n : after[k] \subseteq Passed(k)}
<1>4. 0 \in T
  <2>1. Start \in Passed(0)
    <3>1. Start \in Accs /\ ~ Start.skip /\ ~ Start.full
      BY StartIs DEF Start
    <3> QED
      BY <3>1
  <2> HIDE DEF Passed
  <2> QED
    BY <1>2, <1>3, <2>1
<1>5. ASSUME NEW k \in 0 .. n - 1, k \in T PROVE k + 1 \in T
  <2>0. k + 1 \in 1 .. n /\ (k + 1) - 1 = k /\ k + 1 \in 0 .. n /\ k \in 0 .. n
    BY <1>3
  <2>1. ASSUME NEW a \in after[k] PROVE Consider(a, C[k + 1]) \in Passed(k + 1)
    <3> DEFINE e == C[k + 1]
               r == Consider(a, e)
    <3>1. e \in heap /\ a \in Accs
          /\ (a.saved = <<>> => ~ a.skip /\ ~ a.full /\ \A j \in 1 .. k : C[j].index = 0)
      BY <1>3, <1>5, <2>0, <2>1
    <3>2. r \in Accs
      BY <3>1, ConsiderIs
    <3>3. ASSUME r.saved = <<>> PROVE ~ r.skip /\ ~ r.full /\ \A j \in 1 .. k + 1 : C[j].index = 0
      <4>1. a.saved = <<>> /\ e.index = 0 /\ r = a
        BY <3>1, <3>3, ConsiderTakes
      <4>2. \A j \in 1 .. k + 1 : j \in 1 .. k \/ j = k + 1
        BY <2>0
      <4> QED
        BY <3>1, <4>1, <4>2
    <3> HIDE DEF r
    <3>4. r \in Passed(k + 1)
      BY <3>2, <3>3
    <3> QED
      BY <3>4 DEF r, e
  <2>2. after[k + 1] = {Consider(a, C[k + 1]) : a \in after[k]}
    BY <1>2, <2>0
  <2> HIDE DEF Passed
  <2>3. after[k + 1] \subseteq Passed(k + 1)
    BY <2>1, <2>2
  <2> QED
    BY <2>0, <2>3
<1> HIDE DEF T
<1>6. 0 .. n \subseteq T
  BY <1>3, <1>4, <1>5, InductionUpTo
<1>7. n \in 0 .. n
  BY <1>3
<1>8. acc \in Passed(n)
  BY <1>1, <1>2, <1>6, <1>7 DEF T
<1> QED
  BY <1>1, <1>8 DEF n, C

\* The last entry comes after all others.
LEMMA LastIs ==
    ASSUME NEW S, S \subseteq HeapEntry, Distinct(S), IsFiniteSet(S), S # {}
    PROVE  \A f \in S \ {LastOf(S)} : Before(f, LastOf(S))
<1> DEFINE R == {p \in S \X S : Before(p[1], p[2])}
<1>1. \A x, y \in S : <<x, y>> \in R <=> Before(x, y)
  OBVIOUS
<1>2. IsOrder(HeapOrder(S), S) /\ \A x, y \in S : <<x, y>> \in HeapOrder(S) <=> Before(y, x)
  BY HeapOrdered
<1> HIDE DEF R
<1>3. IsOrder(R, S)
  BY <1>1, <1>2 DEF IsOrder
<1>4. PICK x \in S : \A y \in S \ {x} : <<y, x>> \in R
  BY <1>3, LastExists
<1>5. \A y \in S \ {x} : Before(y, x)
  BY <1>1, <1>4
<1> QED
  BY <1>5 DEF LastOf

\* Nothing saved takes no chunks.
LEMMA NothingUsed ==
    ASSUME NEW m, DOMAIN m = {}
    PROVE  UsedChunks(m) = 0
<1> DEFINE op(i) == ChunksFor(Len(m[i]))
           val(it, s) == op(CHOOSE x \in s : TRUE) + it[s \ {CHOOSE x \in s : TRUE}]
           Solves(it) == it = [s \in SUBSET (DOMAIN m) |-> IF s = {} THEN 0 ELSE val(it, s)]
<1>1. UsedChunks(m) = (CHOOSE it : Solves(it))[DOMAIN m]
  BY DEF UsedChunks, MapThenSumSet, MapThenFoldSet
<1>2. SUBSET (DOMAIN m) = {{}}
  OBVIOUS
<1> DEFINE z == [s \in {{}} |-> 0]
<1>3. Solves(z)
  <2> HIDE DEF val
  <2>1. z = [s \in {{}} |-> IF s = {} THEN 0 ELSE val(z, s)]
    OBVIOUS
  <2> QED
    BY <1>2, <2>1
<1> DEFINE it == CHOOSE f : Solves(f)
<1>4. Solves(it)
  <2> HIDE DEF Solves
  <2> QED
    BY <1>3
<1> HIDE DEF it
<1>5. it[{}] = 0
  <2> HIDE DEF val
  <2> QED
    BY <1>2, <1>4
<1> QED
  BY <1>1, <1>5 DEF it

\* The memory is more than a VM block, so it is not short when nothing is saved.
LEMMA RoomWhenEmpty ==
    ASSUME TypeOK, DOMAIN mm = {}
    PROVE  AvailableSpace = UsefulMemory /\ UsefulMemory \in Nat
           /\ VmBlockSize \in Nat /\ VmBlockSize < UsefulMemory
<1> DEFINE U == UsefulMemory
           V == VmBlockSize
<1>1. U \in Nat /\ V \in Nat /\ V > 0 /\ 8 * U >= 15 * V
  <2>1. IsOptions(opts) /\ opts.usefulMemory \in Nat /\ opts.vmBlockSize \in Nat \ {0}
    BY TypesAre
  <2>2. 8 * opts.usefulMemory >= 15 * opts.vmBlockSize
    BY <2>1 DEF IsOptions
  <2> QED
    BY <2>1, <2>2 DEF UsefulMemory, VmBlockSize
<1>2. UsedChunks(mm) * ChunkPayload = 0
  BY NothingUsed, ConstantsAre
<1> HIDE DEF U, V
<1>3. V < U /\ U > 0 /\ U - 0 = U
  BY <1>1
<1>4. AvailableSpace = IF U > 0 THEN U - 0 ELSE 0
  BY <1>2 DEF AvailableSpace, U
<1> QED
  BY <1>1, <1>3, <1>4 DEF U, V

\* The calls of save_to_disk (future.rs:84-86, 124-126).
Short == SpillToRestore \/ SpillToSave

\* When save_to_disk takes nothing, a match is too long for a VM block.
LEMMA StuckFor ==
    ASSUME IInv, Sound, Right, Short, <<>> \in Takings
    PROVE  SomeOversized(block)
<1> SUFFICES ASSUME ~ SomeOversized(block) PROVE FALSE
  OBVIOUS
<1>1. TypeOK /\ HeapShape /\ Memory /\ Position /\ IsArchive(archive) /\ archive.version = "future" /\ ~ opts.wraps
  BY TypesAre DEF IInv, Sound
<1>2. /\ pc = "process" \/ (pc = "save" /\ MustSave)
      /\ pc = "process" => AvailableSpace < VmBlockSize
      /\ pc = "save" => MatchList[cur].len > AvailableSpace
  BY DEF Short, SpillToRestore, SpillToSave, MustSave, ToSave
<1>3. block \in 1 .. Len(archive.lists) /\ block \in Nat
  <2>1. block <= archive.present
    BY <1>1, <1>2 DEF Position, InABlock
  <2>2. block \in DOMAIN archive.lists /\ DOMAIN archive.lists = 1 .. Len(archive.lists)
    BY <1>1, <2>1, Inside, TypesAre, ArchiveShape
  <2>3. block \in Nat
    BY <1>1, TypesAre
  <2> QED
    BY <2>2, <2>3
<1>4. ASSUME NEW b \in 1 .. block, NEW k \in DOMAIN archive.lists[b],
             archive.lists[b][k].len < MaximumSave
      PROVE  /\ archive.lists[b][k].len \in Nat /\ VmBlockSize \in Nat
             /\ SpillHeader + archive.lists[b][k].len + EndMark <= VmBlockSize
  <2> DEFINE r == archive.lists[b][k]
             l == r.len
             V == VmBlockSize
  <2>1. b \in 1 .. Len(archive.lists)
    <3> DEFINE x == Len(archive.lists)
    <3>1. x \in Nat /\ block \in 1 .. x
      BY <1>1, <1>3, TypesAre
    <3> HIDE DEF x
    <3>2. b \in 1 .. x
      BY <3>1
    <3> QED
      BY <3>2 DEF x
  <2>2. r \in Match
    BY <1>1, <2>1, ArchiveShape
  <2>3. l \in Nat
    BY <2>2 DEF Match
  <2>4. ~ Oversized(r)
    BY <1>1 DEF SomeOversized, Range
  <2>5. ~ (SpillHeader + l + EndMark > V)
    BY <1>4, <2>4 DEF Oversized
  <2>6. SpillHeader \in Nat /\ EndMark \in Nat /\ V \in Nat
    BY <1>1, FutureLzAssumption, TypesAre DEF VmBlockSize
  <2> HIDE DEF l, V
  <2>7. SpillHeader + l + EndMark <= V
    BY <2>3, <2>5, <2>6
  <2> QED
    BY <2>3, <2>6, <2>7 DEF l, V, r
<1>5. ASSUME NEW e \in heap, e.index # 0
      PROVE  Fits(<<>>, e) /\ \E p \in Places(archive) : Rec(p).dest = e.dest
  <2>1. e \in Matches
    BY <1>1, <1>5, BarrierIs DEF Memory, Matches, IsMarkingPoint
  <2>2. PICK p \in Waiting : IsEntryOf(e, p)
    BY <2>1 DEF Right, Pending, AllTrue
  <2>3. p \in Places(archive) /\ Known(p)
    BY <2>2 DEF Waiting
  <2>4. p[1] \in 1 .. Len(archive.lists) /\ p[2] \in DOMAIN archive.lists[p[1]]
        /\ Rec(p) = archive.lists[p[1]][p[2]]
    BY <1>1, <2>3, PlacesAre
  <2>5. p[1] \in 1 .. block
    <3> DEFINE b == p[1]
    <3>1. b \in Nat /\ b >= 1 /\ (b < block \/ b = block)
      BY <2>3, <2>4 DEF Known
    <3> HIDE DEF b
    <3>2. b \in 1 .. block
      BY <1>3, <3>1
    <3> QED
      BY <3>2 DEF b
  <2>6. Rec(p).len = e.len /\ e.len < MaximumSave /\ Rec(p).dest = e.dest
    BY <1>5, <2>2 DEF IsEntryOf
  <2>7. e.len \in Nat /\ VmBlockSize \in Nat /\ SpillHeader + e.len + EndMark <= VmBlockSize
    BY <1>4, <2>4, <2>5, <2>6
  <2>8. Fits(<<>>, e)
    BY <2>7, FitsEmpty
  <2> QED
    BY <2>3, <2>6, <2>8
<1>6. GoodHeap
  BY <1>1, HeapIs
<1>7. \A k \in 1 .. Len(Candidates) : Candidates[k].index = 0
  BY <1>1, <1>5, <1>6, NothingTaken
<1>8. ASSUME DOMAIN mm = {} PROVE FALSE
  <2> DEFINE U == UsefulMemory
             V == VmBlockSize
             l == MatchList[cur].len
  <2>1. AvailableSpace = U /\ U \in Nat /\ V \in Nat /\ V < U
    BY <1>1, <1>8, RoomWhenEmpty
  <2>2. CASE pc = "process"
    <3>1. U < V
      BY <1>2, <2>1, <2>2
    <3> HIDE DEF U, V
    <3> QED
      BY <2>1, <3>1
  <2>3. CASE pc = "save"
    <3>1. cur \in DOMAIN archive.lists[block] /\ l = archive.lists[block][cur].len
      <4>1. cur \in Nat /\ cur > 0 /\ cur <= Len(MatchList)
        BY <1>1, <1>2, <2>3, TypesAre DEF Position, MustSave, ToSave
      <4>2. MatchList \in Seq(Match)
        BY <1>1, <1>3, ArchiveShape DEF IsArchive, MatchList
      <4>3. cur \in DOMAIN MatchList
        BY <4>1, <4>2
      <4> QED
        BY <4>3 DEF MatchList
    <3>2. l < MaximumSave /\ l > U
      BY <1>2, <2>1, <2>3 DEF MustSave
    <3>3. block \in 1 .. block
      BY <1>3
    <3>4. l \in Nat /\ SpillHeader + l + EndMark <= V
      BY <1>4, <3>1, <3>2, <3>3
    <3>5. SpillHeader \in Nat /\ EndMark \in Nat
      BY FutureLzAssumption
    <3> HIDE DEF l, U, V
    <3> QED
      BY <2>1, <3>2, <3>4, <3>5
  <2> QED
    BY <1>2, <2>2, <2>3
<1>9. PICK e \in heap : e.index # 0
  BY <1>1, <1>8, TypesAre DEF Memory
<1>10. e # LastOf(heap)
  <2>1. PICK p \in Places(archive) : Rec(p).dest = e.dest
    BY <1>5, <1>9
  <2> DEFINE d == e.dest
             x == Len(archive.original)
  <2>2. d \in Nat /\ d < x /\ x < MaxOffset /\ x \in Nat /\ MaxOffset \in Nat
    BY <1>1, <2>1, DestInside
  <2> HIDE DEF d, x
  <2>3. d < MaxOffset /\ ~ (MaxOffset < d) /\ d # MaxOffset
    BY <2>2
  <2>4. ~ Before(Barrier, e)
    BY <2>3, BarrierIs DEF Before, d
  <2>5. Barrier \in heap \ {e}
    BY <1>1, <1>9, BarrierIs DEF HeapShape
  <2> QED
    BY <1>6, <2>4, <2>5, LastIs DEF GoodHeap
<1> QED
  BY <1>6, <1>7, <1>9, <1>10, CandidatesAll

\* Whoever looks for room in vain has met a match that is too long.
Blamed == Sound /\ Stuck => SomeOversized(block)

LEMMA BlamedKept ==
    ASSUME IInv, Intact, Blamed, [Next]_vars
    PROVE  Blamed'
<1>1. archive' = archive /\ opts' = opts /\ Sound' = Sound
  BY JobStays DEF Sound
<1> SUFFICES ASSUME Sound, Stuck' PROVE SomeOversized(block)'
  BY <1>1 DEF Blamed
<1>2. CASE Stuck
  <2>1. SomeOversized(block)
    BY <1>2 DEF Blamed
  <2>2. block' = block
    BY <1>2 DEF Stuck, Next, EndOfInput, IoBlock, ReadBlock, TakeMatch, SpillToRestore, RestoreMark,
           CopyTail, SkipDone, RememberLong, SpillToSave, SaveMatch, MustSave, ToSave, WriteBlock,
           SpinOn, Terminated, vars
  <2> QED
    BY <1>1, <2>1, <2>2 DEF SomeOversized, Oversized, MaximumSave, VmBlockSize
<1>3. CASE ~ Stuck
  <2>1. Short
    BY <1>3 DEF Short, Stuck, Next, EndOfInput, IoBlock, ReadBlock, TakeMatch, RestoreMark,
           CopyTail, SkipDone, RememberLong, SaveMatch, MustSave, ToSave, WriteBlock,
           SpinOn, Terminated, vars
  <2>2. SaveToDisk /\ block' = block /\ Running
    BY <2>1 DEF Short, SpillToRestore, SpillToSave, MustSave, ToSave, Running
  <2>3. PICK taken \in Takings : pc' = IF taken # <<>> THEN pc ELSE WhenStuck
    BY <2>2 DEF SaveToDisk
  <2>4. taken = <<>>
    BY <1>3, <2>3 DEF Stuck
  <2>5. Right
    BY <2>2 DEF Intact
  <2>6. SomeOversized(block)
    BY <2>1, <2>3, <2>4, <2>5, StuckFor
  <2> QED
    BY <1>1, <2>2, <2>6 DEF SomeOversized, Oversized, MaximumSave, VmBlockSize
<1> QED
  BY <1>2, <1>3

\* An undamaged archive of either layout decodes: no block is found broken, no checksum
\* differs, and whenever memory is short there is something to spill, unless a match so far
\* is longer than a VM block can hold.
THEOREM IntactDecodes == Spec => []IntactArchiveDecodes
<1>1. Init => Blamed
  BY DEF Init, Blamed, Stuck
<1>2. IInv /\ Intact /\ Blamed /\ [Next]_vars => Blamed'
  BY BlamedKept
<1>3. ASSUME IInv, Intact, Blamed, IoRight PROVE IntactArchiveDecodes
  <2> SUFFICES ASSUME Undamaged
               PROVE  /\ pc \notin {"broken", "mismatch"}
                      /\ pc \in {"stalled", "spinning"} => SomeOversized(block)
    BY DEF IntactArchiveDecodes
  <2>1. CASE archive.version = "future"
    BY <1>3, <2>1 DEF Intact, Blamed, Sound, Undamaged, Stuck
  <2>2. CASE archive.version = "io"
    BY <1>3, <2>2 DEF IoRight, Undamaged
  <2>3. IsArchive(archive)
    BY <1>3, TypesAre DEF IInv
  <2> QED
    BY <2>1, <2>2, <2>3 DEF IsArchive
<1> QED
  BY <1>1, <1>2, <1>3, Invariance, IntactInvariant, AlwaysIoRight, PTL DEF Spec

-----------------------------------------------------------------------------
(* The memory estimate of -i.                                                *)

LEMMA FinitePlaces ==
    ASSUME IsArchive(archive), Sound
    PROVE  IsFiniteSet(Places(archive))
<1> DEFINE lists == archive.lists
           n == Len(lists)
           InList(b) == {<<b, k>> : k \in DOMAIN lists[b]}
           all == {InList(b) : b \in 1 .. n}
<1>1. n \in Nat /\ DOMAIN lists = 1 .. n /\ \A b \in 1 .. n : lists[b] \in Seq(Match)
  BY ArchiveShape DEF Sound
<1>2. ASSUME NEW b \in 1 .. n PROVE IsFiniteSet(InList(b))
  <2> DEFINE I == DOMAIN lists[b]
             f == [k \in I |-> <<b, k>>]
  <2>1. IsFiniteSet(I)
    <3>1. Len(lists[b]) \in Nat /\ I = 1 .. Len(lists[b])
      BY <1>1
    <3> HIDE DEF I
    <3> QED
      BY <3>1, FS_Interval
  <2>2. InList(b) = {f[k] : k \in I}
    OBVIOUS
  <2> HIDE DEF I, f, InList
  <2> QED
    BY <2>1, <2>2, FiniteImage
<1>3. IsFiniteSet(all)
  <2> DEFINE f == [b \in 1 .. n |-> InList(b)]
  <2>1. IsFiniteSet(1 .. n)
    BY <1>1, FS_Interval
  <2>2. all = {f[b] : b \in 1 .. n}
    OBVIOUS
  <2> HIDE DEF InList, n, f, all
  <2> QED
    BY <2>1, <2>2, FiniteImage
<1>4. IsFiniteSet(UNION all)
  <2>1. \A s \in all : IsFiniteSet(s)
    BY <1>2
  <2> HIDE DEF all
  <2> QED
    BY <1>3, <2>1, FS_UNION
<1>5. Places(archive) = UNION all
  BY <1>1 DEF Places
<1> QED
  BY <1>4, <1>5

\* The matches that are not too long to be saved, by their places.
Savable == {p \in Places(archive) : Rec(p).len < MaximumSave}

\* The chunks that each of them takes.
Weight == [p \in Savable |-> ChunksFor(Rec(p).len)]

\* Those met in the first b blocks whose copies are due later.
DueAfter(b) == {p \in Savable : p[1] <= b /\ Rec(p).dest >= EndOf(archive, b)}

LEMMA SavableIs ==
    ASSUME IsArchive(archive), Sound
    PROVE  /\ IsFiniteSet(Savable)
           /\ \A p \in Savable : /\ p \in Places(archive)
                                 /\ p[1] \in 1 .. Len(archive.lists)
                                 /\ p[2] \in DOMAIN archive.lists[p[1]]
                                 /\ Rec(p) = archive.lists[p[1]][p[2]]
                                 /\ Rec(p).dest \in Nat /\ Rec(p).len \in Nat \ {0}
                                 /\ Rec(p).dest < Len(archive.original)
                                 /\ Weight[p] = ChunksFor(Rec(p).len) /\ Weight[p] \in Nat
<1>1. IsFiniteSet(Savable)
  <2>1. Savable \subseteq Places(archive)
    BY DEF Savable
  <2> QED
    BY <2>1, FinitePlaces, FS_Subset
<1>2. ASSUME NEW p \in Savable
      PROVE  /\ p \in Places(archive)
             /\ p[1] \in 1 .. Len(archive.lists)
             /\ p[2] \in DOMAIN archive.lists[p[1]]
             /\ Rec(p) = archive.lists[p[1]][p[2]]
             /\ Rec(p).dest \in Nat /\ Rec(p).len \in Nat \ {0}
             /\ Rec(p).dest < Len(archive.original)
             /\ Weight[p] = ChunksFor(Rec(p).len) /\ Weight[p] \in Nat
  <2>1. p \in Places(archive)
    BY DEF Savable
  <2>2. /\ p[1] \in 1 .. Len(archive.lists) /\ p[2] \in DOMAIN archive.lists[p[1]]
        /\ Rec(p) = archive.lists[p[1]][p[2]]
    BY <2>1, PlacesAre
  <2>3. /\ Rec(p).dest \in Nat /\ Rec(p).len \in Nat \ {0}
        /\ Rec(p).dest + Rec(p).len <= Len(archive.original)
    BY <2>1, RecordsAre DEF GoodRecord
  <2>4. Len(archive.original) \in Nat
    BY ArchiveShape
  <2>5. Weight[p] = ChunksFor(Rec(p).len) /\ Weight[p] \in Nat
    <3> DEFINE l == Rec(p).len
    <3>1. l \in Nat
      BY <2>3
    <3>2. Weight[p] = ChunksFor(l)
      BY DEF Weight
    <3> HIDE DEF l
    <3>3. ChunksFor(l) \in Nat
      BY <3>1, ChunksForIs
    <3> QED
      BY <3>2, <3>3 DEF l
  <2> QED
    BY <2>1, <2>2, <2>3, <2>4, <2>5
<1> QED
  BY <1>1, <1>2

LEMMA NeedMemIs ==
    ASSUME NEW len \in Nat \ {0}
    PROVE  Info!NeedMem(len) = ChunksFor(len)
<1> DEFINE q == (len - 1) \div ChunkPayload
<1>1. ChunkPayload \in Nat \ {0}
  BY FutureLzAssumption
<1>2. q \in Nat /\ q + 1 = (len + ChunkPayload - 1) \div ChunkPayload
  BY <1>1, RoundedUp
<1>3. Info!NeedMem(len) = q + 1
  BY DEF Info!NeedMem
<1> HIDE DEF q
<1> QED
  BY <1>2, <1>3 DEF ChunksFor

\* What the estimate adds or takes away for a set of places is the sum of their chunks.
LEMMA NeedMemOfIs ==
    ASSUME IsArchive(archive), Sound,
           NEW g, Additive(g, Weight, Savable), NEW A \in SUBSET Savable
    PROVE  Info!NeedMemOf(archive.lists, A) = g[A]
<1> DEFINE v == Weight
           Need(x) == Info!NeedMem(archive.lists[x[1]][x[2]].len)
           Solves(iter) ==
              iter = [s \in SUBSET A |->
                        IF s = {} THEN 0
                        ELSE Need(CHOOSE x \in s : TRUE) + iter[s \ {CHOOSE x \in s : TRUE}]]
<1>1. Info!NeedMemOf(archive.lists, A) = (CHOOSE iter : Solves(iter))[A]
  BY DEF Info!NeedMemOf, Info!MapThenSumSet, Info!MapThenFoldSet
<1>2. \A x \in A : v[x] = Need(x)
  BY SavableIs, NeedMemIs
<1> HIDE DEF Need
<1>3. ASSUME NEW iter PROVE Solves(iter) <=> IsSumOver(iter, v, A)
  <2> DEFINE f == [s \in SUBSET A |->
                     IF s = {} THEN 0
                     ELSE Need(CHOOSE x \in s : TRUE) + iter[s \ {CHOOSE x \in s : TRUE}]]
             h == [s \in SUBSET A |-> IF s = {} THEN 0 ELSE v[AnyValue(s)] + iter[s \ {AnyValue(s)}]]
  <2>1. ASSUME NEW s \in SUBSET A, s # {} PROVE v[AnyValue(s)] = Need(AnyValue(s))
    <3>1. AnyValue(s) \in A
      BY <2>1 DEF AnyValue
    <3> QED
      BY <1>2, <3>1
  <2>2. \A s \in SUBSET A : f[s] = h[s]
    <3> SUFFICES ASSUME NEW s \in SUBSET A PROVE f[s] = h[s]
      OBVIOUS
    <3>1. CASE s = {}
      BY <3>1
    <3>2. CASE s # {}
      <4>1. f[s] = Need(AnyValue(s)) + iter[s \ {AnyValue(s)}]
        BY <3>2 DEF AnyValue
      <4>2. h[s] = v[AnyValue(s)] + iter[s \ {AnyValue(s)}]
        BY <3>2
      <4> QED
        BY <2>1, <3>2, <4>1, <4>2
    <3> QED
      BY <3>1, <3>2
  <2>3. f = [s \in SUBSET A |-> f[s]] /\ h = [s \in SUBSET A |-> h[s]]
    OBVIOUS
  <2>4. (Solves(iter) <=> iter = f) /\ (IsSumOver(iter, v, A) <=> iter = h)
    BY DEF IsSumOver
  <2> HIDE DEF f, h, Solves
  <2>5. f = h
    BY <2>2, <2>3
  <2> QED
    BY <2>4, <2>5
<1> HIDE DEF Solves, v
<1>4. (\E iter : IsSumOver(iter, v, A)) /\ \A iter : IsSumOver(iter, v, A) => iter[A] = g[A]
  <2>1. IsFiniteSet(Savable)
    BY SavableIs
  <2>2. Additive(g, v, Savable)
    BY DEF v
  <2> QED
    BY <2>1, <2>2, SumOver
<1>5. Solves(CHOOSE iter : Solves(iter))
  BY <1>3, <1>4
<1> QED
  BY <1>1, <1>3, <1>4, <1>5

\* Where blocks end: the last may be taken to be longer than it is.
AreEnds(ends) ==
    LET n == Len(archive.lists)
    IN /\ ends \in [1 .. n -> Nat]
       /\ \A b \in 1 .. n - 1 : ends[b] = EndOf(archive, b)
       /\ n > 0 => ends[n] >= Len(archive.original)

LEMMA EndsAscend ==
    ASSUME IsArchive(archive), NEW b \in 1 .. Len(archive.lists), NEW c \in 1 .. Len(archive.lists), b <= c
    PROVE  EndOf(archive, b) <= EndOf(archive, c)
<1>1. FirstOf(b) <= FirstOf(c)
  <2>1. c \in Nat \ {0} /\ b \in 1 .. c
    BY ArchiveShape
  <2> QED
    BY <2>1, StartsGrow
<1>2. FirstOf(b) \in Nat /\ FirstOf(c) \in Nat /\ FirstOf(c) < EndOf(archive, c) /\ EndOf(archive, c) \in Nat
  BY ArchiveShape
<1>3. FirstOf(b) < EndOf(archive, c)
  BY <1>1, <1>2
<1> QED
  BY <1>3, StartsBefore

\* The last block ends where the original does, so nothing is due after it.
LEMMA LastEnd ==
    ASSUME IsArchive(archive), Len(archive.lists) > 0
    PROVE  EndOf(archive, Len(archive.lists)) = Len(archive.original)
<1> DEFINE n == Len(archive.lists)
<1>1. n \in Nat /\ n \in 1 .. n /\ Len(archive.original) \in Nat
  BY ArchiveShape
<1>2. /\ EndOf(archive, n) = (IF FirstOf(n + 1) <= Len(archive.original) THEN FirstOf(n + 1)
                             ELSE Len(archive.original))
      /\ FirstOf(n + 1) >= Len(archive.original)
  BY <1>1, ArchiveShape
<1>3. FirstOf(n + 1) \in Nat
  <2>1. n \in Nat \ {0} /\ BufSize \in Nat
    BY <1>1, SizesPositive
  <2>2. FirstOf(n) \in Nat /\ FirstOf(n + 1) = FirstOf(n) + BufSize
    BY <2>1, StartsGrow
  <2> QED
    BY <2>1, <2>2
<1> HIDE DEF n
<1> QED
  BY <1>1, <1>2, <1>3 DEF n

Comes == [p \in Savable |-> p[1]]
Due == [p \in Savable |-> Rec(p).dest]

\* Between such ends matches come and go as the estimate says.
LEMMA EndsAreLimits ==
    ASSUME IsArchive(archive), Sound, NEW ends, AreEnds(ends), NEW g, Additive(g, Weight, Savable)
    PROVE  IsFlow(Savable, Comes, Due, ends, Len(archive.lists), Weight, g)
<1> DEFINE n == Len(archive.lists)
           size == Len(archive.original)
           e == [b \in 1 .. n |-> EndOf(archive, b)]
<1>1. n \in Nat /\ size \in Nat /\ \A b \in 1 .. n : e[b] \in Nat /\ e[b] <= size
  BY ArchiveShape
<1>2. \A b, c \in 1 .. n : b <= c => e[b] <= e[c]
  BY EndsAscend
<1>3. ends \in [1 .. n -> Nat] /\ (\A b \in 1 .. n - 1 : ends[b] = e[b]) /\ (n > 0 => ends[n] >= size)
  BY <1>1 DEF AreEnds
<1> HIDE DEF n, size, e
<1>4. ASSUME NEW b \in 1 .. n, NEW c \in 1 .. n, b <= c PROVE ends[b] <= ends[c]
  <2>1. CASE c = n
    <3>1. CASE b = n
      BY <1>1, <1>3, <2>1, <3>1
    <3>2. CASE b # n
      <4>1. b \in 1 .. n - 1 /\ n > 0
        BY <1>1, <3>2
      <4>2. ends[b] = e[b] /\ e[b] \in Nat /\ e[b] <= size /\ ends[n] >= size /\ ends[n] \in Nat
        BY <1>1, <1>3, <2>1, <4>1
      <4> QED
        BY <1>1, <2>1, <4>2
    <3> QED
      BY <3>1, <3>2
  <2>2. CASE c # n
    <3>1. b \in 1 .. n - 1 /\ c \in 1 .. n - 1
      BY <1>1, <1>4, <2>2
    <3> QED
      BY <1>2, <1>3, <1>4, <3>1
  <2> QED
    BY <2>1, <2>2
<1>5. n \in Nat /\ ends \in [1 .. n -> Nat] /\ \A b, c \in 1 .. n : b <= c => ends[b] <= ends[c]
  BY <1>1, <1>3, <1>4
<1> DEFINE Q == Savable
<1>6. IsFiniteSet(Q) /\ \A p \in Q : Weight[p] \in Nat /\ p[1] \in 1 .. n /\ Rec(p).dest \in Nat
  BY SavableIs DEF n
<1>7. Comes \in [Q -> 1 .. n] /\ Due \in [Q -> Nat]
  BY <1>6 DEF Comes, Due
<1> HIDE DEF Q
<1>8. Additive(g, Weight, Q)
  BY DEF Q
<1>9. IsFlow(Q, Comes, Due, ends, n, Weight, g)
  BY <1>5, <1>6, <1>7, <1>8 DEF IsFlow
<1> QED
  BY <1>9 DEF n, Q

\* What the estimate holds after each block.
LEMMA HeldIs ==
    ASSUME IsArchive(archive), Sound, NEW ends, AreEnds(ends), NEW b \in 0 .. Len(archive.lists)
    PROVE  Held(Savable, Comes, Due, ends, b) = DueAfter(b)
<1> DEFINE n == Len(archive.lists)
           e == EndOf(archive, b)
           size == Len(archive.original)
<1>1. n \in Nat /\ size \in Nat
  BY ArchiveShape
<1>2. ASSUME NEW p \in Savable
      PROVE  p \in Held(Savable, Comes, Due, ends, b) <=> p \in DueAfter(b)
  <2> DEFINE i == p[1]
             d == Rec(p).dest
  <2>1. i \in 1 .. n /\ d \in Nat /\ d < size
    BY SavableIs
  <2>2. p \in Held(Savable, Comes, Due, ends, b) <=> i <= b /\ (b > 0 => d >= ends[b])
    BY DEF Held, Comes, Due
  <2>3. p \in DueAfter(b) <=> i <= b /\ d >= e
    BY DEF DueAfter
  <2>4. b > 0 /\ b < n => ends[b] = e
    BY <1>1 DEF AreEnds
  <2>5. b > 0 /\ b = n => ends[b] >= size /\ e = size /\ ends[b] \in Nat
    BY <1>1, LastEnd DEF AreEnds
  <2> HIDE DEF i, d, e, size, n
  <2>6. b \in 0 .. n
    BY DEF n
  <2>7. CASE b = 0
    BY <2>1, <2>2, <2>3, <2>7
  <2>8. CASE b > 0 /\ b < n
    BY <2>2, <2>3, <2>4, <2>8
  <2>9. CASE b > 0 /\ b = n
    BY <1>1, <2>1, <2>2, <2>3, <2>5, <2>9
  <2> QED
    BY <1>1, <2>6, <2>7, <2>8, <2>9
<1>3. Held(Savable, Comes, Due, ends, b) \subseteq Savable /\ DueAfter(b) \subseteq Savable
  BY DEF Held, DueAfter
<1> QED
  BY <1>2, <1>3

\* What is held after block b, with its chunks and the most so far.
EstimateAfter(g, top) ==
    [b \in 0 .. Len(archive.lists) |->
        [pending |-> DueAfter(b), ram |-> g[DueAfter(b)], maxRam |-> top[b]]]

Chunks(g) == [b \in 0 .. Len(archive.lists) |-> g[DueAfter(b)]]

LEMMA EstimateStep ==
    ASSUME IsArchive(archive), IsOptions(opts), Sound, NEW ends, AreEnds(ends),
           NEW g, Additive(g, Weight, Savable), NEW top, IsPeak(top, Chunks(g), Len(archive.lists)),
           NEW b \in 1 .. Len(archive.lists)
    PROVE  Info!RamAtBlock(EstimateAfter(g, top)[b - 1], archive.lists, b, ends[b], MaximumSave)
              = EstimateAfter(g, top)[b]
<1> DEFINE lists == archive.lists
           n == Len(lists)
           acc == EstimateAfter(g, top)[b - 1]
           before == Held(Savable, Comes, Due, ends, b - 1)
           after == Held(Savable, Comes, Due, ends, b)
           gone == LetGo(Savable, Comes, Due, ends, b)
           come == TakenIn(Savable, Comes, Due, ends, b)
           reached == {x \in acc.pending : lists[x[1]][x[2]].dest < ends[b]}
           added == {<<b, k>> : k \in {j \in DOMAIN lists[b] : /\ lists[b][j].dest >= ends[b]
                                                              /\ lists[b][j].len < MaximumSave}}
<1>1. n \in Nat /\ b \in 0 .. n /\ b - 1 \in 0 .. n /\ b \in DOMAIN lists
  BY ArchiveShape
<1>2. /\ after = (before \ gone) \cup come
      /\ after \in SUBSET Savable /\ gone \in SUBSET Savable /\ come \in SUBSET Savable
      /\ g[after] = g[before] - g[gone] + g[come]
  <2>1. b \in 1 .. n /\ IsFlow(Savable, Comes, Due, ends, n, Weight, g)
    BY EndsAreLimits
  <2> HIDE DEF n
  <2> QED
    BY <2>1, HeldStep
<1>3. before = DueAfter(b - 1) /\ after = DueAfter(b)
  BY <1>1, HeldIs
<1>4. acc = [pending |-> before, ram |-> g[before], maxRam |-> top[b - 1]]
  BY <1>1, <1>3 DEF EstimateAfter
<1>5. EstimateAfter(g, top)[b] = [pending |-> after, ram |-> g[after], maxRam |-> top[b]]
  BY <1>1, <1>3 DEF EstimateAfter
<1>6. top[b] = IF g[after] > top[b - 1] THEN g[after] ELSE top[b - 1]
  <2>1. Chunks(g)[b] = g[after]
    BY <1>1, <1>3 DEF Chunks
  <2> QED
    BY <2>1 DEF IsPeak
<1>7. reached = gone
  <2>1. acc.pending = before
    BY <1>4
  <2>2. \A x \in before : x \in Savable /\ Due[x] = lists[x[1]][x[2]].dest
    BY SavableIs DEF Held, Due
  <2>3. gone = {x \in before : Due[x] < ends[b]}
    BY DEF LetGo
  <2> HIDE DEF before, acc, gone
  <2> QED
    BY <2>1, <2>2, <2>3
<1>8. added = come
  <2>1. ASSUME NEW x \in added PROVE x \in come
    <3>1. PICK k \in DOMAIN lists[b] : /\ x = <<b, k>>
                                       /\ lists[b][k].dest >= ends[b] /\ lists[b][k].len < MaximumSave
      OBVIOUS
    <3>2. x \in Places(archive) /\ Rec(x) = lists[b][k] /\ x[1] = b
      BY <3>1, PlacesAre
    <3> QED
      BY <3>1, <3>2 DEF Savable, Comes, Due, TakenIn
  <2>2. ASSUME NEW x \in come PROVE x \in added
    <3>1. x \in Savable /\ x[1] = b /\ Rec(x).dest >= ends[b]
      BY DEF Comes, Due, TakenIn
    <3>2. x \in Places(archive) /\ Rec(x).len < MaximumSave
      BY <3>1 DEF Savable
    <3>3. x = <<x[1], x[2]>> /\ x[2] \in DOMAIN lists[x[1]] /\ Rec(x) = lists[x[1]][x[2]]
      BY <3>2, PlacesAre
    <3> QED
      BY <3>1, <3>2, <3>3
  <2> HIDE DEF added, come
  <2> QED
    BY <2>1, <2>2
<1>9. Info!NeedMemOf(lists, gone) = g[gone] /\ Info!NeedMemOf(lists, come) = g[come]
  BY <1>2, NeedMemOfIs
<1>10. Info!RamAtBlock(acc, lists, b, ends[b], MaximumSave) =
          LET ram == acc.ram - Info!NeedMemOf(lists, reached) + Info!NeedMemOf(lists, added)
          IN [pending |-> (acc.pending \ reached) \cup added, ram |-> ram,
              maxRam |-> IF ram > acc.maxRam THEN ram ELSE acc.maxRam]
  BY DEF Info!RamAtBlock
<1> HIDE DEF lists, acc, before, after, gone, come, reached, added
<1>11. Info!RamAtBlock(acc, lists, b, ends[b], MaximumSave) =
          [pending |-> after, ram |-> g[after], maxRam |-> IF g[after] > top[b - 1] THEN g[after] ELSE top[b - 1]]
  BY <1>2, <1>4, <1>7, <1>8, <1>9, <1>10
<1> QED
  BY <1>5, <1>6, <1>11 DEF lists, acc

LEMMA NothingDue ==
    ASSUME IsArchive(archive), Sound
    PROVE  DueAfter(0) = {}
<1>1. Len(archive.lists) \in Nat /\ \A p \in Savable : p[1] \in 1 .. Len(archive.lists)
  BY SavableIs, ArchiveShape
<1> QED
  BY <1>1 DEF DueAfter

\* The estimate is the largest sum after any block.
LEMMA EstimateIs ==
    ASSUME IsArchive(archive), IsOptions(opts), Sound, NEW ends, AreEnds(ends),
           NEW g, Additive(g, Weight, Savable), NEW top, IsPeak(top, Chunks(g), Len(archive.lists))
    PROVE  Info!MaxRam(archive.lists, ends, MaximumSave) = top[Len(archive.lists)]
<1> DEFINE lists == archive.lists
           n == Len(lists)
           a == EstimateAfter(g, top)
           At(h, b) == IF b = 0 THEN [pending |-> {}, ram |-> 0, maxRam |-> 0]
                       ELSE Info!RamAtBlock(h[b - 1], lists, b, ends[b], MaximumSave)
           Follows(h) == h = [b \in 0 .. n |-> At(h, b)]
<1>1. n \in Nat
  BY ArchiveShape
<1>2. Info!MaxRam(lists, ends, MaximumSave) = (CHOOSE h : Follows(h))[n].maxRam
  BY DEF Info!MaxRam
<1>3. a[0] = [pending |-> {}, ram |-> 0, maxRam |-> 0]
  <2>1. DueAfter(0) = {}
    BY NothingDue
  <2>2. g[{}] = 0
    BY DEF Additive
  <2>3. 0 \in 0 .. n
    BY <1>1
  <2>4. Chunks(g)[0] = 0
    BY <2>1, <2>2, <2>3 DEF Chunks
  <2>5. top[0] = 0
    BY <2>4 DEF IsPeak
  <2>6. a[0] = [pending |-> DueAfter(0), ram |-> g[DueAfter(0)], maxRam |-> top[0]]
    BY <2>3 DEF EstimateAfter
  <2> HIDE DEF a
  <2> QED
    BY <2>1, <2>2, <2>5, <2>6
<1>4. \A b \in 1 .. n : Info!RamAtBlock(a[b - 1], lists, b, ends[b], MaximumSave) = a[b]
  BY EstimateStep
<1>5. a = [b \in 0 .. n |-> a[b]]
  BY DEF EstimateAfter
<1>6. a[n].maxRam = top[n]
  <2>1. n \in 0 .. n
    BY <1>1
  <2>2. a[n] = [pending |-> DueAfter(n), ram |-> g[DueAfter(n)], maxRam |-> top[n]]
    BY <2>1 DEF EstimateAfter
  <2> HIDE DEF a
  <2> QED
    BY <2>2
<1> HIDE DEF a, n, lists
<1>7. Follows(a)
  <2>1. \A b \in 0 .. n : a[b] = At(a, b)
    BY <1>1, <1>3, <1>4
  <2> HIDE DEF At
  <2> QED
    BY <1>5, <2>1
<1>8. ASSUME NEW h, Follows(h) PROVE h[n] = a[n]
  <2> DEFINE T == {b \in 0 .. n : h[b] = a[b]}
  <2>1. \A b \in 0 .. n : h[b] = At(h, b)
    <3> HIDE DEF At
    <3> QED
      BY <1>8
  <2>2. 0 \in T
    BY <1>1, <1>3, <2>1
  <2>3. ASSUME NEW b \in 0 .. n - 1, b \in T PROVE b + 1 \in T
    <3> DEFINE c == b + 1
    <3>1. c \in 1 .. n /\ c \in 0 .. n /\ c - 1 = b /\ c # 0
      BY <1>1
    <3> HIDE DEF c
    <3>2. h[c] = Info!RamAtBlock(h[c - 1], lists, c, ends[c], MaximumSave)
      BY <2>1, <3>1
    <3>3. h[c - 1] = a[c - 1]
      BY <2>3, <3>1
    <3>4. h[c] = a[c]
      BY <1>4, <3>1, <3>2, <3>3
    <3> QED
      BY <3>1, <3>4 DEF c
  <2> HIDE DEF T
  <2>4. 0 .. n \subseteq T
    BY <1>1, <2>2, <2>3, InductionUpTo
  <2>5. n \in T
    BY <1>1, <2>4
  <2> QED
    BY <2>5 DEF T
<1> HIDE DEF Follows
<1>9. Follows(CHOOSE h : Follows(h))
  BY <1>7
<1>10. (CHOOSE h : Follows(h))[n] = a[n]
  BY <1>8, <1>9
<1> QED
  BY <1>2, <1>6, <1>10 DEF n, lists

\* The sizes of the blocks, which -i finds in their headers.
LEMMA SizesAre ==
    ASSUME IsArchive(archive)
    PROVE  LET n == Len(archive.lists)
           IN /\ n \in Nat /\ Sizes \in Seq(Nat) /\ Len(Sizes) = n /\ DOMAIN Sizes = 1 .. n
              /\ \A b \in 1 .. n : /\ FirstOf(b) \in Nat /\ EndOf(archive, b) \in Nat
                                   /\ FirstOf(b) + Sizes[b] = EndOf(archive, b)
                                   /\ b > 1 => EndOf(archive, b - 1) = FirstOf(b)
                                   /\ FirstOf(b) = (b - 1) * BufSize
<1> DEFINE n == Len(archive.lists)
           size == Len(archive.original)
<1>1. n \in Nat /\ size \in Nat /\ DOMAIN archive.lists = 1 .. n /\ BufSize \in Nat \ {0}
  BY ArchiveShape, SizesPositive
<1>2. ASSUME NEW b \in 1 .. n
      PROVE  /\ FirstOf(b) \in Nat /\ EndOf(archive, b) \in Nat
             /\ Sizes[b] = EndOf(archive, b) - FirstOf(b) /\ Sizes[b] \in Nat
             /\ FirstOf(b) = (b - 1) * BufSize
  <2>1. FirstOf(b) \in Nat /\ EndOf(archive, b) \in Nat /\ FirstOf(b) < EndOf(archive, b)
    BY ArchiveShape
  <2>2. FirstOf(b) = (b - 1) * BufSize
    BY DEF FirstOf
  <2>3. Sizes[b] = Min({b * BufSize, size}) - (b - 1) * BufSize
    BY <1>1 DEF Sizes
  <2>4. b * BufSize = FirstOf(b) + BufSize
    <3>1. b \in Nat
      BY <1>1
    <3> HIDE DEF n
    <3> QED
      BY <1>1, <2>2, <3>1
  <2>5. EndOf(archive, b) = Min({FirstOf(b) + BufSize, size})
    BY DEF EndOf
  <2>6. Sizes[b] = EndOf(archive, b) - FirstOf(b)
    BY <2>2, <2>3, <2>4, <2>5
  <2> QED
    BY <2>1, <2>2, <2>6
<1>3. ASSUME NEW b \in 1 .. n, b > 1 PROVE EndOf(archive, b - 1) = FirstOf(b)
  <2> DEFINE c == b - 1
  <2>1. c \in 1 .. n /\ c + 1 = b
    BY <1>1, <1>3
  <2>2. EndOf(archive, c) = (IF FirstOf(c + 1) <= size THEN FirstOf(c + 1) ELSE size)
    BY <2>1, ArchiveShape
  <2>3. FirstOf(b) \in Nat /\ FirstOf(b) < EndOf(archive, b) /\ EndOf(archive, b) <= size
        /\ EndOf(archive, b) \in Nat
    BY ArchiveShape
  <2> HIDE DEF c, size
  <2>4. EndOf(archive, c) = FirstOf(b)
    BY <1>1, <2>1, <2>2, <2>3
  <2> QED
    BY <2>4 DEF c
<1>4. DOMAIN Sizes = 1 .. n /\ Sizes = [b \in 1 .. n |-> Sizes[b]]
  BY <1>1 DEF Sizes
<1>5. Sizes \in Seq(Nat) /\ Len(Sizes) = n
  <2>1. \A b \in 1 .. n : Sizes[b] \in Nat
    BY <1>2
  <2> HIDE DEF n
  <2>2. Sizes \in [1 .. n -> Nat]
    BY <1>4, <2>1
  <2> QED
    BY <1>1, <2>2
<1>6. ASSUME NEW b \in 1 .. n PROVE FirstOf(b) + Sizes[b] = EndOf(archive, b)
  BY <1>2
<1> QED
  BY <1>1, <1>2, <1>3, <1>4, <1>5, <1>6

\* They add up to the ends of the blocks.
LEMMA FutureLzEndsAre ==
    ASSUME IsArchive(archive)
    PROVE  AreEnds(Info!FutureLzEnds(Sizes))
<1> DEFINE n == Len(archive.lists)
<1>1. /\ n \in Nat /\ Sizes \in Seq(Nat) /\ Len(Sizes) = n /\ DOMAIN Sizes = 1 .. n
      /\ \A b \in 1 .. n : /\ FirstOf(b) \in Nat /\ EndOf(archive, b) \in Nat /\ Sizes[b] \in Nat
                           /\ FirstOf(b) + Sizes[b] = EndOf(archive, b)
                           /\ b > 1 => EndOf(archive, b - 1) = FirstOf(b)
  <2>1. \A b \in 1 .. n : Sizes[b] \in Nat
    BY SizesAre
  <2> QED
    BY <2>1, SizesAre
<1>2. ASSUME NEW b \in 1 .. n PROVE Info!FutureLzEnds(Sizes)[b] = EndOf(archive, b)
  <2> DEFINE s == SubSeq(Sizes, 1, b)
             c == [k \in 0 .. b |-> IF k = 0 THEN 0 ELSE EndOf(archive, k)]
             Solves(iter) ==
                iter = [t \in SUBSET (1 .. b) |->
                          IF t = {} THEN 0 ELSE iter[t \ {Greatest(t)}] + s[Greatest(t)]]
  <2>1. s \in [1 .. b -> Nat] /\ DOMAIN s = 1 .. b /\ \A k \in 1 .. b : s[k] = Sizes[k]
    <3> HIDE DEF n
    <3>1. b \in Nat /\ b <= n
      BY <1>1
    <3> DEFINE t == Sizes
    <3>2. t \in Seq(Nat) /\ Len(t) = n /\ s = SubSeq(t, 1, b)
      BY <1>1
    <3> HIDE DEF t, s
    <3>3. s \in Seq(Nat) /\ Len(s) = b /\ \A k \in 1 .. b : s[k] = t[k]
      BY <3>1, <3>2
    <3>4. s \in [1 .. b -> Nat] /\ DOMAIN s = 1 .. b
      BY <3>3
    <3> QED
      BY <3>3, <3>4 DEF t
  <2>2. Info!FutureLzEnds(Sizes)[b] = (CHOOSE iter : Solves(iter))[1 .. b]
    BY <1>1, <2>1 DEF Info!FutureLzEnds, Info!FoldLeft, Info!MapThenFoldSet, Info!Max, Greatest
  <2> HIDE DEF s
  <2>4. AreSums(c, s, b)
    <3>1. b \in 1 .. n /\ \A k \in 1 .. b : k \in 1 .. n
      <4> HIDE DEF n
      <4> QED
        BY <1>1
    <3>2. c \in [0 .. b -> Nat] /\ c[0] = 0
      BY <1>1, <3>1
    <3>3. ASSUME NEW k \in 1 .. b PROVE c[k] = c[k - 1] + s[k]
      <4>1. c[k] = EndOf(archive, k) /\ s[k] = Sizes[k]
        BY <1>1, <2>1, <3>1
      <4>2. CASE k = 1
        <5>1. c[k - 1] = 0 /\ FirstOf(k) = 0
          BY <3>1, <4>2, StartsGrow
        <5> QED
          BY <1>1, <3>1, <4>1, <5>1
      <4>3. CASE k # 1
        <5>1. k > 1 /\ k - 1 \in 1 .. b
          BY <1>1, <3>1, <4>3
        <5>2. c[k - 1] = EndOf(archive, k - 1)
          BY <5>1
        <5> QED
          BY <1>1, <3>1, <4>1, <5>1, <5>2
      <4> QED
        BY <4>2, <4>3
    <3> QED
      BY <3>2, <3>3 DEF AreSums
  <2>5. \A iter : Solves(iter) <=> IsFoldedSum(iter, s, b)
    BY DEF IsFoldedSum
  <2>6. c[b] = EndOf(archive, b) /\ b \in Nat
    BY <1>1
  <2> HIDE DEF Solves, c
  <2>7. (\E iter : IsFoldedSum(iter, s, b)) /\ \A iter : IsFoldedSum(iter, s, b) => iter[1 .. b] = c[b]
    BY <2>1, <2>4, <2>6, FoldedSumIs
  <2>8. Solves(CHOOSE iter : Solves(iter))
    BY <2>5, <2>7
  <2>9. (CHOOSE iter : Solves(iter))[1 .. b] = c[b]
    BY <2>5, <2>7, <2>8
  <2> QED
    BY <2>2, <2>6, <2>9
<1>3. Info!FutureLzEnds(Sizes) \in [1 .. n -> Nat]
  <2> DEFINE f == Info!FutureLzEnds(Sizes)
             Sum(b) == Info!FoldLeft(+, 0, SubSeq(Sizes, 1, b))
  <2>1. f = [b \in DOMAIN Sizes |-> Sum(b)]
    BY DEF Info!FutureLzEnds, Info!FoldLeft, Info!MapThenFoldSet, Info!Max
  <2>2. \A b \in 1 .. n : f[b] \in Nat
    BY <1>1, <1>2
  <2> HIDE DEF f, n, Sum
  <2>3. f \in [1 .. n -> Nat]
    BY <1>1, <2>1, <2>2
  <2> QED
    BY <2>3 DEF f
<1>4. n > 0 => Info!FutureLzEnds(Sizes)[n] >= Len(archive.original)
  <2> SUFFICES ASSUME n > 0 PROVE Info!FutureLzEnds(Sizes)[n] >= Len(archive.original)
    OBVIOUS
  <2>1. n \in 1 .. n
    BY <1>1
  <2>2. Info!FutureLzEnds(Sizes)[n] = EndOf(archive, n)
    BY <1>2, <2>1
  <2>3. EndOf(archive, n) = Len(archive.original) /\ Len(archive.original) \in Nat
    BY LastEnd, ArchiveShape
  <2> QED
    BY <2>2, <2>3
<1>5. \A b \in 1 .. n - 1 : b \in 1 .. n
  BY <1>1
<1> QED
  BY <1>2, <1>3, <1>4, <1>5 DEF AreEnds

\* Taking all blocks to be as long as the first, only the last end may be wrong.
LEMMA IndexLzEndsAre ==
    ASSUME IsArchive(archive)
    PROVE  AreEnds(Info!IndexLzEnds(Sizes))
<1> DEFINE n == Len(archive.lists)
           size == Len(archive.original)
           f == Info!IndexLzEnds(Sizes)
<1>1. /\ n \in Nat /\ size \in Nat /\ DOMAIN Sizes = 1 .. n /\ BufSize \in Nat \ {0}
      /\ \A b \in 1 .. n : /\ FirstOf(b) \in Nat /\ EndOf(archive, b) \in Nat /\ Sizes[b] \in Nat
                           /\ FirstOf(b) + Sizes[b] = EndOf(archive, b)
                           /\ b > 1 => EndOf(archive, b - 1) = FirstOf(b)
  <2>1. \A b \in 1 .. n : Sizes[b] \in Nat
    BY SizesAre
  <2> QED
    BY <2>1, SizesAre, ArchiveShape, SizesPositive
<1>2. f = [b \in 1 .. n |-> b * Sizes[1]]
  BY <1>1 DEF Info!IndexLzEnds
<1>3. f \in [1 .. n -> Nat]
  <2>1. \A b \in 1 .. n : b * Sizes[1] \in Nat
    <3> SUFFICES ASSUME NEW b \in 1 .. n PROVE b * Sizes[1] \in Nat
      OBVIOUS
    <3>1. 1 \in 1 .. n /\ b \in Nat
      BY <1>1
    <3> DEFINE one == Sizes[1]
    <3>2. one \in Nat
      BY <1>1, <3>1
    <3> HIDE DEF one
    <3>3. b * one \in Nat
      BY <3>1, <3>2
    <3> QED
      BY <3>3 DEF one
  <2> HIDE DEF f
  <2> QED
    BY <1>2, <2>1
<1>4. ASSUME n > 1 PROVE Sizes[1] = BufSize
  <2>1. 1 \in 1 .. n /\ 2 \in 1 .. n /\ 2 > 1 /\ 2 - 1 = 1
    BY <1>1, <1>4
  <2>2. FirstOf(1) = 0 /\ FirstOf(1 + 1) = FirstOf(1) + BufSize
    BY StartsGrow
  <2>3. EndOf(archive, 1) = FirstOf(2) /\ FirstOf(1) + Sizes[1] = EndOf(archive, 1) /\ Sizes[1] \in Nat
    BY <1>1, <2>1
  <2> QED
    BY <1>1, <2>2, <2>3
<1>5. ASSUME NEW b \in 1 .. n - 1 PROVE f[b] = EndOf(archive, b)
  <2> DEFINE c == b + 1
  <2>1. n > 1 /\ b \in 1 .. n /\ c \in 1 .. n /\ c > 1 /\ c - 1 = b
    BY <1>1
  <2>2. EndOf(archive, b) = FirstOf(c)
    <3> HIDE DEF c
    <3> QED
      BY <1>1, <2>1
  <2>3. FirstOf(c) = b * BufSize
    BY <2>1 DEF FirstOf
  <2>4. f[b] = b * Sizes[1]
    BY <1>2, <2>1
  <2> HIDE DEF f, c, n
  <2> QED
    BY <1>4, <2>1, <2>2, <2>3, <2>4
<1>6. n > 0 => f[n] >= size
  <2> SUFFICES ASSUME n > 0 PROVE f[n] >= size
    OBVIOUS
  <2>1. n \in 1 .. n /\ f[n] = n * Sizes[1]
    BY <1>1, <1>2
  <2>2. CASE n = 1
    <3>1. FirstOf(1) = 0 /\ EndOf(archive, 1) = size
      BY <2>2, LastEnd, StartsGrow
    <3>2. FirstOf(1) + Sizes[1] = EndOf(archive, 1) /\ Sizes[1] \in Nat
      BY <1>1, <2>1, <2>2
    <3> HIDE DEF f, n
    <3> QED
      BY <1>1, <2>1, <2>2, <3>1, <3>2
  <2>3. CASE n > 1
    <3>1. FirstOf(n + 1) >= size
      BY ArchiveShape
    <3>2. FirstOf(n + 1) = n * BufSize
      <4> HIDE DEF n
      <4> QED
        BY <1>1 DEF FirstOf
    <3> HIDE DEF f, n
    <3> QED
      BY <1>4, <2>1, <2>3, <3>1, <3>2
  <2> HIDE DEF f, n, size
  <2>4. n \in Nat /\ n > 0
    BY <1>1
  <2>5. n = 1 \/ n > 1
    BY <2>4
  <2> QED
    BY <2>2, <2>3, <2>5
<1> QED
  BY <1>3, <1>5, <1>6 DEF AreEnds

-----------------------------------------------------------------------------
(* The VM file is used when the estimate says so.                            *)

\* The matches that wait and are held in memory or in the VM file.
Saved == {p \in Waiting : Rec(p).len < MaximumSave /\ (pc = "process" => p[1] < block)}

\* The entry of a match waits with its bytes, if it is not too long and its block is over.
LEMMA SavedHasData ==
    ASSUME IInv, Sound, Running, NEW e \in Matches, NEW p \in Waiting, IsEntryOf(e, p)
    PROVE  p \in Saved <=> e.index # 0
<1> DEFINE s == e.src
           l == e.len
           b == p[1]
           start == BlockStart
<1>1. IsArchive(archive) /\ TypeOK /\ e \in heap /\ e # Barrier /\ ~ IsMarkingPoint(e)
  BY TypesAre DEF IInv, Matches
<1>2. p \in Places(archive) /\ Known(p)
  BY DEF Waiting
<1>3. /\ Rec(p).src = s /\ Rec(p).len = l /\ s \in Nat /\ l \in Nat \ {0}
      /\ FirstOf(b) \in Nat /\ EndOf(archive, b) \in Nat
      /\ FirstOf(b) <= s /\ s + l <= EndOf(archive, b)
  BY <1>1, <1>2, RecordsAre DEF IsEntryOf, GoodRecord
<1>4. b \in 1 .. Len(archive.lists) /\ Len(archive.lists) \in Nat /\ block \in Nat \ {0} /\ b \in Nat \ {0}
  BY <1>1, <1>2, PlacesAre, TypesAre
<1>5. b <= block
  BY <1>2, <1>4 DEF Known
<1>6. e.index # 0 => l < MaximumSave
  BY DEF IsEntryOf
<1>7. Within(e) \/ (FromBefore(s, e.dest, l) /\ (e.index # 0 \/ l >= MaximumSave))
  BY <1>1 DEF IInv, Sources
<1>8. start \in Nat /\ (b = block => FirstOf(b) = start)
  BY <1>4, StartsGrow DEF BlockStart
<1>9. b < block => EndOf(archive, b) <= start
  <2> SUFFICES ASSUME b < block PROVE EndOf(archive, b) <= start
    OBVIOUS
  <2>1. EndOf(archive, b) <= FirstOf(b + 1)
    BY <1>4, ArchiveShape, <1>1
  <2>2. b + 1 \in 1 .. block
    BY <1>4
  <2>3. FirstOf(b + 1) <= FirstOf(block)
    BY <1>4, <2>2, StartsGrow
  <2>4. FirstOf(b + 1) \in Nat
    <3>1. b + 1 \in Nat \ {0}
      BY <1>4
    <3> QED
      BY <3>1, StartsGrow
  <2>5. FirstOf(block) = start
    BY DEF BlockStart
  <2> HIDE DEF start, b
  <2> QED
    BY <1>3, <1>8, <2>1, <2>3, <2>4, <2>5
<1>10. MaximumSave \in Nat
  BY <1>1 DEF TypeOK, IsOptions, MaximumSave
<1>11. Within(e) => pc = "process" /\ e.index = 0 /\ start <= s
  BY DEF Within
<1>12. FromBefore(s, e.dest, l) /\ pc = "process" => s + l <= start
  BY DEF FromBefore, Complete
<1>13. p \in Saved <=> l < MaximumSave /\ (pc = "process" => b < block)
  BY <1>3 DEF Saved
<1> HIDE DEF s, l, b, start
<1>14. ASSUME e.index # 0 PROVE p \in Saved
  <2>1. FromBefore(s, e.dest, l) /\ l < MaximumSave
    BY <1>6, <1>7, <1>11, <1>14
  <2>2. pc = "process" => b < block
    <3> SUFFICES ASSUME pc = "process", b = block PROVE FALSE
      BY <1>4, <1>5
    <3>1. s + l <= start /\ start <= s
      BY <1>3, <1>8, <1>12, <2>1
    <3> QED
      BY <1>3, <1>8, <3>1
  <2> QED
    BY <1>13, <2>1, <2>2
<1>15. ASSUME p \in Saved PROVE e.index # 0
  <2>1. ~ (l >= MaximumSave)
    BY <1>3, <1>10, <1>13, <1>15
  <2>2. CASE Within(e)
    <3>1. b < block /\ start <= s
      BY <1>11, <1>13, <1>15, <2>2
    <3>2. s + l <= start
      BY <1>3, <1>8, <1>9, <3>1
    <3> QED
      BY <1>3, <1>8, <3>1, <3>2
  <2> QED
    BY <1>7, <2>1, <2>2
<1> QED
  BY <1>14, <1>15

\* As long as the VM file is not used, the chunks in use are those of the matches saved.
LEMMA SavedChunks ==
    ASSUME IInv, Sound, Right, Running, newBlock = 0, NEW g, Additive(g, Weight, Savable)
    PROVE  Saved \in SUBSET Savable /\ UsedChunks(mm) = g[Saved]
<1> DEFINE H == DOMAIN mm
           w == ChunkWeights(mm)
           IsFor(i, p) == \E e \in Matches : e.index = i /\ IsEntryOf(e, p)
           For(i) == CHOOSE p \in Saved : IsFor(i, p)
           f == [i \in H |-> For(i)]
<1>1. IsArchive(archive) /\ TypeOK /\ Memory /\ VmFile
  BY TypesAre DEF IInv
<1>2. IsFiniteSet(H) /\ \A i \in H : i # 0 /\ Len(mm[i]) \in Nat
  BY <1>1, TypesAre DEF Memory
<1>3. (\A i \in H : w[i] = ChunksFor(Len(mm[i])) /\ w[i] \in Nat) /\ \E h : Additive(h, w, H)
  BY <1>2, WeightsAre
<1>4. PICK h : Additive(h, w, H)
  BY <1>3
<1>5. UsedChunks(mm) = h[H]
  BY <1>2, <1>3, <1>4, UsedChunksIs
<1>6. Marks = {}
  <2>1. DOMAIN disk = {}
    BY <1>1, TypesAre
  <2> QED
    BY <1>1, <2>1 DEF VmFile
<1>7. Saved \in SUBSET Savable
  BY DEF Saved, Savable, Waiting
<1>8. AllTrue /\ Once /\ AllThere
  BY DEF Right, Pending
<1>9. ASSUME NEW i \in H PROVE f[i] \in Saved /\ IsFor(i, f[i])
  <2>1. PICK e \in heap : e.index = i
    BY <1>1 DEF Memory
  <2>2. e \in Matches
    <3>1. e.index # 0 /\ e.len > 0
      BY <1>1, <1>2, <2>1 DEF Memory
    <3> QED
      BY <3>1, BarrierIs DEF Matches, IsMarkingPoint
  <2>3. PICK p \in Waiting : IsEntryOf(e, p)
    BY <1>8, <2>2 DEF AllTrue
  <2>4. p \in Saved
    BY <1>2, <2>1, <2>2, <2>3, SavedHasData
  <2> QED
    BY <2>1, <2>2, <2>3, <2>4
<1> DEFINE Ok(i, p) == i \in H /\ p \in Saved /\ IsFor(i, p)
<1>10. ASSUME NEW i, NEW j, NEW p, NEW q, Ok(i, p), Ok(j, q) PROVE i = j <=> p = q
  <2>1. PICK d \in Matches : d.index = i /\ IsEntryOf(d, p)
    BY <1>10
  <2>2. PICK e \in Matches : e.index = j /\ IsEntryOf(e, q)
    BY <1>10
  <2>3. Rec(p).dest = d.dest /\ Rec(q).dest = e.dest /\ p \in Places(archive) /\ q \in Places(archive)
    BY <1>10, <2>1, <2>2 DEF IsEntryOf, Saved, Waiting
  <2>4. ASSUME i = j PROVE p = q
    <3>1. d = e
      BY <1>1, <1>2, <1>10, <2>1, <2>2, <2>4 DEF Memory, Matches
    <3> QED
      BY <1>1, <2>3, <3>1, DestsDiffer
  <2>5. ASSUME p = q PROVE i = j
    <3>1. d = e
      BY <1>8, <2>3, <2>5 DEF Once
    <3> QED
      BY <2>1, <2>2, <3>1
  <2> QED
    BY <2>4, <2>5
<1>11. ASSUME NEW i, NEW p, Ok(i, p) PROVE w[i] = Weight[p]
  <2>1. PICK e \in Matches : e.index = i /\ IsEntryOf(e, p)
    BY <1>11
  <2>2. Len(mm[i]) = e.len /\ e.len = Rec(p).len
    BY <1>1, <1>2, <1>11, <2>1 DEF Memory, Matches, IsEntryOf
  <2>3. p \in Savable
    BY <1>7, <1>11
  <2> QED
    BY <1>3, <1>11, <2>2, <2>3 DEF Weight
<1>12. ASSUME NEW p \in Saved PROVE \E i : Ok(i, p)
  <2>1. HasEntry(Rec(p).dest)
    BY <1>6, <1>8 DEF AllThere, HasSpilled, Saved
  <2>2. PICK e \in Matches : e.dest = Rec(p).dest
    BY <2>1 DEF HasEntry
  <2>3. PICK q \in Waiting : IsEntryOf(e, q)
    BY <1>8 DEF AllTrue
  <2>4. q = p
    <3>1. Rec(q).dest = Rec(p).dest /\ q \in Places(archive) /\ p \in Places(archive)
      BY <2>2, <2>3 DEF IsEntryOf, Waiting, Saved
    <3> QED
      BY <1>1, <3>1, DestsDiffer
  <2>5. e.index # 0
    BY <2>3, <2>4, SavedHasData
  <2>6. e.index \in H
    BY <1>1, <2>5 DEF Memory, Matches
  <2> QED
    BY <2>3, <2>4, <2>6
<1>13. \A i \in H : Ok(i, f[i])
  BY <1>9
<1> HIDE DEF For, H
<1>14. f = [i \in H |-> f[i]]
  OBVIOUS
<1> HIDE DEF Ok, f, w, H
<1> DEFINE R == Savable
<1>15. /\ f \in [H -> R]
       /\ \A i, j \in H : i # j => f[i] # f[j]
       /\ \A i \in H : w[i] = Weight[f[i]]
  <2>1. \A i \in H : f[i] \in R
    BY <1>7, <1>9
  <2> HIDE DEF R
  <2> QED
    BY <1>10, <1>11, <1>13, <1>14, <2>1
<1>16. {f[i] : i \in H} = Saved
  <2>1. \A i \in H : f[i] \in Saved
    BY <1>9
  <2>2. ASSUME NEW p \in Saved PROVE \E i \in H : p = f[i]
    <3>1. PICK i : Ok(i, p)
      BY <1>12
    <3>2. i \in H
      BY <3>1 DEF Ok
    <3>3. Ok(i, f[i])
      BY <1>13, <3>2
    <3>4. f[i] = p
      BY <1>10, <3>1, <3>3
    <3> QED
      BY <3>2, <3>4
  <2> QED
    BY <2>1, <2>2
<1>17. h[H] = g[Saved]
  <2> DEFINE v == Weight
  <2>1. Additive(g, v, R)
    OBVIOUS
  <2>2. f \in [H -> R] /\ (\A i, j \in H : i # j => f[i] # f[j]) /\ \A i \in H : w[i] = v[f[i]]
    BY <1>15
  <2> HIDE DEF R, v
  <2>3. ASSUME IsFiniteSet(H), Additive(h, w, H), Additive(g, v, R), f \in [H -> R],
               \A i, j \in H : i # j => f[i] # f[j],
               \A i \in H : w[i] = v[f[i]],
               NEW J, J \in SUBSET H
        PROVE  h[J] = g[{f[i] : i \in J}]
    BY ONLY <2>3, SumOfImage
  <2>4. H \in SUBSET H
    OBVIOUS
  <2>5. h[H] = g[{f[i] : i \in H}]
    BY <1>2, <1>4, <2>1, <2>2, <2>3, <2>4
  <2> QED
    BY <1>16, <2>5
<1> QED
  BY <1>5, <1>7, <1>17

\* As long as the VM file is not used, the memory is not overdrawn.
InMemory == newBlock = 0 => UsedChunks(mm) * ChunkPayload <= UsefulMemory

\* VM blocks are only added.
LEMMA NewBlocks == [Next]_vars => newBlock' = newBlock \/ newBlock' = newBlock + 1
  BY DEF Next, EndOfInput, IoBlock, ReadBlock, TakeMatch, SpillToRestore, RestoreMark, RestoreFromDisk,
         CopyTail, SkipDone, RememberLong, SpillToSave, SaveMatch, WriteBlock, SpinOn, Terminated,
         SaveToDisk, Spill, vars, memoryVars

LEMMA InMemoryKept ==
    ASSUME IInv, MemoryIsFunction, [Next]_vars, [BudgetKept]_vars, InMemory
    PROVE  InMemory'
<1>1. UNCHANGED opts /\ UsefulMemory' = UsefulMemory
  BY JobStays DEF UsefulMemory
<1>2. newBlock' = 0 => newBlock = 0
  <2>1. newBlock \in Nat
    BY TypesAre DEF IInv
  <2>2. newBlock' = newBlock \/ newBlock' = newBlock + 1
    BY NewBlocks
  <2> QED
    BY <2>1, <2>2
<1> SUFFICES ASSUME newBlock' = 0 PROVE UsedChunks(mm') * ChunkPayload <= UsefulMemory
  BY <1>1 DEF InMemory
<1> DEFINE a == UsedChunks(mm')
           b == UsedChunks(mm)
<1>3. b * ChunkPayload <= UsefulMemory
  BY <1>2 DEF InMemory
<1>4. CASE mm' = mm
  BY <1>3, <1>4
<1>5. CASE mm' # mm
  <2>1. BudgetKept
    BY <1>5 DEF vars, memoryVars
  <2>2. DOMAIN disk = {}
    <3>1. DOMAIN disk = 0 .. newBlock - 1
      BY TypesAre DEF IInv
    <3> QED
      BY <1>2, <3>1
  <2>3. a * ChunkPayload <= UsefulMemory \/ a * ChunkPayload < b * ChunkPayload
    BY <1>5, <2>1, <2>2 DEF BudgetKept
  <2>4. ChunkPayload \in Nat \ {0} /\ UsefulMemory \in Nat
    BY FutureLzAssumption DEF IInv, TypeOK, IsOptions, UsefulMemory
  <2>5. a \in Nat /\ b \in Nat
    <3>1. IInv'
      BY InvariantKept
    <3>2. IsFiniteSet(DOMAIN mm) /\ (\A i \in DOMAIN mm : Len(mm[i]) \in Nat)
          /\ IsFiniteSet(DOMAIN mm') /\ (\A i \in DOMAIN mm' : Len(mm'[i]) \in Nat)
      <4>1. IsFiniteSet(DOMAIN mm) /\ (\A i \in DOMAIN mm : Len(mm[i]) \in Nat)
        BY TypesAre DEF IInv, Memory
      <4>2. IsFiniteSet(DOMAIN mm') /\ (\A i \in DOMAIN mm' : Len(mm'[i]) \in Nat)
        BY <3>1, TypesAre DEF IInv, Memory
      <4> QED
        BY <4>1, <4>2
    <3>3. ASSUME NEW m, IsFiniteSet(DOMAIN m), \A i \in DOMAIN m : Len(m[i]) \in Nat
          PROVE  UsedChunks(m) \in Nat
      <4>1. PICK h : Additive(h, ChunkWeights(m), DOMAIN m)
        BY <3>3, WeightsAre
      <4>2. UsedChunks(m) = h[DOMAIN m]
        BY <3>3, <4>1, WeightsAre, UsedChunksIs
      <4> QED
        BY <4>1, <4>2 DEF Additive
    <3> QED
      BY <3>2, <3>3
  <2> HIDE DEF a, b
  <2>6. a * ChunkPayload \in Nat /\ b * ChunkPayload \in Nat
    BY <2>4, <2>5
  <2>7. a * ChunkPayload <= UsefulMemory
    BY <1>3, <2>3, <2>4, <2>6
  <2> QED
    BY <2>7 DEF a
<1> QED
  BY <1>4, <1>5

LEMMA AlwaysInMemory == Spec => []InMemory
<1>1. Init => InMemory
  <2> SUFFICES ASSUME Init PROVE InMemory
    OBVIOUS
  <2>1. DOMAIN mm = {} /\ TypeOK
    BY InitIs DEF Init, IInv
  <2>2. UsedChunks(mm) = 0 /\ UsefulMemory \in Nat
    BY <2>1, NothingUsed, RoomWhenEmpty
  <2> QED
    BY <2>2, ConstantsAre DEF InMemory
<1>2. IInv /\ MemoryIsFunction /\ [Next]_vars /\ [BudgetKept]_vars /\ InMemory => InMemory'
  BY InMemoryKept
<1> QED
  BY <1>1, <1>2, Invariance, AlwaysFunction, BudgetAlwaysKept, PTL DEF Spec

\* More bytes than there is room for need more chunks than there are.
LEMMA TooManyFor ==
    ASSUME TypeOK, UsedChunks(mm) \in Nat, NEW len \in Nat \ {0}, len > AvailableSpace,
           NEW n \in Nat, n >= UsedChunks(mm) + ChunksFor(len)
    PROVE  n * ChunkPayload > UsefulMemory
<1> DEFINE u == UsedChunks(mm)
           w == ChunksFor(len)
           c == ChunkPayload
           U == UsefulMemory
           a == AvailableSpace
<1>1. c \in Nat \ {0} /\ U \in Nat
  BY FutureLzAssumption DEF TypeOK, IsOptions, UsefulMemory
<1>2. PICK q \in Nat : /\ U = q * c
                       /\ u * c \in Nat
                       /\ a > 0 => u < q /\ a = (q - u) * c
  BY AvailableIs
<1>3. w \in Nat /\ w > 0 /\ \A k \in Nat : len <= k * c <=> w <= k
  BY ChunksForIs
<1>4. a = IF U > u * c THEN U - u * c ELSE 0
  BY DEF AvailableSpace
<1> HIDE DEF u, w, c, U, a
<1>5. u \in Nat /\ len > a /\ n >= u + w
  BY DEF u, w, a
<1>6. u + w > q
  <2>1. CASE a > 0
    <3> DEFINE k == q - u
    <3>1. k \in Nat /\ a = k * c /\ u + k = q
      BY <1>2, <1>5, <2>1
    <3> HIDE DEF k
    <3>2. ~ (len <= k * c)
      BY <1>1, <1>5, <3>1
    <3>3. ~ (w <= k)
      BY <1>3, <3>1, <3>2
    <3> QED
      BY <1>3, <1>5, <3>1, <3>3
  <2>2. CASE ~ (a > 0)
    <3>1. ~ (U > u * c)
      BY <1>1, <1>2, <1>4, <2>2
    <3>2. q <= u
      <4> SUFFICES ASSUME u + 1 <= q PROVE FALSE
        BY <1>2, <1>5
      <4>1. (u + 1) * c <= q * c
        BY <1>1, <1>2, <1>5
      <4>2. (u + 1) * c = u * c + c
        BY <1>1, <1>5
      <4> QED
        BY <1>1, <1>2, <3>1, <4>1, <4>2
    <3> QED
      BY <1>2, <1>3, <1>5, <3>2
  <2> QED
    BY <2>1, <2>2
<1>7. n >= q + 1
  BY <1>2, <1>3, <1>5, <1>6
<1>8. n * c >= (q + 1) * c
  BY <1>1, <1>2, <1>7
<1>9. (q + 1) * c = q * c + c
  BY <1>1, <1>2
<1>10. n * c > U
  BY <1>1, <1>2, <1>8, <1>9
<1> QED
  BY <1>10 DEF c, U

\* The sums of weights of what can be saved.
AddsUp(g) == Additive(g, Weight, Savable)

TooMany(b) == \A g : AddsUp(g) => g[DueAfter(b)] * ChunkPayload > UsefulMemory
NotTooMany(b) == \A g : AddsUp(g) => g[DueAfter(b)] * ChunkPayload <= UsefulMemory

\* The VM file has been used if what was due after some block so far is too much.
AsEstimated ==
    Sound => /\ newBlock > 0 => \E b \in 1 .. Len(archive.lists) : TooMany(b)
             /\ newBlock = 0 => \A b \in 0 .. block - 1 : NotTooMany(b)

\* In phase 3 what is saved is due after the block.
LEMMA SavedIsDue ==
    ASSUME IInv, Sound, Running, pc = "save"
    PROVE  /\ block \in 1 .. Len(archive.lists)
           /\ \A p : p \in Saved <=> p \in DueAfter(block) /\ Known(p)
           /\ cur > Len(MatchList) => \A p \in DueAfter(block) : Known(p)
<1>1. TypeOK /\ IsArchive(archive) /\ block <= archive.present
  BY TypesAre DEF IInv, Position, InABlock
<1>2. block \in 1 .. Len(archive.lists) /\ Len(archive.lists) \in Nat /\ Reached = BlockEnd /\ cur \in Nat
  BY <1>1, Inside, TypesAre, ReachedIs
<1>3. ASSUME NEW p \in Places(archive)
      PROVE  /\ p[1] \in Nat
             /\ Known(p) <=> p[1] < block \/ (p[1] = block /\ p[2] < cur)
             /\ p[1] = block => p[2] \in Nat /\ p[2] <= Len(MatchList)
  <2>1. p[1] \in 1 .. Len(archive.lists) /\ p[2] \in DOMAIN archive.lists[p[1]]
    BY <1>1, PlacesAre
  <2>2. Known(p) <=> p[1] < block \/ (p[1] = block /\ p[2] < cur)
    BY DEF Known
  <2>3. p[1] = block => p[2] \in Nat /\ p[2] <= Len(MatchList)
    <3>1. DOMAIN MatchList = 1 .. Len(MatchList) /\ Len(MatchList) \in Nat
      BY <1>1, Inside DEF Sound
    <3>2. p[1] = block => p[2] \in 1 .. Len(MatchList)
      BY <2>1, <3>1 DEF MatchList
    <3> DEFINE n == Len(MatchList)
    <3> HIDE DEF n
    <3> QED
      BY <3>1, <3>2 DEF n
  <2> QED
    BY <1>2, <2>1, <2>2, <2>3
<1>4. \A p : p \in Saved <=> /\ p \in Places(archive) /\ Rec(p).dest >= BlockEnd /\ Known(p)
                             /\ Rec(p).len < MaximumSave
  BY <1>2 DEF Saved, Waiting
<1>5. \A p : p \in DueAfter(block) <=> /\ p \in Places(archive) /\ Rec(p).dest >= BlockEnd /\ p[1] <= block
                                       /\ Rec(p).len < MaximumSave
  BY DEF DueAfter, Savable, BlockEnd
<1>6. \A p \in Places(archive) : Known(p) => p[1] <= block
  BY <1>2, <1>3
<1>7. ASSUME cur > Len(MatchList), NEW p \in DueAfter(block) PROVE Known(p)
  <2>1. p \in Places(archive) /\ p[1] <= block
    BY <1>5
  <2>2. Len(MatchList) \in Nat
    BY <1>1, Inside DEF Sound
  <2> DEFINE n == Len(MatchList)
  <2> HIDE DEF n
  <2>3. p[1] = block => p[2] < cur
    BY <1>2, <1>3, <1>7, <2>1, <2>2 DEF n
  <2> QED
    BY <1>2, <1>3, <2>1, <2>3
<1> QED
  BY <1>2, <1>4, <1>5, <1>6, <1>7

\* No chunk memory is left for a match: then too much is due after the block.
LEMMA FirstSpill ==
    ASSUME IInv, Sound, Right, newBlock = 0, SpillToSave
    PROVE  TooMany(block)
<1> SUFFICES ASSUME NEW g, AddsUp(g) PROVE g[DueAfter(block)] * ChunkPayload > UsefulMemory
  BY DEF TooMany
<1> DEFINE p == <<block, cur>>
           r == MatchList[cur]
           B == Saved \cup {p}
           A == DueAfter(block)
<1>1. /\ TypeOK /\ IsArchive(archive) /\ pc = "save" /\ Running
      /\ ToSave /\ ~ CopiedHere(r) /\ r.len < MaximumSave /\ r.len > AvailableSpace
  BY TypesAre DEF IInv, SpillToSave, MustSave, ToSave, Running
<1>2. cur \in Nat /\ cur \in DOMAIN MatchList /\ r.dest \in Nat /\ r.len \in Nat \ {0} /\ BlockEnd \in Nat
  BY <1>1, NextRecord
<1>3. block \in 1 .. Len(archive.lists) /\ Len(archive.lists) \in Nat
  BY <1>1, SavedIsDue, TypesAre
<1>4. p \in Places(archive) /\ Rec(p) = r /\ p[1] = block /\ p[2] = cur
  BY <1>1, <1>2, <1>3, PlacesAre DEF MatchList
<1>5. p \in A /\ p \in Savable
  <2>1. r.dest >= EndOf(archive, block)
    BY <1>1, <1>2 DEF CopiedHere, BlockEnd
  <2>2. p[1] <= block
    BY <1>3, <1>4
  <2> HIDE DEF p, r
  <2> QED
    BY <1>1, <1>4, <2>1, <2>2 DEF DueAfter, Savable
<1>6. ~ Known(p)
  <2>1. ~ (cur < cur) /\ ~ (block < block)
    BY <1>2, <1>3
  <2> HIDE DEF p
  <2> QED
    BY <1>1, <1>4, <2>1 DEF Known
<1>7. p \notin Saved /\ Saved \subseteq A
  BY <1>1, <1>6, SavedIsDue
<1>8. Saved \in SUBSET Savable /\ UsedChunks(mm) = g[Saved]
  BY <1>1, SavedChunks DEF AddsUp
<1>9. IsFiniteSet(Savable) /\ (\A x \in Savable : Weight[x] \in Nat) /\ Weight[p] = ChunksFor(r.len)
  <2>1. Weight[p] = ChunksFor(Rec(p).len)
    BY <1>1, <1>5, SavableIs
  <2> HIDE DEF p, r
  <2> QED
    BY <1>1, <1>4, <2>1, SavableIs
<1> DEFINE R == Savable
           v == Weight
<1>10. A \in SUBSET R /\ B \in SUBSET R /\ B \subseteq A /\ p \in R \ Saved
  BY <1>5, <1>7, <1>8 DEF DueAfter
<1>11. Additive(g, v, R)
  BY DEF AddsUp
<1> HIDE DEF A, p, r, R, v
<1>12. g[B] = v[p] + g[Saved]
  <2>1. Saved \in SUBSET R
    BY <1>8 DEF R
  <2> QED
    BY <1>10, <1>11, <2>1, SumOfOneMore
<1> HIDE DEF B
<1>13. g[B] <= g[A] /\ g[A] \in Nat /\ g[Saved] \in Nat
  <2>1. g[B] <= g[A]
    BY <1>9, <1>10, <1>11, SumGrows DEF R, v
  <2> QED
    BY <1>8, <1>10, <1>11, <2>1 DEF Additive, R
<1> DEFINE n == g[A]
<1>14. n \in Nat /\ n >= UsedChunks(mm) + ChunksFor(r.len) /\ UsedChunks(mm) \in Nat
  <2> DEFINE w == ChunksFor(r.len)
             u == UsedChunks(mm)
  <2>1. v[p] = w /\ v[p] \in Nat /\ u = g[Saved]
    BY <1>8, <1>9, <1>10 DEF v, R
  <2> HIDE DEF w, u
  <2>2. n \in Nat /\ n >= u + w /\ u \in Nat
    BY <1>12, <1>13, <2>1
  <2> QED
    BY <2>2 DEF w, u
<1> DEFINE len == r.len
<1>15. len \in Nat \ {0} /\ len > AvailableSpace
  BY <1>1, <1>2
<1> HIDE DEF n, len
<1>16. n * ChunkPayload > UsefulMemory
  BY <1>1, <1>14, <1>15, TooManyFor DEF len
<1> QED
  BY <1>16 DEF n, A

LEMMA EstimatesStay ==
    ASSUME UNCHANGED <<archive, opts>>
    PROVE  /\ Sound' = Sound
           /\ \A b : TooMany(b)' = TooMany(b)
           /\ \A b : NotTooMany(b)' = NotTooMany(b)
<1>1. /\ Places(archive)' = Places(archive)
      /\ \A p : Rec(p)' = Rec(p)
  BY ArchiveStays
<1>2. MaximumSave' = MaximumSave /\ UsefulMemory' = UsefulMemory
  BY DEF MaximumSave, UsefulMemory
<1>3. Savable' = Savable
  BY <1>1, <1>2 DEF Savable
<1>4. Weight' = Weight
  BY <1>1, <1>3 DEF Weight
<1>5. \A b : DueAfter(b)' = DueAfter(b)
  BY <1>1, <1>3 DEF DueAfter
<1>6. \A g : AddsUp(g)' = AddsUp(g)
  BY <1>3, <1>4 DEF AddsUp
<1>7. \A b : TooMany(b)' = TooMany(b) /\ NotTooMany(b)' = NotTooMany(b)
  BY <1>2, <1>5, <1>6 DEF TooMany, NotTooMany
<1> QED
  BY <1>7 DEF Sound

\* At the end of phase 3 everything that is due later is in memory.
LEMMA BlockFits ==
    ASSUME IInv, Sound, Right, InMemory, newBlock = 0, WriteBlock
    PROVE  NotTooMany(block)
<1> SUFFICES ASSUME NEW g, AddsUp(g) PROVE g[DueAfter(block)] * ChunkPayload <= UsefulMemory
  BY DEF NotTooMany
<1>1. pc = "save" /\ Running /\ cur > Len(MatchList)
  BY DEF WriteBlock, Running
<1>2. Saved = DueAfter(block)
  <2>1. \A p : p \in Saved <=> p \in DueAfter(block)
    BY <1>1, SavedIsDue
  <2>2. Saved \subseteq Waiting /\ DueAfter(block) \subseteq Savable
    BY DEF Saved, DueAfter
  <2> HIDE DEF Saved, DueAfter
  <2> QED
    BY <2>1, <2>2
<1>3. UsedChunks(mm) = g[Saved]
  BY <1>1, SavedChunks DEF AddsUp
<1> QED
  BY <1>2, <1>3 DEF InMemory

\* The VM file is first used to make room in phase 3.
LEMMA FirstUse ==
    ASSUME IInv, [Next]_vars, newBlock = 0, newBlock' > 0
    PROVE  SpillToSave
<1>1. newBlock' # 0
  OBVIOUS
<1>2. ~ SpillToRestore
  <2>1. Marks = {}
    <3>1. DOMAIN disk = 0 .. newBlock - 1 /\ VmFile
      BY TypesAre DEF IInv
    <3> QED
      BY <3>1 DEF VmFile
  <2>2. First(heap) \in heap
    BY FirstDue DEF IInv
  <2> QED
    BY <2>1, <2>2 DEF SpillToRestore, Marks
<1>3. newBlock' # newBlock
  BY <1>1
<1> QED
  BY <1>2, <1>3 DEF Next, EndOfInput, IoBlock, ReadBlock, TakeMatch, RestoreMark, RestoreFromDisk,
         CopyTail, SkipDone, RememberLong, SaveMatch, WriteBlock, SpinOn, Terminated, vars, memoryVars

LEMMA AsEstimatedKept ==
    ASSUME IInv, Intact, InMemory, AsEstimated, [Next]_vars
    PROVE  AsEstimated'
<1>1. UNCHANGED <<archive, opts>>
  BY JobStays
<1>2. /\ Sound' = Sound
      /\ \A b : TooMany(b)' = TooMany(b)
      /\ \A b : NotTooMany(b)' = NotTooMany(b)
  BY <1>1, EstimatesStay
<1> HIDE DEF TooMany, NotTooMany
<1> SUFFICES ASSUME Sound
             PROVE  /\ newBlock' > 0 => \E b \in 1 .. Len(archive.lists) : TooMany(b)
                    /\ newBlock' = 0 => \A b \in 0 .. block' - 1 : NotTooMany(b)
  BY <1>1, <1>2 DEF AsEstimated
<1>3. newBlock \in Nat /\ block \in Nat \ {0}
  BY TypesAre DEF IInv
<1>4. ASSUME newBlock' > 0 PROVE \E b \in 1 .. Len(archive.lists) : TooMany(b)
  <2>1. CASE newBlock > 0
    BY <2>1 DEF AsEstimated
  <2>2. CASE newBlock = 0
    <3>1. SpillToSave
      BY <1>4, <2>2, FirstUse
    <3>2. pc = "save" /\ Running
      BY <3>1 DEF SpillToSave, MustSave, ToSave, Running
    <3>3. TooMany(block) /\ block \in 1 .. Len(archive.lists)
      BY <2>2, <3>1, <3>2, FirstSpill, SavedIsDue DEF Intact
    <3> QED
      BY <3>3
  <2> QED
    BY <1>3, <2>1, <2>2
<1>5. ASSUME newBlock' = 0 PROVE \A b \in 0 .. block' - 1 : NotTooMany(b)
  <2>1. newBlock = 0
    <3>1. newBlock' = newBlock \/ newBlock' = newBlock + 1
      BY NewBlocks
    <3> QED
      BY <1>3, <1>5, <3>1
  <2>2. \A b \in 0 .. block - 1 : NotTooMany(b)
    BY <2>1 DEF AsEstimated
  <2>3. CASE block' = block
    BY <2>2, <2>3
  <2>4. CASE block' # block
    <3>1. WriteBlock /\ block' = block + 1 /\ Running
      BY <2>4 DEF Next, EndOfInput, IoBlock, ReadBlock, TakeMatch, SpillToRestore, RestoreMark, CopyTail,
             SkipDone, RememberLong, SpillToSave, SaveMatch, WriteBlock, SpinOn, Terminated, vars, Running
    <3>2. NotTooMany(block)
      BY <2>1, <3>1, BlockFits DEF Intact
    <3>3. \A b \in 0 .. block' - 1 : b = block \/ b \in 0 .. block - 1
      BY <1>3, <3>1
    <3> QED
      BY <2>2, <3>2, <3>3
  <2> QED
    BY <2>3, <2>4
<1> QED
  BY <1>4, <1>5

LEMMA AlwaysAsEstimated == Spec => []AsEstimated
<1>1. Init => AsEstimated
  <2> SUFFICES ASSUME Init, Sound PROVE \A b \in 0 .. block - 1 : NotTooMany(b)
    <3>1. Init => newBlock = 0
      BY DEF Init
    <3> QED
      BY <3>1 DEF AsEstimated
  <2>1. block = 1 /\ IInv /\ IsArchive(archive) /\ UsefulMemory \in Nat
    BY InitIs, TypesAre DEF Init, IInv, UsefulMemory
  <2>2. NotTooMany(0)
    <3>1. DueAfter(0) = {}
      BY <2>1, NothingDue
    <3>2. \A g : AddsUp(g) => g[{}] = 0
      BY DEF AddsUp, Additive
    <3>3. 0 * ChunkPayload = 0
      BY ConstantsAre
    <3> HIDE DEF DueAfter
    <3> QED
      BY <2>1, <3>1, <3>2, <3>3 DEF NotTooMany
  <2>3. \A b \in 0 .. block - 1 : b = 0
    BY <2>1
  <2> HIDE DEF NotTooMany
  <2> QED
    BY <2>2, <2>3
<1>2. IInv /\ Intact /\ InMemory /\ AsEstimated /\ [Next]_vars => AsEstimated'
  BY AsEstimatedKept
<1> QED
  BY <1>1, <1>2, Invariance, IntactInvariant, AlwaysInMemory, PTL DEF Spec

\* Sums of weights exist, and so do their peaks; the estimate is the last peak.
LEMMA EstimateExists ==
    ASSUME IInv, Sound
    PROVE  \E g, top :
              /\ AddsUp(g) /\ IsPeak(top, Chunks(g), Len(archive.lists))
              /\ Chunks(g) \in [0 .. Len(archive.lists) -> Nat]
              /\ \A b \in 0 .. Len(archive.lists) : Chunks(g)[b] = g[DueAfter(b)]
              /\ \A ends : AreEnds(ends) => Info!MaxRam(archive.lists, ends, MaximumSave) = top[Len(archive.lists)]
<1> DEFINE n == Len(archive.lists)
<1>1. IsArchive(archive) /\ IsOptions(opts) /\ n \in Nat
  BY TypesAre DEF IInv
<1>2. IsFiniteSet(Savable) /\ \A p \in Savable : Weight[p] \in Nat
  BY <1>1, SavableIs
<1>3. PICK g : Additive(g, Weight, Savable)
  BY <1>2, AdditiveExists
<1>4. \A b \in 0 .. n : Chunks(g)[b] = g[DueAfter(b)] /\ g[DueAfter(b)] \in Nat
  <2>1. \A b : DueAfter(b) \in SUBSET Savable
    BY DEF DueAfter
  <2> QED
    BY <1>3, <2>1 DEF Chunks, Additive
<1>5. Chunks(g) \in [0 .. n -> Nat]
  <2>1. \A b \in 0 .. n : g[DueAfter(b)] \in Nat
    BY <1>4
  <2> QED
    BY <2>1 DEF Chunks
<1>6. PICK top : IsPeak(top, Chunks(g), n)
  BY <1>1, <1>5, PeakExists
<1>7. \A ends : AreEnds(ends) => Info!MaxRam(archive.lists, ends, MaximumSave) = top[n]
  BY <1>1, <1>3, <1>6, EstimateIs
<1> QED
  BY <1>3, <1>4, <1>5, <1>6, <1>7 DEF AddsUp

\* The VM file is used if, and only if, the saved matches do not fit the chunk memory by the
\* estimate of -i (srep.cpp:1054-1083, 174-182).
THEOREM EstimateIsExact == Spec => []EstimateExact
<1>1. ASSUME IInv, Ended, AsEstimated PROVE EstimateExact
  <2> SUFFICES ASSUME Undamaged, archive.version = "future"
               PROVE  /\ newBlock > 0 => EstimatedMemory > UsefulMemory
                      /\ pc = "done" /\ newBlock = 0 => EstimatedMemory <= UsefulMemory
    BY DEF EstimateExact
  <2> DEFINE n == Len(archive.lists)
             c == ChunkPayload
             U == UsefulMemory
  <2>1. Sound /\ archive.present = n
    BY DEF Sound, Undamaged
  <2>2. /\ IsArchive(archive) /\ n \in Nat /\ block \in Nat \ {0} /\ block <= n + 1
        /\ c \in Nat \ {0} /\ U \in Nat
    BY <1>1, TypesAre, FutureLzAssumption DEF IInv, UsefulMemory
  <2>3. PICK g, top :
              /\ AddsUp(g) /\ IsPeak(top, Chunks(g), n)
              /\ Chunks(g) \in [0 .. n -> Nat]
              /\ \A b \in 0 .. n : Chunks(g)[b] = g[DueAfter(b)]
              /\ \A ends : AreEnds(ends) => Info!MaxRam(archive.lists, ends, MaximumSave) = top[n]
    BY <1>1, <2>1, EstimateExists
  <2>4. EstimatedMemory = top[n] * c
    <3>1. AreEnds(Info!FutureLzEnds(Sizes))
      BY <2>2, FutureLzEndsAre
    <3>2. Info!MaxRam(archive.lists, Info!FutureLzEnds(Sizes), MaximumSave) = top[n]
      BY <2>3, <3>1
    <3> QED
      BY <3>2 DEF EstimatedMemory
  <2> DEFINE s == Chunks(g)
             m == top[n]
  <2> HIDE DEF n, c, U, s, m
  <2>5. /\ \A b \in 0 .. n : s[b] \in Nat /\ s[b] <= m
        /\ \E b \in 0 .. n : s[b] = m
        /\ m \in Nat
    <3>1. n \in 0 .. n /\ s \in [0 .. n -> Nat] /\ IsPeak(top, s, n)
      BY <2>2, <2>3 DEF s
    <3>2. n \in Nat
      BY <2>2
    <3>3. (\A b \in 0 .. n : s[b] <= top[n]) /\ (\E b \in 0 .. n : s[b] = top[n])
      BY ONLY <3>1, <3>2, PeakIsLargest
    <3>4. m \in Nat
      BY <3>1 DEF IsPeak, m
    <3> QED
      BY <3>1, <3>3, <3>4 DEF m
  <2>6. ASSUME newBlock > 0 PROVE m * c > U
    <3>1. PICK b \in 1 .. n : TooMany(b)
      BY <1>1, <2>1, <2>6 DEF AsEstimated, n
    <3>2. s[b] * c > U /\ s[b] \in Nat /\ s[b] <= m
      <4>1. b \in 0 .. n
        BY <2>2, <3>1
      <4>2. g[DueAfter(b)] * c > U
        BY <2>3, <3>1 DEF TooMany, c, U
      <4> QED
        BY <2>3, <2>5, <4>1, <4>2 DEF s
    <3> DEFINE x == s[b]
    <3> HIDE DEF x
    <3>3. x * c > U /\ x \in Nat /\ x <= m
      BY <3>2 DEF x
    <3>4. x * c <= m * c /\ x * c \in Nat /\ m * c \in Nat
      BY <2>2, <2>5, <3>3
    <3> QED
      BY <2>2, <3>3, <3>4
  <2>7. ASSUME pc = "done", newBlock = 0 PROVE m * c <= U
    <3>1. PICK b \in 0 .. n : s[b] = m
      BY <2>5
    <3>2. block > n
      BY <1>1, <2>1, <2>7 DEF Ended
    <3>3. b \in 0 .. block - 1
      BY <2>2, <3>1, <3>2
    <3>4. NotTooMany(b)
      BY <1>1, <2>1, <2>7, <3>3 DEF AsEstimated
    <3>5. g[DueAfter(b)] * c <= U
      BY <2>3, <3>4 DEF NotTooMany, c, U
    <3> QED
      BY <2>3, <3>1, <3>5 DEF s
  <2> QED
    BY <2>4, <2>6, <2>7 DEF c, U, m
<1> QED
  BY <1>1, Invariance, AlwaysEnded, AlwaysAsEstimated, PTL

-----------------------------------------------------------------------------
(* What -i finds from the index alone.                                       *)

\* The sequences in seqs one after the other, as the community modules define FlattenSeq.
IsFlattening(f, seqs, n) == f = [i \in 1 .. n |-> IF i = 1 THEN seqs[i] ELSE f[i - 1] \o seqs[i]]

LEMMA FlatteningExists ==
    ASSUME NEW T, NEW n \in Nat, NEW seqs \in [1 .. n -> Seq(T)]
    PROVE  \E f : IsFlattening(f, seqs, n)
<1> DEFINE step == [i \in 1 .. n |-> [s \in Seq(T) |-> IF i = 1 THEN seqs[i] ELSE s \o seqs[i]]]
<1>1. step \in [1 .. n -> [Seq(T) -> Seq(T)]]
  <2>1. \A i \in 1 .. n, s \in Seq(T) : s \o seqs[i] \in Seq(T)
    OBVIOUS
  <2> QED
    BY <2>1
<1>2. \A i \in 1 .. n, s \in Seq(T) : step[i][s] = IF i = 1 THEN seqs[i] ELSE s \o seqs[i]
  OBVIOUS
<1>3. <<>> \in Seq(T)
  OBVIOUS
<1> HIDE DEF step
<1> DEFINE S == Seq(T)
<1>4. AreSteps(step, n, S, <<>>)
  BY <1>1, <1>3 DEF AreSteps
<1> HIDE DEF S
<1>5. PICK f : IsRecursion(f, step, n, S, <<>>)
  BY <1>4, RecursionExists
<1>6. f \in [0 .. n -> S] /\ \A i \in 1 .. n : f[i] = step[i][f[i - 1]] /\ f[i - 1] \in S
  BY <1>5 DEF IsRecursion
<1> DEFINE e == [i \in 1 .. n |-> f[i]]
           Row(i) == IF i = 1 THEN seqs[i] ELSE e[i - 1] \o seqs[i]
<1>7. \A i \in 1 .. n : e[i] = Row(i)
  <2>1. ASSUME NEW i \in 1 .. n PROVE e[i] = Row(i)
    <3>1. e[i] = IF i = 1 THEN seqs[i] ELSE f[i - 1] \o seqs[i]
      BY <1>2, <1>6 DEF S
    <3>2. i # 1 => e[i - 1] = f[i - 1]
      OBVIOUS
    <3> QED
      BY <3>1, <3>2
  <2> QED
    BY <2>1
<1>8. e = [i \in 1 .. n |-> e[i]]
  OBVIOUS
<1> HIDE DEF e
<1>9. IsFlattening(e, seqs, n)
  BY <1>7, <1>8 DEF IsFlattening
<1> QED
  BY <1>9

\* seqs has n parts, of v[1], v[2], ... elements, that begin after off[0], off[1], ... others.
AreParts(seqs, T, n, v, off) ==
    /\ n \in Nat /\ seqs \in [1 .. n -> Seq(T)] /\ v \in [1 .. n -> Nat]
    /\ \A b \in 1 .. n : v[b] = Len(seqs[b])
    /\ AreSums(off, v, n)

\* s has the elements of these parts, in their order.
HasParts(s, seqs, T, n, v, off) ==
    /\ s \in Seq(T) /\ Len(s) = off[n]
    /\ \A b \in 1 .. n : \A k \in 1 .. v[b] : s[off[b - 1] + k] = seqs[b][k]

LEMMA FlatteningIs ==
    ASSUME NEW seqs, NEW T, NEW n, NEW v, NEW off, AreParts(seqs, T, n, v, off),
           NEW f, IsFlattening(f, seqs, n), n > 0
    PROVE  HasParts(f[n], seqs, T, n, v, off)
<1>0. /\ n \in Nat /\ seqs \in [1 .. n -> Seq(T)] /\ v \in [1 .. n -> Nat]
      /\ \A b \in 1 .. n : v[b] = Len(seqs[b])
      /\ AreSums(off, v, n)
  BY DEF AreParts
<1> USE <1>0
<1> DEFINE Good(m) ==
              /\ f[m] \in Seq(T) /\ Len(f[m]) = off[m]
              /\ \A b \in 1 .. m : \A k \in 1 .. v[b] : f[m][off[b - 1] + k] = seqs[b][k]
           G == {m \in 0 .. n : m > 0 => Good(m)}
<1>1. /\ \A i \in 0 .. n : off[i] \in Nat
      /\ off[0] = 0
      /\ \A b \in 1 .. n : /\ off[b] = off[b - 1] + v[b] /\ v[b] \in Nat
                           /\ b \in 0 .. n /\ b - 1 \in 0 .. n /\ off[b - 1] \in Nat /\ off[b] \in Nat
  BY DEF AreSums
<1>2. \A i, j \in 0 .. n : i <= j => off[i] <= off[j]
  BY SumsGrow
<1>3. \A i \in 1 .. n : f[i] = IF i = 1 THEN seqs[i] ELSE f[i - 1] \o seqs[i]
  BY DEF IsFlattening
<1>4. 0 \in G
  OBVIOUS
<1>5. ASSUME NEW m \in 0 .. n - 1, m \in G PROVE m + 1 \in G
  <2> DEFINE i == m + 1
  <2>1. i \in 1 .. n /\ i \in 0 .. n /\ i - 1 = m /\ m \in 0 .. n
    OBVIOUS
  <2> DEFINE s == seqs[i]
             p == f[m]
             q == f[i]
  <2>2. s \in Seq(T) /\ Len(s) = v[i]
    BY <2>1
  <2>3. CASE m = 0
    <3>1. q = s /\ i = 1 /\ off[i] = v[i] /\ off[i - 1] = 0
      BY <1>1, <1>3, <2>1, <2>3
    <3>2. \A b \in 1 .. i : b = 1
      BY <3>1
    <3> HIDE DEF i, s, q
    <3>3. \A b \in 1 .. i : \A k \in 1 .. v[b] : q[off[b - 1] + k] = seqs[b][k]
      BY <1>1, <2>1, <3>1, <3>2 DEF s
    <3>4. Good(i)
      BY <2>2, <3>1, <3>3 DEF q
    <3> QED
      BY <2>1, <3>4 DEF i
  <2>4. CASE m > 0
    <3>1. q = p \o s /\ i # 1
      <4>1. i # 1
        BY <2>4
      <4>2. q = f[i - 1] \o s
        BY <1>3, <2>1, <4>1
      <4> QED
        BY <2>1, <4>1, <4>2
    <3>2. p \in Seq(T) /\ Len(p) = off[m]
      BY <1>5, <2>4
    <3>3. off[i] = off[m] + v[i]
      BY <1>1, <2>1
    <3>4. \A b \in 1 .. m : \A k \in 1 .. v[b] : p[off[b - 1] + k] = seqs[b][k]
      BY <1>5, <2>4
    <3> HIDE DEF i, s, p, q
    <3>5. /\ q \in Seq(T) /\ Len(q) = off[i]
          /\ \A x \in 1 .. Len(p) : q[x] = p[x]
          /\ \A x \in 1 .. Len(s) : q[Len(p) + x] = s[x]
      <4>1. p \in Seq(T) /\ s \in Seq(T)
        BY <2>2, <3>2
      <4>2. /\ p \o s \in Seq(T) /\ Len(p \o s) = Len(p) + Len(s)
            /\ \A x \in 1 .. Len(p) : (p \o s)[x] = p[x]
            /\ \A x \in 1 .. Len(s) : (p \o s)[Len(p) + x] = s[x]
        BY <4>1, Joined
      <4> QED
        BY <2>2, <3>1, <3>2, <3>3, <4>2
    <3>8. ASSUME NEW b \in 1 .. i, NEW k \in 1 .. v[b] PROVE q[off[b - 1] + k] = seqs[b][k]
      <4>1. CASE b = i
        BY <2>1, <2>2, <3>2, <3>5, <3>8, <4>1 DEF s
      <4>2. CASE b # i
        <5>1. b \in 1 .. m /\ b \in 1 .. n
          BY <2>1, <4>2
        <5>2. off[b] <= off[m] /\ off[b] = off[b - 1] + v[b]
          BY <1>1, <1>2, <2>1, <5>1
        <5>3. off[b - 1] + k \in 1 .. Len(p)
          <6> DEFINE x == off[b - 1]
                     y == off[b]
                     z == off[m]
                     w == v[b]
          <6>1. x \in Nat /\ y = x + w /\ w \in Nat /\ z \in Nat /\ y <= z /\ k \in 1 .. w /\ Len(p) = z
            BY <1>1, <2>1, <3>2, <3>8, <5>1, <5>2
          <6> HIDE DEF x, y, z, w
          <6>2. x + k \in 1 .. z
            BY <6>1
          <6> QED
            BY <6>1, <6>2 DEF x
        <5> QED
          BY <3>4, <3>5, <3>8, <5>1, <5>3
      <4> QED
        BY <4>1, <4>2
    <3>9. Good(i)
      BY <3>5, <3>8 DEF q
    <3> QED
      BY <2>1, <3>9 DEF i
  <2> QED
    BY <2>3, <2>4
<1> HIDE DEF G, Good
<1>6. 0 .. n \subseteq G
  BY <1>4, <1>5, InductionUpTo
<1>7. n \in G
  BY <1>6
<1> QED
  BY <1>7 DEF G, Good, HasParts

\* The bytes of a sequence of sequences are those of its parts.
LEMMA LengthOfAll ==
    ASSUME NEW seqs, NEW T, NEW n, NEW v, NEW off, AreParts(seqs, T, n, v, off), n = Len(seqs), seqs \in Seq(Seq(T))
    PROVE  HasParts(FlattenSeq(seqs), seqs, T, n, v, off)
<1> DEFINE Solves(f) == IsFlattening(f, seqs, n)
<1>1. n \in Nat /\ seqs \in [1 .. n -> Seq(T)] /\ AreSums(off, v, n)
  BY DEF AreParts
<1>2. CASE n = 0
  <2>1. FlattenSeq(seqs) = seqs
    <3>1. Len(seqs) = 0
      BY <1>2
    <3> HIDE DEF Solves
    <3> QED
      BY <3>1 DEF FlattenSeq
  <2>4. seqs = <<>>
    <3> DEFINE S == Seq(T)
    <3>1. seqs \in Seq(S) /\ Len(seqs) = 0
      BY <1>2
    <3> HIDE DEF S
    <3> QED
      BY <3>1
  <2>2. off[0] = 0
    BY <1>1 DEF AreSums
  <2>3. <<>> \in Seq(T) /\ Len(<<>>) = 0
    OBVIOUS
  <2> QED
    <3>1. FlattenSeq(seqs) = <<>> /\ off[n] = 0
      BY <1>2, <2>1, <2>2, <2>4
    <3>2. \A b \in 1 .. n : FALSE
      BY <1>2
    <3> QED
      BY <2>3, <3>1, <3>2 DEF HasParts
<1>3. CASE n # 0
  <2>1. FlattenSeq(seqs) = (CHOOSE f : Solves(f))[n]
    BY <1>3 DEF FlattenSeq, IsFlattening
  <2>2. \E f : Solves(f)
    BY <1>1, FlatteningExists
  <2>3. n > 0
    BY <1>1, <1>3
  <2>4. ASSUME NEW f, Solves(f) PROVE HasParts(f[n], seqs, T, n, v, off)
    BY <2>3, <2>4, FlatteningIs
  <2> HIDE DEF Solves
  <2>5. Solves(CHOOSE f : Solves(f))
    BY <2>2
  <2>6. HasParts((CHOOSE f : Solves(f))[n], seqs, T, n, v, off)
    BY <2>4, <2>5
  <2> QED
    BY <2>1, <2>6
<1> QED
  BY <1>2, <1>3

\* The bytes of the original that records supply, and those that they do not.
Covered(a) == {x \in 0 .. Len(a.original) - 1 : \E p \in Places(a) : Supplies(RecordAt(a, p), x)}

LEMMA BytesCounted ==
    ASSUME NEW a, Len(a.original) \in Nat
    PROVE  /\ Cardinality(Covered(a)) \in Nat
           /\ Cardinality(Uncovered(a, 0, Len(a.original))) \in Nat
           /\ Cardinality(Uncovered(a, 0, Len(a.original))) + Cardinality(Covered(a)) = Len(a.original)
<1> DEFINE n == Len(a.original)
           I == 0 .. n - 1
           U == Uncovered(a, 0, n)
           C == Covered(a)
<1>1. IsFiniteSet(I) /\ Cardinality(I) = n
  <2>1. 0 \in Int /\ n - 1 \in Int /\ (IF 0 > n - 1 THEN 0 ELSE n - 1 - 0 + 1) = n
    OBVIOUS
  <2> HIDE DEF n
  <2> QED
    BY <2>1, FS_Interval
<1>2. I = U \cup C /\ U \cap C = {}
  BY DEF Uncovered, Covered
<1> HIDE DEF I, U, C
<1>3. IsFiniteSet(U) /\ IsFiniteSet(C)
  <2>1. U \subseteq I /\ C \subseteq I
    BY <1>2
  <2> QED
    BY <1>1, <2>1, FS_Subset
<1>4. Cardinality(U) \in Nat /\ Cardinality(C) \in Nat /\ Cardinality(U \cap C) = 0
  BY <1>2, <1>3, FS_CardinalityType, FS_EmptySet
<1>5. Cardinality(U \cup C) = Cardinality(U) + Cardinality(C) - Cardinality(U \cap C)
  BY <1>3, FS_Union
<1>6. n = Cardinality(U) + Cardinality(C)
  BY <1>1, <1>2, <1>4, <1>5
<1> QED
  BY <1>4, <1>6 DEF U, C, n

\* The literals of all blocks are the bytes that no record supplies.
LEMMA LiteralsCounted ==
    ASSUME IsArchive(archive), Sound
    PROVE  Len(FlattenSeq(archive.literals)) = Cardinality(Uncovered(archive, 0, Len(archive.original)))
<1> DEFINE lits == archive.literals
           n == Len(lits)
           L == Len(archive.original)
           E(b) == IF b = 0 THEN 0 ELSE EndOf(archive, b)
           off == [b \in 0 .. n |-> Cardinality(Uncovered(archive, 0, E(b)))]
           v == [b \in 1 .. n |-> Len(lits[b])]
<1>1. lits \in Seq(Seq(Byte)) /\ n = Len(archive.lists) /\ n \in Nat /\ L \in Nat
  BY ArchiveShape DEF IsArchive
<1>2. ASSUME NEW m \in Nat
      PROVE  IsFiniteSet(Uncovered(archive, 0, m)) /\ Cardinality(Uncovered(archive, 0, m)) \in Nat
  <2>1. IsFiniteSet(0 .. m - 1) /\ Uncovered(archive, 0, m) \subseteq 0 .. m - 1
    <3>1. 0 \in Int /\ m - 1 \in Int
      OBVIOUS
    <3> QED
      BY <3>1, FS_Interval DEF Uncovered
  <2> QED
    BY <2>1, FS_Subset, FS_CardinalityType
<1>3. /\ \A b \in 1 .. n : /\ FirstOf(b) \in Nat /\ EndOf(archive, b) \in Nat
                           /\ FirstOf(b) < EndOf(archive, b)
                           /\ b > 1 => EndOf(archive, b - 1) = FirstOf(b)
      /\ FirstOf(1) = 0
  BY <1>1, SizesAre, ArchiveShape, StartsGrow
<1>4. \A b \in 0 .. n : E(b) \in Nat
  BY <1>1, <1>3
<1>5. \A b \in 1 .. n : E(b - 1) = FirstOf(b) /\ E(b) = EndOf(archive, b)
  BY <1>1, <1>3
<1>6. \A b \in 1 .. n : v[b] = Cardinality(Uncovered(archive, FirstOf(b), EndOf(archive, b)))
  <2>1. MeansOriginal(archive) /\ DOMAIN archive.lists = 1 .. n
    BY <1>1, ArchiveShape DEF IsArchive, Sound
  <2> HIDE DEF n
  <2> QED
    BY <2>1 DEF MeansOriginal
<1> HIDE DEF E
<1>7. off \in [0 .. n -> Nat] /\ off[0] = 0
  <2>1. off \in [0 .. n -> Nat]
    BY <1>2, <1>4
  <2>2. Uncovered(archive, 0, 0) = {} /\ E(0) = 0
    BY DEF Uncovered, E
  <2>3. off[0] = 0
    <3>1. 0 \in 0 .. n
      BY <1>1
    <3>2. off[0] = Cardinality(Uncovered(archive, 0, E(0)))
      BY <3>1
    <3> QED
      BY <2>2, <3>2, FS_EmptySet
  <2> QED
    BY <2>1, <2>3
<1>8. ASSUME NEW b \in 1 .. n PROVE off[b] = off[b - 1] + v[b]
  <2> DEFINE A == Uncovered(archive, 0, FirstOf(b))
             B == Uncovered(archive, FirstOf(b), EndOf(archive, b))
             C == Uncovered(archive, 0, EndOf(archive, b))
  <2>1. C = A \cup B /\ A \cap B = {} /\ B \subseteq C
    <3>1. FirstOf(b) \in Nat /\ EndOf(archive, b) \in Nat /\ FirstOf(b) < EndOf(archive, b)
      BY <1>3
    <3> QED
      BY <3>1 DEF Uncovered
  <2>2. off[b] = Cardinality(C) /\ off[b - 1] = Cardinality(A) /\ v[b] = Cardinality(B)
    <3>1. b \in 0 .. n /\ b - 1 \in 0 .. n
      BY <1>1
    <3>2. off[b] = Cardinality(Uncovered(archive, 0, E(b))) /\ off[b - 1] = Cardinality(Uncovered(archive, 0, E(b - 1)))
      BY <3>1
    <3> QED
      BY <1>5, <1>6, <3>2
  <2>3. IsFiniteSet(A) /\ IsFiniteSet(C) /\ Cardinality(A) \in Nat
    BY <1>2, <1>3
  <2> HIDE DEF A, B, C, off, v
  <2>4. IsFiniteSet(B)
    BY <2>1, <2>3, FS_Subset
  <2>5. Cardinality(B) \in Nat /\ Cardinality(A \cap B) = 0
    BY <2>1, <2>4, FS_CardinalityType, FS_EmptySet
  <2>6. Cardinality(A \cup B) = Cardinality(A) + Cardinality(B) - Cardinality(A \cap B)
    BY <2>3, <2>4, FS_Union
  <2> QED
    BY <2>1, <2>2, <2>3, <2>5, <2>6
<1>9. AreSums(off, v, n)
  <2> HIDE DEF off, v, n
  <2> QED
    BY <1>7, <1>8 DEF AreSums
<1>10. off[n] = Cardinality(Uncovered(archive, 0, L))
  <2>1. n \in 0 .. n
    BY <1>1
  <2>2. off[n] = Cardinality(Uncovered(archive, 0, E(n)))
    BY <2>1
  <2>3. E(n) = L
    <3>1. CASE n = 0
      <4>1. FirstOf(n + 1) >= L
        BY <1>1, ArchiveShape
      <4> HIDE DEF n, L
      <4>2. 0 >= L
        BY <1>3, <3>1, <4>1
      <4> QED
        BY <1>1, <3>1, <4>2 DEF E
    <3>2. CASE n # 0
      <4>1. Len(archive.lists) > 0
        BY <1>1, <3>2
      <4>2. EndOf(archive, n) = L
        BY <1>1, <4>1, LastEnd
      <4> HIDE DEF n, L
      <4> QED
        BY <3>2, <4>2 DEF E
    <3> QED
      BY <3>1, <3>2
  <2> HIDE DEF off, n, L
  <2> QED
    BY <2>2, <2>3
<1>11. AreParts(lits, Byte, n, v, off)
  BY <1>1, <1>9 DEF AreParts
<1> HIDE DEF off, v, lits
<1>12. Len(FlattenSeq(lits)) = off[n]
  <2>1. n = Len(lits)
    BY DEF lits
  <2>2. HasParts(FlattenSeq(lits), lits, Byte, n, v, off)
    BY <1>1, <1>11, <2>1, LengthOfAll
  <2> QED
    BY <2>2 DEF HasParts
<1> QED
  BY <1>10, <1>12 DEF lits

\* The records of all lists, in their order: each lies within the original, no two overlap.
AreLaidOut(flat, m, n) ==
    /\ m \in Nat /\ n \in Nat
    /\ \A i \in 1 .. m : flat[i].dest \in Nat /\ flat[i].len \in Nat \ {0} /\ flat[i].dest + flat[i].len <= n
    /\ \A i, j \in 1 .. m :
          i = j \/ flat[i].dest + flat[i].len <= flat[j].dest \/ flat[j].dest + flat[j].len <= flat[i].dest

\* The bytes that the first j of them supply.
SuppliedBy(flat, j, n) == {x \in 0 .. n - 1 : \E i \in 1 .. j : Supplies(flat[i], x)}

LEMMA CopiesCounted ==
    ASSUME NEW flat, NEW m, NEW n, AreLaidOut(flat, m, n)
    PROVE  AreSums([j \in 0 .. m |-> Cardinality(SuppliedBy(flat, j, n))], [i \in 1 .. m |-> flat[i].len], m)
<1> DEFINE c == [j \in 0 .. m |-> Cardinality(SuppliedBy(flat, j, n))]
           lens == [i \in 1 .. m |-> flat[i].len]
<1>1. m \in Nat /\ n \in Nat
  BY DEF AreLaidOut
<1>2. ASSUME NEW j
      PROVE  IsFiniteSet(SuppliedBy(flat, j, n)) /\ Cardinality(SuppliedBy(flat, j, n)) \in Nat
  <2>1. IsFiniteSet(0 .. n - 1) /\ SuppliedBy(flat, j, n) \subseteq 0 .. n - 1
    <3>1. 0 \in Int /\ n - 1 \in Int
      BY <1>1
    <3> QED
      BY <3>1, FS_Interval DEF SuppliedBy
  <2> QED
    BY <2>1, FS_Subset, FS_CardinalityType
<1>3. c \in [0 .. m -> Nat] /\ c[0] = 0
  <2>1. c \in [0 .. m -> Nat]
    BY <1>2
  <2>2. SuppliedBy(flat, 0, n) = {}
    BY DEF SuppliedBy
  <2>3. 0 \in 0 .. m
    BY <1>1
  <2>4. c[0] = Cardinality(SuppliedBy(flat, 0, n))
    BY <2>3
  <2> QED
    BY <2>1, <2>2, <2>4, FS_EmptySet
<1>4. ASSUME NEW j \in 1 .. m PROVE c[j] = c[j - 1] + lens[j]
  <2> DEFINE A == SuppliedBy(flat, j - 1, n)
             B == flat[j].dest .. flat[j].dest + flat[j].len - 1
             C == SuppliedBy(flat, j, n)
             d == flat[j].dest
             l == flat[j].len
  <2>1. d \in Nat /\ l \in Nat \ {0} /\ d + l <= n
    BY DEF AreLaidOut
  <2>2. c[j] = Cardinality(C) /\ c[j - 1] = Cardinality(A) /\ lens[j] = l
    <3>1. j \in 0 .. m /\ j - 1 \in 0 .. m
      BY <1>1
    <3> QED
      BY <3>1
  <2>3. C = A \cup B
    <3>1. ASSUME NEW x \in C PROVE x \in A \cup B
      <4>1. PICK i \in 1 .. j : Supplies(flat[i], x)
        BY DEF SuppliedBy
      <4>2. x \in 0 .. n - 1
        BY DEF SuppliedBy
      <4>3. CASE i = j
        BY <2>1, <4>1, <4>2, <4>3 DEF Supplies
      <4>4. CASE i # j
        <5>1. i \in 1 .. j - 1
          BY <1>1, <4>4
        <5> QED
          BY <4>1, <4>2, <5>1 DEF SuppliedBy
      <4> QED
        BY <4>3, <4>4
    <3>2. ASSUME NEW x \in A PROVE x \in C
      <4>1. PICK i \in 1 .. j - 1 : Supplies(flat[i], x)
        BY DEF SuppliedBy
      <4>2. i \in 1 .. j
        BY <1>1
      <4> QED
        BY <4>1, <4>2 DEF SuppliedBy
    <3>3. ASSUME NEW x \in B PROVE x \in C
      <4>1. x \in 0 .. n - 1 /\ Supplies(flat[j], x) /\ j \in 1 .. j
        BY <1>1, <2>1 DEF Supplies
      <4> QED
        BY <4>1 DEF SuppliedBy
    <3> HIDE DEF A, B, C
    <3> QED
      BY <3>1, <3>2, <3>3
  <2>4. A \cap B = {}
    <3> SUFFICES ASSUME NEW x \in A, x \in B PROVE FALSE
      OBVIOUS
    <3>1. PICK i \in 1 .. j - 1 : Supplies(flat[i], x)
      BY DEF SuppliedBy
    <3>2. i \in 1 .. m /\ i # j
      BY <1>1
    <3>3. \/ flat[i].dest + flat[i].len <= flat[j].dest
          \/ flat[j].dest + flat[j].len <= flat[i].dest
      BY <3>2 DEF AreLaidOut
    <3>4. flat[i].dest \in Nat /\ flat[i].len \in Nat
      BY <3>2 DEF AreLaidOut
    <3> DEFINE e == flat[i].dest
               k == flat[i].len
    <3>5. e <= x /\ x < e + k /\ d <= x /\ x <= d + l - 1 /\ x \in Int
      BY <2>1, <3>1 DEF Supplies
    <3>6. e \in Nat /\ k \in Nat /\ (e + k <= d \/ d + l <= e)
      BY <3>3, <3>4
    <3> HIDE DEF e, k, d, l
    <3> QED
      BY <2>1, <3>5, <3>6
  <2>5. IsFiniteSet(B) /\ Cardinality(B) = l
    <3> DEFINE h == d + l - 1
    <3>1. d \in Int /\ h \in Int /\ (IF d > h THEN 0 ELSE h - d + 1) = l /\ B = d .. h
      BY <2>1
    <3> HIDE DEF d, h, B
    <3> QED
      BY <3>1, FS_Interval
  <2>6. IsFiniteSet(A) /\ Cardinality(A) \in Nat
    BY <1>2
  <2> HIDE DEF A, B, C, c, lens, d, l
  <2>7. Cardinality(A \cap B) = 0
    BY <2>4, FS_EmptySet
  <2>8. Cardinality(A \cup B) = Cardinality(A) + Cardinality(B) - Cardinality(A \cap B)
    BY <2>5, <2>6, FS_Union
  <2> QED
    BY <2>1, <2>2, <2>3, <2>5, <2>6, <2>7, <2>8
<1> HIDE DEF c, lens
<1>5. AreSums(c, lens, m)
  BY <1>3, <1>4 DEF AreSums
<1> QED
  BY <1>5 DEF c, lens

\* -i adds up the lengths of the records.
LEMMA LengthsAddUp ==
    ASSUME NEW lists, NEW lit, NEW flat, flat = Info!FlattenSeq(lists),
           NEW m \in Nat, DOMAIN flat = 1 .. m, NEW lens \in [1 .. m -> Nat],
           \A i \in 1 .. m : lens[i] = flat[i].len,
           NEW c, AreSums(c, lens, m)
    PROVE  Info!IndexLzOrigSize(lit, lists) = lit + c[m]
<1> DEFINE Solves(iter) ==
              iter = [t \in SUBSET (1 .. m) |->
                        IF t = {} THEN 0 ELSE iter[t \ {Greatest(t)}] + flat[Greatest(t)].len]
<1>1. Info!IndexLzOrigSize(lit, lists) = lit + (CHOOSE iter : Solves(iter))[1 .. m]
  BY DEF Info!IndexLzOrigSize, Info!FoldLeft, Info!MapThenFoldSet, Info!Max, Greatest
<1>2. \A iter : Solves(iter) <=> IsFoldedSum(iter, lens, m)
  <2>1. \A t \in SUBSET (1 .. m) : t # {} => flat[Greatest(t)].len = lens[Greatest(t)]
    <3>1. ASSUME NEW t \in SUBSET (1 .. m), t # {} PROVE Greatest(t) \in 1 .. m
      BY <3>1, GreatestExists DEF Greatest
    <3> QED
      BY <3>1
  <2> QED
    BY <2>1 DEF IsFoldedSum
<1> HIDE DEF Solves
<1>3. (\E iter : IsFoldedSum(iter, lens, m)) /\ \A iter : IsFoldedSum(iter, lens, m) => iter[1 .. m] = c[m]
  BY FoldedSumIs
<1>4. Solves(CHOOSE iter : Solves(iter))
  BY <1>2, <1>3
<1> QED
  BY <1>1, <1>2, <1>3, <1>4

LEMMA OriginalCounted ==
    ASSUME IsArchive(archive), Sound, NEW lit
    PROVE  Info!IndexLzOrigSize(lit, archive.lists) = lit + Cardinality(Covered(archive))
<1> DEFINE lists == archive.lists
           n == Len(lists)
           L == Len(archive.original)
           v == [b \in 1 .. n |-> Len(lists[b])]
           flat == FlattenSeq(lists)
<1>1. /\ lists \in Seq(Seq(Match)) /\ n \in Nat /\ L \in Nat /\ lists \in [1 .. n -> Seq(Match)]
      /\ v \in [1 .. n -> Nat] /\ DOMAIN lists = 1 .. n
  BY ArchiveShape DEF IsArchive, Sound
<1>2. PICK off : AreSums(off, v, n)
  BY <1>1, SumsExist
<1>3. AreParts(lists, Match, n, v, off)
  BY <1>1, <1>2 DEF AreParts
<1>4. \A b \in 1 .. n : DOMAIN lists[b] = 1 .. v[b]
  BY <1>1
<1> HIDE DEF v
<1>5. HasParts(flat, lists, Match, n, v, off)
  <2>1. n = Len(lists)
    OBVIOUS
  <2> HIDE DEF lists, n
  <2> QED
    BY <1>1, <1>3, <2>1, LengthOfAll
<1> DEFINE m == off[n]
<1>6. m \in Nat /\ DOMAIN flat = 1 .. m /\ flat = Info!FlattenSeq(lists)
  <2>1. m \in Nat
    BY <1>1, <1>2 DEF AreSums
  <2>2. flat = Info!FlattenSeq(lists)
    BY DEF FlattenSeq, Info!FlattenSeq
  <2>3. flat \in Seq(Match) /\ Len(flat) = m
    BY <1>5 DEF HasParts
  <2> HIDE DEF flat, m
  <2>4. DOMAIN flat = 1 .. m
    BY <2>3
  <2> QED
    BY <2>1, <2>2, <2>4
<1> DEFINE At(b, k) == off[b - 1] + k
<1>7. /\ \A b \in 1 .. n : \A k \in 1 .. v[b] : At(b, k) \in 1 .. m /\ flat[At(b, k)] = lists[b][k]
      /\ \A j \in 1 .. m : \E b \in 1 .. n : \E k \in 1 .. v[b] : j = At(b, k)
  <2> HIDE DEF lists, n, flat
  <2>1. \A b \in 1 .. n : \A k \in 1 .. v[b] : flat[At(b, k)] = lists[b][k]
    BY <1>5 DEF HasParts
  <2>2. /\ \A b \in 1 .. n : \A k \in 1 .. v[b] : At(b, k) \in 1 .. m
        /\ \A j \in 1 .. m : \E b \in 1 .. n : \E k \in 1 .. v[b] : j = At(b, k)
    <3>1. v \in [1 .. n -> Nat]
      BY <1>1
    <3>2. FillUp(off, v, n)
      BY <1>1, <1>2, <3>1, RowsFill
    <3> QED
      BY ONLY <3>2 DEF FillUp, At, m
  <2> QED
    BY <2>1, <2>2
<1>8. ASSUME NEW p \in Places(archive) PROVE \E j \in 1 .. m : j = At(p[1], p[2]) /\ flat[j] = Rec(p)
  <2>1. p[1] \in 1 .. n /\ p[2] \in 1 .. v[p[1]] /\ Rec(p) = lists[p[1]][p[2]]
    BY <1>1, <1>4, PlacesAre
  <2> HIDE DEF lists, n, flat, At, m
  <2> QED
    BY <1>7, <2>1
<1>9. ASSUME NEW j \in 1 .. m
      PROVE  \E p \in Places(archive) : j = At(p[1], p[2]) /\ flat[j] = Rec(p)
  <2>1. PICK b \in 1 .. n : \E k \in 1 .. v[b] : j = At(b, k)
    BY <1>7
  <2>2. PICK k \in 1 .. v[b] : j = At(b, k)
    BY <2>1
  <2>3. <<b, k>> \in Places(archive) /\ Rec(<<b, k>>) = lists[b][k]
    BY <1>4, PlacesAre
  <2>4. flat[j] = lists[b][k]
    BY <1>7, <2>2
  <2> HIDE DEF lists, n, flat, At, m
  <2> QED
    BY <2>2, <2>3, <2>4
<1>10. AreLaidOut(flat, m, L)
  <2> HIDE DEF flat, At, m
  <2>1. \A p \in Places(archive) : /\ Rec(p).dest \in Nat /\ Rec(p).len \in Nat \ {0}
                                   /\ Rec(p).dest + Rec(p).len <= L
    BY RecordsAre DEF GoodRecord
  <2>2. \A p, q \in Places(archive) :
           \/ p = q \/ Rec(p).dest + Rec(p).len <= Rec(q).dest
           \/ Rec(q).dest + Rec(q).len <= Rec(p).dest
    BY RecordsAre
  <2> HIDE DEF L
  <2>3. \A i \in 1 .. m : flat[i].dest \in Nat /\ flat[i].len \in Nat \ {0} /\ flat[i].dest + flat[i].len <= L
    BY <1>9, <2>1
  <2>4. ASSUME NEW i \in 1 .. m, NEW j \in 1 .. m, i # j
        PROVE  \/ flat[i].dest + flat[i].len <= flat[j].dest
               \/ flat[j].dest + flat[j].len <= flat[i].dest
    <3>1. PICK p \in Places(archive) : i = At(p[1], p[2]) /\ flat[i] = Rec(p)
      BY <1>9
    <3>2. PICK q \in Places(archive) : j = At(q[1], q[2]) /\ flat[j] = Rec(q)
      BY <1>9
    <3>3. p # q
      BY <2>4, <3>1, <3>2
    <3> QED
      BY <2>2, <3>1, <3>2, <3>3
  <2> QED
    BY <1>1, <1>6, <2>3, <2>4 DEF AreLaidOut
<1> DEFINE c == [j \in 0 .. m |-> Cardinality(SuppliedBy(flat, j, L))]
           lens == [i \in 1 .. m |-> flat[i].len]
<1>11. lens \in [1 .. m -> Nat] /\ \A i \in 1 .. m : lens[i] = flat[i].len
  BY <1>10 DEF AreLaidOut
<1>12. c[m] = Cardinality(Covered(archive))
  <2>1. SuppliedBy(flat, m, L) = Covered(archive)
    <3>1. \A x : (\E i \in 1 .. m : Supplies(flat[i], x)) <=> \E p \in Places(archive) : Supplies(RecordAt(archive, p), x)
      <4> HIDE DEF flat, m, At
      <4> QED
        BY <1>8, <1>9 DEF Rec
    <3> QED
      BY <3>1 DEF SuppliedBy, Covered
  <2>2. m \in 0 .. m
    BY <1>6
  <2>3. c[m] = Cardinality(SuppliedBy(flat, m, L))
    BY <2>2
  <2> QED
    BY <2>1, <2>3
<1>13. AreSums(c, lens, m)
  <2> HIDE DEF flat, m, L
  <2> QED
    BY <1>10, CopiesCounted
<1> HIDE DEF c, lens, flat, m, At
<1>14. Info!IndexLzOrigSize(lit, lists) = lit + c[m]
  BY <1>6, <1>11, <1>13, LengthsAddUp
<1> QED
  BY <1>12, <1>14

\* A decoder that succeeded on a trusted archive has written the original.
AllOut == pc = "done" /\ Trusted => backend = archive.original

LEMMA AllOutKept ==
    ASSUME IInv, Intact, Ended, Written, AllOut, [Next]_vars
    PROVE  AllOut'
<1>1. Trusted' = Trusted /\ archive' = archive
  BY TrustStays
<1> SUFFICES ASSUME pc' = "done", Trusted PROVE backend' = archive.original
  BY <1>1 DEF AllOut
<1>2. CASE EndOfInput
  <2>1. backend' = backend
    BY <1>2 DEF EndOfInput
  <2> QED
    BY <1>2, <2>1, AllWritten
<1>3. CASE ~ EndOfInput
  <2>1. CASE WriteBlock
    BY <2>1 DEF WriteBlock
  <2>2. CASE SaveToDisk /\ (SpillToRestore \/ SpillToSave)
    <3>1. pc = "process" \/ pc = "save"
      BY <2>2 DEF SpillToRestore, SpillToSave, MustSave, ToSave
    <3> QED
      BY <2>2, <3>1 DEF SaveToDisk, WhenStuck
  <2>3. CASE IoBlock \/ ReadBlock \/ TakeMatch \/ RestoreMark \/ CopyTail \/ SkipDone
             \/ RememberLong \/ SaveMatch
    BY <2>3 DEF IoBlock, ReadBlock, TakeMatch, RestoreMark, CopyTail, SkipDone, RememberLong,
         SaveMatch, MustSave, ToSave
  <2>4. CASE SpinOn \/ Terminated \/ UNCHANGED vars
    BY <2>4 DEF SpinOn, Terminated, AllOut, vars
  <2> QED
    BY <1>3, <2>1, <2>2, <2>3, <2>4 DEF Next, SpillToRestore, SpillToSave
<1> QED
  BY <1>2, <1>3

LEMMA AlwaysAllOut == Spec => []AllOut
<1>1. Init => AllOut
  BY DEF Init, AllOut
<1>2. Init => Written
  BY InitWritten
<1>3. IInv /\ Intact /\ IoRight /\ Written /\ [Next]_vars => Written'
  BY WrittenKept
<1>4. IInv /\ Intact /\ Ended /\ Written /\ AllOut /\ [Next]_vars => AllOut'
  BY AllOutKept
<1> QED
  BY <1>1, <1>2, <1>3, <1>4, Invariance, IntactInvariant, AlwaysIoRight, AlwaysEnded,
     PTL DEF Spec

\* Reading the index only, -i of an Index-LZ archive finds the size of what an undamaged
\* archive decodes to, and the same memory as block by block (srep.cpp:961-999): the literals
\* are the bytes that no record supplies, and the records supply no byte twice.
THEOREM IndexInfoIsRight == Spec => []IndexInfoRight
<1>1. ASSUME IInv, AllOut PROVE IndexInfoRight
  <2> SUFFICES ASSUME pc = "done", Undamaged, archive.version = "future"
               PROVE  /\ Info!IndexLzOrigSize(Len(FlattenSeq(archive.literals)), archive.lists) = Len(backend)
                      /\ Info!MaxRam(archive.lists, Info!IndexLzEnds(Sizes), MaximumSave) * ChunkPayload
                            = EstimatedMemory
    BY DEF IndexInfoRight
  <2>1. IsArchive(archive) /\ Sound /\ Trusted
    BY <1>1, TypesAre DEF IInv, Undamaged, Sound, Trusted
  <2>2. Info!IndexLzOrigSize(Len(FlattenSeq(archive.literals)), archive.lists) = Len(backend)
    <3> DEFINE lit == Len(FlattenSeq(archive.literals))
               u == Cardinality(Uncovered(archive, 0, Len(archive.original)))
               c == Cardinality(Covered(archive))
    <3>1. lit = u
      BY <2>1, LiteralsCounted
    <3>2. u \in Nat /\ c \in Nat /\ u + c = Len(archive.original)
      <4>1. Len(archive.original) \in Nat
        BY <2>1, ArchiveShape
      <4> QED
        BY <4>1, BytesCounted
    <3>3. backend = archive.original
      BY <1>1, <2>1 DEF AllOut
    <3> HIDE DEF lit, u, c
    <3>4. Info!IndexLzOrigSize(lit, archive.lists) = lit + c
      BY <2>1, OriginalCounted DEF c
    <3>5. Info!IndexLzOrigSize(lit, archive.lists) = Len(backend)
      BY <3>1, <3>2, <3>3, <3>4
    <3> QED
      BY <3>5 DEF lit
  <2>3. Info!MaxRam(archive.lists, Info!IndexLzEnds(Sizes), MaximumSave)
           = Info!MaxRam(archive.lists, Info!FutureLzEnds(Sizes), MaximumSave)
    <3>1. AreEnds(Info!FutureLzEnds(Sizes)) /\ AreEnds(Info!IndexLzEnds(Sizes))
      BY <2>1, FutureLzEndsAre, IndexLzEndsAre
    <3>2. PICK top : \A ends : AreEnds(ends) =>
             Info!MaxRam(archive.lists, ends, MaximumSave) = top[Len(archive.lists)]
      <4>1. \E g, top :
              /\ AddsUp(g) /\ IsPeak(top, Chunks(g), Len(archive.lists))
              /\ Chunks(g) \in [0 .. Len(archive.lists) -> Nat]
              /\ \A b \in 0 .. Len(archive.lists) : Chunks(g)[b] = g[DueAfter(b)]
              /\ \A ends : AreEnds(ends) => Info!MaxRam(archive.lists, ends, MaximumSave) = top[Len(archive.lists)]
        BY <1>1, <2>1, EstimateExists
      <4> QED
        BY <4>1
    <3> QED
      BY <3>1, <3>2
  <2> QED
    BY <2>2, <2>3 DEF EstimatedMemory
<1> QED
  BY <1>1, Invariance, AlwaysAllOut, PTL
=============================================================================
