--------------------------- MODULE FirstPass_proofs ---------------------------
(***************************************************************************)
(* Proofs about the first compression pass, for any files, settings and    *)
(* hashes.  First what DECODE_LZ_MATCH makes of a record written by        *)
(* ENCODE_LZ_MATCH; then the state's type; then that whatever is found is  *)
(* a match, in four steps: the ring holds the bytes it is taken to hold,   *)
(* the tables name earlier places, the searches compare the bytes they     *)
(* mean to, and the blocks' matches are disjoint.  Last, that literals are *)
(* counted and records read back as the matches found.                     *)
(***************************************************************************)
EXTENDS FirstPass, Induction, TLAPS

-----------------------------------------------------------------------------
(* Records. *)

S == StatValues

\* The number of values of an Offset, and the offset that two words stand for.
Offsets == S * S
Value(low, high) == low + high * S

\* A match that fits the words of a record whose lengths are relative to base.
FitsRecord(base, litLen, offset, len) ==
    litLen \in 0 .. S - 1 /\ offset \in Nat /\ offset < Offsets /\ len \in base .. S - 1

\* The other end of the match that is read at pos is a position too.
OffsetInFile(futureLz, pos, offset) ==
    /\ futureLz \in BOOLEAN
    /\ pos \in Nat /\ pos < Offsets
    /\ IF futureLz THEN pos + offset < Offsets ELSE offset <= pos

\* The match of len bytes whose copy lies offset bytes after its source.
MatchOf(futureLz, litLen, pos, offset, len) ==
    [litLen |-> litLen,
     len |-> len,
     src |-> IF futureLz THEN pos ELSE pos - offset,
     dest |-> IF futureLz THEN pos + offset ELSE pos]

LEMMA Sizes == S \in Nat \ {0} /\ Offsets \in Nat \ {0}
  BY RecordsAssumption DEF S, Offsets

LEMMA DivMod ==
    ASSUME NEW a \in Nat, NEW b \in Nat \ {0}
    PROVE  /\ a \div b \in Nat
           /\ a % b \in 0 .. b - 1
           /\ a = b * (a \div b) + (a % b)
  OBVIOUS

LEMMA UniqueDivMod ==
    ASSUME NEW b \in Nat \ {0}, NEW q \in Nat, NEW r \in 0 .. b - 1
    PROVE  (b * q + r) \div b = q /\ (b * q + r) % b = r
  <1> DEFINE a == b * q + r
  <1> DEFINE p == a \div b
  <1>1. a \in Nat
    OBVIOUS
  <1>2. p \in Nat /\ a % b \in 0 .. b - 1 /\ a = b * p + (a % b)
    BY <1>1, DivMod
  <1> HIDE DEF p
  <1>3. p = q
    <2>1. CASE p < q
      <3>1. b * (p + 1) <= b * q
        BY <1>2, <2>1
      <3> QED
        BY <1>2, <3>1
    <2>2. CASE p > q
      <3>1. b * (q + 1) <= b * p
        BY <1>2, <2>2
      <3> QED
        BY <1>2, <3>1
    <2> QED
      BY <1>2, <2>1, <2>2
  <1> QED
    BY <1>2, <1>3 DEF p

\* A number less than S * S is the value of its two words.
LEMMA TwoWords ==
    ASSUME NEW a \in Nat, a < Offsets
    PROVE  /\ a \div S \in 0 .. S - 1
           /\ a % S \in 0 .. S - 1
           /\ Value(a % S, a \div S) = a
  <1>1. S \in Nat \ {0} /\ Offsets \in Nat \ {0}
    BY Sizes
  <1>2. /\ a \div S \in Nat
        /\ a % S \in 0 .. S - 1
        /\ a = S * (a \div S) + (a % S)
    BY <1>1, DivMod
  <1>3. a \div S < S
    <2>1. SUFFICES ASSUME a \div S >= S PROVE FALSE
      BY <1>1, <1>2
    <2>2. S * (a \div S) >= S * S
      BY <1>1, <1>2, <2>1
    <2> QED
      BY <1>1, <1>2, <2>2 DEF Offsets
  <1> QED
    BY <1>1, <1>2, <1>3 DEF Value

-----------------------------------------------------------------------------
\* What is read from the record <<litLen, low, high, length>>, with the values given.
DecodesTo(futureLz, B, litLen, low, high, length, basicPos, pos, offset) ==
    /\ B \in Nat /\ litLen \in Nat /\ low \in Nat /\ high \in Nat
    /\ length \in Nat /\ basicPos \in Nat /\ pos = basicPos + litLen
    /\ offset \in Nat /\ offset = Value(low, high)
    /\ OffsetInFile(futureLz, pos, offset)
    => DecodeLzMatch(futureLz, FALSE, B, basicPos, <<litLen, low, high, length>>)
         = MatchOf(futureLz, litLen, pos, offset, (length + B) % S)

LEMMA DecodePlain ==
    ASSUME NEW futureLz, NEW B, NEW litLen, NEW low, NEW high, NEW length,
           NEW basicPos, NEW pos, NEW offset
    PROVE  DecodesTo(futureLz, B, litLen, low, high, length, basicPos, pos, offset)
  <1> SUFFICES
        ASSUME B \in Nat, litLen \in Nat, low \in Nat, high \in Nat,
               length \in Nat, basicPos \in Nat, pos = basicPos + litLen,
               offset \in Nat, offset = Value(low, high),
               OffsetInFile(futureLz, pos, offset)
        PROVE  DecodeLzMatch(futureLz, FALSE, B, basicPos, <<litLen, low, high, length>>)
                 = MatchOf(futureLz, litLen, pos, offset, (length + B) % S)
    BY Zenon DEF DecodesTo
  <1> DEFINE V == Offsets
             r == <<litLen, low, high, length>>
  <1>1. S \in Nat \ {0} /\ V \in Nat \ {0}
    BY Sizes
  <1>2. /\ futureLz \in BOOLEAN
        /\ pos \in Nat /\ pos < V
        /\ IF futureLz THEN pos + offset < V ELSE offset <= pos
    BY DEF OffsetInFile
  <1>3. /\ r[1] = litLen /\ r[2] = low /\ r[3] = high
        /\ Len(r) = 4 /\ r[4] = length
    OBVIOUS
  <1>4. (pos \div 1) * 1 = pos /\ offset * 1 = offset /\ length * 1 = length
    BY <1>2
  <1>5. ~ futureLz => (pos + V - offset) % V = pos - offset
    <2> SUFFICES ASSUME ~ futureLz PROVE (pos + V - offset) % V = pos - offset
      OBVIOUS
    <2> DEFINE d == pos - offset
    <2>1. d \in 0 .. V - 1 /\ pos + V - offset = V * 1 + d
      BY <1>1, <1>2
    <2> HIDE DEF V, d
    <2>2. (V * 1 + d) % V = d
      BY <1>1, <2>1, UniqueDivMod
    <2> QED
      BY <2>1, <2>2 DEF d
  <1>6. futureLz => (pos + offset) % V = pos + offset
    <2> SUFFICES ASSUME futureLz PROVE (pos + offset) % V = pos + offset
      OBVIOUS
    <2> DEFINE d == pos + offset
    <2>1. d \in 0 .. V - 1 /\ d = V * 0 + d
      BY <1>1, <1>2
    <2> HIDE DEF V, d
    <2>2. (V * 0 + d) % V = d
      BY <1>1, <2>1, UniqueDivMod
    <2> QED
      BY <2>1, <2>2 DEF d
  <1>7. DecodeLzMatch(futureLz, FALSE, B, basicPos, r)
          = [litLen |-> r[1],
             len |-> (r[Len(r)] * 1 + B) % S,
             src |-> IF futureLz THEN basicPos + r[1]
                     ELSE ((((basicPos + r[1]) \div 1) * 1) + V - ((r[2] + r[3] * S) * 1)) % V,
             dest |-> IF futureLz THEN ((basicPos + r[1]) + ((r[2] + r[3] * S) * 1)) % V
                      ELSE basicPos + r[1]]
    BY DEF DecodeLzMatch, Unit, S, Offsets
  <1>8. (r[2] + r[3] * S) * 1 = offset
    BY <1>1, <1>3, <1>4 DEF Value
  <1> HIDE DEF r, V
  <1>9. DecodeLzMatch(futureLz, FALSE, B, basicPos, r)
          = [litLen |-> litLen,
             len |-> (length + B) % S,
             src |-> IF futureLz THEN pos ELSE (pos + V - offset) % V,
             dest |-> IF futureLz THEN (pos + offset) % V ELSE pos]
    BY <1>3, <1>4, <1>7, <1>8
  <1>10. DecodeLzMatch(futureLz, FALSE, B, basicPos, r)
           = MatchOf(futureLz, litLen, pos, offset, (length + B) % S)
    <2>1. CASE futureLz
      BY <1>6, <1>9, <2>1 DEF MatchOf
    <2>2. CASE ~ futureLz
      BY <1>5, <1>9, <2>2 DEF MatchOf
    <2> QED
      BY <2>1, <2>2
  <1> QED
    BY <1>10 DEF r

\* What is written for a match without rounding, and that it fits the words.
LEMMA EncodePlain ==
    ASSUME NEW base \in Nat, NEW litLen, NEW offset, NEW len, FitsRecord(base, litLen, offset, len)
    PROVE  /\ EncodeLzMatch(FALSE, base, litLen, offset, len)
                = <<litLen, offset % S, offset \div S, len - base>>
           /\ offset % S \in Nat
           /\ offset \div S \in Nat
           /\ Value(offset % S, offset \div S) = offset
  <1>1. S \in Nat \ {0}
    BY Sizes
  <1>2. litLen \in 0 .. S - 1 /\ offset \in Nat /\ offset < Offsets /\ len \in base .. S - 1
    BY DEF FitsRecord
  <1>3. litLen % S = litLen /\ offset \div 1 = offset /\ (len - base) \div 1 = len - base
    BY <1>1, <1>2
  <1>4. EncodeLzMatch(FALSE, base, litLen, offset, len)
          = <<litLen % S, (offset \div 1) % S, (offset \div 1) \div S, (len - base) \div 1>>
    BY DEF EncodeLzMatch, Unit, S
  <1>5. /\ offset \div S \in 0 .. S - 1
        /\ offset % S \in 0 .. S - 1
        /\ Value(offset % S, offset \div S) = offset
    BY <1>2, TwoWords
  <1>6. EncodeLzMatch(FALSE, base, litLen, offset, len)
          = <<litLen, offset % S, offset \div S, len - base>>
    BY <1>3, <1>4, Zenon
  <1>7. offset \div S \in Nat /\ offset % S \in Nat
    BY <1>1, <1>5
  <1> QED
    BY <1>5, <1>6, <1>7

\* A record written with lengths relative to base and read relative to B.
ReadsBack(futureLz, base, B, litLen, offset, len, basicPos, pos) ==
    /\ base \in Nat /\ B \in Nat
    /\ FitsRecord(base, litLen, offset, len)
    /\ basicPos \in Nat /\ pos = basicPos + litLen
    /\ OffsetInFile(futureLz, pos, offset)
    => DecodeLzMatch(futureLz, FALSE, B, basicPos, EncodeLzMatch(FALSE, base, litLen, offset, len))
         = MatchOf(futureLz, litLen, pos, offset, ((len - base) + B) % S)

LEMMA PlainRecord ==
    ASSUME NEW futureLz, NEW base, NEW B, NEW litLen, NEW offset, NEW len, NEW basicPos, NEW pos
    PROVE  ReadsBack(futureLz, base, B, litLen, offset, len, basicPos, pos)
  <1> SUFFICES
        ASSUME base \in Nat, B \in Nat, FitsRecord(base, litLen, offset, len),
               basicPos \in Nat, pos = basicPos + litLen,
               OffsetInFile(futureLz, pos, offset)
        PROVE  DecodeLzMatch(futureLz, FALSE, B, basicPos,
                             EncodeLzMatch(FALSE, base, litLen, offset, len))
                 = MatchOf(futureLz, litLen, pos, offset, ((len - base) + B) % S)
    BY Zenon DEF ReadsBack
  <1> DEFINE low == offset % S
             high == offset \div S
             length == len - base
  <1>1. /\ EncodeLzMatch(FALSE, base, litLen, offset, len) = <<litLen, low, high, length>>
        /\ low \in Nat /\ high \in Nat /\ Value(low, high) = offset
    BY ZenonT(60), EncodePlain
  <1>2. litLen \in Nat /\ offset \in Nat /\ length \in Nat
    BY Sizes DEF FitsRecord
  <1> HIDE DEF low, high, length
  <1>3. DecodesTo(futureLz, B, litLen, low, high, length, basicPos, pos, offset)
    BY DecodePlain, Zenon
  <1>4. DecodeLzMatch(futureLz, FALSE, B, basicPos, <<litLen, low, high, length>>)
          = MatchOf(futureLz, litLen, pos, offset, (length + B) % S)
    BY <1>1, <1>2, <1>3, Zenon DEF DecodesTo
  <1> QED
    BY <1>1, <1>4, Zenon DEF length

\* A record reads back as the match it was written for, in both layouts: its length, its
\* place and the place it is copied from (srep.cpp:108-131).
THEOREM RoundTrip ==
    ASSUME NEW base \in Nat, NEW litLen, NEW offset, NEW len,
           FitsRecord(base, litLen, offset, len),
           NEW basicPos \in Nat, NEW pos, pos = basicPos + litLen,
           NEW futureLz, OffsetInFile(futureLz, pos, offset)
    PROVE  DecodeLzMatch(futureLz, FALSE, base, basicPos, EncodeLzMatch(FALSE, base, litLen, offset, len))
             = MatchOf(futureLz, litLen, pos, offset, len)
  <1>1. ((len - base) + base) % S = len
    BY Sizes DEF FitsRecord
  <1>2. ReadsBack(futureLz, base, base, litLen, offset, len, basicPos, pos)
    BY PlainRecord, Zenon
  <1>3. DecodeLzMatch(futureLz, FALSE, base, basicPos, EncodeLzMatch(FALSE, base, litLen, offset, len))
          = MatchOf(futureLz, litLen, pos, offset, ((len - base) + base) % S)
    BY <1>2, Zenon DEF ReadsBack
  <1> QED
    BY <1>1, <1>3, Zenon

\* Lengths written relative to one base and read relative to another come out different:
\* writer and reader of an archive must have the same BASE_LEN (srep.cpp:385,
\* compress_cdc.cpp:208).
THEOREM OneBase ==
    ASSUME NEW base \in Nat, NEW B \in Nat, base # B, B < S, NEW litLen, NEW offset, NEW len,
           FitsRecord(base, litLen, offset, len),
           NEW basicPos \in Nat, NEW pos, pos = basicPos + litLen,
           NEW futureLz, OffsetInFile(futureLz, pos, offset)
    PROVE  DecodeLzMatch(futureLz, FALSE, B, basicPos,
                         EncodeLzMatch(FALSE, base, litLen, offset, len)).len # len
  <1>1. S \in Nat \ {0} /\ len \in base .. S - 1
    BY Sizes DEF FitsRecord
  <1> DEFINE n == (len - base) + B
  <1>2. n % S # len
    <2>1. n \in Nat /\ n # len
      BY <1>1
    <2>2. CASE n < S
      <3>1. n % S = n
        BY <1>1, <2>1, <2>2
      <3> QED
        BY <2>1, <3>1
    <2>3. CASE n >= S
      <3> DEFINE d == n - S
      <3>1. d \in 0 .. S - 1 /\ n = S * 1 + d /\ d < len
        BY <1>1, <2>1, <2>3
      <3> HIDE DEF n, d
      <3>2. (S * 1 + d) % S = d
        BY <1>1, <3>1, UniqueDivMod
      <3> QED
        BY <1>1, <3>1, <3>2
    <2> QED
      BY <1>1, <2>1, <2>2, <2>3
  <1>3. ReadsBack(futureLz, base, B, litLen, offset, len, basicPos, pos)
    BY PlainRecord, Zenon
  <1>4. DecodeLzMatch(futureLz, FALSE, B, basicPos, EncodeLzMatch(FALSE, base, litLen, offset, len))
          = MatchOf(futureLz, litLen, pos, offset, n % S)
    BY <1>3, Zenon DEF ReadsBack
  <1>5. MatchOf(futureLz, litLen, pos, offset, n % S).len = n % S
    BY DEF MatchOf
  <1> HIDE DEF n
  <1> QED
    BY <1>2, <1>4, <1>5

\* A record of ROUND_MATCHES that reads back.
ReadsBackRounded(base, litLen, offset, len, basicPos, pos) ==
    /\ base \in Nat \ {0} /\ FitsRecord(base, litLen, offset, len)
    /\ offset \div base < S /\ len % base = 0
    /\ basicPos \in Nat /\ pos = basicPos + litLen
    /\ OffsetInFile(FALSE, pos, offset) /\ (pos - offset) % base = 0
    => DecodeLzMatch(FALSE, TRUE, base, basicPos, EncodeLzMatch(TRUE, base, litLen, offset, len))
         = MatchOf(FALSE, litLen, pos, offset, len)

LEMMA RoundedRecord ==
    ASSUME NEW base, NEW litLen, NEW offset, NEW len, NEW basicPos, NEW pos
    PROVE  ReadsBackRounded(base, litLen, offset, len, basicPos, pos)
  <1> SUFFICES
        ASSUME base \in Nat \ {0}, FitsRecord(base, litLen, offset, len),
               offset \div base < S, len % base = 0,
               basicPos \in Nat, pos = basicPos + litLen,
               OffsetInFile(FALSE, pos, offset), (pos - offset) % base = 0
        PROVE  DecodeLzMatch(FALSE, TRUE, base, basicPos,
                             EncodeLzMatch(TRUE, base, litLen, offset, len))
                 = MatchOf(FALSE, litLen, pos, offset, len)
    BY Zenon DEF ReadsBackRounded
  <1> DEFINE V == Offsets
             src == pos - offset
             u == offset \div base
             v == src \div base
             q == pos \div base
             w == (len - base) \div base
             n == len \div base
             t == offset % base
             r == <<litLen, u, w>>
  <1>1. /\ S \in Nat \ {0} /\ V \in Nat \ {0}
        /\ litLen \in 0 .. S - 1 /\ offset \in Nat /\ len \in base .. S - 1
        /\ pos \in Nat /\ pos < V /\ offset <= pos /\ src \in Nat /\ pos = src + offset
        /\ len - base \in Nat
    BY Sizes DEF FitsRecord, OffsetInFile
  <1>2. u \in Nat /\ t \in 0 .. base - 1 /\ offset = base * u + t
    BY <1>1, DivMod
  <1>3. v \in Nat /\ src = base * v
    <2> HIDE DEF src
    <2>1. v \in Nat /\ src % base \in 0 .. base - 1 /\ src = base * v + (src % base)
      BY <1>1, DivMod
    <2> QED
      BY <2>1 DEF src
  <1>4. n \in Nat /\ len = base * n
    <2>1. n \in Nat /\ len % base \in 0 .. base - 1 /\ len = base * n + (len % base)
      BY <1>1, DivMod
    <2> QED
      BY <2>1
  <1> HIDE DEF V, src, u, v, q, w, n, t
  <1>5. q * base = base * (v + u)
    <2>0. base * (v + u) = base * v + base * u
      BY <1>2, <1>3
    <2>1. pos = base * (v + u) + t
      <3> DEFINE bu == base * u
                 bv == base * v
      <3>1. bu \in Nat /\ bv \in Nat
        BY <1>2, <1>3
      <3>2. pos = src + offset /\ src = bv /\ offset = bu + t /\ t \in Nat
        BY <1>1, <1>2, <1>3
      <3> HIDE DEF bu, bv
      <3>3. pos = (bv + bu) + t
        BY ONLY <3>1, <3>2
      <3> QED
        BY <2>0, <3>3 DEF bu, bv
    <2>2. (base * (v + u) + t) \div base = v + u
      <3>1. v + u \in Nat /\ t \in 0 .. base - 1
        BY <1>2, <1>3
      <3> QED
        BY ONLY <3>1, UniqueDivMod, base \in Nat \ {0}
    <2> QED
      BY <1>2, <1>3, <2>1, <2>2 DEF q
  <1>6. w * base + base = len /\ w \in Nat
    <2>1. n >= 1
      BY <1>1, <1>4
    <2>2. n - 1 \in Nat /\ len - base = base * (n - 1) + 0 /\ 0 \in 0 .. base - 1
      BY <1>4, <2>1
    <2>3. (base * (n - 1) + 0) \div base = n - 1
      BY <2>2, UniqueDivMod
    <2>4. w = n - 1
      BY <2>2, <2>3 DEF w
    <2> QED
      BY <1>4, <2>2, <2>4
  <1>7. q * base + V - u * base = V * 1 + src /\ src \in 0 .. V - 1
    <2> DEFINE bu == base * u
    <2>1. bu \in Nat /\ u * base = bu /\ base * (v + u) = src + bu
      BY <1>2, <1>3
    <2>2. src <= pos
      BY <1>1
    <2> HIDE DEF bu
    <2>3. q * base + V - u * base = src + bu + V - bu
      BY <1>5, <2>1
    <2> QED
      BY <1>1, <2>1, <2>2, <2>3
  <1>8. (q * base + V - u * base) % V = src
    <2>1. V \in Nat \ {0} /\ src \in 0 .. V - 1
      BY <1>1, <1>7
    <2>2. (V * 1 + src) % V = src
      BY ONLY <2>1, UniqueDivMod
    <2> QED
      BY ONLY <1>7, <2>2
  <1>9. EncodeLzMatch(TRUE, base, litLen, offset, len) = r
    <2>1. litLen % S = litLen /\ u % S = u
      BY <1>1, <1>2 DEF u
    <2>2. EncodeLzMatch(TRUE, base, litLen, offset, len) = <<litLen % S, u % S, w>>
      BY DEF EncodeLzMatch, Unit, S, u, w
    <2> QED
      BY <2>1, <2>2
  <1>10. r[1] = litLen /\ r[2] = u /\ Len(r) = 3 /\ r[3] = w
    OBVIOUS
  <1>11. DecodeLzMatch(FALSE, TRUE, base, basicPos, r)
           = [litLen |-> r[1],
              len |-> (r[Len(r)] * base + base) % S,
              src |-> (((basicPos + r[1]) \div base) * base + V - (r[2] + 0) * base) % V,
              dest |-> basicPos + r[1]]
    BY DEF DecodeLzMatch, Unit, S, Offsets, V
  <1> HIDE DEF r
  <1>12. DecodeLzMatch(FALSE, TRUE, base, basicPos, r)
           = [litLen |-> litLen, len |-> len % S, src |-> (q * base + V - u * base) % V, dest |-> pos]
    <2>1. basicPos + r[1] = pos /\ r[2] + 0 = u /\ r[Len(r)] * base + base = len
      BY <1>2, <1>6, <1>10
    <2> QED
      BY <1>10, <1>11, <2>1 DEF q
  <1>13. len % S = len
    BY <1>1
  <1> QED
    BY <1>8, <1>9, <1>12, <1>13 DEF MatchOf, src

\* With ROUND_MATCHES too, if the length and the source are multiples of the base: the
\* destination need not be one (srep.cpp:109, 129).
THEOREM RoundTripRounded ==
    ASSUME NEW base \in Nat \ {0}, NEW litLen, NEW offset, NEW len,
           FitsRecord(base, litLen, offset, len), offset \div base < S, len % base = 0,
           NEW basicPos \in Nat, NEW pos, pos = basicPos + litLen,
           OffsetInFile(FALSE, pos, offset), (pos - offset) % base = 0
    PROVE  DecodeLzMatch(FALSE, TRUE, base, basicPos, EncodeLzMatch(TRUE, base, litLen, offset, len))
             = MatchOf(FALSE, litLen, pos, offset, len)
  <1>1. ReadsBackRounded(base, litLen, offset, len, basicPos, pos)
    BY RoundedRecord, Zenon
  <1> QED
    BY <1>1, Zenon DEF ReadsBackRounded


-----------------------------------------------------------------------------
(* The least and the greatest number of a set, and runs. *)

LEMMA MinIs ==
    ASSUME NEW T, T \subseteq Nat, T # {}
    PROVE  Min(T) \in T /\ \A y \in T : Min(T) <= y
  <1>1. \E m \in T : \A y \in T : m <= y
    BY LeastNumber
  <1> QED
    BY <1>1 DEF Min

LEMMA MinOfTwo ==
    ASSUME NEW a \in Int, NEW b \in Int
    PROVE  /\ Min({a, b}) = IF a <= b THEN a ELSE b
           /\ Max({a, b}) = IF a <= b THEN b ELSE a
  <1> DEFINE T == {a, b}
  <1>1. \A x, y \in T : x \in Int /\ y \in Int
    OBVIOUS
  <1>2. Min(T) \in T /\ \A y \in T : Min(T) <= y
    <2>1. \E m \in T : \A y \in T : m <= y
      OBVIOUS
    <2> QED
      BY <2>1 DEF Min
  <1>3. Max(T) \in T /\ \A y \in T : Max(T) >= y
    <2>1. \E m \in T : \A y \in T : m >= y
      OBVIOUS
    <2> QED
      BY <2>1 DEF Max
  <1> QED
    BY <1>2, <1>3

LEMMA MaxIs ==
    ASSUME NEW n \in Nat, NEW T, T \subseteq 0 .. n, T # {}
    PROVE  Max(T) \in T /\ \A y \in T : Max(T) >= y
  <1> DEFINE U == {n - x : x \in T}
  <1>1. U \subseteq Nat /\ U # {}
    OBVIOUS
  <1>2. PICK m \in U : \A u \in U : m <= u
    BY <1>1, LeastNumber
  <1>3. PICK x \in T : m = n - x
    BY <1>2
  <1>4. \A y \in T : n - x <= n - y
    BY <1>2, <1>3
  <1>5. \A y \in T : y \in 0 .. n
    OBVIOUS
  <1>6. \A y \in T : x >= y
    BY <1>4, <1>5
  <1>7. \E g \in T : \A y \in T : g >= y
    BY <1>6
  <1> QED
    BY <1>7 DEF Max

\* What RunEnd finds, if T are the places that differ.
LEMMA RunEndIs ==
    ASSUME NEW from \in Nat, NEW to \in Nat, from <= to, NEW T, T \subseteq from .. to - 1
    PROVE  /\ Min({to} \cup T) \in from .. to
           /\ \A x \in from .. Min({to} \cup T) - 1 : x \notin T
  <1> DEFINE e == Min({to} \cup T)
  <1>1. {to} \cup T \subseteq Nat /\ {to} \cup T # {}
    OBVIOUS
  <1>2. e \in {to} \cup T /\ \A y \in {to} \cup T : e <= y
    BY <1>1, MinIs
  <1> HIDE DEF e
  <1>3. e \in from .. to
    BY <1>2
  <1>4. ASSUME NEW x \in from .. e - 1, x \in T PROVE FALSE
    BY <1>2, <1>3, <1>4
  <1> QED
    BY <1>3, <1>4 DEF e

\* What RunStart finds.
LEMMA RunStartIs ==
    ASSUME NEW from \in Nat, NEW to \in Nat, to <= from, NEW T, T \subseteq to .. from - 1
    PROVE  /\ Max({to} \cup {x + 1 : x \in T}) \in to .. from
           /\ \A x \in Max({to} \cup {y + 1 : y \in T}) .. from - 1 : x \notin T
  <1> DEFINE U == {to} \cup {x + 1 : x \in T}
             b == Max(U)
  <1>1. U \subseteq 0 .. from /\ U # {}
    OBVIOUS
  <1>2. b \in U /\ \A y \in U : b >= y
    <2> HIDE DEF U
    <2> QED
      BY <1>1, MaxIs
  <1>3. U \subseteq to .. from
    OBVIOUS
  <1>4. b \in to .. from
    BY <1>2, <1>3
  <1>5. ASSUME NEW x \in b .. from - 1, x \in T PROVE FALSE
    <2>1. x + 1 \in U
      BY <1>5
    <2> HIDE DEF U, b
    <2>2. b >= x + 1
      BY <1>2, <2>1
    <2> QED
      BY <1>4, <2>2
  <1> QED
    BY <1>4, <1>5

-----------------------------------------------------------------------------
(* Multiples and remainders. *)

\* A number below q * b that is a multiple of b is at most (q - 1) * b.
LEMMA MultipleFits ==
    ASSUME NEW b \in Nat \ {0}, NEW a \in Nat, NEW q \in Nat, a % b = 0, a < b * q
    PROVE  a + b <= b * q
  <1> DEFINE u == a \div b
  <1>1. u \in Nat /\ a = b * u
    <2>1. a \div b \in Nat /\ a = b * (a \div b) + (a % b)
      BY DivMod
    <2> QED
      BY <2>1
  <1> HIDE DEF u
  <1>2. u < q
    <2>1. SUFFICES ASSUME u >= q PROVE FALSE
      BY <1>1
    <2>2. b * u >= b * q
      BY <1>1, <2>1
    <2>3. b * q \in Nat
      OBVIOUS
    <2> QED
      BY <1>1, <2>2, <2>3
  <1>3. b * (u + 1) <= b * q
    BY <1>1, <1>2
  <1> QED
    BY <1>1, <1>3

\* The sum of two multiples is a multiple, and so is the difference.
LEMMA MultipleSum ==
    ASSUME NEW b \in Nat \ {0}, NEW u \in Int
    PROVE  (b * u) % b = 0
  OBVIOUS

LEMMA SumOfMultiples ==
    ASSUME NEW b \in Nat \ {0}, NEW a \in Nat, NEW c \in Nat, a % b = 0, c % b = 0
    PROVE  (a + c) % b = 0
  <1>1. a \div b \in Nat /\ a = b * (a \div b) + (a % b)
    BY DivMod
  <1>2. c \div b \in Nat /\ c = b * (c \div b) + (c % b)
    BY DivMod
  <1> DEFINE u == a \div b
             v == c \div b
  <1> HIDE DEF u, v
  <1>3. u \in Nat /\ v \in Nat /\ a = b * u /\ c = b * v
    BY <1>1, <1>2 DEF u, v
  <1>4. a + c = b * (u + v) + 0 /\ u + v \in Nat /\ 0 \in 0 .. b - 1
    BY <1>3
  <1> QED
    BY <1>4, UniqueDivMod

LEMMA ModSelf ==
    ASSUME NEW b \in Nat \ {0}
    PROVE  b % b = 0 /\ 0 % b = 0
  OBVIOUS

\* The remainder of a multiple of b by another is a multiple of b, and leaves room for b more.
LEMMA ModOfMultiple ==
    ASSUME NEW b \in Nat \ {0}, NEW q \in Nat \ {0}, NEW d, d = b * q, NEW a \in Nat, a % b = 0
    PROVE  /\ a % d \in 0 .. d - 1
           /\ (a % d) % b = 0
           /\ (a % d) + b <= d
  <1> DEFINE r == a % d
             s == a \div d
             u == a \div b
  <1>1. d \in Nat \ {0}
    <2>1. b * q >= b
      OBVIOUS
    <2> QED
      BY <2>1
  <1>2. s \in Nat /\ r \in 0 .. d - 1 /\ a = d * s + r
    BY <1>1, DivMod
  <1>3. u \in Nat /\ a = b * u
    <2>1. a \div b \in Nat /\ a = b * (a \div b) + (a % b)
      BY DivMod
    <2> QED
      BY <2>1
  <1> HIDE DEF r, s, u
  <1>4. r = b * (u - q * s)
    <2>1. d * s = b * (q * s)
      BY <1>2
    <2>2. q * s \in Nat
      BY <1>2
    <2> DEFINE qs == q * s
    <2> HIDE DEF qs
    <2>3. b * (u - qs) = b * u - b * qs
      BY <1>3, <2>2 DEF qs
    <2>4. b * u \in Nat /\ b * qs \in Nat
      BY <1>3, <2>2 DEF qs
    <2>5. a = b * qs + r /\ a = b * u /\ r \in Nat
      BY <1>2, <1>3, <2>1 DEF qs
    <2>6. r = b * u - b * qs
      BY ONLY <2>4, <2>5
    <2> QED
      BY <2>3, <2>6 DEF qs
  <1>5. r % b = 0
    <2>1. u - q * s \in Int
      BY <1>2, <1>3
    <2> QED
      BY <1>4, <2>1, MultipleSum
  <1>6. r + b <= b * q
    <2>1. r \in Nat /\ r < b * q
      <3>1. r \in Nat /\ r < d
        BY <1>1, <1>2
      <3>2. d = b * q
        OBVIOUS
      <3> QED
        BY ONLY <3>1, <3>2
    <2>2. b \in Nat \ {0} /\ q \in Nat
      OBVIOUS
    <2> QED
      BY ONLY <1>5, <2>1, <2>2, MultipleFits
  <1>7. r + b <= d
    <2>1. d = b * q
      OBVIOUS
    <2> QED
      BY ONLY <1>6, <2>1
  <1>8. r \in 0 .. d - 1 /\ r % b = 0 /\ r + b <= d
    BY <1>2, <1>5, <1>7
  <1> QED
    BY ONLY <1>8 DEF r

\* Numbers less than d apart with one remainder are equal.
LEMMA ModApart ==
    ASSUME NEW d \in Nat \ {0}, NEW a \in Nat, NEW c \in Nat, a <= c, c < a + d, a % d = c % d
    PROVE  a = c
  <1> DEFINE s == a \div d
             t == c \div d
             r == a % d
  <1>1. s \in Nat /\ r \in 0 .. d - 1 /\ a = d * s + r
    BY DivMod
  <1>2. t \in Nat /\ c = d * t + r
    BY DivMod
  <1> HIDE DEF r, s, t
  <1>3. d * (t - s) = c - a
    <2> DEFINE ds == d * s
               dt == d * t
    <2>1. ds \in Nat /\ dt \in Nat /\ a = ds + r /\ c = dt + r /\ d * (t - s) = dt - ds /\ r \in Nat
      BY <1>1, <1>2
    <2> HIDE DEF ds, dt
    <2> QED
      BY ONLY <2>1
  <1>4. t - s = 0
    <2>1. CASE t - s >= 1
      <3>1. d * (t - s) >= d
        BY <1>1, <1>2, <2>1
      <3> QED
        BY <1>3, <3>1
    <2>2. CASE t - s <= -1
      <3>1. d * (t - s) <= 0 - d
        BY <1>1, <1>2, <2>2
      <3> QED
        BY <1>3, <3>1
    <2> QED
      BY <1>1, <1>2, <2>1, <2>2
  <1>5. t = s
    BY <1>1, <1>2, <1>4
  <1> QED
    BY <1>1, <1>2, <1>5

\* While there is no wrap, remainders grow with the number.
LEMMA ModPlus ==
    ASSUME NEW d \in Nat \ {0}, NEW a \in Nat, NEW x \in Nat, (a % d) + x < d
    PROVE  (a + x) % d = (a % d) + x
  <1> DEFINE s == a \div d
             r == a % d
  <1>1. s \in Nat /\ r \in 0 .. d - 1 /\ a = d * s + r
    BY DivMod
  <1>2. r + x \in 0 .. d - 1
    BY <1>1
  <1> HIDE DEF r, s
  <1>3. a + x = d * s + (r + x)
    <2> DEFINE ds == d * s
    <2>1. ds \in Nat /\ a = ds + r /\ r \in Nat
      BY <1>1
    <2> HIDE DEF ds
    <2>2. a + x = ds + (r + x)
      BY ONLY <2>1, x \in Nat
    <2> QED
      BY <2>2 DEF ds
  <1>4. (d * s + (r + x)) % d = r + x
    BY <1>1, <1>2, UniqueDivMod
  <1> QED
    BY <1>3, <1>4 DEF r

-----------------------------------------------------------------------------
(* The invariant, first what the state's type needs. *)

B == opts.bufSize
D == DictSize(opts)
N == Len(input)

\* A block is being compressed.
Compressing == pc \in {"dict", "first", "scan", "cdc", "end"}

JobGiven == \E j \in Jobs : opts = j.opts /\ input = j.input

\* The threads are at the start of a block or at the end of the file; the block being
\* compressed has been read, and at most one more.
Positions ==
    /\ origsize \in 0 .. N /\ (origsize = N \/ origsize % B = 0)
    /\ read \in origsize .. N /\ (read = N \/ read % B = 0)
    /\ read <= origsize + 2 * B
    /\ Compressing => origsize < N /\ origsize + Size <= read

\* The position in the block suits the search that is going on, and that the method.
InSearch ==
    /\ pc \in {"block", "dict", "first", "scan", "cdc", "end", "done", "failed"}
    /\ i \in 0 .. B
    /\ pc = "dict" => opts.dict > 0 /\ opts.method # "cdc" /\ i <= Size
    /\ pc \in {"first", "scan"} => opts.method \in {"digest", "reread"} /\ 2 * L <= Size
    /\ pc = "first" => i = 0
    /\ pc = "scan" => i + L <= Size /\ (i % L = 0 \/ (i \div L) * L + 2 * L <= Size)
    /\ pc = "cdc" => opts.method = "cdc" /\ i < Size

\* The ring holds the last DictSize bytes read, each at its place.
RingHolds ==
    /\ ring \in [0 .. D - 1 -> Byte \cup {NoByte}]
    /\ \A y \in 0 .. read - 1 : y + D >= read => ring[y % D] = input[y + 1]

\* The bytes of the block that are searched already, in the first lap of the dictionary.
DictPosition ==
    origsize + (CASE pc = "dict" -> i [] pc \in {"block", "done"} -> 0 [] OTHER -> Size)

\* In the first lap of the ring, what the dictionary holds is before what it is asked for.
DictEarlier ==
    \A h \in DOMAIN dictTable :
        dictTable[h] \in 1 .. D - 1 /\ (origsize < D => dictTable[h] < DictPosition)

\* Where content-defined chunks have got to.
CdcPosition == origsize + (CASE pc = "cdc" -> i [] pc = "end" -> Size [] OTHER -> 0)

\* The chunks stored are chunks of the file, and there are no more than bytes.
TablesInFile ==
    /\ \A k \in DOMAIN table : table[k] \in 1 .. N
    /\ Len(startarr) < TotalChunks
    /\ startarr \in Seq(Nat)
    /\ opts.method = "cdc" => Len(startarr) <= CdcPosition

-----------------------------------------------------------------------------
(* The settings, and the sizes that follow from them. *)

LEMMA SettingIs ==
    ASSUME JobGiven
    PROVE  /\ opts \in Setting
           /\ opts.method \in {"rep", "cdc", "digest", "reread"}
           /\ L = opts.L /\ L \in Nat \ {0}
           /\ B = opts.bufSize /\ B \in Nat \ {0}
           /\ opts.minMatch \in Nat \ {0} /\ opts.dict \in Nat
           /\ opts.dictL \in Nat \ {0} /\ opts.dictMinMatch \in Nat \ {0}
           /\ N = Len(input) /\ N \in Nat /\ input \in Seq(Byte)
           /\ opts.method = "rep" => opts.dict > 0
           /\ opts.method = "cdc" => opts.dict = 0
  <1>1. /\ opts \in Setting /\ input \in Seq(Byte)
        /\ opts.method = "rep" => opts.dict > 0
        /\ opts.method = "cdc" => opts.dict = 0
    BY FirstPassAssumption DEF JobGiven
  <1> QED
    BY <1>1 DEF Setting, L, B, N

LEMMA DictSizeIs ==
    ASSUME JobGiven
    PROVE  /\ D \in Nat \ {0}
           /\ D >= opts.dict + 2 * B
           /\ \E q \in Nat \ {0} : D = B * q
  <1>1. B \in Nat \ {0} /\ opts.dict \in Nat
    BY SettingIs
  <1> DEFINE a == opts.dict + B - 1
             q == a \div B
  <1>2. a \in Nat /\ q \in Nat /\ a % B \in 0 .. B - 1 /\ a = B * q + (a % B)
    <2>1. a \in Nat
      BY <1>1
    <2> HIDE DEF a
    <2> QED
      BY <1>1, <2>1, DivMod
  <1>3. D = q * B + 2 * B
    BY DEF D, DictSize, RoundUp, B
  <1> HIDE DEF q
  <1>4. B * q >= opts.dict /\ B * q = q * B /\ B * q \in Nat
    <2> DEFINE bq == B * q
    <2>1. bq \in Nat /\ B * q = q * B
      BY <1>1, <1>2
    <2>2. opts.dict + B - 1 <= bq + B - 1
      BY <1>1, <1>2, <2>1
    <2> HIDE DEF bq
    <2>3. bq >= opts.dict
      BY <1>1, <2>1, <2>2
    <2> QED
      BY <2>1, <2>3 DEF bq
  <1>5. D = B * (q + 2)
    <2>1. B * (q + 2) = B * q + 2 * B
      BY <1>1, <1>2
    <2> QED
      BY <1>3, <1>4, <2>1
  <1>6. q + 2 \in Nat \ {0}
    BY <1>2
  <1>7. D \in Nat \ {0} /\ D >= opts.dict + 2 * B
    BY <1>1, <1>3, <1>4
  <1> QED
    BY <1>5, <1>6, <1>7

LEMMA BaseLenIs ==
    ASSUME JobGiven
    PROVE  BaseLen \in Nat \ {0} /\ BaseLen <= opts.minMatch /\ BaseLen <= opts.dictMinMatch
  BY SettingIs, MinOfTwo DEF BaseLen

LEMMA SizeIs ==
    ASSUME JobGiven, Positions
    PROVE  /\ Size \in 0 .. B
           /\ origsize + Size <= N
           /\ Size = IF B <= N - origsize THEN B ELSE N - origsize
           /\ origsize < N => Size > 0
  <1>1. B \in Nat \ {0} /\ N \in Nat /\ origsize \in 0 .. N
    BY SettingIs DEF Positions
  <1>2. Size = IF B <= N - origsize THEN B ELSE N - origsize
    BY <1>1, MinOfTwo DEF Size, B, N
  <1> QED
    BY <1>1, <1>2

\* A block has its place in the ring, which does not wrap within it.
LEMMA BlockInRing ==
    ASSUME JobGiven, Positions, origsize < N
    PROVE  /\ BufStart \in 0 .. D - 1
           /\ BufStart = origsize % D
           /\ BufStart + B <= D
           /\ BufStart + Size <= D
  <1>1. PICK q \in Nat \ {0} : D = B * q
    BY DictSizeIs
  <1>2. origsize \in Nat /\ origsize % B = 0 /\ B \in Nat \ {0}
    BY SettingIs DEF Positions
  <1>3. origsize % D \in 0 .. D - 1 /\ (origsize % D) + B <= D
    BY <1>1, <1>2, ModOfMultiple
  <1> QED
    BY <1>2, <1>3, SizeIs, DictSizeIs DEF BufStart, D

\* Steps within a block leave the block's place alone.
Steady == UNCHANGED <<opts, input, origsize>>

LEMMA SteadySizes ==
    ASSUME Steady
    PROVE  /\ Size' = Size /\ BufStart' = BufStart /\ B' = B /\ D' = D /\ N' = N /\ L' = L
           /\ BaseLen' = BaseLen /\ Round' = Round /\ TotalChunks' = TotalChunks
           /\ (JobGiven => JobGiven')
  <1>1. opts' = opts /\ input' = input /\ origsize' = origsize
    BY DEF Steady
  <1>2. B' = B /\ N' = N /\ L' = L /\ D' = D
    BY <1>1 DEF B, D, N, L
  <1>3. Size' = Size
    BY <1>1 DEF Size
  <1>4. BufStart' = BufStart
    BY <1>1 DEF BufStart
  <1>5. BaseLen' = BaseLen /\ Round' = Round
    BY <1>1 DEF BaseLen, Round
  <1>6. TotalChunks' = TotalChunks
    BY <1>1, <1>2 DEF TotalChunks
  <1>7. JobGiven => JobGiven'
    BY <1>1 DEF JobGiven
  <1> QED
    BY <1>2, <1>3, <1>4, <1>5, <1>6, <1>7

-----------------------------------------------------------------------------
(* The invariant, second what makes the matches right. *)

\* With -m3 blocks must be made of whole chunks: digests are numbered from the start of a
\* block on, rounded down to a chunk (hash_table.cpp:169).
Aligned == opts.method = "digest" => B % L = 0

\* There is a digest for every whole chunk read, and it is the chunk's.
DigestsRight ==
    opts.method = "digest" /\ Aligned =>
        /\ \A c \in Nat : (c + 1) * L <= read => c \in DOMAIN digests
        /\ \A c \in DOMAIN digests :
              c \in Nat /\ (c + 1) * L <= read /\ digests[c] = SubSeq(input, c * L + 1, (c + 1) * L)

\* The chunks stored are before what is looked up.
ChunksEarlier ==
    opts.method \in {"digest", "reread"} =>
        \A k \in DOMAIN table :
            /\ pc = "scan" => table[k] * L <= origsize + i
            /\ pc \in {"block", "dict", "first", "done"} => table[k] * L < origsize
            /\ pc = "end" => table[k] * L < origsize + Size

\* A digest names its own chunk.
ChunksNamed ==
    opts.method = "digest" /\ Aligned =>
        \A k \in DOMAIN table : table[k] \in DOMAIN digests /\ digests[table[k]] = k

\* The content-defined chunk c has the contents k.
Contents(c, k) ==
    /\ c \in 1 .. Len(startarr)
    /\ k \in Seq(Byte)
    /\ startarr[c] + Len(k) <= CdcPosition
    /\ \A n \in 1 .. Len(k) : k[n] = input[startarr[c] + n]

ContentsNamed == opts.method = "cdc" => \A k \in DOMAIN table : Contents(table[k], k)

Match == [src : Nat, dest : Nat, len : Nat]

\* The len bytes from dest on repeat those from src on.
Repeated(src, dest, len) == \A k \in 1 .. len : input[dest + k] = input[src + k]

\* m is a match that lies from from to to.
IsMatch(m, from, to) ==
    /\ m.len > 0 /\ m.len >= BaseLen
    /\ m.src < m.dest /\ from <= m.dest /\ m.dest + m.len <= to
    /\ Aligned => Repeated(m.src, m.dest, m.len)

\* They are matches that lie one after the other.
InOrder(found, from, to) ==
    /\ found \in Seq(Match)
    /\ \A n \in DOMAIN found : IsMatch(found[n], from, to)
    /\ \A n1, n2 \in DOMAIN found : n1 < n2 => found[n1].dest + found[n1].len <= found[n2].dest

\* What has been found in the block is in order.
BlkOK(s) ==
    /\ s.last_match_end \in 0 .. Size
    /\ InOrder(s.found, origsize, origsize + s.last_match_end)

\* What NewBlock makes.
Fields == {"last_match_end", "literals", "found", "stat"}

BlkMatches ==
    Compressing =>
        /\ BlkOK(blk)
        /\ pc = "first" => blk.last_match_end = 0
        /\ pc = "cdc" => blk.last_match_end <= i /\ DOMAIN blk = Fields

\* The input matches are matches of the block, and the fence is never reached.
InsOK(inputMatches) ==
    /\ inputMatches \in Seq(Match) /\ Len(inputMatches) > 0
    /\ \A n \in 1 .. Len(inputMatches) - 1 : IsMatch(inputMatches[n], origsize, origsize + Size)
    /\ inputMatches[Len(inputMatches)].dest > origsize + Size
    /\ Round => Len(inputMatches) = 1

InsMatches == pc \in {"first", "scan"} => InsOK(ins)

BlockOK(b) ==
    /\ b.start \in Nat /\ b.size \in Nat
    /\ b.start + b.size <= origsize
    /\ InOrder(b.found, b.start, b.start + b.size)

\* s is a sequence.
Sequence(s) == s \in Seq({s[k] : k \in DOMAIN s})

BlocksMatches ==
    /\ Sequence(blocks)
    /\ \A k \in DOMAIN blocks : BlockOK(blocks[k])
    /\ \A k1, k2 \in DOMAIN blocks : k1 < k2 => blocks[k1].start + blocks[k1].size <= blocks[k2].start

Threads == JobGiven /\ Positions /\ InSearch
Tables == DictEarlier /\ TablesInFile /\ ChunksEarlier /\ ChunksNamed /\ ContentsNamed
Found == BlkMatches /\ InsMatches

IInv == Threads /\ RingHolds /\ DigestsRight /\ Tables /\ Found /\ BlocksMatches

-----------------------------------------------------------------------------
(* The steps, by what they leave alone. *)

\* A step of the search in a block.
Search == DictScan \/ DictEnd \/ FirstChunk \/ Scan \/ ScanEnd \/ CutChunk

LEMMA SearchSteps ==
    ASSUME Search
    PROVE  Steady /\ UNCHANGED bgVars /\ UNCHANGED blocks /\ Compressing
  <1>1. CASE DictScan
    BY <1>1 DEF DictScan, Steady, Compressing, bgVars
  <1>2. CASE DictEnd
    BY <1>2 DEF DictEnd, Steady, Compressing, bgVars
  <1>3. CASE FirstChunk
    BY <1>3 DEF FirstChunk, Steady, Compressing, bgVars
  <1>4. CASE Scan
    BY <1>4 DEF Scan, Steady, Compressing, bgVars
  <1>5. CASE ScanEnd
    BY <1>5 DEF ScanEnd, Steady, Compressing, bgVars
  <1>6. CASE CutChunk
    BY <1>6 DEF CutChunk, Steady, Compressing, bgVars
  <1> QED
    BY <1>1, <1>2, <1>3, <1>4, <1>5, <1>6 DEF Search

LEMMA ReadSteps ==
    ASSUME ReadBlock
    PROVE  /\ Steady /\ read < N
           /\ UNCHANGED <<pc, i, blk, ins, tables, blocks>>
           /\ UNCHANGED <<dictTable, table, startarr>>
  BY DEF ReadBlock, Steady, N, tables

\* Every step is one of these.
LEMMA Steps ==
    ASSUME [Next]_vars
    PROVE  ReadBlock \/ StartBlock \/ FinishBlock \/ Search \/ UNCHANGED vars
  BY DEF Next, MainStep, Stopped, Search

-----------------------------------------------------------------------------
(* The positions of the threads. *)

LEMMA JobKept ==
    ASSUME JobGiven, [Next]_vars
    PROVE  JobGiven' /\ opts' = opts /\ input' = input /\ B' = B /\ N' = N /\ L' = L /\ D' = D
  <1>1. opts' = opts /\ input' = input
    BY Steps, SearchSteps, ReadSteps DEF StartBlock, FinishBlock, Steady, vars
  <1> QED
    BY <1>1 DEF JobGiven, B, N, L, D

LEMMA TotalChunksPositive ==
    ASSUME JobGiven
    PROVE  TotalChunks \in Nat /\ TotalChunks > 0
  <1>1. L \in Nat \ {0} /\ N \in Nat
    BY SettingIs
  <1> DEFINE a == Max({N, L})
             n == a \div L
             k == IF n > 1024 THEN 10 ELSE 1
  <1>2. a \in Nat /\ a >= L
    <2>1. a = IF N <= L THEN L ELSE N
      BY <1>1, MinOfTwo
    <2> HIDE DEF a
    <2> QED
      BY <1>1, <2>1
  <1> HIDE DEF a
  <1>3. n \in Nat /\ n >= 1
    BY <1>1, <1>2
  <1> HIDE DEF n
  <1>4. n \div k \in Nat
    BY <1>3
  <1> QED
    BY <1>3, <1>4 DEF TotalChunks, N, a, n

\* A block can be read while there is room for one.
LEMMA ReadIs ==
    ASSUME JobGiven, Positions, ReadBlock
    PROVE  LET len == Min({B, N - read})
           IN /\ read \in Nat /\ read % B = 0
              /\ len \in 1 .. B /\ read + len <= N
              /\ len = B \/ read + len = N
              /\ read' = read + len /\ read <= origsize + B
  <1>1. B \in Nat \ {0} /\ N \in Nat
    BY SettingIs
  <1>2. read < N /\ read <= origsize + B /\ read' = read + Min({B, N - read})
    BY DEF ReadBlock, N, B
  <1>3. read \in origsize .. N /\ origsize \in 0 .. N /\ (read = N \/ read % B = 0)
    BY DEF Positions
  <1>4. Min({B, N - read}) = IF B <= N - read THEN B ELSE N - read
    BY <1>1, <1>3, MinOfTwo
  <1> DEFINE len == Min({B, N - read})
  <1>5. len = (IF B <= N - read THEN B ELSE N - read) /\ read' = read + len
    BY <1>2, <1>4
  <1> HIDE DEF len
  <1>6. /\ read \in Nat /\ read % B = 0
        /\ len \in 1 .. B /\ read + len <= N
        /\ len = B \/ read + len = N
    BY <1>1, <1>2, <1>3, <1>5
  <1> QED
    BY <1>2, <1>5, <1>6 DEF len

LEMMA PositionsKept ==
    ASSUME JobGiven, Positions, [Next]_vars
    PROVE  Positions'
  <1> USE JobKept
  <1>0. /\ B \in Nat \ {0} /\ N \in Nat
        /\ origsize \in 0 .. N /\ (origsize = N \/ origsize % B = 0)
        /\ read \in origsize .. N /\ (read = N \/ read % B = 0)
        /\ read <= origsize + 2 * B
        /\ Compressing => origsize < N /\ origsize + Size <= read
    BY SettingIs DEF Positions
  <1>1. CASE ReadBlock
    <2>1. Steady /\ Size' = Size /\ Compressing' = Compressing
      BY <1>1, ReadSteps, SteadySizes DEF Compressing
    <2> DEFINE len == Min({B, N - read})
    <2>2. /\ read % B = 0
          /\ len \in 1 .. B /\ read + len <= N
          /\ len = B \/ read + len = N
          /\ read' = read + len /\ read <= origsize + B
      BY <1>1, ReadIs
    <2>3. (read + B) % B = 0
      <3>1. B % B = 0 /\ B \in Nat \ {0} /\ read \in Nat /\ read % B = 0
        BY <1>0, <2>2, ModSelf
      <3> QED
        BY ONLY <3>1, SumOfMultiples
    <2> HIDE DEF len
    <2>4. Size \in 0 .. B
      BY SizeIs
    <2>5. origsize' = origsize
      BY <2>1 DEF Steady
    <2>6. read' = N \/ read' % B = 0
      BY <2>2, <2>3
    <2>7. read' \in origsize .. N /\ read' <= origsize + 2 * B /\ (Compressing => origsize + Size <= read')
      BY <1>0, <2>2, <2>4
    <2> QED
      BY <1>0, <2>1, <2>5, <2>6, <2>7 DEF Positions
  <1>2. CASE StartBlock
    <2>1. Steady /\ read' = read /\ (Compressing' => read > origsize /\ origsize # N)
      BY <1>2 DEF StartBlock, Steady, bgVars, Compressing, N
    <2>2. Size' = Size
      BY <2>1, SteadySizes
    <2>3. ASSUME read > origsize, origsize # N PROVE origsize + Size <= read
      <3>1. origsize + Size <= N /\ Size \in 0 .. B
        BY SizeIs
      <3>2. CASE read = N
        BY <3>1, <3>2
      <3>3. CASE read # N
        <4>1. read % B = 0 /\ origsize % B = 0 /\ read \in Nat /\ origsize \in Nat
          BY <1>0, <2>3, <3>3
        <4>2. ASSUME read < origsize + B PROVE FALSE
          <5>0. B \in Nat \ {0} /\ origsize <= read /\ origsize % B = read % B
            BY <1>0, <2>3, <4>1
          <5>1. read = origsize
            BY ONLY <5>0, <4>1, <4>2, ModApart
          <5> QED
            BY <2>3, <4>1, <5>1
        <4> QED
          BY <1>0, <3>1, <4>1, <4>2
      <3> QED
        BY <3>2, <3>3
    <2>4. origsize' = origsize
      BY <2>1 DEF Steady
    <2>5. Compressing' => origsize < N /\ origsize + Size <= read
      BY <1>0, <2>1, <2>3
    <2> QED
      BY <1>0, <2>1, <2>2, <2>4, <2>5 DEF Positions
  <1>3. CASE FinishBlock
    <2>1. /\ Compressing /\ ~ Compressing' /\ read' = read /\ origsize' = origsize + Size
      BY <1>3 DEF FinishBlock, Compressing, bgVars
    <2>2. /\ Size \in 0 .. B /\ origsize + Size <= N
          /\ Size = IF B <= N - origsize THEN B ELSE N - origsize
      BY SizeIs
    <2>3. origsize < N /\ origsize % B = 0 /\ origsize + Size <= read
      BY <1>0, <2>1
    <2>4. origsize' = N \/ origsize' % B = 0
      <3>1. CASE B <= N - origsize
        <4>1. B % B = 0 /\ B \in Nat \ {0} /\ origsize \in Nat /\ origsize % B = 0
          BY <1>0, <2>3, ModSelf
        <4>2. (origsize + B) % B = 0
          BY ONLY <4>1, SumOfMultiples
        <4>3. origsize' = origsize + B
          BY <2>1, <2>2, <3>1
        <4> QED
          BY <4>2, <4>3
      <3>2. CASE ~ (B <= N - origsize)
        BY <1>0, <2>1, <2>2, <3>2
      <3> QED
        BY <3>1, <3>2
    <2>5. origsize' \in 0 .. N /\ read \in origsize' .. N /\ read <= origsize' + 2 * B
      BY <1>0, <2>1, <2>2, <2>3
    <2> QED
      BY <1>0, <2>1, <2>4, <2>5 DEF Positions
  <1>4. CASE Search
    <2>1. Steady /\ read' = read /\ Compressing /\ Size' = Size /\ origsize' = origsize
      BY <1>4, SearchSteps, SteadySizes DEF bgVars, Steady
    <2> QED
      BY <1>0, <2>1 DEF Positions
  <1>5. CASE UNCHANGED vars
    <2>1. Steady /\ read' = read /\ Compressing' = Compressing /\ origsize' = origsize
      BY <1>5 DEF vars, bgVars, Steady, Compressing
    <2>2. Size' = Size
      BY <2>1, SteadySizes
    <2> QED
      BY <1>0, <2>1, <2>2 DEF Positions
  <1> QED
    BY <1>1, <1>2, <1>3, <1>4, <1>5, Steps

-----------------------------------------------------------------------------
(* What a match adds to what has been found in the block. *)

\* The len bytes at dest in the block repeat those at src in the file, after the last match.
GoodMatch(s, src, dest, len) ==
    /\ src \in Nat /\ dest \in Nat /\ len \in Nat /\ len > 0
    /\ s.last_match_end <= dest /\ dest + len <= Size /\ src < origsize + dest
    /\ Aligned => Repeated(src, origsize + dest, len)
    /\ Round => len % L = 0 /\ src % L = 0

\* What the lengths are written relative to.
BaseUsed == IF opts.method = "cdc" THEN CdcMinMatch ELSE BaseLen

LEMMA BaseUsedIs ==
    ASSUME JobGiven
    PROVE  BaseUsed \in Nat \ {0} /\ BaseLen \in Nat \ {0} /\ BaseLen <= BaseUsed
  <1>1. /\ opts.minMatch \in Nat \ {0} /\ Minimal \in Nat \ {0}
        /\ BaseLen \in Nat \ {0} /\ BaseLen <= opts.minMatch
    BY SettingIs, BaseLenIs, FirstPassAssumption
  <1>2. CdcMinMatch = IF opts.minMatch <= Minimal THEN Minimal ELSE opts.minMatch
    <2>1. opts.minMatch \in Int /\ Minimal \in Int
      BY <1>1
    <2> QED
      BY <2>1, MinOfTwo DEF CdcMinMatch
  <1> QED
    BY <1>1, <1>2 DEF BaseUsed

\* t is s with a good match more.
Emitted(s, t) ==
    \E src, dest, len :
        /\ GoodMatch(s, src, dest, len) /\ BaseUsed <= len
        /\ t.last_match_end = dest + len
        /\ t.found = Append(s.found, [src |-> src, dest |-> origsize + dest, len |-> len])
        /\ t.stat = Append(s.stat, EncodeLzMatch(Round, BaseUsed, dest - s.last_match_end,
                                                 origsize + dest - src, len))
        /\ opts.method # "cdc" => t.literals = s.literals - len

\* t is s, perhaps with a match more.
Continued(s, t) == t = s \/ Emitted(s, t)

LEMMA EmitIs ==
    ASSUME NEW s, NEW src, NEW dest, NEW len, GoodMatch(s, src, dest, len), BaseUsed <= len
    PROVE  Emitted(s, Emit(s, BaseUsed, src, dest, len))
  <1> DEFINE t == Emit(s, BaseUsed, src, dest, len)
  <1>1. /\ t.last_match_end = dest + len
        /\ t.found = Append(s.found, [src |-> src, dest |-> origsize + dest, len |-> len])
        /\ t.stat = Append(s.stat, EncodeLzMatch(Round, BaseUsed, dest - s.last_match_end,
                                                 origsize + dest - src, len))
        /\ t.literals = s.literals - len
    BY DEF Emit
  <1> HIDE DEF t
  <1>2. /\ GoodMatch(s, src, dest, len) /\ BaseUsed <= len
        /\ t.last_match_end = dest + len
        /\ t.found = Append(s.found, [src |-> src, dest |-> origsize + dest, len |-> len])
        /\ t.stat = Append(s.stat, EncodeLzMatch(Round, BaseUsed, dest - s.last_match_end,
                                                 origsize + dest - src, len))
        /\ opts.method # "cdc" => t.literals = s.literals - len
    BY <1>1
  <1>3. Emitted(s, t)
    <2> USE DEF Emitted
    <2> WITNESS src, dest, len
    <2> QED
      BY <1>2, Zenon
  <1> QED
    BY <1>3 DEF t

\* Appending a later match keeps the order.
LEMMA InOrderAppend ==
    ASSUME NEW found, NEW from \in Nat, NEW mid \in Nat, NEW to \in Nat,
           InOrder(found, from, mid), mid <= to,
           NEW m \in Match, IsMatch(m, from, to), mid <= m.dest
    PROVE  InOrder(Append(found, m), from, to)
  <1> DEFINE g == Append(found, m)
             n == Len(found)
  <1>1. /\ found \in Seq(Match)
        /\ \A k \in DOMAIN found : IsMatch(found[k], from, mid)
        /\ \A n1, n2 \in DOMAIN found : n1 < n2 => found[n1].dest + found[n1].len <= found[n2].dest
    BY DEF InOrder
  <1>2. /\ g \in Seq(Match) /\ Len(g) = n + 1 /\ n \in Nat /\ g[n + 1] = m
        /\ DOMAIN g = 1 .. n + 1 /\ DOMAIN found = 1 .. n
        /\ \A k \in 1 .. n : g[k] = found[k]
    BY <1>1
  <1>3. \A k \in 1 .. n : found[k] \in Match /\ m.dest \in Nat
    <2>1. \A k \in 1 .. n : found[k] \in Match
      BY <1>1, <1>2
    <2>2. m.dest \in Nat
      BY DEF Match
    <2> QED
      BY <2>1, <2>2
  <1> HIDE DEF g, n
  <1>4. ASSUME NEW k \in DOMAIN g PROVE IsMatch(g[k], from, to)
    <2>1. CASE k = n + 1
      BY <1>2, <2>1
    <2>2. CASE k # n + 1
      <3>1. k \in 1 .. n
        BY <1>2, <2>2
      <3>2. IsMatch(found[k], from, mid) /\ found[k] \in Match
        BY <1>1, <1>2, <1>3, <3>1
      <3>3. IsMatch(found[k], from, to)
        BY <3>2 DEF IsMatch, Match
      <3> QED
        BY <1>2, <3>1, <3>3
    <2> QED
      BY <2>1, <2>2
  <1>5. ASSUME NEW n1 \in DOMAIN g, NEW n2 \in DOMAIN g, n1 < n2
        PROVE  g[n1].dest + g[n1].len <= g[n2].dest
    <2>1. n1 \in 1 .. n
      BY <1>2, <1>5
    <2>2. CASE n2 = n + 1
      <3>1. IsMatch(found[n1], from, mid) /\ found[n1] \in Match
        BY <1>1, <1>2, <1>3, <2>1
      <3>2. found[n1].dest + found[n1].len <= mid /\ found[n1].dest \in Nat /\ found[n1].len \in Nat
        BY <3>1 DEF IsMatch, Match
      <3>3. found[n1].dest + found[n1].len <= m.dest
        BY <1>3, <2>1, <3>2
      <3> QED
        BY <1>2, <2>1, <2>2, <3>3
    <2>3. CASE n2 # n + 1
      <3>1. n2 \in 1 .. n
        BY <1>2, <2>3
      <3> QED
        BY <1>1, <1>2, <1>5, <2>1, <3>1
    <2> QED
      BY <2>2, <2>3
  <1>6. InOrder(g, from, to)
    BY <1>2, <1>4, <1>5 DEF InOrder
  <1> QED
    BY <1>6 DEF g

LEMMA EmittedKeeps ==
    ASSUME JobGiven, Positions, NEW s, NEW t, BlkOK(s), Emitted(s, t)
    PROVE  BlkOK(t)
  <1>1. PICK src, dest, len :
          /\ GoodMatch(s, src, dest, len) /\ BaseUsed <= len
          /\ t.last_match_end = dest + len
          /\ t.found = Append(s.found, [src |-> src, dest |-> origsize + dest, len |-> len])
    BY DEF Emitted
  <1>2. /\ src \in Nat /\ dest \in Nat /\ len \in Nat /\ len > 0
        /\ s.last_match_end <= dest /\ dest + len <= Size /\ src < origsize + dest
        /\ Aligned => Repeated(src, origsize + dest, len)
    BY <1>1 DEF GoodMatch
  <1>3. Size \in Nat /\ origsize \in Nat
    BY SettingIs, SizeIs DEF Positions
  <1> DEFINE m == [src |-> src, dest |-> origsize + dest, len |-> len]
  <1>4. m \in Match /\ m.src = src /\ m.dest = origsize + dest /\ m.len = len
    BY <1>2, <1>3 DEF Match
  <1>5. s.last_match_end \in 0 .. Size /\ InOrder(s.found, origsize, origsize + s.last_match_end)
    BY DEF BlkOK
  <1> HIDE DEF m
  <1>6. IsMatch(m, origsize, origsize + (dest + len))
    <2>1. BaseLen \in Nat /\ BaseUsed \in Nat /\ BaseLen <= len
      BY <1>1, <1>2, BaseUsedIs
    <2> QED
      BY <1>2, <1>3, <1>4, <2>1 DEF IsMatch
  <1>7. InOrder(Append(s.found, m), origsize, origsize + (dest + len))
    <2>1. /\ origsize \in Nat /\ origsize + s.last_match_end \in Nat
          /\ origsize + (dest + len) \in Nat
          /\ origsize + s.last_match_end <= origsize + (dest + len)
          /\ origsize + s.last_match_end <= m.dest
      BY <1>2, <1>3, <1>4, <1>5
    <2> QED
      BY <1>4, <1>5, <1>6, <2>1, InOrderAppend
  <1>8. t.last_match_end \in 0 .. Size
    BY <1>1, <1>2, <1>3
  <1> QED
    BY <1>1, <1>7, <1>8 DEF BlkOK, m

\* An input match, or what our own matches have left of it, can be taken.
LEMMA TakenIs ==
    ASSUME JobGiven, Positions, NEW s, BlkOK(s), NEW m \in Match,
           IsMatch(m, origsize, origsize + Size), ~ Round, opts.method # "cdc"
    PROVE  Continued(s, TakeInputMatch(s, m))
  <1> DEFINE start == m.dest - origsize
             cut == Max({start, s.last_match_end}) - start
  <1>1. CASE ~ (start + m.len - BaseLen >= s.last_match_end)
    BY <1>1 DEF TakeInputMatch, Continued
  <1>2. CASE start + m.len - BaseLen >= s.last_match_end
    <2>1. TakeInputMatch(s, m) = Emit(s, BaseUsed, m.src + cut, start + cut, m.len - cut)
      BY <1>2 DEF TakeInputMatch, BaseUsed
    <2>2. /\ m.src \in Nat /\ m.dest \in Nat /\ m.len \in Nat /\ m.len > 0 /\ m.src < m.dest
          /\ m.len >= BaseLen
          /\ origsize <= m.dest /\ m.dest + m.len <= origsize + Size
          /\ Aligned => Repeated(m.src, m.dest, m.len)
      BY DEF IsMatch, Match
    <2>3. origsize \in Nat /\ Size \in Nat /\ s.last_match_end \in 0 .. Size /\ BaseLen \in Nat \ {0}
      BY SettingIs, SizeIs, BaseLenIs DEF Positions, BlkOK
    <2>4. /\ start \in Nat /\ cut \in Nat
          /\ s.last_match_end <= start + cut
          /\ cut = 0 \/ start + cut = s.last_match_end
      <3>1. start \in Int /\ s.last_match_end \in Int
        BY <2>2, <2>3
      <3>2. Max({start, s.last_match_end}) = IF start <= s.last_match_end THEN s.last_match_end ELSE start
        BY <3>1, MinOfTwo
      <3> QED
        BY <2>2, <2>3, <3>2
    <2> HIDE DEF cut
    <2>5. m.len - cut \in Nat /\ m.len - cut > 0
      BY <1>2, <2>2, <2>3, <2>4
    <2>6. ASSUME Aligned PROVE Repeated(m.src + cut, origsize + (start + cut), m.len - cut)
      <3>1. SUFFICES ASSUME NEW k \in 1 .. m.len - cut
                     PROVE  input[origsize + (start + cut) + k] = input[m.src + cut + k]
        BY DEF Repeated
      <3>2. cut + k \in 1 .. m.len
        BY <2>2, <2>4, <2>5
      <3>3. input[m.dest + (cut + k)] = input[m.src + (cut + k)]
        BY <2>2, <2>6, <3>2 DEF Repeated
      <3>4. m.dest + (cut + k) = origsize + (start + cut) + k /\ m.src + (cut + k) = m.src + cut + k
        BY <2>2, <2>3, <2>4
      <3> QED
        BY <3>3, <3>4
    <2>7. BaseUsed = BaseLen /\ BaseLen <= m.len - cut
      <3>1. m.len - cut >= BaseLen \/ cut = 0
        BY <1>2, <2>2, <2>3, <2>4
      <3> QED
        BY <1>2, <2>2, <2>3, <2>4 DEF BaseUsed
    <2>8. GoodMatch(s, m.src + cut, start + cut, m.len - cut)
      <3>1. /\ m.src + cut \in Nat /\ start + cut \in Nat
            /\ start + cut + (m.len - cut) <= Size
            /\ m.src + cut < origsize + (start + cut)
        BY <2>2, <2>3, <2>4, <2>5
      <3> QED
        BY <2>4, <2>5, <2>6, <3>1 DEF GoodMatch
    <2>9. Emitted(s, Emit(s, BaseUsed, m.src + cut, start + cut, m.len - cut))
      BY <2>7, <2>8, EmitIs
    <2> QED
      BY <2>1, <2>9 DEF Continued, cut
  <1> QED
    BY <1>1, <1>2

-----------------------------------------------------------------------------
(* The ring and the digests. *)

LEMMA RingKept ==
    ASSUME JobGiven, Positions, RingHolds, [Next]_vars
    PROVE  RingHolds'
  <1> USE JobKept
  <1>0. /\ ring \in [0 .. D - 1 -> Byte \cup {NoByte}]
        /\ \A y \in 0 .. read - 1 : y + D >= read => ring[y % D] = input[y + 1]
    BY DEF RingHolds
  <1>1. CASE ring' = ring /\ read' = read
    BY <1>0, <1>1 DEF RingHolds
  <1>2. CASE ReadBlock
    <2> DEFINE len == Min({B, N - read})
               from == read % D
               block == SubSeq(input, read + 1, read + len)
    <2>1. /\ read \in Nat /\ read % B = 0
          /\ len \in 1 .. B /\ read + len <= N
          /\ read' = read + len
      BY <1>2, ReadIs
    <2>2. ring' = [x \in DOMAIN ring |->
                      IF x \in from .. from + len - 1 THEN block[x - from + 1] ELSE ring[x]]
      BY <1>2 DEF ReadBlock, B, N, D
    <2>3. D \in Nat \ {0} /\ B \in Nat \ {0} /\ N = Len(input) /\ N \in Nat /\ input \in Seq(Byte)
      BY SettingIs, DictSizeIs
    <2>4. from \in 0 .. D - 1 /\ from + B <= D
      <3>1. PICK q \in Nat \ {0} : D = B * q
        BY DictSizeIs
      <3> QED
        BY <2>1, <2>3, <3>1, ModOfMultiple
    <2> HIDE DEF from, len
    <2>5. /\ \A k \in 1 .. len : block[k] = input[read + k]
          /\ \A k \in 1 .. len : block[k] \in Byte
      <3>1. /\ read + 1 \in Int /\ read + len \in Int /\ read + 1 >= 1 /\ read + len <= Len(input)
            /\ (read + len) - (read + 1) + 1 = len
        BY <2>1, <2>3
      <3>2. Len(block) = len /\ \A k \in 1 .. len : block[k] = input[read + k]
        BY <2>1, <2>3, <3>1
      <3>3. \A k \in 1 .. len : input[read + k] \in Byte
        BY <2>1, <2>3
      <3> QED
        BY <3>2, <3>3
    <2> HIDE DEF block
    <2>6. ring' \in [0 .. D - 1 -> Byte \cup {NoByte}]
      <3>1. ASSUME NEW x \in 0 .. D - 1, x \in from .. from + len - 1
            PROVE  block[x - from + 1] \in Byte
        <4>1. x - from + 1 \in 1 .. len
          BY <2>1, <2>4, <3>1
        <4> QED
          BY <2>5, <4>1
      <3> QED
        BY <1>0, <2>2, <3>1
    <2>7. ASSUME NEW y \in 0 .. read' - 1, y + D >= read'
          PROVE  ring'[y % D] = input[y + 1]
      <3>0. y \in Nat /\ y % D \in 0 .. D - 1 /\ y < read + len /\ y + D >= read + len
        <4>1. y \in Nat /\ y < read + len
          BY <2>1
        <4>2. y % D \in 0 .. D - 1
          BY ONLY <2>3, <4>1, DivMod
        <4> QED
          BY <2>1, <2>7, <4>1, <4>2
      <3>1. CASE y >= read
        <4> DEFINE x == y - read
        <4>1. x \in Nat /\ x < len /\ y = read + x
          BY <2>1, <3>0, <3>1
        <4> HIDE DEF x
        <4>2. y % D = from + x
          <5>1. (read % D) + x < D
            BY <2>1, <2>3, <2>4, <4>1 DEF from
          <5>2. (read + x) % D = (read % D) + x
            BY <2>1, <2>3, <4>1, <5>1, ModPlus
          <5> QED
            BY <4>1, <5>2 DEF from
        <4>3. from + x \in from .. from + len - 1 /\ from + x - from + 1 = x + 1 /\ x + 1 \in 1 .. len
          BY <2>1, <2>4, <4>1
        <4>4. ring'[from + x] = block[x + 1]
          <5> DEFINE z == from + x
          <5>1. z \in DOMAIN ring /\ z \in from .. from + len - 1 /\ z - from + 1 = x + 1
            <6>1. z \in 0 .. D - 1
              BY <3>0, <4>2
            <6>2. z - from + 1 = x + 1
              BY <2>4, <4>1
            <6> QED
              BY <1>0, <4>3, <6>1, <6>2
          <5> HIDE DEF z
          <5>2. ring'[z] = block[z - from + 1]
            BY <2>2, <5>1
          <5> QED
            BY <5>1, <5>2 DEF z
        <4> QED
          BY <2>1, <2>5, <4>1, <4>2, <4>3, <4>4
      <3>2. CASE y < read
        <4>1. ASSUME y % D \in from .. from + len - 1 PROVE FALSE
          <5> DEFINE x == (y % D) - from
          <5>1. x \in Nat /\ x < len /\ y % D = from + x
            BY <2>1, <2>4, <4>1
          <5> HIDE DEF x
          <5>2. (read + x) % D = y % D
            <6>1. (read % D) + x < D
              BY <2>1, <2>3, <2>4, <5>1 DEF from
            <6>2. (read + x) % D = (read % D) + x
              BY <2>1, <2>3, <5>1, <6>1, ModPlus
            <6> QED
              BY <5>1, <6>2 DEF from
          <5>3. read + x \in Nat /\ y <= read + x /\ read + x < y + D /\ y # read + x
            BY <2>1, <2>3, <3>0, <3>2, <5>1
          <5> QED
            BY ONLY <2>3, <3>0, <5>2, <5>3, ModApart
        <4>2. ring'[y % D] = ring[y % D]
          BY <1>0, <2>2, <3>0, <4>1
        <4>3. y \in 0 .. read - 1 /\ y + D >= read
          BY <2>1, <2>3, <3>0, <3>2
        <4> QED
          BY <1>0, <4>2, <4>3
      <3> QED
        BY <2>1, <3>0, <3>1, <3>2
    <2> QED
      BY <2>6, <2>7 DEF RingHolds
  <1>3. CASE StartBlock \/ FinishBlock \/ Search \/ UNCHANGED vars
    <2>1. UNCHANGED bgVars
      BY <1>3, SearchSteps DEF StartBlock, FinishBlock, vars
    <2> QED
      BY <1>1, <2>1 DEF bgVars
  <1> QED
    BY <1>2, <1>3, Steps

\* What is read from the ring while it is among the last bytes read.
LEMMA RingIs ==
    ASSUME RingHolds, NEW y \in Nat, y < read, y + D >= read, read \in Nat
    PROVE  ring[y % D] = input[y + 1]
  <1>1. y \in 0 .. read - 1
    OBVIOUS
  <1> QED
    BY <1>1 DEF RingHolds

\* The block being compressed is in the ring.
LEMMA AtIs ==
    ASSUME JobGiven, Positions, RingHolds, Compressing, NEW x \in Nat, x < Size
    PROVE  At(x) = input[origsize + x + 1] /\ (BufStart + x) % D = BufStart + x
  <1>1. /\ origsize \in Nat /\ origsize < N /\ origsize + Size <= read /\ read \in Nat
        /\ read <= origsize + 2 * B
    BY SettingIs DEF Positions
  <1>2. Size \in Nat /\ D \in Nat \ {0} /\ D >= 2 * B /\ B \in Nat
    BY SettingIs, SizeIs, DictSizeIs
  <1>3. BufStart = origsize % D /\ BufStart \in 0 .. D - 1 /\ BufStart + Size <= D
    BY <1>1, BlockInRing
  <1>4. BufStart + x \in 0 .. D - 1
    BY <1>2, <1>3
  <1>5. (origsize + x) % D = BufStart + x
    <2>1. origsize \in Nat /\ x \in Nat /\ D \in Nat \ {0} /\ (origsize % D) + x < D
      BY <1>1, <1>2, <1>3
    <2>2. (origsize + x) % D = (origsize % D) + x
      BY ONLY <2>1, ModPlus
    <2> QED
      BY <1>3, <2>2
  <1>6. origsize + x \in Nat /\ origsize + x < read /\ (origsize + x) + D >= read
    BY <1>1, <1>2
  <1>7. ring[BufStart + x] = input[origsize + x + 1]
    BY <1>1, <1>5, <1>6, RingIs
  <1>8. (BufStart + x) % D = BufStart + x
    BY <1>2, <1>4
  <1> QED
    BY <1>7, <1>8 DEF At

\* A piece of the block.
LEMMA BytesAre ==
    ASSUME JobGiven, Positions, RingHolds, Compressing, NEW x \in Nat, NEW n \in Nat, x + n <= Size
    PROVE  /\ Bytes(x, n) \in Seq(Byte) /\ Len(Bytes(x, n)) = n
           /\ \A k \in 1 .. n : Bytes(x, n)[k] = input[origsize + x + k]
           /\ Bytes(x, n) = SubSeq(input, origsize + x + 1, origsize + x + n)
  <1>1. Size \in Nat /\ origsize \in Nat /\ origsize + Size <= N /\ N = Len(input) /\ input \in Seq(Byte)
    BY SettingIs, SizeIs DEF Positions
  <1> DEFINE b == Bytes(x, n)
             s == SubSeq(input, origsize + x + 1, origsize + x + n)
  <1>2. ASSUME NEW k \in 1 .. n PROVE b[k] = input[origsize + x + k] /\ b[k] \in Byte
    <2>1. x + k - 1 \in Nat /\ x + k - 1 < Size /\ origsize + (x + k - 1) + 1 = origsize + x + k
      BY <1>1
    <2>2. At(x + k - 1) = input[origsize + (x + k - 1) + 1]
      BY <2>1, AtIs
    <2>3. b[k] = At(x + k - 1)
      BY DEF Bytes
    <2>4. origsize + x + k \in 1 .. Len(input)
      BY <1>1
    <2>5. input[origsize + x + k] \in Byte
      BY <1>1, <2>4
    <2> QED
      BY <2>1, <2>2, <2>3, <2>5
  <1>3. b = [k \in 1 .. n |-> b[k]]
    BY DEF Bytes
  <1> HIDE DEF b
  <1>4. b \in Seq(Byte) /\ Len(b) = n
    BY <1>2, <1>3
  <1>5. /\ s \in Seq(Byte) /\ Len(s) = n
        /\ \A k \in 1 .. n : s[k] = input[origsize + x + k]
    <2>1. /\ origsize + x + 1 \in Int /\ origsize + x + n \in Int /\ origsize + x + 1 >= 1
          /\ origsize + x + n <= Len(input)
          /\ (origsize + x + n) - (origsize + x + 1) + 1 = n
      BY <1>1
    <2> QED
      BY <1>1, <2>1
  <1> HIDE DEF s
  <1>6. b = s
    BY <1>2, <1>4, <1>5
  <1> QED
    BY <1>2, <1>4, <1>6 DEF b, s

LEMMA MultipleOfMultiple ==
    ASSUME NEW a \in Nat, NEW b \in Nat \ {0}, NEW l \in Nat \ {0}, a % b = 0, b % l = 0
    PROVE  a % l = 0
  <1> DEFINE u == a \div b
             v == b \div l
  <1>1. u \in Nat /\ a = b * u
    <2>1. a \div b \in Nat /\ a = b * (a \div b) + (a % b)
      BY DivMod
    <2> QED
      BY <2>1
  <1>2. v \in Nat /\ b = l * v
    <2>1. b \div l \in Nat /\ b = l * (b \div l) + (b % l)
      BY DivMod
    <2> QED
      BY <2>1
  <1> HIDE DEF u, v
  <1>3. a = l * (v * u) /\ v * u \in Int
    BY ONLY <1>1, <1>2, l \in Nat \ {0}
  <1>4. l \in Nat \ {0}
    OBVIOUS
  <1> QED
    BY ONLY <1>3, <1>4, MultipleSum

\* How many pieces of l bytes fit.
LEMMA DivFits ==
    ASSUME NEW n \in Nat, NEW a \in Nat, NEW l \in Nat \ {0}
    PROVE  n * l <= a <=> n <= a \div l
  <1> DEFINE q == a \div l
             r == a % l
  <1>1. q \in Nat /\ r \in 0 .. l - 1 /\ a = l * q + r
    BY DivMod
  <1> HIDE DEF q, r
  <1>2. ASSUME n <= q PROVE n * l <= a
    <2>1. n * l <= l * q /\ l * q \in Nat /\ n * l \in Nat
      BY <1>1, <1>2
    <2> QED
      BY <1>1, <2>1
  <1>3. ASSUME n > q PROVE ~ (n * l <= a)
    <2>1. n * l >= l * (q + 1) /\ l * (q + 1) = l * q + l /\ l * q \in Nat /\ n * l \in Nat
      BY <1>1, <1>3
    <2> QED
      BY <1>1, <2>1
  <1> QED
    BY <1>1, <1>2, <1>3 DEF q

LEMMA SubSeqOfSubSeq ==
    ASSUME NEW T, NEW s \in Seq(T), NEW a \in Nat, NEW n \in Nat, a + n <= Len(s),
           NEW d \in Nat, NEW l \in Nat, d + l <= n
    PROVE  SubSeq(SubSeq(s, a + 1, a + n), d + 1, d + l) = SubSeq(s, a + d + 1, a + d + l)
  <1> DEFINE t == SubSeq(s, a + 1, a + n)
             u == SubSeq(t, d + 1, d + l)
             v == SubSeq(s, a + d + 1, a + d + l)
  <1>1. t \in Seq(T) /\ Len(t) = n /\ \A k \in 1 .. n : t[k] = s[a + k]
    <2>1. a + 1 \in Int /\ a + n \in Int /\ a + 1 >= 1 /\ (a + n) - (a + 1) + 1 = n
      OBVIOUS
    <2> QED
      BY <2>1
  <1> HIDE DEF t
  <1>2. u \in Seq(T) /\ Len(u) = l /\ \A k \in 1 .. l : u[k] = t[d + k]
    <2>1. d + 1 \in Int /\ d + l \in Int /\ d + 1 >= 1 /\ (d + l) - (d + 1) + 1 = l
      OBVIOUS
    <2> QED
      BY <1>1, <2>1
  <1>3. v \in Seq(T) /\ Len(v) = l /\ \A k \in 1 .. l : v[k] = s[a + d + k]
    <2>1. /\ a + d + 1 \in Int /\ a + d + l \in Int /\ a + d + 1 >= 1
          /\ (a + d + l) - (a + d + 1) + 1 = l /\ a + d + l <= Len(s)
      OBVIOUS
    <2> QED
      BY <2>1
  <1> HIDE DEF u, v
  <1>4. ASSUME NEW k \in 1 .. l PROVE u[k] = v[k]
    <2>1. d + k \in 1 .. n /\ a + (d + k) = a + d + k
      OBVIOUS
    <2> QED
      BY <1>1, <1>2, <1>3, <2>1
  <1> QED
    BY <1>2, <1>3, <1>4 DEF t, u, v

LEMMA DigestsKept ==
    ASSUME JobGiven, Positions, DigestsRight, [Next]_vars
    PROVE  DigestsRight'
  <1> USE JobKept
  <1>1. Aligned' = Aligned
    BY DEF Aligned
  <1> SUFFICES ASSUME opts.method = "digest", Aligned
               PROVE  /\ \A c \in Nat : (c + 1) * L <= read' => c \in DOMAIN digests'
                      /\ \A c \in DOMAIN digests' :
                            /\ c \in Nat /\ (c + 1) * L <= read'
                            /\ digests'[c] = SubSeq(input, c * L + 1, (c + 1) * L)
    BY <1>1 DEF DigestsRight
  <1>2. /\ \A c \in Nat : (c + 1) * L <= read => c \in DOMAIN digests
        /\ \A c \in DOMAIN digests :
              c \in Nat /\ (c + 1) * L <= read /\ digests[c] = SubSeq(input, c * L + 1, (c + 1) * L)
    BY DEF DigestsRight
  <1>3. CASE digests' = digests /\ read' = read
    BY <1>2, <1>3
  <1>4. CASE ReadBlock
    <2> DEFINE len == Min({B, N - read})
               first == read \div L
               block == SubSeq(input, read + 1, read + len)
    <2>1. /\ read \in Nat /\ read % B = 0
          /\ len \in 1 .. B /\ read + len <= N
          /\ read' = read + len
      BY <1>4, ReadIs
    <2>2. digests' = [c \in DOMAIN digests \cup first .. first + len \div L - 1 |->
                         IF c < first THEN digests[c]
                         ELSE SubSeq(block, (c - first) * L + 1, (c - first + 1) * L)]
      BY <1>4 DEF ReadBlock, B, N
    <2>3. L \in Nat \ {0} /\ B \in Nat \ {0} /\ N = Len(input) /\ N \in Nat /\ input \in Seq(Byte)
      BY SettingIs
    <2>4. B % L = 0
      BY DEF Aligned
    <2>5. first \in Nat /\ read = first * L
      <3>1. read % L = 0
        BY <2>1, <2>3, <2>4, MultipleOfMultiple
      <3>2. read \div L \in Nat /\ read = L * (read \div L) + (read % L)
        BY <2>1, <2>3, DivMod
      <3> QED
        BY <2>1, <2>3, <3>1, <3>2
    <2> DEFINE n == len \div L
    <2>6. n \in Nat
      <3>1. len \in Nat
        BY <2>1
      <3> HIDE DEF len
      <3> QED
        BY <2>3, <3>1, DivMod
    <2> HIDE DEF len, first, block, n
    <2>7. ASSUME NEW c \in Nat PROVE (c + 1) * L = c * L + L /\ c * L \in Nat
      BY <2>3
    <2>8. ASSUME NEW c \in Nat PROVE c < first <=> (c + 1) * L <= read
      <3>1. c < first <=> c + 1 <= first
        BY <2>5
      <3>2. c + 1 <= first => (c + 1) * L <= first * L
        BY <2>3, <2>5
      <3>3. c + 1 > first => (c + 1) * L >= (first + 1) * L /\ (first + 1) * L = first * L + L
        BY <2>3, <2>5
      <3> DEFINE cL == (c + 1) * L
                 fL == first * L
                 f1L == (first + 1) * L
      <3>4. cL \in Nat /\ fL \in Nat /\ f1L \in Nat
        BY <2>3, <2>5
      <3> HIDE DEF cL, fL, f1L
      <3>5. c + 1 <= first => cL <= fL
        BY <3>2 DEF cL, fL
      <3>6. c + 1 > first => cL >= f1L /\ f1L = fL + L
        BY <3>3 DEF cL, fL, f1L
      <3>7. c < first <=> cL <= fL
        BY <2>3, <2>5, <3>1, <3>4, <3>5, <3>6
      <3> QED
        BY <2>5, <3>7 DEF cL, fL
    <2>9. \* a chunk of the block
          ASSUME NEW c \in Nat, c >= first
          PROVE  /\ ((c + 1) * L <= read + len <=> c \in first .. first + n - 1)
                 /\ c * L = read + (c - first) * L
                 /\ (c + 1) * L = read + (c - first + 1) * L
                 /\ (c - first + 1) * L = (c - first) * L + L /\ (c - first) * L \in Nat
      <3> DEFINE d == c - first
      <3>1. d \in Nat /\ c = first + d
        BY <2>5, <2>9
      <3> HIDE DEF d
      <3>2. c * L = read + d * L /\ (c + 1) * L = read + (d + 1) * L /\ (d + 1) * L = d * L + L /\ d * L \in Nat
        BY <2>3, <2>5, <3>1
      <3>3. (d + 1) * L <= len <=> d + 1 <= n
        <4>1. d + 1 \in Nat /\ len \in Nat /\ L \in Nat \ {0}
          BY <2>1, <2>3, <3>1
        <4> QED
          BY ONLY <4>1, DivFits DEF n
      <3> DEFINE e == (d + 1) * L
      <3>4. e \in Nat /\ (e <= len <=> d + 1 <= n)
        BY <2>3, <3>1, <3>3
      <3>5. (c + 1) * L <= read + len <=> e <= len
        <4>1. (c + 1) * L = read + e /\ e \in Nat
          BY <2>3, <3>1, <3>2
        <4> HIDE DEF e
        <4> QED
          BY <2>1, <4>1
      <3>6. c \in first .. first + n - 1 <=> d + 1 <= n
        BY <2>5, <2>6, <3>1
      <3>7. (c + 1) * L <= read + len <=> c \in first .. first + n - 1
        BY <3>4, <3>5, <3>6
      <3> HIDE DEF e
      <3>8. c - first = d /\ c - first + 1 = d + 1
        BY <2>5, <3>1
      <3> QED
        BY <3>2, <3>7, <3>8
    <2>10. \A c \in DOMAIN digests : c \in Nat /\ c < first
      BY <1>2, <2>8
    <2>11. DOMAIN digests' = DOMAIN digests \cup first .. first + n - 1
      BY <2>2 DEF n
    <2>12. ASSUME NEW c \in Nat, (c + 1) * L <= read + len PROVE c \in DOMAIN digests'
      <3>1. CASE c < first
        BY <1>2, <2>8, <2>11, <3>1
      <3>2. CASE ~ (c < first)
        <4>1. c \in first .. first + n - 1
          BY <2>5, <2>9, <2>12, <3>2
        <4> QED
          BY <2>11, <4>1
      <3> QED
        BY <3>1, <3>2
    <2>13. ASSUME NEW c \in DOMAIN digests'
           PROVE  /\ c \in Nat /\ (c + 1) * L <= read + len
                  /\ digests'[c] = SubSeq(input, c * L + 1, (c + 1) * L)
      <3>1. CASE c \in DOMAIN digests
        <4>1. c \in Nat /\ c < first /\ (c + 1) * L <= read /\ digests[c] = SubSeq(input, c * L + 1, (c + 1) * L)
          BY <1>2, <2>10, <3>1
        <4>2. digests'[c] = digests[c]
          BY <2>2, <2>11, <4>1
        <4>3. (c + 1) * L <= read + len
          <5>1. (c + 1) * L \in Nat
            BY <2>3, <4>1
          <5> QED
            BY <2>1, <4>1, <5>1
        <4> QED
          BY <4>1, <4>2, <4>3
      <3>2. CASE c \in first .. first + n - 1
        <4>1. c \in Nat /\ c >= first /\ ~ (c < first)
          BY <2>5, <2>6, <3>2
        <4> DEFINE d == (c - first) * L
        <4>2. /\ (c + 1) * L <= read + len
              /\ c * L = read + d /\ (c + 1) * L = read + (d + L)
              /\ (c - first + 1) * L = d + L /\ d \in Nat
          <5>1. /\ (c + 1) * L <= read + len
                /\ c * L = read + (c - first) * L
                /\ (c + 1) * L = read + (c - first + 1) * L
                /\ (c - first + 1) * L = (c - first) * L + L /\ (c - first) * L \in Nat
            BY <2>9, <3>2, <4>1
          <5> QED
            BY <5>1
        <4>3. digests'[c] = SubSeq(block, (c - first) * L + 1, (c - first + 1) * L)
          <5>1. c \in DOMAIN digests'
            BY <2>13
          <5> QED
            BY <2>2, <2>11, <4>1, <5>1
        <4> HIDE DEF d
        <4>4. digests'[c] = SubSeq(block, d + 1, d + L)
          BY <4>2, <4>3 DEF d
        <4>5. d + L <= len
          BY <2>1, <2>3, <4>2
        <4>6. SubSeq(block, d + 1, d + L) = SubSeq(input, read + d + 1, read + d + L)
          <5>1. read \in Nat /\ len \in Nat /\ read + len <= Len(input) /\ L \in Nat
            BY <2>1, <2>3
          <5> QED
            BY <2>3, <4>2, <4>5, <5>1, SubSeqOfSubSeq DEF block
        <4>7. read + d + 1 = c * L + 1 /\ read + d + L = (c + 1) * L
          BY <2>1, <2>3, <4>2
        <4> QED
          BY <4>1, <4>2, <4>4, <4>6, <4>7
      <3> QED
        BY <2>13, <2>11, <3>1, <3>2, Zenon
    <2> QED
      BY <2>1, <2>12, <2>13
  <1>5. CASE StartBlock \/ FinishBlock \/ Search \/ UNCHANGED vars
    <2>1. UNCHANGED bgVars
      BY <1>5, SearchSteps DEF StartBlock, FinishBlock, vars
    <2> QED
      BY <1>3, <2>1 DEF bgVars
  <1> QED
    BY <1>4, <1>5, Steps

-----------------------------------------------------------------------------
(* The in-memory dictionary finds matches. *)

\* The position match of the ring can be asked for at position x of the block.
MatchBefore(match, x) ==
    /\ match \in 1 .. D - 1
    /\ origsize < D => match < origsize + x
    /\ Distance(match, BufStart + x) <= opts.dict

\* What lies the distance before a byte of the block is in the ring, although the ring
\* wraps and the other thread writes to it: DataStart keeps clear of what it may write.
LEMMA DictSource ==
    ASSUME JobGiven, Positions, RingHolds, Compressing,
           NEW x \in Nat, x < Size, NEW match, MatchBefore(match, x),
           NEW z \in Nat, z < Size, (BufStart + z) + match - (BufStart + x) \in 0 .. D - 1
    PROVE  LET distance == Distance(match, BufStart + x)
           IN /\ distance \in Nat /\ distance > 0
              /\ origsize + z - distance \in Nat
              /\ ring[(BufStart + z) + match - (BufStart + x)] = input[origsize + z - distance + 1]
  <1> DEFINE p == BufStart + x
             distance == Distance(match, p)
             w == (BufStart + z) + match - p
             y == origsize + z - distance
  <1>1. /\ origsize \in Nat /\ origsize < N /\ origsize + Size <= read /\ read \in Nat
        /\ read <= origsize + 2 * B
    BY SettingIs DEF Positions
  <1>2. /\ Size \in Nat /\ D \in Nat \ {0} /\ D >= opts.dict + 2 * B /\ B \in Nat \ {0} /\ opts.dict \in Nat
    BY SettingIs, SizeIs, DictSizeIs
  <1>3. BufStart = origsize % D /\ BufStart \in 0 .. D - 1 /\ BufStart + Size <= D
    BY <1>1, BlockInRing
  <1>4. match \in 1 .. D - 1 /\ (origsize < D => match < origsize + x) /\ distance <= opts.dict
    BY DEF MatchBefore
  <1>5. distance = IF match < p THEN p - match ELSE D - match + p
    BY DEF Distance, D
  <1>6. p \in 0 .. D - 1 /\ p = BufStart + x /\ w \in 0 .. D - 1 /\ w = (BufStart + z) + match - p
    BY <1>2, <1>3
  <1> HIDE DEF p, distance, w
  <1>7. distance \in Nat /\ distance > 0
    BY <1>2, <1>4, <1>5, <1>6
  <1> DEFINE s == origsize \div D
  <1>8. s \in Nat /\ origsize = D * s + BufStart
    <2>1. s \in Nat /\ origsize = D * s + (origsize % D)
      BY <1>1, <1>2, DivMod
    <2> QED
      BY <1>3, <2>1
  <1>9. s = 0 \/ origsize >= D
    <2>1. CASE s >= 1
      <3>1. D * s >= D /\ D * s \in Nat
        BY <1>2, <1>8, <2>1
      <3> QED
        BY <1>2, <1>3, <1>8, <3>1
    <2> QED
      BY <1>8, <2>1
  <1> HIDE DEF s
  <1>10. y \in Nat /\ \E t \in Nat : y = D * t + w
    <2>1. CASE origsize < D
      <3>1. s = 0
        BY <1>9, <1>1, <1>2, <2>1
      <3>2. D * s = 0
        BY <1>2, <3>1
      <3>3. origsize = BufStart
        BY <1>2, <1>3, <1>8, <3>2
      <3>4. match < p /\ distance = p - match
        BY <1>4, <1>5, <1>6, <2>1, <3>3
      <3>5. y = w
        BY <1>1, <1>4, <1>6, <3>3, <3>4
      <3>6. D * 0 + w = w /\ w \in Nat
        BY <1>2, <1>6
      <3> QED
        BY <3>5, <3>6
    <2>2. CASE origsize >= D
      <3>1. s >= 1
        <4>1. SUFFICES ASSUME s = 0 PROVE FALSE
          BY <1>8
        <4>2. D * s = 0
          BY <1>2, <4>1
        <4> QED
          BY <1>2, <1>3, <1>8, <2>2, <4>2
      <3>2. y \in Nat
        BY <1>1, <1>2, <1>4, <1>7, <2>2
      <3> DEFINE Ds == D * s
                 Ds1 == D * (s - 1)
      <3>3. Ds \in Nat /\ Ds1 = Ds - D /\ origsize = Ds + BufStart
        BY <1>2, <1>8
      <3> HIDE DEF Ds, Ds1
      <3>4. CASE match < p
        <4>1. y = Ds + w
          BY <1>3, <1>4, <1>5, <1>6, <3>3, <3>4
        <4> QED
          BY <1>8, <3>2, <4>1 DEF Ds
      <3>5. CASE ~ (match < p)
        <4>1. y = Ds1 + w
          BY <1>2, <1>3, <1>4, <1>5, <1>6, <3>3, <3>5
        <4>2. s - 1 \in Nat
          BY <1>8, <3>1
        <4> QED
          BY <3>2, <4>1, <4>2 DEF Ds1
      <3> QED
        BY <3>4, <3>5
    <2> QED
      BY <1>1, <1>2, <2>1, <2>2
  <1>11. y % D = w
    <2>1. PICK t \in Nat : y = D * t + w
      BY <1>10
    <2>2. (D * t + w) % D = w
      BY <1>2, <1>6, UniqueDivMod
    <2> QED
      BY <2>1, <2>2
  <1>12. y < read /\ y + D >= read
    BY <1>1, <1>2, <1>4, <1>7
  <1> HIDE DEF y
  <1>13. ring[w] = input[y + 1]
    BY <1>1, <1>10, <1>11, <1>12, RingIs
  <1>14. distance \in Nat /\ distance > 0 /\ y \in Nat /\ ring[w] = input[y + 1]
    BY <1>7, <1>10, <1>13
  <1> QED
    BY <1>14 DEF w, y, distance, p

\* The match found at x: it repeats what lies the distance before it.
LEMMA DictMatchIs ==
    ASSUME Threads, RingHolds, pc = "dict", BlkOK(blk),
           NEW x \in Nat, x < Size, blk.last_match_end <= x,
           NEW match, MatchBefore(match, x),
           DictMatch(match, BufStart + x).len >= opts.dictMinMatch
    PROVE  LET m == DictMatch(match, BufStart + x)
               dest == m.start - BufStart
           IN GoodMatch(blk, origsize + dest - Distance(match, BufStart + x), dest, m.len)
  <1> DEFINE p == BufStart + x
             distance == Distance(match, p)
             low == CASE match < DataStart -> p - match
                      [] match - DataStart > p -> 0
                      [] OTHER -> p - (match - DataStart)
             high == IF match < p THEN D ELSE D - match + p
             from == Max({BufStart + blk.last_match_end, low})
             to == Min({BufStart + Size, high})
             Before == {y \in from .. p - 1 : ~ (ring[y] = ring[y + match - p])}
             After == {y \in p .. to - 1 : ~ (ring[y] = ring[y + match - p])}
             start == Max({from} \cup {y + 1 : y \in Before})
             end == Min({to} \cup After)
             m == DictMatch(match, p)
             dest == start - BufStart
             len == end - start
  <1>1. JobGiven /\ Positions /\ Compressing /\ opts.dict > 0 /\ opts.method # "cdc"
    BY DEF Threads, InSearch, Compressing
  <1>2. /\ origsize \in Nat /\ origsize < N
        /\ Size \in Nat /\ D \in Nat \ {0} /\ opts.dict \in Nat /\ opts.dictMinMatch \in Nat \ {0}
        /\ BufStart \in 0 .. D - 1 /\ BufStart + Size <= D
        /\ blk.last_match_end \in 0 .. Size
    BY <1>1, SettingIs, SizeIs, DictSizeIs, BlockInRing DEF Positions, BlkOK
  <1>3. match \in 1 .. D - 1 /\ distance <= opts.dict
    BY DEF MatchBefore
  <1>4. DataStart \in 0 .. D - 1
    <2>1. BufStart + D - opts.dict \in Nat
      <3>1. D >= opts.dict + 2 * B /\ B \in Nat
        BY <1>1, DictSizeIs, SettingIs
      <3> QED
        BY <1>2, <3>1
    <2> DEFINE a == BufStart + D - opts.dict
    <2> HIDE DEF a
    <2>2. a % D \in 0 .. D - 1
      BY <1>2, <2>1, DivMod DEF a
    <2>3. DataStart = a % D
      BY DEF DataStart, D, a
    <2> QED
      BY <2>2, <2>3
  <1>5. p \in Nat /\ p < BufStart + Size /\ p < D /\ p = BufStart + x
    BY <1>2
  <1> HIDE DEF p
  <1>6. low \in Int /\ low <= p /\ \A y \in Int : y >= low /\ y >= 0 => y + match - p >= 0
    <2>1. CASE match < DataStart
      <3>1. low = p - match
        BY <1>3, <1>4, <1>5, <2>1
      <3> HIDE DEF low
      <3> QED
        BY <1>3, <1>5, <3>1
    <2>2. CASE ~ (match < DataStart) /\ match - DataStart > p
      <3>1. low = 0
        BY <2>2
      <3> HIDE DEF low
      <3> QED
        BY <1>3, <1>4, <1>5, <2>2, <3>1
    <2>3. CASE ~ (match < DataStart) /\ ~ (match - DataStart > p)
      <3>1. low = p - (match - DataStart)
        BY <2>3
      <3> HIDE DEF low
      <3> QED
        BY <1>3, <1>4, <1>5, <2>3, <3>1
    <2> QED
      BY <2>1, <2>2, <2>3
  <1>7. high \in Int /\ high >= p /\ \A y \in Int : y < high /\ y < D => y + match - p < D
    BY <1>2, <1>3, <1>5
  <1> HIDE DEF low, high
  <1>8. from \in Nat /\ from >= low /\ from >= BufStart + blk.last_match_end /\ from <= p
    <2>0. BufStart + blk.last_match_end \in Int
      BY <1>2
    <2>1. from = IF BufStart + blk.last_match_end <= low THEN low ELSE BufStart + blk.last_match_end
      BY <1>6, <2>0, MinOfTwo
    <2> HIDE DEF from
    <2> QED
      BY <1>2, <1>5, <1>6, <2>1
  <1>9. to \in Nat /\ to <= high /\ to <= BufStart + Size /\ to >= p
    <2>0. BufStart + Size \in Int
      BY <1>2
    <2>1. to = IF BufStart + Size <= high THEN BufStart + Size ELSE high
      BY <1>7, <2>0, MinOfTwo
    <2> HIDE DEF to
    <2> QED
      BY <1>2, <1>5, <1>7, <2>1
  <1> HIDE DEF from, to
  <1>10. start \in from .. p /\ \A y \in start .. p - 1 : y \notin Before
    <2>1. Before \subseteq from .. p - 1
      OBVIOUS
    <2> HIDE DEF Before
    <2> QED
      BY <1>5, <1>8, <2>1, RunStartIs
  <1>11. end \in p .. to /\ \A y \in p .. end - 1 : y \notin After
    <2>1. After \subseteq p .. to - 1
      OBVIOUS
    <2> HIDE DEF After
    <2> QED
      BY <1>5, <1>9, <2>1, RunEndIs
  <1> HIDE DEF start, end
  <1>12. \A y \in start .. end - 1 : ring[y] = ring[y + match - p]
    <2>1. \A y \in start .. p - 1 : ring[y] = ring[y + match - p]
      BY <1>8, <1>10
    <2>2. \A y \in p .. end - 1 : ring[y] = ring[y + match - p]
      BY <1>9, <1>11
    <2> QED
      BY <1>5, <1>8, <1>9, <1>10, <1>11, <2>1, <2>2
  <1> HIDE DEF Before, After
  <1>13. m = [start |-> start, len |-> end - start]
    BY DEF DictMatch, RunStart, RunEnd, start, end, from, to, low, high, Before, After, D
  <1>14. m.len = len /\ m.start - BufStart = dest
    BY <1>13
  <1>15. /\ dest \in Nat /\ len \in Nat /\ len > 0 /\ len >= opts.dictMinMatch
         /\ blk.last_match_end <= dest /\ dest + len <= Size
    <2>1. len >= opts.dictMinMatch
      BY <1>14 DEF p
    <2> QED
      BY <1>2, <1>5, <1>8, <1>9, <1>10, <1>11, <2>1
  <1>16. ASSUME NEW z \in dest .. dest + len - 1
         PROVE  /\ distance \in Nat /\ distance > 0 /\ origsize + z - distance \in Nat
                /\ ring[(BufStart + z) + match - p] = input[origsize + z - distance + 1]
                /\ input[origsize + z + 1] = input[origsize + z - distance + 1]
    <2> DEFINE y == BufStart + z
    <2>1. z \in Nat /\ z < Size /\ y \in start .. end - 1
      BY <1>2, <1>5, <1>8, <1>9, <1>10, <1>11, <1>15
    <2>2. y \in Int /\ y >= low /\ y >= 0 /\ y < high /\ y < D
      BY <1>2, <1>6, <1>7, <1>8, <1>9, <1>10, <1>11, <2>1
    <2> HIDE DEF y
    <2>3. y + match - p \in 0 .. D - 1
      BY <1>2, <1>3, <1>5, <1>6, <1>7, <2>2
    <2>4. (BufStart + z) + match - (BufStart + x) \in 0 .. D - 1
      BY <2>3 DEF y, p
    <2>5. /\ distance \in Nat /\ distance > 0 /\ origsize + z - distance \in Nat
          /\ ring[(BufStart + z) + match - (BufStart + x)] = input[origsize + z - distance + 1]
      BY <1>1, <2>1, <2>4, DictSource DEF p, Threads
    <2>6. ring[y] = ring[y + match - p]
      BY <1>12, <2>1
    <2>7. At(z) = input[origsize + z + 1]
      BY <1>1, <2>1, AtIs
    <2> QED
      BY <2>5, <2>6, <2>7 DEF At, y, p
  <1> HIDE DEF dest, len, distance
  <1>17. distance \in Nat /\ distance > 0 /\ origsize + dest - distance \in Nat
    <2>1. dest \in dest .. dest + len - 1
      BY <1>15
    <2> QED
      BY <1>16, <2>1
  <1>18. Repeated(origsize + dest - distance, origsize + dest, len)
    <2>1. SUFFICES ASSUME NEW k \in 1 .. len
                   PROVE  input[origsize + dest + k] = input[origsize + dest - distance + k]
      BY DEF Repeated
    <2> DEFINE z == dest + k - 1
    <2>2. /\ z \in dest .. dest + len - 1
          /\ origsize + z + 1 = origsize + dest + k
          /\ origsize + z - distance + 1 = origsize + dest - distance + k
      BY <1>2, <1>15, <1>17
    <2> HIDE DEF z
    <2>3. input[origsize + z + 1] = input[origsize + z - distance + 1]
      BY <1>16, <2>2
    <2> QED
      BY <2>2, <2>3
  <1>19. ~ Round
    BY <1>1, <1>2 DEF Round
  <1>20. GoodMatch(blk, origsize + dest - distance, dest, len)
    <2>1. origsize + dest - distance < origsize + dest
      BY <1>2, <1>15, <1>17
    <2> QED
      BY <1>15, <1>17, <1>18, <1>19, <2>1 DEF GoodMatch
  <1> QED
    BY <1>14, <1>20 DEF p, dest, distance

\* Some number of finitely many is the highest.
LEMMA HighestExists ==
    ASSUME NEW n \in Nat, NEW h, \A x \in 0 .. n : h[x] \in Nat
    PROVE  \E x \in 0 .. n : \A y \in 0 .. n : h[y] <= h[x]
  <1> DEFINE T == {k \in 0 .. n : \E x \in 0 .. k : \A y \in 0 .. k : h[y] <= h[x]}
  <1>1. 0 \in T
    OBVIOUS
  <1>2. ASSUME NEW k \in 0 .. n - 1, k \in T PROVE k + 1 \in T
    <2>1. PICK x \in 0 .. k : \A y \in 0 .. k : h[y] <= h[x]
      BY <1>2
    <2>2. h[x] \in Nat /\ h[k + 1] \in Nat /\ \A y \in 0 .. k : h[y] \in Nat
      OBVIOUS
    <2>3. \A y \in 0 .. k + 1 : y \in 0 .. k \/ y = k + 1
      OBVIOUS
    <2>4. CASE h[k + 1] <= h[x]
      <3>1. \A y \in 0 .. k + 1 : h[y] <= h[x]
        BY <2>1, <2>2, <2>3, <2>4
      <3> QED
        BY <3>1
    <2>5. CASE ~ (h[k + 1] <= h[x])
      <3>1. \A y \in 0 .. k + 1 : h[y] <= h[k + 1]
        BY <2>1, <2>2, <2>3, <2>5
      <3> QED
        BY <3>1
    <2> QED
      BY <2>4, <2>5
  <1> HIDE DEF T
  <1>3. 0 .. n \subseteq T
    BY <1>1, <1>2, InductionUpTo
  <1>4. n \in T
    BY <1>3
  <1> QED
    BY <1>4 DEF T

\* Every piece of the block has a hash that is a number.
LEMMA HashIs ==
    ASSUME JobGiven, Positions, RingHolds, Compressing,
           NEW x \in Nat, NEW n \in Nat \ {0}, x + n <= Size
    PROVE  Hash(Bytes(x, n)) \in Nat
  <1>1. Bytes(x, n) = SubSeq(input, origsize + x + 1, origsize + x + n)
    BY BytesAre
  <1>2. /\ origsize + x \in 0 .. Len(input) - n /\ n \in 1 .. Len(input)
    <2>1. origsize \in Nat /\ Size \in Nat /\ origsize + Size <= Len(input) /\ Len(input) \in Nat
      BY SettingIs, SizeIs DEF Positions
    <2> QED
      BY <2>1
  <1>3. PICK j \in Jobs : opts = j.opts /\ input = j.input
    BY DEF JobGiven
  <1>4. Hash(SubSeq(input, (origsize + x) + 1, (origsize + x) + n)) \in Nat
    BY <1>2, <1>3, HashAssumption
  <1> QED
    BY <1>1, <1>4

LEMMA LocalMaximumIs ==
    ASSUME Threads, RingHolds, pc = "dict", i + 2 * opts.dictL <= Size
    PROVE  LocalMaximum \in i .. i + opts.dictL - 1
  <1> DEFINE n == opts.dictL - 1
             h == [k \in 0 .. n |-> DictHash(i + k)]
             T == {x \in i .. i + opts.dictL - 1 :
                      \A y \in i .. i + opts.dictL - 1 : DictHash(y) <= DictHash(x)}
  <1>1. JobGiven /\ Positions /\ Compressing /\ i \in Nat
    BY SettingIs DEF Threads, InSearch, Compressing
  <1>2. opts.dictL \in Nat \ {0} /\ n \in Nat /\ Size \in Nat
    BY <1>1, SettingIs, SizeIs
  <1>3. ASSUME NEW k \in 0 .. n PROVE h[k] = DictHash(i + k) /\ h[k] \in Nat
    <2>1. i + k \in Nat /\ i + k + opts.dictL <= Size
      BY <1>1, <1>2
    <2>2. DictHash(i + k) \in Nat
      BY <1>1, <1>2, <2>1, HashIs DEF DictHash
    <2> QED
      BY <2>2
  <1>4. PICK m \in 0 .. n : \A y \in 0 .. n : h[y] <= h[m]
    <2> HIDE DEF h, n
    <2> QED
      BY <1>2, <1>3, HighestExists
  <1>5. i + m \in T
    <2>1. i + m \in i .. i + opts.dictL - 1
      BY <1>1, <1>2
    <2>2. ASSUME NEW y \in i .. i + opts.dictL - 1 PROVE DictHash(y) <= DictHash(i + m)
      <3> DEFINE k == y - i
      <3>1. k \in 0 .. n /\ i + k = y
        BY <1>1, <1>2
      <3> HIDE DEF k, h
      <3>2. h[k] <= h[m] /\ h[k] = DictHash(y) /\ h[m] = DictHash(i + m)
        BY <1>3, <1>4, <3>1
      <3> QED
        BY <3>2
    <2> QED
      BY <2>1, <2>2
  <1>6. T \subseteq Nat /\ T # {}
    BY <1>1, <1>2, <1>5
  <1>7. Min(T) \in T
    <2> HIDE DEF T
    <2> QED
      BY <1>6, MinIs
  <1>8. LocalMaximum = Min(T)
    BY DEF LocalMaximum
  <1> QED
    BY <1>7, <1>8

\* Looking a position up leaves what was found, or adds a match.
LEMMA LookUpIs ==
    ASSUME Threads, RingHolds, DictEarlier, BlkOK(blk), pc = "dict",
           NEW x \in Nat, x < Size, i <= x
    PROVE  Continued(blk, LookUp(x))
  <1> DEFINE p == BufStart + x
             hash == DictHash(x)
             match == dictTable[hash]
             distance == Distance(match, p)
             m == DictMatch(match, p)
             dest == m.start - BufStart
  <1>1. CASE x < blk.last_match_end \/ hash \notin DOMAIN dictTable
    BY <1>1 DEF LookUp, Continued
  <1>2. CASE /\ ~ (x < blk.last_match_end \/ hash \notin DOMAIN dictTable)
             /\ ~ (distance <= opts.dict /\ m.len >= opts.dictMinMatch)
    BY <1>2 DEF LookUp, Continued
  <1>3. CASE /\ ~ (x < blk.last_match_end \/ hash \notin DOMAIN dictTable)
             /\ distance <= opts.dict /\ m.len >= opts.dictMinMatch
    <2>1. JobGiven /\ Positions /\ opts.method # "cdc" /\ pc = "dict" /\ i \in Nat /\ origsize \in Nat
      BY SettingIs DEF Threads, InSearch, Positions
    <2>2. MatchBefore(match, x)
      <3>1. /\ match \in 1 .. D - 1
            /\ origsize < D => match < origsize + i
        BY <1>3, <2>1 DEF DictEarlier, DictPosition
      <3>2. D \in Nat
        BY <2>1, DictSizeIs
      <3>3. origsize < D => match < origsize + x
        BY <2>1, <3>1, <3>2
      <3>4. Distance(match, BufStart + x) <= opts.dict
        BY <1>3
      <3> HIDE DEF match
      <3> QED
        BY <3>1, <3>3, <3>4 DEF MatchBefore
    <2>3. blk.last_match_end <= x
      <3>1. blk.last_match_end \in 0 .. Size /\ Size \in Nat
        BY <2>1, SizeIs, SettingIs DEF BlkOK
      <3>2. ~ (x < blk.last_match_end)
        BY <1>3
      <3> QED
        BY <3>1, <3>2
    <2>4. LookUp(x) = Emit(blk, BaseLen, origsize + dest - distance, dest, m.len)
      BY <1>3 DEF LookUp
    <2>5. m.len >= opts.dictMinMatch
      BY <1>3
    <2> HIDE DEF match
    <2>6. GoodMatch(blk, origsize + dest - distance, dest, m.len)
      BY <2>1, <2>2, <2>3, <2>5, DictMatchIs
    <2> HIDE DEF m, distance, dest
    <2>7. BaseUsed = BaseLen /\ BaseUsed <= m.len
      <3>1. BaseLen \in Nat /\ opts.dictMinMatch \in Nat /\ BaseLen <= opts.dictMinMatch
        BY <2>1, BaseLenIs, SettingIs
      <3>2. m.len \in Nat
        BY <2>6 DEF GoodMatch
      <3> QED
        BY <2>1, <2>5, <3>1, <3>2 DEF BaseUsed
    <2>8. Emitted(blk, Emit(blk, BaseUsed, origsize + dest - distance, dest, m.len))
      BY <2>6, <2>7, EmitIs
    <2> QED
      BY <2>4, <2>7, <2>8 DEF Continued
  <1> QED
    BY <1>1, <1>2, <1>3

-----------------------------------------------------------------------------
(* The searches among the chunks find matches. *)

\* The byte y of the block is the one as far from old as y is from x.
SameByte(old, x, y) == input[origsize + y + 1] = input[old + y - x + 1]

\* What the searches are given: a chunk at old, before the position x of the block.
Asked(x, old) ==
    /\ JobGiven /\ Positions /\ RingHolds /\ Compressing
    /\ x \in Nat /\ x + L <= Size /\ old \in Nat /\ old < origsize + x

LEMMA AskedIs ==
    ASSUME NEW x, NEW old, Asked(x, old)
    PROVE  /\ JobGiven /\ Positions /\ RingHolds /\ Compressing
           /\ x \in Nat /\ x + L <= Size /\ old \in Nat /\ old < origsize + x
           /\ L \in Nat \ {0} /\ Size \in Nat /\ origsize \in Nat /\ ReadSize \in Nat \ {0}
  BY SettingIs, SizeIs, FirstPassAssumption DEF Asked, Positions

\* A byte of the current block that is compared with another byte of it.
LEMMA SameInBlock ==
    ASSUME NEW x, NEW old, Asked(x, old), NEW y \in Nat, y < Size,
           old - origsize + y - x >= 0, At(y) = At(old - origsize + y - x)
    PROVE  SameByte(old, x, y)
  <1> DEFINE z == old - origsize + y - x
  <1>1. z \in Nat /\ z < Size /\ origsize + z + 1 = old + y - x + 1
    BY AskedIs
  <1>2. At(y) = At(z)
    OBVIOUS
  <1> HIDE DEF z
  <1>3. At(y) = input[origsize + y + 1] /\ At(z) = input[origsize + z + 1]
    BY AskedIs, <1>1, AtIs
  <1> QED
    BY <1>1, <1>2, <1>3 DEF SameByte

LEMMA BackLenIs ==
    ASSUME NEW chunk, NEW x, Asked(x, chunk * L), NEW from \in Nat, from <= x
    PROVE  /\ BackLen(chunk, x, from) \in Nat
           /\ BackLen(chunk, x, from) <= chunk * L /\ from <= x - BackLen(chunk, x, from)
           /\ \A y \in x - BackLen(chunk, x, from) .. x - 1 : SameByte(chunk * L, x, y)
  <1> DEFINE old == chunk * L
             there == IF old < origsize THEN old ELSE old - origsize
             most == {there, L, x - from}
             to == x - Min(most)
             T == {y \in to .. x - 1 :
                     ~ (At(y) = IF old < origsize THEN input[old + y - x + 1] ELSE At(old - origsize + y - x))}
             start == Max({to} \cup {y + 1 : y \in T})
  <1>1. BackLen(chunk, x, from) = x - start
    BY DEF BackLen, RunStart
  <1>2. /\ JobGiven /\ Positions /\ RingHolds /\ Compressing
        /\ x \in Nat /\ x + L <= Size /\ old \in Nat /\ old < origsize + x
        /\ L \in Nat \ {0} /\ Size \in Nat /\ origsize \in Nat
    BY AskedIs
  <1>3. Asked(x, old)
    OBVIOUS
  <1> HIDE DEF old
  <1>4. there \in Nat /\ there <= old
    BY <1>2
  <1>5. Min(most) \in Nat /\ Min(most) <= there /\ Min(most) <= x - from
    <2>1. most \subseteq Nat /\ most # {} /\ there \in most /\ x - from \in most
      BY <1>2, <1>4
    <2> HIDE DEF most, there
    <2>2. Min(most) \in most /\ \A y \in most : Min(most) <= y
      BY <2>1, MinIs
    <2> QED
      BY <2>1, <2>2
  <1> HIDE DEF most
  <1>6. to \in Nat /\ from <= to /\ to <= x /\ x - to <= there
    BY <1>2, <1>4, <1>5
  <1> HIDE DEF to
  <1>7. start \in to .. x /\ \A y \in start .. x - 1 : y \notin T
    <2>1. T \subseteq to .. x - 1
      OBVIOUS
    <2> HIDE DEF T
    <2> QED
      BY <1>2, <1>6, <2>1, RunStartIs
  <1> HIDE DEF start
  <1>8. x - start \in Nat /\ x - start <= old /\ from <= x - (x - start) /\ x - (x - start) = start
    BY <1>2, <1>4, <1>6, <1>7
  <1>9. ASSUME NEW y \in start .. x - 1 PROVE SameByte(old, x, y)
    <2>1. y \in Nat /\ y < Size /\ y \in to .. x - 1 /\ y - x >= 0 - there
      BY <1>2, <1>4, <1>6, <1>7
    <2>2. At(y) = IF old < origsize THEN input[old + y - x + 1] ELSE At(old - origsize + y - x)
      BY <1>7, <2>1
    <2>3. CASE old < origsize
      <3>1. At(y) = input[origsize + y + 1]
        BY <1>2, <2>1, AtIs
      <3> QED
        BY <2>2, <2>3, <3>1 DEF SameByte
    <2>4. CASE ~ (old < origsize)
      <3>1. there = old - origsize
        BY <2>4
      <3>2. old - origsize + y - x >= 0
        BY <1>2, <2>1, <3>1
      <3> QED
        BY <1>3, <2>1, <2>2, <2>4, <3>2, SameInBlock
    <2> QED
      BY <2>3, <2>4
  <1> QED
    BY <1>1, <1>8, <1>9 DEF old

LEMMA ForwardLenIs ==
    ASSUME NEW chunk, NEW x, Asked(x, chunk * L)
    PROVE  /\ ForwardLen(chunk, x) \in Nat
           /\ x + ForwardLen(chunk, x) <= Size
           /\ \A y \in x .. x + ForwardLen(chunk, x) - 1 : SameByte(chunk * L, x, y)
  <1> DEFINE old == chunk * L
             reads == IF old < origsize THEN (origsize - old + ReadSize - 1) \div ReadSize ELSE 0
             short == {k \in 0 .. reads - 1 : old + (k + 1) * ReadSize > Len(input)}
             limits == {Size - x} \cup {k * ReadSize : k \in short}
             to == x + Min(limits)
             T == {y \in x .. to - 1 :
                     ~ (At(y) = IF y - x < reads * ReadSize THEN input[old + y - x + 1]
                                ELSE At(old - origsize + y - x))}
             end == Min({to} \cup T)
  <1>1. ForwardLen(chunk, x) = end - x
    BY DEF ForwardLen, RunEnd
  <1>2. /\ JobGiven /\ Positions /\ RingHolds /\ Compressing
        /\ x \in Nat /\ x + L <= Size /\ old \in Nat /\ old < origsize + x
        /\ L \in Nat \ {0} /\ Size \in Nat /\ origsize \in Nat /\ ReadSize \in Nat \ {0}
    BY AskedIs
  <1>3. Asked(x, old)
    OBVIOUS
  <1> HIDE DEF old
  <1>4. reads \in Nat /\ reads * ReadSize \in Nat /\ reads * ReadSize >= origsize - old
    <2>1. CASE old < origsize
      <3> DEFINE a == origsize - old + ReadSize - 1
                 q == a \div ReadSize
                 r == ReadSize * q
      <3>1. a \in Nat /\ a = origsize - old + ReadSize - 1
        BY <1>2, <2>1
      <3> HIDE DEF a
      <3>2. q \in Nat /\ a % ReadSize \in 0 .. ReadSize - 1 /\ a = ReadSize * q + (a % ReadSize)
        BY <1>2, <3>1, DivMod
      <3> HIDE DEF q
      <3>3. r \in Nat /\ q * ReadSize = r
        BY <1>2, <3>2
      <3> HIDE DEF r
      <3>4. r >= origsize - old
        BY <1>2, <3>1, <3>2, <3>3 DEF r
      <3>5. reads = q
        BY <2>1 DEF q, a
      <3> HIDE DEF reads
      <3> QED
        BY <3>2, <3>3, <3>4, <3>5
    <2>2. CASE ~ (old < origsize)
      <3>1. reads = 0
        BY <2>2
      <3> HIDE DEF reads
      <3> QED
        BY <1>2, <2>2, <3>1
    <2> QED
      BY <2>1, <2>2
  <1> HIDE DEF reads
  <1>5. Min(limits) \in Nat /\ Min(limits) <= Size - x
    <2>1. Size - x \in Nat
      BY <1>2
    <2>2. \A k \in short : k * ReadSize \in Nat
      BY <1>2, <1>4
    <2>3. limits \subseteq Nat /\ limits # {} /\ Size - x \in limits
      BY <2>1, <2>2
    <2> HIDE DEF limits
    <2>4. Min(limits) \in limits /\ \A y \in limits : Min(limits) <= y
      BY <2>3, MinIs
    <2> QED
      BY <2>3, <2>4
  <1> HIDE DEF limits
  <1>6. to \in Nat /\ x <= to /\ to <= Size
    BY <1>2, <1>5
  <1> HIDE DEF to
  <1>7. end \in x .. to /\ \A y \in x .. end - 1 : y \notin T
    <2>1. T \subseteq x .. to - 1
      OBVIOUS
    <2> HIDE DEF T
    <2> QED
      BY <1>2, <1>6, <2>1, RunEndIs
  <1> HIDE DEF end
  <1>8. end - x \in Nat /\ x + (end - x) <= Size /\ x + (end - x) = end
    BY <1>2, <1>6, <1>7
  <1>9. ASSUME NEW y \in x .. end - 1 PROVE SameByte(old, x, y)
    <2>1. y \in Nat /\ y < Size /\ y \in x .. to - 1
      BY <1>2, <1>6, <1>7
    <2>2. At(y) = IF y - x < reads * ReadSize THEN input[old + y - x + 1]
                  ELSE At(old - origsize + y - x)
      BY <1>7, <2>1
    <2>3. CASE y - x < reads * ReadSize
      <3>1. At(y) = input[origsize + y + 1]
        BY <1>2, <2>1, AtIs
      <3> QED
        BY <2>2, <2>3, <3>1 DEF SameByte
    <2>4. CASE ~ (y - x < reads * ReadSize)
      <3>2. old - origsize + y - x >= 0
        <4> DEFINE r == reads * ReadSize
        <4>1. r \in Nat /\ r >= origsize - old /\ ~ (y - x < r)
          BY <1>4, <2>4
        <4> HIDE DEF r
        <4> QED
          BY <1>2, <2>1, <4>1
      <3> QED
        BY <1>3, <2>1, <2>2, <2>4, <3>2, SameInBlock
    <2> QED
      BY <2>3, <2>4
  <1> DEFINE len == ForwardLen(chunk, x)
  <1>10. len \in Nat /\ x + len <= Size /\ x + len = end
    BY <1>1, <1>2, <1>8
  <1> HIDE DEF len
  <1>11. \A y \in x .. x + len - 1 : SameByte(old, x, y)
    BY <1>2, <1>9, <1>10
  <1> QED
    BY <1>10, <1>11 DEF old, len

\* A chunk whose digest is that of L bytes of the block has those bytes.
LEMMA PieceIs ==
    ASSUME NEW chunk \in Nat, NEW x, Asked(x, chunk * L), DigestsRight, Aligned, opts.method = "digest",
           NEW d \in Nat, x + d * L + L <= Size,
           chunk + d \in DOMAIN digests, Bytes(x + d * L, L) = digests[chunk + d],
           NEW y \in x + d * L .. x + d * L + L - 1
    PROVE  SameByte(chunk * L, x, y)
  <1> DEFINE old == chunk * L
             a == d * L
             c == chunk + d
             cl == c * L
             k == y - (x + a) + 1
  <1>1. /\ JobGiven /\ Positions /\ RingHolds /\ Compressing
        /\ x \in Nat /\ x + L <= Size /\ old \in Nat /\ old < origsize + x
        /\ L \in Nat \ {0} /\ Size \in Nat /\ origsize \in Nat
    BY AskedIs
  <1>2. read \in Nat /\ read <= N /\ N = Len(input) /\ input \in Seq(Byte)
    BY <1>1, SettingIs DEF Positions
  <1>3. /\ c \in Nat /\ (c + 1) * L <= read
        /\ digests[c] = SubSeq(input, c * L + 1, (c + 1) * L)
    BY DEF DigestsRight
  <1>4. a \in Nat /\ cl \in Nat /\ cl = old + a /\ (c + 1) * L = cl + L
    BY <1>1
  <1>5. /\ Bytes(x + a, L) = digests[c]
        /\ x + a + L <= Size /\ y \in x + a .. x + a + L - 1
        /\ digests[c] = SubSeq(input, cl + 1, (c + 1) * L) /\ (c + 1) * L <= read
    BY <1>3
  <1> HIDE DEF a, cl, old, c
  <1>5a. Bytes(x + a, L) = SubSeq(input, cl + 1, cl + L) /\ cl + L <= Len(input)
    <2>1. cl + L <= Len(input)
      BY <1>1, <1>2, <1>4, <1>5
    <2> QED
      BY <1>4, <1>5, <2>1
  <1>6. k \in 1 .. L /\ k \in Nat
    BY <1>1, <1>4, <1>5
  <1>7. SubSeq(input, cl + 1, cl + L)[k] = input[cl + k]
    <2>1. L \in Nat /\ input \in Seq(Byte) /\ cl \in Nat /\ cl + L <= Len(input)
      BY <1>1, <1>2, <1>4, <1>5a
    <2> HIDE DEF k
    <2> QED
      BY ONLY <1>6, <2>1
  <1>8. Bytes(x + a, L)[k] = input[origsize + (x + a) + k]
    <2>1. x + a \in Nat /\ L \in Nat /\ (x + a) + L <= Size
      BY <1>1, <1>4, <1>5
    <2> HIDE DEF k
    <2> QED
      BY <1>1, <1>6, <2>1, BytesAre
  <1>9. input[origsize + (x + a) + k] = input[cl + k]
    BY <1>5a, <1>7, <1>8
  <1>10. origsize + (x + a) + k = origsize + y + 1 /\ cl + k = old + y - x + 1
    BY <1>1, <1>4, <1>5
  <1> HIDE DEF k
  <1> QED
    BY <1>9, <1>10 DEF SameByte, old

LEMMA DigestLenIs ==
    ASSUME NEW chunk \in Nat, NEW x, Asked(x, chunk * L)
    PROVE  /\ DigestLen(chunk, x) \in Nat /\ DigestLen(chunk, x) >= L
           /\ x + DigestLen(chunk, x) <= Size
           /\ DigestsRight /\ Aligned /\ opts.method = "digest"
              /\ chunk \in DOMAIN digests /\ digests[chunk] = Bytes(x, L)
              => \A y \in x .. x + DigestLen(chunk, x) - 1 : SameByte(chunk * L, x, y)
  <1> DEFINE old == chunk * L
             InBlock(n) == old + n * L >= origsize
             Differs(n) == \/ Size - (x + n * L) < L
                           \/ chunk + n \notin DOMAIN digests
                           \/ Bytes(x + n * L, L) # digests[chunk + n]
             Ends == {n \in 1 .. Size : InBlock(n) \/ Differs(n)}
             k == Min(Ends)
             from == x + k * L
             T == {y \in from .. Size - 1 : ~ (At(y) = At(old - origsize + y - x))}
             end == Min({Size} \cup T)
             len == DigestLen(chunk, x)
  <1>1. /\ JobGiven /\ Positions /\ RingHolds /\ Compressing
        /\ x \in Nat /\ x + L <= Size /\ old \in Nat /\ old < origsize + x
        /\ L \in Nat \ {0} /\ Size \in Nat /\ origsize \in Nat
    BY AskedIs
  <1>2. len = IF InBlock(k) THEN end - x ELSE k * L
    BY DEF DigestLen, RunEnd
  <1>3. k \in 1 .. Size /\ (InBlock(k) \/ Differs(k))
        /\ \A n \in 1 .. k - 1 : ~ InBlock(n) /\ ~ Differs(n)
    <2>1. Size \in Ends
      <3>1. Size * L >= Size /\ Size * L \in Nat
        BY <1>1
      <3> DEFINE sl == Size * L
      <3>2. sl >= Size /\ sl \in Nat
        BY <3>1
      <3> HIDE DEF sl
      <3>3. Size - (x + sl) < L /\ Size \in 1 .. Size
        BY <1>1, <3>2
      <3> QED
        BY <3>3 DEF sl
    <2>2. Ends \subseteq Nat /\ Ends # {}
      BY <2>1
    <2>3. k \in Ends /\ \A n \in Ends : k <= n
      <3> HIDE DEF Ends
      <3> QED
        BY <2>2, MinIs
    <2> HIDE DEF k
    <2>4. ASSUME NEW n \in 1 .. k - 1 PROVE n \notin Ends /\ n \in 1 .. Size
      <3>1. k \in 1 .. Size
        BY <2>3
      <3> HIDE DEF Ends
      <3> QED
        BY <1>1, <2>3, <3>1
    <2> QED
      BY <2>3, <2>4
  <1> HIDE DEF k, len
  <1>4. \A n \in 1 .. k - 1 : x + n * L + L <= Size
    <2> SUFFICES ASSUME NEW n \in 1 .. k - 1 PROVE x + n * L + L <= Size
      OBVIOUS
    <2>1. ~ (Size - (x + n * L) < L)
      BY <1>3
    <2> DEFINE nl == n * L
    <2>2. nl \in Nat /\ ~ (Size - (x + nl) < L)
      BY <1>1, <2>1
    <2> HIDE DEF nl
    <2>3. x + nl + L <= Size
      BY <1>1, <2>2
    <2> QED
      BY <2>3 DEF nl
  <1>5. x + k * L <= Size /\ k * L \in Nat /\ k \in Nat
    <2>1. CASE k = 1
      <3>1. k * L = L
        BY <1>1, <2>1
      <3> QED
        BY <1>1, <2>1, <3>1
    <2>2. CASE k # 1
      <3> DEFINE n == k - 1
                 nl == n * L
      <3>1. n \in 1 .. k - 1 /\ nl \in Nat /\ k * L = nl + L
        BY <1>1, <1>3, <2>2
      <3>2. x + nl + L <= Size
        BY <1>4, <3>1
      <3> HIDE DEF nl
      <3> QED
        BY <1>1, <1>3, <3>1, <3>2
    <2> QED
      BY <2>1, <2>2
  <1>6. from \in Nat /\ from <= Size /\ from = x + k * L
    BY <1>1, <1>5
  <1> DEFINE kl == k * L
  <1>7. kl \in Nat /\ from = x + kl
    BY <1>5
  <1> HIDE DEF from
  <1>8. end \in from .. Size /\ \A y \in from .. end - 1 : y \notin T
    <2>1. T \subseteq from .. Size - 1
      OBVIOUS
    <2> HIDE DEF T
    <2> QED
      BY <1>1, <1>6, <2>1, RunEndIs
  <1>7a. kl >= L
    <2>1. k - 1 \in Nat /\ (k - 1) * L \in Nat /\ kl = L + (k - 1) * L
      BY <1>1, <1>3
    <2> QED
      BY <1>1, <1>7, <2>1
  <1>9. /\ len \in Nat /\ x + len <= Size /\ len >= L
        /\ (InBlock(k) /\ x + len = end) \/ (~ InBlock(k) /\ x + len = from)
    <2> HIDE DEF kl, T
    <2>1. CASE InBlock(k)
      <3>1. len = end - x
        BY <1>2, <2>1
      <3> HIDE DEF end
      <3> QED
        BY <1>1, <1>6, <1>7, <1>7a, <1>8, <2>1, <3>1
    <2>2. CASE ~ InBlock(k)
      <3>1. len = kl
        BY <1>2, <2>2 DEF kl
      <3> QED
        BY <1>1, <1>6, <1>7, <1>7a, <2>2, <3>1
    <2> QED
      BY <2>1, <2>2
  <1>10. ASSUME DigestsRight, Aligned, opts.method = "digest",
                chunk \in DOMAIN digests, digests[chunk] = Bytes(x, L),
                NEW y \in x .. x + len - 1
         PROVE  SameByte(old, x, y)
    <2>1. y \in Nat /\ y < Size
      BY <1>1, <1>9
    <2>2. CASE y < from
      <3> DEFINE d == (y - x) \div L
                 dl == d * L
      <3>1. /\ d \in Nat /\ dl \in Nat /\ dl <= y - x /\ y - x < dl + L
        <4> DEFINE u == y - x
        <4>1. u \in Nat
          BY <1>1, <1>10, <2>1
        <4> HIDE DEF u
        <4>2. /\ u \div L \in Nat /\ u % L \in 0 .. L - 1 /\ u = L * (u \div L) + (u % L)
          BY <1>1, <4>1, DivMod
        <4> DEFINE q == u \div L
        <4>3. q \in Nat /\ L * q = q * L
          BY <1>1, <4>2
        <4> HIDE DEF q
        <4>4. q * L \in Nat
          BY <1>1, <4>3
        <4> DEFINE ql == q * L
        <4>5. ql \in Nat /\ u % L \in 0 .. L - 1 /\ u = ql + (u % L)
          BY <4>2, <4>3, <4>4 DEF q
        <4> HIDE DEF ql
        <4>6. ql <= u /\ u < ql + L
          BY <1>1, <4>1, <4>5
        <4> QED
          BY <4>3, <4>5, <4>6 DEF u, q, ql
      <3> HIDE DEF d
      <3>2. d < k
        <4>1. dl < kl
          BY <1>1, <1>7, <2>1, <2>2, <3>1
        <4>2. ASSUME k <= d PROVE kl <= dl
          <5>1. d - k \in Nat /\ (d - k) * L \in Nat /\ dl = kl + (d - k) * L
            BY <1>1, <1>5, <3>1, <4>2
          <5> QED
            BY <1>7, <5>1
        <4> QED
          BY <1>5, <1>7, <3>1, <4>1, <4>2
      <3>3. y \in x + dl .. x + dl + L - 1
        BY <1>1, <2>1, <3>1
      <3>4. CASE d = 0
        <4>1. d * L = 0 /\ x + d * L = x /\ chunk + d = chunk
          BY <1>1, <3>4
        <4>2. /\ x + d * L + L <= Size /\ chunk + d \in DOMAIN digests
              /\ Bytes(x + d * L, L) = digests[chunk + d]
          BY <1>1, <1>10, <4>1
        <4> QED
          BY <1>10, <3>1, <3>3, <4>2, PieceIs
      <3>5. CASE d # 0
        <4>1. d \in 1 .. k - 1
          BY <1>5, <3>1, <3>2, <3>5
        <4>2. /\ x + d * L + L <= Size /\ chunk + d \in DOMAIN digests
              /\ Bytes(x + d * L, L) = digests[chunk + d]
          BY <1>3, <1>4, <4>1
        <4> QED
          BY <1>10, <3>1, <3>3, <4>2, PieceIs
      <3> QED
        BY <3>4, <3>5
    <2>3. CASE ~ (y < from)
      <3>1. InBlock(k) /\ y \in from .. end - 1
        BY <1>1, <1>6, <1>8, <1>9, <1>10, <2>1, <2>3
      <3>2. At(y) = At(old - origsize + y - x)
        <4>1. y \in from .. Size - 1 /\ y \notin T
          BY <1>1, <1>6, <1>8, <3>1
        <4> QED
          BY <4>1
      <3>3. old - origsize + y - x >= 0
        <4>1. old + kl >= origsize /\ y >= x + kl
          BY <1>1, <1>6, <1>7, <2>1, <2>3, <3>1
        <4> HIDE DEF kl, old
        <4> QED
          BY <1>1, <1>7, <2>1, <4>1
      <3> QED
        BY <2>1, <3>2, <3>3, SameInBlock
    <2> QED
      BY <2>2, <2>3
  <1>11. DigestsRight /\ Aligned /\ opts.method = "digest"
         /\ chunk \in DOMAIN digests /\ digests[chunk] = Bytes(x, L)
         => \A y \in x .. x + len - 1 : SameByte(old, x, y)
    BY <1>10
  <1> HIDE DEF old
  <1> QED
    BY <1>9, <1>11 DEF len, old

\* Every chunk stored begins before position x of the block.
StoredBefore(x) == \A k \in DOMAIN table : table[k] * L < origsize + x

LEMMA ChunkMatchIs ==
    ASSUME Threads, RingHolds, DigestsRight, TablesInFile, ChunksNamed,
           opts.method \in {"digest", "reread"}, Compressing,
           NEW s, BlkOK(s),
           NEW x \in Nat, x + L <= Size, s.last_match_end <= x, StoredBefore(x),
           NEW m \in MatchAt(s, x)
    PROVE  GoodMatch(s, m.src, m.dest, m.len)
  <1> DEFINE key == Key(Bytes(x, L))
             chunk == table[key]
             old == chunk * L
             back == IF opts.method = "digest" THEN 0 ELSE BackLen(chunk, x, s.last_match_end)
             ahead == IF opts.method = "digest" THEN DigestLen(chunk, x) ELSE ForwardLen(chunk, x)
             len == back + ahead
  <1>1. /\ key \in DOMAIN table /\ ~ (len < opts.minMatch)
        /\ m = [src |-> chunk * L - back, dest |-> x - back,
                len |-> IF Round THEN (len \div L) * L ELSE len]
    <2> DEFINE r == [src |-> chunk * L - back, dest |-> x - back,
                     len |-> IF Round THEN (len \div L) * L ELSE len]
    <2>1. m \in IF key \notin DOMAIN table \/ len < opts.minMatch THEN {} ELSE {r}
      BY DEF MatchAt
    <2> HIDE DEF r, len, key
    <2>2. key \in DOMAIN table /\ ~ (len < opts.minMatch) /\ m = r
      BY <2>1
    <2> QED
      BY <2>2 DEF r, len, key
  <1>2. JobGiven /\ Positions
    BY DEF Threads
  <1>3. /\ L \in Nat \ {0} /\ Size \in Nat /\ origsize \in Nat /\ opts.minMatch \in Nat \ {0} /\ N \in Nat
    BY <1>2, SettingIs, SizeIs DEF Positions
  <1>4. chunk \in Nat /\ old < origsize + x /\ old \in Nat
    <2> HIDE DEF key
    <2>1. chunk \in 1 .. N /\ old < origsize + x
      BY <1>1 DEF TablesInFile, StoredBefore
    <2> QED
      BY <1>3, <2>1
  <1>5. s.last_match_end \in 0 .. Size
    BY DEF BlkOK
  <1>6. Asked(x, chunk * L)
    BY <1>2, <1>4 DEF Asked
  <1>7. Aligned /\ opts.method = "digest" => chunk \in DOMAIN digests /\ digests[chunk] = Bytes(x, L)
    <2> HIDE DEF key
    <2>1. Aligned /\ opts.method = "digest" => chunk \in DOMAIN digests /\ digests[chunk] = key
      BY <1>1 DEF ChunksNamed
    <2> QED
      BY <2>1 DEF key, Key
  <1> HIDE DEF key, chunk
  <1>8. /\ back \in Nat /\ back <= old /\ s.last_match_end <= x - back /\ back <= x
        /\ \A y \in x - back .. x - 1 : SameByte(old, x, y)
        /\ opts.method = "digest" => back = 0
    <2>1. CASE opts.method = "digest"
      <3>1. back = 0
        BY <2>1
      <3> HIDE DEF back, old
      <3> QED
        BY <1>3, <1>4, <1>5, <3>1
    <2>2. CASE opts.method # "digest"
      <3>1. back = BackLen(chunk, x, s.last_match_end)
        BY <2>2
      <3> HIDE DEF back
      <3>2. s.last_match_end \in Nat
        BY <1>3, <1>5
      <3>3. /\ back \in Nat
            /\ back <= chunk * L /\ s.last_match_end <= x - back
            /\ \A y \in x - back .. x - 1 : SameByte(chunk * L, x, y)
        BY <1>6, <3>1, <3>2, BackLenIs
      <3>4. back <= x
        BY <1>5, <1>3, <3>2, <3>3
      <3> QED
        BY <2>2, <3>3, <3>4
    <2> QED
      BY <2>1, <2>2
  <1>9. /\ ahead \in Nat /\ x + ahead <= Size
        /\ opts.method = "digest" => ahead >= L
        /\ Aligned => \A y \in x .. x + ahead - 1 : SameByte(old, x, y)
    <2>1. CASE opts.method = "digest"
      <3>1. ahead = DigestLen(chunk, x)
        BY <2>1
      <3> HIDE DEF ahead
      <3> QED
        BY <1>6, <1>4, <1>7, <2>1, <3>1, DigestLenIs
    <2>2. CASE opts.method # "digest"
      <3>1. ahead = ForwardLen(chunk, x)
        BY <2>2
      <3> HIDE DEF ahead
      <3>2. /\ ahead \in Nat /\ x + ahead <= Size
            /\ \A y \in x .. x + ahead - 1 : SameByte(chunk * L, x, y)
        BY <1>6, <3>1, ForwardLenIs
      <3> QED
        BY <2>2, <3>2
    <2> QED
      BY <2>1, <2>2
  <1> HIDE DEF back, ahead, old
  <1>10. len \in Nat /\ len > 0 /\ (x - back) + len <= Size
    BY <1>1, <1>3, <1>8, <1>9
  <1>11. ASSUME Aligned, NEW y \in Nat, x - back <= y, y < x + ahead PROVE SameByte(old, x, y)
    <2>1. CASE y < x
      BY <1>8, <1>11, <2>1
    <2>2. CASE ~ (y < x)
      BY <1>9, <1>11, <2>2
    <2> QED
      BY <2>1, <2>2
  <1>12. m.len \in Nat /\ m.len > 0 /\ m.len <= len /\ (Round => m.len % L = 0)
    <2>1. CASE ~ Round
      BY <1>1, <1>10, <2>1
    <2>2. CASE Round
      <3>1. len >= L
        BY <1>3, <1>8, <1>9, <2>2 DEF Round
      <3> HIDE DEF len
      <3> DEFINE q == len \div L
      <3>2. m.len = q * L
        BY <1>1, <2>2 DEF len
      <3>3. q \in Nat /\ len % L \in 0 .. L - 1 /\ len = L * q + (len % L)
        BY <1>3, <1>10, DivMod
      <3> HIDE DEF q
      <3>4. L * q \in Nat /\ q * L = L * q
        BY <1>3, <3>3
      <3> DEFINE lq == L * q
      <3>5. lq \in Nat /\ lq <= len /\ m.len = lq
        BY <1>3, <3>2, <3>3, <3>4, <1>10
      <3>6. lq > 0
        <4> HIDE DEF lq
        <4>1. len = lq + (len % L)
          BY <3>3 DEF lq
        <4> QED
          BY <1>3, <1>10, <3>1, <3>3, <3>5, <4>1
      <3>7. (L * q) % L = 0
        <4>1. L \in Nat \ {0} /\ q \in Int
          BY <1>3, <3>3
        <4> QED
          BY ONLY <4>1, MultipleSum
      <3> QED
        BY <3>5, <3>6, <3>7
    <2> QED
      BY <2>1, <2>2
  <1>13. m.src = old - back /\ m.dest = x - back
    BY <1>1 DEF old, back
  <1>14. /\ m.src \in Nat /\ m.dest \in Nat /\ s.last_match_end <= m.dest
         /\ m.dest + m.len <= Size /\ m.src < origsize + m.dest
    <2>1. x - back + m.len <= x - back + len
      BY <1>8, <1>10, <1>12
    <2> HIDE DEF len
    <2> QED
      BY <1>3, <1>4, <1>8, <1>10, <1>12, <1>13, <2>1
  <1>15. Aligned => Repeated(m.src, origsize + m.dest, m.len)
    <2> SUFFICES ASSUME Aligned, NEW k \in 1 .. m.len
                 PROVE  input[origsize + m.dest + k] = input[m.src + k]
      BY DEF Repeated
    <2> DEFINE y == m.dest + k - 1
    <2>1. y \in Nat /\ x - back <= y /\ y < x + ahead
      BY <1>8, <1>9, <1>12, <1>13, <1>14
    <2>2. origsize + y + 1 = origsize + m.dest + k /\ old + y - x + 1 = m.src + k
      BY <1>3, <1>4, <1>8, <1>12, <1>13, <1>14
    <2> HIDE DEF y
    <2> QED
      BY <1>11, <2>1, <2>2 DEF SameByte
  <1>16. Round => m.src % L = 0
    <2> SUFFICES ASSUME Round PROVE m.src % L = 0
      OBVIOUS
    <2>1. back = 0
      BY <1>8 DEF Round
    <2>2. m.src = L * chunk
      BY <1>3, <1>4, <1>13, <2>1 DEF old
    <2>3. L \in Nat \ {0} /\ chunk \in Int
      BY <1>3, <1>4
    <2>4. (L * chunk) % L = 0
      BY ONLY <2>3, MultipleSum
    <2> QED
      BY <2>2, <2>4
  <1> QED
    BY <1>12, <1>14, <1>15, <1>16 DEF GoodMatch

\* The main thread's own matches, too, are added one after the other.
LEMMA RecordFirstIs ==
    ASSUME Threads, RingHolds, DigestsRight, TablesInFile, ChunksNamed,
           opts.method \in {"digest", "reread"}, Compressing,
           NEW s, BlkOK(s), NEW hits, hits \subseteq Nat, NEW pcThen,
           \A x \in hits : /\ x + L <= Size /\ s.last_match_end <= x /\ StoredBefore(x)
                           /\ MatchAt(s, x) # {},
           RecordFirst(s, hits, pcThen)
    PROVE  Continued(s, blk') /\ pc' \in {pcThen, "failed"}
  <1>1. CASE hits = {}
    BY <1>1 DEF RecordFirst, Continued
  <1>2. CASE hits # {}
    <2> DEFINE x == Min(hits)
               m == CHOOSE m \in MatchAt(s, x) : TRUE
    <2>1. x \in hits
      BY <1>2, MinIs
    <2> HIDE DEF x
    <2>2. m \in MatchAt(s, x)
      BY <2>1
    <2> HIDE DEF m
    <2>3. GoodMatch(s, m.src, m.dest, m.len)
      <3>1. x \in Nat /\ x + L <= Size /\ s.last_match_end <= x /\ StoredBefore(x)
        BY <2>1
      <3> QED
        BY <2>2, <3>1, ChunkMatchIs
    <2>4. /\ m.len < BaseLen => blk' = s /\ pc' = "failed"
          /\ ~ (m.len < BaseLen) => blk' = Emit(s, BaseLen, m.src, m.dest, m.len) /\ pc' = pcThen
      BY <1>2 DEF RecordFirst, x, m
    <2>5. CASE m.len < BaseLen
      BY <2>4, <2>5 DEF Continued
    <2>6. CASE ~ (m.len < BaseLen)
      <3>1. BaseUsed = BaseLen /\ BaseUsed <= m.len
        <4>1. BaseLen \in Nat /\ m.len \in Nat
          BY <2>3, BaseLenIs DEF GoodMatch, Threads
        <4> QED
          BY <2>6, <4>1 DEF BaseUsed
      <3>2. Emitted(s, Emit(s, BaseUsed, m.src, m.dest, m.len))
        BY <2>3, <3>1, EmitIs
      <3> QED
        BY <2>4, <2>6, <3>1, <3>2 DEF Continued
    <2> QED
      BY <2>5, <2>6
  <1> QED
    BY <1>1, <1>2

-----------------------------------------------------------------------------
(* One step of each search. *)

\* Where the sub-main cycle goes from position a, with chunks of l bytes, after a match
\* that ends at e: to last, by way of from, and to the next chunk at most.
ScanFrom(l, a, size, e, n) ==
    /\ l \in Nat \ {0} /\ a \in Nat /\ size \in Nat /\ e \in Nat /\ n \in Nat \ {0}
    /\ a + l <= size /\ (a % l = 0 \/ (a \div l) * l + 2 * l <= size)
    /\ a + 2 * l <= size \/ a % l # 0

ScanTo(l, a, e, n, next, from, last) ==
    /\ next = (a \div l + 1) * l
    /\ from = Max({a, Min({next - 1, e - 1})})
    /\ last = Min({next, from + n})

LEMMA ScanPositions ==
    ASSUME NEW l, NEW a, NEW size, NEW e, NEW n, ScanFrom(l, a, size, e, n),
           NEW next, NEW from, NEW last, ScanTo(l, a, e, n, next, from, last)
    PROVE  /\ next \in Nat /\ next % l = 0 /\ next + l <= size
           /\ from \in a .. next - 1 /\ last \in from + 1 .. next
           /\ last % l = 0 \/ (last \div l) * l + 2 * l <= size
  <1> USE DEF ScanFrom, ScanTo
  <1> DEFINE q == a \div l
             r == a % l
             ql == q * l
  <1>1. q \in Nat /\ r \in 0 .. l - 1 /\ a = l * q + r
    BY DivMod
  <1> HIDE DEF q, r
  <1>2. ql \in Nat /\ a = ql + r /\ (q + 1) * l = ql + l /\ ql % l = 0 /\ l * q = ql
    <2>1. ql \in Nat /\ ql = l * q /\ (q + 1) * l = ql + l
      BY <1>1
    <2>2. l \in Nat \ {0} /\ q \in Int
      BY <1>1
    <2>3. (l * q) % l = 0
      BY ONLY <2>2, MultipleSum
    <2> QED
      BY <1>1, <2>1, <2>3
  <1>3. next = ql + l /\ (r = 0 \/ ql + 2 * l <= size) /\ (a + 2 * l <= size \/ r # 0)
    BY <1>2 DEF q, r
  <1> HIDE DEF ql
  <1>4. next \in Nat /\ a < next /\ next + l <= size
    BY <1>1, <1>2, <1>3
  <1>5. next % l = 0
    <2>1. l \in Nat \ {0} /\ ql \in Nat /\ l \in Nat /\ ql % l = 0 /\ l % l = 0
      BY <1>2, ModSelf
    <2> QED
      BY <1>3, <2>1, SumOfMultiples
  <1>6. from \in a .. next - 1
    <2> DEFINE m == Min({next - 1, e - 1})
    <2>1. m = (IF next - 1 <= e - 1 THEN next - 1 ELSE e - 1)
      <3>1. next - 1 \in Int /\ e - 1 \in Int
        BY <1>4
      <3> QED
        BY <3>1, MinOfTwo
    <2>2. from = Max({a, m})
      OBVIOUS
    <2> HIDE DEF m
    <2>3. m \in Int /\ m <= next - 1
      BY <1>4, <2>1
    <2>4. from = (IF a <= m THEN m ELSE a)
      <3>1. a \in Int
        OBVIOUS
      <3> QED
        BY <2>2, <2>3, <3>1, MinOfTwo
    <2> QED
      BY <1>4, <2>3, <2>4
  <1>7. last \in from + 1 .. next
    <2>1. from \in Nat
      BY <1>4, <1>6
    <2>2. next \in Int /\ from + n \in Int
      BY <1>4, <2>1
    <2>3. last = (IF next <= from + n THEN next ELSE from + n)
      BY <2>2, MinOfTwo
    <2>4. n \in Nat /\ n >= 1
      OBVIOUS
    <2> QED
      BY ONLY <1>4, <1>6, <2>1, <2>3, <2>4
  <1>8. last % l = 0 \/ (last \div l) * l + 2 * l <= size
    <2>1. CASE last = next
      BY <1>5, <2>1
    <2>2. CASE last # next
      <3> DEFINE d == last - ql
      <3>1. last \in Nat /\ d \in 0 .. l - 1 /\ last = l * q + d
        BY <1>1, <1>2, <1>3, <1>4, <1>6, <1>7, <2>2
      <3> HIDE DEF d
      <3>2. last \div l = q
        BY <1>1, <3>1, UniqueDivMod
      <3>3. (last \div l) * l = ql
        BY <3>2 DEF ql
      <3>4. l \in Nat /\ size \in Nat
        OBVIOUS
      <3> QED
        BY ONLY <1>2, <1>3, <1>4, <3>3, <3>4
    <2> QED
      BY <2>1, <2>2
  <1> QED
    BY <1>4, <1>5, <1>6, <1>7, <1>8

\* The fence closes what the dictionary has found.
LEMMA FenceIs ==
    ASSUME JobGiven, Positions, NEW s, BlkOK(s), Round => s.found = <<>>
    PROVE  InsOK(WithFence(s.found, s.last_match_end))
  <1> DEFINE fence == [src |-> 0, dest |-> origsize + s.last_match_end + Size + 1, len |-> BaseLen]
             w == Append(s.found, fence)
             n == Len(s.found)
  <1>1. /\ s.last_match_end \in 0 .. Size /\ InOrder(s.found, origsize, origsize + s.last_match_end)
        /\ s.found \in Seq(Match)
        /\ \A k \in DOMAIN s.found : IsMatch(s.found[k], origsize, origsize + s.last_match_end)
    BY DEF BlkOK, InOrder
  <1>2. origsize \in Nat /\ Size \in Nat /\ BaseLen \in Nat
    BY SettingIs, SizeIs, BaseLenIs DEF Positions
  <1>3. fence \in Match /\ fence.dest > origsize + Size
    <2>1. s.last_match_end \in Nat
      BY <1>1, <1>2
    <2>2. fence.dest = origsize + s.last_match_end + Size + 1
      OBVIOUS
    <2>3. fence \in Match
      BY <1>2, <2>1 DEF Match
    <2> HIDE DEF fence
    <2> QED
      BY <1>2, <2>1, <2>2, <2>3
  <1> HIDE DEF fence
  <1>4. /\ w \in Seq(Match) /\ Len(w) = n + 1 /\ n \in Nat /\ w[n + 1] = fence
        /\ \A k \in 1 .. n : w[k] = s.found[k] /\ k \in DOMAIN s.found /\ s.found[k] \in Match
    BY <1>1, <1>3
  <1> HIDE DEF w, n
  <1>5. ASSUME NEW k \in 1 .. Len(w) - 1 PROVE IsMatch(w[k], origsize, origsize + Size)
    <2>1. k \in 1 .. n
      BY <1>4
    <2>2. IsMatch(s.found[k], origsize, origsize + s.last_match_end) /\ s.found[k] \in Match
      BY <1>1, <1>4, <2>1
    <2>3. IsMatch(s.found[k], origsize, origsize + Size)
      <3> DEFINE m == s.found[k]
      <3>1. m.dest \in Nat /\ m.len \in Nat
        BY <2>2 DEF Match
      <3>2. IsMatch(m, origsize, origsize + s.last_match_end)
        BY <2>2
      <3> HIDE DEF m
      <3>3. m.dest + m.len <= origsize + Size
        <4>1. m.dest + m.len <= origsize + s.last_match_end
          BY <3>2 DEF IsMatch
        <4>2. s.last_match_end \in Nat /\ s.last_match_end <= Size
          BY <1>1, <1>2
        <4> QED
          BY <1>2, <3>1, <4>1, <4>2
      <3>4. IsMatch(m, origsize, origsize + Size)
        BY <3>2, <3>3 DEF IsMatch
      <3> QED
        BY <3>4 DEF m
    <2> QED
      BY <1>4, <2>1, <2>3
  <1>6. Round => Len(w) = 1
    <2>1. Round => n = 0
      BY DEF n
    <2> QED
      BY <1>4, <2>1
  <1>7. InsOK(w)
    BY <1>3, <1>4, <1>5, <1>6 DEF InsOK
  <1> QED
    BY <1>7 DEF WithFence, w, fence

\* An input match that is reached is none but the fence comes after it.
LEMMA ReachedIs ==
    ASSUME JobGiven, Positions, InsOK(ins), NEW a \in Nat, a <= Size, a >= MatchStart(ins)
    PROVE  /\ Head(ins) \in Match /\ IsMatch(Head(ins), origsize, origsize + Size) /\ ~ Round
           /\ InsOK(Tail(ins))
  <1> DEFINE n == Len(ins)
             t == Tail(ins)
  <1>1. /\ ins \in Seq(Match) /\ n > 0 /\ n \in Nat
        /\ \A k \in 1 .. n - 1 : IsMatch(ins[k], origsize, origsize + Size)
        /\ ins[n].dest > origsize + Size
        /\ Round => n = 1
    BY DEF InsOK
  <1>2. origsize \in Nat /\ Size \in Nat
    BY SettingIs, SizeIs DEF Positions
  <1>3. Head(ins) = ins[1] /\ ins[1] \in Match /\ ins[1].dest \in Nat
    <2>1. Head(ins) = ins[1] /\ ins[1] \in Match
      BY <1>1
    <2> QED
      BY <2>1 DEF Match
  <1>4. a >= ins[1].dest - origsize
    BY <1>3 DEF MatchStart
  <1>5. n > 1
    <2>1. ~ (ins[1].dest > origsize + Size)
      BY <1>2, <1>3, <1>4
    <2> HIDE DEF n
    <2> QED
      BY <1>1, <2>1
  <1>6. t \in Seq(Match) /\ Len(t) = n - 1 /\ \A k \in 1 .. n - 1 : t[k] = ins[k + 1]
    BY <1>1, <1>5
  <1> HIDE DEF n, t
  <1>7. IsMatch(ins[1], origsize, origsize + Size) /\ ~ Round
    BY <1>1, <1>5
  <1>8. \A k \in 1 .. Len(t) - 1 : IsMatch(t[k], origsize, origsize + Size)
    <2> SUFFICES ASSUME NEW k \in 1 .. Len(t) - 1 PROVE IsMatch(t[k], origsize, origsize + Size)
      OBVIOUS
    <2>1. k + 1 \in 1 .. n - 1 /\ k \in 1 .. n - 1
      BY <1>1, <1>6
    <2> QED
      BY <1>1, <1>6, <2>1
  <1>9. Len(t) > 0 /\ t[Len(t)].dest > origsize + Size
    <2>1. n - 1 \in 1 .. n - 1 /\ (n - 1) + 1 = n
      BY <1>1, <1>5
    <2> QED
      BY <1>1, <1>5, <1>6, <2>1
  <1>10. InsOK(t)
    BY <1>6, <1>7, <1>8, <1>9 DEF InsOK
  <1> QED
    BY <1>3, <1>7, <1>10 DEF t

LEMMA ThreadsAre ==
    ASSUME Threads
    PROVE  /\ JobGiven /\ Positions /\ InSearch
           /\ L \in Nat \ {0} /\ Size \in Nat /\ origsize \in Nat /\ N \in Nat /\ i \in Nat
           /\ B \in Nat \ {0} /\ D \in Nat \ {0} /\ opts.dictL \in Nat \ {0}
           /\ Size <= B /\ origsize + Size <= N
  BY SettingIs, SizeIs, DictSizeIs DEF Threads, Positions, InSearch

\* A block in which nothing has been found yet.
Fresh(s) == DOMAIN s = Fields /\ s.last_match_end = 0 /\ s.found = <<>> /\ s.stat = <<>>

LEMMA FreshIs ==
    ASSUME JobGiven, Positions, NEW s, Fresh(s)
    PROVE  BlkOK(s)
  <1>1. Size \in Nat
    BY SettingIs, SizeIs
  <1>2. s.last_match_end \in 0 .. Size
    BY <1>1 DEF Fresh
  <1>3. InOrder(s.found, origsize, origsize + s.last_match_end)
    <2>1. s.found = <<>> /\ <<>> \in Seq(Match) /\ DOMAIN <<>> = {}
      BY DEF Fresh
    <2> HIDE DEF Match
    <2> QED
      BY <2>1 DEF InOrder
  <1> QED
    BY <1>2, <1>3 DEF BlkOK

\* The method proper starts anew, with the input matches.
StartedWith(inputMatches) ==
    /\ i' = 0 /\ ins' = inputMatches /\ Fresh(blk')
    /\ opts.method # "cdc" => blk'.literals = Size
    /\ opts.method = "cdc" => blk'.literals = 0
    /\ opts.method = "cdc" => pc' = "cdc"
    /\ opts.method # "cdc" => pc' = (IF 2 * L <= Size THEN "first" ELSE "end")

LEMMA StartMethodIs ==
    ASSUME NEW inputMatches, StartMethod(inputMatches)
    PROVE  StartedWith(inputMatches)
  <1>1. /\ i' = 0 /\ ins' = inputMatches
        /\ blk' = NewBlock(IF opts.method = "cdc" THEN 0 ELSE Size)
        /\ pc' = IF opts.method = "cdc" THEN "cdc" ELSE IF 2 * L <= Size THEN "first" ELSE "end"
    BY DEF StartMethod
  <1>3. Fresh(blk') /\ blk'.literals = IF opts.method = "cdc" THEN 0 ELSE Size
    BY <1>1 DEF Fresh, NewBlock, Fields
  <1>4. CASE opts.method = "cdc"
    BY <1>1, <1>3, <1>4 DEF StartedWith
  <1>5. CASE opts.method # "cdc"
    BY <1>1, <1>3, <1>5 DEF StartedWith
  <1> QED
    BY <1>4, <1>5

\* At the start of a block its search starts.
LEMMA StartBlockIs ==
    ASSUME Threads, StartBlock
    PROVE  /\ Steady /\ UNCHANGED <<bgVars, tables, blocks>> /\ pc = "block"
           /\ \/ origsize = N /\ pc' = "done" /\ UNCHANGED <<i, blk, ins>>
              \/ /\ origsize < N /\ opts.dict > 0 /\ pc' = "dict" /\ i' = 0
                 /\ Fresh(blk') /\ blk'.literals = Size
              \/ origsize < N /\ opts.dict = 0 /\ InsOK(ins') /\ StartedWith(ins')
  <1>1. /\ Steady /\ UNCHANGED <<bgVars, tables, blocks>> /\ pc = "block"
        /\ IF origsize = N
           THEN pc' = "done" /\ UNCHANGED <<i, blk, ins>>
           ELSE /\ read > origsize
                /\ IF opts.dict > 0
                   THEN pc' = "dict" /\ i' = 0 /\ blk' = NewBlock(Size)
                   ELSE StartMethod(WithFence(<<>>, 0))
    BY DEF StartBlock, Steady, N
  <1>2. /\ JobGiven /\ Positions /\ opts.dict \in Nat /\ origsize \in 0 .. N /\ N \in Nat
    BY ThreadsAre, SettingIs DEF Positions
  <1>3. CASE origsize = N
    BY <1>1, <1>3
  <1>4. CASE origsize # N /\ opts.dict > 0
    <2>1. blk' = NewBlock(Size) /\ pc' = "dict" /\ i' = 0
      BY <1>1, <1>4
    <2>2. Fresh(blk') /\ blk'.literals = Size
      BY <2>1 DEF Fresh, NewBlock, Fields
    <2> QED
      BY <1>1, <1>2, <1>4, <2>1, <2>2
  <1>5. CASE origsize # N /\ ~ (opts.dict > 0)
    <2>1. StartedWith(WithFence(<<>>, 0))
      BY <1>1, <1>5, StartMethodIs
    <2>2. ins' = WithFence(<<>>, 0)
      BY <2>1 DEF StartedWith
    <2> DEFINE s == NewBlock(0)
    <2>3. Fresh(s) /\ s.found = <<>> /\ s.last_match_end = 0
      BY DEF Fresh, NewBlock, Fields
    <2>4. InsOK(WithFence(s.found, s.last_match_end))
      <3> HIDE DEF s
      <3>1. BlkOK(s)
        BY <1>2, <2>3, FreshIs
      <3> QED
        BY <1>2, <2>3, <3>1, FenceIs
    <2>5. InsOK(ins')
      BY <2>2, <2>3, <2>4
    <2>6. origsize < N /\ opts.dict = 0
      BY <1>2, <1>5
    <2>7. StartedWith(ins')
      BY <2>1, <2>2
    <2> QED
      BY <1>1, <2>5, <2>6, <2>7
  <1> QED
    BY <1>3, <1>4, <1>5

\* The dictionary's search hands its matches to the method proper.
LEMMA DictEndIs ==
    ASSUME Threads, BlkMatches, DictEnd
    PROVE  /\ pc = "dict"
           /\ \/ opts.method = "rep" /\ pc' = "end" /\ UNCHANGED <<i, blk, ins>>
              \/ opts.method # "rep" /\ InsOK(ins') /\ StartedWith(ins')
  <1>1. /\ pc = "dict"
        /\ IF opts.method = "rep"
           THEN pc' = "end" /\ UNCHANGED <<i, blk, ins>>
           ELSE StartMethod(WithFence(blk.found, blk.last_match_end))
    BY DEF DictEnd
  <1>2. CASE opts.method = "rep"
    BY <1>1, <1>2
  <1>3. CASE opts.method # "rep"
    <2>1. StartedWith(WithFence(blk.found, blk.last_match_end))
      BY <1>1, <1>3, StartMethodIs
    <2>2. ins' = WithFence(blk.found, blk.last_match_end)
      BY <2>1 DEF StartedWith
    <2>3. BlkOK(blk)
      BY <1>1 DEF BlkMatches, Compressing
    <2>4. ~ Round
      <3>1. opts.dict > 0 /\ opts.dict \in Nat
        BY <1>1, ThreadsAre, SettingIs DEF InSearch
      <3> QED
        BY <3>1 DEF Round
    <2>5. InsOK(WithFence(blk.found, blk.last_match_end))
      BY <2>3, <2>4, ThreadsAre, FenceIs
    <2>6. InsOK(ins') /\ StartedWith(ins')
      BY <2>1, <2>2, <2>5
    <2> QED
      BY <1>1, <1>3, <2>6
  <1> QED
    BY <1>2, <1>3

LEMMA DictScanIs ==
    ASSUME Threads, RingHolds, DictEarlier, BlkMatches, DictScan
    PROVE  /\ pc = "dict" /\ pc' = "dict" /\ Continued(blk, blk')
           /\ i' = i + opts.dictL /\ i' <= Size
           /\ \E x \in i .. i' - 1 :
                 \/ /\ BufStart + x # 0
                    /\ dictTable' = Stored(dictTable, DictHash(x), BufStart + x)
                 \/ dictTable' = [h \in DOMAIN dictTable \ {DictHash(x)} |-> dictTable[h]]
  <1> DEFINE x == LocalMaximum
             p == BufStart + x
  <1>1. /\ pc = "dict" /\ pc' = "dict" /\ i + 2 * opts.dictL <= Size
        /\ i' = i + opts.dictL
        /\ blk' = LookUp(x)
        /\ dictTable' = IF p = 0
                        THEN [h \in DOMAIN dictTable \ {DictHash(x)} |-> dictTable[h]]
                        ELSE Stored(dictTable, DictHash(x), p)
    BY DEF DictScan
  <1>2. x \in i .. i + opts.dictL - 1
    BY <1>1, LocalMaximumIs
  <1> HIDE DEF x
  <1>3. i \in Nat /\ opts.dictL \in Nat \ {0} /\ Size \in Nat
    BY ThreadsAre
  <1>4. i' <= Size /\ x \in i .. i' - 1 /\ x \in Nat /\ x < Size /\ i <= x
    BY <1>1, <1>2, <1>3
  <1>5. Continued(blk, LookUp(x))
    <2>1. BlkOK(blk)
      BY <1>1 DEF BlkMatches, Compressing
    <2> QED
      BY <1>1, <1>4, <2>1, LookUpIs
  <1>6. \E z \in i .. i' - 1 :
           \/ BufStart + z # 0 /\ dictTable' = Stored(dictTable, DictHash(z), BufStart + z)
           \/ dictTable' = [h \in DOMAIN dictTable \ {DictHash(z)} |-> dictTable[h]]
    <2>1. \/ BufStart + x # 0 /\ dictTable' = Stored(dictTable, DictHash(x), BufStart + x)
          \/ dictTable' = [h \in DOMAIN dictTable \ {DictHash(x)} |-> dictTable[h]]
      BY <1>1
    <2> QED
      BY <1>4, <2>1, Zenon
  <1> QED
    BY <1>1, <1>4, <1>5, <1>6

LEMMA FirstChunkIs ==
    ASSUME Threads, RingHolds, DigestsRight, Tables, BlkMatches, FirstChunk
    PROVE  /\ pc = "first" /\ pc' \in {"scan", "failed"} /\ Continued(blk, blk')
           /\ i = 0 /\ i' = 0 /\ ins' = ins /\ AddHash(0) /\ 2 * L <= Size
           /\ opts.method \in {"digest", "reread"}
  <1> DEFINE hits == {x \in {0} : MatchAt(blk, x) # {}}
  <1>1. /\ pc = "first" /\ RecordFirst(blk, hits, "scan") /\ AddHash(0) /\ i' = i /\ ins' = ins
    BY DEF FirstChunk
  <1>2. /\ opts.method \in {"digest", "reread"} /\ 2 * L <= Size /\ i = 0
        /\ L \in Nat \ {0} /\ Size \in Nat /\ origsize \in Nat
    BY <1>1, ThreadsAre DEF InSearch
  <1>3. BlkOK(blk) /\ blk.last_match_end = 0
    BY <1>1 DEF BlkMatches, Compressing
  <1>4. \A x \in hits : /\ x + L <= Size /\ blk.last_match_end <= x /\ StoredBefore(x)
                        /\ MatchAt(blk, x) # {}
    <2> SUFFICES ASSUME NEW x \in hits
                 PROVE  /\ x + L <= Size /\ blk.last_match_end <= x /\ StoredBefore(x)
                        /\ MatchAt(blk, x) # {}
      OBVIOUS
    <2>1. x = 0 /\ MatchAt(blk, x) # {}
      OBVIOUS
    <2>2. \A k \in DOMAIN table : table[k] * L < origsize
      BY <1>1, <1>2 DEF Tables, ChunksEarlier
    <2>3. origsize + x = origsize
      BY <1>2, <2>1
    <2>4. StoredBefore(x)
      BY <2>2, <2>3 DEF StoredBefore
    <2> QED
      BY <1>2, <1>3, <2>1, <2>4
  <1>5. hits \subseteq Nat
    OBVIOUS
  <1> HIDE DEF hits
  <1>6. Continued(blk, blk') /\ pc' \in {"scan", "failed"}
    <2>1. Compressing
      BY <1>1 DEF Compressing
    <2> QED
      BY <1>1, <1>2, <1>3, <1>4, <1>5, <2>1, RecordFirstIs DEF Tables
  <1> QED
    BY <1>1, <1>2, <1>6

LEMMA ScanIs ==
    ASSUME Threads, RingHolds, DigestsRight, Tables, Found, Scan
    PROVE  /\ pc = "scan" /\ pc' \in {"scan", "failed"} /\ opts.method \in {"digest", "reread"}
           /\ \E s : BlkOK(s) /\ Continued(blk, s) /\ Continued(s, blk')
           /\ InsOK(ins')
           /\ i' \in Nat /\ i < i' /\ i' + L <= Size
           /\ i' % L = 0 \/ (i' \div L) * L + 2 * L <= Size
           /\ table' = table \/ (i' % L = 0 /\ AddHash(i'))
  <1> DEFINE next == (i \div L + 1) * L
             taken == i >= MatchStart(ins)
             s == IF taken THEN TakeInputMatch(blk, Head(ins)) ELSE blk
             rest == IF taken THEN Tail(ins) ELSE ins
             from == Max({i, Min({next - 1, s.last_match_end - 1})})
             last == Min({next, from + Lookahead})
             hits == {x \in from + 1 .. last : /\ x >= s.last_match_end
                                               /\ x < MatchStart(rest)
                                               /\ MatchAt(s, x) # {}}
  <1>1. /\ pc = "scan" /\ (i + 2 * L <= Size \/ i % L # 0)
        /\ ins' = rest /\ RecordFirst(s, hits, "scan") /\ i' = last
        /\ IF last = next THEN AddHash(next) ELSE UNCHANGED table
    BY DEF Scan
  <1>2. /\ JobGiven /\ Positions
        /\ opts.method \in {"digest", "reread"} /\ i + L <= Size
        /\ i % L = 0 \/ (i \div L) * L + 2 * L <= Size
        /\ L \in Nat \ {0} /\ Size \in Nat /\ origsize \in Nat /\ i \in Nat
        /\ Lookahead \in Nat \ {0}
    BY <1>1, ThreadsAre, FirstPassAssumption DEF InSearch
  <1>3. BlkOK(blk) /\ InsOK(ins)
    BY <1>1 DEF Found, BlkMatches, InsMatches, Compressing
  <1>4. Continued(blk, s) /\ BlkOK(s) /\ InsOK(rest)
    <2>1. CASE taken
      <3>1. s = TakeInputMatch(blk, Head(ins)) /\ rest = Tail(ins)
        BY <2>1
      <3>2. i <= Size
        BY <1>2
      <3>3. /\ Head(ins) \in Match /\ IsMatch(Head(ins), origsize, origsize + Size) /\ ~ Round
            /\ InsOK(Tail(ins))
        BY <1>2, <1>3, <2>1, <3>2, ReachedIs
      <3>4. Continued(blk, TakeInputMatch(blk, Head(ins)))
        BY <1>2, <1>3, <3>3, TakenIs
      <3> HIDE DEF s, rest
      <3>5. Continued(blk, s)
        BY <3>1, <3>4
      <3>6. BlkOK(s)
        BY <1>2, <1>3, <3>5, EmittedKeeps DEF Continued
      <3> QED
        BY <3>1, <3>3, <3>5, <3>6
    <2>2. CASE ~ taken
      <3>1. s = blk /\ rest = ins
        BY <2>2
      <3> HIDE DEF s, rest
      <3> QED
        BY <1>3, <3>1 DEF Continued
    <2> QED
      BY <2>1, <2>2
  <1>5. s.last_match_end \in 0 .. Size
    BY <1>4 DEF BlkOK
  <1> HIDE DEF s, rest, taken
  <1>6. /\ next \in Nat /\ next % L = 0 /\ next + L <= Size
        /\ from \in i .. next - 1 /\ last \in from + 1 .. next
        /\ last % L = 0 \/ (last \div L) * L + 2 * L <= Size
    <2> DEFINE e == s.last_match_end
    <2>1. e \in Nat
      BY <1>2, <1>5
    <2>2. ScanTo(L, i, e, Lookahead, next, from, last)
      BY DEF ScanTo
    <2> HIDE DEF e, next, from, last
    <2>3. ScanFrom(L, i, Size, e, Lookahead)
      BY <1>1, <1>2, <2>1 DEF ScanFrom
    <2> QED
      BY <2>2, <2>3, ScanPositions
  <1> HIDE DEF next, from, last
  <1>7. last \in Nat /\ i < last /\ last + L <= Size
    BY <1>2, <1>6
  <1>8. \A x \in hits : /\ x + L <= Size /\ s.last_match_end <= x /\ StoredBefore(x)
                        /\ MatchAt(s, x) # {}
    <2> SUFFICES ASSUME NEW x \in hits
                 PROVE  /\ x + L <= Size /\ s.last_match_end <= x /\ StoredBefore(x)
                        /\ MatchAt(s, x) # {}
      OBVIOUS
    <2>1. x \in from + 1 .. last /\ x >= s.last_match_end /\ MatchAt(s, x) # {}
      OBVIOUS
    <2>2. x \in Nat /\ i < x /\ x + L <= Size /\ s.last_match_end <= x
      BY <1>2, <1>5, <1>6, <1>7, <2>1
    <2>3. StoredBefore(x)
      <3> SUFFICES ASSUME NEW k \in DOMAIN table PROVE table[k] * L < origsize + x
        BY DEF StoredBefore
      <3>1. table[k] * L <= origsize + i
        BY <1>1, <1>2 DEF Tables, ChunksEarlier
      <3>2. table[k] \in 1 .. N
        BY DEF Tables, TablesInFile
      <3> DEFINE a == table[k] * L
      <3>3. a \in Nat
        BY <1>2, <3>2, ThreadsAre
      <3> HIDE DEF a
      <3>4. a < origsize + x
        BY <1>2, <2>2, <3>1, <3>3 DEF a
      <3> QED
        BY <3>4 DEF a
    <2> QED
      BY <2>1, <2>2, <2>3
  <1>9. hits \subseteq Nat
    <2> SUFFICES ASSUME NEW x \in hits PROVE x \in Nat
      OBVIOUS
    <2>1. x \in from + 1 .. last
      OBVIOUS
    <2> QED
      BY <1>2, <1>6, <2>1
  <1> HIDE DEF hits
  <1>10. Continued(s, blk') /\ pc' \in {"scan", "failed"}
    <2>1. Compressing /\ TablesInFile /\ ChunksNamed
      BY <1>1 DEF Compressing, Tables
    <2> QED
      BY <1>1, <1>2, <1>4, <1>8, <1>9, <2>1, RecordFirstIs
  <1>11. table' = table \/ (i' % L = 0 /\ AddHash(i'))
    BY <1>1, <1>6
  <1>12. \E t : BlkOK(t) /\ Continued(blk, t) /\ Continued(t, blk')
    BY <1>4, <1>10, Zenon
  <1>13. InsOK(ins')
    BY <1>1, <1>4
  <1>14. i' \in Nat /\ i < i' /\ i' + L <= Size /\ (i' % L = 0 \/ (i' \div L) * L + 2 * L <= Size)
    BY <1>1, <1>6, <1>7
  <1> QED
    BY <1>1, <1>2, <1>10, <1>11, <1>12, <1>13, <1>14

\* A content-defined chunk that has been stored is found again by its contents alone.
LEMMA CutChunkIs ==
    ASSUME Threads, RingHolds, Tables, BlkMatches, CutChunk
    PROVE  /\ pc = "cdc" /\ opts.method = "cdc" /\ UNCHANGED <<ins, dictTable>>
           /\ \E next \in i + 1 .. Size :
                 /\ i' = next /\ pc' = IF next = Size THEN "end" ELSE "cdc"
                 /\ \/ startarr' = startarr /\ table' = table
                    \/ /\ Len(startarr) + 1 < TotalChunks
                       /\ startarr' = Append(startarr, origsize + i)
                       /\ table' = Stored(table, Bytes(i, next - i), Len(startarr) + 1)
                 /\ DOMAIN blk' = Fields
                 /\ \/ /\ blk'.last_match_end = blk.last_match_end /\ blk'.found = blk.found
                       /\ blk'.stat = blk.stat /\ blk'.literals = blk.literals + (next - i)
                    \/ /\ Emitted(blk, blk') /\ blk'.literals = blk.literals
                       /\ blk'.last_match_end = next
                       /\ \E src : blk'.found = Append(blk.found, [src |-> src, dest |-> origsize + i,
                                                                   len |-> next - i])
  <1> DEFINE len(next) == next - i
             curchunk == Len(startarr) + 1
             room == curchunk < TotalChunks
             key(next) == Bytes(i, len(next))
             starts == Append(startarr, origsize + i)
             chunk(next) == table[key(next)]
             equal(next) == /\ room /\ key(next) \in DOMAIN table
                            /\ starts[chunk(next) + 1] - starts[chunk(next)] = len(next)
  <1>1. /\ pc = "cdc" /\ UNCHANGED <<ins, dictTable>>
        /\ \E next \in i + 1 .. Size :
              /\ startarr' = IF room THEN starts ELSE startarr
              /\ table' = IF room THEN Stored(table, key(next), curchunk) ELSE table
              /\ blk' = IF equal(next) /\ len(next) >= CdcMinMatch
                        THEN LET s == Emit(blk, CdcMinMatch, startarr[chunk(next)], i, len(next))
                             IN [s EXCEPT !.literals = blk.literals]
                        ELSE [blk EXCEPT !.literals = @ + len(next)]
              /\ i' = next
              /\ pc' = IF next = Size THEN "end" ELSE pc
    BY DEF CutChunk
  <1>2. PICK next \in i + 1 .. Size :
              /\ startarr' = IF room THEN starts ELSE startarr
              /\ table' = IF room THEN Stored(table, key(next), curchunk) ELSE table
              /\ blk' = IF equal(next) /\ len(next) >= CdcMinMatch
                        THEN LET s == Emit(blk, CdcMinMatch, startarr[chunk(next)], i, len(next))
                             IN [s EXCEPT !.literals = blk.literals]
                        ELSE [blk EXCEPT !.literals = @ + len(next)]
              /\ i' = next
              /\ pc' = IF next = Size THEN "end" ELSE pc
    BY <1>1
  <1>2a. next \in i + 1 .. Size
    BY <1>2
  <1>3. /\ JobGiven /\ Positions /\ RingHolds /\ Compressing /\ opts.method = "cdc"
        /\ i \in Nat /\ Size \in Nat /\ origsize \in Nat
    BY <1>1, ThreadsAre DEF InSearch, Compressing
  <1>4. BlkOK(blk) /\ blk.last_match_end <= i /\ DOMAIN blk = Fields
    BY <1>1, <1>3 DEF BlkMatches
  <1>5. i' = next /\ pc' = IF next = Size THEN "end" ELSE "cdc"
    BY <1>1, <1>2
  <1>6. \/ startarr' = startarr /\ table' = table
        \/ /\ Len(startarr) + 1 < TotalChunks
           /\ startarr' = Append(startarr, origsize + i)
           /\ table' = Stored(table, Bytes(i, next - i), Len(startarr) + 1)
    BY <1>2
  <1>7. CASE ~ (equal(next) /\ len(next) >= CdcMinMatch)
    <2>1. blk' = [blk EXCEPT !.literals = @ + (next - i)]
      BY <1>2, <1>7
    <2>2. /\ DOMAIN blk' = Fields
          /\ blk'.last_match_end = blk.last_match_end /\ blk'.found = blk.found
          /\ blk'.stat = blk.stat /\ blk'.literals = blk.literals + (next - i)
      BY <1>4, <2>1 DEF Fields
    <2> QED
      BY <1>1, <1>3, <1>5, <1>6, <2>2, Zenon
  <1>8. CASE equal(next) /\ len(next) >= CdcMinMatch
    <2> DEFINE src == startarr[chunk(next)]
               n == len(next)
               s == Emit(blk, BaseUsed, src, i, n)
    <2>1. BaseUsed = CdcMinMatch /\ BaseUsed \in Nat \ {0}
      BY <1>3, BaseUsedIs DEF BaseUsed
    <2>2. n \in Nat /\ n >= BaseUsed /\ n > 0 /\ i + n = next /\ i + n <= Size
      <3>1. n = next - i /\ n >= BaseUsed
        BY <1>8, <2>1
      <3> HIDE DEF n
      <3> QED
        BY <1>2a, <1>3, <2>1, <3>1
    <2>3. blk' = [s EXCEPT !.literals = blk.literals]
      BY <1>2, <1>8, <2>1
    <2>4. GoodMatch(blk, src, i, n)
      <3> DEFINE k == key(next)
                 c == chunk(next)
      <3>1. k \in DOMAIN table /\ c = table[k] /\ src = startarr[c] /\ k = Bytes(i, n)
        BY <1>8
      <3> HIDE DEF k, c, src, n
      <3>2. Contents(c, k) /\ startarr \in Seq(Nat) /\ CdcPosition = origsize + i
        BY <1>1, <1>3, <3>1 DEF Tables, ContentsNamed, TablesInFile, CdcPosition
      <3>3. /\ Len(k) = n /\ \A m \in 1 .. n : k[m] = input[origsize + i + m]
        <4>1. i \in Nat /\ n \in Nat /\ i + n <= Size
          BY <1>3, <2>2
        <4> QED
          BY <1>3, <3>1, <4>1, BytesAre
      <3>4. src \in Nat /\ src + n <= origsize + i
        BY <3>1, <3>2, <3>3 DEF Contents
      <3>5. Repeated(src, origsize + i, n)
        BY <3>1, <3>2, <3>3 DEF Contents, Repeated
      <3>6. ~ Round
        BY <1>3 DEF Round
      <3>7. src < origsize + i
        BY <1>3, <2>2, <3>4
      <3> QED
        BY <1>3, <1>4, <2>2, <3>4, <3>5, <3>6, <3>7 DEF GoodMatch
    <2>5. Emitted(blk, s)
      <3> HIDE DEF src, n
      <3> QED
        BY <2>2, <2>4, EmitIs
    <2>6. /\ s.last_match_end = i + n /\ DOMAIN s = Fields
          /\ s.found = Append(blk.found, [src |-> src, dest |-> origsize + i, len |-> n])
      <3> HIDE DEF src, n
      <3> QED
        BY DEF Emit, Fields
    <2> HIDE DEF src, n, s
    <2>7. /\ blk'.last_match_end = s.last_match_end /\ blk'.found = s.found /\ blk'.stat = s.stat
          /\ blk'.literals = blk.literals /\ DOMAIN blk' = Fields
      BY <2>3, <2>6 DEF Fields
    <2>8. Emitted(blk, blk')
      <3> DEFINE t == blk'
      <3>1. t.last_match_end = s.last_match_end /\ t.found = s.found /\ t.stat = s.stat
        BY <2>7
      <3> HIDE DEF t
      <3>2. Emitted(blk, t)
        BY <1>3, <2>5, <3>1 DEF Emitted
      <3> QED
        BY <3>2 DEF t
    <2>9. \E a : blk'.found = Append(blk.found, [src |-> a, dest |-> origsize + i, len |-> next - i])
      BY <2>6, <2>7 DEF n
    <2>10. blk'.last_match_end = next
      BY <2>2, <2>6, <2>7
    <2> QED
      BY <1>1, <1>3, <1>5, <1>6, <2>7, <2>8, <2>9, <2>10, Zenon
  <1> QED
    BY <1>7, <1>8

-----------------------------------------------------------------------------
(* Each part of the invariant is kept. *)

\* The steps that leave alone what has been found, and where.
Idle == UNCHANGED <<opts, input, origsize, pc, i, blk, ins, dictTable, table, startarr, blocks>>

LEMMA Cases ==
    ASSUME [Next]_vars
    PROVE  \/ Idle \/ StartBlock \/ FinishBlock
           \/ DictScan \/ DictEnd \/ FirstChunk \/ Scan \/ ScanEnd \/ CutChunk
  <1>1. CASE ReadBlock
    BY <1>1, ReadSteps DEF Steady, Idle
  <1>2. CASE UNCHANGED vars
    BY <1>2 DEF vars, tables, Idle
  <1>3. CASE Search
    BY <1>3 DEF Search
  <1> QED
    BY <1>1, <1>2, <1>3, Steps

LEMMA IdleSizes ==
    ASSUME Idle
    PROVE  Steady /\ Size' = Size /\ BufStart' = BufStart /\ B' = B /\ D' = D /\ N' = N /\ L' = L
           /\ BaseLen' = BaseLen /\ Round' = Round /\ TotalChunks' = TotalChunks
  <1>1. Steady
    BY DEF Idle, Steady
  <1> QED
    BY <1>1, SteadySizes

LEMMA FinishBlockIs ==
    ASSUME Threads, FinishBlock
    PROVE  /\ pc = "end" /\ pc' = "block" /\ origsize' = origsize + Size
           /\ UNCHANGED <<opts, input, i, blk, ins, dictTable, table, startarr>>
           /\ origsize < N
           /\ blocks' = Append(blocks, [start |-> origsize, size |-> Size, literals |-> blk.literals,
                                        stat |-> blk.stat, found |-> blk.found])
  <1>1. pc = "end" /\ Compressing
    BY DEF FinishBlock, Compressing
  <1>2. origsize < N
    BY <1>1, ThreadsAre DEF Positions
  <1> QED
    BY <1>1, <1>2 DEF FinishBlock, tables

LEMMA ScanEndIs ==
    ASSUME ScanEnd
    PROVE  /\ pc = "scan" /\ pc' = "end" /\ i + 2 * L > Size /\ i % L = 0
           /\ UNCHANGED <<i, blk, ins, dictTable, table, startarr>>
  BY DEF ScanEnd, tables

LEMMA InSearchKept ==
    ASSUME IInv, [Next]_vars
    PROVE  InSearch'
  <1> USE ThreadsAre DEF IInv
  <1>0. /\ JobGiven /\ Positions /\ InSearch
        /\ L \in Nat \ {0} /\ Size \in Nat /\ origsize \in Nat /\ N \in Nat /\ i \in Nat
        /\ B \in Nat \ {0} /\ Size <= B /\ opts.method \in {"rep", "cdc", "digest", "reread"}
        /\ (opts.method = "cdc" => opts.dict = 0)
    BY SettingIs
  <1>0a. Compressing => origsize < N
    BY <1>0 DEF Positions
  <1>1. CASE Idle
    BY <1>0, <1>1, IdleSizes DEF Idle, InSearch
  <1>2. CASE FinishBlock
    <2>1. pc' = "block" /\ i' = i /\ B' = B
      BY <1>2, FinishBlockIs DEF B
    <2> QED
      BY <1>0, <2>1 DEF InSearch
  <1>3. ASSUME Steady, i' = 0, pc' \in {"first", "end"}, pc' = "first" => 2 * L <= Size,
               opts.method \in {"digest", "reread"}
        PROVE  InSearch'
    <2>1. L' = L /\ Size' = Size /\ B' = B /\ opts' = opts
      BY <1>3, SteadySizes DEF Steady
    <2> QED
      BY <1>0, <1>3, <2>1 DEF InSearch
  <1>4. ASSUME Steady, StartedWith(ins'), opts.method # "rep", origsize < N PROVE InSearch'
    <2>1. CASE opts.method = "cdc"
      <3>1. i' = 0 /\ pc' = "cdc"
        BY <1>4, <2>1 DEF StartedWith
      <3>2. Size' = Size /\ B' = B /\ opts' = opts
        BY <1>4, SteadySizes DEF Steady
      <3>3. Size > 0
        BY <1>0, <1>4, SizeIs
      <3> QED
        BY <1>0, <2>1, <3>1, <3>2, <3>3 DEF InSearch
    <2>2. CASE opts.method # "cdc"
      BY <1>0, <1>3, <1>4, <2>2 DEF StartedWith
    <2> QED
      BY <2>1, <2>2
  <1>5. CASE StartBlock
    <2>1. /\ Steady /\ pc = "block"
          /\ \/ origsize = N /\ pc' = "done" /\ UNCHANGED i
             \/ origsize < N /\ opts.dict > 0 /\ pc' = "dict" /\ i' = 0
             \/ origsize < N /\ opts.dict = 0 /\ StartedWith(ins')
      BY <1>5, StartBlockIs
    <2>2. Size' = Size /\ B' = B /\ opts' = opts
      BY <2>1, SteadySizes DEF Steady
    <2>3. CASE pc' = "done" /\ UNCHANGED i
      BY <1>0, <2>2, <2>3 DEF InSearch
    <2>4. CASE opts.dict > 0 /\ pc' = "dict" /\ i' = 0
      BY <1>0, <2>2, <2>4 DEF InSearch
    <2>5. CASE origsize < N /\ opts.dict = 0 /\ StartedWith(ins')
      <3>1. opts.method # "rep"
        BY <1>0, <2>5, SettingIs
      <3> QED
        BY <1>4, <2>1, <2>5, <3>1
    <2> QED
      BY <2>1, <2>3, <2>4, <2>5
  <1>6. CASE DictEnd
    <2>1. Steady /\ Compressing
      BY <1>6, SearchSteps DEF Search
    <2>2. /\ pc = "dict"
          /\ \/ opts.method = "rep" /\ pc' = "end" /\ UNCHANGED i
             \/ opts.method # "rep" /\ StartedWith(ins')
      BY <1>6, DictEndIs DEF Found
    <2>3. B' = B
      BY <2>1, SteadySizes
    <2>4. CASE pc' = "end" /\ UNCHANGED i
      BY <1>0, <2>3, <2>4 DEF InSearch
    <2>5. CASE opts.method # "rep" /\ StartedWith(ins')
      BY <1>0a, <1>4, <2>1, <2>5
    <2> QED
      BY <2>2, <2>4, <2>5
  <1>7. CASE DictScan
    <2>1. Steady
      BY <1>7, SearchSteps DEF Search
    <2>2. pc = "dict" /\ pc' = "dict" /\ i' = i + opts.dictL /\ i' <= Size /\ opts.dictL \in Nat
      BY <1>7, DictScanIs, SettingIs DEF Found, Tables
    <2>3. Size' = Size /\ B' = B /\ opts' = opts
      BY <2>1, SteadySizes DEF Steady
    <2> QED
      BY <1>0, <2>2, <2>3 DEF InSearch
  <1>8. CASE FirstChunk
    <2>1. Steady
      BY <1>8, SearchSteps DEF Search
    <2>2. /\ pc' \in {"scan", "failed"} /\ i' = 0 /\ 2 * L <= Size
          /\ opts.method \in {"digest", "reread"}
      BY <1>8, FirstChunkIs DEF Found
    <2>3. L' = L /\ Size' = Size /\ B' = B /\ opts' = opts
      BY <2>1, SteadySizes DEF Steady
    <2>4. i' + L <= Size /\ i' % L = 0
      BY <1>0, <2>2, ModSelf
    <2> QED
      BY <1>0, <2>2, <2>3, <2>4 DEF InSearch
  <1>9. CASE Scan
    <2>1. Steady
      BY <1>9, SearchSteps DEF Search
    <2>2. /\ pc = "scan" /\ pc' \in {"scan", "failed"} /\ opts.method \in {"digest", "reread"}
          /\ i' \in Nat /\ i' + L <= Size
          /\ i' % L = 0 \/ (i' \div L) * L + 2 * L <= Size
      BY <1>9, ScanIs
    <2>3. L' = L /\ Size' = Size /\ B' = B /\ opts' = opts
      BY <2>1, SteadySizes DEF Steady
    <2>4. 2 * L <= Size
      BY <1>0, <2>2 DEF InSearch
    <2>5. i' \in 0 .. B
      <3>1. i' \in Nat /\ i' + L <= Size
        BY <2>2
      <3>2. L \in Nat /\ Size \in Nat /\ B \in Nat /\ Size <= B
        BY <1>0
      <3>3. \A a, l, size \in Nat : a + l <= size => a <= size
        OBVIOUS
      <3>4. i' <= Size
        BY ONLY <3>1, <3>2, <3>3, Zenon
      <3> QED
        BY ONLY <3>1, <3>2, <3>4
    <2>6. pc' = "scan" => i' + L' <= Size' /\ (i' % L' = 0 \/ (i' \div L') * L' + 2 * L' <= Size')
      BY <2>2, <2>3
    <2>7. pc' \in {"first", "scan"} => opts'.method \in {"digest", "reread"} /\ 2 * L' <= Size'
      BY <2>2, <2>3, <2>4
    <2> QED
      BY <2>2, <2>3, <2>5, <2>6, <2>7 DEF InSearch
  <1>10. CASE ScanEnd
    <2>1. Steady
      BY <1>10, SearchSteps DEF Search
    <2>2. pc' = "end" /\ i' = i /\ B' = B
      BY <1>10, <2>1, ScanEndIs, SteadySizes
    <2> QED
      BY <1>0, <2>2 DEF InSearch
  <1>11. CASE CutChunk
    <2>1. Steady
      BY <1>11, SearchSteps DEF Search
    <2>2. /\ opts.method = "cdc"
          /\ \E next \in i + 1 .. Size : i' = next /\ pc' = IF next = Size THEN "end" ELSE "cdc"
      <3>1. Tables /\ BlkMatches
        BY DEF Found
      <3> QED
        BY <1>11, <3>1, CutChunkIs
    <2>3. i' \in 0 .. B /\ pc' \in {"end", "cdc"} /\ (pc' = "cdc" => i' < Size)
      BY <1>0, <2>2
    <2>4. Size' = Size /\ B' = B /\ opts' = opts
      BY <2>1, SteadySizes DEF Steady
    <2> QED
      BY <2>2, <2>3, <2>4 DEF InSearch
  <1> QED
    BY <1>1, <1>2, <1>5, <1>6, <1>7, <1>8, <1>9, <1>10, <1>11, Cases

LEMMA StoredIs ==
    ASSUME NEW t, NEW key, NEW x, NEW k \in DOMAIN Stored(t, key, x)
    PROVE  \/ k = key /\ Stored(t, key, x)[k] = x
           \/ k \in DOMAIN t /\ Stored(t, key, x)[k] = t[k]
  BY DEF Stored

\* What AddHash stores is the number of the chunk at x, if it is not chunk 0.
LEMMA AddHashIs ==
    ASSUME JobGiven, NEW x \in Nat, origsize \in Nat, origsize + x <= N, AddHash(x)
    PROVE  LET chunk == (origsize + x) \div L
           IN \/ table' = table
              \/ /\ chunk \in 1 .. N /\ chunk * L <= origsize + x
                 /\ \E key : /\ table' = Stored(table, key, chunk)
                             /\ opts.method = "digest" => key = digests[chunk]
  <1> DEFINE a == origsize + x
             chunk == a \div L
             key == IF opts.method = "digest" THEN digests[chunk] ELSE Hash(Bytes(x, L))
  <1>1. a \in Nat /\ L \in Nat \ {0} /\ N \in Nat /\ a <= N
    BY SettingIs
  <1>2. table' = IF chunk = 0 THEN table ELSE Stored(table, key, chunk)
    BY DEF AddHash
  <1>3. opts.method = "digest" => key = digests[chunk]
    OBVIOUS
  <1> HIDE DEF key, a
  <1>4. chunk \in Nat /\ a % L \in 0 .. L - 1 /\ a = L * chunk + (a % L)
    BY <1>1, DivMod
  <1> HIDE DEF chunk
  <1>5. chunk * L <= a /\ chunk <= a
    <2>1. L * chunk \in Nat /\ chunk * L = L * chunk /\ L * chunk >= chunk
      BY <1>1, <1>4
    <2> DEFINE lc == L * chunk
    <2>2. lc \in Nat /\ chunk * L = lc /\ lc >= chunk /\ a = lc + (a % L)
      BY <1>4, <2>1
    <2> HIDE DEF lc
    <2> QED
      BY <1>1, <1>4, <2>2
  <1>6. CASE chunk = 0
    <2>1. table' = table
      BY <1>2, <1>6
    <2> QED
      BY <2>1
  <1>7. CASE chunk # 0
    <2>1. table' = Stored(table, key, chunk)
      BY <1>2, <1>7
    <2>2. chunk \in 1 .. N
      BY <1>1, <1>4, <1>5, <1>7
    <2>3. \E k : table' = Stored(table, k, chunk) /\ (opts.method = "digest" => k = digests[chunk])
      BY <1>3, <2>1, Zenon
    <2> QED
      BY <1>5, <2>2, <2>3 DEF chunk, a
  <1> QED
    BY <1>6, <1>7

\* A block's search changes the table in these ways only.
LEMMA TableChanges ==
    ASSUME IInv, [Next]_vars
    PROVE  \/ table' = table
           \/ /\ opts.method \in {"digest", "reread"} /\ Steady /\ UNCHANGED bgVars /\ Compressing
              /\ pc' \in {"scan", "failed"}
              /\ i' \in Nat /\ i' + L <= Size /\ i' % L = 0
              /\ (origsize + i') \div L \in 1 .. N
              /\ ((origsize + i') \div L) * L <= origsize + i'
              /\ \E key : /\ table' = Stored(table, key, (origsize + i') \div L)
                          /\ opts.method = "digest" => key = digests[(origsize + i') \div L]
           \/ CutChunk
  <1> USE DEF IInv
  <1>0. /\ JobGiven /\ L \in Nat \ {0} /\ Size \in Nat /\ origsize \in Nat /\ N \in Nat
        /\ origsize + Size <= N
    BY ThreadsAre
  <1>1. ASSUME i' \in Nat, i' + L <= Size, i' % L = 0, AddHash(i'), pc' \in {"scan", "failed"},
               opts.method \in {"digest", "reread"}, Search
        PROVE  \/ table' = table
               \/ /\ opts.method \in {"digest", "reread"} /\ Steady /\ UNCHANGED bgVars /\ Compressing
                  /\ pc' \in {"scan", "failed"}
                  /\ i' \in Nat /\ i' + L <= Size /\ i' % L = 0
                  /\ (origsize + i') \div L \in 1 .. N
                  /\ ((origsize + i') \div L) * L <= origsize + i'
                  /\ \E key : /\ table' = Stored(table, key, (origsize + i') \div L)
                              /\ opts.method = "digest" => key = digests[(origsize + i') \div L]
    <2> DEFINE x == i'
    <2>1. x \in Nat /\ x + L <= Size /\ AddHash(x)
      BY <1>1
    <2>2. Steady /\ UNCHANGED bgVars /\ Compressing
      BY <1>1, SearchSteps
    <2> HIDE DEF x
    <2>3. origsize + x <= N
      BY <1>0, <2>1
    <2> DEFINE chunk == (origsize + x) \div L
    <2>4. \/ table' = table
          \/ /\ chunk \in 1 .. N /\ chunk * L <= origsize + x
             /\ \E key : /\ table' = Stored(table, key, chunk)
                         /\ opts.method = "digest" => key = digests[chunk]
      BY <1>0, <2>1, <2>3, AddHashIs
    <2> HIDE DEF chunk
    <2> QED
      BY <1>1, <2>2, <2>4, Zenon DEF chunk, x
  <1>2. CASE FirstChunk
    <2>1. /\ pc' \in {"scan", "failed"} /\ i' = 0 /\ AddHash(0) /\ 2 * L <= Size
          /\ opts.method \in {"digest", "reread"}
      BY <1>2, FirstChunkIs DEF Found
    <2>2. i' \in Nat /\ i' + L <= Size /\ i' % L = 0 /\ AddHash(i')
      BY <1>0, <2>1, ModSelf
    <2> QED
      BY <1>1, <1>2, <2>1, <2>2 DEF Search
  <1>3. CASE Scan
    <2>1. /\ pc' \in {"scan", "failed"} /\ i' \in Nat /\ i' + L <= Size
          /\ opts.method \in {"digest", "reread"}
          /\ table' = table \/ (i' % L = 0 /\ AddHash(i'))
      BY <1>3, ScanIs
    <2> QED
      BY <1>1, <1>3, <2>1 DEF Search
  <1>4. CASE StartBlock \/ FinishBlock \/ DictScan \/ DictEnd \/ ScanEnd \/ Idle
    <2>1. table' = table
      BY <1>4 DEF StartBlock, FinishBlock, DictScan, DictEnd, ScanEnd, Idle, tables
    <2> QED
      BY <2>1
  <1> QED
    BY <1>2, <1>3, <1>4, Cases

LEMMA TablesInFileKept ==
    ASSUME IInv, [Next]_vars
    PROVE  TablesInFile'
  <1> USE DEF IInv, Tables
  <1>0. /\ JobGiven /\ L \in Nat \ {0} /\ Size \in Nat /\ origsize \in Nat /\ N \in Nat /\ i \in Nat
        /\ origsize + Size <= N /\ N' = N /\ opts' = opts /\ input' = input
    BY ThreadsAre, JobKept
  <1>1. TotalChunks' = TotalChunks
    BY <1>0 DEF TotalChunks, L
  <1>2. CASE CutChunk
    <2>1. opts.method = "cdc" /\ pc = "cdc"
      BY <1>2, CutChunkIs DEF Found
    <2>2. PICK next \in i + 1 .. Size :
             /\ i' = next /\ pc' = IF next = Size THEN "end" ELSE "cdc"
             /\ \/ startarr' = startarr /\ table' = table
                \/ /\ Len(startarr) + 1 < TotalChunks
                   /\ startarr' = Append(startarr, origsize + i)
                   /\ table' = Stored(table, Bytes(i, next - i), Len(startarr) + 1)
      BY <1>2, CutChunkIs DEF Found
    <2>3. /\ startarr \in Seq(Nat) /\ Len(startarr) \in Nat /\ Len(startarr) <= origsize + i
          /\ Len(startarr) < TotalChunks /\ \A k \in DOMAIN table : table[k] \in 1 .. N
      BY <2>1 DEF TablesInFile, CdcPosition
    <2>4. CdcPosition' = origsize + next
      <3>1. Steady
        BY <1>2, SearchSteps DEF Search
      <3>2. Size' = Size /\ origsize' = origsize
        BY <3>1, SteadySizes DEF Steady
      <3> QED
        BY <2>2, <3>2 DEF CdcPosition
    <2>5. next \in Nat /\ i < next /\ next <= Size
      BY <1>0, <2>2
    <2>6. CASE startarr' = startarr /\ table' = table
      BY <1>0, <1>1, <2>3, <2>4, <2>5, <2>6 DEF TablesInFile
    <2>7. CASE /\ Len(startarr) + 1 < TotalChunks
               /\ startarr' = Append(startarr, origsize + i)
               /\ table' = Stored(table, Bytes(i, next - i), Len(startarr) + 1)
      <3> DEFINE key == Bytes(i, next - i)
                 c == Len(startarr) + 1
                 t == Stored(table, key, c)
      <3>1. startarr' \in Seq(Nat) /\ Len(startarr') = c
        BY <1>0, <2>3, <2>7
      <3>2. c \in 1 .. N /\ c <= origsize + next
        BY <1>0, <2>3, <2>5
      <3> HIDE DEF c, key
      <3>3. \A k \in DOMAIN t : t[k] \in 1 .. N
        BY <2>3, <3>2, StoredIs
      <3>4. table' = t
        BY <2>7 DEF c, key
      <3> HIDE DEF t
      <3>5. c < TotalChunks
        BY <2>7 DEF c
      <3> QED
        BY <1>0, <1>1, <2>4, <3>1, <3>2, <3>3, <3>4, <3>5 DEF TablesInFile
    <2> QED
      BY <2>2, <2>6, <2>7
  <1>3. CASE ~ CutChunk
    <2>1. startarr' = startarr
      BY <1>3, Cases DEF StartBlock, FinishBlock, DictScan, DictEnd, FirstChunk, Scan, ScanEnd, Idle, tables
    <2>2. \A k \in DOMAIN table' : table'[k] \in 1 .. N
      <3>1. \A k \in DOMAIN table : table[k] \in 1 .. N
        BY DEF TablesInFile
      <3>2. CASE table' = table
        BY <3>1, <3>2
      <3>3. CASE table' # table
        <4> DEFINE c == (origsize + i') \div L
        <4>1. c \in 1 .. N /\ \E key : table' = Stored(table, key, c)
          BY <1>3, <3>3, TableChanges
        <4> HIDE DEF c
        <4>2. PICK key : table' = Stored(table, key, c)
          BY <4>1
        <4> QED
          BY <3>1, <4>1, <4>2, StoredIs
      <3> QED
        BY <3>2, <3>3
    <2>3. opts.method = "cdc" => Len(startarr) <= CdcPosition'
      <3> SUFFICES ASSUME opts.method = "cdc" PROVE Len(startarr) <= CdcPosition'
        OBVIOUS
      <3>1. /\ startarr \in Seq(Nat) /\ Len(startarr) \in Nat /\ Len(startarr) <= CdcPosition
        BY DEF TablesInFile
      <3>2. CASE Idle
        <4>1. CdcPosition' = CdcPosition
          <5>1. Size' = Size /\ origsize' = origsize /\ pc' = pc /\ i' = i
            BY <3>2, IdleSizes DEF Idle
          <5> QED
            BY <5>1 DEF CdcPosition
        <4> QED
          BY <3>1, <4>1
      <3>3. CASE StartBlock
        <4>1. /\ pc = "block" /\ origsize' = origsize
              /\ pc' = "done" \/ pc' = "dict" \/ (pc' = "cdc" /\ i' = 0)
          BY <3>3, StartBlockIs DEF Steady, StartedWith
        <4>2. CdcPosition = origsize /\ CdcPosition' = origsize
          BY <1>0, <4>1 DEF CdcPosition
        <4> QED
          BY <3>1, <4>2
      <3>4. CASE FinishBlock
        <4>1. pc = "end" /\ pc' = "block" /\ origsize' = origsize + Size
          BY <3>4, FinishBlockIs
        <4>2. CdcPosition = origsize + Size /\ CdcPosition' = origsize + Size
          BY <1>0, <4>1 DEF CdcPosition
        <4> QED
          BY <3>1, <4>2
      <3>5. ~ DictScan /\ ~ DictEnd /\ ~ FirstChunk /\ ~ Scan /\ ~ ScanEnd
        BY ThreadsAre DEF InSearch, DictScan, DictEnd, FirstChunk, Scan, ScanEnd
      <3> QED
        BY <1>3, <3>2, <3>3, <3>4, <3>5, Cases
    <2> QED
      BY <1>0, <1>1, <2>1, <2>2, <2>3 DEF TablesInFile
  <1> QED
    BY <1>2, <1>3

LEMMA DictEarlierKept ==
    ASSUME IInv, [Next]_vars
    PROVE  DictEarlier'
  <1> USE DEF IInv, Tables
  <1>0. /\ JobGiven /\ L \in Nat \ {0} /\ Size \in Nat /\ origsize \in Nat /\ N \in Nat /\ i \in Nat
        /\ D \in Nat \ {0} /\ D' = D
    BY ThreadsAre, JobKept
  <1>1. \A h \in DOMAIN dictTable :
           dictTable[h] \in 1 .. D - 1 /\ (origsize < D => dictTable[h] < DictPosition)
    BY DEF DictEarlier
  <1>2. CASE DictScan
    <2>1. /\ pc = "dict" /\ pc' = "dict" /\ i' = i + opts.dictL /\ i' <= Size
      BY <1>2, DictScanIs DEF Found
    <2>2. PICK x \in i .. i' - 1 :
                 \/ /\ BufStart + x # 0
                    /\ dictTable' = Stored(dictTable, DictHash(x), BufStart + x)
                 \/ dictTable' = [h \in DOMAIN dictTable \ {DictHash(x)} |-> dictTable[h]]
      BY <1>2, DictScanIs DEF Found
    <2>3. Steady /\ origsize' = origsize /\ Compressing
      BY <1>2, SearchSteps DEF Search, Steady
    <2>4. DictPosition = origsize + i /\ DictPosition' = origsize + i'
      BY <2>1, <2>3 DEF DictPosition
    <2>5. opts.dictL \in Nat \ {0} /\ i' \in Nat /\ i < i'
      BY <1>0, <2>1, ThreadsAre
    <2>6. \A h \in DOMAIN dictTable :
             dictTable[h] \in 1 .. D - 1 /\ (origsize < D => dictTable[h] < origsize + i')
      <3> SUFFICES ASSUME NEW h \in DOMAIN dictTable
                   PROVE  dictTable[h] \in 1 .. D - 1 /\ (origsize < D => dictTable[h] < origsize + i')
        OBVIOUS
      <3> DEFINE v == dictTable[h]
      <3>1. v \in 1 .. D - 1 /\ (origsize < D => v < origsize + i)
        BY <1>1, <2>4
      <3> HIDE DEF v
      <3> DEFINE j == i'
      <3>2. j \in Nat /\ i < j
        BY <2>5
      <3> HIDE DEF j
      <3>3. origsize < D => v < origsize + j
        BY <1>0, <3>1, <3>2
      <3> QED
        BY <3>1, <3>3 DEF v, j
    <2>7. ASSUME BufStart + x # 0
          PROVE  BufStart + x \in 1 .. D - 1 /\ (origsize < D => BufStart + x < origsize + i')
      <3>1. origsize < N
        BY <2>3, ThreadsAre DEF Positions
      <3>2. BufStart \in 0 .. D - 1 /\ BufStart = origsize % D /\ BufStart + Size <= D
        BY <1>0, <3>1, ThreadsAre, BlockInRing
      <3>3. origsize < D => origsize % D = origsize
        BY <1>0
      <3>4. x \in Nat /\ x < i' /\ x < Size
        BY <1>0, <2>1, <2>2, <2>5
      <3>5. origsize < D => BufStart = origsize
        BY <3>2, <3>3
      <3> DEFINE b == BufStart
      <3>6. b \in Nat /\ b + Size <= D /\ b + x # 0 /\ (origsize < D => b = origsize)
        BY <1>0, <2>7, <3>2, <3>5
      <3> DEFINE j == i'
      <3>7. j \in Nat /\ x < j
        BY <2>5, <3>4
      <3> HIDE DEF b, j
      <3>8. b + x \in 1 .. D - 1
        BY <1>0, <3>4, <3>6
      <3>9. origsize < D => b + x < origsize + j
        BY <1>0, <3>4, <3>6, <3>7
      <3> QED
        BY <3>8, <3>9 DEF b, j
    <2>8. ASSUME NEW h \in DOMAIN dictTable'
          PROVE  dictTable'[h] \in 1 .. D - 1 /\ (origsize < D => dictTable'[h] < origsize + i')
      <3>1. CASE BufStart + x # 0 /\ dictTable' = Stored(dictTable, DictHash(x), BufStart + x)
        BY <2>6, <2>7, <2>8, <3>1, StoredIs
      <3>2. CASE dictTable' = [g \in DOMAIN dictTable \ {DictHash(x)} |-> dictTable[g]]
        BY <2>6, <2>8, <3>2
      <3> QED
        BY <2>2, <3>1, <3>2
    <2> QED
      BY <1>0, <2>3, <2>4, <2>8 DEF DictEarlier
  <1>3. CASE ~ DictScan
    <2>1. dictTable' = dictTable
      BY <1>3, Cases, CutChunkIs DEF StartBlock, FinishBlock, DictEnd, FirstChunk, Scan, ScanEnd, Idle, tables, CutChunk
    <2>2. origsize' < D => origsize < D /\ DictPosition <= DictPosition' /\ DictPosition \in Nat
                           /\ DictPosition' \in Nat
      <3>0. Size' \in Nat /\ DictPosition \in Nat
        <4>1. Positions' /\ JobGiven'
          BY PositionsKept, ThreadsAre, JobKept
        <4>2. Size' \in Nat
          <5> DEFINE o == origsize'
                     rest == N - o
          <5>1. o \in 0 .. N /\ B \in Nat \ {0} /\ opts' = opts /\ input' = input
            BY <1>0, <4>1, JobKept, ThreadsAre DEF Positions
          <5>2. Size' = Min({B, rest})
            BY <5>1 DEF Size, B, N
          <5> HIDE DEF o
          <5>3. rest \in Nat
            BY <1>0, <5>1
          <5> HIDE DEF rest
          <5>4. Min({B, rest}) \in Nat
            BY <5>1, <5>3, MinOfTwo
          <5> QED
            BY <5>2, <5>4
        <4> QED
          BY <1>0, <4>2 DEF DictPosition
      <3>1. CASE Idle
        <4>1. Size' = Size /\ origsize' = origsize /\ pc' = pc /\ i' = i
          BY <3>1, IdleSizes DEF Idle
        <4>2. DictPosition' = DictPosition
          BY <4>1 DEF DictPosition
        <4> QED
          BY <1>0, <3>0, <4>1, <4>2
      <3>2. CASE StartBlock
        <4>1. /\ pc = "block" /\ Size' = Size /\ origsize' = origsize
          BY <3>2, StartBlockIs, SteadySizes DEF Steady
        <4>2. pc' = "dict" => i' \in Nat
          BY <3>2, StartBlockIs DEF StartedWith
        <4>3. DictPosition = origsize /\ DictPosition' \in Nat /\ DictPosition' >= origsize
          BY <1>0, <4>1, <4>2 DEF DictPosition
        <4> QED
          BY <1>0, <4>1, <4>3
      <3>3. CASE FinishBlock
        <4>1. pc = "end" /\ pc' = "block" /\ origsize' = origsize + Size
          BY <3>3, FinishBlockIs
        <4>2. DictPosition = origsize + Size /\ DictPosition' = origsize + Size
          BY <1>0, <4>1 DEF DictPosition
        <4> QED
          BY <1>0, <4>1, <4>2
      <3>4. CASE DictEnd \/ FirstChunk \/ Scan \/ ScanEnd \/ CutChunk
        <4>1. Steady /\ Size' = Size /\ origsize' = origsize
          <5>1. Steady
            BY <3>4, SearchSteps DEF Search
          <5> QED
            BY <5>1, SteadySizes DEF Steady
        <4>2. pc \notin {"block", "done"} /\ (pc = "dict" => i <= Size)
          BY <3>4, ThreadsAre DEF DictEnd, FirstChunk, Scan, ScanEnd, CutChunk, InSearch
        <4>3. pc' \notin {"dict", "block", "done"}
          <5>1. CASE DictEnd
            BY <5>1, DictEndIs DEF Found, StartedWith
          <5>2. CASE FirstChunk
            BY <5>2, FirstChunkIs DEF Found
          <5>3. CASE Scan
            BY <5>3, ScanIs
          <5>4. CASE ScanEnd
            BY <5>4, ScanEndIs
          <5>5. CASE CutChunk
            BY <5>5, CutChunkIs DEF Found
          <5> QED
            BY <3>4, <5>1, <5>2, <5>3, <5>4, <5>5
        <4>4. DictPosition' = origsize + Size
          BY <4>1, <4>3 DEF DictPosition
        <4>5. DictPosition = origsize + i \/ DictPosition = origsize + Size
          BY <4>2 DEF DictPosition
        <4>6. DictPosition <= origsize + Size
          BY <1>0, <4>2, <4>5 DEF DictPosition
        <4> QED
          BY <1>0, <3>0, <4>1, <4>4, <4>6
      <3> QED
        BY <1>3, <3>1, <3>2, <3>3, <3>4, Cases
    <2> SUFFICES ASSUME NEW h \in DOMAIN dictTable
                 PROVE  dictTable[h] \in 1 .. D - 1 /\ (origsize' < D => dictTable[h] < DictPosition')
      BY <1>0, <2>1 DEF DictEarlier
    <2> DEFINE v == dictTable[h]
    <2>3. v \in 1 .. D - 1 /\ (origsize < D => v < DictPosition)
      BY <1>1
    <2> HIDE DEF v
    <2>4. origsize' < D => v < DictPosition'
      BY <1>0, <2>2, <2>3
    <2> QED
      BY <2>3, <2>4 DEF v
  <1> QED
    BY <1>2, <1>3

LEMMA ChunksEarlierKept ==
    ASSUME IInv, [Next]_vars
    PROVE  ChunksEarlier'
  <1> USE DEF IInv, Tables
  <1>0. /\ JobGiven /\ L \in Nat \ {0} /\ Size \in Nat /\ origsize \in Nat /\ N \in Nat /\ i \in Nat
        /\ opts' = opts /\ L' = L
    BY ThreadsAre, JobKept
  <1> SUFFICES ASSUME opts.method \in {"digest", "reread"}, NEW k \in DOMAIN table'
               PROVE  /\ pc' = "scan" => table'[k] * L <= origsize' + i'
                      /\ pc' \in {"block", "dict", "first", "done"} => table'[k] * L < origsize'
                      /\ pc' = "end" => table'[k] * L < origsize' + Size'
    BY <1>0 DEF ChunksEarlier
  <1>1. \A h \in DOMAIN table :
           /\ pc = "scan" => table[h] * L <= origsize + i
           /\ pc \in {"block", "dict", "first", "done"} => table[h] * L < origsize
           /\ pc = "end" => table[h] * L < origsize + Size
    BY DEF ChunksEarlier
  <1>2. ~ CutChunk
    BY CutChunkIs DEF Found
  <1>3. CASE table' # table
    <2> DEFINE x == i'
               c == (origsize + x) \div L
               cl == c * L
    <2>1. /\ Steady /\ Compressing /\ pc' \in {"scan", "failed"}
          /\ x \in Nat /\ x + L <= Size /\ x % L = 0
          /\ c \in 1 .. N /\ cl <= origsize + x
          /\ \E key : table' = Stored(table, key, c)
      BY <1>2, <1>3, TableChanges
    <2>2. PICK key : table' = Stored(table, key, c)
      BY <2>1
    <2>3. origsize' = origsize
      BY <2>1 DEF Steady
    <2>4. FirstChunk \/ Scan
      BY <1>2, <1>3, Cases DEF StartBlock, FinishBlock, DictScan, DictEnd, ScanEnd, Idle, tables
    <2>5. \A h \in DOMAIN table : table[h] * L <= origsize + x
      <3> SUFFICES ASSUME NEW h \in DOMAIN table PROVE table[h] * L <= origsize + x
        OBVIOUS
      <3> DEFINE a == table[h] * L
      <3>1. a \in Nat
        <4>1. table[h] \in 1 .. N
          BY DEF TablesInFile
        <4> QED
          BY <1>0, <4>1
      <3>2. CASE FirstChunk
        <4>1. a < origsize
          BY <1>1, <3>2, FirstChunkIs DEF Found
        <4> HIDE DEF a, x
        <4>2. a <= origsize + x
          BY <1>0, <2>1, <3>1, <4>1
        <4> QED
          BY <4>2 DEF a
      <3>3. CASE Scan
        <4>1. a <= origsize + i /\ i < x
          BY <1>1, <3>3, ScanIs
        <4> HIDE DEF a, x
        <4>2. a <= origsize + x
          BY <1>0, <2>1, <3>1, <4>1
        <4> QED
          BY <4>2 DEF a
      <3> QED
        BY <2>4, <3>2, <3>3
    <2> HIDE DEF c
    <2>6. table'[k] = c \/ (k \in DOMAIN table /\ table'[k] = table[k])
      BY <2>2, StoredIs
    <2>7. table'[k] * L <= origsize + x
      BY <2>1, <2>5, <2>6
    <2> QED
      BY <2>1, <2>3, <2>7
  <1>4. CASE table' = table
    <2> DEFINE a == table[k] * L
    <2>0. a \in Nat /\ k \in DOMAIN table
      <3>1. k \in DOMAIN table /\ table[k] \in 1 .. N
        BY <1>4 DEF TablesInFile
      <3> QED
        BY <1>0, <3>1
    <2>1. /\ pc = "scan" => a <= origsize + i
          /\ pc \in {"block", "dict", "first", "done"} => a < origsize
          /\ pc = "end" => a < origsize + Size
      BY <1>1, <2>0
    <2>2. table'[k] * L = a
      BY <1>4
    <2> HIDE DEF a
    <2>3. CASE Idle
      <3>1. Size' = Size /\ origsize' = origsize /\ pc' = pc /\ i' = i
        BY <2>3, IdleSizes DEF Idle
      <3> QED
        BY <2>1, <2>2, <3>1
    <2>4. CASE StartBlock
      <3>1. pc = "block" /\ Size' = Size /\ origsize' = origsize
        BY <2>4, StartBlockIs, SteadySizes DEF Steady
      <3>2. pc' \in {"done", "dict", "first", "end"}
        BY <2>4, StartBlockIs DEF StartedWith
      <3>3. a < origsize /\ a < origsize + Size
        BY <1>0, <2>0, <2>1, <3>1
      <3> QED
        BY <2>2, <3>1, <3>2, <3>3
    <2>5. CASE FinishBlock
      <3>1. pc = "end" /\ pc' = "block" /\ origsize' = origsize + Size
        BY <2>5, FinishBlockIs
      <3> QED
        BY <2>1, <2>2, <3>1
    <2>6. CASE DictScan
      <3>1. pc = "dict" /\ pc' = "dict"
        BY <2>6 DEF DictScan
      <3>2. origsize' = origsize
        BY <2>6, SearchSteps DEF Search, Steady
      <3> QED
        BY <2>1, <2>2, <3>1, <3>2
    <2>7. CASE DictEnd
      <3>1. Steady
        BY <2>7, SearchSteps DEF Search
      <3>2. origsize' = origsize /\ Size' = Size
        BY <3>1, SteadySizes DEF Steady
      <3>3. pc = "dict" /\ pc' \in {"first", "end"}
        BY <2>7, DictEndIs DEF Found, StartedWith
      <3>4. a < origsize /\ a < origsize + Size
        BY <1>0, <2>0, <2>1, <3>3
      <3> QED
        BY <2>2, <3>2, <3>3, <3>4
    <2>8. CASE FirstChunk
      <3>1. pc = "first" /\ pc' \in {"scan", "failed"} /\ i' = 0
        BY <2>8, FirstChunkIs DEF Found
      <3>2. origsize' = origsize
        BY <2>8, SearchSteps DEF Search, Steady
      <3>3. a <= origsize + 0
        BY <1>0, <2>0, <2>1, <3>1
      <3> QED
        BY <2>2, <3>1, <3>2, <3>3
    <2>9. CASE Scan
      <3> DEFINE x == i'
      <3>1. pc = "scan" /\ pc' \in {"scan", "failed"} /\ i < x /\ x \in Nat
        BY <2>9, ScanIs
      <3>2. origsize' = origsize
        BY <2>9, SearchSteps DEF Search, Steady
      <3> HIDE DEF x
      <3>3. a <= origsize + x
        BY <1>0, <2>0, <2>1, <3>1
      <3> QED
        BY <2>2, <3>1, <3>2, <3>3 DEF x
    <2>10. CASE ScanEnd
      <3>1. pc = "scan" /\ pc' = "end"
        BY <2>10, ScanEndIs
      <3>2. i + L <= Size
        BY <3>1, ThreadsAre DEF InSearch
      <3>3. Steady
        BY <2>10, SearchSteps DEF Search
      <3>4. origsize' = origsize /\ Size' = Size
        BY <3>3, SteadySizes DEF Steady
      <3>5. a < origsize + Size
        BY <1>0, <2>0, <2>1, <3>1, <3>2
      <3> QED
        BY <2>2, <3>1, <3>4, <3>5
    <2> QED
      BY <1>2, <2>3, <2>4, <2>5, <2>6, <2>7, <2>8, <2>9, <2>10, Cases
  <1> QED
    BY <1>3, <1>4

\* A chunk of a block with whole chunks has been digested before it is stored.
LEMMA ChunksNamedKept ==
    ASSUME IInv, [Next]_vars
    PROVE  ChunksNamed'
  <1> USE DEF IInv, Tables
  <1>0. /\ JobGiven /\ Positions /\ L \in Nat \ {0} /\ Size \in Nat /\ origsize \in Nat /\ N \in Nat
        /\ opts' = opts /\ L' = L /\ B' = B /\ read \in Nat /\ B \in Nat \ {0} /\ input' = input
    BY ThreadsAre, JobKept DEF Positions
  <1>1. Aligned' = Aligned
    BY <1>0 DEF Aligned
  <1> SUFFICES ASSUME opts.method = "digest", Aligned, NEW k \in DOMAIN table'
               PROVE  table'[k] \in DOMAIN digests' /\ digests'[table'[k]] = k
    BY <1>0, <1>1 DEF ChunksNamed
  <1>2. ASSUME NEW c \in DOMAIN digests PROVE c \in DOMAIN digests' /\ digests'[c] = digests[c]
    <2>1. DigestsRight'
      BY <1>0, DigestsKept
    <2>2. /\ c \in Nat /\ (c + 1) * L <= read
          /\ digests[c] = SubSeq(input, c * L + 1, (c + 1) * L)
      BY DEF DigestsRight
    <2> DEFINE r == read'
               e == (c + 1) * L
    <2>3. read <= r /\ r \in Nat
      <3>1. CASE ReadBlock
        <4>1. read' = read + Min({B, N - read}) /\ Min({B, N - read}) \in 1 .. B
          BY <1>0, <3>1, ReadIs
        <4> QED
          BY <1>0, <4>1
      <3>2. CASE ~ ReadBlock
        <4>1. read' = read
          BY <3>2, Steps, SearchSteps DEF StartBlock, FinishBlock, vars, bgVars
        <4> QED
          BY <1>0, <4>1
      <3> QED
        BY <3>1, <3>2
    <2>4. e \in Nat /\ e <= read
      BY <1>0, <2>2
    <2>5. e <= r
      <3> HIDE DEF e, r
      <3> QED
        BY <1>0, <2>3, <2>4
    <2>6. /\ \A d \in Nat : (d + 1) * L <= r => d \in DOMAIN digests'
          /\ \A d \in DOMAIN digests' : digests'[d] = SubSeq(input, d * L + 1, (d + 1) * L)
      BY <1>0, <1>1, <2>1 DEF DigestsRight
    <2> QED
      BY <2>2, <2>5, <2>6
  <1>3. ~ CutChunk
    BY CutChunkIs DEF Found
  <1>4. \A h \in DOMAIN table : table[h] \in DOMAIN digests /\ digests[table[h]] = h
    BY DEF ChunksNamed
  <1>5. CASE table' = table
    BY <1>2, <1>4, <1>5
  <1>6. CASE table' # table
    <2> DEFINE x == i'
               c == (origsize + x) \div L
    <2>1. /\ Steady /\ UNCHANGED bgVars /\ Compressing
          /\ x \in Nat /\ x + L <= Size /\ x % L = 0
          /\ c \in 1 .. N
          /\ \E key : table' = Stored(table, key, c) /\ key = digests[c]
      BY <1>3, <1>6, TableChanges
    <2>2. PICK key : table' = Stored(table, key, c) /\ key = digests[c]
      BY <2>1
    <2> HIDE DEF x
    <2>3. c \in DOMAIN digests
      <3>1. origsize % L = 0
        <4>1. origsize % B = 0 /\ B % L = 0
          BY <1>0, <2>1 DEF Positions, Aligned
        <4> QED
          BY <1>0, <4>1, MultipleOfMultiple
      <3> DEFINE a == origsize + x
      <3>2. a \in Nat /\ a % L = 0
        <4>1. (origsize + x) % L = 0
          BY <1>0, <2>1, <3>1, SumOfMultiples
        <4> QED
          BY <1>0, <2>1, <4>1
      <3>3. a + L <= read
        <4>1. origsize + Size <= read
          BY <1>0, <2>1 DEF Positions
        <4> QED
          BY <1>0, <2>1, <4>1
      <3>4. c = a \div L
        OBVIOUS
      <3> HIDE DEF a, c
      <3>5. c \in Nat /\ a = L * c
        <4>1. a \div L \in Nat /\ a = L * (a \div L) + (a % L)
          BY <1>0, <3>2, DivMod
        <4> QED
          BY <1>0, <3>2, <3>4, <4>1
      <3>6. (c + 1) * L = a + L
        BY <1>0, <3>5
      <3>7. (c + 1) * L <= read
        BY <3>3, <3>6
      <3> QED
        BY <3>5, <3>7 DEF DigestsRight
    <2> HIDE DEF c
    <2>4. (k = key /\ table'[k] = c) \/ (k \in DOMAIN table /\ table'[k] = table[k])
      BY <2>2, StoredIs
    <2> QED
      BY <1>2, <1>4, <2>2, <2>3, <2>4
  <1> QED
    BY <1>5, <1>6

LEMMA ContentsNamedKept ==
    ASSUME IInv, [Next]_vars
    PROVE  ContentsNamed'
  <1> USE DEF IInv, Tables
  <1>0. /\ JobGiven /\ Positions /\ Size \in Nat /\ origsize \in Nat /\ N \in Nat /\ i \in Nat
        /\ opts' = opts /\ input' = input
    BY ThreadsAre, JobKept
  <1> SUFFICES ASSUME opts.method = "cdc", NEW k \in DOMAIN table'
               PROVE  /\ table'[k] \in 1 .. Len(startarr') /\ k \in Seq(Byte)
                      /\ startarr'[table'[k]] + Len(k) <= CdcPosition'
                      /\ \A n \in 1 .. Len(k) : k[n] = input[startarr'[table'[k]] + n]
    BY <1>0 DEF ContentsNamed, Contents
  <1>1. \A h \in DOMAIN table :
           /\ table[h] \in 1 .. Len(startarr) /\ h \in Seq(Byte)
           /\ startarr[table[h]] + Len(h) <= CdcPosition
           /\ \A n \in 1 .. Len(h) : h[n] = input[startarr[table[h]] + n]
    BY DEF ContentsNamed, Contents
  <1>2. startarr \in Seq(Nat)
    BY DEF TablesInFile
  <1>3. ASSUME table' = table, startarr' = startarr, CdcPosition' = CdcPosition
        PROVE  /\ table'[k] \in 1 .. Len(startarr') /\ k \in Seq(Byte)
               /\ startarr'[table'[k]] + Len(k) <= CdcPosition'
               /\ \A n \in 1 .. Len(k) : k[n] = input[startarr'[table'[k]] + n]
    BY <1>1, <1>3
  <1>4. CASE CutChunk
    <2>0. pc = "cdc"
      BY <1>4, CutChunkIs DEF Found
    <2>1. PICK next \in i + 1 .. Size :
             /\ i' = next /\ pc' = IF next = Size THEN "end" ELSE "cdc"
             /\ \/ startarr' = startarr /\ table' = table
                \/ /\ Len(startarr) + 1 < TotalChunks
                   /\ startarr' = Append(startarr, origsize + i)
                   /\ table' = Stored(table, Bytes(i, next - i), Len(startarr) + 1)
      BY <1>4, CutChunkIs DEF Found
    <2>2. next \in Nat /\ i < next /\ next <= Size
      BY <1>0, <2>1
    <2>3. CdcPosition = origsize + i /\ CdcPosition' = origsize + next
      <3>1. Steady
        BY <1>4, SearchSteps DEF Search
      <3>2. Size' = Size /\ origsize' = origsize
        BY <3>1, SteadySizes DEF Steady
      <3> QED
        BY <2>0, <2>1, <3>2 DEF CdcPosition
    <2>4. CASE startarr' = startarr /\ table' = table
      <3>1. /\ table[k] \in 1 .. Len(startarr) /\ k \in Seq(Byte)
            /\ startarr[table[k]] + Len(k) <= origsize + i
            /\ \A n \in 1 .. Len(k) : k[n] = input[startarr[table[k]] + n]
        BY <1>1, <2>3, <2>4
      <3>2. startarr[table[k]] + Len(k) <= origsize + next
        <4> DEFINE s == startarr[table[k]]
        <4>0. table[k] \in 1 .. Len(startarr) /\ k \in Seq(Byte) /\ s + Len(k) <= origsize + i
          BY <3>1
        <4>1. s \in Nat
          <5> DEFINE c == table[k]
          <5>1. c \in 1 .. Len(startarr)
            BY <4>0
          <5> HIDE DEF c
          <5>2. startarr[c] \in Nat
            BY ONLY <1>2, <5>1
          <5> QED
            BY <5>2 DEF c
        <4>1a. Len(k) \in Nat /\ s + Len(k) <= origsize + i
          BY <4>0
        <4> HIDE DEF s
        <4>2. s + Len(k) <= origsize + next
          BY <1>0, <2>2, <4>1, <4>1a
        <4> QED
          BY <4>2 DEF s
      <3> QED
        BY <2>3, <2>4, <3>1, <3>2
    <2>5. CASE /\ startarr' = Append(startarr, origsize + i)
               /\ table' = Stored(table, Bytes(i, next - i), Len(startarr) + 1)
      <3> DEFINE len == next - i
                 key == Bytes(i, len)
                 c == Len(startarr) + 1
                 arr == Append(startarr, origsize + i)
      <3>1. /\ key \in Seq(Byte) /\ Len(key) = len /\ len \in Nat
            /\ \A n \in 1 .. len : key[n] = input[origsize + i + n]
        <4>1. len \in Nat /\ i + len <= Size
          BY <1>0, <2>2
        <4> HIDE DEF len
        <4> QED
          BY <1>0, <2>0, <4>1, BytesAre DEF Compressing
      <3>2. /\ Len(arr) = c /\ c \in Nat /\ arr[c] = origsize + i
            /\ \A n \in 1 .. Len(startarr) : arr[n] = startarr[n] /\ n \in 1 .. c
            /\ c \in 1 .. c
        BY <1>0, <1>2
      <3>3. origsize + i + len = origsize + next
        BY <1>0, <2>2
      <3>4. startarr' = arr /\ table' = Stored(table, key, c)
        BY <2>5
      <3> HIDE DEF key, c, arr, len
      <3>5. CASE k = key /\ table'[k] = c
        BY <2>3, <3>1, <3>2, <3>3, <3>4, <3>5
      <3>6. CASE k \in DOMAIN table /\ table'[k] = table[k]
        <4>1. /\ table[k] \in 1 .. Len(startarr) /\ k \in Seq(Byte)
              /\ startarr[table[k]] + Len(k) <= origsize + i
              /\ \A n \in 1 .. Len(k) : k[n] = input[startarr[table[k]] + n]
          BY <1>1, <2>3, <3>6
        <4>2. arr[table[k]] = startarr[table[k]] /\ table[k] \in 1 .. c
          BY <3>2, <4>1
        <4>3. startarr[table[k]] + Len(k) <= origsize + next
          <5> DEFINE s == startarr[table[k]]
          <5>1. s \in Nat /\ Len(k) \in Nat /\ s + Len(k) <= origsize + i
            BY <1>2, <4>1
          <5> HIDE DEF s
          <5>2. s + Len(k) <= origsize + next
            BY <1>0, <2>2, <5>1
          <5> QED
            BY <5>2 DEF s
        <4> QED
          BY <2>3, <3>2, <3>4, <3>6, <4>1, <4>2, <4>3
      <3> QED
        BY <3>4, <3>5, <3>6, StoredIs
    <2> QED
      BY <2>1, <2>4, <2>5
  <1>5. ~ DictScan /\ ~ DictEnd /\ ~ FirstChunk /\ ~ Scan /\ ~ ScanEnd
    BY ThreadsAre DEF InSearch, DictScan, DictEnd, FirstChunk, Scan, ScanEnd
  <1>6. CASE Idle
    <2>1. Size' = Size /\ origsize' = origsize /\ pc' = pc /\ i' = i /\ table' = table /\ startarr' = startarr
      BY <1>6, IdleSizes DEF Idle
    <2>2. CdcPosition' = CdcPosition
      BY <2>1 DEF CdcPosition
    <2> QED
      BY <1>3, <2>1, <2>2
  <1>7. CASE StartBlock
    <2>1. /\ pc = "block" /\ origsize' = origsize /\ table' = table /\ startarr' = startarr
          /\ pc' = "done" \/ pc' = "dict" \/ (pc' = "cdc" /\ i' = 0)
      BY <1>7, StartBlockIs DEF Steady, StartedWith, tables
    <2>2. CdcPosition = origsize /\ CdcPosition' = origsize
      BY <1>0, <2>1 DEF CdcPosition
    <2> QED
      BY <1>3, <2>1, <2>2
  <1>8. CASE FinishBlock
    <2>1. /\ pc = "end" /\ pc' = "block" /\ origsize' = origsize + Size
          /\ table' = table /\ startarr' = startarr
      BY <1>8, FinishBlockIs
    <2>2. CdcPosition = origsize + Size /\ CdcPosition' = origsize + Size
      BY <1>0, <2>1 DEF CdcPosition
    <2> QED
      BY <1>3, <2>1, <2>2
  <1> QED
    BY <1>4, <1>5, <1>6, <1>7, <1>8, Cases

\* What is a match in a file stays one, as the file and the settings stay.
LEMMA BlkOKKept ==
    ASSUME Steady, BlkOK(blk')
    PROVE  BlkOK(blk)'
  <1>1. /\ opts' = opts /\ input' = input /\ origsize' = origsize /\ Size' = Size
        /\ BaseLen' = BaseLen /\ B' = B /\ L' = L
    BY SteadySizes DEF Steady
  <1> QED
    BY <1>1 DEF BlkOK, InOrder, IsMatch, Repeated, Aligned, Match

LEMMA InsOKKept ==
    ASSUME Steady, InsOK(ins')
    PROVE  InsOK(ins)'
  <1>1. /\ opts' = opts /\ input' = input /\ origsize' = origsize /\ Size' = Size
        /\ BaseLen' = BaseLen /\ B' = B /\ L' = L /\ Round' = Round
    BY SteadySizes DEF Steady
  <1> QED
    BY <1>1 DEF InsOK, IsMatch, Repeated, Aligned, Match

LEMMA ContinuedKeeps ==
    ASSUME JobGiven, Positions, NEW s, NEW t, BlkOK(s), Continued(s, t)
    PROVE  BlkOK(t)
  BY EmittedKeeps DEF Continued

LEMMA BlkMatchesKept ==
    ASSUME IInv, [Next]_vars
    PROVE  BlkMatches'
  <1> USE DEF IInv, Found
  <1>0. /\ JobGiven /\ Positions /\ Size \in Nat /\ i \in Nat
        /\ opts.method \in {"rep", "cdc", "digest", "reread"}
    BY ThreadsAre, SettingIs
  <1>1. ASSUME Steady, BlkOK(blk'), pc' = "first" => blk'.last_match_end = 0,
               pc' = "cdc" => blk'.last_match_end <= i' /\ DOMAIN blk' = Fields
        PROVE  BlkMatches'
    BY <1>1, BlkOKKept DEF BlkMatches
  <1>2. ASSUME Steady, StartedWith(ins') PROVE BlkMatches'
    <2>1. Fresh(blk') /\ i' = 0
      BY <1>2 DEF StartedWith
    <2>2. BlkOK(blk')
      BY <1>0, <2>1, FreshIs
    <2>3. blk'.last_match_end <= i' /\ blk'.last_match_end = 0 /\ DOMAIN blk' = Fields
      BY <2>1 DEF Fresh
    <2> QED
      BY <1>1, <1>2, <2>2, <2>3
  <1>3. ASSUME Compressing PROVE BlkOK(blk)
    BY <1>3 DEF BlkMatches
  <1>4. CASE Idle
    <2>1. Steady /\ blk' = blk /\ pc' = pc /\ i' = i
      BY <1>4 DEF Idle, Steady
    <2>2. CASE Compressing
      BY <1>1, <1>3, <2>1, <2>2 DEF BlkMatches
    <2>3. CASE ~ Compressing
      BY <2>1, <2>3 DEF BlkMatches, Compressing
    <2> QED
      BY <2>2, <2>3
  <1>5. CASE StartBlock
    <2>1. Steady
      BY <1>5, StartBlockIs
    <2>2. CASE pc' = "done"
      BY <2>2 DEF BlkMatches, Compressing
    <2>3. CASE pc' = "dict" /\ Fresh(blk')
      <3>1. BlkOK(blk')
        BY <1>0, <2>3, FreshIs
      <3> QED
        BY <1>1, <2>1, <2>3, <3>1
    <2>4. CASE StartedWith(ins')
      BY <1>2, <2>1, <2>4
    <2> QED
      BY <1>5, <2>2, <2>3, <2>4, StartBlockIs
  <1>6. CASE FinishBlock
    <2>1. pc' = "block"
      BY <1>6, FinishBlockIs
    <2> QED
      BY <2>1 DEF BlkMatches, Compressing
  <1>7. CASE DictScan
    <2>1. Steady /\ Compressing
      BY <1>7, SearchSteps DEF Search
    <2>2. pc' = "dict" /\ Continued(blk, blk')
      BY <1>7, DictScanIs DEF Tables
    <2>3. BlkOK(blk')
      BY <1>0, <1>3, <2>1, <2>2, ContinuedKeeps
    <2> QED
      BY <1>1, <2>1, <2>2, <2>3
  <1>8. CASE DictEnd
    <2>1. Steady /\ Compressing
      BY <1>8, SearchSteps DEF Search
    <2>2. CASE pc' = "end" /\ blk' = blk
      BY <1>1, <1>3, <2>1, <2>2
    <2>3. CASE StartedWith(ins')
      BY <1>2, <2>1, <2>3
    <2> QED
      BY <1>8, <2>2, <2>3, DictEndIs
  <1>9. CASE FirstChunk
    <2>1. Steady /\ Compressing
      BY <1>9, SearchSteps DEF Search
    <2>2. pc' \in {"scan", "failed"} /\ Continued(blk, blk')
      BY <1>9, FirstChunkIs
    <2>3. BlkOK(blk')
      BY <1>0, <1>3, <2>1, <2>2, ContinuedKeeps
    <2> QED
      BY <1>1, <2>1, <2>2, <2>3
  <1>10. CASE Scan
    <2>1. Steady
      BY <1>10, SearchSteps DEF Search
    <2>2. pc' \in {"scan", "failed"}
      BY <1>10, ScanIs
    <2>3. PICK s : BlkOK(s) /\ Continued(s, blk')
      BY <1>10, ScanIs
    <2>4. BlkOK(blk')
      BY <1>0, <2>3, ContinuedKeeps
    <2> QED
      BY <1>1, <2>1, <2>2, <2>4
  <1>11. CASE ScanEnd
    <2>1. Steady /\ Compressing
      BY <1>11, SearchSteps DEF Search
    <2>2. pc' = "end" /\ blk' = blk
      BY <1>11, ScanEndIs
    <2> QED
      BY <1>1, <1>3, <2>1, <2>2
  <1>12. CASE CutChunk
    <2>1. Steady /\ Compressing
      BY <1>12, SearchSteps DEF Search
    <2>2. pc = "cdc" /\ BlkOK(blk) /\ blk.last_match_end <= i
      BY <1>12, <2>1, CutChunkIs DEF BlkMatches
    <2>3. PICK next \in i + 1 .. Size :
             /\ i' = next /\ pc' = IF next = Size THEN "end" ELSE "cdc"
             /\ DOMAIN blk' = Fields
             /\ \/ blk'.last_match_end = blk.last_match_end /\ blk'.found = blk.found
                \/ Emitted(blk, blk') /\ blk'.last_match_end = next
      BY <1>12, CutChunkIs
    <2>4. BlkOK(blk')
      <3>1. CASE blk'.last_match_end = blk.last_match_end /\ blk'.found = blk.found
        BY <2>2, <3>1 DEF BlkOK
      <3>2. CASE Emitted(blk, blk')
        BY <1>0, <2>2, <3>2, EmittedKeeps
      <3> QED
        BY <2>3, <3>1, <3>2
    <2>5. blk'.last_match_end <= i'
      <3>1. CASE blk'.last_match_end = blk.last_match_end
        <4> DEFINE e == blk.last_match_end
        <4>1. e \in 0 .. Size /\ e <= i
          BY <2>2 DEF BlkOK
        <4> HIDE DEF e
        <4>2. e <= next
          BY <1>0, <2>3, <4>1
        <4> QED
          BY <2>3, <3>1, <4>2 DEF e
      <3>2. CASE blk'.last_match_end = next
        BY <1>0, <2>3, <3>2
      <3> QED
        BY <2>3, <3>1, <3>2
    <2>6. pc' # "first"
      BY <2>3
    <2> QED
      BY <1>1, <2>1, <2>3, <2>4, <2>5, <2>6
  <1> QED
    BY <1>4, <1>5, <1>6, <1>7, <1>8, <1>9, <1>10, <1>11, <1>12, Cases

LEMMA InsMatchesKept ==
    ASSUME IInv, [Next]_vars
    PROVE  InsMatches'
  <1> USE DEF IInv, Found
  <1>1. ASSUME Steady, InsOK(ins') PROVE InsMatches'
    BY <1>1, InsOKKept DEF InsMatches
  <1>2. ASSUME pc' \notin {"first", "scan"} PROVE InsMatches'
    BY <1>2 DEF InsMatches
  <1>3. CASE Idle
    <2>1. Steady /\ pc' = pc /\ ins' = ins
      BY <1>3 DEF Idle, Steady
    <2> QED
      BY <1>1, <1>2, <2>1 DEF InsMatches
  <1>4. CASE StartBlock
    <2>1. Steady /\ (pc' \in {"done", "dict"} \/ InsOK(ins'))
      BY <1>4, StartBlockIs
    <2> QED
      BY <1>1, <1>2, <2>1
  <1>5. CASE FinishBlock
    BY <1>2, <1>5, FinishBlockIs
  <1>6. CASE DictScan
    BY <1>2, <1>6 DEF DictScan
  <1>7. CASE DictEnd
    <2>1. Steady
      BY <1>7, SearchSteps DEF Search
    <2> QED
      BY <1>1, <1>2, <1>7, <2>1, DictEndIs
  <1>8. CASE FirstChunk
    <2>1. Steady
      BY <1>8, SearchSteps DEF Search
    <2>2. pc = "first" /\ ins' = ins
      BY <1>8, FirstChunkIs
    <2> QED
      BY <1>1, <2>1, <2>2 DEF InsMatches
  <1>9. CASE Scan
    <2>1. Steady
      BY <1>9, SearchSteps DEF Search
    <2> QED
      BY <1>1, <1>9, <2>1, ScanIs
  <1>10. CASE ScanEnd
    BY <1>2, <1>10, ScanEndIs
  <1>11. CASE CutChunk
    <2>1. pc' \in {"end", "cdc"}
      BY <1>11, CutChunkIs
    <2> QED
      BY <1>2, <2>1
  <1> QED
    BY <1>3, <1>4, <1>5, <1>6, <1>7, <1>8, <1>9, <1>10, <1>11, Cases

LEMMA SequenceIs ==
    ASSUME NEW s, Sequence(s)
    PROVE  Len(s) \in Nat /\ DOMAIN s = 1 .. Len(s)
  BY DEF Sequence

LEMMA SequenceAppend ==
    ASSUME NEW s, Sequence(s), NEW e
    PROVE  /\ Sequence(Append(s, e)) /\ Len(Append(s, e)) = Len(s) + 1
           /\ DOMAIN Append(s, e) = 1 .. Len(s) + 1 /\ Append(s, e)[Len(s) + 1] = e
           /\ \A k \in 1 .. Len(s) : Append(s, e)[k] = s[k]
  <1> DEFINE R == {s[k] : k \in DOMAIN s}
             T == R \cup {e}
             a == Append(s, e)
             n == Len(s)
  <1>1. s \in Seq(R)
    BY DEF Sequence
  <1> HIDE DEF R
  <1>2. s \in Seq(T) /\ e \in T
    BY <1>1
  <1> HIDE DEF T
  <1>3. a \in Seq(T) /\ Len(a) = n + 1 /\ n \in Nat
    BY <1>2
  <1>4. DOMAIN a = 1 .. n + 1 /\ a[n + 1] = e /\ \A k \in 1 .. n : a[k] = s[k]
    BY <1>2
  <1> HIDE DEF a
  <1>5. Sequence(a)
    BY <1>3 DEF Sequence
  <1> QED
    BY <1>3, <1>4, <1>5 DEF a, n

LEMMA EmptySequence == Sequence(<<>>)
  BY DEF Sequence

LEMMA BlocksMatchesKept ==
    ASSUME IInv, [Next]_vars
    PROVE  BlocksMatches'
  <1> USE DEF IInv
  <1>0. /\ JobGiven /\ Positions /\ Size \in Nat /\ origsize \in Nat
        /\ opts' = opts /\ input' = input /\ B' = B /\ L' = L
    BY ThreadsAre, JobKept
  <1>1. BaseLen' = BaseLen
    BY <1>0 DEF BaseLen
  <1>2. Sequence(blocks)
    BY DEF BlocksMatches
  <1>3. \A k \in DOMAIN blocks : BlockOK(blocks[k])
    BY DEF BlocksMatches
  <1>4. \A k1, k2 \in DOMAIN blocks :
           k1 < k2 => blocks[k1].start + blocks[k1].size <= blocks[k2].start
    BY DEF BlocksMatches
  <1>5. ASSUME NEW k \in DOMAIN blocks',
               /\ blocks'[k].start \in Nat /\ blocks'[k].size \in Nat
               /\ blocks'[k].start + blocks'[k].size <= origsize'
               /\ InOrder(blocks'[k].found, blocks'[k].start, blocks'[k].start + blocks'[k].size)
        PROVE  BlockOK(blocks[k])'
    BY <1>0, <1>1, <1>5 DEF BlockOK, InOrder, IsMatch, Repeated, Aligned, Match
  <1>6. CASE ~ FinishBlock
    <2>1. blocks' = blocks /\ origsize' = origsize
      BY <1>6, Cases, SearchSteps DEF Search, Idle, StartBlock, Steady
    <2>2. \A k \in DOMAIN blocks' : BlockOK(blocks[k])'
      BY <1>3, <1>5, <2>1 DEF BlockOK
    <2> QED
      BY <1>2, <1>4, <2>1, <2>2 DEF BlocksMatches, Sequence
  <1>7. CASE FinishBlock
    <2> DEFINE b == [start |-> origsize, size |-> Size, literals |-> blk.literals,
                     stat |-> blk.stat, found |-> blk.found]
               n == Len(blocks)
               bs == Append(blocks, b)
    <2>1. /\ pc = "end" /\ origsize' = origsize + Size /\ blocks' = bs
      BY <1>7, FinishBlockIs
    <2>2. origsize' \in Nat /\ origsize <= origsize'
      BY <1>0, <2>1
    <2>3. BlkOK(blk)
      BY <2>1 DEF Found, BlkMatches, Compressing
    <2>4. b.start = origsize /\ b.size = Size /\ b.found = blk.found
      OBVIOUS
    <2> HIDE DEF b
    <2>5. /\ Sequence(bs) /\ n \in Nat /\ DOMAIN bs = 1 .. n + 1 /\ DOMAIN blocks = 1 .. n
          /\ bs[n + 1] = b /\ \A k \in 1 .. n : bs[k] = blocks[k]
      BY <1>2, SequenceIs, SequenceAppend
    <2> HIDE DEF bs, n
    <2>6. InOrder(b.found, origsize, origsize + Size)
      <3> DEFINE e == blk.last_match_end
                 f == b.found
      <3>1. e \in 0 .. Size /\ InOrder(f, origsize, origsize + e)
        BY <2>3, <2>4 DEF BlkOK
      <3> HIDE DEF e, f
      <3>2. /\ f \in Seq(Match)
            /\ \A k \in DOMAIN f : IsMatch(f[k], origsize, origsize + e)
            /\ \A n1, n2 \in DOMAIN f : n1 < n2 => f[n1].dest + f[n1].len <= f[n2].dest
        BY <3>1 DEF InOrder
      <3>3. ASSUME NEW k \in DOMAIN f PROVE IsMatch(f[k], origsize, origsize + Size)
        <4> DEFINE m == f[k]
                   z == m.dest + m.len
        <4>1. m \in Match /\ IsMatch(m, origsize, origsize + e)
          BY <3>2
        <4> HIDE DEF m
        <4>2. z \in Nat /\ z <= origsize + e
          BY <4>1 DEF IsMatch, Match
        <4> HIDE DEF z
        <4>3. z <= origsize + Size
          BY <1>0, <3>1, <4>2
        <4>4. IsMatch(m, origsize, origsize + Size)
          BY <4>1, <4>3 DEF IsMatch, z
        <4> QED
          BY <4>4 DEF m
      <3>4. InOrder(f, origsize, origsize + Size)
        BY <3>2, <3>3 DEF InOrder
      <3> QED
        BY <3>4 DEF f
    <2>7. ASSUME NEW k \in DOMAIN bs
          PROVE  /\ bs[k].start \in Nat /\ bs[k].size \in Nat
                 /\ bs[k].start + bs[k].size <= origsize'
                 /\ InOrder(bs[k].found, bs[k].start, bs[k].start + bs[k].size)
      <3>1. CASE k = n + 1
        <4>1. bs[k] = b /\ b.start + b.size <= origsize'
          BY <1>0, <2>1, <2>4, <2>5, <3>1
        <4> QED
          BY <1>0, <2>4, <2>6, <4>1
      <3>2. CASE k # n + 1
        <4> DEFINE c == blocks[k]
                   e == c.start + c.size
        <4>1. k \in DOMAIN blocks /\ bs[k] = c
          BY <2>5, <2>7, <3>2
        <4>2. BlockOK(c)
          BY <1>3, <4>1
        <4> HIDE DEF c
        <4>3. /\ c.start \in Nat /\ c.size \in Nat /\ e <= origsize /\ e \in Nat
              /\ InOrder(c.found, c.start, e)
          BY <4>2 DEF BlockOK
        <4>4. e <= origsize + Size
          <5> HIDE DEF e
          <5> QED
            BY <1>0, <4>3
        <4> QED
          BY <2>1, <4>1, <4>3, <4>4
      <3> QED
        BY <3>1, <3>2
    <2>8. ASSUME NEW k1 \in DOMAIN bs, NEW k2 \in DOMAIN bs, k1 < k2
          PROVE  bs[k1].start + bs[k1].size <= bs[k2].start
      <3>1. k1 \in 1 .. n /\ bs[k1] = blocks[k1]
        BY <2>5, <2>8
      <3>2. CASE k2 = n + 1
        <4>1. blocks[k1].start + blocks[k1].size <= origsize
          BY <1>3, <2>5, <3>1 DEF BlockOK
        <4> QED
          BY <2>4, <2>5, <3>1, <3>2, <4>1
      <3>3. CASE k2 # n + 1
        <4>1. k2 \in 1 .. n /\ bs[k2] = blocks[k2]
          BY <2>5, <3>3
        <4> QED
          BY <1>4, <2>5, <2>8, <3>1, <4>1
      <3> QED
        BY <3>2, <3>3
    <2>9. \A k \in DOMAIN blocks' : BlockOK(blocks[k])'
      BY <1>5, <2>1, <2>7
    <2>10. Sequence(blocks)'
      BY <2>1, <2>5 DEF Sequence
    <2> QED
      BY <2>1, <2>8, <2>9, <2>10 DEF BlocksMatches
  <1> QED
    BY <1>6, <1>7

LEMMA InitIs ==
    ASSUME Init
    PROVE  IInv
  <1>1. PICK j \in Jobs : opts = j.opts /\ input = j.input
    BY DEF Init
  <1>2. JobGiven
    BY <1>1 DEF JobGiven
  <1>3. /\ read = 0 /\ digests = <<>> /\ pc = "block" /\ origsize = 0 /\ i = 0
        /\ dictTable = <<>> /\ table = <<>> /\ startarr = <<>> /\ blocks = <<>>
        /\ ring = [x \in 0 .. D - 1 |-> NoByte]
    BY DEF Init, D
  <1>4. N \in Nat /\ B \in Nat \ {0} /\ L \in Nat \ {0} /\ D \in Nat \ {0}
    BY <1>2, SettingIs, DictSizeIs
  <1>5. Positions
    BY <1>3, <1>4 DEF Positions, Compressing
  <1>6. InSearch
    BY <1>3, <1>4 DEF InSearch
  <1>7. RingHolds
    BY <1>3, <1>4 DEF RingHolds
  <1>8. DigestsRight
    <2>1. \A c \in Nat : ~ ((c + 1) * L <= read)
      <3> SUFFICES ASSUME NEW c \in Nat PROVE ~ ((c + 1) * L <= 0)
        BY <1>3
      <3>1. (c + 1) * L = c * L + L /\ c * L \in Nat
        BY <1>4
      <3> DEFINE cl == c * L
      <3>2. cl \in Nat /\ (c + 1) * L = cl + L
        BY <3>1
      <3> HIDE DEF cl
      <3> QED
        BY <1>4, <3>2
    <2>2. DOMAIN digests = {}
      BY <1>3
    <2> QED
      BY <2>1, <2>2 DEF DigestsRight
  <1>9. DOMAIN table = {} /\ DOMAIN dictTable = {}
    BY <1>3
  <1>10. DictEarlier /\ ChunksEarlier /\ ChunksNamed /\ ContentsNamed
    BY <1>9 DEF DictEarlier, ChunksEarlier, ChunksNamed, ContentsNamed
  <1>11. TablesInFile
    <2>1. Len(startarr) = 0 /\ startarr \in Seq(Nat)
      BY <1>3
    <2>2. CdcPosition = 0
      BY <1>3 DEF CdcPosition
    <2>3. TotalChunks > 0
      BY <1>2, TotalChunksPositive
    <2> QED
      BY <1>9, <2>1, <2>2, <2>3 DEF TablesInFile
  <1>12. Found
    BY <1>3 DEF Found, BlkMatches, InsMatches, Compressing
  <1>13. BlocksMatches
    <2>1. DOMAIN blocks = {}
      BY <1>3
    <2> QED
      BY <1>3, <2>1, EmptySequence DEF BlocksMatches
  <1> QED
    BY <1>2, <1>5, <1>6, <1>7, <1>8, <1>10, <1>11, <1>12, <1>13 DEF IInv, Threads, Tables

LEMMA IInvKept ==
    ASSUME IInv, [Next]_vars
    PROVE  IInv'
  <1>1. JobGiven /\ Positions /\ RingHolds /\ DigestsRight
    BY DEF IInv, Threads
  <1>2. Threads'
    BY <1>1, JobKept, PositionsKept, InSearchKept DEF Threads
  <1>3. RingHolds' /\ DigestsRight'
    BY <1>1, RingKept, DigestsKept
  <1>4. Tables'
    BY DictEarlierKept, TablesInFileKept, ChunksEarlierKept, ChunksNamedKept, ContentsNamedKept DEF Tables
  <1>5. Found'
    BY BlkMatchesKept, InsMatchesKept DEF Found
  <1> QED
    BY <1>2, <1>3, <1>4, <1>5, BlocksMatchesKept DEF IInv

\* The invariant, whatever the settings: the ring holds the bytes read, tables name earlier
\* places, and what has been found so far is matches in order.
THEOREM Inductive == Spec => []IInv
  BY InitIs, IInvKept, PTL DEF Spec

LEMMA TypeFollows ==
    ASSUME IInv
    PROVE  TypeOK
  <1>1. /\ Threads /\ RingHolds /\ DictEarlier /\ TablesInFile
    BY DEF IInv, Tables
  <1>2. /\ read \in origsize .. N /\ i \in 0 .. B
        /\ pc \in {"block", "dict", "first", "scan", "cdc", "end", "done", "failed"}
    BY <1>1 DEF Threads, Positions, InSearch
  <1> QED
    BY <1>1, <1>2 DEF RingHolds, DictEarlier, TablesInFile, TypeOK, N, B, D

\* Whatever the settings: each variable keeps its type; above all the ring is addressed
\* within its size, a table never holds the chunk or position 0 that means "nothing", and
\* startarr is not overrun (compress_cdc.cpp).
THEOREM TypeCorrect == Spec => []TypeOK
  BY Inductive, TypeFollows, PTL

-----------------------------------------------------------------------------
(* Every method states true matches: the search implements Parsing. *)

\* The blocks' matches lie one after the other.
MatchesOf(bs) == UNION {{bs[k].found[n] : n \in DOMAIN bs[k].found} : k \in DOMAIN bs}

Ordered(bs) ==
    /\ Sequence(bs)
    /\ \A k \in DOMAIN bs :
          /\ bs[k].start \in Nat /\ bs[k].size \in Nat /\ bs[k].found \in Seq(Match)
          /\ \A n \in DOMAIN bs[k].found :
                /\ bs[k].start <= bs[k].found[n].dest
                /\ bs[k].found[n].dest + bs[k].found[n].len <= bs[k].start + bs[k].size
          /\ \A n1, n2 \in DOMAIN bs[k].found :
                n1 < n2 => bs[k].found[n1].dest + bs[k].found[n1].len <= bs[k].found[n2].dest
    /\ \A k1, k2 \in DOMAIN bs : k1 < k2 => bs[k1].start + bs[k1].size <= bs[k2].start

LEMMA OrderedApart ==
    ASSUME NEW bs, Ordered(bs), NEW m1 \in MatchesOf(bs), NEW m2 \in MatchesOf(bs), m1 # m2
    PROVE  P!Disjoint(m1, m2)
  <1>1. PICK k1 \in DOMAIN bs : \E n \in DOMAIN bs[k1].found : m1 = bs[k1].found[n]
    BY DEF MatchesOf
  <1>2. PICK n1 \in DOMAIN bs[k1].found : m1 = bs[k1].found[n1]
    BY <1>1
  <1>3. PICK k2 \in DOMAIN bs : \E n \in DOMAIN bs[k2].found : m2 = bs[k2].found[n]
    BY DEF MatchesOf
  <1>4. PICK n2 \in DOMAIN bs[k2].found : m2 = bs[k2].found[n2]
    BY <1>3
  <1>5. k1 \in Nat /\ k2 \in Nat
    BY SequenceIs DEF Ordered
  <1>6. ASSUME NEW k \in DOMAIN bs, NEW n \in DOMAIN bs[k].found, NEW m, m = bs[k].found[n]
        PROVE  /\ m \in Match /\ n \in Nat /\ m.dest \in Nat /\ m.len \in Nat
               /\ bs[k].start \in Nat /\ bs[k].size \in Nat
               /\ bs[k].start <= m.dest /\ m.dest + m.len <= bs[k].start + bs[k].size
    <2> DEFINE f == bs[k].found
    <2>1. f \in Seq(Match) /\ n \in DOMAIN f /\ m = f[n]
      BY <1>6 DEF Ordered
    <2>2. /\ bs[k].start \in Nat /\ bs[k].size \in Nat
          /\ bs[k].start <= m.dest /\ m.dest + m.len <= bs[k].start + bs[k].size
      BY <1>6 DEF Ordered
    <2> HIDE DEF f
    <2>3. m \in Match /\ n \in Nat
      BY <2>1
    <2>4. m.dest \in Nat /\ m.len \in Nat
      BY <2>3 DEF Match
    <2> QED
      BY <2>2, <2>3, <2>4
  <1>7. /\ n1 \in Nat /\ m1.dest \in Nat /\ m1.len \in Nat
        /\ bs[k1].start \in Nat /\ bs[k1].size \in Nat
        /\ bs[k1].start <= m1.dest /\ m1.dest + m1.len <= bs[k1].start + bs[k1].size
    BY <1>2, <1>6
  <1>8. /\ n2 \in Nat /\ m2.dest \in Nat /\ m2.len \in Nat
        /\ bs[k2].start \in Nat /\ bs[k2].size \in Nat
        /\ bs[k2].start <= m2.dest /\ m2.dest + m2.len <= bs[k2].start + bs[k2].size
    BY <1>4, <1>6
  <1>9. CASE k1 = k2
    <2>1. n1 # n2
      BY <1>2, <1>4, <1>9
    <2>2. n1 < n2 \/ n2 < n1
      BY <1>7, <1>8, <2>1
    <2>3. /\ n1 < n2 => m1.dest + m1.len <= m2.dest
          /\ n2 < n1 => m2.dest + m2.len <= m1.dest
      BY <1>2, <1>4, <1>9 DEF Ordered
    <2> QED
      BY <2>2, <2>3 DEF P!Disjoint
  <1>10. ASSUME k1 < k2 PROVE m1.dest + m1.len <= m2.dest
    <2>1. bs[k1].start + bs[k1].size <= bs[k2].start
      BY <1>10 DEF Ordered
    <2> DEFINE e1 == bs[k1].start + bs[k1].size
    <2>2. e1 \in Nat /\ m1.dest + m1.len <= e1 /\ e1 <= bs[k2].start
      BY <1>7, <2>1
    <2> HIDE DEF e1
    <2> QED
      BY <1>7, <1>8, <2>2
  <1>11. ASSUME k2 < k1 PROVE m2.dest + m2.len <= m1.dest
    <2>1. bs[k2].start + bs[k2].size <= bs[k1].start
      BY <1>11 DEF Ordered
    <2> DEFINE e2 == bs[k2].start + bs[k2].size
    <2>2. e2 \in Nat /\ m2.dest + m2.len <= e2 /\ e2 <= bs[k1].start
      BY <1>8, <2>1
    <2> HIDE DEF e2
    <2> QED
      BY <1>7, <1>8, <2>2
  <1> QED
    BY <1>5, <1>9, <1>10, <1>11 DEF P!Disjoint

LEMMA OrderedIs ==
    ASSUME BlocksMatches
    PROVE  Ordered(blocks)
  BY DEF BlocksMatches, BlockOK, InOrder, IsMatch, Ordered

\* With -m3 the blocks are made of whole chunks.
WholeChunks == \A j \in Jobs : j.opts.method = "digest" => j.opts.bufSize % j.opts.L = 0

LEMMA AlignedIs ==
    ASSUME WholeChunks, JobGiven
    PROVE  Aligned
  BY DEF WholeChunks, JobGiven, Aligned, B, L

LEMMA InitParses ==
    ASSUME Init
    PROVE  P!Init
  <1>1. JobGiven
    BY DEF Init, JobGiven
  <1>2. input \in Seq(Byte) /\ opts.bufSize \in Nat \ {0}
    BY <1>1, SettingIs
  <1>3. origsize = 0 /\ DOMAIN blocks = {}
    BY DEF Init
  <1> QED
    BY <1>2, <1>3 DEF P!Init

LEMMA StepParses ==
    ASSUME WholeChunks, IInv, IInv', [Next]_vars
    PROVE  [P!ParseBlock]_P!parsingVars
  <1>0. opts' = opts /\ input' = input
    BY JobKept DEF IInv, Threads
  <1>1. CASE ~ FinishBlock
    <2>1. blocks' = blocks /\ origsize' = origsize
      BY <1>1, Cases, SearchSteps DEF Search, Idle, StartBlock, Steady
    <2> QED
      BY <1>0, <2>1 DEF P!parsingVars
  <1>2. CASE FinishBlock
    <2> DEFINE b == [start |-> origsize, size |-> Size, literals |-> blk.literals,
                     stat |-> blk.stat, found |-> blk.found]
               n == Len(blocks)
               bs == Append(blocks, b)
               new == {blk.found[k] : k \in DOMAIN blk.found}
    <2>1. pc = "end" /\ origsize' = origsize + Size /\ blocks' = bs /\ origsize < N
      BY <1>2, FinishBlockIs DEF IInv
    <2>2. /\ JobGiven /\ Positions /\ Size \in Nat /\ origsize \in Nat /\ N \in Nat /\ B \in Nat \ {0}
          /\ N = Len(input) /\ B = opts.bufSize
          /\ Size = IF B <= N - origsize THEN B ELSE N - origsize
      BY ThreadsAre, SizeIs, SettingIs DEF IInv
    <2>3. b.found = blk.found
      OBVIOUS
    <2> HIDE DEF b
    <2>4. /\ n \in Nat /\ DOMAIN bs = 1 .. n + 1 /\ DOMAIN blocks = 1 .. n
          /\ bs[n + 1] = b /\ \A k \in 1 .. n : bs[k] = blocks[k]
      BY SequenceIs, SequenceAppend DEF IInv, BlocksMatches
    <2> HIDE DEF bs, n
    <2>5. MatchesOf(bs) = MatchesOf(blocks) \cup new
      <3>1. ASSUME NEW m \in MatchesOf(bs) PROVE m \in MatchesOf(blocks) \cup new
        <4>1. PICK k \in DOMAIN bs : \E h \in DOMAIN bs[k].found : m = bs[k].found[h]
          BY DEF MatchesOf
        <4>2. CASE k = n + 1
          BY <2>3, <2>4, <4>1, <4>2
        <4>3. CASE k # n + 1
          BY <2>4, <4>1, <4>3 DEF MatchesOf
        <4> QED
          BY <4>2, <4>3
      <3>2. ASSUME NEW m \in MatchesOf(blocks) PROVE m \in MatchesOf(bs)
        <4>1. PICK k \in DOMAIN blocks : \E h \in DOMAIN blocks[k].found : m = blocks[k].found[h]
          BY DEF MatchesOf
        <4>2. k \in DOMAIN bs /\ bs[k] = blocks[k]
          BY <2>4, <4>1
        <4> QED
          BY <4>1, <4>2 DEF MatchesOf
      <3>3. ASSUME NEW m \in new PROVE m \in MatchesOf(bs)
        <4>1. n + 1 \in DOMAIN bs /\ bs[n + 1].found = blk.found
          BY <2>3, <2>4
        <4> QED
          BY <4>1 DEF MatchesOf
      <3> HIDE DEF new
      <3> QED
        BY <3>1, <3>2, <3>3
    <2>6. BlkOK(blk)
      BY <2>1 DEF IInv, Found, BlkMatches, Compressing
    <2>7. Aligned
      BY <2>2, AlignedIs
    <2>8. ASSUME NEW m \in new
          PROVE  /\ m.len > 0 /\ m.src \in 0 .. m.dest - 1
                 /\ origsize <= m.dest /\ m.dest + m.len <= origsize + Size
                 /\ P!Repeats(m)
      <3> DEFINE e == blk.last_match_end
                 f == blk.found
      <3>1. e \in 0 .. Size /\ f \in Seq(Match) /\ \A k \in DOMAIN f : IsMatch(f[k], origsize, origsize + e)
        BY <2>6 DEF BlkOK, InOrder
      <3>2. \E k \in DOMAIN f : m = f[k]
        OBVIOUS
      <3> HIDE DEF e, f
      <3>3. m \in Match /\ IsMatch(m, origsize, origsize + e)
        BY <3>1, <3>2
      <3> DEFINE z == m.dest + m.len
      <3>4. m.len > 0 /\ m.src < m.dest /\ origsize <= m.dest /\ z <= origsize + e /\ z \in Nat
            /\ m.src \in Nat /\ m.dest \in Nat
        BY <3>3 DEF IsMatch, Match
      <3>5. P!Repeats(m)
        BY <2>7, <3>3 DEF IsMatch, Repeated, P!Repeats
      <3> HIDE DEF z
      <3>6. z <= origsize + Size
        <4> DEFINE bytes == Size
        <4>1. bytes \in Nat /\ origsize \in Nat /\ e \in 0 .. bytes /\ z \in Nat /\ z <= origsize + e
          BY <2>2, <3>1, <3>4
        <4> HIDE DEF bytes
        <4>2. z <= origsize + bytes
          BY ONLY <4>1
        <4> QED
          BY <4>2 DEF bytes
      <3>7. m.src \in 0 .. m.dest - 1
        BY <3>4
      <3> QED
        BY <3>4, <3>5, <3>6, <3>7 DEF z
    <2>9. \A m1, m2 \in MatchesOf(bs) : m1 # m2 => P!Disjoint(m1, m2)
      <3>1. Ordered(bs)
        <4>1. BlocksMatches' => Ordered(blocks')
          BY DEF BlocksMatches, BlockOK, InOrder, IsMatch, Ordered, Sequence, Match
        <4> QED
          BY <2>1, <4>1 DEF IInv
      <3> QED
        BY <3>1, OrderedApart
    <2>10. origsize < Len(input)
           /\ origsize' = IF origsize + opts.bufSize < Len(input) THEN origsize + opts.bufSize ELSE Len(input)
      <3>1. origsize + Size = IF origsize + B < N THEN origsize + B ELSE N
        BY <2>1, <2>2
      <3> QED
        BY <2>1, <2>2, <3>1
    <2>11. /\ MatchesOf(blocks) \subseteq MatchesOf(bs)
           /\ \A m \in MatchesOf(bs) \ MatchesOf(blocks) : m \in new
      <3> HIDE DEF new
      <3> QED
        BY <2>5
    <2>12. \A m \in MatchesOf(bs) \ MatchesOf(blocks) :
              /\ m.len > 0 /\ m.src \in 0 .. m.dest - 1
              /\ origsize <= m.dest /\ m.dest + m.len <= origsize'
              /\ P!Repeats(m)
      <3> HIDE DEF new
      <3> QED
        BY <2>1, <2>8, <2>11
    <2>13. P!ParseBlock
      <3>1. MatchesOf(blocks)' = MatchesOf(bs)
        BY <2>1 DEF MatchesOf
      <3> HIDE DEF new
      <3> QED
        BY <1>0, <2>1, <2>9, <2>10, <2>11, <2>12, <3>1 DEF P!ParseBlock, MatchesOf
    <2> QED
      BY <2>13
  <1> QED
    BY <1>1, <1>2

\* In every method, with and without a dictionary, what pass 1 states are matches: each
\* repeats earlier bytes of the file, inside its block and apart from all others.  With
\* -m3 it takes blocks of whole chunks (hash_table.cpp:169).
THEOREM Refinement ==
    ASSUME WholeChunks
    PROVE  Spec => StatesTrueMatches
  <1>1. IInv /\ IInv' /\ [Next]_vars => [P!ParseBlock]_P!parsingVars
    BY StepParses
  <1> QED
    BY <1>1, InitParses, Inductive, PTL DEF Spec, StatesTrueMatches, P!Spec

\* What is stated to be a copy is one: digests are kept "for secondary, reliable match
\* checking" (hash_table.cpp:166).
CopiesRepeat ==
    \A k \in DOMAIN blocks : \A n \in DOMAIN blocks[k].found :
        Repeated(blocks[k].found[n].src, blocks[k].found[n].dest, blocks[k].found[n].len)

\* Every copy repeats what it names, although hashes collide and digests are found by
\* a number: unless blocks of -m3 are no whole chunks (hash_table.cpp:166-169).
THEOREM CopiesAreTrue ==
    ASSUME WholeChunks
    PROVE  Spec => []CopiesRepeat
  <1>1. ASSUME IInv PROVE CopiesRepeat
    <2>1. Aligned
      BY <1>1, AlignedIs DEF IInv, Threads
    <2>2. SUFFICES ASSUME NEW k \in DOMAIN blocks, NEW n \in DOMAIN blocks[k].found
                   PROVE  Repeated(blocks[k].found[n].src, blocks[k].found[n].dest, blocks[k].found[n].len)
      BY DEF CopiesRepeat
    <2>3. IsMatch(blocks[k].found[n], blocks[k].start, blocks[k].start + blocks[k].size)
      BY <1>1 DEF IInv, BlocksMatches, BlockOK, InOrder
    <2> QED
      BY <2>1, <2>3 DEF IsMatch
  <1> QED
    BY <1>1, Inductive, PTL

-----------------------------------------------------------------------------
(* The literals of a block are its bytes without the copies. *)

\* The number of bytes that are copies.
Copied(found) == MapThenSumSet(LAMBDA n : found[n].len, DOMAIN found)

\* c adds up the lengths.
AreLengths(c, found) ==
    /\ c \in [0 .. Len(found) -> Nat]
    /\ c[0] = 0
    /\ \A k \in 1 .. Len(found) : c[k] = c[k - 1] + found[k].len

LEMMA LengthsExist ==
    ASSUME NEW found \in Seq(Match)
    PROVE  \E c : AreLengths(c, found)
  <1> DEFINE n == Len(found)
             step == [k \in 1 .. n |-> [x \in Nat |-> x + found[k].len]]
  <1>1. n \in Nat /\ \A k \in 1 .. n : found[k].len \in Nat
    <2>1. n \in Nat /\ DOMAIN found = 1 .. n /\ \A k \in 1 .. n : found[k] \in Match
      OBVIOUS
    <2> QED
      BY <2>1 DEF Match
  <1>2. AreSteps(step, n, Nat, 0)
    <2>1. \A k \in 1 .. n : [x \in Nat |-> x + found[k].len] \in [Nat -> Nat]
      BY <1>1
    <2> HIDE DEF n
    <2> QED
      BY <1>1, <2>1 DEF AreSteps
  <1>3. \A k \in 1 .. n, x \in Nat : step[k][x] = x + found[k].len
    OBVIOUS
  <1> HIDE DEF n, step
  <1>4. PICK c : IsRecursion(c, step, n, Nat, 0)
    BY <1>2, RecursionExists
  <1>5. c \in [0 .. n -> Nat] /\ c[0] = 0 /\ \A k \in 1 .. n : c[k] = step[k][c[k - 1]]
    BY <1>4 DEF IsRecursion
  <1>6. ASSUME NEW k \in 1 .. n PROVE c[k] = c[k - 1] + found[k].len
    <2>1. k - 1 \in 0 .. n
      BY <1>1
    <2>2. c[k - 1] \in Nat
      BY <1>5, <2>1
    <2> QED
      BY <1>3, <1>5, <2>2
  <1>7. AreLengths(c, found)
    BY <1>5, <1>6 DEF AreLengths, n
  <1> QED
    BY <1>7

LEMMA CopiedIs ==
    ASSUME NEW found \in Seq(Match), NEW c, AreLengths(c, found)
    PROVE  Copied(found) = c[Len(found)]
  <1> DEFINE n == Len(found)
             v == [k \in 1 .. n |-> found[k].len]
             Solves(iter) ==
                iter = [s \in SUBSET (1 .. n) |->
                          IF s = {} THEN 0
                          ELSE found[CHOOSE x \in s : TRUE].len + iter[s \ {CHOOSE x \in s : TRUE}]]
  <1>1. n \in Nat /\ DOMAIN found = 1 .. n /\ \A k \in 1 .. n : found[k] \in Match
    OBVIOUS
  <1>2. Copied(found) = (CHOOSE iter : Solves(iter))[1 .. n]
    BY <1>1 DEF Copied, MapThenSumSet, MapThenFoldSet
  <1> HIDE DEF n
  <1>3. v \in [1 .. n -> Nat]
    BY <1>1 DEF Match
  <1>4. ASSUME NEW s \in SUBSET (1 .. n), s # {}
        PROVE  found[CHOOSE x \in s : TRUE].len = v[AnyValue(s)]
    <2>1. AnyValue(s) \in 1 .. n
      BY <1>4 DEF AnyValue
    <2> HIDE DEF AnyValue
    <2>2. v[AnyValue(s)] = found[AnyValue(s)].len
      BY <2>1
    <2> HIDE DEF v
    <2> QED
      BY <2>2 DEF AnyValue
  <1> HIDE DEF v
  <1>5. ASSUME NEW iter PROVE Solves(iter) <=> IsSum(iter, v, n)
    <2> DEFINE f == [s \in SUBSET (1 .. n) |->
                       IF s = {} THEN 0
                       ELSE found[CHOOSE x \in s : TRUE].len + iter[s \ {CHOOSE x \in s : TRUE}]]
               g == [s \in SUBSET (1 .. n) |-> IF s = {} THEN 0 ELSE v[AnyValue(s)] + iter[s \ {AnyValue(s)}]]
    <2>1. \A s \in SUBSET (1 .. n) : f[s] = g[s]
      <3> SUFFICES ASSUME NEW s \in SUBSET (1 .. n) PROVE f[s] = g[s]
        OBVIOUS
      <3>1. CASE s = {}
        BY <3>1
      <3>2. CASE s # {}
        BY <1>4, <3>2 DEF AnyValue
      <3> QED
        BY <3>1, <3>2
    <2>2. f = [s \in SUBSET (1 .. n) |-> f[s]] /\ g = [s \in SUBSET (1 .. n) |-> g[s]]
      OBVIOUS
    <2>3. (Solves(iter) <=> iter = f) /\ (IsSum(iter, v, n) <=> iter = g)
      BY DEF IsSum, IsSumOver
    <2> HIDE DEF f, g, Solves
    <2>4. f = g
      BY <2>1, <2>2
    <2> QED
      BY <2>3, <2>4
  <1>6. AreSums(c, v, n)
    BY <1>1 DEF AreLengths, AreSums, n, v
  <1>7. (\E iter : IsSum(iter, v, n)) /\ \A iter : IsSum(iter, v, n) => iter[1 .. n] = c[n]
    BY <1>1, <1>3, <1>6, SumIs
  <1> HIDE DEF Solves
  <1>8. Solves(CHOOSE iter : Solves(iter))
    BY <1>5, <1>7
  <1> QED
    BY <1>2, <1>5, <1>7, <1>8 DEF n

LEMMA NothingCopied == Copied(<<>>) = 0
  <1>1. <<>> \in Seq(Match) /\ Len(<<>>) = 0
    OBVIOUS
  <1>2. PICK c : AreLengths(c, <<>>)
    BY <1>1, LengthsExist
  <1>3. Copied(<<>>) = c[Len(<<>>)]
    BY <1>1, <1>2, CopiedIs
  <1> QED
    BY <1>1, <1>2, <1>3 DEF AreLengths

LEMMA CopiedMore ==
    ASSUME NEW found \in Seq(Match), NEW m \in Match
    PROVE  /\ Copied(Append(found, m)) = Copied(found) + m.len
           /\ Copied(found) \in Nat /\ m.len \in Nat
  <1> DEFINE more == Append(found, m)
             n == Len(found)
  <1>1. /\ n \in Nat /\ more \in Seq(Match) /\ Len(more) = n + 1 /\ more[n + 1] = m
        /\ \A k \in 1 .. n : more[k] = found[k]
    OBVIOUS
  <1> HIDE DEF more, n
  <1>2. PICK c : AreLengths(c, more)
    BY <1>1, LengthsExist
  <1> DEFINE d == [k \in 0 .. n |-> c[k]]
  <1>3. c \in [0 .. n + 1 -> Nat] /\ c[0] = 0 /\ \A k \in 1 .. n + 1 : c[k] = c[k - 1] + more[k].len
    BY <1>1, <1>2 DEF AreLengths
  <1>4. AreLengths(d, found)
    <2>1. d \in [0 .. n -> Nat] /\ d[0] = 0
      BY <1>1, <1>3
    <2>2. ASSUME NEW k \in 1 .. n PROVE d[k] = d[k - 1] + found[k].len
      <3>1. k \in 0 .. n /\ k - 1 \in 0 .. n /\ k \in 1 .. n + 1
        BY <1>1
      <3> QED
        BY <1>1, <1>3, <3>1
    <2> HIDE DEF d
    <2> QED
      BY <2>1, <2>2 DEF AreLengths, n
  <1>5. Copied(found) = c[n]
    <2>1. Copied(found) = d[n]
      BY <1>4, CopiedIs DEF n
    <2> QED
      BY <1>1, <2>1
  <1>6. Copied(more) = c[n + 1]
    BY <1>1, <1>2, CopiedIs
  <1>7. c[n + 1] = c[n] + m.len /\ c[n] \in Nat
    <2>1. n + 1 \in 1 .. n + 1 /\ (n + 1) - 1 = n /\ n \in 0 .. n + 1
      BY <1>1
    <2> QED
      BY <1>1, <1>3, <2>1
  <1>8. m.len \in Nat
    BY DEF Match
  <1> QED
    BY <1>5, <1>6, <1>7, <1>8 DEF more

\* The literals of the block so far, with content-defined chunks those up to i.
BlkCounted ==
    Compressing =>
        /\ blk.literals = (IF opts.method = "cdc" THEN i ELSE Size) - Copied(blk.found)
        /\ opts.method = "cdc" /\ pc = "end" => i = Size

BlocksCounted ==
    \A k \in DOMAIN blocks : blocks[k].literals = blocks[k].size - Copied(blocks[k].found)

Counted == BlkCounted /\ BlocksCounted

\* A match's bytes are taken from the literals.
LEMMA EmittedCounts ==
    ASSUME JobGiven, Positions, NEW s, NEW t, BlkOK(s), Emitted(s, t), opts.method # "cdc",
           NEW n \in Int, s.literals = n - Copied(s.found)
    PROVE  t.literals = n - Copied(t.found)
  <1>0. origsize \in Nat
    BY SettingIs DEF Positions
  <1>1. PICK src, dest, len :
           /\ GoodMatch(s, src, dest, len)
           /\ t.found = Append(s.found, [src |-> src, dest |-> origsize + dest, len |-> len])
           /\ t.literals = s.literals - len
    BY DEF Emitted
  <1> DEFINE m == [src |-> src, dest |-> origsize + dest, len |-> len]
  <1>2. m \in Match /\ m.len = len
    BY <1>0, <1>1 DEF GoodMatch, Match
  <1>3. s.found \in Seq(Match) /\ t.found = Append(s.found, m)
    BY <1>1 DEF BlkOK, InOrder
  <1> DEFINE f == s.found
             c == Copied(f)
  <1>4. Copied(Append(f, m)) = c + len /\ c \in Nat /\ len \in Nat
    <2> HIDE DEF m
    <2> QED
      BY <1>2, <1>3, CopiedMore
  <1>5. Copied(t.found) = c + len
    BY <1>3, <1>4
  <1>6. t.literals = (n - c) - len
    BY <1>1
  <1> HIDE DEF c
  <1>7. (n - c) - len = n - (c + len)
    BY <1>4
  <1> QED
    BY <1>5, <1>6, <1>7

LEMMA ContinuedCounts ==
    ASSUME JobGiven, Positions, NEW s, NEW t, BlkOK(s), Continued(s, t), opts.method # "cdc",
           NEW n \in Int, s.literals = n - Copied(s.found)
    PROVE  t.literals = n - Copied(t.found)
  BY EmittedCounts DEF Continued

LEMMA BlkCountedKept ==
    ASSUME IInv, BlkCounted, [Next]_vars
    PROVE  BlkCounted'
  <1> USE DEF IInv, Found
  <1>0. /\ JobGiven /\ Positions /\ InSearch /\ Size \in Nat /\ i \in Nat
        /\ opts.method \in {"rep", "cdc", "digest", "reread"}
    BY ThreadsAre, SettingIs
  <1>1. ASSUME Steady,
               Compressing' => blk'.literals = (IF opts.method = "cdc" THEN i' ELSE Size) - Copied(blk'.found),
               opts.method = "cdc" /\ pc' = "end" => i' = Size
        PROVE  BlkCounted'
    <2>1. Size' = Size /\ opts' = opts
      BY <1>1, SteadySizes DEF Steady
    <2>2. Copied(blk.found)' = Copied(blk'.found)
      BY DEF Copied, MapThenSumSet, MapThenFoldSet
    <2> QED
      BY <1>1, <2>1, <2>2 DEF BlkCounted
  <1>2. ASSUME NEW n \in Nat, Fresh(blk'), blk'.literals = n
        PROVE  blk'.literals = n - Copied(blk'.found)
    <2>1. blk'.found = <<>>
      BY <1>2 DEF Fresh
    <2>2. n - 0 = n
      BY <1>2
    <2> QED
      BY <1>2, <2>1, <2>2, NothingCopied
  <1>3. ASSUME Steady, StartedWith(ins') PROVE BlkCounted'
    <2>1. CASE opts.method = "cdc"
      <3>1. Fresh(blk') /\ blk'.literals = 0 /\ i' = 0 /\ pc' = "cdc"
        BY <1>3, <2>1 DEF StartedWith
      <3>2. blk'.literals = i' - Copied(blk'.found)
        BY <1>2, <3>1
      <3> QED
        BY <1>1, <1>3, <2>1, <3>1, <3>2
    <2>2. CASE opts.method # "cdc"
      <3>1. Fresh(blk') /\ blk'.literals = Size
        BY <1>3, <2>2 DEF StartedWith
      <3>2. blk'.literals = Size - Copied(blk'.found)
        BY <1>0, <1>2, <3>1
      <3> QED
        BY <1>1, <1>3, <2>2, <3>2
    <2> QED
      BY <2>1, <2>2
  <1>4. ASSUME Compressing, opts.method # "cdc"
        PROVE  BlkOK(blk) /\ blk.literals = Size - Copied(blk.found)
    BY <1>4 DEF BlkCounted, Found, BlkMatches
  <1>5. CASE Idle
    <2>1. Steady /\ blk' = blk /\ pc' = pc /\ i' = i
      BY <1>5 DEF Idle, Steady
    <2>2. Compressing' = Compressing
      BY <2>1 DEF Compressing
    <2> QED
      BY <1>1, <2>1, <2>2 DEF BlkCounted, Compressing
  <1>6. CASE StartBlock
    <2>1. Steady
      BY <1>6, StartBlockIs
    <2>2. CASE pc' = "done"
      BY <2>2 DEF BlkCounted, Compressing
    <2>3. CASE pc' = "dict" /\ Fresh(blk') /\ blk'.literals = Size /\ opts.dict > 0
      <3>1. opts.method # "cdc"
        <4>1. opts.dict \in Nat /\ (opts.method = "cdc" => opts.dict = 0)
          BY <1>0, SettingIs
        <4> QED
          BY <2>3, <4>1
      <3>2. blk'.literals = Size - Copied(blk'.found)
        BY <1>0, <1>2, <2>3
      <3> QED
        BY <1>1, <2>1, <3>1, <3>2
    <2>4. CASE StartedWith(ins')
      BY <1>3, <2>1, <2>4
    <2> QED
      BY <1>6, <2>2, <2>3, <2>4, StartBlockIs
  <1>7. CASE FinishBlock
    <2>1. pc' = "block"
      BY <1>7, FinishBlockIs
    <2> QED
      BY <2>1 DEF BlkCounted, Compressing
  <1>8. CASE DictScan
    <2>1. Steady /\ Compressing
      BY <1>8, SearchSteps DEF Search
    <2>2. pc = "dict" /\ pc' = "dict" /\ Continued(blk, blk')
      BY <1>8, DictScanIs DEF Tables
    <2>4. opts.method # "cdc"
      BY <1>0, <2>2 DEF InSearch
    <2>3. blk'.literals = Size - Copied(blk'.found)
      BY <1>0, <1>4, <2>1, <2>2, <2>4, ContinuedCounts
    <2> QED
      BY <1>1, <2>1, <2>2, <2>3, <2>4
  <1>9. CASE DictEnd
    <2>1. Steady /\ Compressing
      BY <1>9, SearchSteps DEF Search
    <2>2. /\ pc = "dict"
          /\ \/ pc' = "end" /\ blk' = blk
             \/ StartedWith(ins')
      BY <1>9, DictEndIs
    <2>5. opts.method # "cdc"
      BY <1>0, <2>2 DEF InSearch
    <2>3. CASE pc' = "end" /\ blk' = blk
      BY <1>1, <1>4, <2>1, <2>3, <2>5
    <2>4. CASE StartedWith(ins')
      BY <1>3, <2>1, <2>4
    <2> QED
      BY <2>2, <2>3, <2>4
  <1>10. CASE FirstChunk
    <2>1. Steady /\ Compressing
      BY <1>10, SearchSteps DEF Search
    <2>2. Continued(blk, blk') /\ opts.method # "cdc"
      BY <1>10, FirstChunkIs
    <2>3. blk'.literals = Size - Copied(blk'.found)
      BY <1>0, <1>4, <2>1, <2>2, ContinuedCounts
    <2> QED
      BY <1>1, <2>1, <2>2, <2>3
  <1>11. CASE Scan
    <2>1. Steady /\ Compressing
      BY <1>11, SearchSteps DEF Search
    <2>2. opts.method # "cdc"
      BY <1>11, ScanIs
    <2>3. PICK s : BlkOK(s) /\ Continued(blk, s) /\ Continued(s, blk')
      BY <1>11, ScanIs
    <2>4. s.literals = Size - Copied(s.found)
      BY <1>0, <1>4, <2>1, <2>2, <2>3, ContinuedCounts
    <2>5. blk'.literals = Size - Copied(blk'.found)
      BY <1>0, <2>2, <2>3, <2>4, ContinuedCounts
    <2> QED
      BY <1>1, <2>1, <2>2, <2>5
  <1>12. CASE ScanEnd
    <2>1. Steady /\ Compressing
      BY <1>12, SearchSteps DEF Search
    <2>2. blk' = blk /\ opts.method # "cdc"
      BY <1>0, <1>12, ScanEndIs DEF InSearch
    <2> QED
      BY <1>1, <1>4, <2>1, <2>2
  <1>13. CASE CutChunk
    <2>1. Steady /\ Compressing
      BY <1>13, SearchSteps DEF Search
    <2>2. opts.method = "cdc" /\ BlkOK(blk) /\ blk.literals = i - Copied(blk.found)
      BY <1>13, <2>1, CutChunkIs DEF BlkCounted, Found, BlkMatches
    <2>3. PICK next \in i + 1 .. Size :
             /\ i' = next /\ pc' = IF next = Size THEN "end" ELSE "cdc"
             /\ \/ /\ blk'.last_match_end = blk.last_match_end /\ blk'.found = blk.found
                   /\ blk'.stat = blk.stat /\ blk'.literals = blk.literals + (next - i)
                \/ /\ Emitted(blk, blk') /\ blk'.literals = blk.literals
                   /\ blk'.last_match_end = next
                   /\ \E src : blk'.found = Append(blk.found, [src |-> src, dest |-> origsize + i,
                                                               len |-> next - i])
      BY <1>13, CutChunkIs
    <2> DEFINE f == blk.found
               c == Copied(f)
    <2>4. f \in Seq(Match) /\ c \in Int
      <3>1. f \in Seq(Match)
        BY <2>2 DEF BlkOK, InOrder
      <3>2. [src |-> 0, dest |-> 0, len |-> 0] \in Match
        BY DEF Match
      <3> QED
        BY <3>1, <3>2, CopiedMore
    <2>5. blk'.literals = next - Copied(blk'.found)
      <3>1. CASE blk'.found = f /\ blk'.literals = blk.literals + (next - i)
        <4>1. blk'.literals = (i - c) + (next - i) /\ Copied(blk'.found) = c
          BY <2>2, <3>1
        <4> HIDE DEF c
        <4>2. (i - c) + (next - i) = next - c
          BY <1>0, <2>3, <2>4
        <4> QED
          BY <4>1, <4>2
      <3>2. ASSUME blk'.literals = blk.literals, Emitted(blk, blk'),
                   NEW src, blk'.found = Append(f, [src |-> src, dest |-> origsize + i, len |-> next - i])
            PROVE  blk'.literals = next - Copied(blk'.found)
        <4> DEFINE m == [src |-> src, dest |-> origsize + i, len |-> next - i]
        <4>1. m \in Match
          <5>1. BlkOK(blk')
            BY <1>0, <2>2, <3>2, EmittedKeeps
          <5> DEFINE g == blk'.found
          <5>2. g \in Seq(Match) /\ g = Append(f, m)
            BY <3>2, <5>1 DEF BlkOK, InOrder
          <5> HIDE DEF g, f, m
          <5>3. g[Len(g)] = m /\ Len(g) \in DOMAIN g
            BY <2>4, <5>2
          <5> QED
            BY <5>2, <5>3
        <4>2. m.len = next - i
          OBVIOUS
        <4> HIDE DEF m
        <4>3. Copied(Append(f, m)) = c + m.len
          BY <2>4, <4>1, CopiedMore
        <4>4. Copied(blk'.found) = c + (next - i) /\ blk'.literals = i - c
          BY <2>2, <3>2, <4>2, <4>3 DEF m
        <4> HIDE DEF c
        <4>5. i - c = next - (c + (next - i))
          BY <1>0, <2>3, <2>4
        <4> QED
          BY <4>4, <4>5
      <3> QED
        BY <2>3, <3>1, <3>2
    <2>6. pc' = "end" => i' = Size
      BY <2>3
    <2> QED
      BY <1>1, <2>1, <2>2, <2>3, <2>5, <2>6
  <1> QED
    BY <1>5, <1>6, <1>7, <1>8, <1>9, <1>10, <1>11, <1>12, <1>13, Cases

LEMMA BlocksCountedKept ==
    ASSUME IInv, BlkCounted, BlocksCounted, [Next]_vars
    PROVE  BlocksCounted'
  <1> USE DEF IInv
  <1>0. ASSUME \A k \in DOMAIN blocks' : blocks'[k].literals = blocks'[k].size - Copied(blocks'[k].found)
        PROVE  BlocksCounted'
    <2>1. ASSUME NEW k \in DOMAIN blocks' PROVE Copied(blocks[k].found)' = Copied(blocks'[k].found)
      BY DEF Copied, MapThenSumSet, MapThenFoldSet
    <2> QED
      BY <1>0, <2>1 DEF BlocksCounted
  <1>1. CASE ~ FinishBlock
    <2>1. blocks' = blocks
      BY <1>1, Cases, SearchSteps DEF Search, Idle, StartBlock
    <2> QED
      BY <1>0, <2>1 DEF BlocksCounted
  <1>2. CASE FinishBlock
    <2> DEFINE b == [start |-> origsize, size |-> Size, literals |-> blk.literals,
                     stat |-> blk.stat, found |-> blk.found]
               n == Len(blocks)
               bs == Append(blocks, b)
    <2>1. pc = "end" /\ blocks' = bs
      BY <1>2, FinishBlockIs
    <2>2. blk.literals = Size - Copied(blk.found)
      BY <2>1 DEF BlkCounted, Compressing
    <2>3. b.size = Size /\ b.found = blk.found /\ b.literals = blk.literals
      OBVIOUS
    <2> HIDE DEF b
    <2>4. /\ DOMAIN bs = 1 .. n + 1 /\ DOMAIN blocks = 1 .. n /\ n \in Nat
          /\ bs[n + 1] = b /\ \A k \in 1 .. n : bs[k] = blocks[k]
      BY SequenceIs, SequenceAppend DEF BlocksMatches
    <2> HIDE DEF bs, n
    <2>5. \A k \in DOMAIN bs : bs[k].literals = bs[k].size - Copied(bs[k].found)
      <3> SUFFICES ASSUME NEW k \in DOMAIN bs PROVE bs[k].literals = bs[k].size - Copied(bs[k].found)
        OBVIOUS
      <3>1. CASE k = n + 1
        BY <2>2, <2>3, <2>4, <3>1
      <3>2. CASE k # n + 1
        BY <2>4, <3>2 DEF BlocksCounted
      <3> QED
        BY <3>1, <3>2
    <2> QED
      BY <1>0, <2>1, <2>5
  <1> QED
    BY <1>1, <1>2

\* The literals a block announces are its bytes without the copies, although three searches
\* count them and cut each other's matches (compress.cpp:22, 113).
THEOREM LiteralsAreCounted == Spec => []LiteralsCounted
  <1>1. ASSUME Init PROVE Counted
    BY <1>1 DEF Init, Counted, BlkCounted, BlocksCounted, Compressing
  <1>2. ASSUME IInv, Counted, [Next]_vars PROVE Counted'
    BY <1>2, BlkCountedKept, BlocksCountedKept DEF Counted
  <1>3. ASSUME Counted PROVE LiteralsCounted
    BY <1>3 DEF Counted, BlocksCounted, LiteralsCounted, Copied
  <1> QED
    BY <1>1, <1>2, <1>3, Inductive, PTL DEF Spec

-----------------------------------------------------------------------------
(* The records of a block read back as its matches. *)

\* Lengths, positions and offsets fit their words; every search has the base length that
\* readers use (compress_cdc.cpp:208), and with -m3 it divides -c (srep.cpp:109).
RecordsFit ==
    \A j \in Jobs :
        LET o == j.opts
            base == Min({o.minMatch, o.dictMinMatch})
        IN /\ o.bufSize < StatValues
           /\ Len(j.input) <= StatValues * StatValues
           /\ o.method = "cdc" => Max({o.minMatch, Minimal}) = base
           /\ o.method = "digest" /\ o.dict = 0 =>
                 o.L % base = 0 /\ Len(j.input) <= StatValues * base

LEMMA JobFits ==
    ASSUME RecordsFit, JobGiven
    PROVE  /\ B < S /\ N <= S * S /\ BaseUsed = BaseLen
           /\ Round => L % BaseLen = 0 /\ N <= S * BaseLen
  BY DEF RecordsFit, JobGiven, B, S, N, L, BaseUsed, BaseLen, CdcMinMatch, Round

LEMMA QuotientBelow ==
    ASSUME NEW b \in Nat \ {0}, NEW q \in Nat, NEW a \in Nat, a < q * b
    PROVE  a \div b < q
  <1> DEFINE u == a \div b
  <1>1. u \in Nat /\ a % b \in 0 .. b - 1 /\ a = b * u + (a % b)
    BY DivMod
  <1> HIDE DEF u
  <1>2. ASSUME u >= q PROVE FALSE
    <2> DEFINE d == u - q
    <2>1. d \in Nat /\ u = q + d
      BY <1>1, <1>2
    <2> HIDE DEF d
    <2>2. b * u = b * q + b * d /\ b * d \in Nat /\ b * q = q * b /\ q * b \in Nat
      BY <2>1
    <2> DEFINE x == b * d
               y == q * b
               z == b * u
    <2>3. z = y + x /\ x \in Nat /\ y \in Nat /\ a < y /\ a = z + (a % b) /\ a % b \in Nat
      BY <1>1, <2>2
    <2> HIDE DEF x, y, z
    <2> QED
      BY <2>3
  <1> QED
    BY <1>1, <1>2 DEF u

\* Where the n-th match ends, or the block starts.
EndOf(found, n, start) == IF n = 0 THEN start ELSE found[n].dest + found[n].len

\* Record r, read from position from on, is the match m.
States(round, base, r, from, m) ==
    LET d == DecodeLzMatch(FALSE, round, base, from, r)
    IN d.src = m.src /\ d.dest = m.dest /\ d.len = m.len

\* Each record states its match, read from the end of the match before it.
Said(round, base, stat, found, start) ==
    /\ Sequence(stat) /\ Len(stat) = Len(found)
    /\ \A n \in 1 .. Len(found) : States(round, base, stat[n], EndOf(found, n - 1, start), found[n])

SaidSoFar(s) ==
    /\ Said(Round, BaseLen, s.stat, s.found, origsize)
    /\ origsize + s.last_match_end = EndOf(s.found, Len(s.found), origsize)

LEMMA RecordStates ==
    ASSUME RecordsFit, JobGiven, Positions, NEW s, BlkOK(s),
           NEW src, NEW dest, NEW len, GoodMatch(s, src, dest, len), BaseUsed <= len
    PROVE  States(Round, BaseLen,
                  EncodeLzMatch(Round, BaseUsed, dest - s.last_match_end, origsize + dest - src, len),
                  origsize + s.last_match_end,
                  [src |-> src, dest |-> origsize + dest, len |-> len])
  <1> DEFINE e == s.last_match_end
             lit == dest - e
             pos == origsize + dest
             off == pos - src
             from == origsize + e
             base == BaseLen
             m == [src |-> src, dest |-> pos, len |-> len]
             r == EncodeLzMatch(Round, base, lit, off, len)
             d == DecodeLzMatch(FALSE, Round, base, from, r)
  <1>1. /\ S \in Nat \ {0} /\ base \in Nat \ {0} /\ B \in Nat /\ B < S /\ N \in Nat /\ N <= S * S
        /\ L \in Nat \ {0} /\ Size \in 0 .. B /\ origsize \in Nat /\ origsize + Size <= N
    BY Sizes, SettingIs, SizeIs, BaseLenIs, JobFits DEF Positions
  <1>2. /\ e \in Nat /\ src \in Nat /\ dest \in Nat /\ len \in Nat /\ len > 0 /\ base <= len
        /\ e <= dest /\ dest + len <= Size /\ src < pos
    <2>1. e \in 0 .. Size
      BY DEF BlkOK
    <2> HIDE DEF e, base
    <2>2. e \in Nat
      BY <1>1, <2>1
    <2> QED
      BY <2>2, JobFits DEF GoodMatch, e, base
  <1>3. BaseUsed = base /\ origsize + dest - src = off
    <2>1. BaseUsed = base
      BY JobFits
    <2>2. origsize + dest - src = off
      BY ONLY <1>1, <1>2
    <2> QED
      BY <2>1, <2>2
  <1> HIDE DEF base, e
  <1>4. /\ lit \in 0 .. S - 1 /\ len \in base .. S - 1 /\ pos \in Nat /\ off \in Nat
        /\ off <= pos /\ pos < N /\ pos = from + lit /\ from \in Nat /\ pos - off = src
    BY ONLY <1>1, <1>2
  <1> HIDE DEF lit, off, pos, from
  <1>5. off < S * S /\ pos < S * S
    <2> DEFINE V == S * S
    <2>1. V \in Nat /\ N <= V
      BY <1>1
    <2> HIDE DEF V
    <2>2. off < V /\ pos < V
      BY ONLY <1>1, <1>4, <2>1
    <2> QED
      BY <2>2 DEF V
  <1>6. FitsRecord(base, lit, off, len) /\ OffsetInFile(FALSE, pos, off)
    BY <1>4, <1>5 DEF FitsRecord, OffsetInFile, Offsets
  <1>7. d = MatchOf(FALSE, lit, pos, off, len)
    <2>1. CASE ~ Round
      <3>1. Round = FALSE
        BY <2>1 DEF Round
      <3>2. ReadsBack(FALSE, base, base, lit, off, len, from, pos)
        BY PlainRecord, Zenon
      <3>3. base \in Nat /\ from \in Nat /\ pos = from + lit
        BY <1>1, <1>4
      <3>4. d = MatchOf(FALSE, lit, pos, off, ((len - base) + base) % S)
        BY <1>6, <3>1, <3>2, <3>3, Zenon DEF ReadsBack
      <3>5. ((len - base) + base) % S = len
        BY <1>1, <1>4
      <3> QED
        BY <3>4, <3>5
    <2>2. CASE Round
      <3>1. Round = TRUE
        BY <2>2 DEF Round
      <3>2. len % L = 0 /\ src % L = 0 /\ L % base = 0 /\ N <= S * base
        BY <2>2, JobFits DEF GoodMatch, base
      <3>3. len % base = 0 /\ src % base = 0
        <4>1. base \in Nat \ {0} /\ L \in Nat \ {0} /\ len \in Nat /\ src \in Nat
          BY <1>1, <1>2
        <4> QED
          BY <3>2, <4>1, MultipleOfMultiple
      <3>4. off < S * base
        <4> DEFINE V == S * base
        <4>1. V \in Nat /\ N <= V
          BY <1>1, <3>2
        <4> HIDE DEF V
        <4>2. off < V
          BY ONLY <1>1, <1>4, <4>1
        <4> QED
          BY <4>2 DEF V
      <3>5. off \div base < S
        BY <1>1, <1>4, <3>4, QuotientBelow
      <3>6. (pos - off) % base = 0
        BY <1>4, <3>3
      <3>7. ReadsBackRounded(base, lit, off, len, from, pos)
        BY RoundedRecord, Zenon
      <3>8. base \in Nat \ {0} /\ from \in Nat /\ pos = from + lit
        BY <1>1, <1>4
      <3>9. /\ base \in Nat \ {0} /\ FitsRecord(base, lit, off, len)
            /\ off \div base < S /\ len % base = 0
            /\ from \in Nat /\ pos = from + lit
            /\ OffsetInFile(FALSE, pos, off) /\ (pos - off) % base = 0
        BY <1>6, <3>3, <3>5, <3>6, <3>8
      <3> QED
        BY <3>1, <3>7, <3>9, Zenon DEF ReadsBackRounded
    <2> QED
      BY <2>1, <2>2
  <1> HIDE DEF d
  <1>8. d.src = src /\ d.dest = pos /\ d.len = len
    BY <1>4, <1>7 DEF MatchOf
  <1>9. m.src = src /\ m.dest = pos /\ m.len = len
    OBVIOUS
  <1> HIDE DEF m
  <1>10. States(Round, base, r, from, m)
    BY <1>8, <1>9 DEF States, d
  <1> QED
    BY <1>3, <1>10 DEF m, pos, from, e, lit, base

LEMMA EmittedSays ==
    ASSUME RecordsFit, JobGiven, Positions, NEW s, NEW t, BlkOK(s), Emitted(s, t), SaidSoFar(s)
    PROVE  SaidSoFar(t)
  <1>0. origsize \in Nat
    BY SettingIs DEF Positions
  <1>1. PICK src, dest, len :
           /\ GoodMatch(s, src, dest, len) /\ BaseUsed <= len
           /\ t.last_match_end = dest + len
           /\ t.found = Append(s.found, [src |-> src, dest |-> origsize + dest, len |-> len])
           /\ t.stat = Append(s.stat, EncodeLzMatch(Round, BaseUsed, dest - s.last_match_end,
                                                    origsize + dest - src, len))
    BY DEF Emitted
  <1> DEFINE m == [src |-> src, dest |-> origsize + dest, len |-> len]
             r == EncodeLzMatch(Round, BaseUsed, dest - s.last_match_end, origsize + dest - src, len)
             f == s.found
             g == t.found
             n == Len(f)
             from == origsize + s.last_match_end
  <1>2. States(Round, BaseLen, r, from, m)
    BY <1>1, RecordStates
  <1>3. m \in Match /\ m.dest = origsize + dest /\ m.len = len /\ dest \in Nat /\ len \in Nat
    BY <1>0, <1>1 DEF GoodMatch, Match
  <1> HIDE DEF m, r
  <1>4. f \in Seq(Match) /\ g = Append(f, m) /\ t.stat = Append(s.stat, r)
    BY <1>1 DEF BlkOK, InOrder, m, r
  <1>5. /\ n \in Nat /\ Len(g) = n + 1 /\ g[n + 1] = m /\ \A k \in 1 .. n : g[k] = f[k]
    BY <1>3, <1>4
  <1>6. /\ Sequence(s.stat) /\ Len(s.stat) = n /\ from = EndOf(f, n, origsize)
        /\ \A k \in 1 .. n : States(Round, BaseLen, s.stat[k], EndOf(f, k - 1, origsize), f[k])
    BY DEF SaidSoFar, Said
  <1>7. /\ Sequence(t.stat) /\ Len(t.stat) = n + 1 /\ t.stat[n + 1] = r
        /\ \A k \in 1 .. n : t.stat[k] = s.stat[k]
    BY <1>4, <1>6, SequenceAppend
  <1> HIDE DEF f, g, n, from
  <1>8. \A k \in 0 .. n : EndOf(g, k, origsize) = EndOf(f, k, origsize)
    BY <1>5 DEF EndOf
  <1>9. ASSUME NEW k \in 1 .. n + 1
        PROVE  States(Round, BaseLen, t.stat[k], EndOf(g, k - 1, origsize), g[k])
    <2>1. CASE k = n + 1
      <3>1. k - 1 = n /\ n \in 0 .. n
        BY <1>5, <2>1
      <3>2. EndOf(g, k - 1, origsize) = from
        BY <1>6, <1>8, <3>1
      <3> QED
        BY <1>2, <1>5, <1>7, <2>1, <3>2
    <2>2. CASE k # n + 1
      <3>1. k \in 1 .. n /\ k - 1 \in 0 .. n
        BY <1>5, <2>2
      <3> QED
        BY <1>5, <1>6, <1>7, <1>8, <3>1
    <2> QED
      BY <2>1, <2>2
  <1>10. Said(Round, BaseLen, t.stat, g, origsize)
    BY <1>5, <1>7, <1>9 DEF Said
  <1>11. origsize + t.last_match_end = EndOf(g, Len(g), origsize)
    <2>1. EndOf(g, n + 1, origsize) = m.dest + m.len
      BY <1>5 DEF EndOf
    <2>2. origsize + (dest + len) = (origsize + dest) + len
      BY <1>0, <1>3
    <2> QED
      BY <1>1, <1>3, <1>5, <2>1, <2>2
  <1> QED
    BY <1>10, <1>11 DEF SaidSoFar, g

LEMMA ContinuedSays ==
    ASSUME RecordsFit, JobGiven, Positions, NEW s, NEW t, BlkOK(s), Continued(s, t), SaidSoFar(s)
    PROVE  SaidSoFar(t)
  BY EmittedSays DEF Continued

LEMMA FreshSays ==
    ASSUME JobGiven, Positions, NEW s, Fresh(s)
    PROVE  SaidSoFar(s)
  <1>1. origsize \in Nat /\ s.last_match_end = 0 /\ s.found = <<>> /\ s.stat = <<>>
    BY SettingIs DEF Positions, Fresh
  <1>2. Len(<<>>) = 0 /\ 1 .. 0 = {} /\ Sequence(<<>>)
    BY EmptySequence
  <1>3. Said(Round, BaseLen, s.stat, s.found, origsize)
    BY <1>1, <1>2 DEF Said
  <1>4. origsize + 0 = origsize
    BY <1>1
  <1> QED
    BY <1>1, <1>2, <1>3, <1>4 DEF SaidSoFar, EndOf

BlkSaid == Compressing => SaidSoFar(blk)

BlocksSaid ==
    \A k \in DOMAIN blocks :
        Said(Round, BaseLen, blocks[k].stat, blocks[k].found, blocks[k].start)

LEMMA BlkSaidKept ==
    ASSUME RecordsFit, IInv, BlkSaid, [Next]_vars
    PROVE  BlkSaid'
  <1> USE DEF IInv, Found
  <1>0. JobGiven /\ Positions
    BY ThreadsAre
  <1>1. ASSUME Steady, Compressing' => SaidSoFar(blk')
        PROVE  BlkSaid'
    <2>1. Round' = Round /\ BaseLen' = BaseLen /\ origsize' = origsize
      BY <1>1, SteadySizes DEF Steady
    <2>2. SaidSoFar(blk') => SaidSoFar(blk)'
      BY <2>1 DEF SaidSoFar, Said, States, EndOf, Sequence, DecodeLzMatch, Unit
    <2> QED
      BY <1>1, <2>2 DEF BlkSaid
  <1>2. ASSUME Fresh(blk') PROVE SaidSoFar(blk')
    BY <1>0, <1>2, FreshSays
  <1>3. ASSUME Steady, StartedWith(ins') PROVE BlkSaid'
    BY <1>1, <1>2, <1>3 DEF StartedWith
  <1>4. ASSUME Compressing PROVE BlkOK(blk) /\ SaidSoFar(blk)
    BY <1>4 DEF BlkSaid, BlkMatches
  <1>5. ASSUME Compressing, Continued(blk, blk') PROVE SaidSoFar(blk')
    BY <1>0, <1>4, <1>5, ContinuedSays
  <1>6. CASE Idle
    <2>1. Steady /\ blk' = blk /\ Compressing' = Compressing
      BY <1>6 DEF Idle, Steady, Compressing
    <2> QED
      BY <1>1, <2>1 DEF BlkSaid
  <1>7. CASE StartBlock
    <2>1. Steady
      BY <1>7, StartBlockIs
    <2>2. CASE pc' = "done"
      BY <2>2 DEF BlkSaid, Compressing
    <2>3. CASE Fresh(blk')
      BY <1>1, <1>2, <2>1, <2>3
    <2>4. CASE StartedWith(ins')
      BY <1>3, <2>1, <2>4
    <2> QED
      BY <1>7, <2>2, <2>3, <2>4, StartBlockIs
  <1>8. CASE FinishBlock
    <2>1. pc' = "block"
      BY <1>8, FinishBlockIs
    <2> QED
      BY <2>1 DEF BlkSaid, Compressing
  <1>9. CASE Search
    <2>1. Steady /\ Compressing
      BY <1>9, SearchSteps
    <2>2. CASE DictScan
      BY <1>1, <1>5, <2>1, <2>2, DictScanIs DEF Tables
    <2>3. CASE DictEnd
      <3>1. CASE blk' = blk
        BY <1>1, <1>4, <2>1, <3>1
      <3>2. CASE StartedWith(ins')
        BY <1>3, <2>1, <3>2
      <3> QED
        BY <2>3, <3>1, <3>2, DictEndIs
    <2>4. CASE FirstChunk
      <3>1. Continued(blk, blk')
        BY <2>4, FirstChunkIs
      <3> QED
        BY <1>1, <1>5, <2>1, <3>1
    <2>5. CASE Scan
      <3>1. PICK s : BlkOK(s) /\ Continued(blk, s) /\ Continued(s, blk')
        BY <2>5, ScanIs
      <3>2. SaidSoFar(s)
        BY <1>0, <1>4, <2>1, <3>1, ContinuedSays
      <3>3. SaidSoFar(blk')
        BY <1>0, <3>1, <3>2, ContinuedSays
      <3> QED
        BY <1>1, <2>1, <3>3
    <2>6. CASE ScanEnd
      BY <1>1, <1>4, <2>1, <2>6, ScanEndIs
    <2>7. CASE CutChunk
      <3>1. CASE Emitted(blk, blk')
        <4>1. SaidSoFar(blk')
          BY <1>5, <2>1, <3>1 DEF Continued
        <4> QED
          BY <1>1, <2>1, <4>1
      <3>2. CASE /\ blk'.last_match_end = blk.last_match_end /\ blk'.found = blk.found
                 /\ blk'.stat = blk.stat
        <4>1. SaidSoFar(blk')
          BY <1>4, <2>1, <3>2 DEF SaidSoFar
        <4> QED
          BY <1>1, <2>1, <4>1
      <3>3. \/ Emitted(blk, blk')
            \/ /\ blk'.last_match_end = blk.last_match_end /\ blk'.found = blk.found
               /\ blk'.stat = blk.stat
        BY <2>7, CutChunkIs
      <3> QED
        BY <3>1, <3>2, <3>3
    <2> QED
      BY <1>9, <2>2, <2>3, <2>4, <2>5, <2>6, <2>7 DEF Search
  <1> QED
    BY <1>6, <1>7, <1>8, <1>9, Cases DEF Search

LEMMA BlocksSaidKept ==
    ASSUME IInv, BlkSaid, BlocksSaid, [Next]_vars
    PROVE  BlocksSaid'
  <1> USE DEF IInv
  <1>0. Round' = Round /\ BaseLen' = BaseLen
    <2>1. opts' = opts
      BY Cases, SearchSteps, StartBlockIs, FinishBlockIs DEF Search, Idle, Steady
    <2> QED
      BY <2>1 DEF Round, BaseLen
  <1>1. ASSUME \A k \in DOMAIN blocks' :
                   Said(Round, BaseLen, blocks'[k].stat, blocks'[k].found, blocks'[k].start)
        PROVE  BlocksSaid'
    <2>1. ASSUME NEW k \in DOMAIN blocks'
          PROVE  Said(Round, BaseLen, blocks[k].stat, blocks[k].found, blocks[k].start)'
      <3>1. Said(Round, BaseLen, blocks'[k].stat, blocks'[k].found, blocks'[k].start)
        BY <1>1
      <3> QED
        BY <1>0, <3>1 DEF Said, States, EndOf, Sequence, DecodeLzMatch, Unit
    <2> QED
      BY <2>1 DEF BlocksSaid
  <1>2. CASE ~ FinishBlock
    <2>1. blocks' = blocks
      BY <1>2, Cases, SearchSteps DEF Search, Idle, StartBlock
    <2> QED
      BY <1>1, <2>1 DEF BlocksSaid
  <1>3. CASE FinishBlock
    <2> DEFINE b == [start |-> origsize, size |-> Size, literals |-> blk.literals,
                     stat |-> blk.stat, found |-> blk.found]
               n == Len(blocks)
               bs == Append(blocks, b)
    <2>1. pc = "end" /\ blocks' = bs
      BY <1>3, FinishBlockIs
    <2>2. Said(Round, BaseLen, blk.stat, blk.found, origsize)
      BY <2>1 DEF BlkSaid, Compressing, SaidSoFar
    <2>3. b.start = origsize /\ b.found = blk.found /\ b.stat = blk.stat
      OBVIOUS
    <2> HIDE DEF b
    <2>4. /\ DOMAIN bs = 1 .. n + 1 /\ DOMAIN blocks = 1 .. n /\ n \in Nat
          /\ bs[n + 1] = b /\ \A k \in 1 .. n : bs[k] = blocks[k]
      BY SequenceIs, SequenceAppend DEF BlocksMatches
    <2> HIDE DEF bs, n
    <2>5. \A k \in DOMAIN bs : Said(Round, BaseLen, bs[k].stat, bs[k].found, bs[k].start)
      <3> SUFFICES ASSUME NEW k \in DOMAIN bs
                   PROVE  Said(Round, BaseLen, bs[k].stat, bs[k].found, bs[k].start)
        OBVIOUS
      <3>1. CASE k = n + 1
        BY <2>2, <2>3, <2>4, <3>1
      <3>2. CASE k # n + 1
        BY <2>4, <3>2 DEF BlocksSaid
      <3> QED
        BY <3>1, <3>2
    <2> QED
      BY <1>1, <2>1, <2>5
  <1> QED
    BY <1>2, <1>3

\* What reading record k adds to prev.
ReadMore(stat, k, prev) ==
    LET m == DecodeLzMatch(FALSE, Round, BaseLen, prev.pos, stat[k])
    IN [pos |-> m.dest + m.len,
        matches |-> Append(prev.matches, [src |-> m.src, dest |-> m.dest, len |-> m.len])]

IsReading(back, stat, start) ==
    back = [k \in 0 .. Len(stat) |-> IF k = 0 THEN [pos |-> start, matches |-> <<>>]
                                     ELSE ReadMore(stat, k, back[k - 1])]

\* Where the reader is after k records, and what it has read.
ReadUpTo(found, start, k) == [pos |-> EndOf(found, k, start), matches |-> SubSeq(found, 1, k)]

LEMMA ReadingIs ==
    ASSUME NEW back, NEW stat, NEW start, IsReading(back, stat, start), Len(stat) \in Nat
    PROVE  /\ back[0] = [pos |-> start, matches |-> <<>>]
           /\ \A k \in 1 .. Len(stat) : back[k] = ReadMore(stat, k, back[k - 1])
  <1> DEFINE n == Len(stat)
             f == [k \in 0 .. n |-> IF k = 0 THEN [pos |-> start, matches |-> <<>>]
                                    ELSE ReadMore(stat, k, back[k - 1])]
  <1>1. back = f /\ n \in Nat
    BY DEF IsReading
  <1>2. f[0] = [pos |-> start, matches |-> <<>>]
    BY <1>1
  <1>3. ASSUME NEW k \in 1 .. n PROVE f[k] = ReadMore(stat, k, back[k - 1])
    BY <1>1, <1>3
  <1> HIDE DEF f, n
  <1>4. \A k \in 1 .. n : back[k] = ReadMore(stat, k, back[k - 1])
    BY <1>1, <1>3
  <1> QED
    BY <1>1, <1>2, <1>4 DEF n

LEMMA ReadMoreIs ==
    ASSUME NEW found \in Seq(Match), NEW stat, NEW start, Said(Round, BaseLen, stat, found, start),
           NEW k \in 1 .. Len(found)
    PROVE  ReadMore(stat, k, ReadUpTo(found, start, k - 1)) = ReadUpTo(found, start, k)
  <1> DEFINE prev == ReadUpTo(found, start, k - 1)
             m == DecodeLzMatch(FALSE, Round, BaseLen, prev.pos, stat[k])
             x == [src |-> m.src, dest |-> m.dest, len |-> m.len]
             some == SubSeq(found, 1, k - 1)
             more == SubSeq(found, 1, k)
  <1>1. prev.pos = EndOf(found, k - 1, start) /\ prev.matches = some
    BY DEF ReadUpTo
  <1> HIDE DEF prev
  <1>2. m.src = found[k].src /\ m.dest = found[k].dest /\ m.len = found[k].len
    BY <1>1 DEF Said, States
  <1>3. found[k] \in Match
    OBVIOUS
  <1> HIDE DEF m
  <1>4. x = found[k]
    BY <1>2, <1>3 DEF Match
  <1>5. m.dest + m.len = EndOf(found, k, start)
    BY <1>2 DEF EndOf
  <1>6. Append(some, x) = more
    BY <1>3, <1>4
  <1> HIDE DEF x, some, more
  <1>7. ReadMore(stat, k, prev) = [pos |-> m.dest + m.len, matches |-> Append(prev.matches, x)]
    BY DEF ReadMore, m, x
  <1>8. ReadUpTo(found, start, k) = [pos |-> EndOf(found, k, start), matches |-> more]
    BY DEF ReadUpTo, more
  <1> QED
    BY <1>1, <1>5, <1>6, <1>7, <1>8 DEF prev

LEMMA ReadBackIs ==
    ASSUME NEW found \in Seq(Match), NEW stat, NEW start, Said(Round, BaseLen, stat, found, start)
    PROVE  ReadBack(stat, start) = found
  <1> DEFINE n == Len(found)
             w == [k \in 0 .. n |-> ReadUpTo(found, start, k)]
             c == CHOOSE back : IsReading(back, stat, start)
             first == [pos |-> start, matches |-> <<>>]
  <1>1. n \in Nat /\ Len(stat) = n
    BY DEF Said
  <1>2. ReadBack(stat, start) = c[n].matches
    BY <1>1 DEF ReadBack, IsReading, ReadMore
  <1>3. ReadUpTo(found, start, 0) = first
    <2>1. SubSeq(found, 1, 0) = <<>> /\ EndOf(found, 0, start) = start
      BY DEF EndOf
    <2> QED
      BY <2>1 DEF ReadUpTo
  <1>4. IsReading(w, stat, start)
    <2> DEFINE f == [k \in 0 .. n |-> IF k = 0 THEN first ELSE ReadMore(stat, k, w[k - 1])]
    <2>1. ASSUME NEW k \in 0 .. n PROVE w[k] = f[k]
      <3>1. CASE k = 0
        BY <1>1, <1>3, <3>1
      <3>2. CASE k # 0
        <4>1. k \in 1 .. n /\ k - 1 \in 0 .. n
          BY <1>1, <3>2
        <4>2. ReadMore(stat, k, ReadUpTo(found, start, k - 1)) = ReadUpTo(found, start, k)
          BY <4>1, ReadMoreIs
        <4>3. w[k - 1] = ReadUpTo(found, start, k - 1) /\ w[k] = ReadUpTo(found, start, k)
          BY <4>1
        <4> HIDE DEF w
        <4>4. f[k] = ReadMore(stat, k, w[k - 1])
          BY <3>2
        <4> QED
          BY <4>2, <4>3, <4>4
      <3> QED
        BY <3>1, <3>2
    <2>2. w = [k \in 0 .. n |-> w[k]] /\ f = [k \in 0 .. n |-> f[k]]
      OBVIOUS
    <2>3. IsReading(w, stat, start) <=> w = f
      BY <1>1 DEF IsReading
    <2> HIDE DEF w, f
    <2> QED
      BY <2>1, <2>2, <2>3
  <1>5. IsReading(c, stat, start)
    <2> HIDE DEF w
    <2> QED
      BY <1>4
  <1> HIDE DEF c, w, first
  <1>6. c[0] = first /\ \A k \in 1 .. n : c[k] = ReadMore(stat, k, c[k - 1])
    BY <1>1, <1>5, ReadingIs DEF first
  <1> DEFINE T == {k \in 0 .. n : c[k] = ReadUpTo(found, start, k)}
  <1>7. 0 \in T
    BY <1>1, <1>3, <1>6
  <1>8. ASSUME NEW k \in 0 .. n - 1, k \in T PROVE k + 1 \in T
    <2>1. k + 1 \in 1 .. n /\ (k + 1) - 1 = k /\ c[k] = ReadUpTo(found, start, k)
      BY <1>1, <1>8
    <2>2. ReadMore(stat, k + 1, ReadUpTo(found, start, k)) = ReadUpTo(found, start, k + 1)
      <3>1. ReadMore(stat, k + 1, ReadUpTo(found, start, (k + 1) - 1)) = ReadUpTo(found, start, k + 1)
        BY <2>1, ReadMoreIs
      <3> QED
        BY <2>1, <3>1
    <2>3. c[k + 1] = ReadMore(stat, k + 1, c[k])
      BY <1>6, <2>1
    <2> QED
      BY <1>1, <2>1, <2>2, <2>3
  <1> HIDE DEF T
  <1>9. n \in T
    BY <1>1, <1>7, <1>8, InductionUpTo
  <1>10. c[n].matches = SubSeq(found, 1, n)
    BY <1>9 DEF T, ReadUpTo
  <1>11. SubSeq(found, 1, n) = found
    OBVIOUS
  <1> QED
    BY <1>2, <1>10, <1>11

\* Read back with one base length, the records of a block say exactly its matches, whatever
\* mixture of searches has written them (srep.cpp:385, compress_cdc.cpp:208).
THEOREM RecordsAreReadBack ==
    ASSUME RecordsFit
    PROVE  Spec => []RecordsReadBack
  <1> DEFINE SaidInv == BlkSaid /\ BlocksSaid
  <1>1. ASSUME Init PROVE SaidInv
    BY <1>1 DEF Init, BlkSaid, BlocksSaid, Compressing
  <1>2. ASSUME IInv, SaidInv, [Next]_vars PROVE SaidInv'
    BY <1>2, BlkSaidKept, BlocksSaidKept
  <1>3. ASSUME IInv, SaidInv PROVE RecordsReadBack
    <2> SUFFICES ASSUME NEW k \in DOMAIN blocks
                 PROVE  ReadBack(blocks[k].stat, blocks[k].start) = blocks[k].found
      BY DEF RecordsReadBack
    <2>1. blocks[k].found \in Seq(Match)
      BY <1>3 DEF IInv, BlocksMatches, BlockOK, InOrder
    <2>2. Said(Round, BaseLen, blocks[k].stat, blocks[k].found, blocks[k].start)
      BY <1>3 DEF BlocksSaid
    <2> QED
      BY <2>1, <2>2, ReadBackIs
  <1> HIDE DEF SaidInv
  <1> QED
    BY <1>1, <1>2, <1>3, Inductive, PTL DEF Spec
=============================================================================
