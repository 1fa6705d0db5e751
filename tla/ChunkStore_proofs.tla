-------------------------- MODULE ChunkStore_proofs --------------------------
(***************************************************************************)
(* Proofs about ChunkStore, for any chunk size, block size, memory limit   *)
(* and strings.                                                            *)
(*                                                                         *)
(* The argument: at every moment there are sequences of chunks, one for    *)
(* each handle and one for the free chain, that the links follow from      *)
(* their first chunk to INVALID_INDEX; together they list each chunk but   *)
(* chunk 0 once.  Save moves chunks, one for each piece, from the head of  *)
(* the free chain to the end of a chain of their own, free moves all       *)
(* chunks of one chain to the head of the free chain; the other chains,    *)
(* and the bytes in them, stay as they are.                                *)
(***************************************************************************)
EXTENDS ChunkStore, Induction, FiniteSetTheorems, SequenceTheorems

Byte == UNION {Range(s) : s \in Strings}

\* The chunks of b allocation blocks.
Number(b) == 0 .. b * K - 1

Managers(b) ==
    [firstFree : Number(b) \cup {0}, next : [Number(b) -> Number(b)],
     payload : [Number(b) -> Seq(Byte)], used : Int, blocks : {b}]

AllManagers == UNION {Managers(b) : b \in Nat}

-----------------------------------------------------------------------------
(* The operations, on managers of the right type. *)

LEMMA Blocks ==
    ASSUME NEW b \in Nat
    PROVE  /\ K \in Nat /\ K > 1
           /\ b * K \in Nat
           /\ (b + 1) * K = b * K + K
           /\ b = 0 => b * K = 0
           /\ b > 0 => b * K >= K
<1>1. K \in Nat /\ K > 1
  BY ChunkStoreAssumption
<1>2. b * K \in Nat /\ (b + 1) * K = b * K + K /\ (b = 0 => b * K = 0)
  BY <1>1
<1>3. ASSUME b > 0 PROVE b * K >= K
  <2>1. b - 1 \in Nat /\ b * K = (b - 1) * K + K /\ (b - 1) * K \in Nat
    BY <1>1, <1>3
  <2> QED
    BY <1>1, <2>1
<1> QED
  BY <1>1, <1>2, <1>3

LEMMA ManagerShape ==
    ASSUME NEW m \in AllManagers
    PROVE  /\ m.blocks \in Nat
           /\ m \in Managers(m.blocks)
           /\ m.firstFree \in Number(m.blocks) \cup {0}
           /\ m.next \in [Number(m.blocks) -> Number(m.blocks)]
           /\ m.payload \in [Number(m.blocks) -> Seq(Byte)]
           /\ m.used \in Int
<1>1. PICK b \in Nat : m \in Managers(b)
  BY DEF AllManagers
<1>2. m.blocks = b
  BY <1>1 DEF Managers
<1> QED
  BY <1>1, <1>2 DEF Managers

LEMMA AllocateBlockIs ==
    ASSUME NEW m \in AllManagers
    PROVE  LET n == AllocateBlock(m)
               lo == m.blocks * K
           IN /\ n \in AllManagers
              /\ n.blocks = m.blocks + 1
              /\ n.used = m.used
              /\ n.firstFree = IF m.blocks = 0 THEN 1 ELSE lo
              /\ n.firstFree \in Number(n.blocks) \ {0}
              /\ Number(m.blocks) \subseteq Number(n.blocks)
              /\ \A c \in Number(m.blocks) : n.next[c] = m.next[c] /\ n.payload[c] = m.payload[c]
              /\ \A c \in lo .. lo + K - 2 : n.next[c] = c + 1
              /\ n.next[lo + K - 1] = m.firstFree
<1> DEFINE b == m.blocks
<1> DEFINE lo == b * K
<1> DEFINE hi == (b + 1) * K
<1> DEFINE new == lo .. hi - 1
<1> DEFINE first == IF lo = 0 THEN 1 ELSE lo
<1> DEFINE nx == [c \in DOMAIN m.next \cup new |->
                      IF c \notin new THEN m.next[c]
                      ELSE IF c = hi - 1 THEN m.firstFree ELSE c + 1]
<1> DEFINE pl == [c \in DOMAIN m.payload \cup new |->
                         IF c \notin new THEN m.payload[c] ELSE <<>>]
<1> DEFINE n == AllocateBlock(m)
<1>1. /\ b \in Nat /\ m \in Managers(b)
      /\ m.firstFree \in Number(b) \cup {0}
      /\ m.next \in [Number(b) -> Number(b)]
      /\ m.payload \in [Number(b) -> Seq(Byte)]
      /\ m.used \in Int
  BY ManagerShape
<1>2. /\ lo \in Nat /\ hi = lo + K /\ (b = 0 <=> lo = 0) /\ K \in Nat /\ K > 1
      /\ Number(b) = 0 .. lo - 1 /\ Number(b + 1) = 0 .. hi - 1
  <2>1. lo \in Nat /\ hi = lo + K /\ (b = 0 => lo = 0) /\ (b > 0 => lo >= K) /\ K \in Nat /\ K > 1
    BY <1>1, Blocks
  <2>2. Number(b) = 0 .. lo - 1 /\ Number(b + 1) = 0 .. hi - 1
    BY DEF Number
  <2> HIDE DEF b, lo, hi
  <2> QED
    BY <1>1, <2>1, <2>2
<1>3. n = [m EXCEPT !.next = nx, !.payload = pl, !.firstFree = first, !.blocks = @ + 1]
  BY DEF AllocateBlock, FirstOfNewBlock, INVALID_INDEX
<1> HIDE DEF b, lo, hi
<1>4. Number(b) \cup new = Number(b + 1) /\ \A c \in Number(b) : c \notin new
  <2>1. \A c \in Number(b) : c \notin new
    BY <1>2
  <2>2. \A c : c \in Number(b) \cup new <=> c \in Number(b + 1)
    BY <1>2
  <2> QED
    BY <2>1, <2>2
<1>5. nx \in [Number(b + 1) -> Number(b + 1)]
  <2>1. ASSUME NEW c \in Number(b + 1)
        PROVE  (IF c \notin new THEN m.next[c] ELSE IF c = hi - 1 THEN m.firstFree ELSE c + 1)
                  \in Number(b + 1)
    <3>1. CASE c \notin new
      BY <1>1, <1>4, <3>1
    <3>2. CASE c \in new /\ c = hi - 1
      BY <1>1, <1>2, <1>4, <3>2
    <3>3. CASE c \in new /\ c # hi - 1
      <4>1. c \in lo .. hi - 1 /\ c # hi - 1
        BY <3>3
      <4>2. c + 1 \in Number(b + 1)
        BY <1>2, <4>1
      <4> QED
        BY <3>3, <4>2
    <3> QED
      BY <3>1, <3>2, <3>3
  <2>2. DOMAIN m.next \cup new = Number(b + 1)
    BY <1>1, <1>4
  <2> HIDE DEF new
  <2> QED
    BY <2>1, <2>2
<1>6. pl \in [Number(b + 1) -> Seq(Byte)]
  <2>1. ASSUME NEW c \in Number(b + 1)
        PROVE  (IF c \notin new THEN m.payload[c] ELSE <<>>) \in Seq(Byte)
    <3>1. CASE c \notin new
      BY <1>1, <1>4, <3>1
    <3>2. CASE c \in new
      BY <3>2, EmptySeq
    <3> QED
      BY <3>1, <3>2
  <2>2. DOMAIN m.payload \cup new = Number(b + 1)
    BY <1>1, <1>4
  <2> HIDE DEF new
  <2> QED
    BY <2>1, <2>2
<1>7. first \in Number(b + 1) \ {0}
  BY <1>1, <1>2
<1>8. /\ \A c \in Number(b) : nx[c] = m.next[c] /\ pl[c] = m.payload[c]
      /\ \A c \in lo .. lo + K - 2 : nx[c] = c + 1
      /\ nx[lo + K - 1] = m.firstFree
  <2>1. ASSUME NEW c \in Number(b)
        PROVE  nx[c] = m.next[c] /\ pl[c] = m.payload[c]
    BY <1>1, <1>4
  <2>2. ASSUME NEW c \in lo .. lo + K - 2 PROVE nx[c] = c + 1
    <3>1. c \in new /\ c # hi - 1
      BY <1>1, <1>2
    <3> QED
      BY <3>1
  <2>3. nx[lo + K - 1] = m.firstFree
    <3>1. lo + K - 1 \in new /\ lo + K - 1 = hi - 1
      BY <1>1, <1>2
    <3> QED
      BY <3>1
  <2> QED
    BY <2>1, <2>2, <2>3
<1> HIDE DEF nx, pl, first, n, new
<1>9. /\ n \in Managers(b + 1)
      /\ n.blocks = b + 1 /\ n.used = m.used /\ n.firstFree = first
      /\ n.next = nx /\ n.payload = pl
  BY <1>1, <1>3, <1>5, <1>6, <1>7 DEF Managers, b
<1>10. b + 1 \in Nat /\ n \in AllManagers
  BY <1>1, <1>9 DEF AllManagers
<1> QED
  BY <1>2, <1>4, <1>7, <1>8, <1>9, <1>10 DEF b, lo, n, first

\* The manager after allocate has made sure that there is a free chunk.
Grown(m) == IF m.firstFree = 0 THEN AllocateBlock(m) ELSE m

LEMMA GrownIs ==
    ASSUME NEW m \in AllManagers
    PROVE  LET n == Grown(m)
           IN /\ n \in AllManagers
              /\ n.firstFree \in Number(n.blocks) \ {0}
              /\ n.used = m.used
              /\ Number(m.blocks) \subseteq Number(n.blocks)
              /\ \A c \in Number(m.blocks) : n.next[c] = m.next[c] /\ n.payload[c] = m.payload[c]
              /\ Taken(m) = n.firstFree
              /\ Allocate(m) = [n EXCEPT !.firstFree = n.next[n.firstFree], !.used = n.used + 1]
<1>1. CASE m.firstFree = 0
  <2>1. Grown(m) = AllocateBlock(m)
    BY <1>1 DEF Grown
  <2>2. Taken(m) = AllocateBlock(m).firstFree
    BY <1>1 DEF Taken, INVALID_INDEX
  <2> DEFINE n == AllocateBlock(m)
  <2>3. Allocate(m) = [n EXCEPT !.firstFree = n.next[n.firstFree], !.used = @ + 1]
    BY <1>1 DEF Allocate, INVALID_INDEX
  <2>4. /\ n \in AllManagers
        /\ n.firstFree \in Number(n.blocks) \ {0}
        /\ n.used = m.used
        /\ Number(m.blocks) \subseteq Number(n.blocks)
        /\ \A c \in Number(m.blocks) : n.next[c] = m.next[c] /\ n.payload[c] = m.payload[c]
    BY AllocateBlockIs
  <2> HIDE DEF n
  <2>5. n \in Managers(n.blocks)
    BY <2>4, ManagerShape
  <2>6. Allocate(m) = [n EXCEPT !.firstFree = n.next[n.firstFree], !.used = n.used + 1]
    BY <2>3, <2>5 DEF Managers
  <2> QED
    BY <2>1, <2>2, <2>4, <2>6 DEF n
<1>2. CASE m.firstFree # 0
  <2>1. Grown(m) = m /\ Taken(m) = m.firstFree
    BY <1>2 DEF Grown, Taken, INVALID_INDEX
  <2>2. Allocate(m) = [m EXCEPT !.firstFree = m.next[m.firstFree], !.used = m.used + 1]
    BY <1>2 DEF Allocate, INVALID_INDEX
  <2> QED
    BY <1>2, <2>1, <2>2, ManagerShape
<1> QED
  BY <1>1, <1>2

\* What save keeps between two rounds of its loop.
Savings ==
    {acc \in [m : AllManagers, prev : Nat, first : Nat] :
        acc.prev \in Number(acc.m.blocks) \cup {0}}

LEMMA SavePieceIs ==
    ASSUME NEW acc \in Savings, NEW piece \in Seq(Byte)
    PROVE  LET n == Grown(acc.m)
               r == SavePiece(acc, piece)
           IN /\ r \in Savings
              /\ r.prev = n.firstFree
              /\ r.first = IF acc.prev = 0 THEN n.firstFree ELSE acc.first
              /\ r.m.blocks = n.blocks
              /\ r.m.used = n.used + 1
              /\ r.m.firstFree = n.next[n.firstFree]
              /\ r.m.next = IF acc.prev = 0 THEN n.next
                            ELSE [n.next EXCEPT ![acc.prev] = n.firstFree]
              /\ r.m.payload = [n.payload EXCEPT ![n.firstFree] = piece]
<1> DEFINE n == Grown(acc.m)
<1> DEFINE x == n.firstFree
<1> DEFINE a == Allocate(acc.m)
<1> DEFINE nx == IF acc.prev = 0 THEN n.next ELSE [n.next EXCEPT ![acc.prev] = x]
<1> DEFINE pl == [n.payload EXCEPT ![x] = piece]
<1> DEFINE first == IF acc.prev = 0 THEN x ELSE acc.first
<1> DEFINE l == LinkAfter(a, acc.prev, x)
<1> DEFINE rm == [l EXCEPT !.payload[x] = piece]
<1>1. /\ acc.m \in AllManagers /\ acc.prev \in Nat /\ acc.first \in Nat
      /\ acc.prev \in Number(acc.m.blocks) \cup {0}
  BY DEF Savings
<1>2. /\ n \in AllManagers
      /\ x \in Number(n.blocks) \ {0}
      /\ Number(acc.m.blocks) \subseteq Number(n.blocks)
      /\ Taken(acc.m) = x
      /\ a = [n EXCEPT !.firstFree = n.next[x], !.used = n.used + 1]
  BY <1>1, GrownIs
<1>3. SavePiece(acc, piece) = [m |-> rm, prev |-> x, first |-> first]
  BY <1>2 DEF SavePiece, INVALID_INDEX
<1> HIDE DEF n
<1>4. /\ n \in Managers(n.blocks) /\ n.blocks \in Nat
      /\ n.next \in [Number(n.blocks) -> Number(n.blocks)]
      /\ n.payload \in [Number(n.blocks) -> Seq(Byte)]
      /\ n.used \in Int
  BY <1>2, ManagerShape
<1>5. /\ a \in Managers(n.blocks) /\ a.blocks = n.blocks /\ a.next = n.next
      /\ a.payload = n.payload /\ a.firstFree = n.next[x] /\ a.used = n.used + 1
  <2> HIDE DEF a, x
  <2>1. n.next[x] \in Number(n.blocks) /\ n.used + 1 \in Int
    BY <1>2, <1>4
  <2> QED
    BY <1>2, <1>4, <2>1 DEF Managers
<1>6. nx \in [Number(n.blocks) -> Number(n.blocks)]
  <2> HIDE DEF x
  <2>1. CASE acc.prev = 0
    BY <1>4, <2>1
  <2>2. CASE acc.prev # 0
    <3>1. acc.prev \in Number(n.blocks) /\ x \in Number(n.blocks)
      BY <1>1, <1>2, <2>2
    <3> QED
      BY <1>4, <2>2, <3>1
  <2> QED
    BY <2>1, <2>2
<1>7. /\ l \in Managers(n.blocks) /\ l.blocks = n.blocks /\ l.next = nx
      /\ l.payload = n.payload /\ l.firstFree = n.next[x] /\ l.used = n.used + 1
  <2> HIDE DEF a, x
  <2>1. CASE acc.prev = 0
    BY <1>5, <2>1 DEF LinkAfter, INVALID_INDEX
  <2>2. CASE acc.prev # 0
    <3>1. l = [a EXCEPT !.next = nx]
      BY <1>5, <2>2 DEF LinkAfter, INVALID_INDEX, Managers
    <3> HIDE DEF l, nx
    <3> QED
      BY <1>5, <1>6, <3>1 DEF Managers
  <2> QED
    BY <2>1, <2>2
<1>8. pl \in [Number(n.blocks) -> Seq(Byte)]
  <2> HIDE DEF x
  <2> QED
    BY <1>2, <1>4
<1>9. /\ rm \in Managers(n.blocks) /\ rm.blocks = n.blocks /\ rm.next = nx
      /\ rm.payload = pl /\ rm.firstFree = n.next[x] /\ rm.used = n.used + 1
  <2> HIDE DEF l, x, nx
  <2>1. rm = [l EXCEPT !.payload = pl]
    BY <1>7 DEF Managers
  <2> HIDE DEF rm, pl
  <2> QED
    BY <1>7, <1>8, <2>1 DEF Managers
<1>10. rm \in AllManagers /\ x \in Nat /\ first \in Nat
  <2> HIDE DEF rm, x
  <2>1. x \in Nat
    BY <1>2, <1>4, Blocks DEF Number
  <2> QED
    BY <1>1, <1>4, <1>9, <2>1 DEF AllManagers
<1> HIDE DEF rm, nx, pl, x, first
<1>11. /\ SavePiece(acc, piece) \in Savings
       /\ SavePiece(acc, piece).m = rm /\ SavePiece(acc, piece).prev = x
       /\ SavePiece(acc, piece).first = first
  BY <1>2, <1>3, <1>9, <1>10 DEF Savings
<1> QED
  BY <1>9, <1>11 DEF nx, pl, x, n, first

-----------------------------------------------------------------------------
(* The two folds, as recursions over the number of elements done. *)

LEMMA SaveFold ==
    ASSUME NEW acc \in Savings, NEW pieces \in Seq(Seq(Byte))
    PROVE  \E saved \in [0 .. Len(pieces) -> Savings] :
              /\ saved[0] = acc
              /\ \A k \in 1 .. Len(pieces) : saved[k] = SavePiece(saved[k - 1], pieces[k])
              /\ saved[Len(pieces)] = FoldLeft(SavePiece, acc, pieces)
<1> DEFINE n == Len(pieces)
<1> DEFINE step == [i \in 1 .. n |-> [v \in Savings |-> SavePiece(v, pieces[i])]]
<1> DEFINE Solves(iter) ==
        iter = [s \in SUBSET (1 .. n) |->
                   IF s = {} THEN acc
                   ELSE SavePiece(iter[s \ {Greatest(s)}], pieces[Greatest(s)])]
<1>1. n \in Nat /\ DOMAIN pieces = 1 .. n /\ \A i \in 1 .. n : pieces[i] \in Seq(Byte)
  OBVIOUS
<1> DEFINE folded == FoldLeft(SavePiece, acc, pieces)
<1>2. folded = (CHOOSE iter : Solves(iter))[1 .. n]
  BY <1>1 DEF FoldLeft, MapThenFoldSet, Max, Greatest
<1> HIDE DEF folded
<1> HIDE DEF n
<1>0. \A i \in 1 .. n, v \in Savings : SavePiece(v, pieces[i]) \in Savings
  BY <1>1, SavePieceIs
<1>3. /\ step \in [1 .. n -> [Savings -> Savings]]
      /\ \A i \in 1 .. n, v \in Savings : step[i][v] = SavePiece(v, pieces[i])
  BY <1>0
<1>4. PICK f : IsFold(f, step, n, Savings, acc)
  <2>1. AreSteps(step, n, Savings, acc)
    BY <1>1, <1>3 DEF AreSteps
  <2> HIDE DEF step
  <2> QED
    BY <2>1, FoldExists
<1> HIDE DEF step
<1>5. \A s \in SUBSET (1 .. n) : s # {} => Greatest(s) \in s
  BY <1>1, GreatestExists DEF Greatest
<1>6. Solves(f)
  <2>1. ASSUME NEW s \in SUBSET (1 .. n), s # {}
        PROVE  step[Greatest(s)][f[s \ {Greatest(s)}]] =
                  SavePiece(f[s \ {Greatest(s)}], pieces[Greatest(s)])
    <3>1. Greatest(s) \in 1 .. n /\ s \ {Greatest(s)} \in SUBSET (1 .. n)
      BY <1>5, <2>1
    <3>2. f[s \ {Greatest(s)}] \in Savings
      BY <1>4, <3>1 DEF IsFold
    <3> QED
      BY <1>3, <3>1, <3>2
  <2> DEFINE g == [s \in SUBSET (1 .. n) |->
                     IF s = {} THEN acc
                     ELSE SavePiece(f[s \ {Greatest(s)}], pieces[Greatest(s)])]
  <2>2. \A s \in SUBSET (1 .. n) : f[s] = g[s]
    BY <1>4, <2>1 DEF IsFold
  <2>3. g = [s \in SUBSET (1 .. n) |-> g[s]] /\ f = [s \in SUBSET (1 .. n) |-> f[s]]
    BY <1>4 DEF IsFold
  <2> HIDE DEF g
  <2>4. f = g
    BY <2>2, <2>3
  <2> QED
    BY <2>4 DEF g
<1>7. PICK iter : Solves(iter) /\ folded = iter[1 .. n]
  <2> HIDE DEF Solves
  <2> QED
    BY <1>2, <1>6
<1> DEFINE saved == [k \in 0 .. n |-> iter[1 .. k]]
<1>8. saved[0] = acc
  <2>1. 1 .. 0 = {} /\ {} \in SUBSET (1 .. n) /\ 0 \in 0 .. n
    BY <1>1
  <2> QED
    BY <1>7, <2>1
<1>9. ASSUME NEW k \in 1 .. n
      PROVE  saved[k] = SavePiece(saved[k - 1], pieces[k])
  <2>0. k \in Nat /\ k > 0 /\ 1 \in 1 .. k /\ k \in 0 .. n /\ k - 1 \in 0 .. n
        /\ \A x \in 1 .. k : x \in 1 .. n
    BY <1>1
  <2>1. 1 .. k \in SUBSET (1 .. n) /\ 1 .. k # {}
    BY <2>0
  <2>2. Greatest(1 .. k) = k /\ (1 .. k) \ {k} = 1 .. k - 1
    BY <2>0, GreatestOfInterval
  <2>3. iter[1 .. k] = SavePiece(iter[(1 .. k) \ {Greatest(1 .. k)}], pieces[Greatest(1 .. k)])
    BY <1>7, <2>1
  <2> QED
    BY <2>0, <2>2, <2>3
<1>10. saved[n] = folded
  <2>1. n \in 0 .. n
    BY <1>1
  <2> QED
    BY <1>7, <2>1
<1>11. saved \in [0 .. n -> Savings]
  <2> DEFINE T == {k \in 0 .. n : saved[k] \in Savings}
  <2> HIDE DEF saved
  <2>1. 0 \in T
    BY <1>1, <1>8
  <2>2. ASSUME NEW i \in 0 .. n - 1, i \in T
        PROVE  i + 1 \in T
    <3>1. i + 1 \in 1 .. n /\ i + 1 \in 0 .. n /\ (i + 1) - 1 = i
      BY <1>1
    <3>2. saved[i + 1] = SavePiece(saved[i], pieces[i + 1])
      BY <1>9, <3>1
    <3> QED
      BY <1>0, <2>2, <3>1, <3>2
  <2>3. 0 .. n \subseteq T
    <3> HIDE DEF T
    <3> QED
      BY <1>1, <2>1, <2>2, InductionUpTo
  <2>4. \A k \in 0 .. n : saved[k] \in Savings
    BY <2>3
  <2>5. saved = [k \in 0 .. n |-> saved[k]]
    BY DEF saved
  <2> QED
    BY <2>4, <2>5
<1> HIDE DEF saved
<1>12. n = Len(pieces) /\ folded = FoldLeft(SavePiece, acc, pieces)
  BY DEF n, folded
<1> QED
  BY <1>8, <1>9, <1>10, <1>11, <1>12

LEMMA MarkAsFreeIs ==
    ASSUME NEW b \in Nat, NEW m \in Managers(b), NEW c \in Number(b)
    PROVE  LET r == MarkAsFree(m, c)
           IN /\ r \in Managers(b)
              /\ r.firstFree = c
              /\ r.next = [m.next EXCEPT ![c] = m.firstFree]
              /\ r.payload = m.payload
              /\ r.used = m.used - 1
              /\ r.blocks = m.blocks
<1> DEFINE nx == [m.next EXCEPT ![c] = m.firstFree]
<1>1. MarkAsFree(m, c) = [m EXCEPT !.next = nx, !.firstFree = c, !.used = m.used - 1]
  BY DEF MarkAsFree, Managers
<1>2. nx \in [Number(b) -> Number(b)]
  <2>1. m.firstFree \in Number(b)
    <3>1. 0 \in Number(b)
      BY Blocks DEF Number
    <3> QED
      BY <3>1 DEF Managers
  <2> QED
    BY <2>1 DEF Managers
<1> HIDE DEF nx
<1> DEFINE r == MarkAsFree(m, c)
<1> HIDE DEF r
<1>3. /\ r \in Managers(b) /\ r.firstFree = c /\ r.next = nx
      /\ r.payload = m.payload /\ r.used = m.used - 1 /\ r.blocks = m.blocks
  <2>1. r = [m EXCEPT !.next = nx, !.firstFree = c, !.used = m.used - 1]
    BY <1>1 DEF r
  <2>2. m.used - 1 \in Int
    BY DEF Managers
  <2> QED
    BY <1>2, <2>1, <2>2 DEF Managers
<1> QED
  BY <1>3 DEF nx, r

LEMMA FreeFold ==
    ASSUME NEW b \in Nat, NEW m \in Managers(b), NEW chain \in Seq(Number(b))
    PROVE  \E freed \in [0 .. Len(chain) -> Managers(b)] :
              /\ freed[0] = m
              /\ \A k \in 1 .. Len(chain) : freed[k] = MarkAsFree(freed[k - 1], chain[k])
              /\ freed[Len(chain)] = FoldLeft(MarkAsFree, m, chain)
<1> DEFINE n == Len(chain)
<1> DEFINE S == Managers(b)
<1> DEFINE step == [i \in 1 .. n |-> [v \in S |-> MarkAsFree(v, chain[i])]]
<1> DEFINE Solves(iter) ==
        iter = [s \in SUBSET (1 .. n) |->
                   IF s = {} THEN m
                   ELSE MarkAsFree(iter[s \ {Greatest(s)}], chain[Greatest(s)])]
<1>1. n \in Nat /\ DOMAIN chain = 1 .. n /\ \A i \in 1 .. n : chain[i] \in Number(b)
  OBVIOUS
<1> DEFINE folded == FoldLeft(MarkAsFree, m, chain)
<1>2. folded = (CHOOSE iter : Solves(iter))[1 .. n]
  BY <1>1 DEF FoldLeft, MapThenFoldSet, Max, Greatest
<1> HIDE DEF folded
<1>0. \A i \in 1 .. n, v \in S : MarkAsFree(v, chain[i]) \in S
  BY <1>1, MarkAsFreeIs
<1> HIDE DEF n, S
<1>3. /\ step \in [1 .. n -> [S -> S]]
      /\ \A i \in 1 .. n, v \in S : step[i][v] = MarkAsFree(v, chain[i])
  BY <1>0
<1>4. PICK f : IsFold(f, step, n, S, m)
  <2>1. AreSteps(step, n, S, m)
    BY <1>1, <1>3 DEF AreSteps, S
  <2> HIDE DEF step
  <2> QED
    BY <2>1, FoldExists
<1> HIDE DEF step
<1>5. \A s \in SUBSET (1 .. n) : s # {} => Greatest(s) \in s
  BY <1>1, GreatestExists DEF Greatest
<1>6. Solves(f)
  <2>1. ASSUME NEW s \in SUBSET (1 .. n), s # {}
        PROVE  step[Greatest(s)][f[s \ {Greatest(s)}]] =
                  MarkAsFree(f[s \ {Greatest(s)}], chain[Greatest(s)])
    <3>1. Greatest(s) \in 1 .. n /\ s \ {Greatest(s)} \in SUBSET (1 .. n)
      BY <1>5, <2>1
    <3>2. f[s \ {Greatest(s)}] \in S
      BY <1>4, <3>1 DEF IsFold
    <3> QED
      BY <1>3, <3>1, <3>2
  <2> DEFINE g == [s \in SUBSET (1 .. n) |->
                     IF s = {} THEN m
                     ELSE MarkAsFree(f[s \ {Greatest(s)}], chain[Greatest(s)])]
  <2>2. \A s \in SUBSET (1 .. n) : f[s] = g[s]
    BY <1>4, <2>1 DEF IsFold
  <2>3. g = [s \in SUBSET (1 .. n) |-> g[s]] /\ f = [s \in SUBSET (1 .. n) |-> f[s]]
    BY <1>4 DEF IsFold
  <2> HIDE DEF g
  <2>4. f = g
    BY <2>2, <2>3
  <2> QED
    BY <2>4 DEF g
<1>7. PICK iter : Solves(iter) /\ folded = iter[1 .. n]
  <2> HIDE DEF Solves
  <2> QED
    BY <1>2, <1>6
<1> DEFINE freed == [k \in 0 .. n |-> iter[1 .. k]]
<1>8. freed[0] = m
  <2>1. 1 .. 0 = {} /\ {} \in SUBSET (1 .. n) /\ 0 \in 0 .. n
    BY <1>1
  <2> QED
    BY <1>7, <2>1
<1>9. ASSUME NEW k \in 1 .. n
      PROVE  freed[k] = MarkAsFree(freed[k - 1], chain[k])
  <2>0. k \in Nat /\ k > 0 /\ 1 \in 1 .. k /\ k \in 0 .. n /\ k - 1 \in 0 .. n
        /\ \A x \in 1 .. k : x \in 1 .. n
    BY <1>1
  <2>1. 1 .. k \in SUBSET (1 .. n) /\ 1 .. k # {}
    BY <2>0
  <2>2. Greatest(1 .. k) = k /\ (1 .. k) \ {k} = 1 .. k - 1
    BY <2>0, GreatestOfInterval
  <2>3. iter[1 .. k] = MarkAsFree(iter[(1 .. k) \ {Greatest(1 .. k)}], chain[Greatest(1 .. k)])
    BY <1>7, <2>1
  <2> QED
    BY <2>0, <2>2, <2>3
<1>10. freed[n] = folded
  <2>1. n \in 0 .. n
    BY <1>1
  <2> QED
    BY <1>7, <2>1
<1>11. freed \in [0 .. n -> S]
  <2> DEFINE T == {k \in 0 .. n : freed[k] \in S}
  <2> HIDE DEF freed
  <2>1. 0 \in T
    BY <1>1, <1>8 DEF S
  <2>2. ASSUME NEW i \in 0 .. n - 1, i \in T
        PROVE  i + 1 \in T
    <3>1. i + 1 \in 1 .. n /\ i + 1 \in 0 .. n /\ (i + 1) - 1 = i
      BY <1>1
    <3>2. freed[i + 1] = MarkAsFree(freed[i], chain[i + 1])
      BY <1>9, <3>1
    <3> QED
      BY <1>0, <2>2, <3>1, <3>2
  <2>3. 0 .. n \subseteq T
    <3> HIDE DEF T
    <3> QED
      BY <1>1, <2>1, <2>2, InductionUpTo
  <2>4. \A k \in 0 .. n : freed[k] \in S
    BY <2>3
  <2>5. freed = [k \in 0 .. n |-> freed[k]]
    BY DEF freed
  <2> QED
    BY <2>4, <2>5
<1> HIDE DEF freed
<1>12. n = Len(chain) /\ S = Managers(b) /\ folded = FoldLeft(MarkAsFree, m, chain)
  BY DEF n, S, folded
<1> QED
  BY <1>8, <1>9, <1>10, <1>11, <1>12

-----------------------------------------------------------------------------
(* The chains.  ch is a function from handles to sequences of chunks; ch[0] is *)
(* the free chain, ch[-1], during save, the chain that is being built.         *)

Linked(m, s, first) ==
    /\ Len(s) = 0 => first = 0
    /\ Len(s) > 0 => first = s[1] /\ m.next[s[Len(s)]] = 0
    /\ \A i \in 1 .. Len(s) - 1 : m.next[s[i]] = s[i + 1]

Places(s) == 1 .. Len(s)

FreeCount(m, ch) ==
    m.used + Len(ch[0]) = IF m.blocks = 0 THEN 0 ELSE m.blocks * K - 1

Heap(m, ch) ==
    /\ m \in AllManagers
    /\ 0 \in DOMAIN ch /\ DOMAIN ch \subseteq Int
    /\ \A h \in DOMAIN ch : ch[h] \in Seq(Number(m.blocks) \ {0})
    /\ \A g, h \in DOMAIN ch : \A i \in Places(ch[g]), j \in Places(ch[h]) :
          ch[g][i] = ch[h][j] => g = h /\ i = j
    /\ \A c \in Number(m.blocks) \ {0} :
          \E h \in DOMAIN ch : \E i \in Places(ch[h]) : ch[h][i] = c
    /\ Linked(m, ch[0], m.firstFree)
    /\ FreeCount(m, ch)

\* From m to n, nothing has changed in the chunks of s.
Untouched(m, n, s) ==
    \A i \in Places(s) : n.next[s[i]] = m.next[s[i]] /\ n.payload[s[i]] = m.payload[s[i]]

LEMMA HeapShape ==
    ASSUME NEW m, NEW ch, Heap(m, ch)
    PROVE  /\ m.blocks \in Nat /\ m.used \in Int
           /\ m \in Managers(m.blocks)
           /\ m.next \in [Number(m.blocks) -> Number(m.blocks)]
           /\ m.payload \in [Number(m.blocks) -> Seq(Byte)]
           /\ \A h \in DOMAIN ch :
                 /\ Len(ch[h]) \in Nat
                 /\ \A i \in Places(ch[h]) : ch[h][i] \in Number(m.blocks) \ {0}
<1>1. /\ m.blocks \in Nat /\ m.used \in Int
      /\ m \in Managers(m.blocks)
      /\ m.next \in [Number(m.blocks) -> Number(m.blocks)]
      /\ m.payload \in [Number(m.blocks) -> Seq(Byte)]
  BY ManagerShape DEF Heap
<1>2. ASSUME NEW h \in DOMAIN ch
      PROVE  /\ Len(ch[h]) \in Nat
             /\ \A i \in Places(ch[h]) : ch[h][i] \in Number(m.blocks) \ {0}
  BY DEF Heap, Places
<1> QED
  BY <1>1, <1>2

\* allocate_block, when the free chain is empty, makes one of the new chunks.
LEMMA GrownHeap ==
    ASSUME NEW m, NEW ch, Heap(m, ch)
    PROVE  \E ch2 :
              /\ Heap(Grown(m), ch2)
              /\ DOMAIN ch2 = DOMAIN ch
              /\ \A h \in DOMAIN ch \ {0} : ch2[h] = ch[h]
              /\ Len(ch2[0]) > 0
<1>1. CASE m.firstFree # 0
  <2>1. Grown(m) = m
    BY <1>1 DEF Grown
  <2>2. Len(ch[0]) > 0
    BY <1>1, HeapShape DEF Heap, Linked
  <2> QED
    BY <2>1, <2>2
<1>2. CASE m.firstFree = 0
  <2> DEFINE n == AllocateBlock(m)
  <2> DEFINE b == m.blocks
  <2> DEFINE lo == b * K
  <2> DEFINE f == n.firstFree
  <2> DEFINE cnt == lo + K - f
  <2> DEFINE new == [i \in 1 .. cnt |-> f + i - 1]
  <2>1. Grown(m) = n
    BY <1>2 DEF Grown
  <2>2. /\ b \in Nat /\ m.used \in Int
        /\ \A h \in DOMAIN ch :
                 /\ Len(ch[h]) \in Nat
                 /\ ch[h] \in Seq(Number(b) \ {0})
                 /\ \A i \in Places(ch[h]) : ch[h][i] \in Number(b) \ {0}
    BY HeapShape DEF Heap
  <2>3. /\ K \in Nat /\ K > 1 /\ lo \in Nat /\ (b + 1) * K = lo + K
        /\ (b = 0 => lo = 0) /\ (b > 0 => lo >= K)
        /\ Number(b) = 0 .. lo - 1
    BY <2>2, Blocks DEF Number
  <2>4. Number(b + 1) = 0 .. lo + K - 1
    <3>1. Number(b + 1) = 0 .. (b + 1) * K - 1
      BY DEF Number
    <3> HIDE DEF b, lo
    <3> QED
      BY <2>3, <3>1
  <2>5. /\ n \in AllManagers
        /\ n.blocks = b + 1
        /\ n.used = m.used
        /\ f = IF b = 0 THEN 1 ELSE lo
        /\ \A c \in Number(b) : n.next[c] = m.next[c]
        /\ \A c \in lo .. lo + K - 2 : n.next[c] = c + 1
        /\ n.next[lo + K - 1] = m.firstFree
    BY AllocateBlockIs DEF Heap
  <2> HIDE DEF n, b, lo, f
  <2>6. /\ f \in Nat /\ f >= lo /\ f > 0 /\ cnt \in Nat /\ cnt > 0
    BY <2>2, <2>3, <2>5
  <2>7. /\ new \in Seq(Number(b + 1) \ {0}) /\ Len(new) = cnt
        /\ \A i \in 1 .. cnt : new[i] = f + i - 1
    <3>1. \A i \in 1 .. cnt : f + i - 1 \in Number(b + 1) \ {0}
      BY <2>3, <2>4, <2>6
    <3> HIDE DEF cnt
    <3>2. new \in Seq(Number(b + 1) \ {0})
      BY <2>6, <3>1, IsASeq
    <3> QED
      BY <2>6, <3>2, LenProperties
  <2> HIDE DEF new, cnt
  <2>8. Len(ch[0]) = 0
    <3>1. 0 \in DOMAIN ch /\ Linked(m, ch[0], 0)
      BY <1>2 DEF Heap
    <3>2. Len(ch[0]) > 0 => ch[0][1] \in Number(b) \ {0} /\ ch[0][1] = 0
      BY <2>2, <3>1 DEF Linked, Places
    <3> QED
      BY <2>2, <3>1, <3>2
  <2> DEFINE ch2 == [h \in DOMAIN ch |-> IF h = 0 THEN new ELSE ch[h]]
  <2>9. /\ DOMAIN ch2 = DOMAIN ch /\ 0 \in DOMAIN ch /\ DOMAIN ch \subseteq Int
        /\ ch2[0] = new
        /\ \A h \in DOMAIN ch \ {0} : ch2[h] = ch[h]
    BY DEF Heap
  <2> HIDE DEF ch2
  <2>10. ASSUME NEW h \in DOMAIN ch
         PROVE  ch2[h] \in Seq(Number(b + 1) \ {0})
    <3>1. CASE h = 0
      BY <2>7, <2>9, <3>1
    <3>2. CASE h # 0
      <4>1. ch[h] \in Seq(Number(b) \ {0})
        BY <2>2
      <4>2. Number(b) \ {0} \subseteq Number(b + 1) \ {0}
        BY <2>3, <2>4
      <4> QED
        BY <2>9, <3>2, <4>1, <4>2
    <3> QED
      BY <3>1, <3>2
  <2>11. \A h \in DOMAIN ch : \A i \in Places(ch2[h]) :
            /\ h = 0 => i \in 1 .. cnt /\ ch2[h][i] = f + i - 1
            /\ h # 0 => i \in Places(ch[h]) /\ ch2[h][i] = ch[h][i] /\ ch[h][i] \in 0 .. lo - 1
    BY <2>2, <2>3, <2>7, <2>9 DEF Places
  <2>12. ASSUME NEW g \in DOMAIN ch, NEW h \in DOMAIN ch,
                NEW i \in Places(ch2[g]), NEW j \in Places(ch2[h]), ch2[g][i] = ch2[h][j]
         PROVE  g = h /\ i = j
    <3>1. CASE g = 0 /\ h = 0
      BY <2>6, <2>11, <2>12, <3>1
    <3>2. CASE g # 0 /\ h # 0
      BY <2>11, <2>12, <3>2 DEF Heap
    <3>3. CASE (g = 0 /\ h # 0) \/ (g # 0 /\ h = 0)
      BY <2>3, <2>6, <2>11, <2>12, <3>3
    <3> QED
      BY <3>1, <3>2, <3>3
  <2>13. ASSUME NEW c \in Number(b + 1) \ {0}
         PROVE  \E h \in DOMAIN ch : \E i \in Places(ch2[h]) : ch2[h][i] = c
    <3>1. CASE c < lo
      <4>1. c \in Number(b) \ {0}
        BY <2>3, <2>4, <3>1
      <4>2. PICK h \in DOMAIN ch : \E i \in Places(ch[h]) : ch[h][i] = c
        BY <4>1 DEF Heap, b
      <4>3. h # 0
        BY <2>8, <4>2 DEF Places
      <4> QED
        BY <2>9, <4>2, <4>3
    <3>2. CASE c >= lo
      <4> DEFINE i == c - f + 1
      <4>1. c \in Nat /\ c # 0 /\ c <= lo + K - 1 /\ c >= f
        BY <2>2, <2>3, <2>4, <2>5, <3>2
      <4>2. i \in 1 .. cnt /\ f + i - 1 = c
        BY <2>3, <2>6, <4>1 DEF cnt
      <4>3. i \in Places(ch2[0]) /\ ch2[0][i] = c
        BY <2>7, <2>9, <4>2 DEF Places
      <4> QED
        BY <2>9, <4>3
    <3> QED
      BY <2>3, <2>4, <3>1, <3>2
  <2>14. Linked(n, ch2[0], f)
    <3>1. Len(new) = cnt /\ cnt > 0 /\ new[1] = f /\ new[cnt] = lo + K - 1
      BY <2>3, <2>6, <2>7 DEF cnt
    <3>2. n.next[new[cnt]] = 0
      BY <1>2, <2>5, <3>1
    <3>3. ASSUME NEW i \in 1 .. cnt - 1 PROVE n.next[new[i]] = new[i + 1]
      <4>1. new[i] = f + i - 1 /\ new[i + 1] = f + i /\ f + i - 1 \in lo .. lo + K - 2
        BY <2>3, <2>6, <2>7 DEF cnt
      <4>2. f + i - 1 + 1 = f + i
        BY <2>6
      <4> QED
        BY <2>5, <4>1, <4>2
    <3> QED
      BY <2>6, <2>9, <3>1, <3>2, <3>3 DEF Linked
  <2>15. FreeCount(n, ch2)
    <3>1. m.used = IF b = 0 THEN 0 ELSE lo - 1
      BY <2>2, <2>8 DEF Heap, FreeCount, lo, b
    <3>2. n.used + Len(ch2[0]) = lo + K - 1
      BY <2>2, <2>3, <2>5, <2>7, <2>9, <3>1 DEF cnt
    <3>3. n.blocks # 0 /\ n.blocks * K = lo + K
      BY <2>2, <2>3, <2>5
    <3> DEFINE total == n.blocks * K
    <3>4. total = lo + K
      BY <3>3
    <3> HIDE DEF total
    <3>5. total - 1 = lo + K - 1
      BY <2>3, <3>4
    <3>6. n.used + Len(ch2[0]) = total - 1
      BY <3>2, <3>5
    <3> QED
      BY <3>3, <3>6 DEF FreeCount, total
  <2>16. Heap(n, ch2)
    BY <2>5, <2>9, <2>10, <2>12, <2>13, <2>14, <2>15 DEF Heap, f
  <2> QED
    BY <2>1, <2>6, <2>7, <2>9, <2>16
<1> QED
  BY <1>1, <1>2

\* The chain that save has built so far: it does not end in INVALID_INDEX yet.
Building(acc, s) ==
    /\ Len(s) = 0 => acc.prev = 0 /\ acc.first = 0
    /\ Len(s) > 0 => acc.prev = s[Len(s)] /\ acc.first = s[1]
    /\ \A i \in 1 .. Len(s) - 1 : acc.m.next[s[i]] = s[i + 1]

\* One round of save's loop moves the head of the free chain to the end of that chain.
LEMMA PieceStep ==
    ASSUME NEW acc \in Savings, NEW piece \in Seq(Byte), NEW ch,
           Heap(acc.m, ch), -1 \in DOMAIN ch, Building(acc, ch[-1])
    PROVE  \E ch3 : LET r == SavePiece(acc, piece)
                        D == ch[-1]
                    IN /\ Heap(r.m, ch3)
                       /\ DOMAIN ch3 = DOMAIN ch
                       /\ \A h \in DOMAIN ch \ {0, -1} :
                             ch3[h] = ch[h] /\ Untouched(acc.m, r.m, ch[h])
                       /\ Len(ch3[-1]) = Len(D) + 1
                       /\ \A i \in Places(D) : /\ ch3[-1][i] = D[i]
                                               /\ r.m.payload[D[i]] = acc.m.payload[D[i]]
                       /\ r.m.payload[ch3[-1][Len(D) + 1]] = piece
                       /\ Building(r, ch3[-1])
                       /\ r.m.used = acc.m.used + 1
                       /\ r.m.blocks = Grown(acc.m).blocks
<1> DEFINE m == acc.m
<1> DEFINE n == Grown(m)
<1> DEFINE r == SavePiece(acc, piece)
<1> DEFINE D == ch[-1]
<1> DEFINE L == Len(D)
<1>1. /\ n \in AllManagers /\ n.used = m.used /\ m.used \in Int
      /\ \A c \in Number(m.blocks) : n.next[c] = m.next[c] /\ n.payload[c] = m.payload[c]
  BY GrownIs, ManagerShape DEF Savings
<1> DEFINE x == n.firstFree
<1>2. /\ r.prev = x
      /\ r.first = IF acc.prev = 0 THEN x ELSE acc.first
      /\ r.m.blocks = n.blocks
      /\ r.m.used = n.used + 1
      /\ r.m.firstFree = n.next[x]
      /\ r.m.next = IF acc.prev = 0 THEN n.next ELSE [n.next EXCEPT ![acc.prev] = x]
      /\ r.m.payload = [n.payload EXCEPT ![x] = piece]
      /\ r \in Savings
  BY SavePieceIs
<1>3. PICK ch2 : /\ Heap(n, ch2)
                 /\ DOMAIN ch2 = DOMAIN ch
                 /\ \A h \in DOMAIN ch \ {0} : ch2[h] = ch[h]
                 /\ Len(ch2[0]) > 0
  BY GrownHeap
<1> HIDE DEF m, n, r
<1> DEFINE F == ch2[0]
<1> DEFINE P == Len(F)
<1>4. /\ n.next \in [Number(n.blocks) -> Number(n.blocks)]
      /\ n.payload \in [Number(n.blocks) -> Seq(Byte)]
      /\ n.blocks \in Nat
      /\ \A h \in DOMAIN ch2 :
            /\ Len(ch2[h]) \in Nat
            /\ ch2[h] \in Seq(Number(n.blocks) \ {0})
            /\ \A i \in Places(ch2[h]) : ch2[h][i] \in Number(n.blocks) \ {0}
  BY <1>3, HeapShape DEF Heap
<1>5. /\ 0 \in DOMAIN ch2 /\ -1 \in DOMAIN ch2 /\ DOMAIN ch2 \subseteq Int
      /\ ch2[-1] = D /\ L \in Nat /\ P \in Nat /\ P > 0
      /\ \A g, h \in DOMAIN ch2 : \A i \in Places(ch2[g]), j \in Places(ch2[h]) :
            ch2[g][i] = ch2[h][j] => g = h /\ i = j
      /\ \A c \in Number(n.blocks) \ {0} :
            \E h \in DOMAIN ch2 : \E i \in Places(ch2[h]) : ch2[h][i] = c
      /\ Linked(n, F, n.firstFree)
      /\ FreeCount(n, ch2)
  BY <1>3, <1>4 DEF Heap
<1>6. x = F[1] /\ 1 \in Places(F)
  BY <1>5 DEF Linked, Places
<1>7. /\ x \in Number(n.blocks) \ {0}
      /\ F \in Seq(Number(n.blocks) \ {0})
      /\ D \in Seq(Number(n.blocks) \ {0})
  BY <1>4, <1>5, <1>6
<1> HIDE DEF x, D, L, F, P
<1> DEFINE rest == Tail(F)
<1>8. /\ rest \in Seq(Number(n.blocks) \ {0})
      /\ Len(rest) = P - 1
      /\ \A i \in 1 .. P - 1 : rest[i] = F[i + 1]
  <2>1. F # <<>>
    BY <1>5, <1>7, EmptySeq DEF P
  <2> QED
    BY <1>7, <2>1, HeadTailProperties DEF P
<1> DEFINE E == Append(D, x)
<1>9. /\ E \in Seq(Number(n.blocks) \ {0})
      /\ Len(E) = L + 1
      /\ \A i \in 1 .. L : E[i] = D[i]
      /\ E[L + 1] = x
  BY <1>7, AppendProperties DEF L
<1> HIDE DEF rest, E
<1> DEFINE ch3 == [h \in DOMAIN ch2 |-> IF h = 0 THEN rest ELSE IF h = -1 THEN E ELSE ch2[h]]
<1>10. /\ DOMAIN ch3 = DOMAIN ch2
       /\ ch3[0] = rest /\ ch3[-1] = E
       /\ \A h \in DOMAIN ch2 \ {0, -1} : ch3[h] = ch2[h]
  BY <1>5
<1> HIDE DEF ch3
\* where the place i of chain h of ch3 is in ch2
<1> DEFINE oh(h, i) == IF h = -1 /\ i = L + 1 THEN 0 ELSE h
<1> DEFINE oi(h, i) == IF h = 0 THEN i + 1 ELSE IF h = -1 /\ i = L + 1 THEN 1 ELSE i
<1>11. ASSUME NEW h \in DOMAIN ch2, NEW i \in Places(ch3[h])
       PROVE  /\ i \in Nat /\ i > 0
              /\ oh(h, i) \in DOMAIN ch2
              /\ oi(h, i) \in Places(ch2[oh(h, i)])
              /\ ch3[h][i] = ch2[oh(h, i)][oi(h, i)]
  <2>1. CASE h = 0
    <3>1. i \in 1 .. P - 1 /\ oh(h, i) = 0 /\ oi(h, i) = i + 1
      BY <1>5, <1>8, <1>10, <1>11, <2>1 DEF Places
    <3>2. i + 1 \in 1 .. P /\ i \in Nat /\ i > 0
      BY <1>5, <3>1
    <3>3. ch3[h][i] = F[i + 1] /\ i + 1 \in Places(F)
      BY <1>8, <1>10, <2>1, <3>1, <3>2 DEF Places, P
    <3> HIDE DEF oh, oi
    <3> QED
      BY <1>5, <3>1, <3>2, <3>3 DEF F
  <2>2. CASE h = -1 /\ i = L + 1
    BY <1>5, <1>6, <1>9, <1>10, <2>2 DEF Places, F
  <2>3. CASE h = -1 /\ i # L + 1
    <3>1. i \in 1 .. L /\ oh(h, i) = -1 /\ oi(h, i) = i
      BY <1>5, <1>9, <1>10, <1>11, <2>3 DEF Places
    <3>2. i \in Nat /\ i > 0
      BY <1>5, <3>1
    <3>3. ch3[h][i] = D[i] /\ i \in Places(D)
      BY <1>9, <1>10, <2>3, <3>1 DEF Places, L
    <3> HIDE DEF oh, oi
    <3> QED
      BY <1>5, <3>1, <3>2, <3>3
  <2>4. CASE h \notin {0, -1}
    <3>1. i \in Places(ch2[h]) /\ oh(h, i) = h /\ oi(h, i) = i /\ ch3[h] = ch2[h]
      BY <1>10, <1>11, <2>4
    <3> QED
      BY <1>4, <3>1 DEF Places
  <2> QED
    BY <2>1, <2>2, <2>3, <2>4
<1>12. ASSUME NEW g \in DOMAIN ch2, NEW h \in DOMAIN ch2,
              NEW i \in Places(ch3[g]), NEW j \in Places(ch3[h]), ch3[g][i] = ch3[h][j]
       PROVE  g = h /\ i = j
  <2>1. oh(g, i) = oh(h, j) /\ oi(g, i) = oi(h, j)
    <3> HIDE DEF oh, oi
    <3> QED
      BY <1>5, <1>11, <1>12
  <2>2. i \in Nat /\ i > 0 /\ j \in Nat /\ j > 0 /\ L \in Nat /\ g \in Int /\ h \in Int
    BY <1>5, <1>11
  <2> QED
    BY <2>1, <2>2
<1>13. ASSUME NEW c \in Number(n.blocks) \ {0}
       PROVE  \E h \in DOMAIN ch2 : \E i \in Places(ch3[h]) : ch3[h][i] = c
  <2>0. PICK h \in DOMAIN ch2 : \E i \in Places(ch2[h]) : ch2[h][i] = c
    BY <1>5
  <2>1. PICK i \in Places(ch2[h]) : ch2[h][i] = c
    BY <2>0
  <2>2. CASE h = 0 /\ i = 1
    <3>1. L + 1 \in Places(ch3[-1]) /\ ch3[-1][L + 1] = c
      BY <1>5, <1>6, <1>9, <1>10, <2>1, <2>2 DEF Places, F
    <3> QED
      BY <1>5, <3>1
  <2>3. CASE h = 0 /\ i # 1
    <3>1. i \in 2 .. P
      BY <1>5, <2>1, <2>3 DEF Places, F, P
    <3>3. i - 1 \in 1 .. P - 1 /\ i - 1 + 1 = i
      BY <1>5, <3>1
    <3>4. rest[i - 1] = F[i] /\ F[i] = c
      <4>1. rest[i - 1] = F[i - 1 + 1]
        BY <1>8, <3>3
      <4> QED
        BY <2>1, <2>3, <3>3, <4>1 DEF F
    <3>2. i - 1 \in Places(ch3[0]) /\ ch3[0][i - 1] = c
      BY <1>8, <1>10, <3>3, <3>4 DEF Places
    <3> QED
      BY <1>5, <3>2
  <2>4. CASE h = -1
    <3>2. i \in 1 .. L /\ D[i] = c
      BY <1>5, <2>1, <2>4 DEF Places, L
    <3>3. i \in 1 .. L + 1
      BY <1>5, <3>2
    <3>1. i \in Places(ch3[-1]) /\ ch3[-1][i] = c
      BY <1>9, <1>10, <3>2, <3>3 DEF Places
    <3> QED
      BY <1>5, <3>1
  <2>5. CASE h \notin {0, -1}
    BY <1>10, <2>1, <2>5
  <2> QED
    BY <2>2, <2>3, <2>4, <2>5
\* prev is the last chunk of D, the only one whose link changes
<1>14. /\ L = 0 => acc.prev = 0 /\ acc.first = 0
       /\ L > 0 => /\ acc.prev = D[L] /\ acc.first = D[1]
                   /\ acc.prev \in Number(n.blocks) \ {0}
       /\ \A i \in 1 .. L - 1 : n.next[D[i]] = D[i + 1]
  <2>1. /\ L = 0 => acc.prev = 0 /\ acc.first = 0
        /\ L > 0 => acc.prev = D[L] /\ acc.first = D[1]
        /\ \A i \in 1 .. L - 1 : m.next[D[i]] = D[i + 1]
    BY DEF Building, D, L, m
  <2>2. \A i \in 1 .. L : D[i] \in Number(m.blocks) /\ D[i] \in Number(n.blocks) \ {0}
    BY <1>4, <1>5, HeapShape DEF Places, D, L, m
  <2>3. \A i \in 1 .. L - 1 : n.next[D[i]] = m.next[D[i]]
    BY <1>1, <1>5, <2>2
  <2> QED
    BY <1>5, <2>1, <2>2, <2>3
<1>15. /\ \A c \in Number(n.blocks) \ {0} : c # acc.prev => r.m.next[c] = n.next[c]
       /\ L > 0 => r.m.next[acc.prev] = x
       /\ \A c \in Number(n.blocks) \ {0} : c # x => r.m.payload[c] = n.payload[c]
       /\ r.m.payload[x] = piece
  <2>1. \A c \in Number(n.blocks) \ {0} : c # acc.prev => r.m.next[c] = n.next[c]
    BY <1>2, <1>4
  <2>2. L > 0 => r.m.next[acc.prev] = x
    BY <1>2, <1>4, <1>14
  <2>3. /\ \A c \in Number(n.blocks) \ {0} : c # x => r.m.payload[c] = n.payload[c]
        /\ r.m.payload[x] = piece
    BY <1>2, <1>4, <1>7
  <2> QED
    BY <2>1, <2>2, <2>3
<1>16. ASSUME NEW h \in DOMAIN ch2, NEW i \in Places(ch2[h])
       PROVE  /\ h # -1 \/ i < L => ch2[h][i] # acc.prev
              /\ h # 0 \/ i > 1 => ch2[h][i] # x
  <2>1. h # -1 \/ i < L => ch2[h][i] # acc.prev
    <3>1. CASE L = 0
      BY <1>4, <1>14, <3>1
    <3>2. CASE L > 0
      <4>1. L \in Places(ch2[-1]) /\ ch2[-1][L] = acc.prev
        BY <1>5, <1>14, <3>2 DEF Places, L
      <4>2. i \in Nat
        BY <1>4 DEF Places
      <4> QED
        BY <1>5, <4>1, <4>2
    <3> QED
      BY <1>5, <3>1, <3>2
  <2>2. h # 0 \/ i > 1 => ch2[h][i] # x
    <3>1. 1 \in Places(ch2[0]) /\ ch2[0][1] = x
      BY <1>6 DEF F
    <3> QED
      BY <1>5, <3>1
  <2> QED
    BY <2>1, <2>2
<1>17. Linked(r.m, ch3[0], r.m.firstFree)
  <2>1. /\ \A i \in 1 .. P - 1 : n.next[F[i]] = F[i + 1]
        /\ n.next[F[P]] = 0
    BY <1>5 DEF Linked, F, P
  <2>2. ASSUME NEW i \in 1 .. P
        PROVE  r.m.next[F[i]] = n.next[F[i]]
    <3>1. i \in Places(ch2[0]) /\ F[i] = ch2[0][i]
      BY <2>2 DEF Places, F, P
    <3>2. F[i] \in Number(n.blocks) \ {0} /\ F[i] # acc.prev
      BY <1>4, <1>5, <1>16, <3>1
    <3> QED
      BY <1>15, <3>2
  <2>3. r.m.firstFree = n.next[F[1]]
    BY <1>2, <1>6 DEF x
  <2>4. CASE P = 1
    BY <1>8, <1>10, <2>1, <2>3, <2>4 DEF Linked
  <2>5. CASE P > 1
    <3>1. Len(rest) > 0 /\ rest[1] = F[2] /\ rest[Len(rest)] = F[P]
      BY <1>5, <1>8, <2>5
    <3>2. r.m.firstFree = rest[1]
      BY <1>5, <2>1, <2>3, <2>5, <3>1
    <3>3. r.m.next[rest[Len(rest)]] = 0
      BY <1>5, <2>1, <2>2, <3>1
    <3>4. ASSUME NEW i \in 1 .. Len(rest) - 1
          PROVE  r.m.next[rest[i]] = rest[i + 1]
      <4>1. i \in 1 .. P - 1 /\ i + 1 \in 1 .. P - 1 /\ i + 1 \in 1 .. P
        BY <1>5, <1>8
      <4> QED
        BY <1>8, <2>1, <2>2, <4>1
    <3> QED
      BY <1>10, <3>1, <3>2, <3>3, <3>4 DEF Linked
  <2> QED
    BY <1>5, <2>4, <2>5
<1>18. FreeCount(r.m, ch3)
  <2>1. n.used + P = IF n.blocks = 0 THEN 0 ELSE n.blocks * K - 1
    BY <1>5 DEF FreeCount, F, P
  <2>2. r.m.used + Len(ch3[0]) = n.used + P
    <3>1. Len(ch3[0]) = P - 1 /\ P \in Nat
      BY <1>5, <1>8, <1>10
    <3>2. r.m.used = n.used + 1 /\ n.used \in Int
      BY <1>1, <1>2
    <3>3. \A u \in Int, q \in Int : (u + 1) + (q - 1) = u + q
      OBVIOUS
    <3>4. r.m.used + Len(ch3[0]) = (n.used + 1) + (P - 1)
      BY <3>1, <3>2
    <3>5. P \in Int /\ n.used \in Int
      BY <3>1, <3>2
    <3>6. (n.used + 1) + (P - 1) = n.used + P
      BY <3>3, <3>5
    <3> QED
      BY <3>4, <3>6
  <2> QED
    BY <1>2, <2>1, <2>2 DEF FreeCount
<1>19. Heap(r.m, ch3)
  <2>1. r.m \in AllManagers
    BY <1>2 DEF Savings
  <2>2. ASSUME NEW h \in DOMAIN ch2
        PROVE  ch3[h] \in Seq(Number(r.m.blocks) \ {0})
    BY <1>2, <1>4, <1>8, <1>9, <1>10
  <2> QED
    BY <1>2, <1>5, <1>10, <1>12, <1>13, <1>17, <1>18, <2>1, <2>2 DEF Heap
<1>20. ASSUME NEW h \in DOMAIN ch \ {0, -1}
       PROVE  ch3[h] = ch[h] /\ Untouched(m, r.m, ch[h])
  <2>1. ch3[h] = ch[h] /\ ch2[h] = ch[h] /\ h \in DOMAIN ch2
    BY <1>3, <1>10
  <2>2. ASSUME NEW i \in Places(ch[h])
        PROVE  /\ r.m.next[ch[h][i]] = m.next[ch[h][i]]
               /\ r.m.payload[ch[h][i]] = m.payload[ch[h][i]]
    <3>1. ch[h][i] \in Number(n.blocks) \ {0} /\ ch[h][i] # acc.prev /\ ch[h][i] # x
      BY <1>4, <1>16, <2>1
    <3>2. ch[h][i] \in Number(m.blocks)
      BY HeapShape DEF m
    <3> QED
      BY <1>1, <1>15, <3>1, <3>2
  <2> QED
    BY <2>1, <2>2 DEF Untouched
<1>21. ASSUME NEW i \in 1 .. L
       PROVE  /\ ch3[-1][i] = D[i]
              /\ r.m.payload[D[i]] = m.payload[D[i]]
              /\ i < L => r.m.next[D[i]] = n.next[D[i]]
  <2>1. i \in Places(ch2[-1]) /\ D[i] = ch2[-1][i]
    BY <1>5 DEF Places, L
  <2>2. D[i] \in Number(n.blocks) \ {0} /\ D[i] # x /\ (i < L => D[i] # acc.prev)
    BY <1>4, <1>5, <1>16, <2>1
  <2>3. D[i] \in Number(m.blocks)
    BY HeapShape DEF m, D, L, Places
  <2> QED
    BY <1>1, <1>9, <1>10, <1>15, <2>2, <2>3
<1>22. Building(r, ch3[-1])
  <2>1. r.prev = E[L + 1] /\ Len(E) = L + 1
    BY <1>2, <1>9 DEF x
  <2>2. r.first = E[1]
    <3>1. CASE L = 0
      BY <1>2, <1>9, <1>14, <3>1 DEF x
    <3>2. CASE L > 0
      BY <1>2, <1>5, <1>9, <1>14, <3>2
    <3> QED
      BY <1>5, <3>1, <3>2
  <2>3. ASSUME NEW i \in 1 .. L
        PROVE  r.m.next[E[i]] = E[i + 1]
    <3>1. CASE i = L
      BY <1>5, <1>9, <1>14, <1>15, <3>1
    <3>2. CASE i < L
      <4>1. i \in 1 .. L - 1 /\ i + 1 \in 1 .. L
        BY <1>5, <3>2
      <4>2. r.m.next[D[i]] = D[i + 1]
        BY <1>14, <1>21, <3>2, <4>1
      <4> QED
        BY <1>9, <4>1, <4>2
    <3> QED
      BY <1>5, <3>1, <3>2
  <2>4. L + 1 > 0 /\ L + 1 - 1 = L
    BY <1>5
  <2> QED
    <3>1. ch3[-1] = E /\ Len(E) = L + 1 /\ L \in Nat
      BY <1>5, <1>9, <1>10
    <3>2. r.prev = E[Len(E)] /\ Len(E) # 0
      BY <2>1, <3>1
    <3>3. \A i \in 1 .. Len(E) - 1 : r.m.next[E[i]] = E[i + 1]
      BY <2>3, <3>1
    <3> HIDE DEF r
    <3> QED
      BY <2>2, <3>1, <3>2, <3>3 DEF Building
<1>23. /\ Len(ch3[-1]) = L + 1
       /\ \A i \in Places(D) : ch3[-1][i] = D[i] /\ r.m.payload[D[i]] = m.payload[D[i]]
       /\ r.m.payload[ch3[-1][L + 1]] = piece
       /\ r.m.used = m.used + 1 /\ r.m.blocks = n.blocks
       /\ DOMAIN ch3 = DOMAIN ch
  BY <1>1, <1>2, <1>3, <1>9, <1>10, <1>15, <1>21 DEF Places, L
<1> QED
  BY <1>19, <1>20, <1>22, <1>23 DEF m, n, r, D, L

\* u chunks in use fit into b allocation blocks.
Fit(u, b) == u <= b * K - 1

LEMMA FitMonotone ==
    ASSUME NEW u \in Int, NEW v \in Int, NEW b \in Nat, v <= u, Fit(u, b)
    PROVE  Fit(v, b)
<1> DEFINE p == b * K
<1>1. p \in Nat
  BY Blocks
<1>2. u <= p - 1
  BY DEF Fit
<1> HIDE DEF p
<1>3. v <= p - 1
  BY <1>1, <1>2
<1> QED
  BY <1>3 DEF Fit, p

\* A block is allocated only when those there are do not hold one chunk more.
LEMMA GrownBlocks ==
    ASSUME NEW m, NEW ch, Heap(m, ch), NEW b \in Nat, m.blocks <= b, Fit(m.used + 1, b)
    PROVE  Grown(m).blocks \in Nat /\ Grown(m).blocks <= b
<1>1. m.blocks \in Nat /\ m.used \in Int /\ m \in AllManagers
  BY HeapShape DEF Heap
<1>2. CASE m.firstFree # 0
  BY <1>1, <1>2 DEF Grown
<1>3. CASE m.firstFree = 0
  <2>1. Grown(m).blocks = m.blocks + 1
    BY <1>1, <1>3, AllocateBlockIs DEF Grown
  <2>2. Len(ch[0]) = 0
    <3>1. 0 \in DOMAIN ch /\ Linked(m, ch[0], 0)
      BY <1>3 DEF Heap
    <3>2. Len(ch[0]) > 0 => ch[0][1] \in Number(m.blocks) \ {0} /\ ch[0][1] = 0
      BY <3>1, HeapShape DEF Linked, Places
    <3> QED
      BY <3>1, <3>2, HeapShape
  <2>3. m.used = IF m.blocks = 0 THEN 0 ELSE m.blocks * K - 1
    BY <1>1, <2>2 DEF Heap, FreeCount
  <2>4. m.blocks # b
    <3>1. SUFFICES ASSUME m.blocks = b PROVE FALSE
      OBVIOUS
    <3> DEFINE p == b * K
    <3>2. p \in Nat /\ (b = 0 => p = 0)
      BY Blocks
    <3>3. m.used + 1 <= p - 1
      BY DEF Fit
    <3>4. m.used = IF b = 0 THEN 0 ELSE p - 1
      BY <2>3, <3>1
    <3> HIDE DEF p
    <3> QED
      BY <3>2, <3>3, <3>4
  <2> QED
    BY <1>1, <2>1, <2>4
<1> QED
  BY <1>2, <1>3

\* After k rounds of save's loop the chain -1 holds the first k pieces, and nothing else
\* has changed.
Saved(m0, ch0, pieces, k, acc, ch) ==
    /\ Heap(acc.m, ch)
    /\ DOMAIN ch = DOMAIN ch0 \cup {-1}
    /\ \A h \in DOMAIN ch0 \ {0, -1} : ch[h] = ch0[h] /\ Untouched(m0, acc.m, ch0[h])
    /\ Len(ch[-1]) = k
    /\ \A i \in 1 .. k : acc.m.payload[ch[-1][i]] = pieces[i]
    /\ Building(acc, ch[-1])
    /\ acc.m.used = m0.used + k
    /\ \A b \in Nat : m0.blocks <= b /\ Fit(m0.used + k, b) => acc.m.blocks <= b

LEMMA SaveStep ==
    ASSUME NEW m0, m0.used \in Int, NEW ch0, NEW pieces \in Seq(Seq(Byte)),
           NEW k \in Nat, k < Len(pieces),
           NEW acc \in Savings, NEW ch, Saved(m0, ch0, pieces, k, acc, ch)
    PROVE  \E ch3 : Saved(m0, ch0, pieces, k + 1, SavePiece(acc, pieces[k + 1]), ch3)
<1> DEFINE piece == pieces[k + 1]
<1> DEFINE r == SavePiece(acc, piece)
<1> DEFINE D == ch[-1]
<1>1. piece \in Seq(Byte)
  <2>1. k + 1 \in 1 .. Len(pieces)
    OBVIOUS
  <2> QED
    BY <2>1
<1>2. /\ Heap(acc.m, ch) /\ -1 \in DOMAIN ch /\ Building(acc, ch[-1])
      /\ Len(D) = k /\ acc.m.used = m0.used + k
  BY DEF Saved
<1> HIDE DEF piece
<1>3. PICK ch3 : /\ Heap(r.m, ch3)
                 /\ DOMAIN ch3 = DOMAIN ch
                 /\ \A h \in DOMAIN ch \ {0, -1} :
                       ch3[h] = ch[h] /\ Untouched(acc.m, r.m, ch[h])
                 /\ Len(ch3[-1]) = Len(D) + 1
                 /\ \A i \in Places(D) : /\ ch3[-1][i] = D[i]
                                         /\ r.m.payload[D[i]] = acc.m.payload[D[i]]
                 /\ r.m.payload[ch3[-1][Len(D) + 1]] = piece
                 /\ Building(r, ch3[-1])
                 /\ r.m.used = acc.m.used + 1
                 /\ r.m.blocks = Grown(acc.m).blocks
  BY <1>1, <1>2, PieceStep
<1> HIDE DEF r, D
<1>4. ASSUME NEW h \in DOMAIN ch0 \ {0, -1}
      PROVE  ch3[h] = ch0[h] /\ Untouched(m0, r.m, ch0[h])
  <2>1. h \in DOMAIN ch \ {0, -1} /\ ch[h] = ch0[h] /\ Untouched(m0, acc.m, ch0[h])
    BY DEF Saved
  <2>2. ch3[h] = ch0[h] /\ Untouched(acc.m, r.m, ch0[h])
    BY <1>3, <2>1
  <2>3. Untouched(m0, r.m, ch0[h])
    <3> DEFINE s == ch0[h]
    <3> HIDE DEF s
    <3>1. Untouched(m0, acc.m, s) /\ Untouched(acc.m, r.m, s)
      BY <2>1, <2>2 DEF s
    <3>2. Untouched(m0, r.m, s)
      BY <3>1 DEF Untouched
    <3> QED
      BY <3>2 DEF s
  <2> QED
    BY <2>2, <2>3
<1>5. ASSUME NEW i \in 1 .. k + 1
      PROVE  r.m.payload[ch3[-1][i]] = pieces[i]
  <2>1. CASE i = k + 1
    BY <1>2, <1>3, <2>1 DEF piece
  <2>2. CASE i # k + 1
    <3>1. i \in 1 .. k /\ i \in Places(D)
      BY <1>2, <2>2 DEF Places
    <3>2. acc.m.payload[D[i]] = pieces[i]
      BY <3>1 DEF Saved, D
    <3> QED
      BY <1>3, <3>1, <3>2
  <2> QED
    BY <2>1, <2>2
<1>6. ASSUME NEW b \in Nat, m0.blocks <= b, Fit(m0.used + (k + 1), b)
      PROVE  r.m.blocks <= b
  <2>1. m0.used + k \in Int /\ m0.used + (k + 1) \in Int
        /\ m0.used + k <= m0.used + (k + 1) /\ acc.m.used + 1 = m0.used + (k + 1)
    BY <1>2
  <2>2. Fit(m0.used + k, b)
    BY <1>6, <2>1, FitMonotone
  <2>3. acc.m.blocks <= b
    BY <1>6, <2>2 DEF Saved
  <2>4. Fit(acc.m.used + 1, b)
    BY <1>6, <2>1
  <2> QED
    BY <1>2, <1>3, <2>3, <2>4, GrownBlocks
<1>7. r.m.used = m0.used + (k + 1) /\ Len(ch3[-1]) = k + 1
  <2>1. \A u \in Int : (u + k) + 1 = u + (k + 1)
    OBVIOUS
  <2>2. (m0.used + k) + 1 = m0.used + (k + 1)
    BY <2>1
  <2>3. r.m.used = (m0.used + k) + 1
    BY <1>2, <1>3
  <2> QED
    BY <1>2, <1>3, <2>2, <2>3
<1>8. DOMAIN ch3 = DOMAIN ch0 \cup {-1}
  BY <1>3 DEF Saved
<1>9. Saved(m0, ch0, pieces, k + 1, r, ch3)
  BY <1>3, <1>4, <1>5, <1>6, <1>7, <1>8 DEF Saved
<1> QED
  BY <1>9 DEF r, piece

\* The accumulator that save starts from.
NothingSaved(m) == [m |-> m, prev |-> INVALID_INDEX, first |-> INVALID_INDEX]

\* save's loop takes one chunk for each piece from the free chain.
LEMMA SaveLoop ==
    ASSUME NEW m, NEW ch0, Heap(m, ch0), -1 \notin DOMAIN ch0, NEW pieces \in Seq(Seq(Byte))
    PROVE  /\ FoldLeft(SavePiece, NothingSaved(m), pieces) \in Savings
           /\ \E ch : Saved(m, ch0, pieces, Len(pieces),
                            FoldLeft(SavePiece, NothingSaved(m), pieces), ch)
<1> DEFINE n == Len(pieces)
<1> DEFINE acc == NothingSaved(m)
<1>1. m \in AllManagers /\ m.used \in Int /\ m.blocks \in Nat /\ n \in Nat
  <2>1. m \in AllManagers
    BY DEF Heap
  <2>2. m.used \in Int /\ m.blocks \in Nat
    BY HeapShape
  <2> QED
    BY <2>1, <2>2
<1>2. acc \in Savings /\ acc.m = m /\ acc.prev = 0 /\ acc.first = 0
  BY <1>1 DEF NothingSaved, INVALID_INDEX, Savings
<1> HIDE DEF acc
<1>3. PICK saved \in [0 .. n -> Savings] :
              /\ saved[0] = acc
              /\ \A k \in 1 .. n : saved[k] = SavePiece(saved[k - 1], pieces[k])
              /\ saved[n] = FoldLeft(SavePiece, acc, pieces)
  BY <1>2, SaveFold
<1> DEFINE ch1 == [h \in DOMAIN ch0 \cup {-1} |-> IF h = -1 THEN <<>> ELSE ch0[h]]
<1>4. Saved(m, ch0, pieces, 0, acc, ch1)
  <2>1. /\ DOMAIN ch1 = DOMAIN ch0 \cup {-1}
        /\ \A h \in DOMAIN ch0 : ch1[h] = ch0[h]
        /\ ch1[-1] = <<>> /\ Len(ch1[-1]) = 0
        /\ 0 \in DOMAIN ch0 /\ DOMAIN ch0 \subseteq Int /\ ch1[0] = ch0[0]
        /\ Places(ch1[-1]) = {}
    BY DEF Heap, Places
  <2> HIDE DEF ch1
  <2>2. Heap(acc.m, ch1)
    <3>1. ASSUME NEW h \in DOMAIN ch1
          PROVE  ch1[h] \in Seq(Number(m.blocks) \ {0})
      <4>1. CASE h = -1
        BY <2>1, <4>1, EmptySeq
      <4>2. CASE h # -1
        BY <2>1, <4>2 DEF Heap
      <4> QED
        BY <4>1, <4>2
    <3>2. ASSUME NEW g \in DOMAIN ch1, NEW h \in DOMAIN ch1,
                 NEW i \in Places(ch1[g]), NEW j \in Places(ch1[h]), ch1[g][i] = ch1[h][j]
          PROVE  g = h /\ i = j
      <4>1. g # -1 /\ h # -1
        BY <2>1
      <4>2. g \in DOMAIN ch0 /\ h \in DOMAIN ch0 /\ ch1[g] = ch0[g] /\ ch1[h] = ch0[h]
        BY <2>1, <4>1
      <4> QED
        BY <3>2, <4>2 DEF Heap
    <3>3. ASSUME NEW c \in Number(m.blocks) \ {0}
          PROVE  \E h \in DOMAIN ch1 : \E i \in Places(ch1[h]) : ch1[h][i] = c
      <4>1. PICK h \in DOMAIN ch0 : \E i \in Places(ch0[h]) : ch0[h][i] = c
        BY DEF Heap
      <4> QED
        BY <2>1, <4>1
    <3>4. Linked(m, ch1[0], m.firstFree) /\ FreeCount(m, ch1)
      BY <2>1 DEF Heap, FreeCount
    <3> QED
      BY <1>1, <1>2, <2>1, <3>1, <3>2, <3>3, <3>4 DEF Heap
  <2>3. \A h \in DOMAIN ch0 \ {0, -1} : ch1[h] = ch0[h] /\ Untouched(m, acc.m, ch0[h])
    BY <1>2, <2>1 DEF Untouched
  <2>4. Building(acc, ch1[-1])
    BY <1>2, <2>1 DEF Building
  <2>5. \A i \in 1 .. 0 : acc.m.payload[ch1[-1][i]] = pieces[i]
    OBVIOUS
  <2> QED
    BY <1>1, <1>2, <2>1, <2>2, <2>3, <2>4, <2>5 DEF Saved
<1> DEFINE T == {k \in 0 .. n : \E ch : Saved(m, ch0, pieces, k, saved[k], ch)}
<1>5. 0 \in T
  <2> HIDE DEF ch1, n
  <2>1. Saved(m, ch0, pieces, 0, saved[0], ch1)
    BY <1>3, <1>4
  <2>2. 0 \in 0 .. n
    BY <1>1
  <2> QED
    BY <2>1, <2>2
<1>6. ASSUME NEW k \in 0 .. n - 1, k \in T
      PROVE  k + 1 \in T
  <2>1. PICK ch : Saved(m, ch0, pieces, k, saved[k], ch)
    BY <1>6
  <2>2. k \in Nat /\ k < n /\ k \in 0 .. n /\ k + 1 \in 0 .. n /\ k + 1 \in 1 .. n
        /\ (k + 1) - 1 = k
    BY <1>1
  <2>3. saved[k] \in Savings /\ saved[k + 1] = SavePiece(saved[k], pieces[k + 1])
    BY <1>3, <2>2
  <2>4. \E ch3 : Saved(m, ch0, pieces, k + 1, SavePiece(saved[k], pieces[k + 1]), ch3)
    BY <1>1, <2>1, <2>2, <2>3, SaveStep
  <2>5. \E ch3 : Saved(m, ch0, pieces, k + 1, saved[k + 1], ch3)
    BY <2>3, <2>4
  <2> HIDE DEF n
  <2> QED
    BY <2>2, <2>5
<1>7. n \in T
  <2> HIDE DEF T, n
  <2>1. 0 .. n \subseteq T
    BY <1>1, <1>5, <1>6, InductionUpTo
  <2> QED
    BY <1>1, <2>1
<1>8. saved[n] \in Savings /\ \E ch : Saved(m, ch0, pieces, n, saved[n], ch)
  <2> HIDE DEF n
  <2>1. n \in 0 .. n
    BY <1>1
  <2> QED
    BY <1>3, <1>7, <2>1
<1> QED
  BY <1>3, <1>8 DEF acc

-----------------------------------------------------------------------------
(* Saving a string. *)

LEMMA StringShape ==
    ASSUME NEW s \in Strings
    PROVE  /\ s \in Seq(Byte)
           /\ Len(s) \in Nat /\ Len(s) > 0
           /\ Payload \in Nat /\ Payload > 0
<1>1. s \in Seq(Range(s)) /\ s # <<>> /\ Payload \in Nat /\ Payload > 0
  BY ChunkStoreAssumption
<1>2. Len(s) \in Nat /\ \A i \in 1 .. Len(s) : s[i] \in Range(s)
  BY <1>1
<1>3. \A i \in 1 .. Len(s) : s[i] \in Byte
  BY <1>2 DEF Byte
<1>4. s = [i \in 1 .. Len(s) |-> s[i]]
  BY <1>1
<1>5. [i \in 1 .. Len(s) |-> s[i]] \in Seq(Byte)
  BY <1>2, <1>3, IsASeq
<1>6. Len(s) # 0
  BY <1>1, EmptySeq
<1> QED
  BY <1>1, <1>2, <1>4, <1>5, <1>6

\* A string is cut into as many pieces as it needs, each filled but the last.
LEMMA PiecesAre ==
    ASSUME NEW s \in Strings
    PROVE  LET q == Pieces(s)
           IN /\ q \in Seq(Seq(Byte))
              /\ Len(q) \in Nat /\ Len(q) > 0
              /\ (Len(q) - 1) * Payload < Len(s)
              /\ Len(s) <= Len(q) * Payload
              /\ \A p \in 1 .. Len(q), j \in 1 .. Payload :
                    (p - 1) * Payload + j <= Len(s) => q[p][j] = s[(p - 1) * Payload + j]
<1> DEFINE P == Payload
<1> DEFINE len == Len(s)
<1> DEFINE np == (len + P - 1) \div P
<1>1. /\ s \in Seq(Byte) /\ len \in Nat /\ len > 0 /\ P \in Nat /\ P > 0
      /\ \A i \in 1 .. len : s[i] \in Byte
  BY StringShape
<1> HIDE DEF len, P
<1>2. /\ np \in Nat /\ np > 0
      /\ P * np <= len + P - 1 /\ len + P - 1 < P * np + P
  <2> DEFINE a == len + P - 1
  <2>1. a \in Nat /\ a >= P
    BY <1>1
  <2> HIDE DEF a
  <2>2. /\ a \div P \in Nat /\ P * (a \div P) <= a /\ a < P * (a \div P) + P
    BY <1>1, <2>1
  <2>3. a \div P # 0
    <3>1. SUFFICES ASSUME a \div P = 0 PROVE FALSE
      OBVIOUS
    <3>2. P * (a \div P) = 0
      BY <1>1, <3>1
    <3> QED
      BY <1>1, <2>1, <2>2, <3>2
  <2> QED
    BY <2>2, <2>3 DEF a
<1> HIDE DEF np
<1>3. /\ (np - 1) * P \in Int /\ np * P \in Int
      /\ (np - 1) * P = np * P - P /\ np * P = P * np
  BY <1>1, <1>2
<1>4. (np - 1) * P < len /\ len <= np * P
  <2> DEFINE t == np * P
  <2>1. t \in Int /\ (np - 1) * P = t - P /\ t <= len + P - 1 /\ len + P - 1 < t + P
    BY <1>2, <1>3
  <2> HIDE DEF t
  <2>2. t - P < len /\ len <= t
    BY <1>1, <2>1
  <2> QED
    BY <2>1, <2>2 DEF t
<1> DEFINE hi(p) == Min({p * P, len})
<1>5. ASSUME NEW p \in 1 .. np
      PROVE  /\ (p - 1) * P \in Nat /\ p * P = (p - 1) * P + P
             /\ hi(p) = IF p * P <= len THEN p * P ELSE len
             /\ hi(p) \in Nat
  <2>1. p \in Nat /\ p - 1 \in Nat
    BY <1>2
  <2>2. (p - 1) * P \in Nat /\ p * P = (p - 1) * P + P /\ p * P \in Nat
    BY <1>1, <2>1
  <2> DEFINE t == p * P
  <2>3. t \in Nat
    BY <2>2
  <2> HIDE DEF t
  <2>4. Min({t, len}) = IF t <= len THEN t ELSE len
    <3> DEFINE min == IF t <= len THEN t ELSE len
    <3>1. min \in {t, len} /\ \A y \in {t, len} : min <= y
      BY <1>1, <2>3
    <3>2. \A x \in {t, len} : (\A y \in {t, len} : x <= y) => x = min
      BY <1>1, <2>3
    <3> HIDE DEF min
    <3>3. Min({t, len}) = min
      BY <3>1, <3>2 DEF Min
    <3> QED
      BY <3>3 DEF min
  <2>5. hi(p) = IF t <= len THEN t ELSE len
    BY <2>4 DEF t
  <2>6. hi(p) \in Nat
    <3> HIDE DEF hi
    <3> QED
      BY <1>1, <2>3, <2>5
  <2> QED
    BY <2>2, <2>5, <2>6 DEF t
<1> HIDE DEF hi
<1> DEFINE q == [p \in 1 .. np |-> SubSeq(s, (p - 1) * P + 1, hi(p))]
<1>6. q = Pieces(s)
  BY DEF Pieces, q, np, len, P, hi
<1>7. ASSUME NEW p \in 1 .. np
      PROVE  /\ SubSeq(s, (p - 1) * P + 1, hi(p)) \in Seq(Byte)
             /\ \A j \in 1 .. P :
                   (p - 1) * P + j <= len =>
                      SubSeq(s, (p - 1) * P + 1, hi(p))[j] = s[(p - 1) * P + j]
  <2> DEFINE lo == (p - 1) * P
  <2> DEFINE t == p * P
  <2>1. lo \in Nat /\ t = lo + P /\ hi(p) = (IF t <= len THEN t ELSE len) /\ hi(p) \in Nat
    BY <1>5
  <2> HIDE DEF lo, t
  <2>2. \A i \in lo + 1 .. hi(p) : s[i] \in Byte
    <3>1. ASSUME NEW i \in lo + 1 .. hi(p) PROVE i \in 1 .. len
      BY <1>1, <2>1
    <3> QED
      BY <1>1, <3>1
  <2>3. lo + 1 \in Int /\ hi(p) \in Int
    BY <2>1
  <2>4. /\ SubSeq(s, lo + 1, hi(p)) \in Seq(Byte)
        /\ \A i \in 1 .. hi(p) - (lo + 1) + 1 : SubSeq(s, lo + 1, hi(p))[i] = s[(lo + 1) + i - 1]
    BY <2>2, <2>3, SubSeqProperties
  <2>5. ASSUME NEW j \in 1 .. P, lo + j <= len
        PROVE  SubSeq(s, lo + 1, hi(p))[j] = s[lo + j]
    <3>1. j \in 1 .. hi(p) - (lo + 1) + 1 /\ (lo + 1) + j - 1 = lo + j
      BY <1>1, <2>1, <2>5
    <3> QED
      BY <2>4, <3>1
  <2> QED
    BY <2>4, <2>5 DEF lo
<1>8. q \in Seq(Seq(Byte)) /\ Len(q) = np
  <2> DEFINE piece(p) == SubSeq(s, (p - 1) * P + 1, hi(p))
  <2>1. \A p \in 1 .. np : piece(p) \in Seq(Byte)
    BY <1>7
  <2> HIDE DEF piece
  <2>2. [p \in 1 .. np |-> piece(p)] \in Seq(Seq(Byte))
    BY <1>2, <2>1, IsASeq
  <2>3. Len([p \in 1 .. np |-> piece(p)]) = np
    BY <1>2, <2>2, LenProperties
  <2> QED
    BY <2>2, <2>3 DEF piece
<1>9. ASSUME NEW p \in 1 .. np, NEW j \in 1 .. P, (p - 1) * P + j <= len
      PROVE  q[p][j] = s[(p - 1) * P + j]
  BY <1>7, <1>9
<1> HIDE DEF q
<1>10. /\ Len(q) \in Nat /\ Len(q) > 0
       /\ (Len(q) - 1) * P < len /\ len <= Len(q) * P
       /\ \A p \in 1 .. Len(q), j \in 1 .. P :
             (p - 1) * P + j <= len => q[p][j] = s[(p - 1) * P + j]
  BY <1>2, <1>4, <1>8, <1>9
<1> QED
  BY <1>6, <1>8, <1>10 DEF P, len

\* The links of each handle's chain are followed from the handle.
Chained(m, ch) == \A h \in DOMAIN ch \ {0} : Len(ch[h]) > 0 /\ Linked(m, ch[h], h)

\* What is linked stays linked where nothing changes.
LEMMA StaysLinked ==
    ASSUME NEW m, NEW n, NEW s, NEW S, s \in Seq(S), NEW first,
           Linked(m, s, first), Untouched(m, n, s)
    PROVE  Linked(n, s, first)
<1>1. Len(s) \in Nat
  OBVIOUS
<1>2. Len(s) > 0 => n.next[s[Len(s)]] = m.next[s[Len(s)]]
  BY <1>1 DEF Untouched, Places
<1>3. \A i \in 1 .. Len(s) - 1 : n.next[s[i]] = m.next[s[i]]
  BY <1>1 DEF Untouched, Places
<1> QED
  BY <1>2, <1>3 DEF Linked

LEMMA SaveHeap ==
    ASSUME NEW m, NEW ch, Heap(m, ch), DOMAIN ch \subseteq Nat, Chained(m, ch),
           NEW s \in Strings
    PROVE  \E ch2 : LET r == SaveString(m, s)
                        q == Pieces(s)
                    IN /\ Heap(r.m, ch2)
                       /\ r.first \in Nat \ DOMAIN ch
                       /\ DOMAIN ch2 = DOMAIN ch \cup {r.first}
                       /\ Chained(r.m, ch2)
                       /\ \A h \in DOMAIN ch \ {0} :
                             ch2[h] = ch[h] /\ Untouched(m, r.m, ch[h])
                       /\ Len(ch2[r.first]) = Len(q)
                       /\ \A i \in 1 .. Len(q) : r.m.payload[ch2[r.first][i]] = q[i]
                       /\ \A b \in Nat : m.blocks <= b /\ Fit(m.used + Len(q), b) =>
                             r.m.blocks <= b
<1> DEFINE q == Pieces(s)
<1> DEFINE n == Len(q)
<1> DEFINE acc == FoldLeft(SavePiece, NothingSaved(m), q)
<1> DEFINE r == SaveString(m, s)
<1> DEFINE a == acc.m
<1>1. q \in Seq(Seq(Byte)) /\ n \in Nat /\ n > 0
  BY PiecesAre
<1>2. r = [m |-> EndChain(a, acc.prev), first |-> acc.first]
  BY DEF SaveString, NothingSaved
<1>3. acc \in Savings /\ \E ch1 : Saved(m, ch, q, n, acc, ch1)
  <2>1. -1 \notin DOMAIN ch
    OBVIOUS
  <2> QED
    BY <1>1, <2>1, SaveLoop
<1> HIDE DEF q, n, acc, r, a
<1>4. PICK ch1 : Saved(m, ch, q, n, acc, ch1)
  BY <1>3
<1> DEFINE D == ch1[-1]
<1>5. /\ Heap(a, ch1)
      /\ DOMAIN ch1 = DOMAIN ch \cup {-1}
      /\ \A h \in DOMAIN ch \ {0} : ch1[h] = ch[h] /\ Untouched(m, a, ch[h])
      /\ Len(D) = n
      /\ \A i \in 1 .. n : a.payload[D[i]] = q[i]
      /\ Building(acc, D)
      /\ \A b \in Nat : m.blocks <= b /\ Fit(m.used + n, b) => a.blocks <= b
  BY <1>4 DEF Saved, a
<1>6. /\ a.blocks \in Nat /\ a \in Managers(a.blocks)
      /\ a.next \in [Number(a.blocks) -> Number(a.blocks)]
      /\ a.payload \in [Number(a.blocks) -> Seq(Byte)]
      /\ \A h \in DOMAIN ch1 :
            /\ Len(ch1[h]) \in Nat
            /\ \A i \in Places(ch1[h]) : ch1[h][i] \in Number(a.blocks) \ {0}
  BY <1>5, HeapShape
<1>7. /\ 0 \in DOMAIN ch1 /\ -1 \in DOMAIN ch1 /\ DOMAIN ch1 \subseteq Int
      /\ \A h \in DOMAIN ch1 : ch1[h] \in Seq(Number(a.blocks) \ {0})
      /\ \A g, h \in DOMAIN ch1 : \A i \in Places(ch1[g]), j \in Places(ch1[h]) :
          ch1[g][i] = ch1[h][j] => g = h /\ i = j
      /\ \A c \in Number(a.blocks) \ {0} :
          \E h \in DOMAIN ch1 : \E i \in Places(ch1[h]) : ch1[h][i] = c
      /\ Linked(a, ch1[0], a.firstFree)
      /\ FreeCount(a, ch1)
  BY <1>5 DEF Heap
<1> DEFINE last == acc.prev
<1> DEFINE first == acc.first
<1>8. /\ last = D[n] /\ first = D[1] /\ n \in Places(D) /\ 1 \in Places(D)
      /\ last \in Number(a.blocks) \ {0} /\ first \in Number(a.blocks) \ {0}
      /\ \A i \in 1 .. n - 1 : a.next[D[i]] = D[i + 1]
      /\ first \in Nat
  <2>1. last = D[n] /\ first = D[1] /\ \A i \in 1 .. n - 1 : a.next[D[i]] = D[i + 1]
    BY <1>1, <1>5 DEF Building, a
  <2>2. n \in Places(D) /\ 1 \in Places(D)
    BY <1>1, <1>5 DEF Places
  <2>3. last \in Number(a.blocks) \ {0} /\ first \in Number(a.blocks) \ {0}
    BY <1>6, <1>7, <2>1, <2>2
  <2>4. first \in Nat
    BY <1>6, <2>3, Blocks DEF Number
  <2> QED
    BY <2>1, <2>2, <2>3, <2>4
<1> DEFINE e == r.m
<1> HIDE DEF D, last, first
<1>9. /\ e = [a EXCEPT !.next = [a.next EXCEPT ![last] = 0]]
      /\ r.first = first
  <2>1. r.m = EndChain(a, last) /\ r.first = first
    BY <1>2 DEF last, first
  <2> QED
    BY <1>6, <2>1 DEF EndChain, INVALID_INDEX, Managers
<1> HIDE DEF e
<1>10. /\ e \in Managers(a.blocks) /\ e.blocks = a.blocks /\ e.used = a.used
       /\ e.firstFree = a.firstFree /\ e.payload = a.payload
       /\ e.next = [a.next EXCEPT ![last] = 0]
  <2> DEFINE nx == [a.next EXCEPT ![last] = 0]
  <2>1. 0 \in Number(a.blocks)
    <3> DEFINE p == a.blocks * K
    <3>1. p \in Nat /\ Number(a.blocks) = 0 .. p - 1
      BY <1>6, Blocks DEF Number
    <3> HIDE DEF p
    <3> QED
      BY <1>8, <3>1
  <2>2. nx \in [Number(a.blocks) -> Number(a.blocks)]
    BY <1>6, <2>1
  <2>3. e = [a EXCEPT !.next = nx]
    BY <1>9
  <2> HIDE DEF nx
  <2>4. /\ e \in Managers(a.blocks) /\ e.blocks = a.blocks /\ e.used = a.used
        /\ e.firstFree = a.firstFree /\ e.payload = a.payload
        /\ e.next = nx
    BY <1>6, <2>2, <2>3 DEF Managers
  <2> QED
    BY <2>4 DEF nx
<1>11. /\ e.next[last] = 0
       /\ \A c \in Number(a.blocks) : c # last => e.next[c] = a.next[c]
  BY <1>6, <1>8, <1>10
\* the only chunk whose link has changed is the last of the chain built
<1>12. ASSUME NEW h \in DOMAIN ch1, NEW i \in Places(ch1[h]), h # -1 \/ i # n
       PROVE  e.next[ch1[h][i]] = a.next[ch1[h][i]]
  <2>1. ch1[h][i] \in Number(a.blocks)
    BY <1>6
  <2>2. ch1[h][i] # last
    BY <1>7, <1>8, <1>12 DEF D
  <2> QED
    BY <1>11, <2>1, <2>2
<1>13. ASSUME NEW h \in DOMAIN ch \ {0}
       PROVE  /\ ch1[h] = ch[h] /\ h # -1
              /\ ch[h] \in Seq(Number(a.blocks) \ {0})
              /\ Untouched(m, e, ch[h])
              /\ h # first
              /\ Len(ch[h]) > 0 /\ Linked(e, ch[h], h)
  <2>1. h \in DOMAIN ch1 /\ h # -1 /\ ch1[h] = ch[h] /\ Untouched(m, a, ch[h])
    BY <1>5
  <2>2. ch[h] \in Seq(Number(a.blocks) \ {0})
    BY <1>7, <2>1
  <2>3. Untouched(m, e, ch[h])
    <3>1. \A i \in Places(ch[h]) : e.next[ch[h][i]] = a.next[ch[h][i]]
      BY <1>12, <2>1
    <3> QED
      BY <1>10, <2>1, <3>1 DEF Untouched
  <2>4. Len(ch[h]) > 0 /\ Linked(m, ch[h], h)
    BY DEF Chained
  <2>5. Linked(e, ch[h], h)
    BY <2>2, <2>3, <2>4, StaysLinked
  <2>6. h # first
    <3>1. 1 \in Places(ch1[h]) /\ ch1[h][1] = h
      BY <2>1, <2>2, <2>4 DEF Linked, Places
    <3> QED
      BY <1>7, <1>8, <2>1, <3>1 DEF D
  <2> QED
    BY <2>1, <2>2, <2>3, <2>4, <2>5, <2>6
<1>14. first \notin DOMAIN ch /\ first # 0 /\ first # -1
  BY <1>8, <1>13
<1> DEFINE ch2 == [h \in DOMAIN ch \cup {first} |-> IF h = first THEN D ELSE ch1[h]]
<1> DEFINE was(h) == IF h = first THEN -1 ELSE h
<1>15. /\ DOMAIN ch2 = DOMAIN ch \cup {first}
       /\ ch2[first] = D /\ ch2[0] = ch1[0]
       /\ \A h \in DOMAIN ch2 : was(h) \in DOMAIN ch1 /\ ch2[h] = ch1[was(h)]
       /\ \A g, h \in DOMAIN ch2 : was(g) = was(h) => g = h
       /\ \A h \in DOMAIN ch1 : \E g \in DOMAIN ch2 : was(g) = h
       /\ \A h \in DOMAIN ch \ {0} : ch2[h] = ch[h]
       /\ 0 \in DOMAIN ch2 /\ DOMAIN ch2 \subseteq Int
  <2>1. /\ DOMAIN ch2 = DOMAIN ch \cup {first}
        /\ 0 \in DOMAIN ch /\ -1 \notin DOMAIN ch
    BY <1>5, <1>7
  <2>2. ch2[first] = D /\ \A h \in DOMAIN ch : ch2[h] = ch1[h] /\ was(h) = h
    BY <1>14
  <2>3. was(first) = -1
    OBVIOUS
  <2>4. \A h \in DOMAIN ch2 : was(h) \in DOMAIN ch1 /\ ch2[h] = ch1[was(h)]
    <3> HIDE DEF ch2, was
    <3> QED
      BY <1>5, <1>7, <2>1, <2>2, <2>3 DEF D
  <2>5. \A g, h \in DOMAIN ch2 : was(g) = was(h) => g = h
    <3> HIDE DEF ch2, was
    <3> QED
      BY <2>1, <2>2, <2>3
  <2>6. \A h \in DOMAIN ch1 : \E g \in DOMAIN ch2 : was(g) = h
    <3> HIDE DEF ch2, was
    <3> QED
      BY <1>5, <2>1, <2>2, <2>3
  <2>7. \A h \in DOMAIN ch \ {0} : ch2[h] = ch[h]
    BY <1>13, <2>2
  <2> HIDE DEF ch2, was
  <2> QED
    BY <1>8, <2>1, <2>2, <2>4, <2>5, <2>6, <2>7
<1> HIDE DEF ch2, was
<1>16. Heap(e, ch2)
  <2>1. e \in AllManagers
    BY <1>6, <1>10 DEF AllManagers
  <2>2. \A h \in DOMAIN ch2 : ch2[h] \in Seq(Number(e.blocks) \ {0})
    BY <1>7, <1>10, <1>15
  <2>3. ASSUME NEW g \in DOMAIN ch2, NEW h \in DOMAIN ch2,
               NEW i \in Places(ch2[g]), NEW j \in Places(ch2[h]), ch2[g][i] = ch2[h][j]
        PROVE  g = h /\ i = j
    <3>1. /\ was(g) \in DOMAIN ch1 /\ was(h) \in DOMAIN ch1
          /\ ch2[g] = ch1[was(g)] /\ ch2[h] = ch1[was(h)]
          /\ was(g) = was(h) => g = h
      BY <1>15
    <3>2. was(g) = was(h) /\ i = j
      BY <1>7, <2>3, <3>1
    <3> QED
      BY <3>1, <3>2
  <2>4. ASSUME NEW c \in Number(e.blocks) \ {0}
        PROVE  \E h \in DOMAIN ch2 : \E i \in Places(ch2[h]) : ch2[h][i] = c
    <3>1. PICK g \in DOMAIN ch1 : \E i \in Places(ch1[g]) : ch1[g][i] = c
      BY <1>7, <1>10
    <3> QED
      BY <1>15, <3>1
  <2>5. Linked(e, ch2[0], e.firstFree)
    <3>1. Untouched(a, e, ch1[0])
      BY <1>7, <1>10, <1>12 DEF Untouched
    <3> QED
      BY <1>7, <1>10, <1>15, <3>1, StaysLinked
  <2>6. FreeCount(e, ch2)
    BY <1>7, <1>10, <1>15 DEF FreeCount
  <2> QED
    BY <1>15, <2>1, <2>2, <2>3, <2>4, <2>5, <2>6 DEF Heap
<1>17. Linked(e, D, first)
  <2>1. e.next[D[n]] = 0
    BY <1>8, <1>11
  <2>2. ASSUME NEW i \in 1 .. n - 1 PROVE e.next[D[i]] = D[i + 1]
    <3>1. i \in Places(D) /\ i # n
      BY <1>1, <1>5 DEF Places
    <3>2. e.next[D[i]] = a.next[D[i]]
      BY <1>7, <1>12, <3>1 DEF D
    <3> QED
      BY <1>8, <3>2
  <2> QED
    BY <1>1, <1>5, <1>8, <2>1, <2>2 DEF Linked
<1>18. Chained(e, ch2)
  <2>1. ASSUME NEW h \in DOMAIN ch2 \ {0}
        PROVE  Len(ch2[h]) > 0 /\ Linked(e, ch2[h], h)
    <3>1. CASE h = first
      BY <1>1, <1>5, <1>15, <1>17, <3>1
    <3>2. CASE h # first
      BY <1>13, <1>15, <3>2
    <3> QED
      BY <3>1, <3>2
  <2> QED
    BY <2>1 DEF Chained
<1>19. Len(ch2[first]) = n /\ \A i \in 1 .. n : e.payload[ch2[first][i]] = q[i]
  BY <1>5, <1>10, <1>15
<1>20. \A b \in Nat : m.blocks <= b /\ Fit(m.used + n, b) => e.blocks <= b
  BY <1>5, <1>10
<1>21. first \in Nat \ DOMAIN ch
  BY <1>8, <1>14
<1>22. \A h \in DOMAIN ch \ {0} : ch2[h] = ch[h] /\ Untouched(m, e, ch[h])
  BY <1>13, <1>15
<1> QED
  BY SMTT(60), <1>9, <1>15, <1>16, <1>18, <1>19, <1>20, <1>21, <1>22 DEF e, r, q, n

-----------------------------------------------------------------------------
(* What Chain and Restore compute. *)

\* A chain is not longer than there are chunks besides chunk 0.
LEMMA ChainLength ==
    ASSUME NEW m, NEW ch, Heap(m, ch), NEW h \in DOMAIN ch
    PROVE  /\ Len(ch[h]) \in Nat
           /\ m.blocks = 0 => Len(ch[h]) = 0
           /\ m.blocks > 0 => Len(ch[h]) <= m.blocks * K - 1
           /\ Cardinality(DOMAIN m.next) = m.blocks * K
           /\ IsInjective(ch[h])
           /\ IsFiniteSet(Range(ch[h]))
           /\ Cardinality(Range(ch[h])) = Len(ch[h])
<1> DEFINE s == ch[h]
<1> DEFINE p == m.blocks * K
<1>1. /\ m.blocks \in Nat /\ Len(s) \in Nat
      /\ \A i \in Places(s) : s[i] \in Number(m.blocks) \ {0}
      /\ DOMAIN m.next = Number(m.blocks)
  BY HeapShape
<1>2. p \in Nat /\ (m.blocks = 0 => p = 0) /\ (m.blocks > 0 => p >= K) /\ K \in Nat /\ K > 1
      /\ Number(m.blocks) = 0 .. p - 1
  BY <1>1, Blocks DEF Number
<1>3. s \in Seq(Number(m.blocks) \ {0})
      /\ \A i, j \in Places(s) : s[i] = s[j] => i = j
  BY DEF Heap
<1> HIDE DEF s, p
<1> DEFINE T == 1 .. p - 1
<1>4. /\ IsFiniteSet(T) /\ Cardinality(T) = (IF p > 1 THEN p - 1 ELSE 0)
      /\ IsFiniteSet(1 .. Len(s)) /\ Cardinality(1 .. Len(s)) = Len(s)
  <2>1. 1 \in Int /\ p - 1 \in Int /\ Len(s) \in Int
    BY <1>1, <1>2
  <2>2. IsFiniteSet(T) /\ Cardinality(T) = (IF 1 > p - 1 THEN 0 ELSE p - 1 - 1 + 1)
    BY <2>1, FS_Interval
  <2>3. /\ IsFiniteSet(1 .. Len(s))
        /\ Cardinality(1 .. Len(s)) = (IF 1 > Len(s) THEN 0 ELSE Len(s) - 1 + 1)
    BY <2>1, FS_Interval
  <2> QED
    BY <1>1, <1>2, <2>2, <2>3
<1>5. s \in [1 .. Len(s) -> T]
  <2>1. \A i \in 1 .. Len(s) : s[i] \in T
    BY <1>1, <1>2 DEF Places
  <2>2. s = [i \in 1 .. Len(s) |-> s[i]]
    BY <1>3
  <2> QED
    BY <2>1, <2>2
<1>6. IsInjective(s)
  BY <1>3, <1>5 DEF IsInjective, Places
<1>7. Len(s) <= Cardinality(T)
  <2>1. s \in Injection(1 .. Len(s), T)
    BY <1>5, <1>6 DEF Injection
  <2> HIDE DEF T
  <2> QED
    BY <1>4, <2>1, FS_Injection
<1>8. Cardinality(DOMAIN m.next) = p
  <2>1. 0 \in Int /\ p - 1 \in Int
    BY <1>2
  <2>2. Cardinality(0 .. p - 1) = IF 0 > p - 1 THEN 0 ELSE p - 1 - 0 + 1
    BY <2>1, FS_Interval
  <2> QED
    BY <1>1, <1>2, <2>2
<1>9. IsFiniteSet(Range(s)) /\ Cardinality(Range(s)) = Len(s)
  <2>1. s \in [1 .. Len(s) -> Range(s)] /\ \A t \in Range(s) : \E i \in 1 .. Len(s) : s[i] = t
    BY <1>5 DEF Range
  <2>2. s \in Surjection(1 .. Len(s), Range(s)) /\ s \in Injection(1 .. Len(s), Range(s))
    BY <1>6, <2>1 DEF Surjection, Injection
  <2> QED
    BY <1>4, <2>2, FS_Surjection
<1> QED
  BY <1>1, <1>2, <1>4, <1>6, <1>7, <1>8, <1>9 DEF s, p

\* Chain follows the links of the chain that there is.
LEMMA ChainIs ==
    ASSUME NEW m, NEW ch, Heap(m, ch), NEW h \in DOMAIN ch, NEW c, Linked(m, ch[h], c)
    PROVE  Chain(m, c) = ch[h]
<1> DEFINE s == ch[h]
<1> DEFINE L == Len(s)
<1> DEFINE S == Number(m.blocks)
<1> DEFINE N == Cardinality(DOMAIN m.next)
<1> DEFINE step(t) == IF Last(t) = 0 THEN t ELSE Append(t, m.next[Last(t)])
<1> DEFINE Solves(f) == f = [n \in 0 .. N |-> IF n = 0 THEN <<c>> ELSE step(f[n - 1])]
<1>1. Chain(m, c) = Front((CHOOSE f : Solves(f))[N])
  BY DEF Chain, INVALID_INDEX
<1>2. /\ s \in Seq(S \ {0}) /\ L \in Nat /\ N \in Nat /\ N >= L
      /\ \A i \in 1 .. L : s[i] \in S \ {0}
  <2>1. s \in Seq(S \ {0})
    BY DEF Heap
  <2>2. \A i \in 1 .. L : s[i] \in S \ {0}
    BY <2>1
  <2> DEFINE p == m.blocks * K
  <2>3. m.blocks \in Nat /\ p \in Nat
    BY HeapShape, Blocks
  <2>4. L \in Nat /\ (m.blocks = 0 => L = 0) /\ (m.blocks > 0 => L <= p - 1) /\ N = p
    BY ChainLength
  <2> HIDE DEF p, L, N
  <2>5. N >= L /\ N \in Nat
    BY <2>3, <2>4
  <2> QED
    BY <2>1, <2>2, <2>4, <2>5 DEF L
<1>3. /\ L = 0 => c = 0
      /\ L > 0 => c = s[1] /\ m.next[s[L]] = 0
      /\ \A i \in 1 .. L - 1 : m.next[s[i]] = s[i + 1]
  BY DEF Linked
<1> HIDE DEF s, L, S, N
<1> DEFINE All == S \cup {0}
<1> DEFINE full == Append(s, 0)
<1>4. /\ full \in Seq(All) /\ Len(full) = L + 1
      /\ \A i \in 1 .. L : full[i] = s[i]
      /\ full[L + 1] = 0
      /\ \A i \in 1 .. L + 1 : full[i] \in All
  <2>1. s \in Seq(All)
    BY <1>2
  <2>2. 0 \in All
    OBVIOUS
  <2> HIDE DEF All
  <2>3. /\ full \in Seq(All) /\ Len(full) = L + 1
        /\ \A i \in 1 .. L : full[i] = s[i]
        /\ full[L + 1] = 0
    BY <2>1, <2>2, AppendProperties DEF L
  <2> HIDE DEF full
  <2>4. \A i \in 1 .. L + 1 : full[i] \in All
    BY <2>3
  <2> QED
    BY <2>3, <2>4
<1> HIDE DEF full, All
<1> DEFINE pre(k) == [i \in 1 .. k |-> full[i]]
<1>5. ASSUME NEW k \in 1 .. L + 1
      PROVE  /\ pre(k) \in Seq(All) /\ Len(pre(k)) = k
             /\ \A i \in 1 .. k : pre(k)[i] = full[i]
             /\ Last(pre(k)) = full[k]
  <2>1. k \in Nat /\ k > 0 /\ \A i \in 1 .. k : full[i] \in All
    BY <1>2, <1>4
  <2>2. pre(k) \in Seq(All)
    BY <2>1, IsASeq
  <2>3. Len(pre(k)) = k
    BY <2>1, <2>2, LenProperties
  <2> QED
    BY <2>1, <2>2, <2>3 DEF Last
<1>6. pre(1) = <<c>>
  <2>1. full[1] = c
    BY <1>2, <1>3, <1>4
  <2>2. pre(1) = [i \in 1 .. 1 |-> c]
    BY <2>1
  <2> QED
    BY <2>2
<1>7. ASSUME NEW k \in 1 .. L + 1
      PROVE  step(pre(k)) = IF k = L + 1 THEN pre(k) ELSE pre(k + 1)
  <2> HIDE DEF pre
  <2>1. CASE k = L + 1
    BY <1>4, <1>5, <2>1
  <2>2. CASE k # L + 1
    <3>1. k \in 1 .. L /\ k + 1 \in 1 .. L + 1 /\ k \in Nat
      BY <1>2, <2>2
    <3>2. full[k] = s[k] /\ s[k] # 0
      BY <1>2, <1>4, <3>1
    <3>3. m.next[s[k]] = full[k + 1]
      <4>1. CASE k = L
        BY <1>2, <1>3, <1>4, <3>1, <4>1
      <4>2. CASE k # L
        <5>1. k \in 1 .. L - 1 /\ k + 1 \in 1 .. L
          BY <1>2, <3>1, <4>2
        <5> QED
          BY <1>3, <1>4, <5>1
      <4> QED
        BY <4>1, <4>2
    <3>4. step(pre(k)) = Append(pre(k), full[k + 1])
      BY <1>5, <3>2, <3>3
    <3>5. full[k + 1] \in All
      BY <1>4, <3>1
    <3> DEFINE a == Append(pre(k), full[k + 1])
    <3>6. /\ a \in Seq(All) /\ Len(a) = k + 1
          /\ \A i \in 1 .. k : a[i] = pre(k)[i]
          /\ a[k + 1] = full[k + 1]
      BY <1>5, <3>5, AppendProperties
    <3> HIDE DEF a
    <3>7. ASSUME NEW i \in 1 .. k + 1 PROVE a[i] = full[i]
      <4>1. CASE i = k + 1
        BY <3>6, <4>1
      <4>2. CASE i # k + 1
        <5>1. i \in 1 .. k
          BY <3>1, <4>2
        <5> QED
          BY <1>5, <3>6, <5>1
      <4> QED
        BY <4>1, <4>2
    <3>8. a = pre(k + 1)
      <4>1. pre(k + 1) \in Seq(All) /\ Len(pre(k + 1)) = k + 1
            /\ \A i \in 1 .. k + 1 : pre(k + 1)[i] = full[i]
        BY <1>5, <3>1
      <4>2. \A i \in 1 .. Len(a) : a[i] = pre(k + 1)[i]
        BY <3>6, <3>7, <4>1
      <4> QED
        BY <3>6, <4>1, <4>2, SeqEqual
    <3> QED
      BY <2>2, <3>4, <3>8 DEF a
  <2> QED
    BY <2>1, <2>2
<1> DEFINE at(n) == IF n <= L THEN n + 1 ELSE L + 1
<1> DEFINE g == [n \in 0 .. N |-> pre(at(n))]
<1>8. ASSUME NEW n \in 0 .. N, n # 0
      PROVE  step(pre(at(n - 1))) = pre(at(n))
  <2>1. at(n - 1) \in 1 .. L + 1
        /\ (at(n - 1) = L + 1 => at(n) = L + 1)
        /\ (at(n - 1) # L + 1 => at(n) = at(n - 1) + 1)
    BY <1>2, <1>8
  <2> HIDE DEF at, pre, step
  <2> QED
    BY <1>7, <2>1
<1>9. at(0) = 1 /\ at(N) = L + 1
  BY <1>2
<1> HIDE DEF at, pre, step
<1>10. Solves(g)
  <2>1. ASSUME NEW n \in 0 .. N
        PROVE  g[n] = IF n = 0 THEN <<c>> ELSE step(g[n - 1])
    <3>1. CASE n = 0
      BY <1>2, <1>6, <1>9, <3>1
    <3>2. CASE n # 0
      <4>1. n - 1 \in 0 .. N
        BY <1>2, <3>2
      <4> QED
        BY <1>8, <3>2, <4>1
    <3> QED
      BY <3>1, <3>2
  <2> DEFINE rhs == [n \in 0 .. N |-> IF n = 0 THEN <<c>> ELSE step(g[n - 1])]
  <2>2. \A n \in 0 .. N : g[n] = rhs[n]
    BY <2>1
  <2>3. g = [n \in 0 .. N |-> g[n]] /\ rhs = [n \in 0 .. N |-> rhs[n]]
    OBVIOUS
  <2> HIDE DEF g, rhs
  <2>4. g = rhs
    BY <2>2, <2>3
  <2> QED
    BY <2>4 DEF rhs
<1> DEFINE f == CHOOSE f : Solves(f)
<1>11. Solves(f)
  <2> HIDE DEF Solves
  <2> QED
    BY <1>10
<1> HIDE DEF f
<1>12. f[N] = g[N]
  <2>1. /\ \A n \in 0 .. N : f[n] = IF n = 0 THEN <<c>> ELSE step(f[n - 1])
        /\ \A n \in 0 .. N : g[n] = IF n = 0 THEN <<c>> ELSE step(g[n - 1])
    <3>1. \A n \in 0 .. N : f[n] = IF n = 0 THEN <<c>> ELSE step(f[n - 1])
      BY <1>11
    <3> HIDE DEF g
    <3>2. \A n \in 0 .. N : g[n] = IF n = 0 THEN <<c>> ELSE step(g[n - 1])
      BY <1>10
    <3> QED
      BY <3>1, <3>2
  <2> HIDE DEF g, Solves
  <2> DEFINE T == {n \in 0 .. N : f[n] = g[n]}
  <2>2. 0 \in T
    BY <1>2, <2>1
  <2>3. ASSUME NEW n \in 0 .. N - 1, n \in T PROVE n + 1 \in T
    <3>1. n + 1 \in 0 .. N /\ n + 1 # 0 /\ (n + 1) - 1 = n /\ f[n] = g[n]
      BY <1>2, <2>3
    <3> QED
      BY <2>1, <3>1
  <2> HIDE DEF T
  <2>4. 0 .. N \subseteq T
    BY <1>2, <2>2, <2>3, InductionUpTo
  <2>5. N \in T
    BY <1>2, <2>4
  <2> QED
    BY <2>5 DEF T
<1>13. g[N] = pre(L + 1)
  BY <1>2, <1>9
<1>14. Front(pre(L + 1)) = s
  <2>1. L + 1 \in 1 .. L + 1 /\ L + 1 - 1 = L
    BY <1>2
  <2>2. pre(L + 1) \in Seq(All) /\ Len(pre(L + 1)) = L + 1
        /\ \A i \in 1 .. L + 1 : pre(L + 1)[i] = full[i]
    BY <1>5, <2>1
  <2> DEFINE t == SubSeq(pre(L + 1), 1, L)
  <2>3. Front(pre(L + 1)) = t
    <3>1. Len(pre(L + 1)) - 1 = L
      BY <1>2, <2>2
    <3>2. Front(pre(L + 1)) = SubSeq(pre(L + 1), 1, Len(pre(L + 1)) - 1)
      BY DEF Front
    <3> QED
      BY <3>1, <3>2
  <2>4. 1 \in Int /\ L \in Int /\ \A i \in 1 .. L : pre(L + 1)[i] \in All
    BY <1>2, <1>4, <2>2
  <2>5. /\ t \in Seq(All)
        /\ Len(t) = IF 1 <= L THEN L - 1 + 1 ELSE 0
        /\ \A i \in 1 .. L - 1 + 1 : t[i] = pre(L + 1)[1 + i - 1]
    <3> HIDE DEF t
    <3> QED
      BY <2>4, SubSeqProperties DEF t
  <2> HIDE DEF t
  <2>6. Len(t) = L /\ \A i \in 1 .. L : t[i] = s[i]
    <3>1. Len(t) = L
      BY <1>2, <2>5
    <3>2. ASSUME NEW i \in 1 .. L PROVE t[i] = s[i]
      <4>1. i \in 1 .. L - 1 + 1 /\ 1 + i - 1 = i /\ i \in 1 .. L + 1
        BY <1>2
      <4> QED
        BY <1>4, <2>2, <2>5, <4>1
    <3> QED
      BY <3>1, <3>2
  <2>7. s \in Seq(All) /\ Len(s) = L
    BY <1>2 DEF All, L
  <2>8. t = s
    BY <2>5, <2>6, <2>7, SeqEqual
  <2> QED
    BY <2>3, <2>8
<1>15. Chain(m, c) = Front(f[N])
  BY <1>1 DEF f
<1> QED
  BY <1>12, <1>13, <1>14, <1>15 DEF s

\* The place of byte a + 1 follows that of byte a.
LEMMA NextPlace ==
    ASSUME NEW a \in Nat, NEW P \in Nat, P > 0
    PROVE  /\ a \div P \in Nat /\ a % P \in 0 .. P - 1
           /\ P * (a \div P) + (a % P) = a
           /\ (a % P) + 1 < P => /\ (a + 1) \div P = a \div P
                                 /\ (a + 1) % P = (a % P) + 1
           /\ ~ ((a % P) + 1 < P) => /\ (a + 1) \div P = (a \div P) + 1
                                     /\ (a + 1) % P = 0
<1> DEFINE q == a \div P
<1> DEFINE r == a % P
<1>1. q \in Nat /\ r \in 0 .. P - 1 /\ P * q + r = a
  OBVIOUS
<1> HIDE DEF q, r
<1>2. ASSUME r + 1 < P
      PROVE  (a + 1) \div P = q /\ (a + 1) % P = r + 1
  <2>1. a + 1 = P * q + (r + 1) /\ r + 1 \in 0 .. P - 1
    BY <1>1, <1>2
  <2> QED
    BY <1>1, <2>1
<1>3. ASSUME ~ (r + 1 < P)
      PROVE  (a + 1) \div P = q + 1 /\ (a + 1) % P = 0
  <2>1. r + 1 = P
    BY <1>1, <1>3
  <2>2. P * (q + 1) = P * q + P
    BY <1>1
  <2>3. a + 1 = P * (q + 1) + 0
    BY <1>1, <2>1, <2>2
  <2> QED
    BY <1>1, <2>3
<1> QED
  BY <1>1, <1>2, <1>3 DEF q, r

LEMMA PlaceInChain ==
    ASSUME NEW P \in Nat, P > 0, NEW L \in Nat, NEW a \in Nat, a < L * P
    PROVE  a \div P \in Nat /\ (a \div P) + 1 \in 1 .. L
<1> DEFINE q == a \div P
<1>1. q \in Nat /\ P * q <= a
  BY NextPlace
<1> HIDE DEF q
<1>2. q < L
  <2>1. SUFFICES ASSUME q >= L PROVE FALSE
    BY <1>1
  <2>2. PICK d \in Nat : q = L + d
    <3>1. q - L \in Nat /\ q = L + (q - L)
      BY <1>1, <2>1
    <3> QED
      BY <3>1
  <2>3. P * q = L * P + P * d /\ P * d \in Nat /\ L * P \in Nat
    BY <2>2
  <2> QED
    BY <1>1, <2>3
<1> QED
  BY <1>1, <1>2 DEF q

\* The bytes that restore delivers, by their places in the chain.
BytesOf(m, s, len) ==
    [n \in 1 .. len |-> m.payload[s[((n - 1) \div Payload) + 1]][((n - 1) % Payload) + 1]]

LEMMA RestoreIs ==
    ASSUME NEW m, NEW s, NEW c, Len(s) \in Nat, Linked(m, s, c),
           NEW len \in Nat, len > 0, len <= Len(s) * Payload
    PROVE  Restore(m, c, len) = BytesOf(m, s, len)
<1> DEFINE P == Payload
<1> DEFINE L == Len(s)
<1> DEFINE place(n) == <<s[((n - 1) \div P) + 1], ((n - 1) % P) + 1>>
<1> DEFINE after(p) == IF p[2] < P THEN <<p[1], p[2] + 1>> ELSE <<m.next[p[1]], 1>>
<1> DEFINE Solves(f) == f = [n \in 1 .. len |-> IF n = 1 THEN <<c, 1>> ELSE after(f[n - 1])]
<1>1. Restore(m, c, len) =
        [n \in 1 .. len |-> m.payload[(CHOOSE f : Solves(f))[n][1]][(CHOOSE f : Solves(f))[n][2]]]
  BY DEF Restore
<1>2. P \in Nat /\ P > 0 /\ L \in Nat /\ len <= L * P
  BY ChunkStoreAssumption
<1>3. /\ L > 0 => c = s[1]
      /\ \A i \in 1 .. L - 1 : m.next[s[i]] = s[i + 1]
  BY DEF Linked
<1> HIDE DEF P, L
<1>4. place(1) = <<c, 1>>
  <2>1. 1 - 1 = 0 /\ 0 \in Nat /\ 0 < L * P
    <3> DEFINE t == L * P
    <3>1. t \in Nat /\ len <= t
      BY <1>2
    <3> HIDE DEF t
    <3>2. 0 < t
      BY <3>1
    <3> QED
      BY <3>2 DEF t
  <2>2. 0 \div P = 0 /\ 0 % P = 0
    BY <1>2
  <2>3. L > 0
    BY <1>2, <2>1, PlaceInChain
  <2> QED
    BY <1>3, <2>1, <2>2, <2>3
<1>5. ASSUME NEW n \in 1 .. len, n # 1
      PROVE  place(n) = after(place(n - 1))
  <2> DEFINE a == n - 2
  <2> DEFINE q == a \div P
  <2> DEFINE r == a % P
  <2>1. a \in Nat /\ n - 1 = a + 1 /\ (n - 1) - 1 = a
    BY <1>5
  <2>2. place(n - 1) = <<s[q + 1], r + 1>>
    BY <2>1
  <2>3. /\ q \in Nat /\ r \in 0 .. P - 1
        /\ r + 1 < P => (a + 1) \div P = q /\ (a + 1) % P = r + 1
        /\ ~ (r + 1 < P) => (a + 1) \div P = q + 1 /\ (a + 1) % P = 0
    BY <1>2, <2>1, NextPlace
  <2>4. place(n) = <<s[((a + 1) \div P) + 1], ((a + 1) % P) + 1>>
    BY <2>1
  <2>5. a + 1 < L * P
    <3> DEFINE t == L * P
    <3>1. t \in Nat /\ len <= t
      BY <1>2
    <3> HIDE DEF t
    <3>2. a + 1 < t
      BY <2>1, <3>1
    <3> QED
      BY <3>2 DEF t
  <2>6. a + 1 \in Nat
    BY <2>1
  <2>7. ((a + 1) \div P) + 1 \in 1 .. L
    BY <1>2, <2>5, <2>6, PlaceInChain
  <2> HIDE DEF q, r, a, place
  <2>8. CASE r + 1 < P
    <3>1. after(place(n - 1)) = <<s[q + 1], (r + 1) + 1>>
      BY <2>2, <2>8
    <3> QED
      BY <2>3, <2>4, <2>8, <3>1
  <2>9. CASE ~ (r + 1 < P)
    <3>1. after(place(n - 1)) = <<m.next[s[q + 1]], 1>>
      BY <2>2, <2>9
    <3>2. (q + 1) + 1 \in 1 .. L
      BY <2>3, <2>7, <2>9
    <3>3. q + 1 \in 1 .. L - 1
      BY <1>2, <2>3, <3>2
    <3>4. m.next[s[q + 1]] = s[(q + 1) + 1]
      BY <1>3, <3>3
    <3>5. place(n) = <<s[(q + 1) + 1], 0 + 1>>
      BY <2>3, <2>4, <2>9
    <3> QED
      BY <3>1, <3>4, <3>5
  <2> QED
    BY <2>8, <2>9
<1> HIDE DEF after
<1> DEFINE g == [n \in 1 .. len |-> place(n)]
<1>6. Solves(g)
  <2> HIDE DEF place
  <2>1. ASSUME NEW n \in 1 .. len
        PROVE  place(n) = IF n = 1 THEN <<c, 1>> ELSE after(g[n - 1])
    <3>1. CASE n = 1
      BY <1>4, <3>1
    <3>2. CASE n # 1
      <4>1. n - 1 \in 1 .. len
        BY <3>2
      <4> QED
        BY <1>5, <3>2, <4>1
    <3> QED
      BY <3>1, <3>2
  <2> DEFINE rhs == [n \in 1 .. len |-> IF n = 1 THEN <<c, 1>> ELSE after(g[n - 1])]
  <2>2. \A n \in 1 .. len : g[n] = rhs[n]
    BY <2>1
  <2>3. g = [n \in 1 .. len |-> g[n]] /\ rhs = [n \in 1 .. len |-> rhs[n]]
    OBVIOUS
  <2> HIDE DEF g, rhs
  <2>4. g = rhs
    BY <2>2, <2>3
  <2> QED
    BY <2>4 DEF rhs
<1> HIDE DEF place
<1> DEFINE f == CHOOSE f : Solves(f)
<1>7. Solves(f)
  <2> HIDE DEF Solves
  <2> QED
    BY <1>6
<1> HIDE DEF f
<1>8. ASSUME NEW n \in 1 .. len
      PROVE  f[n] = place(n)
  <2>1. \A k \in 1 .. len : f[k] = IF k = 1 THEN <<c, 1>> ELSE after(f[k - 1])
    BY <1>7
  <2> HIDE DEF Solves
  <2> DEFINE T == {k \in 0 .. len - 1 : f[k + 1] = place(k + 1)}
  <2>2. 0 \in T
    <3>1. 0 \in 0 .. len - 1 /\ 0 + 1 = 1 /\ 1 \in 1 .. len
      OBVIOUS
    <3> QED
      BY <1>4, <2>1, <3>1
  <2>3. ASSUME NEW k \in 0 .. (len - 1) - 1, k \in T PROVE k + 1 \in T
    <3>1. k + 1 \in 0 .. len - 1 /\ (k + 1) + 1 \in 1 .. len /\ (k + 1) + 1 # 1
          /\ ((k + 1) + 1) - 1 = k + 1
      OBVIOUS
    <3>2. f[k + 1] = place(k + 1)
      BY <2>3
    <3>3. place((k + 1) + 1) = after(place(k + 1))
      BY <1>5, <3>1
    <3>4. f[(k + 1) + 1] = after(f[k + 1])
      BY <2>1, <3>1
    <3> QED
      BY <3>1, <3>2, <3>3, <3>4
  <2> HIDE DEF T
  <2>4. 0 .. len - 1 \subseteq T
    <3>1. len - 1 \in Nat
      OBVIOUS
    <3> QED
      BY <2>2, <2>3, <3>1, InductionUpTo
  <2>5. n - 1 \in 0 .. len - 1 /\ (n - 1) + 1 = n
    OBVIOUS
  <2>6. n - 1 \in T
    BY <2>4, <2>5
  <2>7. f[(n - 1) + 1] = place((n - 1) + 1)
    BY <2>6 DEF T
  <2> QED
    BY <2>5, <2>7
<1>9. Restore(m, c, len) = [n \in 1 .. len |-> m.payload[f[n][1]][f[n][2]]]
  BY <1>1 DEF f
<1>10. ASSUME NEW n \in 1 .. len
       PROVE  /\ f[n][1] = s[((n - 1) \div P) + 1]
              /\ f[n][2] = ((n - 1) % P) + 1
  BY <1>8 DEF place
<1>11. Restore(m, c, len) =
         [n \in 1 .. len |-> m.payload[s[((n - 1) \div P) + 1]][((n - 1) % P) + 1]]
  <2> DEFINE lhs == [n \in 1 .. len |-> m.payload[f[n][1]][f[n][2]]]
  <2> DEFINE rhs == [n \in 1 .. len |-> m.payload[s[((n - 1) \div P) + 1]][((n - 1) % P) + 1]]
  <2>1. \A n \in 1 .. len : lhs[n] = rhs[n]
    BY <1>10
  <2>2. lhs = [n \in 1 .. len |-> lhs[n]] /\ rhs = [n \in 1 .. len |-> rhs[n]]
    OBVIOUS
  <2> HIDE DEF lhs, rhs
  <2>3. lhs = rhs
    BY <2>1, <2>2
  <2> QED
    BY <1>9, <2>3 DEF lhs, rhs
<1> QED
  BY <1>11 DEF P, BytesOf

\* Restoring a chain gives the same bytes where nothing changes.
LEMMA SameBytes ==
    ASSUME NEW m, NEW n, NEW s, Len(s) \in Nat, Untouched(m, n, s),
           NEW len \in Nat, len <= Len(s) * Payload
    PROVE  BytesOf(n, s, len) = BytesOf(m, s, len)
<1>1. Payload \in Nat /\ Payload > 0
  BY ChunkStoreAssumption
<1>2. ASSUME NEW i \in 1 .. len
      PROVE  n.payload[s[((i - 1) \div Payload) + 1]] = m.payload[s[((i - 1) \div Payload) + 1]]
  <2> DEFINE t == Len(s) * Payload
  <2>1. t \in Nat /\ len <= t
    BY <1>1
  <2>2. i - 1 \in Nat /\ i - 1 < t
    <3> HIDE DEF t
    <3> QED
      BY <2>1
  <2>3. ((i - 1) \div Payload) + 1 \in 1 .. Len(s)
    BY <1>1, <2>2, PlaceInChain
  <2> QED
    BY <2>3 DEF Untouched, Places
<1> QED
  BY <1>2 DEF BytesOf

\* A chain that holds the pieces of a string holds the string.
LEMMA PiecesRestored ==
    ASSUME NEW str \in Strings, NEW m, NEW s, Len(s) = Len(Pieces(str)),
           \A i \in 1 .. Len(s) : m.payload[s[i]] = Pieces(str)[i]
    PROVE  BytesOf(m, s, Len(str)) = str
<1> DEFINE q == Pieces(str)
<1> DEFINE len == Len(str)
<1> DEFINE P == Payload
<1>1. /\ Len(q) \in Nat /\ len \in Nat /\ P \in Nat /\ P > 0
      /\ len <= Len(q) * P
      /\ \A p \in 1 .. Len(q), j \in 1 .. P :
                    (p - 1) * P + j <= len => q[p][j] = str[(p - 1) * P + j]
      /\ str \in Seq(Byte)
  BY PiecesAre, StringShape
<1> HIDE DEF q, len, P
<1>2. ASSUME NEW n \in 1 .. len
      PROVE  m.payload[s[((n - 1) \div P) + 1]][((n - 1) % P) + 1] = str[n]
  <2> DEFINE a == n - 1
  <2> DEFINE p == (a \div P) + 1
  <2> DEFINE j == (a % P) + 1
  <2> DEFINE t == Len(q) * P
  <2>1. a \in Nat /\ t \in Nat /\ len <= t
    BY <1>1
  <2>2. a < t
    <3> HIDE DEF t
    <3> QED
      BY <1>1, <2>1
  <2>3. p \in 1 .. Len(q)
    BY <1>1, <2>1, <2>2, PlaceInChain
  <2>4. j \in 1 .. P /\ P * (a \div P) + (a % P) = a /\ a \div P \in Nat /\ a % P \in Nat
    <3> HIDE DEF a
    <3>1. /\ a \div P \in Nat /\ a % P \in 0 .. P - 1
          /\ P * (a \div P) + (a % P) = a
      BY <1>1, <2>1, NextPlace
    <3> DEFINE r == a % P
    <3>2. r \in 0 .. P - 1
      BY <3>1
    <3> HIDE DEF r
    <3>3. r \in Nat /\ r + 1 \in 1 .. P
      BY <1>1, <3>2
    <3> QED
      BY <3>1, <3>3 DEF r
  <2>5. (p - 1) * P + j = n
    <3>1. p - 1 = a \div P /\ (a \div P) * P = P * (a \div P)
      BY <1>1, <2>4
    <3> DEFINE u == P * (a \div P)
    <3>2. u \in Int /\ (p - 1) * P = u /\ u + (a % P) = a
      BY <1>1, <2>4, <3>1
    <3> HIDE DEF u, p
    <3> QED
      BY <2>4, <3>2
  <2> HIDE DEF p, j
  <2>6. q[p][j] = str[n]
    <3>1. (p - 1) * P + j <= len
      BY <1>1, <2>5
    <3>2. q[p][j] = str[(p - 1) * P + j]
      BY <1>1, <2>3, <2>4, <3>1
    <3> QED
      BY <2>5, <3>2
  <2>7. m.payload[s[p]] = q[p]
    BY <2>3 DEF q
  <2> QED
    BY <2>6, <2>7 DEF p, j
<1>3. str = [n \in 1 .. len |-> str[n]]
  BY <1>1 DEF len
<1>4. BytesOf(m, s, len) = [n \in 1 .. len |-> str[n]]
  BY <1>2 DEF BytesOf, P
<1> QED
  BY <1>3, <1>4 DEF len

-----------------------------------------------------------------------------
(* Freeing a chain. *)

\* mark_as_free moves the first chunk of a chain to the front of the free chain.
LEMMA FreeStep ==
    ASSUME NEW m, NEW ch, Heap(m, ch), NEW h \in DOMAIN ch, h # 0, Len(ch[h]) > 0
    PROVE  \E ch3 : LET r == MarkAsFree(m, ch[h][1])
                    IN /\ Heap(r, ch3)
                       /\ r.blocks = m.blocks
                       /\ DOMAIN ch3 = DOMAIN ch
                       /\ \A g \in DOMAIN ch \ {0, h} :
                             ch3[g] = ch[g] /\ Untouched(m, r, ch[g])
                       /\ Len(ch3[h]) = Len(ch[h]) - 1
                       /\ \A i \in 1 .. Len(ch3[h]) : ch3[h][i] = ch[h][i + 1]
<1> DEFINE S == Number(m.blocks) \ {0}
<1> DEFINE D == ch[h]
<1> DEFINE L == Len(D)
<1> DEFINE F == ch[0]
<1> DEFINE Q == Len(F)
<1> DEFINE c == D[1]
<1> DEFINE r == MarkAsFree(m, c)
<1>1. /\ m.blocks \in Nat /\ m.used \in Int
      /\ m \in Managers(m.blocks)
      /\ m.next \in [Number(m.blocks) -> Number(m.blocks)]
      /\ \A g \in DOMAIN ch :
            /\ Len(ch[g]) \in Nat
            /\ \A i \in Places(ch[g]) : ch[g][i] \in S
  BY HeapShape
<1>2. /\ 0 \in DOMAIN ch /\ DOMAIN ch \subseteq Int
      /\ \A g \in DOMAIN ch : ch[g] \in Seq(S)
      /\ \A f, g \in DOMAIN ch : \A i \in Places(ch[f]), j \in Places(ch[g]) :
            ch[f][i] = ch[g][j] => f = g /\ i = j
      /\ \A d \in S : \E g \in DOMAIN ch : \E i \in Places(ch[g]) : ch[g][i] = d
      /\ Linked(m, F, m.firstFree)
      /\ m.used + Q = IF m.blocks = 0 THEN 0 ELSE m.blocks * K - 1
  BY DEF Heap, FreeCount
<1>3. L \in Nat /\ L > 0 /\ Q \in Nat /\ D \in Seq(S) /\ F \in Seq(S)
  BY <1>1, <1>2
<1>4. 1 \in Places(D) /\ c \in S /\ c \in Number(m.blocks)
  BY <1>1, <1>3 DEF Places
<1>5. /\ r \in Managers(m.blocks)
      /\ r.firstFree = c
      /\ r.next = [m.next EXCEPT ![c] = m.firstFree]
      /\ r.payload = m.payload
      /\ r.used = m.used - 1
      /\ r.blocks = m.blocks
  BY <1>1, <1>4, MarkAsFreeIs
<1> HIDE DEF S, D, L, F, Q, c, r
<1>6. /\ r.next[c] = m.firstFree
      /\ \A d \in S : d # c => r.next[d] = m.next[d]
  BY <1>1, <1>4, <1>5 DEF S
<1> DEFINE rest == Tail(D)
<1>7. /\ rest \in Seq(S)
      /\ Len(rest) = L - 1
      /\ \A i \in 1 .. L - 1 : rest[i] = D[i + 1]
  <2>1. D # <<>>
    BY <1>3, EmptySeq DEF L
  <2> QED
    BY <1>3, <2>1, HeadTailProperties DEF L
<1> HIDE DEF rest
<1> DEFINE E == [i \in 1 .. Q + 1 |-> IF i = 1 THEN c ELSE F[i - 1]]
<1>8. /\ E \in Seq(S) /\ Len(E) = Q + 1
      /\ E[1] = c
      /\ \A i \in 2 .. Q + 1 : E[i] = F[i - 1]
  <2> DEFINE e(i) == IF i = 1 THEN c ELSE F[i - 1]
  <2>1. ASSUME NEW i \in 1 .. Q + 1 PROVE e(i) \in S
    <3>1. CASE i = 1
      BY <1>4, <3>1
    <3>2. CASE i # 1
      <4>1. i - 1 \in Places(F) /\ 0 \in DOMAIN ch
        BY <1>2, <1>3, <3>2 DEF Places, Q
      <4> QED
        BY <1>1, <3>2, <4>1 DEF F
    <3> QED
      BY <3>1, <3>2
  <2>2. Q + 1 \in Nat
    BY <1>3
  <2>3. \A i \in 1 .. Q + 1 : e(i) \in S
    BY <2>1
  <2>4. [i \in 1 .. Q + 1 |-> e(i)] \in Seq(S)
    <3> HIDE DEF e
    <3> QED
      BY <2>2, <2>3, IsASeq
  <2>5. E \in Seq(S)
    BY <2>4
  <2>6. Len(E) = Q + 1
    BY <2>2, <2>5, LenProperties
  <2>7. E[1] = c /\ \A i \in 2 .. Q + 1 : E[i] = F[i - 1]
    BY <1>3
  <2> QED
    BY <2>5, <2>6, <2>7
<1> HIDE DEF E
<1> DEFINE ch3 == [g \in DOMAIN ch |-> IF g = 0 THEN E ELSE IF g = h THEN rest ELSE ch[g]]
<1>9. /\ DOMAIN ch3 = DOMAIN ch
      /\ ch3[0] = E /\ ch3[h] = rest
      /\ \A g \in DOMAIN ch \ {0, h} : ch3[g] = ch[g]
  BY <1>2
<1> HIDE DEF ch3
\* where the place i of chain g of ch3 is in ch
<1> DEFINE oh(g, i) == IF g = 0 /\ i = 1 THEN h ELSE g
<1> DEFINE oi(g, i) == IF g = 0 THEN (IF i = 1 THEN 1 ELSE i - 1) ELSE IF g = h THEN i + 1 ELSE i
<1>10. ASSUME NEW g \in DOMAIN ch, NEW i \in Places(ch3[g])
       PROVE  /\ i \in Nat /\ i > 0
              /\ oh(g, i) \in DOMAIN ch
              /\ oi(g, i) \in Places(ch[oh(g, i)])
              /\ ch3[g][i] = ch[oh(g, i)][oi(g, i)]
  <2>1. CASE g = 0 /\ i = 1
    <3>1. oh(g, i) = h /\ oi(g, i) = 1
      BY <2>1
    <3> HIDE DEF oh, oi
    <3> QED
      BY <1>4, <1>8, <1>9, <2>1, <3>1 DEF D, c
  <2>2. CASE g = 0 /\ i # 1
    <3>1. oh(g, i) = 0 /\ oi(g, i) = i - 1
      BY <2>2
    <3>2. i \in 2 .. Q + 1 /\ i \in Nat /\ i > 0
      BY <1>3, <1>8, <1>9, <1>10, <2>2 DEF Places
    <3>3. ch3[g][i] = F[i - 1] /\ i - 1 \in 1 .. Q
      BY <1>3, <1>8, <1>9, <2>2, <3>2
    <3>4. i - 1 \in Places(F)
      BY <3>3 DEF Places, Q
    <3> HIDE DEF oh, oi
    <3> QED
      BY <1>2, <3>1, <3>2, <3>3, <3>4 DEF F
  <2>3. CASE g = h
    <3>1. oh(g, i) = h /\ oi(g, i) = i + 1
      BY <2>3
    <3>2. i \in 1 .. L - 1 /\ i \in Nat /\ i > 0
      BY <1>3, <1>7, <1>9, <1>10, <2>3 DEF Places
    <3>3. ch3[g][i] = D[i + 1] /\ i + 1 \in 1 .. L
      BY <1>3, <1>7, <1>9, <2>3, <3>2
    <3>4. i + 1 \in Places(D)
      BY <3>3 DEF Places, L
    <3> HIDE DEF oh, oi
    <3> QED
      BY <3>1, <3>2, <3>3, <3>4 DEF D
  <2>4. CASE g \notin {0, h}
    <3>1. oh(g, i) = g /\ oi(g, i) = i
      BY <2>4
    <3>2. i \in Places(ch[g]) /\ ch3[g] = ch[g]
      BY <1>9, <1>10, <2>4
    <3>3. i \in Nat /\ i > 0
      BY <1>1, <3>2 DEF Places
    <3> HIDE DEF oh, oi
    <3> QED
      BY <3>1, <3>2, <3>3
  <2> QED
    BY <2>1, <2>2, <2>3, <2>4
<1>11. ASSUME NEW f \in DOMAIN ch, NEW g \in DOMAIN ch,
              NEW i \in Places(ch3[f]), NEW j \in Places(ch3[g]), ch3[f][i] = ch3[g][j]
       PROVE  f = g /\ i = j
  <2>1. oh(f, i) = oh(g, j) /\ oi(f, i) = oi(g, j)
    <3> HIDE DEF oh, oi
    <3>1. /\ oh(f, i) \in DOMAIN ch /\ oi(f, i) \in Places(ch[oh(f, i)])
          /\ oh(g, j) \in DOMAIN ch /\ oi(g, j) \in Places(ch[oh(g, j)])
      BY <1>10
    <3>2. ch[oh(f, i)][oi(f, i)] = ch[oh(g, j)][oi(g, j)]
      BY <1>10, <1>11
    <3> QED
      BY <1>2, <3>1, <3>2
  <2>2. i \in Nat /\ i > 0 /\ j \in Nat /\ j > 0 /\ f \in Int /\ g \in Int /\ h \in Int
    BY <1>2, <1>10
  <2> QED
    BY <2>1, <2>2
<1>12. ASSUME NEW d \in S
       PROVE  \E g \in DOMAIN ch : \E i \in Places(ch3[g]) : ch3[g][i] = d
  <2>1. PICK g \in DOMAIN ch : \E i \in Places(ch[g]) : ch[g][i] = d
    BY <1>2
  <2>2. PICK i \in Places(ch[g]) : ch[g][i] = d
    BY <2>1
  <2>3. CASE g = 0
    <3>1. i \in 1 .. Q /\ F[i] = d
      BY <2>2, <2>3 DEF Places, F, Q
    <3>2. i + 1 \in 2 .. Q + 1 /\ (i + 1) - 1 = i /\ i + 1 \in 1 .. Q + 1
      BY <1>3, <3>1
    <3>3. E[i + 1] = d
      BY <1>8, <3>1, <3>2
    <3>4. i + 1 \in Places(ch3[0]) /\ ch3[0][i + 1] = d
      BY <1>8, <1>9, <3>2, <3>3 DEF Places
    <3> QED
      BY <1>2, <3>4
  <2>4. CASE g = h /\ i = 1
    <3>1. 1 \in Places(ch3[0]) /\ ch3[0][1] = d
      BY <1>3, <1>8, <1>9, <2>2, <2>4 DEF Places, D, c
    <3> QED
      BY <1>2, <3>1
  <2>5. CASE g = h /\ i # 1
    <3>1. i \in 1 .. L /\ D[i] = d
      BY <2>2, <2>5 DEF Places, D, L
    <3>2. i - 1 \in 1 .. L - 1 /\ (i - 1) + 1 = i
      BY <1>3, <2>5, <3>1
    <3>3. rest[i - 1] = d
      BY <1>7, <3>1, <3>2
    <3>4. i - 1 \in Places(ch3[h]) /\ ch3[h][i - 1] = d
      BY <1>7, <1>9, <3>2, <3>3 DEF Places
    <3> QED
      BY <3>4
  <2>6. CASE g \notin {0, h}
    BY <1>9, <2>2, <2>6
  <2> QED
    BY <2>3, <2>4, <2>5, <2>6
\* c is in no other place, so the links followed there are the same
<1>13. ASSUME NEW g \in DOMAIN ch, NEW i \in Places(ch[g]), g # h
       PROVE  ch[g][i] \in S /\ r.next[ch[g][i]] = m.next[ch[g][i]]
  <2>1. ch[g][i] \in S
    BY <1>1
  <2>2. ch[g][i] # c
    BY <1>2, <1>4, <1>13 DEF D, c
  <2> QED
    BY <1>6, <2>1, <2>2
<1>14. Linked(r, E, c)
  <2>1. /\ Q = 0 => m.firstFree = 0
        /\ Q > 0 => m.firstFree = F[1] /\ m.next[F[Q]] = 0
        /\ \A i \in 1 .. Q - 1 : m.next[F[i]] = F[i + 1]
    BY <1>2 DEF Linked, Q
  <2>2. ASSUME NEW i \in 1 .. Q PROVE r.next[F[i]] = m.next[F[i]]
    BY <1>2, <1>13 DEF Places, F, Q
  <2>3. r.next[E[Q + 1]] = 0
    <3>1. CASE Q = 0
      BY <1>6, <1>8, <2>1, <3>1
    <3>2. CASE Q > 0
      <4>1. Q + 1 \in 2 .. Q + 1 /\ (Q + 1) - 1 = Q /\ Q \in 1 .. Q
        BY <1>3, <3>2
      <4>2. E[Q + 1] = F[Q]
        BY <1>8, <4>1
      <4> QED
        BY <2>1, <2>2, <3>2, <4>1, <4>2
    <3> QED
      BY <1>3, <3>1, <3>2
  <2>4. ASSUME NEW i \in 1 .. Q PROVE r.next[E[i]] = E[i + 1]
    <3>1. i + 1 \in 2 .. Q + 1 /\ (i + 1) - 1 = i
      BY <1>3
    <3>2. E[i + 1] = F[i]
      BY <1>8, <3>1
    <3>3. CASE i = 1
      BY <1>3, <1>6, <1>8, <2>1, <3>2, <3>3
    <3>4. CASE i # 1
      <4>1. i \in 2 .. Q + 1 /\ i - 1 \in 1 .. Q - 1 /\ i - 1 \in 1 .. Q /\ (i - 1) + 1 = i
        BY <1>3, <3>4
      <4>2. E[i] = F[i - 1] /\ r.next[F[i - 1]] = m.next[F[i - 1]]
        BY <1>8, <2>2, <4>1
      <4>3. m.next[F[i - 1]] = F[(i - 1) + 1]
        BY <2>1, <4>1
      <4> QED
        BY <3>2, <4>1, <4>2, <4>3
    <3> QED
      BY <3>3, <3>4
  <2>5. Len(E) = Q + 1 /\ Len(E) > 0 /\ Len(E) - 1 = Q
    BY <1>3, <1>8
  <2>6. \A i \in 1 .. Len(E) - 1 : r.next[E[i]] = E[i + 1]
    BY <2>4, <2>5
  <2>7. c = E[1] /\ r.next[E[Len(E)]] = 0 /\ Len(E) # 0
    BY <1>8, <2>3, <2>5
  <2> QED
    BY <2>6, <2>7 DEF Linked
<1>15. FreeCount(r, ch3)
  <2>1. Len(ch3[0]) = Q + 1
    BY <1>8, <1>9
  <2>2. \A u \in Int : (u - 1) + (Q + 1) = u + Q
    BY <1>3
  <2>3. (m.used - 1) + (Q + 1) = m.used + Q
    BY <1>1, <2>2
  <2>4. r.used + Len(ch3[0]) = m.used + Q
    BY <1>5, <2>1, <2>3
  <2> QED
    BY <1>2, <1>5, <2>4 DEF FreeCount
<1>16. Heap(r, ch3)
  <2>1. r \in AllManagers
    BY <1>1, <1>5 DEF AllManagers
  <2>2. ASSUME NEW g \in DOMAIN ch
        PROVE  ch3[g] \in Seq(Number(r.blocks) \ {0})
    <3>1. ch3[g] \in Seq(S)
      BY <1>2, <1>7, <1>8, <1>9
    <3> QED
      BY <1>5, <3>1 DEF S
  <2>3. \A d \in Number(r.blocks) \ {0} :
          \E g \in DOMAIN ch3 : \E i \in Places(ch3[g]) : ch3[g][i] = d
    BY <1>5, <1>9, <1>12 DEF S
  <2>4. \A f, g \in DOMAIN ch3 : \A i \in Places(ch3[f]), j \in Places(ch3[g]) :
          ch3[f][i] = ch3[g][j] => f = g /\ i = j
    BY <1>9, <1>11
  <2>5. Linked(r, ch3[0], r.firstFree)
    BY <1>5, <1>9, <1>14
  <2> QED
    BY <1>2, <1>9, <1>15, <2>1, <2>2, <2>3, <2>4, <2>5 DEF Heap
<1>17. ASSUME NEW g \in DOMAIN ch \ {0, h}
       PROVE  ch3[g] = ch[g] /\ Untouched(m, r, ch[g])
  BY <1>5, <1>9, <1>13 DEF Untouched
<1>18. Len(ch3[h]) = L - 1 /\ \A i \in 1 .. Len(ch3[h]) : ch3[h][i] = D[i + 1]
  BY <1>7, <1>9
<1> QED
  BY <1>5, <1>9, <1>16, <1>17, <1>18 DEF r, c, D, L

\* After k rounds of free's loop the first k chunks of the chain of h are free.
Freed(m0, ch0, h, k, m, ch) ==
    /\ Heap(m, ch)
    /\ m.blocks = m0.blocks
    /\ DOMAIN ch = DOMAIN ch0
    /\ \A g \in DOMAIN ch0 \ {0, h} : ch[g] = ch0[g] /\ Untouched(m0, m, ch0[g])
    /\ Len(ch[h]) = Len(ch0[h]) - k
    /\ \A i \in 1 .. Len(ch[h]) : ch[h][i] = ch0[h][k + i]

LEMMA FreeRound ==
    ASSUME NEW m0, NEW ch0, NEW h \in DOMAIN ch0, h # 0, NEW k \in Nat, Len(ch0[h]) \in Nat,
           k < Len(ch0[h]), NEW m, NEW ch, Freed(m0, ch0, h, k, m, ch)
    PROVE  \E ch3 : Freed(m0, ch0, h, k + 1, MarkAsFree(m, ch0[h][k + 1]), ch3)
<1> DEFINE D == ch0[h]
<1> DEFINE L == Len(D)
<1> DEFINE l == Len(ch[h])
<1> DEFINE r == MarkAsFree(m, D[k + 1])
<1>1. /\ Heap(m, ch) /\ m.blocks = m0.blocks /\ DOMAIN ch = DOMAIN ch0
      /\ l = L - k
      /\ \A i \in 1 .. l : ch[h][i] = D[k + i]
  BY DEF Freed
<1> HIDE DEF D, L, l
<1>2. l \in Nat /\ l > 0 /\ ch[h][1] = D[k + 1]
  <2>1. L \in Nat /\ k < L
    BY DEF L, D
  <2>2. l \in Nat /\ l > 0 /\ 1 \in 1 .. l
    BY <1>1, <2>1
  <2> QED
    BY <1>1, <2>2
<1>3. PICK ch3 : /\ Heap(r, ch3)
                 /\ r.blocks = m.blocks
                 /\ DOMAIN ch3 = DOMAIN ch
                 /\ \A g \in DOMAIN ch \ {0, h} :
                       ch3[g] = ch[g] /\ Untouched(m, r, ch[g])
                 /\ Len(ch3[h]) = l - 1
                 /\ \A i \in 1 .. Len(ch3[h]) : ch3[h][i] = ch[h][i + 1]
  <2>1. h \in DOMAIN ch /\ Len(ch[h]) > 0
    BY <1>1, <1>2 DEF l
  <2> DEFINE c == ch[h][1]
  <2>2. \E ch3 : /\ Heap(MarkAsFree(m, c), ch3)
                 /\ MarkAsFree(m, c).blocks = m.blocks
                 /\ DOMAIN ch3 = DOMAIN ch
                 /\ \A g \in DOMAIN ch \ {0, h} :
                       ch3[g] = ch[g] /\ Untouched(m, MarkAsFree(m, c), ch[g])
                 /\ Len(ch3[h]) = Len(ch[h]) - 1
                 /\ \A i \in 1 .. Len(ch3[h]) : ch3[h][i] = ch[h][i + 1]
    BY <1>1, <2>1, FreeStep
  <2>3. c = D[k + 1]
    BY <1>2
  <2> HIDE DEF c
  <2> QED
    BY <2>2, <2>3 DEF l
<1> HIDE DEF r
<1>4. ASSUME NEW g \in DOMAIN ch0 \ {0, h}
      PROVE  ch3[g] = ch0[g] /\ Untouched(m0, r, ch0[g])
  <2>1. ch[g] = ch0[g] /\ Untouched(m0, m, ch0[g])
    BY DEF Freed
  <2>2. ch3[g] = ch0[g] /\ Untouched(m, r, ch0[g])
    BY <1>1, <1>3, <2>1
  <2> DEFINE s == ch0[g]
  <2>3. Untouched(m0, m, s) /\ Untouched(m, r, s)
    BY <2>1, <2>2
  <2> HIDE DEF s
  <2>4. Untouched(m0, r, s)
    BY <2>3 DEF Untouched
  <2> QED
    BY <2>2, <2>4 DEF s
<1>5. Len(ch3[h]) = L - (k + 1)
  <2>1. L \in Nat
    BY DEF L, D
  <2>2. (L - k) - 1 = L - (k + 1)
    BY <2>1
  <2> QED
    BY <1>1, <1>3, <2>2
<1>6. ASSUME NEW i \in 1 .. Len(ch3[h])
      PROVE  ch3[h][i] = D[(k + 1) + i]
  <2>1. i + 1 \in 1 .. l /\ k + (i + 1) = (k + 1) + i
    BY <1>2, <1>3
  <2> QED
    BY <1>1, <1>3, <2>1
<1>7. Freed(m0, ch0, h, k + 1, r, ch3)
  BY <1>1, <1>3, <1>4, <1>5, <1>6 DEF Freed, L, D
<1> QED
  BY <1>7 DEF r, D

\* free moves all chunks of a chain to the free chain.
LEMMA FreeHeap ==
    ASSUME NEW m, NEW ch, Heap(m, ch), Chained(m, ch), NEW h \in DOMAIN ch, h # 0
    PROVE  \E ch2 : LET r == FreeChain(m, h)
                    IN /\ Heap(r, ch2)
                       /\ r.blocks = m.blocks
                       /\ DOMAIN ch2 = DOMAIN ch \ {h}
                       /\ Chained(r, ch2)
                       /\ \A g \in DOMAIN ch \ {0, h} :
                             ch2[g] = ch[g] /\ Untouched(m, r, ch[g])
<1> DEFINE s == ch[h]
<1> DEFINE n == Len(s)
<1> DEFINE r == FreeChain(m, h)
<1>1. r = FoldLeft(MarkAsFree, m, s)
  <2>1. Linked(m, s, h)
    BY DEF Chained
  <2>2. Chain(m, h) = s
    BY <2>1, ChainIs
  <2> HIDE DEF s
  <2> QED
    BY <2>2 DEF FreeChain
<1>2. m.blocks \in Nat /\ m \in Managers(m.blocks) /\ n \in Nat
  BY HeapShape
<1>3. s \in Seq(Number(m.blocks))
  <2>1. s \in Seq(Number(m.blocks) \ {0})
    BY DEF Heap
  <2> HIDE DEF s
  <2> QED
    BY <2>1
<1> HIDE DEF r
<1>4. PICK freed \in [0 .. n -> Managers(m.blocks)] :
              /\ freed[0] = m
              /\ \A k \in 1 .. n : freed[k] = MarkAsFree(freed[k - 1], s[k])
              /\ freed[n] = r
  <2> HIDE DEF s
  <2>1. \E freed \in [0 .. n -> Managers(m.blocks)] :
              /\ freed[0] = m
              /\ \A k \in 1 .. n : freed[k] = MarkAsFree(freed[k - 1], s[k])
              /\ freed[n] = FoldLeft(MarkAsFree, m, s)
    BY ZenonT(60), <1>2, <1>3, FreeFold
  <2> QED
    BY <1>1, <2>1
<1> DEFINE T == {k \in 0 .. n : \E ch1 : Freed(m, ch, h, k, freed[k], ch1)}
<1>5. 0 \in T
  <2>1. Freed(m, ch, h, 0, m, ch)
    <3>1. n - 0 = n
      BY <1>2
    <3>2. \A i \in 1 .. n : 0 + i = i
      BY <1>2
    <3>3. \A g \in DOMAIN ch \ {0, h} : ch[g] = ch[g] /\ Untouched(m, m, ch[g])
      BY DEF Untouched
    <3> QED
      BY <3>1, <3>2, <3>3 DEF Freed
  <2>2. 0 \in 0 .. n
    BY <1>2
  <2> QED
    BY <1>4, <2>1, <2>2
<1>6. ASSUME NEW k \in 0 .. n - 1, k \in T
      PROVE  k + 1 \in T
  <2>1. PICK ch1 : Freed(m, ch, h, k, freed[k], ch1)
    BY <1>6
  <2>2. k \in Nat /\ k < n /\ k + 1 \in 0 .. n /\ k + 1 \in 1 .. n /\ (k + 1) - 1 = k
    BY <1>2
  <2>3. \E ch3 : Freed(m, ch, h, k + 1, MarkAsFree(freed[k], ch[h][k + 1]), ch3)
    BY <1>2, <2>1, <2>2, FreeRound
  <2>4. freed[k + 1] = MarkAsFree(freed[k], ch[h][k + 1])
    BY <1>4, <2>2
  <2>5. \E ch3 : Freed(m, ch, h, k + 1, freed[k + 1], ch3)
    BY <2>3, <2>4
  <2> HIDE DEF n
  <2> QED
    BY <2>2, <2>5
<1>7. n \in T
  <2> HIDE DEF T, n
  <2>1. 0 .. n \subseteq T
    BY <1>2, <1>5, <1>6, InductionUpTo
  <2> QED
    BY <1>2, <2>1
<1>8. PICK ch1 : Freed(m, ch, h, n, r, ch1)
  BY <1>4, <1>7
<1>9. /\ Heap(r, ch1)
      /\ r.blocks = m.blocks
      /\ DOMAIN ch1 = DOMAIN ch
      /\ \A g \in DOMAIN ch \ {0, h} : ch1[g] = ch[g] /\ Untouched(m, r, ch[g])
      /\ Len(ch1[h]) = n - n
  BY <1>8 DEF Freed
<1>10. Places(ch1[h]) = {}
  <2>1. n - n = 0
    BY <1>2
  <2>2. Len(ch1[h]) = 0
    BY <1>9, <2>1
  <2> QED
    BY <2>2 DEF Places
<1> HIDE DEF n, s
<1> DEFINE ch2 == [g \in DOMAIN ch \ {h} |-> ch1[g]]
<1>11. /\ DOMAIN ch2 = DOMAIN ch \ {h}
       /\ \A g \in DOMAIN ch2 : ch2[g] = ch1[g] /\ g \in DOMAIN ch1
       /\ 0 \in DOMAIN ch2 /\ DOMAIN ch2 \subseteq Int
  <2>1. 0 \in DOMAIN ch1 /\ DOMAIN ch1 \subseteq Int
    BY <1>9 DEF Heap
  <2> QED
    BY <1>9, <2>1
<1> HIDE DEF ch2
<1>12. Heap(r, ch2)
  <2>1. /\ r \in AllManagers
        /\ \A g \in DOMAIN ch1 : ch1[g] \in Seq(Number(r.blocks) \ {0})
        /\ \A f, g \in DOMAIN ch1 : \A i \in Places(ch1[f]), j \in Places(ch1[g]) :
              ch1[f][i] = ch1[g][j] => f = g /\ i = j
        /\ \A c \in Number(r.blocks) \ {0} :
              \E g \in DOMAIN ch1 : \E i \in Places(ch1[g]) : ch1[g][i] = c
        /\ Linked(r, ch1[0], r.firstFree)
        /\ FreeCount(r, ch1)
    BY <1>9 DEF Heap
  <2>2. \A g \in DOMAIN ch2 : ch2[g] \in Seq(Number(r.blocks) \ {0})
    BY <1>11, <2>1
  <2>3. ASSUME NEW f \in DOMAIN ch2, NEW g \in DOMAIN ch2,
               NEW i \in Places(ch2[f]), NEW j \in Places(ch2[g]), ch2[f][i] = ch2[g][j]
        PROVE  f = g /\ i = j
    <3>1. f \in DOMAIN ch1 /\ g \in DOMAIN ch1 /\ ch2[f] = ch1[f] /\ ch2[g] = ch1[g]
      BY <1>11
    <3> QED
      BY <2>1, <2>3, <3>1
  <2>4. ASSUME NEW c \in Number(r.blocks) \ {0}
        PROVE  \E g \in DOMAIN ch2 : \E i \in Places(ch2[g]) : ch2[g][i] = c
    <3>1. PICK g \in DOMAIN ch1 : \E i \in Places(ch1[g]) : ch1[g][i] = c
      BY <2>1
    <3>2. g # h
      BY <1>10, <3>1
    <3>3. g \in DOMAIN ch2 /\ ch2[g] = ch1[g]
      BY <1>9, <1>11, <3>2
    <3> QED
      BY <3>1, <3>3
  <2>5. Linked(r, ch2[0], r.firstFree) /\ FreeCount(r, ch2)
    BY <1>11, <2>1 DEF FreeCount
  <2> QED
    BY <1>11, <2>1, <2>2, <2>3, <2>4, <2>5 DEF Heap
<1>13. ASSUME NEW g \in DOMAIN ch2 \ {0}
       PROVE  Len(ch2[g]) > 0 /\ Linked(r, ch2[g], g)
  <2>1. /\ g \in DOMAIN ch \ {0, h} /\ ch2[g] = ch[g] /\ Untouched(m, r, ch[g])
    BY <1>9, <1>11
  <2>2. Len(ch[g]) > 0 /\ Linked(m, ch[g], g)
    BY <2>1 DEF Chained
  <2>3. ch[g] \in Seq(Number(m.blocks) \ {0})
    BY <2>1 DEF Heap
  <2>4. Linked(r, ch[g], g)
    BY <2>1, <2>2, <2>3, StaysLinked
  <2> QED
    BY <2>1, <2>2, <2>4
<1>14. Chained(r, ch2)
  BY <1>13 DEF Chained
<1>15. \A g \in DOMAIN ch \ {0, h} : ch2[g] = ch[g] /\ Untouched(m, r, ch[g])
  BY <1>9, <1>11
<1> QED
  BY <1>9, <1>11, <1>12, <1>14, <1>15 DEF r

-----------------------------------------------------------------------------
(* The memory limit. *)

LEMMA WrapOnce ==
    ASSUME NEW w \in Nat, w > 0, NEW a \in 0 .. w - 1
    PROVE  (a + w) % w = a
<1>1. a + w = w * 1 + a /\ 1 \in Int
  OBVIOUS
<1>2. \A q \in Int : a + w = w * q + a => (a + w) % w = a
  OBVIOUS
<1> QED
  BY <1>1, <1>2

\* A string for which available_space says there is room fits into the blocks that the
\* limit allows.
LEMMA RoomForPieces ==
    ASSUME memlimit \in MemLimits, memlimit >= ABlockSize, usedChunks \in Nat,
           NEW s \in Strings, Len(s) <= AvailableSpace
    PROVE  /\ memlimit \div ABlockSize \in Nat
           /\ Fit(usedChunks + Len(Pieces(s)), memlimit \div ABlockSize)
<1> DEFINE P == Payload
<1> DEFINE A == ABlockSize
<1> DEFINE b == memlimit \div A
<1> DEFINE bk == b * K
<1> DEFINE np == Len(Pieces(s))
<1> DEFINE len == Len(s)
<1>1. /\ K \in Nat /\ K > 1 /\ P \in Nat /\ P > 0 /\ ChunkSize \in Nat /\ ChunkSize > P
      /\ Word \in Nat /\ memlimit \in Nat /\ memlimit < Word
  BY ChunkStoreAssumption
<1>2. A = K * ChunkSize /\ A \in Nat /\ A > 0
  <2>1. K * ChunkSize \in Nat /\ K * ChunkSize > 0
    <3>1. (K - 1) * ChunkSize \in Nat /\ K * ChunkSize = (K - 1) * ChunkSize + ChunkSize
      <4>1. K - 1 \in Nat /\ K = (K - 1) + 1
        BY <1>1
      <4> QED
        BY <1>1, <4>1
    <3> QED
      BY <1>1, <3>1
  <2> QED
    BY <2>1 DEF ABlockSize
<1> HIDE DEF A
<1>3. b \in Nat /\ b * A \in Nat /\ b * A <= memlimit /\ b > 0
  <2>1. b \in Nat /\ b * A <= memlimit /\ memlimit < b * A + A
    BY <1>1, <1>2
  <2>2. b # 0
    <3>1. SUFFICES ASSUME b = 0 PROVE FALSE
      OBVIOUS
    <3>2. b * A = 0
      BY <1>2, <3>1
    <3>3. memlimit >= A
      BY DEF A
    <3> QED
      BY <1>1, <1>2, <2>1, <3>2, <3>3
  <2> QED
    BY <1>2, <2>1, <2>2
<1> HIDE DEF b
<1>4. bk \in Nat /\ bk >= K /\ b * A = bk * ChunkSize /\ (b * A) \div ChunkSize = bk
  <2>1. bk \in Nat /\ bk >= K
    BY <1>3, Blocks
  <2>2. b * A = bk * ChunkSize
    BY <1>1, <1>2, <1>3
  <2> HIDE DEF bk
  <2>3. (bk * ChunkSize) \div ChunkSize = bk
    <3>1. ChunkSize > 0
      BY <1>1
    <3> QED
      BY <1>1, <2>1, <3>1
  <2> QED
    BY <2>1, <2>2, <2>3
<1> HIDE DEF bk
\* the number of chunks less one, times the payload, stays below the word
<1> DEFINE um == (bk - 1) * P
<1>5. /\ um \in Nat /\ um < Word /\ bk - 1 \in Nat
      /\ bk < Word
  <2>1. bk - 1 \in Nat /\ um \in Nat
    BY <1>1, <1>4
  <2>2. bk * ChunkSize \in Nat /\ bk * ChunkSize < Word
    BY <1>1, <1>3, <1>4
  <2>3. bk <= bk * ChunkSize
    <3>1. ChunkSize - 1 \in Nat /\ ChunkSize = (ChunkSize - 1) + 1
      BY <1>1
    <3>2. bk * ChunkSize = bk * (ChunkSize - 1) + bk /\ bk * (ChunkSize - 1) \in Nat
      BY <1>4, <3>1
    <3> QED
      BY <1>4, <3>2
  <2>4. um <= bk * ChunkSize
    <3>1. um = bk * P - P /\ bk * P \in Nat
      BY <1>1, <1>4
    <3>2. bk * ChunkSize = bk * P + bk * (ChunkSize - P) /\ bk * (ChunkSize - P) \in Nat
      <4>1. ChunkSize - P \in Nat /\ ChunkSize = P + (ChunkSize - P)
        BY <1>1
      <4> QED
        BY <1>1, <1>4, <4>1
    <3> DEFINE x == bk * P
    <3> DEFINE y == bk * (ChunkSize - P)
    <3> DEFINE z == bk * ChunkSize
    <3>3. um = x - P /\ x \in Nat /\ z = x + y /\ y \in Nat
      BY <3>1, <3>2
    <3> HIDE DEF x, y, z, um
    <3>4. um <= z
      BY <1>1, <3>3
    <3> QED
      BY <3>4 DEF z
  <2> DEFINE z == bk * ChunkSize
  <2>5. z \in Nat /\ z < Word /\ bk <= z /\ um <= z
    BY <2>2, <2>3, <2>4
  <2> HIDE DEF z, um
  <2>6. um < Word /\ bk < Word
    BY <1>1, <1>4, <2>1, <2>5
  <2> QED
    BY <2>1, <2>6
<1>6. UsefulMemory = um
  <2>1. UsefulMemory = (((bk + Word - 1) % Word) * P) % Word
    <3>1. (((memlimit \div ABlockSize) * ABlockSize) \div ChunkSize) = bk
      BY <1>4 DEF A, b
    <3> QED
      BY <3>1 DEF UsefulMemory
  <2>2. (bk + Word - 1) % Word = bk - 1
    <3> DEFINE a == bk - 1
    <3>1. bk + Word - 1 = a + Word /\ a \in 0 .. Word - 1
      BY <1>1, <1>4, <1>5
    <3>2. Word > 0
      BY <1>1
    <3> HIDE DEF a
    <3>3. (a + Word) % Word = a
      BY <1>1, <3>1, <3>2, WrapOnce
    <3> QED
      BY <3>1, <3>3 DEF a
  <2>3. um % Word = um
    <3> HIDE DEF um
    <3> QED
      BY <1>1, <1>5
  <2> QED
    BY <2>1, <2>2, <2>3
<1>7. /\ np \in Nat /\ np > 0 /\ len \in Nat /\ len > 0
      /\ (np - 1) * P < len
  BY PiecesAre, StringShape
<1> DEFINE up == usedChunks * P
<1>8. um > up /\ len <= um - up /\ up \in Nat
  <2>1. up \in Nat
    BY <1>1
  <2>2. AvailableSpace = IF um > up THEN um - up ELSE 0
    BY <1>6 DEF AvailableSpace
  <2>3. len <= AvailableSpace
    OBVIOUS
  <2> HIDE DEF um, up, len
  <2> QED
    BY <1>5, <1>7, <2>1, <2>2, <2>3
<1> HIDE DEF np, len, P
<1>9. usedChunks + np <= bk - 1
  <2>1. SUFFICES ASSUME usedChunks + np > bk - 1 PROVE FALSE
    BY <1>5, <1>7
  <2> DEFINE v == usedChunks + (np - 1)
  <2>2. v \in Nat /\ v - (bk - 1) \in Nat /\ v = (bk - 1) + (v - (bk - 1))
    BY <1>5, <1>7, <2>1
  <2>3. v * P = up + (np - 1) * P
    BY <1>1, <1>7
  <2>4. v * P >= um
    <3> DEFINE d == v - (bk - 1)
    <3>1. d \in Nat /\ v = (bk - 1) + d
      BY <2>2
    <3> HIDE DEF d, v
    <3>2. v * P = um + d * P /\ d * P \in Nat
      BY <1>1, <1>5, <3>1
    <3> QED
      BY <1>5, <3>2
  <2> DEFINE w == (np - 1) * P
  <2>5. w \in Int /\ w < len
    BY <1>1, <1>7
  <2>6. up + w >= um
    BY <2>3, <2>4
  <2> HIDE DEF w, um, up
  <2> QED
    BY <1>5, <1>7, <1>8, <2>5, <2>6
<1> QED
  BY <1>3, <1>9 DEF Fit, bk, b, A, np

-----------------------------------------------------------------------------
(* The inductive invariant. *)

\* lens is the clients' view: for each handle, how many bytes its chain holds.
Chains(m, lens, ch) ==
    /\ Heap(m, ch)
    /\ DOMAIN ch = {0} \cup DOMAIN lens
    /\ DOMAIN lens \subseteq Nat \ {0}
    /\ Chained(m, ch)
    /\ \A h \in DOMAIN lens : lens[h] \in Nat \ {0} /\ lens[h] <= Len(ch[h]) * Payload

\* No more blocks than the limit allows, if it allows one.
Limited(m) == memlimit >= ABlockSize => m.blocks <= memlimit \div ABlockSize

IInv ==
    /\ memlimit \in MemLimits
    /\ Limited(Manager)
    /\ \E ch : Chains(Manager, lengths, ch)

LEMMA ManagerFields ==
    /\ Manager.firstFree = firstFree /\ Manager.next = next /\ Manager.payload = payload
    /\ Manager.used = usedChunks /\ Manager.blocks = blocks
BY DEF Manager

\* The links of a handle's chain lead to the bytes stored under it.
LEMMA RestoreOfHandle ==
    ASSUME NEW m, NEW lens, NEW ch, Chains(m, lens, ch), NEW h \in DOMAIN lens
    PROVE  /\ h \in DOMAIN ch /\ h # 0
           /\ Len(ch[h]) \in Nat
           /\ Restore(m, h, lens[h]) = BytesOf(m, ch[h], lens[h])
           /\ lens[h] \in Nat /\ lens[h] > 0 /\ lens[h] <= Len(ch[h]) * Payload
<1>1. /\ h \in DOMAIN ch /\ h # 0 /\ Heap(m, ch)
      /\ lens[h] \in Nat /\ lens[h] > 0 /\ lens[h] <= Len(ch[h]) * Payload
  BY DEF Chains
<1>2. Linked(m, ch[h], h)
  BY <1>1 DEF Chains, Chained
<1>3. Len(ch[h]) \in Nat
  BY <1>1, HeapShape
<1> DEFINE len == lens[h]
<1> DEFINE s == ch[h]
<1>4. len \in Nat /\ len > 0 /\ len <= Len(s) * Payload /\ Len(s) \in Nat /\ Linked(m, s, h)
  BY <1>1, <1>2, <1>3
<1> HIDE DEF len, s
<1>5. Restore(m, h, len) = BytesOf(m, s, len)
  BY <1>4, RestoreIs
<1> QED
  BY <1>1, <1>3, <1>5 DEF len, s

\* What a handle stands for stays as it is where nothing changes in its chain.
LEMMA HandleKeeps ==
    ASSUME NEW m, NEW n, NEW lens, NEW lens2, NEW ch, NEW ch2,
           Chains(m, lens, ch), Chains(n, lens2, ch2), NEW h \in DOMAIN lens,
           h \in DOMAIN lens2, lens2[h] = lens[h],
           ch2[h] = ch[h], Untouched(m, n, ch[h])
    PROVE  Restore(n, h, lens2[h]) = Restore(m, h, lens[h])
<1>1. /\ Restore(m, h, lens[h]) = BytesOf(m, ch[h], lens[h])
      /\ Len(ch[h]) \in Nat /\ lens[h] \in Nat /\ lens[h] <= Len(ch[h]) * Payload
  BY RestoreOfHandle
<1>2. Restore(n, h, lens2[h]) = BytesOf(n, ch2[h], lens2[h])
  BY RestoreOfHandle
<1>3. BytesOf(n, ch[h], lens[h]) = BytesOf(m, ch[h], lens[h])
  BY <1>1, SameBytes
<1> QED
  BY <1>1, <1>2, <1>3

LEMMA SaveChains ==
    ASSUME NEW m, NEW lens, NEW ch, Chains(m, lens, ch), NEW s \in Strings
    PROVE  LET r == SaveString(m, s)
               lens2 == [h \in DOMAIN lens \cup {r.first} |->
                            IF h = r.first THEN Len(s) ELSE lens[h]]
           IN /\ r.first \in Nat \ DOMAIN lens
              /\ \E ch2 : Chains(r.m, lens2, ch2)
              /\ \A h \in DOMAIN lens : Restore(r.m, h, lens2[h]) = Restore(m, h, lens[h])
              /\ Restore(r.m, r.first, Len(s)) = s
              /\ \A b \in Nat : m.blocks <= b /\ Fit(m.used + Len(Pieces(s)), b) =>
                     r.m.blocks <= b
<1> DEFINE r == SaveString(m, s)
<1> DEFINE q == Pieces(s)
<1> DEFINE f == r.first
<1> DEFINE lens2 == [h \in DOMAIN lens \cup {f} |-> IF h = f THEN Len(s) ELSE lens[h]]
<1>1. /\ Heap(m, ch) /\ DOMAIN ch = {0} \cup DOMAIN lens /\ DOMAIN lens \subseteq Nat \ {0}
      /\ Chained(m, ch) /\ DOMAIN ch \subseteq Nat
      /\ \A h \in DOMAIN lens : lens[h] \in Nat \ {0} /\ lens[h] <= Len(ch[h]) * Payload
  BY DEF Chains
<1>2. PICK ch2 : /\ Heap(r.m, ch2)
                 /\ f \in Nat \ DOMAIN ch
                 /\ DOMAIN ch2 = DOMAIN ch \cup {f}
                 /\ Chained(r.m, ch2)
                 /\ \A h \in DOMAIN ch \ {0} : ch2[h] = ch[h] /\ Untouched(m, r.m, ch[h])
                 /\ Len(ch2[f]) = Len(q)
                 /\ \A i \in 1 .. Len(q) : r.m.payload[ch2[f][i]] = q[i]
                 /\ \A b \in Nat : m.blocks <= b /\ Fit(m.used + Len(q), b) => r.m.blocks <= b
  BY <1>1, SaveHeap
<1> HIDE DEF r, q, f
<1>3. f \notin DOMAIN lens /\ f # 0 /\ f \in Nat
  BY <1>1, <1>2
<1>4. /\ DOMAIN lens2 = DOMAIN lens \cup {f}
      /\ lens2[f] = Len(s)
      /\ \A h \in DOMAIN lens : lens2[h] = lens[h] /\ h \in DOMAIN lens2
  BY <1>3
<1> HIDE DEF lens2
<1>5. /\ Len(q) \in Nat /\ Len(s) \in Nat /\ Len(s) > 0 /\ Len(s) <= Len(q) * Payload
  BY PiecesAre, StringShape DEF q
<1>6. Chains(r.m, lens2, ch2)
  <2>1. ASSUME NEW h \in DOMAIN lens2
        PROVE  lens2[h] \in Nat \ {0} /\ lens2[h] <= Len(ch2[h]) * Payload
    <3>1. CASE h = f
      <4>1. lens2[h] = Len(s) /\ Len(ch2[h]) = Len(q)
        BY <1>2, <1>4, <3>1
      <4> QED
        BY <1>5, <4>1
    <3>2. CASE h # f
      <4>1. h \in DOMAIN lens /\ lens2[h] = lens[h] /\ ch2[h] = ch[h]
        BY <1>1, <1>2, <1>4, <3>2
      <4> QED
        BY <1>1, <4>1
    <3> QED
      BY <3>1, <3>2
  <2>2. DOMAIN ch2 = {0} \cup DOMAIN lens2 /\ DOMAIN lens2 \subseteq Nat \ {0}
    BY <1>1, <1>2, <1>3, <1>4
  <2> QED
    BY <1>2, <2>1, <2>2 DEF Chains
<1>7. ASSUME NEW h \in DOMAIN lens
      PROVE  Restore(r.m, h, lens2[h]) = Restore(m, h, lens[h])
  <2>1. /\ h \in DOMAIN lens2 /\ lens2[h] = lens[h]
        /\ ch2[h] = ch[h] /\ Untouched(m, r.m, ch[h])
    BY <1>1, <1>2, <1>4
  <2> QED
    BY <1>6, <2>1, HandleKeeps
<1>8. Restore(r.m, f, Len(s)) = s
  <2>1. Restore(r.m, f, lens2[f]) = BytesOf(r.m, ch2[f], lens2[f])
    <3>1. f \in DOMAIN lens2
      BY <1>4
    <3> QED
      BY <1>6, <3>1, RestoreOfHandle
  <2>2. BytesOf(r.m, ch2[f], Len(s)) = s
    <3> DEFINE t == ch2[f]
    <3> DEFINE n == r.m
    <3>1. Len(t) = Len(Pieces(s)) /\ \A i \in 1 .. Len(t) : n.payload[t[i]] = Pieces(s)[i]
      BY <1>2 DEF q
    <3> HIDE DEF t, n
    <3>2. BytesOf(n, t, Len(s)) = s
      BY <3>1, PiecesRestored
    <3> QED
      BY <3>2 DEF t, n
  <2> QED
    BY <1>4, <2>1, <2>2
<1>9. /\ f \in Nat \ DOMAIN lens
      /\ \E c2 : Chains(r.m, lens2, c2)
      /\ \A b \in Nat : m.blocks <= b /\ Fit(m.used + Len(q), b) => r.m.blocks <= b
  BY <1>2, <1>3, <1>6
<1> QED
  BY <1>7, <1>8, <1>9 DEF lens2, r, f, q

LEMMA FreeChains ==
    ASSUME NEW m, NEW lens, NEW ch, Chains(m, lens, ch), NEW h \in DOMAIN lens
    PROVE  LET r == FreeChain(m, h)
               lens2 == [g \in DOMAIN lens \ {h} |-> lens[g]]
           IN /\ \E ch2 : Chains(r, lens2, ch2)
              /\ \A g \in DOMAIN lens \ {h} : Restore(r, g, lens2[g]) = Restore(m, g, lens[g])
              /\ r.blocks = m.blocks
<1> DEFINE r == FreeChain(m, h)
<1> DEFINE lens2 == [g \in DOMAIN lens \ {h} |-> lens[g]]
<1>1. /\ Heap(m, ch) /\ DOMAIN ch = {0} \cup DOMAIN lens /\ DOMAIN lens \subseteq Nat \ {0}
      /\ Chained(m, ch) /\ h \in DOMAIN ch /\ h # 0
      /\ \A g \in DOMAIN lens : lens[g] \in Nat \ {0} /\ lens[g] <= Len(ch[g]) * Payload
  BY DEF Chains
<1>2. PICK ch2 : /\ Heap(r, ch2)
                 /\ r.blocks = m.blocks
                 /\ DOMAIN ch2 = DOMAIN ch \ {h}
                 /\ Chained(r, ch2)
                 /\ \A g \in DOMAIN ch \ {0, h} : ch2[g] = ch[g] /\ Untouched(m, r, ch[g])
  BY <1>1, FreeHeap
<1> HIDE DEF r
<1>3. /\ DOMAIN lens2 = DOMAIN lens \ {h}
      /\ \A g \in DOMAIN lens2 : /\ lens2[g] = lens[g] /\ g \in DOMAIN lens /\ g # 0 /\ g # h
                                 /\ ch2[g] = ch[g] /\ Untouched(m, r, ch[g])
  BY <1>1, <1>2
<1> HIDE DEF lens2
<1>4. Chains(r, lens2, ch2)
  <2>1. ASSUME NEW g \in DOMAIN lens2
        PROVE  lens2[g] \in Nat \ {0} /\ lens2[g] <= Len(ch2[g]) * Payload
    <3>1. lens2[g] = lens[g] /\ ch2[g] = ch[g] /\ g \in DOMAIN lens
      BY <1>3
    <3> QED
      BY <1>1, <3>1
  <2>2. DOMAIN ch2 = {0} \cup DOMAIN lens2 /\ DOMAIN lens2 \subseteq Nat \ {0}
    BY <1>1, <1>2, <1>3
  <2> QED
    BY <1>2, <2>1, <2>2 DEF Chains
<1>5. ASSUME NEW g \in DOMAIN lens \ {h}
      PROVE  Restore(r, g, lens2[g]) = Restore(m, g, lens[g])
  <2>1. g \in DOMAIN lens2 /\ lens2[g] = lens[g] /\ ch2[g] = ch[g] /\ Untouched(m, r, ch[g])
    BY <1>3
  <2> QED
    BY <1>4, <2>1, HandleKeeps
<1>6. \E c2 : Chains(r, lens2, c2)
  BY <1>4
<1> QED
  BY <1>2, <1>5, <1>6 DEF r, lens2

-----------------------------------------------------------------------------
(* The invariant holds at first and is kept by both operations. *)

\* What clients see, as the refinement maps it.
Kept == [h \in DOMAIN lengths |-> Restore(Manager, h, lengths[h])]

LEMMA InitIInv == Init => IInv /\ Kept = [h \in {} |-> <<>>]
<1> SUFFICES ASSUME Init PROVE IInv /\ Kept = [h \in {} |-> <<>>]
  OBVIOUS
<1> DEFINE ch == [h \in {0} |-> <<>>]
<1>1. /\ memlimit \in MemLimits /\ firstFree = 0 /\ usedChunks = 0 /\ blocks = 0
      /\ next = [c \in {} |-> 0] /\ payload = [c \in {} |-> <<>>] /\ lengths = [h \in {} |-> 0]
  BY DEF Init, INVALID_INDEX
<1>2. Number(0) = {} /\ K \in Nat
  <2>1. K \in Nat /\ 0 \in Nat /\ 0 * K = 0
    BY Blocks
  <2> QED
    BY <2>1 DEF Number
<1>3. Manager \in AllManagers
  <2>1. next \in [{} -> {}] /\ payload \in [{} -> Seq(Byte)]
    BY <1>1
  <2>2. Manager \in Managers(0)
    BY <1>1, <1>2, <2>1 DEF Manager, Managers
  <2> QED
    BY <2>2 DEF AllManagers
<1>4. /\ DOMAIN ch = {0} /\ ch[0] = <<>> /\ Len(ch[0]) = 0 /\ Places(ch[0]) = {}
      /\ ch[0] \in Seq(Number(0) \ {0})
  BY EmptySeq DEF Places
<1> HIDE DEF ch
<1>5. Heap(Manager, ch)
  <2>1. Manager.blocks = 0 /\ Manager.firstFree = 0 /\ Manager.used = 0
    BY <1>1, ManagerFields
  <2>2. Linked(Manager, ch[0], Manager.firstFree) /\ FreeCount(Manager, ch)
    BY <1>4, <2>1 DEF Linked, FreeCount
  <2>3. \A h \in DOMAIN ch : ch[h] \in Seq(Number(Manager.blocks) \ {0})
    BY <1>4, <2>1
  <2>4. \A g, h \in DOMAIN ch : \A i \in Places(ch[g]), j \in Places(ch[h]) :
          ch[g][i] = ch[h][j] => g = h /\ i = j
    BY <1>4
  <2>5. \A c \in Number(Manager.blocks) \ {0} :
          \E h \in DOMAIN ch : \E i \in Places(ch[h]) : ch[h][i] = c
    BY <1>2, <2>1
  <2>6. 0 \in DOMAIN ch /\ DOMAIN ch \subseteq Int
    BY <1>4
  <2> QED
    BY <1>3, <2>2, <2>3, <2>4, <2>5, <2>6 DEF Heap
<1>6. Chains(Manager, lengths, ch)
  <2>1. DOMAIN lengths = {}
    BY <1>1
  <2> QED
    BY <1>4, <1>5, <2>1 DEF Chains, Chained
<1>7. Limited(Manager)
  <2>1. /\ K \in Nat /\ K > 1 /\ ChunkSize \in Nat /\ ChunkSize > 0 /\ memlimit \in Nat
    BY <1>1, ChunkStoreAssumption
  <2>2. K * ChunkSize \in Nat /\ K * ChunkSize > 0
    <3>1. (K - 1) * ChunkSize \in Nat /\ K * ChunkSize = (K - 1) * ChunkSize + ChunkSize
      <4>1. K - 1 \in Nat /\ K = (K - 1) + 1
        BY <2>1
      <4> QED
        BY <2>1, <4>1
    <3> QED
      BY <2>1, <3>1
  <2> DEFINE a == K * ChunkSize
  <2>3. a \in Nat /\ a > 0
    BY <2>2
  <2> HIDE DEF a
  <2>4. 0 <= memlimit \div a
    BY <2>1, <2>3
  <2> QED
    BY <1>1, <2>4, ManagerFields DEF Limited, ABlockSize, a
<1>8. Kept = [h \in {} |-> <<>>]
  BY <1>1 DEF Kept
<1> QED
  BY <1>1, <1>6, <1>7, <1>8 DEF IInv

\* After Become(m) the manager is m.
LEMMA BecomeIs ==
    ASSUME NEW m \in AllManagers, Become(m)
    PROVE  Manager' = m /\ memlimit' = memlimit
<1>1. m \in Managers(m.blocks)
  BY ManagerShape
<1>2. Manager' = [firstFree |-> m.firstFree, next |-> m.next, payload |-> m.payload,
                  used |-> m.used, blocks |-> m.blocks]
  BY DEF Become, Manager
<1>3. m = [firstFree |-> m.firstFree, next |-> m.next, payload |-> m.payload,
           used |-> m.used, blocks |-> m.blocks]
  BY <1>1 DEF Managers
<1> QED
  BY <1>2, <1>3 DEF Become

\* The number of chunks in use is one.
LEMMA UsedIsNat ==
    ASSUME NEW m, NEW lens, NEW ch, Chains(m, lens, ch)
    PROVE  m.used \in Nat
<1> DEFINE p == m.blocks * K
<1> DEFINE n == Len(ch[0])
<1>1. Heap(m, ch) /\ 0 \in DOMAIN ch
  BY DEF Chains, Heap
<1>2. /\ n \in Nat /\ (m.blocks = 0 => n = 0) /\ (m.blocks > 0 => n <= p - 1)
  BY <1>1, ChainLength
<1>3. m.used + n = IF m.blocks = 0 THEN 0 ELSE p - 1
  BY <1>1 DEF Heap, FreeCount
<1>4. m.blocks \in Nat /\ m.used \in Int /\ p \in Nat
  BY <1>1, HeapShape, Blocks
<1> DEFINE u == m.used
<1>5. u \in Int /\ u + n = IF m.blocks = 0 THEN 0 ELSE p - 1
  BY <1>3, <1>4
<1> HIDE DEF p, n, u
<1>6. u \in Nat
  BY <1>2, <1>4, <1>5
<1> QED
  BY <1>6 DEF u

\* save keeps the invariant, and adds its string to what clients see.
LEMMA SaveIInv ==
    ASSUME IInv, NEW s \in Strings, Save(s)
    PROVE  /\ IInv'
           /\ \E h \in DOMAIN Kept' \ DOMAIN Kept :
                 /\ Kept'[h] \in Strings
                 /\ Kept' = [g \in DOMAIN Kept \cup {h} |-> IF g = h THEN Kept'[h] ELSE Kept[g]]
<1> DEFINE m == Manager
<1> DEFINE r == SaveString(m, s)
<1> DEFINE f == r.first
<1> DEFINE lens2 == [h \in DOMAIN lengths \cup {f} |-> IF h = f THEN Len(s) ELSE lengths[h]]
<1>1. PICK ch : Chains(m, lengths, ch)
  BY DEF IInv
<1>2. /\ f \in Nat \ DOMAIN lengths
      /\ \E ch2 : Chains(r.m, lens2, ch2)
      /\ \A h \in DOMAIN lengths : Restore(r.m, h, lens2[h]) = Restore(m, h, lengths[h])
      /\ Restore(r.m, f, Len(s)) = s
      /\ \A b \in Nat : m.blocks <= b /\ Fit(m.used + Len(Pieces(s)), b) => r.m.blocks <= b
  BY <1>1, SaveChains
<1>3. Become(r.m) /\ lengths' = lens2 /\ Len(s) <= AvailableSpace
  BY DEF Save
<1> DEFINE e == r.m
<1> HIDE DEF m, f, r, lens2
<1>4. e \in AllManagers
  BY <1>2 DEF Chains, Heap
<1>5. Manager' = e /\ memlimit' = memlimit
  BY <1>3, <1>4, BecomeIs
<1>6. (\E c : Chains(Manager, lengths, c))'
  <2>1. \E c : Chains(Manager', lengths', c)
    BY <1>2, <1>3, <1>5
  <2> QED
    BY <2>1 DEF Chains
<1>7. Limited(Manager)'
  <2> SUFFICES ASSUME memlimit' >= ABlockSize PROVE Manager'.blocks <= memlimit' \div ABlockSize
    BY DEF Limited
  <2>1. memlimit \in MemLimits /\ memlimit >= ABlockSize /\ m.blocks <= memlimit \div ABlockSize
    BY <1>5 DEF IInv, Limited, m
  <2>2. usedChunks \in Nat /\ m.used = usedChunks
    BY <1>1, UsedIsNat, ManagerFields DEF m
  <2>3. /\ memlimit \div ABlockSize \in Nat
        /\ Fit(usedChunks + Len(Pieces(s)), memlimit \div ABlockSize)
    BY <1>3, <2>1, <2>2, RoomForPieces
  <2>4. e.blocks <= memlimit \div ABlockSize
    BY <1>2, <2>1, <2>2, <2>3
  <2> QED
    BY <1>5, <2>4
<1>8. IInv'
  BY <1>5, <1>6, <1>7 DEF IInv
\* what clients see
<1>9. /\ DOMAIN lens2 = DOMAIN lengths \cup {f} /\ lens2[f] = Len(s)
      /\ f \in DOMAIN lens2 /\ \A h \in DOMAIN lengths : h \in DOMAIN lens2
  BY DEF lens2
<1> DEFINE k == Kept
<1> DEFINE k2 == Kept'
<1>10. k = [h \in DOMAIN lengths |-> Restore(m, h, lengths[h])]
  BY DEF Kept, m
<1>11. k2 = [h \in DOMAIN lens2 |-> Restore(e, h, lens2[h])]
  BY <1>3, <1>5 DEF Kept
<1> HIDE DEF k, k2, e
<1>12. /\ DOMAIN k = DOMAIN lengths /\ DOMAIN k2 = DOMAIN k \cup {f}
       /\ f \in DOMAIN k2 \ DOMAIN k
       /\ k2[f] = s
       /\ \A h \in DOMAIN k : k2[h] = k[h]
  BY <1>2, <1>9, <1>10, <1>11 DEF e
<1> DEFINE rhs == [g \in DOMAIN k \cup {f} |-> IF g = f THEN k2[f] ELSE k[g]]
<1>13. k2 = rhs
  <2>1. k2 = [g \in DOMAIN k2 |-> k2[g]]
    BY <1>11
  <2>2. \A g \in DOMAIN k2 : k2[g] = IF g = f THEN k2[f] ELSE k[g]
    BY <1>12
  <2> QED
    BY <1>12, <2>1, <2>2
<1>14. /\ f \in DOMAIN k2 \ DOMAIN k /\ k2[f] \in Strings
       /\ k2 = [g \in DOMAIN k \cup {f} |-> IF g = f THEN k2[f] ELSE k[g]]
  BY <1>12, <1>13
<1>15. \E h \in DOMAIN k2 \ DOMAIN k :
          /\ k2[h] \in Strings
          /\ k2 = [g \in DOMAIN k \cup {h} |-> IF g = h THEN k2[h] ELSE k[g]]
  BY <1>14
<1> QED
  BY <1>8, <1>15 DEF k, k2

\* free keeps the invariant, and takes one string from what clients see.
LEMMA FreeIInv ==
    ASSUME IInv, NEW h \in DOMAIN lengths, Free(h)
    PROVE  /\ IInv'
           /\ h \in DOMAIN Kept
           /\ Kept' = [g \in DOMAIN Kept \ {h} |-> Kept[g]]
<1> DEFINE m == Manager
<1> DEFINE r == FreeChain(m, h)
<1> DEFINE lens2 == [g \in DOMAIN lengths \ {h} |-> lengths[g]]
<1>1. PICK ch : Chains(m, lengths, ch)
  BY DEF IInv
<1>2. /\ \E ch2 : Chains(r, lens2, ch2)
      /\ \A g \in DOMAIN lengths \ {h} : Restore(r, g, lens2[g]) = Restore(m, g, lengths[g])
      /\ r.blocks = m.blocks
  BY <1>1, FreeChains
<1>3. Become(r) /\ lengths' = lens2
  BY DEF Free
<1> HIDE DEF m, r, lens2
<1>4. r \in AllManagers
  BY <1>2 DEF Chains, Heap
<1>5. Manager' = r /\ memlimit' = memlimit
  BY <1>3, <1>4, BecomeIs
<1>6. (\E c : Chains(Manager, lengths, c))'
  <2>1. \E c : Chains(Manager', lengths', c)
    BY <1>2, <1>3, <1>5
  <2> QED
    BY <2>1 DEF Chains
<1>7. Limited(Manager)'
  BY <1>2, <1>5 DEF IInv, Limited, m
<1>8. IInv'
  BY <1>5, <1>6, <1>7 DEF IInv
<1> DEFINE k == Kept
<1> DEFINE k2 == Kept'
<1>9. k = [g \in DOMAIN lengths |-> Restore(m, g, lengths[g])]
  BY DEF Kept, m
<1>10. k2 = [g \in DOMAIN lens2 |-> Restore(r, g, lens2[g])]
  BY <1>3, <1>5 DEF Kept
<1>11. DOMAIN lens2 = DOMAIN lengths \ {h}
  BY DEF lens2
<1> HIDE DEF k, k2
<1>12. /\ h \in DOMAIN k /\ DOMAIN k2 = DOMAIN k \ {h}
       /\ \A g \in DOMAIN k \ {h} : k2[g] = k[g]
  BY <1>2, <1>9, <1>10, <1>11
<1>13. k2 = [g \in DOMAIN k \ {h} |-> k[g]]
  <2>1. k2 = [g \in DOMAIN k2 |-> k2[g]]
    BY <1>10
  <2> QED
    BY <1>12, <2>1
<1> QED
  BY <1>8, <1>12, <1>13 DEF k, k2

LEMMA NextIInv == IInv /\ [Next]_vars => IInv'
<1> SUFFICES ASSUME IInv, [Next]_vars PROVE IInv'
  OBVIOUS
<1>1. ASSUME NEW s \in Strings, Save(s) PROVE IInv'
  BY <1>1, SaveIInv
<1>2. ASSUME NEW h \in DOMAIN lengths, Free(h) PROVE IInv'
  BY <1>2, FreeIInv
<1>3. CASE UNCHANGED vars
  <2>1. Manager' = Manager /\ memlimit' = memlimit /\ lengths' = lengths
    BY <1>3 DEF vars, Manager
  <2>2. \E c : Chains(Manager', lengths', c)
    BY <2>1 DEF IInv
  <2>3. (\E c : Chains(Manager, lengths, c))'
    BY <2>2 DEF Chains
  <2>4. Limited(Manager)'
    BY <2>1 DEF IInv, Limited
  <2> QED
    BY <2>1, <2>3, <2>4 DEF IInv
<1> QED
  BY <1>1, <1>2, <1>3 DEF Next

\* There always are sequences of chunks, one for each handle and the free one, that list
\* every chunk but chunk 0 once and that the links follow, and no more blocks than the
\* limit allows.
THEOREM Invariance == Spec => []IInv
<1>1. Init => IInv
  BY InitIInv
<1>2. IInv /\ [Next]_vars => IInv'
  BY NextIInv
<1> QED
  BY <1>1, <1>2, PTL DEF Spec

-----------------------------------------------------------------------------
(* What the invariant says of the properties. *)

LEMMA ChunksAre ==
    ASSUME IInv
    PROVE  blocks \in Nat /\ Chunks = Number(blocks)
<1>1. PICK ch : Chains(Manager, lengths, ch)
  BY DEF IInv
<1>2. Heap(Manager, ch)
  BY <1>1 DEF Chains
<1>3. Manager.blocks \in Nat
  BY <1>2, HeapShape
<1> QED
  BY <1>3, ManagerFields DEF Chunks, Number

\* The manager's fields have their types: links stay among the chunks allocated.
THEOREM TypeCorrect == Spec => []TypeOK
<1>1. ASSUME IInv PROVE TypeOK
  <2>1. PICK ch : Chains(Manager, lengths, ch)
    BY <1>1 DEF IInv
  <2>2. Heap(Manager, ch) /\ DOMAIN ch = {0} \cup DOMAIN lengths /\ 0 \notin DOMAIN lengths
    BY <2>1 DEF Chains
  <2>3. Manager \in AllManagers
    BY <2>2 DEF Heap
  <2>4. /\ firstFree \in Number(blocks) \cup {0}
        /\ next \in [Number(blocks) -> Number(blocks)]
        /\ payload \in [Number(blocks) -> Seq(Byte)]
        /\ blocks \in Nat
    BY <2>3, ManagerShape, ManagerFields
  <2>5. usedChunks \in Nat
    BY <2>1, UsedIsNat, ManagerFields
  <2>6. ASSUME NEW h \in DOMAIN lengths
        PROVE  h \in Number(blocks) \ {0}
    <3>1. Len(ch[h]) > 0 /\ Linked(Manager, ch[h], h) /\ h \in DOMAIN ch
      BY <2>1, <2>2 DEF Chains, Chained
    <3>2. Len(ch[h]) \in Nat /\ \A i \in Places(ch[h]) : ch[h][i] \in Number(blocks) \ {0}
      BY <2>2, <3>1, HeapShape, ManagerFields
    <3>3. 1 \in Places(ch[h]) /\ ch[h][1] = h
      BY <3>1, <3>2 DEF Linked, Places
    <3> QED
      BY <3>2, <3>3
  <2>7. memlimit \in MemLimits
    BY <1>1 DEF IInv
  <2>8. Chunks = Number(blocks) /\ DOMAIN payload = Number(blocks)
    BY <1>1, <2>4, ChunksAre
  <2>9. DOMAIN lengths \subseteq Number(blocks) \ {0}
    BY <2>6
  <2> QED
    BY <2>4, <2>5, <2>7, <2>8, <2>9 DEF TypeOK, INVALID_INDEX
<1> QED
  BY <1>1, Invariance, PTL

LEMMA PartitionOf ==
    ASSUME IInv
    PROVE  ChunksPartitioned
<1>1. PICK ch : Chains(Manager, lengths, ch)
  BY DEF IInv
<1> DEFINE S == Number(blocks) \ {0}
<1>2. /\ Heap(Manager, ch) /\ DOMAIN ch = {0} \cup DOMAIN lengths /\ 0 \notin DOMAIN lengths
      /\ Chained(Manager, ch)
  BY <1>1 DEF Chains
<1>3. /\ Chain(Manager, firstFree) = ch[0]
      /\ \A h \in DOMAIN lengths : Chain(Manager, h) = ch[h]
  <2>1. 0 \in DOMAIN ch /\ Linked(Manager, ch[0], firstFree)
    BY <1>2, ManagerFields DEF Heap
  <2>2. Chain(Manager, firstFree) = ch[0]
    BY <1>2, <2>1, ChainIs
  <2>3. ASSUME NEW h \in DOMAIN lengths PROVE Chain(Manager, h) = ch[h]
    <3>1. h \in DOMAIN ch /\ Linked(Manager, ch[h], h)
      BY <1>2 DEF Chained
    <3> QED
      BY <1>2, <3>1, ChainIs
  <2> QED
    BY <2>2, <2>3
<1>4. ChainsInUse = {ch[h] : h \in DOMAIN lengths}
  BY <1>3 DEF ChainsInUse
<1> DEFINE free == ch[0]
<1>5. ASSUME NEW h \in DOMAIN ch
      PROVE  /\ Len(ch[h]) \in Nat
             /\ Range(ch[h]) = {ch[h][i] : i \in Places(ch[h])}
             /\ Range(ch[h]) \subseteq S
             /\ IsInjective(ch[h])
             /\ IsFiniteSet(Range(ch[h]))
             /\ Cardinality(Range(ch[h])) = Len(ch[h])
  <2>1. /\ Len(ch[h]) \in Nat
        /\ ch[h] \in Seq(S)
        /\ \A i \in Places(ch[h]) : ch[h][i] \in S
    BY <1>2, HeapShape, ManagerFields DEF Heap
  <2>2. DOMAIN ch[h] = Places(ch[h])
    BY <2>1 DEF Places
  <2>3. Range(ch[h]) = {ch[h][i] : i \in Places(ch[h])}
    BY <2>2 DEF Range
  <2>4. Range(ch[h]) \subseteq S
    BY <2>1, <2>3
  <2>5. /\ IsInjective(ch[h]) /\ IsFiniteSet(Range(ch[h]))
        /\ Cardinality(Range(ch[h])) = Len(ch[h])
    BY <1>2, ChainLength
  <2> QED
    BY <2>1, <2>3, <2>4, <2>5
<1>6. /\ 0 \in DOMAIN ch
      /\ \A g, h \in DOMAIN ch : \A i \in Places(ch[g]), j \in Places(ch[h]) :
            ch[g][i] = ch[h][j] => g = h /\ i = j
      /\ \A c \in S : \E h \in DOMAIN ch : \E i \in Places(ch[h]) : ch[h][i] = c
  BY <1>2, ManagerFields DEF Heap
<1>7. \A g, h \in DOMAIN ch : g # h => Range(ch[g]) \cap Range(ch[h]) = {}
  BY <1>5, <1>6
<1> HIDE DEF S
<1> DEFINE U == UNION {Range(c) : c \in ChainsInUse}
<1>8. S = U \cup Range(free) /\ U \cap Range(free) = {}
  <2>1. ASSUME NEW d \in S PROVE d \in U \cup Range(free)
    <3>1. PICK h \in DOMAIN ch : \E i \in Places(ch[h]) : ch[h][i] = d
      BY <1>6
    <3>2. d \in Range(ch[h])
      BY <1>5, <3>1
    <3>3. CASE h = 0
      BY <3>2, <3>3
    <3>4. CASE h # 0
      BY <1>2, <1>4, <3>2, <3>4
    <3> QED
      BY <3>3, <3>4
  <2>2. ASSUME NEW d \in U PROVE d \in S /\ d \notin Range(free)
    <3>1. PICK h \in DOMAIN lengths : d \in Range(ch[h])
      BY <1>4
    <3>2. h \in DOMAIN ch /\ h # 0
      BY <1>2
    <3> QED
      BY <1>5, <1>6, <1>7, <3>1, <3>2
  <2>3. Range(free) \subseteq S
    BY <1>5, <1>6
  <2> HIDE DEF U, free
  <2> QED
    BY <2>1, <2>2, <2>3
<1>9. UNION {Range(c) : c \in ChainsInUse \cup {free}} = Chunks \ {INVALID_INDEX}
  <2>1. UNION {Range(c) : c \in ChainsInUse \cup {free}} = U \cup Range(free)
    BY Zenon
  <2>2. Chunks \ {INVALID_INDEX} = S
    BY ChunksAre DEF S, INVALID_INDEX
  <2> QED
    BY <1>8, <2>1, <2>2
<1>10. \A c, d \in ChainsInUse : c = d \/ Range(c) \cap Range(d) = {}
  <2>1. ASSUME NEW g \in DOMAIN lengths, NEW h \in DOMAIN lengths
        PROVE  ch[g] = ch[h] \/ Range(ch[g]) \cap Range(ch[h]) = {}
    BY <1>2, <1>7
  <2> QED
    BY <1>4, <2>1
<1>11. \A c \in ChainsInUse : Range(c) \cap Range(free) = {}
  <2>1. ASSUME NEW h \in DOMAIN lengths
        PROVE  Range(ch[h]) \cap Range(free) = {}
    BY <1>2, <1>7
  <2> QED
    BY <1>4, <2>1
<1>12. \A c \in ChainsInUse \cup {free} : IsInjective(c)
  <2>1. ASSUME NEW h \in DOMAIN lengths PROVE IsInjective(ch[h])
    BY <1>2, <1>5
  <2>2. IsInjective(free)
    BY <1>5, <1>6
  <2> QED
    BY <1>4, <2>1, <2>2
<1>13. usedChunks = Cardinality(U)
  <2> DEFINE p == blocks * K
  <2> DEFINE R == Range(free)
  <2>1. /\ blocks \in Nat /\ p \in Nat /\ (blocks = 0 => p = 0) /\ (blocks > 0 => p >= K)
        /\ K \in Nat /\ K > 1
        /\ Number(blocks) = 0 .. p - 1
    BY ChunksAre, Blocks DEF Number
  <2> HIDE DEF p
  <2>2. S = 1 .. p - 1
    BY <2>1 DEF S
  <2>3. IsFiniteSet(S) /\ Cardinality(S) = IF blocks = 0 THEN 0 ELSE p - 1
    <3>1. 1 \in Int /\ p - 1 \in Int
      BY <2>1
    <3>2. IsFiniteSet(S) /\ Cardinality(S) = IF 1 > p - 1 THEN 0 ELSE p - 1 - 1 + 1
      BY <2>2, <3>1, FS_Interval
    <3> QED
      BY <2>1, <3>2
  <2>4. IsFiniteSet(R) /\ Cardinality(R) = Len(free) /\ Len(free) \in Nat
    BY <1>5, <1>6
  <2> HIDE DEF U, R
  <2>5. U = S \ R /\ S \cap R = R
    BY <1>8 DEF R
  <2>6. Cardinality(U) = Cardinality(S) - Cardinality(R)
    BY <2>3, <2>5, FS_Difference
  <2>7. usedChunks + Len(free) = IF blocks = 0 THEN 0 ELSE p - 1
    <3>1. FreeCount(Manager, ch)
      BY <1>2 DEF Heap
    <3> QED
      BY <3>1, ManagerFields DEF FreeCount, p
  <2>8. usedChunks \in Nat
    BY <1>1, UsedIsNat, ManagerFields
  <2> HIDE DEF free
  <2> QED
    BY <2>1, <2>3, <2>4, <2>6, <2>7, <2>8
<1> HIDE DEF free, U
<1>14. Chain(Manager, firstFree) = free
  BY <1>3 DEF free
<1> QED
  BY <1>9, <1>10, <1>11, <1>12, <1>13, <1>14 DEF ChunksPartitioned, U

\* No chunk is lost, none is in two chains, and used_chunks counts those in use: whatever
\* was saved and freed, save, allocate_block and free move chunks between the chains
\* without dropping or doubling one.
THEOREM Partitioned == Spec => []ChunksPartitioned
<1>1. IInv => ChunksPartitioned
  BY PartitionOf
<1> QED
  BY <1>1, Invariance, PTL

\* A client that heeds available_space keeps the manager within the memory limit, for
\* any chunk and block size and any limit of at least one block.
THEOREM MemLimit == Spec => []WithinMemLimit
<1>1. ASSUME IInv, memlimit >= ABlockSize
      PROVE  blocks * ABlockSize <= memlimit
  <2> DEFINE a == ABlockSize
  <2> DEFINE b == memlimit \div a
  <2>1. /\ K \in Nat /\ K > 1 /\ ChunkSize \in Nat /\ ChunkSize > 0 /\ memlimit \in Nat
    BY <1>1, ChunkStoreAssumption DEF IInv
  <2>2. a \in Nat /\ a > 0
    <3>1. (K - 1) * ChunkSize \in Nat /\ K * ChunkSize = (K - 1) * ChunkSize + ChunkSize
      <4>1. K - 1 \in Nat /\ K = (K - 1) + 1
        BY <2>1
      <4> QED
        BY <2>1, <4>1
    <3> QED
      BY <2>1, <3>1 DEF ABlockSize
  <2>3. blocks \in Nat /\ blocks <= b
    BY <1>1, ChunksAre, ManagerFields DEF IInv, Limited
  <2> HIDE DEF a
  <2>4. b \in Nat /\ b * a <= memlimit
    BY <2>1, <2>2
  <2> HIDE DEF b
  <2>5. blocks * a <= b * a
    <3> DEFINE d == b - blocks
    <3>1. d \in Nat /\ b = blocks + d
      BY <2>3, <2>4
    <3> HIDE DEF d
    <3>2. b * a = blocks * a + d * a /\ d * a \in Nat /\ blocks * a \in Nat
      BY <2>2, <2>3, <3>1
    <3> QED
      BY <3>2
  <2>6. blocks * a \in Nat /\ b * a \in Nat
    BY <2>2, <2>3, <2>4
  <2> DEFINE x == blocks * a
  <2> DEFINE y == b * a
  <2>7. x \in Nat /\ y \in Nat /\ x <= y /\ y <= memlimit
    BY <2>4, <2>5, <2>6
  <2> HIDE DEF x, y
  <2>8. x <= memlimit
    BY <2>1, <2>7
  <2> QED
    BY <2>8 DEF x, a
<1>2. IInv => WithinMemLimit
  BY <1>1 DEF WithinMemLimit
<1> QED
  BY <1>2, Invariance, PTL

\* The memory manager is a byte store: what restore delivers for a handle is what was
\* saved under it, whatever is saved and freed in between.
THEOREM Refinement == Spec => KeepsBytes
<1>1. Init => Clients!Init
  BY InitIInv DEF Clients!Init, Kept
<1>2. ASSUME IInv, [Next]_vars
      PROVE  [Clients!Next]_Kept
  <2>1. ASSUME NEW s \in Strings, Save(s) PROVE Clients!Next
    <3>1. \E h \in DOMAIN Kept' \ DOMAIN Kept :
             /\ Kept'[h] \in Strings
             /\ Kept' = [g \in DOMAIN Kept \cup {h} |-> IF g = h THEN Kept'[h] ELSE Kept[g]]
      BY <1>2, <2>1, SaveIInv
    <3>2. Clients!Save
      BY <3>1 DEF Clients!Save, Kept
    <3> QED
      BY <3>2 DEF Clients!Next
  <2>2. ASSUME NEW h \in DOMAIN lengths, Free(h) PROVE Clients!Next
    <3>1. h \in DOMAIN Kept /\ Kept' = [g \in DOMAIN Kept \ {h} |-> Kept[g]]
      BY <1>2, <2>2, FreeIInv
    <3>2. Clients!Free
      BY <3>1 DEF Clients!Free, Kept
    <3> QED
      BY <3>2 DEF Clients!Next
  <2>3. CASE UNCHANGED vars
    <3>1. Manager' = Manager /\ lengths' = lengths
      BY <2>3 DEF vars, Manager
    <3>2. Kept' = Kept
      BY <3>1 DEF Kept
    <3> QED
      BY <3>2
  <2> QED
    BY <1>2, <2>1, <2>2, <2>3 DEF Next
<1>3. [Next]_vars /\ IInv => [Clients!Next]_([h \in DOMAIN lengths |-> Restore(Manager, h, lengths[h])])
  BY <1>2 DEF Kept
<1> QED
  BY <1>1, <1>3, Invariance, PTL DEF Spec, KeepsBytes, Clients!Spec
=============================================================================
