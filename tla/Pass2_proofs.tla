---------------------------- MODULE Pass2_proofs ----------------------------
(***************************************************************************)
(* Proofs about Pass2, for every file size, block size and match list.     *)
(*                                                                         *)
(* The argument: a scan may skip the matches before saved_i only because   *)
(* each of them is over before the block begins.  saved_i is moved to the  *)
(* matches found over in the previous block; one before it in source order *)
(* may still have been live then, but no match is longer than a block, so  *)
(* it is over by the end of that block (SavedAreOver).                     *)
(***************************************************************************)
EXTENDS Pass2, Induction

\* Sources ascend, and every match is what pass 1 can deliver.
MatchesOk ==
    /\ \A i, j \in DOMAIN m : i < j => m[i].src <= m[j].src
    /\ \A k \in DOMAIN m : m[k].len <= BufSize /\ EndOf(m[k]) <= OrigSize
    /\ \A k \in DOMAIN m : k < Len(m) => m[k].len > 0 /\ m[k].src < m[k].dest

\* What the scans to come never look at again is over.
SavedAreOver ==
    /\ pc = "block" => \A k \in DOMAIN m : k < cursor => EndOf(m[k]) <= blockStart
    /\ pc = "scan" => \A k \in DOMAIN m : k < saved => EndOf(m[k]) <= BlockEnd

\* What the current scan has passed is over or has its record in the list.
PassedAreEncoded ==
    pc = "scan" =>
        /\ blockStart < OrigSize
        /\ saved <= cursor
        /\ \A k \in DOMAIN m :
              k < cursor /\ EndOf(m[k]) > blockStart =>
                  \E j \in DOMAIN list : Represents(list[j], k, blockStart, BlockEnd)

\* The literal lengths of the current list lead up to blockpos.
LiteralsSoFar ==
    pc = "scan" =>
        /\ blockpos = IF list = <<>> THEN blockStart ELSE list[Len(list)].at
        /\ \A k \in DOMAIN m : k >= cursor => blockpos <= From(k)
        /\ \A j \in DOMAIN list :
              list[j].at = (IF j = 1 THEN blockStart ELSE list[j - 1].at) + list[j].lit

Inv ==
    /\ TypeOK
    /\ MatchesOk
    /\ SavedAreOver
    /\ PassedAreEncoded
    /\ LiteralsSoFar
    /\ EveryPartEncoded
    /\ LiteralsLeadToSources

LEMMA InitInv == Init => Inv
<1> SUFFICES ASSUME Init PROVE Inv
  OBVIOUS
<1>0. OrigSize \in Nat /\ BufSize \in Nat \ {0}
  BY Pass2Assumption
<1>1. PICK d \in Decoded : \E p \in StableOrder(d) : m = Sorted(d, p)
  BY DEF Init
<1>2. PICK p \in StableOrder(d) : m = Sorted(d, p)
  BY <1>1
<1>3. d \in Seq(PlainMatch) /\ Len(d) \in Nat /\ DOMAIN d = 1 .. Len(d)
  BY Pass2Assumption
<1>4. p \in [1 .. Len(d) -> 1 .. Len(d)]
  BY <1>2, <1>3 DEF StableOrder
<1>5. \A k \in 1 .. Len(d) : /\ d[p[k]] \in PlainMatch
                             /\ d[p[k]].len \in 1 .. BufSize
                             /\ d[p[k]].src < d[p[k]].dest
                             /\ EndOf(d[p[k]]) <= OrigSize
  <2>1. \A k \in 1 .. Len(d) : /\ d[k] \in PlainMatch
                               /\ d[k].len \in 1 .. BufSize
                               /\ d[k].src < d[k].dest
                               /\ d[k].src + d[k].len <= OrigSize
    BY <1>3, Pass2Assumption
  <2>2. \A k \in 1 .. Len(d) : p[k] \in 1 .. Len(d)
    BY <1>4
  <2> QED
    BY <2>1, <2>2 DEF EndOf
<1>6. m \in [1 .. Len(d) + 1 -> PlainMatch]
  BY SMTT(30), <1>0, <1>2, <1>3, <1>5 DEF Sorted, Sentinel, PlainMatch
<1>7. m \in Seq(PlainMatch) /\ Len(m) = Len(d) + 1 /\ m[Len(m)] = Sentinel
  BY <1>2, <1>3, <1>6 DEF Sorted
<1>8. \A k \in 1 .. Len(d) : m[k] = d[p[k]]
  BY <1>2, <1>3 DEF Sorted
<1>9. TypeOK
  BY <1>0, <1>3, <1>7 DEF Init, TypeOK
<1>10. MatchesOk
  <2>1. \A i, j \in DOMAIN m : i < j => m[i].src <= m[j].src
    <3> SUFFICES ASSUME NEW i \in DOMAIN m, NEW j \in DOMAIN m, i < j
                 PROVE  m[i].src <= m[j].src
      OBVIOUS
    <3>1. i \in 1 .. Len(d) /\ j \in 1 .. Len(d) + 1
      BY <1>3, <1>6
    <3>2. m[i].src \in Nat /\ m[j].src \in Nat
      BY <1>6, <3>1 DEF PlainMatch
    <3>3. CASE j \in 1 .. Len(d)
      <4>1. \/ d[p[i]].src < d[p[j]].src
            \/ d[p[i]].src = d[p[j]].src /\ p[i] < p[j]
        BY <1>2, <1>3, <3>1, <3>3 DEF StableOrder
      <4> QED
        <5>1. m[i] = d[p[i]] /\ m[j] = d[p[j]]
          BY <1>8, <3>1, <3>3
        <5> QED
          BY <3>2, <4>1, <5>1
    <3>4. CASE j = Len(d) + 1
      <4>1. m[i].src <= EndOf(m[i]) /\ EndOf(m[i]) <= OrigSize
        <5>1. m[i] \in PlainMatch /\ EndOf(m[i]) <= OrigSize
          BY <1>5, <1>8, <3>1
        <5> QED
          BY <5>1 DEF EndOf, PlainMatch
      <4>2. m[j].src = OrigSize
        BY <1>7, <3>4 DEF Sentinel
      <4>3. EndOf(m[i]) \in Nat
        BY <1>6, <3>1 DEF EndOf, PlainMatch
      <4> QED
        BY <1>0, <3>2, <4>1, <4>2, <4>3
    <3> QED
      BY <1>3, <3>1, <3>3, <3>4
  <2>2. \A k \in DOMAIN m : m[k].len <= BufSize /\ EndOf(m[k]) <= OrigSize
    <3> SUFFICES ASSUME NEW k \in DOMAIN m
                 PROVE  m[k].len <= BufSize /\ EndOf(m[k]) <= OrigSize
      OBVIOUS
    <3>1. CASE k \in 1 .. Len(d)
      <4>1. m[k].len \in 1 .. BufSize
        BY <1>5, <1>8, <3>1
      <4> QED
        BY <1>0, <1>5, <1>8, <3>1, <4>1
    <3>2. CASE k = Len(d) + 1
      BY <1>0, <1>7, <3>2 DEF Sentinel, EndOf
    <3> QED
      BY <1>3, <1>6, <3>1, <3>2
  <2>3. \A k \in DOMAIN m : k < Len(m) => m[k].len > 0 /\ m[k].src < m[k].dest
    <3> SUFFICES ASSUME NEW k \in DOMAIN m, k < Len(m)
                 PROVE  m[k].len > 0 /\ m[k].src < m[k].dest
      OBVIOUS
    <3>1. k \in 1 .. Len(d)
      BY <1>3, <1>6, <1>7
    <3>2. m[k].len \in 1 .. BufSize /\ m[k].src < m[k].dest
      BY <1>5, <1>8, <3>1
    <3> QED
      BY <1>0, <3>2
  <2> QED
    BY <2>1, <2>2, <2>3 DEF MatchesOk
<1>11. /\ SavedAreOver /\ PassedAreEncoded /\ LiteralsSoFar
       /\ EveryPartEncoded /\ LiteralsLeadToSources
  BY <1>6 DEF Init, SavedAreOver, PassedAreEncoded, LiteralsSoFar,
              EveryPartEncoded, LiteralsLeadToSources
<1> QED
  BY <1>9, <1>10, <1>11 DEF Inv

\* What the invariant says of the match under the cursor, in arithmetic.
LEMMA MatchFacts ==
    ASSUME TypeOK, MatchesOk
    PROVE  /\ OrigSize \in Nat /\ BufSize \in Nat \ {0}
           /\ blockStart \in Nat /\ BlockEnd \in Nat
           /\ blockStart <= BlockEnd /\ BlockEnd <= OrigSize
           /\ BlockEnd <= blockStart + BufSize
           /\ BlockEnd < OrigSize => BlockEnd = blockStart + BufSize
           /\ Len(m) \in Nat /\ DOMAIN m = 1 .. Len(m)
           /\ \A k \in DOMAIN m :
                 /\ m[k].src \in Nat /\ m[k].dest \in Nat /\ m[k].len \in Nat
                 /\ EndOf(m[k]) = m[k].src + m[k].len
                 /\ EndOf(m[k]) \in Nat /\ EndOf(m[k]) <= OrigSize
                 /\ EndOf(m[k]) <= m[k].src + BufSize
           /\ m[Len(m)].src = OrigSize
<1>1. OrigSize \in Nat /\ BufSize \in Nat \ {0}
  BY Pass2Assumption
<1>2. /\ blockStart \in Nat /\ BlockEnd \in Nat
      /\ blockStart <= BlockEnd /\ BlockEnd <= OrigSize
      /\ BlockEnd <= blockStart + BufSize
      /\ BlockEnd < OrigSize => BlockEnd = blockStart + BufSize
  BY <1>1 DEF TypeOK, BlockEnd
<1>3. Len(m) \in Nat /\ DOMAIN m = 1 .. Len(m) /\ m[Len(m)].src = OrigSize
  BY DEF TypeOK, Sentinel
<1>4. ASSUME NEW k \in DOMAIN m
      PROVE  /\ m[k].src \in Nat /\ m[k].dest \in Nat /\ m[k].len \in Nat
             /\ EndOf(m[k]) = m[k].src + m[k].len
             /\ EndOf(m[k]) \in Nat /\ EndOf(m[k]) <= OrigSize
             /\ EndOf(m[k]) <= m[k].src + BufSize
  <2>1. m[k] \in PlainMatch
    BY <1>3 DEF TypeOK
  <2>2. m[k].src \in Nat /\ m[k].dest \in Nat /\ m[k].len \in Nat
    BY <2>1 DEF PlainMatch
  <2>3. m[k].len <= BufSize /\ EndOf(m[k]) <= OrigSize
    BY DEF MatchesOk
  <2> QED
    BY <1>1, <2>2, <2>3 DEF EndOf
<1> QED
  BY <1>1, <1>2, <1>3, <1>4

LEMMA StartBlockInv == Inv /\ StartBlock => Inv'
<1> SUFFICES ASSUME Inv, StartBlock PROVE Inv'
  OBVIOUS
<1>1. TypeOK /\ MatchesOk
  BY DEF Inv
<1>2. TypeOK'
  BY <1>1, MatchFacts DEF TypeOK, StartBlock, MoreInput
<1>3. MatchesOk' /\ EveryPartEncoded' /\ LiteralsLeadToSources'
  BY DEF Inv, StartBlock, MoreInput, MatchesOk, EveryPartEncoded, Represents, LiteralsLeadToSources
<1>4. \A k \in DOMAIN m : k < cursor => EndOf(m[k]) <= blockStart
  BY DEF Inv, StartBlock, MoreInput, SavedAreOver
<1>5. SavedAreOver'
  <2> SUFFICES ASSUME NEW k \in DOMAIN m, k < cursor PROVE EndOf(m[k]) <= BlockEnd
    BY DEF StartBlock, MoreInput, SavedAreOver, BlockEnd
  <2> QED
    BY <1>1, <1>4, MatchFacts
<1>6. PassedAreEncoded'
  <2>1. ASSUME NEW k \in DOMAIN m, k < cursor PROVE ~ (EndOf(m[k]) > blockStart)
    BY <1>1, <1>4, <2>1, MatchFacts
  <2>2. cursor <= cursor
    BY <1>1 DEF TypeOK
  <2> QED
    BY <2>1, <2>2 DEF StartBlock, MoreInput, PassedAreEncoded
<1>7. LiteralsSoFar'
  <2>1. \A k \in DOMAIN m : blockStart <= From(k)
    BY <1>1, MatchFacts DEF From
  <2> QED
    BY <2>1 DEF StartBlock, MoreInput, LiteralsSoFar, From
<1> QED
  BY <1>2, <1>3, <1>5, <1>6, <1>7 DEF Inv

LEMMA SkipEndedInv == Inv /\ SkipEnded => Inv'
<1> SUFFICES ASSUME Inv, SkipEnded PROVE Inv'
  OBVIOUS
<1>1. TypeOK /\ MatchesOk
  BY DEF Inv
<1>2. cursor \in DOMAIN m /\ cursor \in Nat /\ cursor < Len(m)
  <2>1. cursor \in 1 .. Len(m) /\ cursor \in DOMAIN m
    BY <1>1, MatchFacts DEF TypeOK
  <2>2. cursor # Len(m)
    BY <1>1, MatchFacts DEF SkipEnded
  <2> QED
    BY <1>1, <2>1, <2>2, MatchFacts
<1>3. TypeOK'
  BY <1>1, <1>2, MatchFacts DEF TypeOK, SkipEnded
<1>4. MatchesOk' /\ EveryPartEncoded' /\ LiteralsLeadToSources'
  BY DEF Inv, SkipEnded, MatchesOk, EveryPartEncoded, Represents, LiteralsLeadToSources
<1>5. SavedAreOver'
  <2> SUFFICES ASSUME NEW k \in DOMAIN m, k < cursor PROVE EndOf(m[k]) <= BlockEnd
    BY DEF SkipEnded, SavedAreOver, BlockEnd
  <2>1. m[k].src <= m[cursor].src
    BY <1>1, <1>2 DEF MatchesOk
  <2>2. EndOf(m[cursor]) <= blockStart /\ m[cursor].src <= EndOf(m[cursor])
    <3>1. EndOf(m[cursor]) <= blockStart
      BY DEF SkipEnded
    <3>2. m[cursor].src <= EndOf(m[cursor])
      BY SMTT(30), <1>1, <1>2, MatchFacts
    <3> QED
      BY <3>1, <3>2
  <2>3. EndOf(m[k]) <= blockStart + BufSize
    BY <1>1, <1>2, <2>1, <2>2, MatchFacts
  <2> QED
    BY <1>1, <2>3, MatchFacts
<1>6. PassedAreEncoded'
  <2>1. PassedAreEncoded /\ pc = "scan" /\ EndOf(m[cursor]) <= blockStart
    BY DEF Inv, SkipEnded
  <2>2. ASSUME NEW k \in DOMAIN m, k < cursor + 1, EndOf(m[k]) > blockStart
        PROVE  k < cursor
    BY <1>1, <1>2, <2>1, <2>2, MatchFacts
  <2>3. cursor <= cursor + 1
    BY <1>2
  <2> QED
    BY <2>1, <2>2, <2>3 DEF SkipEnded, PassedAreEncoded, BlockEnd, Represents
<1>7. LiteralsSoFar'
  <2>1. ASSUME NEW k \in DOMAIN m, k >= cursor + 1 PROVE blockpos <= From(k)
    BY <1>1, <1>2, <2>1, MatchFacts DEF Inv, SkipEnded, LiteralsSoFar
  <2> QED
    BY <2>1 DEF Inv, SkipEnded, LiteralsSoFar, From
<1> QED
  BY <1>3, <1>4, <1>5, <1>6, <1>7 DEF Inv

LEMMA EndBlockInv == Inv /\ EndBlock => Inv'
<1> SUFFICES ASSUME Inv, EndBlock PROVE Inv'
  OBVIOUS
<1>1. TypeOK /\ MatchesOk
  BY DEF Inv
<1>2. [lo |-> blockStart, hi |-> BlockEnd, list |-> list] \in Block
  BY <1>1, MatchFacts DEF TypeOK, Block
<1>3. TypeOK'
  BY <1>1, <1>2, MatchFacts DEF TypeOK, EndBlock, Rewind
<1>4. MatchesOk'
  BY DEF Inv, EndBlock, Rewind, MatchesOk
<1>5. SavedAreOver'
  BY DEF Inv, EndBlock, Rewind, SavedAreOver
<1>6. PassedAreEncoded' /\ LiteralsSoFar'
  BY DEF EndBlock, Rewind, PassedAreEncoded, LiteralsSoFar
<1>7. output \in Seq(Block) /\ Len(output) \in Nat
  BY <1>1 DEF TypeOK
<1>8. /\ DOMAIN output' = 1 .. Len(output) + 1
      /\ \A b \in DOMAIN output : output'[b] = output[b]
      /\ output'[Len(output) + 1] = [lo |-> blockStart, hi |-> BlockEnd, list |-> list]
  BY <1>2, <1>7 DEF EndBlock, Rewind
<1>9. EveryPartEncoded'
  <2> SUFFICES ASSUME NEW b \in DOMAIN output', NEW k \in DOMAIN m,
                      Touches(m[k], output'[b].lo, output'[b].hi)
               PROVE  \E j \in DOMAIN output'[b].list :
                         Represents(output'[b].list[j], k, output'[b].lo, output'[b].hi)
    BY DEF EveryPartEncoded, EndBlock, Rewind, Represents
  <2>1. CASE b \in DOMAIN output
    BY <1>8, <2>1 DEF Inv, EveryPartEncoded
  <2>2. CASE b = Len(output) + 1
    <3>1. m[k].src < BlockEnd /\ EndOf(m[k]) > blockStart
      BY <1>8, <2>2 DEF Touches
    <3>2. k < cursor
      <4>1. cursor \in DOMAIN m /\ cursor \in Nat /\ k \in Nat
        BY <1>1, MatchFacts DEF TypeOK
      <4>2. m[cursor].src >= BlockEnd
        BY DEF EndBlock, Rewind
      <4>3. cursor < k => m[cursor].src <= m[k].src
        BY <1>1, <4>1 DEF MatchesOk
      <4>4. m[cursor].src \in Nat /\ m[k].src \in Nat /\ BlockEnd \in Nat
        BY <1>1, <4>1, MatchFacts
      <4> QED
        BY <3>1, <4>1, <4>2, <4>3, <4>4
    <3>3. \E j \in DOMAIN list : Represents(list[j], k, blockStart, BlockEnd)
      BY <3>1, <3>2 DEF Inv, EndBlock, Rewind, PassedAreEncoded
    <3> QED
      BY <1>8, <2>2, <3>3
  <2> QED
    BY <1>7, <1>8, <2>1, <2>2
<1>10. LiteralsLeadToSources'
  <2> SUFFICES ASSUME NEW b \in DOMAIN output', NEW j \in DOMAIN output'[b].list
               PROVE  output'[b].list[j].at =
                        (IF j = 1 THEN output'[b].lo ELSE output'[b].list[j - 1].at)
                          + output'[b].list[j].lit
    BY DEF LiteralsLeadToSources
  <2>1. CASE b \in DOMAIN output
    BY <1>8, <2>1 DEF Inv, LiteralsLeadToSources
  <2>2. CASE b = Len(output) + 1
    BY <1>8, <2>2 DEF Inv, EndBlock, Rewind, LiteralsSoFar
  <2> QED
    BY <1>7, <1>8, <2>1, <2>2
<1> QED
  BY <1>3, <1>4, <1>5, <1>6, <1>9, <1>10 DEF Inv

LEMMA EncodeMatchInv == Inv /\ EncodeMatch => Inv'
<1> SUFFICES ASSUME Inv, EncodeMatch PROVE Inv'
  OBVIOUS
<1> DEFINE r == [lit |-> From(cursor) - blockpos,
                 off |-> m[cursor].dest - m[cursor].src,
                 len |-> To(cursor) - From(cursor),
                 of |-> cursor,
                 at |-> From(cursor)]
<1>1. TypeOK /\ MatchesOk
  BY DEF Inv
<1>2. cursor \in DOMAIN m /\ cursor \in Nat /\ cursor < Len(m)
  <2>1. cursor \in 1 .. Len(m) /\ cursor \in DOMAIN m
    BY <1>1, MatchFacts DEF TypeOK
  <2>2. cursor # Len(m)
    BY <1>1, MatchFacts DEF EncodeMatch, PosAfterRecord
  <2> QED
    BY <1>1, <2>1, <2>2, MatchFacts
<1>3. /\ From(cursor) \in Nat /\ To(cursor) \in Nat
      /\ From(cursor) < To(cursor)
      /\ blockpos \in Nat /\ blockpos <= From(cursor)
  <2>1. /\ m[cursor].src < BlockEnd
        /\ EndOf(m[cursor]) > blockStart
    BY DEF EncodeMatch, PosAfterRecord
  <2>2. /\ m[cursor].src \in Nat /\ EndOf(m[cursor]) \in Nat
        /\ m[cursor].src < EndOf(m[cursor])
    <3>1. m[cursor].len > 0
      BY <1>1, <1>2 DEF MatchesOk
    <3>2. /\ m[cursor].src \in Nat /\ m[cursor].len \in Nat
          /\ EndOf(m[cursor]) = m[cursor].src + m[cursor].len
      BY <1>1, <1>2, MatchFacts
    <3> QED
      BY <3>1, <3>2
  <2>3. blockStart \in Nat /\ BlockEnd \in Nat /\ blockStart < BlockEnd
    <3>1. blockStart < OrigSize
      BY DEF Inv, EncodeMatch, PosAfterRecord, PassedAreEncoded
    <3> QED
      BY <1>1, <3>1, MatchFacts
  <2>4. blockpos \in Nat /\ blockpos <= From(cursor)
    BY <1>1, <1>2 DEF Inv, EncodeMatch, PosAfterRecord, LiteralsSoFar, TypeOK
  <2>5. From(cursor) \in Nat /\ To(cursor) \in Nat /\ From(cursor) < To(cursor)
    BY <2>1, <2>2, <2>3 DEF From, To
  <2> QED
    BY <2>4, <2>5
<1>4. m[cursor].dest - m[cursor].src \in Nat
  <2>1. m[cursor].src < m[cursor].dest
    BY <1>1, <1>2 DEF MatchesOk
  <2>2. m[cursor].src \in Nat /\ m[cursor].dest \in Nat
    BY <1>1, <1>2, MatchFacts
  <2> QED
    BY <2>1, <2>2
<1>5. r \in Record
  BY <1>2, <1>3, <1>4 DEF Record
<1>6. list \in Seq(Record) /\ Len(list) \in Nat
  BY <1>1 DEF TypeOK
<1>7. /\ list' \in Seq(Record)
      /\ DOMAIN list' = 1 .. Len(list) + 1 /\ Len(list') = Len(list) + 1
      /\ \A j \in DOMAIN list : list'[j] = list[j]
      /\ list'[Len(list) + 1] = r
      /\ list' # <<>>
  <2>1. list' = Append(list, r)
    BY DEF EncodeMatch, PosAfterRecord
  <2> HIDE DEF r
  <2> QED
    BY <1>5, <1>6, <2>1
<1>8. TypeOK'
  <2>1. cursor + 1 \in 1 .. Len(m)
    BY <1>1, <1>2, MatchFacts
  <2>2. /\ m' = m /\ saved' = saved /\ blockStart' = blockStart /\ output' = output
        /\ pc' = pc /\ cursor' = cursor + 1 /\ blockpos' = From(cursor)
    BY DEF EncodeMatch, PosAfterRecord
  <2> QED
    BY <1>1, <1>3, <1>7, <2>1, <2>2 DEF TypeOK
<1>9. MatchesOk' /\ EveryPartEncoded' /\ LiteralsLeadToSources'
  BY DEF Inv, EncodeMatch, PosAfterRecord, MatchesOk, EveryPartEncoded, Represents,
         LiteralsLeadToSources
<1>10. SavedAreOver'
  BY DEF Inv, EncodeMatch, PosAfterRecord, SavedAreOver, BlockEnd
<1>11. PassedAreEncoded'
  <2>1. /\ blockStart < OrigSize /\ saved <= cursor
        /\ \A k \in DOMAIN m :
              k < cursor /\ EndOf(m[k]) > blockStart =>
                  \E j \in DOMAIN list : Represents(list[j], k, blockStart, BlockEnd)
    BY DEF Inv, EncodeMatch, PosAfterRecord, PassedAreEncoded
  <2>2. saved <= cursor + 1
    BY <1>1, <1>2, <2>1 DEF TypeOK
  <2>3. Represents(r, cursor, blockStart, BlockEnd)
    BY <1>3 DEF Represents, From, To
  <2>4. ASSUME NEW k \in DOMAIN m, k < cursor + 1, EndOf(m[k]) > blockStart
        PROVE  \E j \in DOMAIN list' : Represents(list'[j], k, blockStart, BlockEnd)
    <3>1. CASE k < cursor
      BY <1>6, <1>7, <2>1, <2>4, <3>1
    <3>2. CASE k = cursor
      <4>1. Len(list) + 1 \in DOMAIN list'
        BY <1>6, <1>7
      <4> QED
        BY <1>7, <2>3, <3>2, <4>1
    <3> QED
      BY <1>1, <1>2, <2>4, <3>1, <3>2, MatchFacts
  <2>5. m' = m /\ blockStart' = blockStart /\ BlockEnd' = BlockEnd /\ saved' = saved
        /\ cursor' = cursor + 1
    BY DEF EncodeMatch, PosAfterRecord, BlockEnd
  <2> QED
    BY <2>1, <2>2, <2>4, <2>5 DEF PassedAreEncoded, Represents
<1>12. LiteralsSoFar'
  <2>1. blockpos' = list'[Len(list')].at
    BY <1>7 DEF EncodeMatch, PosAfterRecord
  <2>2. ASSUME NEW k \in DOMAIN m, k >= cursor + 1 PROVE From(cursor) <= From(k)
    <3>1. m[cursor].src <= m[k].src
      BY <1>1, <1>2, <2>2, MatchFacts DEF MatchesOk
    <3> QED
      BY <1>1, <1>2, <3>1, MatchFacts DEF From
  <2>3. ASSUME NEW j \in DOMAIN list'
        PROVE  list'[j].at = (IF j = 1 THEN blockStart ELSE list'[j - 1].at) + list'[j].lit
    <3>1. pc = "scan" /\ LiteralsSoFar
      BY DEF Inv, EncodeMatch, PosAfterRecord
    <3>2. CASE j \in DOMAIN list
      BY <1>6, <1>7, <3>1, <3>2 DEF LiteralsSoFar
    <3>3. CASE j = Len(list) + 1
      <4>1. blockpos = IF list = <<>> THEN blockStart ELSE list[Len(list)].at
        BY <3>1 DEF LiteralsSoFar
      <4>2. r.at = From(cursor) /\ r.lit = From(cursor) - blockpos
        OBVIOUS
      <4>3. (IF j = 1 THEN blockStart ELSE list'[j - 1].at) = blockpos
        <5>1. CASE list = <<>>
          BY <1>6, <3>3, <4>1, <5>1
        <5>2. CASE list # <<>>
          BY <1>6, <1>7, <3>3, <4>1, <5>2
        <5> QED
          BY <5>1, <5>2
      <4> HIDE DEF r
      <4> QED
        BY <1>3, <1>7, <3>3, <4>2, <4>3
    <3> QED
      BY <1>6, <1>7, <3>2, <3>3
  <2>4. /\ m' = m /\ blockStart' = blockStart /\ cursor' = cursor + 1
        /\ blockpos' = From(cursor) /\ list' # <<>>
    BY <1>7 DEF EncodeMatch, PosAfterRecord
  <2> QED
    BY <2>1, <2>2, <2>3, <2>4 DEF LiteralsSoFar, From
<1> QED
  BY <1>8, <1>9, <1>10, <1>11, <1>12 DEF Inv

LEMMA NextInv == Inv /\ [Next]_vars => Inv'
<1> SUFFICES ASSUME Inv, [Next]_vars PROVE Inv'
  OBVIOUS
<1>1. CASE StartBlock
  BY <1>1, StartBlockInv
<1>2. CASE SkipEnded
  BY <1>2, SkipEndedInv
<1>3. CASE EncodeMatch
  BY <1>3, EncodeMatchInv
<1>4. CASE EndBlock
  BY <1>4, EndBlockInv
<1>5. CASE Finish
  BY <1>5 DEF Finish, MoreInput, Inv, TypeOK, MatchesOk, SavedAreOver, PassedAreEncoded,
              LiteralsSoFar, EveryPartEncoded, Represents, LiteralsLeadToSources
<1>6. CASE UNCHANGED vars
  BY <1>6 DEF vars, Inv, TypeOK, MatchesOk, SavedAreOver, PassedAreEncoded, BlockEnd,
              From, LiteralsSoFar, EveryPartEncoded, Represents, LiteralsLeadToSources
<1> QED
  BY <1>1, <1>2, <1>3, <1>4, <1>5, <1>6 DEF Next, Terminated

LEMMA SpecInv == Spec => []Inv
<1> QED
  BY InitInv, NextInv, PTL DEF Spec

\* Type correctness of pass 2: in particular the cursor never runs past the end
\* marker and no literal length is negative (the cast to u32 in compress.rs:281).
THEOREM TypeCorrect == Spec => []TypeOK
<1>1. Inv => TypeOK
  BY DEF Inv
<1> QED
  BY <1>1, SpecInv, PTL

\* Restarting each scan at saved_i loses nothing: every part of every match whose
\* source lies in a finished block is in that block's list.
THEOREM NothingSkipped == Spec => []EveryPartEncoded
<1>1. Inv => EveryPartEncoded
  BY DEF Inv
<1> QED
  BY <1>1, SpecInv, PTL

\* The literal lengths written are the ones the decoder needs to find each source.
THEOREM SourcesRecoverable == Spec => []LiteralsLeadToSources
<1>1. Inv => LiteralsLeadToSources
  BY DEF Inv
<1> QED
  BY <1>1, SpecInv, PTL

-----------------------------------------------------------------------------
(* The lists are exactly the ones LzMatches specifies.                     *)

LEMMA CardinalityIs ==
    ASSUME NEW S
    PROVE  LM!Cardinality(S) = Cardinality(S)
  BY DEF LM!Cardinality, Cardinality

LEMMA LargerOfTwo ==
    ASSUME NEW a \in Nat, NEW b \in Nat
    PROVE  LM!Max({a, b}) = IF a > b THEN a ELSE b
  BY DEF LM!Max

LEMMA SmallerOfTwo ==
    ASSUME NEW a \in Nat, NEW b \in Nat
    PROVE  LM!Min({a, b}) = IF a < b THEN a ELSE b
  BY DEF LM!Min

\* The first k of n different things are k.
LEMMA FirstAreMany ==
    ASSUME NEW n \in Nat, NEW k \in 0 .. n, NEW u,
           \A i, j \in 1 .. n : i # j => u[i] # u[j]
    PROVE  Cardinality({u[i] : i \in 1 .. k}) = k
<1> DEFINE K == 1 .. k
           T == {u[i] : i \in K}
           f == [i \in K |-> u[i]]
<1>1. IsFiniteSet(K) /\ Cardinality(K) = k
  <2>1. k \in Nat /\ 1 \in Int /\ k \in Int
    OBVIOUS
  <2>2. IsFiniteSet(K) /\ Cardinality(K) = (IF 1 > k THEN 0 ELSE k - 1 + 1)
    BY <2>1, FS_Interval
  <2> QED
    BY <2>1, <2>2
<1>2. K \subseteq 1 .. n
  OBVIOUS
<1> HIDE DEF K
<1>3. f \in [K -> T] /\ \A t \in T : \E i \in K : f[i] = t
  OBVIOUS
<1>4. \A i, j \in K : f[i] = f[j] => i = j
  BY <1>2
<1> HIDE DEF f, T
<1>5. f \in Surjection(K, T)
  BY <1>3 DEF Surjection
<1>6. f \in Injection(K, T)
  BY <1>3, <1>4 DEF Injection, IsInjective
<1> QED
  BY <1>1, <1>5, <1>6, FS_Surjection DEF T, K

\* u lists S in source order.
LEMMA OrderIs ==
    ASSUME NEW n \in Nat, NEW u, \A k \in 1 .. n : u[k] \in PlainMatch,
           \A i, j \in 1 .. n : i < j => LM!Earlier(u[i], u[j]),
           NEW S, S = {u[k] : k \in 1 .. n}
    PROVE  LM!SourceOrder(S) = [k \in 1 .. n |-> u[k]]
<1> DEFINE Before(x) == {y \in S : LM!Earlier(y, x)}
<1>1. ASSUME NEW i \in 1 .. n, NEW j \in 1 .. n, LM!Earlier(u[i], u[j])
      PROVE  i < j
  <2>1. ASSUME j < i PROVE FALSE
    <3>1. LM!Earlier(u[j], u[i])
      BY <2>1
    <3> QED
      BY <1>1, <3>1 DEF LM!Earlier, PlainMatch
  <2>2. ASSUME i = j PROVE FALSE
    BY <1>1, <2>2 DEF LM!Earlier, PlainMatch
  <2> QED
    BY <2>1, <2>2
<1>2. ASSUME NEW i \in 1 .. n, NEW j \in 1 .. n, i # j
      PROVE  u[i] # u[j]
  <2>1. i < j \/ j < i
    BY <1>2
  <2>2. LM!Earlier(u[i], u[j]) \/ LM!Earlier(u[j], u[i])
    BY <2>1
  <2>3. ~ LM!Earlier(u[i], u[i])
    BY <1>1
  <2> QED
    BY <2>2, <2>3
<1>3. LM!Cardinality(S) = n
  <2>1. n \in 0 .. n
    OBVIOUS
  <2>2. Cardinality(S) = n
    BY <1>2, <2>1, FirstAreMany
  <2> QED
    BY <2>2, CardinalityIs
<1>4. ASSUME NEW k \in 1 .. n
      PROVE  LM!Cardinality(Before(u[k])) = k - 1
  <2>1. Before(u[k]) = {u[i] : i \in 1 .. k - 1}
    <3>1. ASSUME NEW i \in 1 .. n PROVE LM!Earlier(u[i], u[k]) <=> i \in 1 .. k - 1
      BY <1>1
    <3>2. 1 .. k - 1 \subseteq 1 .. n
      OBVIOUS
    <3> QED
      BY <3>1, <3>2
  <2>2. k - 1 \in 0 .. n
    OBVIOUS
  <2> HIDE DEF Before
  <2>3. Cardinality({u[i] : i \in 1 .. k - 1}) = k - 1
    BY <1>2, <2>2, FirstAreMany
  <2> QED
    BY <2>1, <2>3, CardinalityIs
<1> HIDE DEF Before
<1>5. ASSUME NEW k \in 1 .. n
      PROVE  (CHOOSE x \in S : LM!Cardinality(Before(x)) = k - 1) = u[k]
  <2> DEFINE c == CHOOSE x \in S : LM!Cardinality(Before(x)) = k - 1
  <2>1. u[k] \in S /\ LM!Cardinality(Before(u[k])) = k - 1
    BY <1>4
  <2>2. c \in S /\ LM!Cardinality(Before(c)) = k - 1
    BY <2>1
  <2> HIDE DEF c
  <2>3. PICK j \in 1 .. n : c = u[j]
    BY <2>2
  <2>4. j - 1 = k - 1
    BY <1>4, <2>2, <2>3
  <2>5. j = k
    BY <2>4
  <2> QED
    BY <2>3, <2>5 DEF c
<1>6. LM!SourceOrder(S) =
        [k \in 1 .. n |-> CHOOSE x \in S : LM!Cardinality(Before(x)) = k - 1]
  BY <1>3 DEF LM!SourceOrder, Before
<1> QED
  BY <1>5, <1>6

StrictlySorted == \A i, j \in 1 .. Len(m) - 1 : i < j => LM!Earlier(m[i], m[j])

\* The records of l are for matches before n, in their order, and say the parts with
\* source from lo to hi.
OnlyParts(l, n, lo, hi) ==
    /\ \A j \in DOMAIN l : /\ l[j].of \in 1 .. n - 1
                           /\ Touches(m[l[j].of], lo, hi)
                           /\ Represents(l[j], l[j].of, lo, hi)
    /\ \A j1, j2 \in DOMAIN l : j1 < j2 => l[j1].of < l[j2].of

ListInv ==
    /\ StrictlySorted
    /\ pc = "scan" => OnlyParts(list, cursor, blockStart, BlockEnd)
    /\ \A b \in DOMAIN output : OnlyParts(output[b].list, Len(m), output[b].lo, output[b].hi)

LEMMA InitListInv ==
    ASSUME Init
    PROVE  ListInv
<1>1. PICK d \in Decoded : \E p \in StableOrder(d) : m = Sorted(d, p)
  BY DEF Init
<1>2. PICK p \in StableOrder(d) : m = Sorted(d, p)
  BY <1>1
<1>3. d \in Seq(PlainMatch) /\ Len(d) \in Nat /\ DOMAIN d = 1 .. Len(d)
  BY Pass2Assumption
<1>4. p \in [1 .. Len(d) -> 1 .. Len(d)]
  BY <1>2, <1>3 DEF StableOrder
<1>5. Len(m) = Len(d) + 1 /\ \A k \in 1 .. Len(d) : m[k] = d[p[k]]
  BY <1>2, <1>3 DEF Sorted
<1>6. ASSUME NEW i \in 1 .. Len(d), NEW j \in 1 .. Len(d), i < j
      PROVE  LM!Earlier(m[i], m[j])
  <2>1. \/ d[p[i]].src < d[p[j]].src
        \/ d[p[i]].src = d[p[j]].src /\ p[i] < p[j]
    BY <1>2, <1>3, <1>6 DEF StableOrder
  <2>2. p[i] < p[j] => d[p[i]].dest < d[p[j]].dest
    BY <1>3, <1>4, Pass2Assumption
  <2> QED
    BY <1>5, <2>1, <2>2 DEF LM!Earlier
<1>7. StrictlySorted
  BY <1>3, <1>5, <1>6 DEF StrictlySorted
<1> QED
  BY <1>7 DEF Init, ListInv

LEMMA NextListInv ==
    ASSUME Inv, ListInv, [Next]_vars
    PROVE  ListInv'
<1>1. TypeOK /\ MatchesOk
  BY DEF Inv
<1>2. m' = m
  BY DEF Next, StartBlock, SkipEnded, EncodeMatch, EndBlock, Finish, Terminated, vars
<1>3. StrictlySorted'
  BY <1>2 DEF ListInv, StrictlySorted
<1>5. ASSUME output' = output, UNCHANGED <<list, cursor, blockStart>>, pc' = "scan" => pc = "scan"
      PROVE  ListInv'
  BY <1>2, <1>3, <1>5 DEF ListInv, OnlyParts, Touches, Represents, EndOf, BlockEnd
<1>6. CASE StartBlock
  <2>1. list' = <<>> /\ output' = output
    BY <1>6 DEF StartBlock
  <2> QED
    BY <1>2, <1>3, <2>1 DEF ListInv, OnlyParts, Touches, Represents, EndOf, BlockEnd
<1>7. CASE SkipEnded
  <2>1. /\ pc = "scan" /\ list' = list /\ output' = output /\ cursor' = cursor + 1
        /\ blockStart' = blockStart
    BY <1>7 DEF SkipEnded
  <2>2. cursor \in Nat
    BY <1>1, MatchFacts DEF TypeOK
  <2>3. \A x \in 1 .. cursor - 1 : x \in 1 .. (cursor + 1) - 1
    BY <2>2
  <2> QED
    BY <1>2, <1>3, <2>1, <2>3 DEF ListInv, OnlyParts, Touches, Represents, EndOf, BlockEnd
<1>8. CASE EncodeMatch
  <2> DEFINE r == [lit |-> From(cursor) - blockpos,
                   off |-> m[cursor].dest - m[cursor].src,
                   len |-> To(cursor) - From(cursor),
                   of |-> cursor,
                   at |-> From(cursor)]
             n == Len(list)
             l == Append(list, r)
  <2>1. /\ pc = "scan" /\ list' = l /\ output' = output /\ cursor' = cursor + 1
        /\ blockStart' = blockStart
        /\ m[cursor].src < BlockEnd /\ EndOf(m[cursor]) > blockStart
    BY <1>8 DEF EncodeMatch, PosAfterRecord
  <2>2. cursor \in DOMAIN m /\ cursor \in Nat /\ cursor >= 1
    BY <1>1, MatchFacts DEF TypeOK
  <2>3. From(cursor) \in Nat /\ To(cursor) \in Nat
    BY <1>1, <2>2, MatchFacts DEF From, To
  <2>4. r.of = cursor /\ Represents(r, cursor, blockStart, BlockEnd)
    BY <2>3 DEF Represents, From, To
  <2>5. Touches(m[cursor], blockStart, BlockEnd)
    BY <2>1 DEF Touches
  <2> HIDE DEF r
  <2>6. list \in Seq(Record) /\ n \in Nat /\ DOMAIN list = 1 .. n
    BY <1>1 DEF TypeOK
  <2>7. DOMAIN l = 1 .. n + 1 /\ l[n + 1] = r /\ \A j \in 1 .. n : l[j] = list[j]
    BY <2>6
  <2> HIDE DEF l, n
  <2>8. OnlyParts(list, cursor, blockStart, BlockEnd)
    BY <2>1 DEF ListInv
  <2>9. OnlyParts(l, cursor + 1, blockStart, BlockEnd)
    <3>1. ASSUME NEW j \in DOMAIN l
          PROVE  /\ l[j].of \in 1 .. (cursor + 1) - 1
                 /\ Touches(m[l[j].of], blockStart, BlockEnd)
                 /\ Represents(l[j], l[j].of, blockStart, BlockEnd)
      <4>1. CASE j = n + 1
        BY <2>2, <2>4, <2>5, <2>7, <4>1
      <4>2. CASE j # n + 1
        <5>1. j \in DOMAIN list /\ l[j] = list[j]
          BY <2>6, <2>7, <4>2
        <5>2. \A x \in 1 .. cursor - 1 : x \in 1 .. (cursor + 1) - 1
          BY <2>2
        <5> QED
          BY <2>8, <5>1, <5>2 DEF OnlyParts
      <4> QED
        BY <4>1, <4>2
    <3>2. ASSUME NEW j1 \in DOMAIN l, NEW j2 \in DOMAIN l, j1 < j2
          PROVE  l[j1].of < l[j2].of
      <4>1. j1 \in DOMAIN list /\ l[j1] = list[j1]
        BY <2>6, <2>7, <3>2
      <4>2. CASE j2 = n + 1
        <5>1. list[j1].of \in 1 .. cursor - 1
          BY <2>8, <4>1 DEF OnlyParts
        <5> QED
          BY <2>2, <2>4, <2>7, <4>1, <4>2, <5>1
      <4>3. CASE j2 # n + 1
        <5>1. j2 \in DOMAIN list /\ l[j2] = list[j2]
          BY <2>6, <2>7, <4>3
        <5> QED
          BY <2>8, <3>2, <4>1, <5>1 DEF OnlyParts
      <4> QED
        BY <4>2, <4>3
    <3> QED
      BY <3>1, <3>2 DEF OnlyParts
  <2> QED
    BY <1>2, <1>3, <2>1, <2>9 DEF ListInv, OnlyParts, Touches, Represents, EndOf, BlockEnd
<1>9. CASE EndBlock
  <2> DEFINE b0 == [lo |-> blockStart, hi |-> BlockEnd, list |-> list]
             n == Len(output)
             out == Append(output, b0)
  <2>1. pc = "scan" /\ output' = out /\ pc' = "block"
    BY <1>9 DEF EndBlock
  <2>2. b0.lo = blockStart /\ b0.hi = BlockEnd /\ b0.list = list /\ b0 \in Block
    BY <1>1, MatchFacts DEF TypeOK, Block
  <2>3. OnlyParts(list, cursor, blockStart, BlockEnd)
    BY <2>1 DEF ListInv
  <2>4. OnlyParts(list, Len(m), blockStart, BlockEnd)
    <3>1. cursor \in 1 .. Len(m) /\ Len(m) \in Nat
      BY <1>1, MatchFacts DEF TypeOK
    <3>2. \A x \in 1 .. cursor - 1 : x \in 1 .. Len(m) - 1
      BY <3>1
    <3> QED
      BY <2>3, <3>2 DEF OnlyParts
  <2>5. output \in Seq(Block) /\ n \in Nat /\ DOMAIN output = 1 .. n
    BY <1>1 DEF TypeOK
  <2> HIDE DEF b0
  <2>6. DOMAIN out = 1 .. n + 1 /\ out[n + 1] = b0 /\ \A b \in 1 .. n : out[b] = output[b]
    BY <2>2, <2>5
  <2> HIDE DEF out, n
  <2>7. \A b \in DOMAIN out : OnlyParts(out[b].list, Len(m), out[b].lo, out[b].hi)
    <3> SUFFICES ASSUME NEW b \in DOMAIN out
                 PROVE  OnlyParts(out[b].list, Len(m), out[b].lo, out[b].hi)
      OBVIOUS
    <3>1. CASE b = n + 1
      BY <2>2, <2>4, <2>6, <3>1
    <3>2. CASE b # n + 1
      BY <2>5, <2>6, <3>2 DEF ListInv
    <3> QED
      BY <3>1, <3>2
  <2> QED
    BY <1>2, <1>3, <2>1, <2>7 DEF ListInv, OnlyParts, Touches, Represents, EndOf
<1>10. CASE Finish
  BY <1>5, <1>10 DEF Finish
<1>11. CASE UNCHANGED vars
  BY <1>5, <1>11 DEF vars
<1> QED
  BY <1>6, <1>7, <1>8, <1>9, <1>10, <1>11 DEF Next, Terminated

\* A record that stands for the part of a match says what that part is.
LEMMA RecordIsPart ==
    ASSUME NEW lo \in Nat, NEW hi \in Nat, NEW r \in Record, NEW k, m[k] \in PlainMatch,
           Represents(r, k, lo, hi)
    PROVE  Plain(r) = LM!Clip(m[k], lo, hi)
<1> DEFINE x == m[k]
           from == IF x.src > lo THEN x.src ELSE lo
           to == IF EndOf(x) < hi THEN EndOf(x) ELSE hi
<1>1. x.src \in Nat /\ x.dest \in Nat /\ x.len \in Nat /\ EndOf(x) = x.src + x.len /\ EndOf(x) \in Nat
  BY DEF PlainMatch, EndOf
<1>2. r.at = from /\ r.at + r.len = to /\ r.off = x.dest - x.src /\ r.at \in Nat /\ r.len \in Nat
  BY DEF Represents, Record
<1> HIDE DEF x
<1>3. LM!Max({x.src, lo}) = from /\ LM!Min({x.src + x.len, hi}) = to
  BY <1>1, LargerOfTwo, SmallerOfTwo
<1> HIDE DEF from, to
<1>4. LM!Clip(x, lo, hi) = [src |-> from, dest |-> from + (x.dest - x.src), len |-> to - from]
  BY <1>3 DEF LM!Clip
<1>5. Plain(r) = [src |-> r.at, dest |-> r.at + r.off, len |-> r.len]
  BY DEF Plain
<1>6. to - from = r.len
  BY <1>2
<1> QED
  BY <1>2, <1>4, <1>5, <1>6 DEF x

\* Records for exactly the matches that touch a block, in their order, are its list.
LEMMA ListIs ==
    ASSUME Inv, ListInv, NEW l \in Seq(Record), NEW lo \in Nat, NEW hi \in Nat,
           OnlyParts(l, Len(m), lo, hi),
           \A k \in DOMAIN m : Touches(m[k], lo, hi) =>
                                   \E j \in DOMAIN l : Represents(l[j], k, lo, hi)
    PROVE  [j \in DOMAIN l |-> Plain(l[j])] =
               LM!FutureListOf({m[k] : k \in 1 .. Len(m) - 1}, lo, hi)
<1> DEFINE n == Len(l)
           M == 1 .. Len(m) - 1
           u == [j \in 1 .. n |-> m[l[j].of]]
           all == {m[k] : k \in M}
           S == {x \in all : LM!Touches(x, lo, hi)}
<1>1. TypeOK /\ MatchesOk
  BY DEF Inv
<1>2. /\ n \in Nat /\ DOMAIN l = 1 .. n
      /\ Len(m) \in Nat /\ DOMAIN m = 1 .. Len(m)
      /\ \A k \in M : k \in DOMAIN m /\ m[k] \in PlainMatch
  <2>1. m \in Seq(PlainMatch) /\ Len(m) \in Nat /\ DOMAIN m = 1 .. Len(m)
    BY <1>1 DEF TypeOK
  <2>2. n \in Nat /\ DOMAIN l = 1 .. n
    OBVIOUS
  <2>3. \A k \in M : k \in DOMAIN m /\ m[k] \in PlainMatch
    BY <2>1
  <2> QED
    BY <2>1, <2>2, <2>3
<1>3. \A j \in 1 .. n : /\ l[j].of \in M /\ u[j] = m[l[j].of]
                        /\ Touches(m[l[j].of], lo, hi)
                        /\ Represents(l[j], l[j].of, lo, hi)
  BY <1>2 DEF OnlyParts
<1> HIDE DEF n, M, u
<1>4. \A k \in M : LM!Touches(m[k], lo, hi) <=> Touches(m[k], lo, hi)
  BY DEF LM!Touches, Touches, EndOf
<1>5. \A j \in 1 .. n : u[j] \in PlainMatch
  BY <1>2, <1>3
<1>6. ASSUME NEW i \in 1 .. n, NEW j \in 1 .. n, i < j
      PROVE  LM!Earlier(u[i], u[j])
  <2>1. l[i].of < l[j].of
    BY <1>2, <1>6 DEF OnlyParts
  <2> QED
    BY <1>3, <2>1 DEF ListInv, StrictlySorted, M
<1>7. S = {u[j] : j \in 1 .. n}
  <2>1. ASSUME NEW x \in S PROVE x \in {u[j] : j \in 1 .. n}
    <3>1. PICK k \in M : x = m[k]
      BY <2>1
    <3>2. PICK j \in DOMAIN l : Represents(l[j], k, lo, hi)
      BY <1>2, <1>4, <2>1, <3>1
    <3>3. l[j].of = k /\ j \in 1 .. n
      BY <1>2, <3>2 DEF Represents
    <3> QED
      BY <1>3, <3>1, <3>3
  <2>2. ASSUME NEW j \in 1 .. n PROVE u[j] \in S
    BY <1>3, <1>4
  <2> HIDE DEF S
  <2> QED
    BY <2>1, <2>2
<1> HIDE DEF S
<1>8. LM!SourceOrder(S) = [j \in 1 .. n |-> u[j]]
  <2>1. n \in Nat
    BY <1>2
  <2> QED
    BY <1>5, <1>6, <1>7, <2>1, OrderIs
<1> DEFINE o == [j \in 1 .. n |-> u[j]]
<1>9. DOMAIN o = 1 .. n /\ \A j \in 1 .. n : o[j] = u[j]
  OBVIOUS
<1>10. LM!FutureListOf(all, lo, hi) = [j \in 1 .. n |-> LM!Clip(o[j], lo, hi)]
  <2> HIDE DEF all, o
  <2>1. LM!FutureListOf(all, lo, hi) =
          [j \in DOMAIN LM!SourceOrder(S) |-> LM!Clip(LM!SourceOrder(S)[j], lo, hi)]
    BY DEF LM!FutureListOf, S
  <2>2. LM!SourceOrder(S) = o
    BY <1>8 DEF o
  <2> QED
    BY <1>9, <2>1, <2>2
<1> HIDE DEF all, o
<1>11. ASSUME NEW j \in 1 .. n PROVE Plain(l[j]) = LM!Clip(u[j], lo, hi)
  <2>1. l[j].of \in M /\ m[l[j].of] \in PlainMatch /\ l[j] \in Record
    BY <1>2, <1>3
  <2> QED
    BY <1>3, <2>1, RecordIsPart
<1> QED
  BY <1>2, <1>9, <1>10, <1>11 DEF all, M

\* Pass 2 makes exactly the lists that LzMatches specifies and that the decoder's models
\* are run with: under each block the parts of all matches with source there, each once, in
\* the order of their sources, and no other (srep.cpp:722-800, compress.rs:240-292).
THEOREM ListsRight ==
    Spec => []ListsAsSpecified
<1>1. ASSUME Init PROVE ListInv
  BY <1>1, InitListInv
<1>2. ASSUME Inv, ListInv, [Next]_vars PROVE ListInv'
  BY <1>2, NextListInv
<1>3. ASSUME Inv, ListInv PROVE ListsAsSpecified
  <2> SUFFICES ASSUME NEW b \in DOMAIN output
               PROVE  PlainList(b) =
                          LM!FutureListOf({m[k] : k \in 1 .. Len(m) - 1}, output[b].lo, output[b].hi)
    BY DEF ListsAsSpecified
  <2>1. output[b].list \in Seq(Record) /\ output[b].lo \in Nat /\ output[b].hi \in Nat
    <3>1. output[b] \in Block
      BY <1>3 DEF Inv, TypeOK
    <3> QED
      BY <3>1 DEF Block
  <2>2. OnlyParts(output[b].list, Len(m), output[b].lo, output[b].hi)
    BY <1>3 DEF ListInv
  <2>3. \A k \in DOMAIN m : Touches(m[k], output[b].lo, output[b].hi) =>
            \E j \in DOMAIN output[b].list :
                Represents(output[b].list[j], k, output[b].lo, output[b].hi)
    BY <1>3 DEF Inv, EveryPartEncoded
  <2> QED
    BY <1>3, <2>1, <2>2, <2>3, ListIs DEF PlainList
<1> QED
  BY <1>1, <1>2, <1>3, SpecInv, PTL DEF Spec

-----------------------------------------------------------------------------
(* The memory announced.  Lists of matches, with the ends of their blocks;   *)
(* <<b, k>> names the k-th match of block b.                                 *)

Places(lists) == UNION {{<<b, k>> : k \in DOMAIN lists[b]} : b \in DOMAIN lists}

At(lists, x) == lists[x[1]][x[2]]

\* Memory is counted for nonempty matches in finite lists; block ends do not descend.
GoodLists(lists, ends) ==
    /\ Len(lists) \in Nat /\ DOMAIN lists = 1 .. Len(lists)
    /\ \A b \in DOMAIN lists : Len(lists[b]) \in Nat /\ DOMAIN lists[b] = 1 .. Len(lists[b])
    /\ \A x \in Places(lists) : /\ At(lists, x).dest \in Nat
                                /\ At(lists, x).len \in Nat \ {0}
    /\ \A b \in DOMAIN lists : ends[b] \in Nat
    /\ \A b, c \in DOMAIN lists : b <= c => ends[b] <= ends[c]

LEMMA PlacesAre ==
    ASSUME NEW lists, NEW ends, GoodLists(lists, ends)
    PROVE  /\ IsFiniteSet(Places(lists))
           /\ \A x \in Places(lists) : x[1] \in DOMAIN lists /\ x[2] \in DOMAIN lists[x[1]]
           /\ \A b \in DOMAIN lists : \A k \in DOMAIN lists[b] : <<b, k>> \in Places(lists)
<1> DEFINE InBlock(b) == {<<b, k>> : k \in DOMAIN lists[b]}
           n == Len(lists)
           all == {InBlock(b) : b \in 1 .. n}
<1>1. n \in Nat /\ DOMAIN lists = 1 .. n
  BY DEF GoodLists
<1>2. ASSUME NEW b \in 1 .. n PROVE IsFiniteSet(InBlock(b))
  <2> DEFINE I == DOMAIN lists[b]
             f == [k \in I |-> <<b, k>>]
  <2>1. IsFiniteSet(I)
    <3>1. Len(lists[b]) \in Nat /\ I = 1 .. Len(lists[b])
      BY <1>1 DEF GoodLists
    <3> HIDE DEF I
    <3> QED
      BY <3>1, FS_Interval
  <2>2. InBlock(b) = {f[k] : k \in I}
    OBVIOUS
  <2> HIDE DEF I, f, InBlock
  <2> QED
    BY <2>1, <2>2, FiniteImage
<1>3. IsFiniteSet(all)
  <2> DEFINE f == [b \in 1 .. n |-> InBlock(b)]
  <2>1. IsFiniteSet(1 .. n)
    BY <1>1, FS_Interval
  <2>2. all = {f[b] : b \in 1 .. n}
    OBVIOUS
  <2> HIDE DEF InBlock, n, f, all
  <2> QED
    BY <2>1, <2>2, FiniteImage
<1>4. IsFiniteSet(UNION all)
  <2>1. \A s \in all : IsFiniteSet(s)
    BY <1>2
  <2> HIDE DEF all
  <2> QED
    BY <1>3, <2>1, FS_UNION
<1>5. Places(lists) = UNION all
  BY <1>1 DEF Places
<1>6. \A x \in Places(lists) : x[1] \in DOMAIN lists /\ x[2] \in DOMAIN lists[x[1]]
  BY DEF Places
<1>7. \A b \in DOMAIN lists : \A k \in DOMAIN lists[b] : <<b, k>> \in Places(lists)
  BY DEF Places
<1> QED
  BY <1>4, <1>5, <1>6, <1>7

Weights(lists) == [x \in Places(lists) |-> Ram!NeedMem(At(lists, x).len)]

LEMMA NeedMemIs ==
    ASSUME NEW len \in Nat \ {0}
    PROVE  /\ Ram!NeedMem(len) \in Nat
           /\ Ram!NeedMem(len) = (len + ChunkPayload - 1) \div ChunkPayload
<1> DEFINE q == (len - 1) \div ChunkPayload
<1>1. ChunkPayload \in Nat \ {0}
  BY Pass2Assumption
<1>2. q \in Nat /\ q + 1 = (len + ChunkPayload - 1) \div ChunkPayload
  BY <1>1, RoundedUp
<1>3. Ram!NeedMem(len) = q + 1
  BY DEF Ram!NeedMem
<1> HIDE DEF q
<1> QED
  BY <1>2, <1>3

\* What the estimate adds or takes away for a set of places is its sum of weights.
LEMMA NeedMemOfIs ==
    ASSUME NEW lists, NEW ends, GoodLists(lists, ends),
           NEW g, Additive(g, Weights(lists), Places(lists)), NEW A \in SUBSET Places(lists)
    PROVE  Ram!NeedMemOf(lists, A) = g[A]
<1> DEFINE v == Weights(lists)
           Solves(iter) ==
              iter = [s \in SUBSET A |->
                        IF s = {} THEN 0
                        ELSE Ram!NeedMem(lists[(CHOOSE x \in s : TRUE)[1]][(CHOOSE x \in s : TRUE)[2]].len)
                             + iter[s \ {CHOOSE x \in s : TRUE}]]
<1>1. Ram!NeedMemOf(lists, A) = (CHOOSE iter : Solves(iter))[A]
  BY DEF Ram!NeedMemOf, Ram!MapThenSumSet, Ram!MapThenFoldSet
<1>2. ASSUME NEW iter PROVE Solves(iter) <=> IsSumOver(iter, v, A)
  <2> DEFINE f == [s \in SUBSET A |->
                     IF s = {} THEN 0
                     ELSE Ram!NeedMem(lists[(CHOOSE x \in s : TRUE)[1]][(CHOOSE x \in s : TRUE)[2]].len)
                          + iter[s \ {CHOOSE x \in s : TRUE}]]
             h == [s \in SUBSET A |-> IF s = {} THEN 0 ELSE v[AnyValue(s)] + iter[s \ {AnyValue(s)}]]
  <2>1. ASSUME NEW s \in SUBSET A, s # {}
        PROVE  v[AnyValue(s)] = Ram!NeedMem(lists[AnyValue(s)[1]][AnyValue(s)[2]].len)
    <3>1. AnyValue(s) \in Places(lists)
      BY <2>1 DEF AnyValue
    <3> QED
      BY <3>1 DEF Weights, At
  <2>2. \A s \in SUBSET A : f[s] = h[s]
    <3> SUFFICES ASSUME NEW s \in SUBSET A PROVE f[s] = h[s]
      OBVIOUS
    <3>1. CASE s = {}
      BY <3>1
    <3>2. CASE s # {}
      <4>1. f[s] = Ram!NeedMem(lists[AnyValue(s)[1]][AnyValue(s)[2]].len) + iter[s \ {AnyValue(s)}]
        BY <3>2 DEF AnyValue
      <4>2. h[s] = v[AnyValue(s)] + iter[s \ {AnyValue(s)}]
        BY <3>2
      <4> QED
        BY <2>1, <3>2, <4>1, <4>2
    <3> QED
      BY <3>1, <3>2
  <2>3. f = [s \in SUBSET A |-> f[s]] /\ h = [s \in SUBSET A |-> h[s]]
    OBVIOUS
  <2>4. (Solves(iter) <=> iter = f) /\ (IsSumOver(iter, v, A) <=> iter = h)
    BY DEF IsSumOver
  <2> HIDE DEF f, h, Solves
  <2>5. f = h
    BY <2>2, <2>3
  <2> QED
    BY <2>4, <2>5
<1> HIDE DEF Solves, v
<1>3. (\E iter : IsSumOver(iter, v, A)) /\ \A iter : IsSumOver(iter, v, A) => iter[A] = g[A]
  <2>1. IsFiniteSet(Places(lists))
    BY PlacesAre
  <2>2. Additive(g, v, Places(lists))
    BY DEF v
  <2> QED
    BY <2>1, <2>2, SumOver
<1>4. Solves(CHOOSE iter : Solves(iter))
  BY <1>2, <1>3
<1> QED
  BY <1>1, <1>2, <1>3, <1>4

\* What the heap of the estimate holds after block b.
DueAfter(lists, ends, b) ==
    {x \in Places(lists) : /\ x[1] <= b
                           /\ b > 0 => At(lists, x).dest >= ends[b]
                           /\ At(lists, x).len < MaximumSave}

\* One block of the estimate, from the heap before it.
Reached(lists, ends, b, pending) == {x \in pending : At(lists, x).dest < ends[b]}

Added(lists, ends, b) ==
    {<<b, k>> : k \in {j \in DOMAIN lists[b] : /\ lists[b][j].dest >= ends[b]
                                               /\ lists[b][j].len < MaximumSave}}

LEMMA RamAtBlockIs ==
    ASSUME NEW lists, NEW ends, GoodLists(lists, ends),
           NEW g, Additive(g, Weights(lists), Places(lists)),
           NEW b \in DOMAIN lists,
           NEW pending \in SUBSET Places(lists), NEW ram \in Int, NEW maxRam \in Int,
           NEW acc, acc.pending = pending, acc.ram = ram, acc.maxRam = maxRam
    PROVE  LET reached == Reached(lists, ends, b, pending)
               added == Added(lists, ends, b)
               now == ram - g[reached] + g[added]
           IN /\ reached \in SUBSET Places(lists) /\ g[reached] \in Nat
              /\ added \in SUBSET Places(lists) /\ g[added] \in Nat
              /\ Ram!RamAtBlock(acc, lists, b, ends[b], MaximumSave) =
                    [pending |-> (pending \ reached) \cup added, ram |-> now,
                     maxRam |-> IF now > maxRam THEN now ELSE maxRam]
<1> DEFINE reached == Reached(lists, ends, b, pending)
           added == Added(lists, ends, b)
<1>1. reached \in SUBSET Places(lists)
  BY DEF Reached
<1>2. added \in SUBSET Places(lists)
  BY PlacesAre DEF Added
<1>3. g[reached] \in Nat /\ g[added] \in Nat
  BY <1>1, <1>2 DEF Additive
<1>4. reached = {x \in acc.pending : lists[x[1]][x[2]].dest < ends[b]}
  BY DEF Reached, At
<1>5. added = {<<b, k>> : k \in {j \in DOMAIN lists[b] : /\ lists[b][j].dest >= ends[b]
                                                        /\ lists[b][j].len < MaximumSave}}
  BY DEF Added
<1> HIDE DEF reached, added
<1>6. Ram!NeedMemOf(lists, reached) = g[reached] /\ Ram!NeedMemOf(lists, added) = g[added]
  BY <1>1, <1>2, NeedMemOfIs
<1>7. Ram!RamAtBlock(acc, lists, b, ends[b], MaximumSave) =
        LET now == acc.ram - Ram!NeedMemOf(lists, reached) + Ram!NeedMemOf(lists, added)
        IN [pending |-> (acc.pending \ reached) \cup added, ram |-> now,
            maxRam |-> IF now > acc.maxRam THEN now ELSE acc.maxRam]
  BY <1>4, <1>5 DEF Ram!RamAtBlock
<1>8. Ram!RamAtBlock(acc, lists, b, ends[b], MaximumSave) =
        LET now == ram - g[reached] + g[added]
        IN [pending |-> (pending \ reached) \cup added, ram |-> now,
            maxRam |-> IF now > maxRam THEN now ELSE maxRam]
  BY <1>6, <1>7
<1> QED
  BY <1>1, <1>2, <1>3, <1>8 DEF reached, added

\* The heap holds what is due after the block, and the memory is its sum.
LEMMA DueStep ==
    ASSUME NEW lists, NEW ends, GoodLists(lists, ends),
           NEW g, Additive(g, Weights(lists), Places(lists)),
           NEW b \in DOMAIN lists
    PROVE  LET before == DueAfter(lists, ends, b - 1)
               due == DueAfter(lists, ends, b)
               reached == Reached(lists, ends, b, before)
               added == Added(lists, ends, b)
           IN /\ due = (before \ reached) \cup added
              /\ g[due] = g[before] - g[reached] + g[added]
              /\ g[due] \in Nat
<1> DEFINE P == Places(lists)
           before == DueAfter(lists, ends, b - 1)
           due == DueAfter(lists, ends, b)
           reached == Reached(lists, ends, b, before)
           added == Added(lists, ends, b)
           rest == before \ reached
<1>1. /\ DOMAIN lists = 1 .. Len(lists) /\ Len(lists) \in Nat
      /\ \A c \in DOMAIN lists : ends[c] \in Nat
      /\ \A c \in DOMAIN lists : c <= b => ends[c] <= ends[b]
  BY DEF GoodLists
<1>2. \A x \in P : /\ x[1] \in DOMAIN lists /\ x[2] \in DOMAIN lists[x[1]]
                   /\ At(lists, x).dest \in Nat /\ At(lists, x).len \in Nat
  BY PlacesAre DEF GoodLists
<1>3. before \in SUBSET P /\ due \in SUBSET P /\ reached \in SUBSET before
  BY DEF DueAfter, Reached
<1>4. added = {x \in P : x[1] = b /\ At(lists, x).dest >= ends[b] /\ At(lists, x).len < MaximumSave}
  <2>1. ASSUME NEW x \in added
        PROVE  x \in P /\ x[1] = b /\ At(lists, x).dest >= ends[b] /\ At(lists, x).len < MaximumSave
    <3>1. PICK k \in DOMAIN lists[b] : /\ x = <<b, k>>
                                       /\ lists[b][k].dest >= ends[b] /\ lists[b][k].len < MaximumSave
      BY DEF Added
    <3> QED
      BY <3>1, PlacesAre DEF At
  <2>2. ASSUME NEW x \in P, x[1] = b, At(lists, x).dest >= ends[b], At(lists, x).len < MaximumSave
        PROVE  x \in added
    <3>1. PICK c \in DOMAIN lists : \E k \in DOMAIN lists[c] : x = <<c, k>>
      BY DEF Places
    <3>2. PICK k \in DOMAIN lists[c] : x = <<c, k>>
      BY <3>1
    <3>3. c = b /\ x = <<b, k>> /\ k \in DOMAIN lists[b] /\ At(lists, x) = lists[b][k]
      BY <2>2, <3>2 DEF At
    <3> QED
      BY <2>2, <3>3 DEF Added
  <2> QED
    BY <2>1, <2>2
<1>5. ASSUME NEW x \in P
      PROVE  x \in rest <=> /\ x[1] <= b - 1 /\ At(lists, x).dest >= ends[b]
                            /\ At(lists, x).len < MaximumSave
  <2>1. x[1] \in DOMAIN lists /\ At(lists, x).dest \in Nat
    BY <1>2
  <2> DEFINE dest == At(lists, x).dest
             short == At(lists, x).len < MaximumSave
             first == x[1]
  <2>2. x \in before <=> first <= b - 1 /\ (b - 1 > 0 => dest >= ends[b - 1]) /\ short
    BY DEF DueAfter
  <2>3. x \in reached <=> x \in before /\ dest < ends[b]
    BY DEF Reached
  <2>4. x \in rest <=> x \in before /\ ~ (dest < ends[b])
    BY <2>3
  <2>5. first \in 1 .. Len(lists) /\ dest \in Nat /\ b \in 1 .. Len(lists) /\ ends[b] \in Nat
    BY <1>1, <2>1
  <2>6. b - 1 > 0 => ends[b - 1] \in Nat /\ ends[b - 1] <= ends[b]
    <3> SUFFICES ASSUME b - 1 > 0 PROVE ends[b - 1] \in Nat /\ ends[b - 1] <= ends[b]
      OBVIOUS
    <3>1. b - 1 \in DOMAIN lists /\ b - 1 <= b
      BY <1>1
    <3> QED
      BY <1>1, <3>1
  <2> HIDE DEF dest, short, first, before, reached, rest
  <2>7. x \in rest <=> first <= b - 1 /\ dest >= ends[b] /\ short
    BY <1>1, <2>2, <2>4, <2>5, <2>6
  <2> QED
    BY <2>7 DEF dest, short, first
<1>6. ASSUME NEW x \in P
      PROVE  x \in due <=> /\ x[1] <= b /\ At(lists, x).dest >= ends[b]
                           /\ At(lists, x).len < MaximumSave
  <2>1. b > 0
    BY <1>1
  <2> QED
    BY <2>1 DEF DueAfter
<1> DEFINE first == [x \in P |-> x[1]]
<1>7. \A x \in P : first[x] = x[1] /\ first[x] \in Nat
  BY <1>1, <1>2
<1>8. b \in Nat
  BY <1>1
<1> HIDE DEF P, before, due, reached, added, rest, first
<1>9. due = rest \cup added /\ rest \cap added = {} /\ rest \in SUBSET P /\ added \in SUBSET P
  <2>1. rest \in SUBSET P /\ added \in SUBSET P
    BY <1>3, <1>4 DEF rest
  <2>2. ASSUME NEW x \in P PROVE /\ x \in due <=> x \in rest \/ x \in added
                                 /\ ~ (x \in rest /\ x \in added)
    <3>1. x[1] \in Nat
      BY <1>7
    <3>2. (x[1] <= b <=> x[1] <= b - 1 \/ x[1] = b) /\ ~ (x[1] <= b - 1 /\ x[1] = b)
      BY <1>8, <3>1
    <3> QED
      BY <1>4, <1>5, <1>6, <3>2
  <2> QED
    BY <1>3, <2>1, <2>2
<1>10. before = rest \cup reached /\ rest \cap reached = {} /\ reached \in SUBSET P
  BY <1>3 DEF rest
<1>11. Additive(g, Weights(lists), P) /\ IsFiniteSet(P)
  BY PlacesAre DEF P
<1>12. \A x \in P : Weights(lists)[x] \in Nat
  <2>1. \A x \in P : At(lists, x).len \in Nat \ {0}
    BY DEF P, GoodLists
  <2> QED
    BY <2>1, NeedMemIs DEF P, Weights
<1>13. g[due] = g[rest] + g[added]
  BY <1>9, <1>11, <1>12, SumOfUnion
<1>14. g[before] = g[rest] + g[reached]
  BY <1>9, <1>10, <1>11, <1>12, SumOfUnion
<1>15. g[rest] \in Nat /\ g[reached] \in Nat /\ g[added] \in Nat
  BY <1>9, <1>10, <1>11 DEF Additive
<1>16. g[due] = g[before] - g[reached] + g[added] /\ g[due] \in Nat
  BY <1>13, <1>14, <1>15
<1> QED
  BY <1>9, <1>16 DEF before, due, reached, added, rest

\* a follows the blocks from an empty heap.
Follows(a, lists, ends) ==
    a = [b \in 0 .. Len(lists) |->
            IF b = 0 THEN [pending |-> {}, ram |-> 0, maxRam |-> 0]
            ELSE Ram!RamAtBlock(a[b - 1], lists, b, ends[b], MaximumSave)]

LEMMA FollowsExists ==
    ASSUME NEW lists, NEW ends, GoodLists(lists, ends),
           NEW g, Additive(g, Weights(lists), Places(lists))
    PROVE  \E a : Follows(a, lists, ends)
<1> DEFINE n == Len(lists)
           S == [pending : SUBSET Places(lists), ram : Int, maxRam : Int]
           c == [pending |-> {}, ram |-> 0, maxRam |-> 0]
           step == [b \in 1 .. n |-> [acc \in S |-> Ram!RamAtBlock(acc, lists, b, ends[b], MaximumSave)]]
<1>1. n \in Nat /\ DOMAIN lists = 1 .. n
  BY DEF GoodLists
<1>2. ASSUME NEW b \in 1 .. n, NEW acc \in S
      PROVE  Ram!RamAtBlock(acc, lists, b, ends[b], MaximumSave) \in S
  <2> DEFINE pending == acc.pending
             ram == acc.ram
             maxRam == acc.maxRam
             reached == Reached(lists, ends, b, pending)
             added == Added(lists, ends, b)
             now == ram - g[reached] + g[added]
  <2>1. pending \in SUBSET Places(lists) /\ ram \in Int /\ maxRam \in Int /\ b \in DOMAIN lists
    BY <1>1
  <2> HIDE DEF pending, ram, maxRam
  <2>2. /\ reached \in SUBSET Places(lists) /\ g[reached] \in Nat
        /\ added \in SUBSET Places(lists) /\ g[added] \in Nat
        /\ Ram!RamAtBlock(acc, lists, b, ends[b], MaximumSave) =
              [pending |-> (pending \ reached) \cup added, ram |-> now,
               maxRam |-> IF now > maxRam THEN now ELSE maxRam]
    BY <2>1, RamAtBlockIs DEF pending, ram, maxRam
  <2> HIDE DEF reached, added
  <2>3. now \in Int
    <3> DEFINE gr == g[reached]
               ga == g[added]
    <3>1. gr \in Nat /\ ga \in Nat /\ now = ram - gr + ga
      BY <2>2
    <3> HIDE DEF gr, ga, now
    <3> QED
      BY <2>1, <3>1
  <2> HIDE DEF now
  <2>4. (pending \ reached) \cup added \in SUBSET Places(lists)
    BY <2>1, <2>2
  <2> QED
    BY <2>1, <2>2, <2>3, <2>4
<1>3. c \in S
  OBVIOUS
<1>4. step \in [1 .. n -> [S -> S]]
  BY <1>2
<1>5. \A b \in 1 .. n, acc \in S : step[b][acc] = Ram!RamAtBlock(acc, lists, b, ends[b], MaximumSave)
  OBVIOUS
<1> HIDE DEF S, c, step
<1>6. PICK a : IsRecursion(a, step, n, S, c)
  BY <1>1, <1>3, <1>4, RecursionExists DEF AreSteps
<1>7. a \in [0 .. n -> S] /\ a[0] = c /\ \A b \in 1 .. n : a[b] = step[b][a[b - 1]]
  BY <1>6 DEF IsRecursion
<1> DEFINE f == [b \in 0 .. n |->
                    IF b = 0 THEN c
                    ELSE Ram!RamAtBlock(a[b - 1], lists, b, ends[b], MaximumSave)]
<1>8. \A b \in 0 .. n : a[b] = f[b]
  <2> SUFFICES ASSUME NEW b \in 0 .. n PROVE a[b] = f[b]
    OBVIOUS
  <2>1. CASE b = 0
    BY <1>7, <2>1
  <2>2. CASE b # 0
    <3>1. b \in 1 .. n /\ b - 1 \in 0 .. n
      BY <1>1, <2>2
    <3>2. a[b] = step[b][a[b - 1]] /\ a[b - 1] \in S
      BY <1>7, <3>1
    <3>3. a[b] = Ram!RamAtBlock(a[b - 1], lists, b, ends[b], MaximumSave)
      BY <1>5, <3>1, <3>2
    <3>4. f[b] = Ram!RamAtBlock(a[b - 1], lists, b, ends[b], MaximumSave)
      BY <2>2
    <3> QED
      BY <3>3, <3>4
  <2> QED
    BY <2>1, <2>2
<1>9. f = [b \in 0 .. n |-> f[b]] /\ a = [b \in 0 .. n |-> a[b]]
  BY <1>7
<1> HIDE DEF f
<1>10. a = f
  BY <1>8, <1>9
<1>11. Follows(a, lists, ends)
  BY <1>10 DEF Follows, f, n, c
<1> QED
  BY <1>11

LEMMA MaxRamIs ==
    ASSUME NEW lists, NEW ends, GoodLists(lists, ends),
           NEW g, Additive(g, Weights(lists), Places(lists))
    PROVE  \E a : Follows(a, lists, ends) /\ Ram!MaxRam(lists, ends, MaximumSave) = a[Len(lists)].maxRam
<1> DEFINE a == CHOOSE after : Follows(after, lists, ends)
<1>1. Follows(a, lists, ends)
  BY FollowsExists
<1>2. Ram!MaxRam(lists, ends, MaximumSave) = a[Len(lists)].maxRam
  BY DEF Ram!MaxRam, Follows
<1> QED
  BY <1>1, <1>2

\* After each block the memory is the sum over the heap, and maxRam the largest so far.
LEMMA FollowsDue ==
    ASSUME NEW lists, NEW ends, GoodLists(lists, ends),
           NEW g, Additive(g, Weights(lists), Places(lists)),
           NEW a, Follows(a, lists, ends), NEW b \in 0 .. Len(lists)
    PROVE  /\ a[b].pending = DueAfter(lists, ends, b)
           /\ a[b].ram = g[DueAfter(lists, ends, b)]
           /\ a[b].maxRam \in Nat
           /\ \A c \in 1 .. b : g[DueAfter(lists, ends, c)] <= a[b].maxRam
           /\ b = 0 => a[b].maxRam = 0
           /\ b > 0 => \E c \in 1 .. b : a[b].maxRam = g[DueAfter(lists, ends, c)]
<1> DEFINE n == Len(lists)
           D(x) == DueAfter(lists, ends, x)
           Good(x) == /\ a[x].pending = D(x)
                      /\ a[x].ram = g[D(x)]
                      /\ a[x].maxRam \in Nat
                      /\ \A c \in 1 .. x : g[D(c)] <= a[x].maxRam
                      /\ x = 0 => a[x].maxRam = 0
                      /\ x > 0 => \E c \in 1 .. x : a[x].maxRam = g[D(c)]
           T == {x \in 0 .. n : Good(x)}
<1>1. n \in Nat /\ DOMAIN lists = 1 .. n
  BY DEF GoodLists
<1>2. /\ a[0] = [pending |-> {}, ram |-> 0, maxRam |-> 0]
      /\ \A x \in 1 .. n : a[x] = Ram!RamAtBlock(a[x - 1], lists, x, ends[x], MaximumSave)
  <2> DEFINE F(x) == IF x = 0 THEN [pending |-> {}, ram |-> 0, maxRam |-> 0]
                     ELSE Ram!RamAtBlock(a[x - 1], lists, x, ends[x], MaximumSave)
  <2>1. a = [x \in 0 .. n |-> F(x)]
    BY DEF Follows
  <2> HIDE DEF F
  <2>2. \A x \in 0 .. n : a[x] = F(x)
    BY <2>1
  <2>3. 0 \in 0 .. n /\ \A x \in 1 .. n : x \in 0 .. n /\ x # 0
    BY <1>1
  <2> QED
    BY <2>2, <2>3 DEF F
<1>3. 0 \in T
  <2>1. D(0) = {}
    <3>1. \A x \in Places(lists) : x[1] \in 1 .. n
      BY <1>1, PlacesAre
    <3> QED
      BY <1>1, <3>1 DEF DueAfter
  <2>2. g[{}] = 0
    BY DEF Additive
  <2> HIDE DEF D
  <2>3. a[0].pending = {} /\ a[0].ram = 0 /\ a[0].maxRam = 0
    BY <1>2
  <2>4. 0 \in Nat /\ 1 .. 0 = {} /\ ~ (0 > 0)
    OBVIOUS
  <2>5. Good(0)
    BY <2>1, <2>2, <2>3, <2>4, Zenon
  <2> HIDE DEF Good
  <2> QED
    BY <1>1, <2>5
<1>4. ASSUME NEW x \in 0 .. n - 1, x \in T PROVE x + 1 \in T
  <2> DEFINE y == x + 1
             acc == a[x]
             before == D(x)
             due == D(y)
             reached == Reached(lists, ends, y, before)
             added == Added(lists, ends, y)
             top == acc.maxRam
  <2>1. y \in 1 .. n /\ y \in DOMAIN lists /\ y - 1 = x
    BY <1>1
  <2>2. Good(x)
    BY <1>4
  <2>3. /\ due = (before \ reached) \cup added
        /\ g[due] = g[before] - g[reached] + g[added]
        /\ g[due] \in Nat
    BY <2>1, DueStep
  <2>4. before \in SUBSET Places(lists) /\ g[before] \in Int
    <3>1. before \in SUBSET Places(lists)
      BY DEF DueAfter
    <3> HIDE DEF before
    <3> QED
      BY <3>1 DEF Additive
  <2>5. acc.pending = before /\ acc.ram = g[before] /\ acc.maxRam = top /\ top \in Int
    BY <2>2
  <2>6. Ram!RamAtBlock(acc, lists, y, ends[y], MaximumSave) =
          LET now == g[before] - g[reached] + g[added]
          IN [pending |-> (before \ reached) \cup added, ram |-> now,
              maxRam |-> IF now > top THEN now ELSE top]
    <3> DEFINE ram == g[before]
    <3>1. /\ y \in DOMAIN lists /\ before \in SUBSET Places(lists) /\ ram \in Int /\ top \in Int
          /\ acc.pending = before /\ acc.ram = ram /\ acc.maxRam = top
      BY <2>1, <2>4, <2>5
    <3> HIDE DEF before, top, acc, y, ram
    <3>2. /\ reached \in SUBSET Places(lists) /\ g[reached] \in Nat
          /\ added \in SUBSET Places(lists) /\ g[added] \in Nat
          /\ Ram!RamAtBlock(acc, lists, y, ends[y], MaximumSave) =
                [pending |-> (before \ reached) \cup added, ram |-> ram - g[reached] + g[added],
                 maxRam |-> IF ram - g[reached] + g[added] > top
                            THEN ram - g[reached] + g[added] ELSE top]
      BY <3>1, RamAtBlockIs
    <3> QED
      BY <3>2 DEF ram
  <2>7. a[y] = Ram!RamAtBlock(acc, lists, y, ends[y], MaximumSave)
    BY <1>2, <2>1
  <2> HIDE DEF before, due, reached, added, top, acc, y
  <2>8. a[y] = [pending |-> due, ram |-> g[due], maxRam |-> IF g[due] > top THEN g[due] ELSE top]
    BY <2>3, <2>6, <2>7
  <2>9. a[y].pending = due /\ a[y].ram = g[due] /\ a[y].maxRam = IF g[due] > top THEN g[due] ELSE top
    BY <2>8
  <2>10. /\ top \in Nat
         /\ \A c \in 1 .. x : g[D(c)] <= top
         /\ x = 0 => top = 0
         /\ x > 0 => \E c \in 1 .. x : top = g[D(c)]
    BY <2>2 DEF top, acc
  <2>11. due = D(y) /\ y = x + 1 /\ x \in Nat
    BY DEF due, y
  <2> HIDE DEF D
  <2>12. a[y].maxRam \in Nat
    BY <2>3, <2>9, <2>10
  <2>13. \A c \in 1 .. y : g[D(c)] <= a[y].maxRam
    <3> SUFFICES ASSUME NEW c \in 1 .. y PROVE g[D(c)] <= a[y].maxRam
      OBVIOUS
    <3>1. CASE c = y
      <4> DEFINE now == g[due]
      <4>1. now \in Nat /\ a[y].maxRam = (IF now > top THEN now ELSE top) /\ g[D(c)] = now
        BY <2>3, <2>9, <2>11, <3>1
      <4> HIDE DEF now
      <4> QED
        BY <2>10, <4>1
    <3>2. CASE c # y
      <4>1. c \in 1 .. x
        BY <2>11, <3>2
      <4>2. g[D(c)] <= top /\ g[D(c)] \in Nat
        <5>1. D(c) \in SUBSET Places(lists)
          BY DEF D, DueAfter
        <5>2. g[D(c)] \in Nat
          BY <5>1 DEF Additive
        <5> QED
          BY <2>10, <4>1, <5>2
      <4> QED
        BY <2>3, <2>9, <2>10, <4>2
    <3> QED
      BY <3>1, <3>2
  <2>14. \E c \in 1 .. y : a[y].maxRam = g[D(c)]
    <3>1. CASE g[due] > top
      BY <2>1, <2>9, <2>11, <3>1
    <3>2. CASE ~ (g[due] > top) /\ x = 0
      <4>1. g[due] = 0 /\ top = 0
        BY <2>3, <2>10, <3>2
      <4> QED
        BY <2>1, <2>9, <2>11, <3>2, <4>1
    <3>3. CASE ~ (g[due] > top) /\ x > 0
      <4>1. PICK c \in 1 .. x : top = g[D(c)]
        BY <2>10, <3>3
      <4>2. c \in 1 .. y
        BY <2>11
      <4> QED
        BY <2>9, <3>3, <4>1, <4>2
    <3> QED
      BY <2>11, <3>1, <3>2, <3>3
  <2>15. Good(y)
    BY <2>1, <2>9, <2>11, <2>12, <2>13, <2>14
  <2> HIDE DEF Good
  <2> QED
    BY <2>1, <2>11, <2>15
<1> HIDE DEF T
<1>5. 0 .. n \subseteq T
  BY <1>1, <1>3, <1>4, InductionUpTo
<1>6. b \in T
  BY <1>5
<1> QED
  BY <1>6 DEF T

\* The memory announced is the largest sum after any block.
LEMMA PeakIs ==
    ASSUME NEW lists, NEW ends, GoodLists(lists, ends),
           NEW g, Additive(g, Weights(lists), Places(lists)), DOMAIN lists # {}
    PROVE  LET peak == Ram!MaxRam(lists, ends, MaximumSave)
           IN /\ peak \in Nat
              /\ \A b \in DOMAIN lists : g[DueAfter(lists, ends, b)] <= peak
              /\ \E b \in DOMAIN lists : g[DueAfter(lists, ends, b)] = peak
<1> DEFINE n == Len(lists)
<1>1. n \in Nat /\ DOMAIN lists = 1 .. n /\ n > 0 /\ n \in 0 .. n
  BY DEF GoodLists
<1>2. PICK a : Follows(a, lists, ends) /\ Ram!MaxRam(lists, ends, MaximumSave) = a[n].maxRam
  BY MaxRamIs
<1>3. /\ a[n].maxRam \in Nat
      /\ \A c \in 1 .. n : g[DueAfter(lists, ends, c)] <= a[n].maxRam
      /\ n > 0 => \E c \in 1 .. n : a[n].maxRam = g[DueAfter(lists, ends, c)]
  BY <1>1, <1>2, FollowsDue
<1> QED
  BY <1>1, <1>2, <1>3

\* Blocks follow each other, and the last one ends where the scan is.
BlockInv ==
    /\ \A b \in DOMAIN output : output[b].hi <= blockStart
    /\ \A b, c \in DOMAIN output : b <= c => output[b].hi <= output[c].hi
    /\ blockStart > 0 => DOMAIN output # {}
    /\ pc = "done" => blockStart >= OrigSize

LEMMA NextBlockInv ==
    ASSUME Inv, BlockInv, [Next]_vars
    PROVE  BlockInv'
<1>1. TypeOK /\ OrigSize \in Nat /\ BufSize \in Nat \ {0}
  BY Pass2Assumption DEF Inv
<1>2. CASE StartBlock \/ SkipEnded \/ EncodeMatch \/ Terminated \/ UNCHANGED vars
  <2>1. UNCHANGED <<output, blockStart>> /\ (pc' = "done" => pc = "done")
    BY <1>2 DEF StartBlock, SkipEnded, EncodeMatch, Terminated, vars
  <2> QED
    BY <2>1 DEF BlockInv
<1>3. CASE Finish
  <2>1. UNCHANGED <<output, blockStart>> /\ ~ (blockStart < OrigSize)
    BY <1>3 DEF Finish, MoreInput
  <2> QED
    BY <1>1, <2>1 DEF BlockInv, TypeOK
<1>4. CASE EndBlock
  <2> DEFINE b0 == [lo |-> blockStart, hi |-> BlockEnd, list |-> list]
             n == Len(output)
             out == Append(output, b0)
  <2>1. output' = out /\ pc' = "block" /\ blockStart' = BlockEnd
    BY <1>4 DEF EndBlock
  <2>2. b0.hi = BlockEnd /\ b0 \in Block /\ BlockEnd \in Nat /\ blockStart <= BlockEnd
    BY <1>1, MatchFacts DEF TypeOK, Block, BlockEnd
  <2>3. output \in Seq(Block) /\ n \in Nat /\ DOMAIN output = 1 .. n
    BY <1>1 DEF TypeOK
  <2> HIDE DEF b0
  <2>4. DOMAIN out = 1 .. n + 1 /\ out[n + 1] = b0 /\ \A b \in 1 .. n : out[b] = output[b]
    BY <2>2, <2>3
  <2> HIDE DEF out, n
  <2>5. \A b \in 1 .. n : output[b].hi <= blockStart /\ output[b].hi \in Nat
    <3>1. \A b \in 1 .. n : output[b] \in Block
      BY <2>3
    <3> QED
      BY <2>3, <3>1 DEF BlockInv, Block
  <2>6. blockStart \in Nat
    BY <1>1 DEF TypeOK
  <2>7. \A b \in 1 .. n + 1 : out[b].hi <= BlockEnd
    <3> SUFFICES ASSUME NEW b \in 1 .. n + 1 PROVE out[b].hi <= BlockEnd
      OBVIOUS
    <3>1. CASE b = n + 1
      BY <2>2, <2>4, <3>1
    <3>2. CASE b # n + 1
      <4>1. b \in 1 .. n
        BY <2>3, <3>2
      <4> QED
        BY <2>2, <2>4, <2>5, <2>6, <4>1
    <3> QED
      BY <3>1, <3>2
  <2>8. ASSUME NEW b \in 1 .. n + 1, NEW c \in 1 .. n + 1, b <= c
        PROVE  out[b].hi <= out[c].hi
    <3>1. CASE c = n + 1
      BY <2>2, <2>4, <2>7, <3>1
    <3>2. CASE c # n + 1
      <4>1. b \in 1 .. n /\ c \in 1 .. n
        BY <2>3, <2>8, <3>2
      <4>2. output[b].hi <= output[c].hi
        BY <2>3, <2>8, <4>1 DEF BlockInv
      <4> QED
        BY <2>4, <4>1, <4>2
    <3> QED
      BY <3>1, <3>2
  <2>9. n + 1 \in DOMAIN out
    BY <2>3, <2>4
  <2> QED
    BY <2>1, <2>4, <2>7, <2>8, <2>9 DEF BlockInv
<1> QED
  BY <1>2, <1>3, <1>4 DEF Next

PlainLists == [b \in DOMAIN output |-> PlainList(b)]
Ends == [b \in DOMAIN output |-> output[b].hi]

LEMMA OutputIs ==
    ASSUME Inv, ListInv
    PROVE  /\ Len(output) \in Nat /\ DOMAIN output = 1 .. Len(output)
           /\ Len(m) \in Nat /\ DOMAIN m = 1 .. Len(m)
           /\ \A k \in DOMAIN m : m[k] \in PlainMatch
           /\ \A b \in DOMAIN output :
                 /\ output[b].lo \in Nat /\ output[b].hi \in Nat
                 /\ Len(output[b].list) \in Nat /\ DOMAIN output[b].list = 1 .. Len(output[b].list)
                 /\ \A j \in DOMAIN output[b].list :
                       LET r == output[b].list[j]
                       IN /\ r \in Record
                          /\ r.of \in 1 .. Len(m) - 1 /\ m[r.of] \in PlainMatch
                          /\ Touches(m[r.of], output[b].lo, output[b].hi)
                          /\ Represents(r, r.of, output[b].lo, output[b].hi)
                          /\ Plain(r) = LM!Clip(m[r.of], output[b].lo, output[b].hi)
<1>1. output \in Seq(Block) /\ m \in Seq(PlainMatch)
  BY DEF Inv, TypeOK
<1>2. /\ Len(output) \in Nat /\ DOMAIN output = 1 .. Len(output)
      /\ Len(m) \in Nat /\ DOMAIN m = 1 .. Len(m)
      /\ \A k \in DOMAIN m : m[k] \in PlainMatch
  BY <1>1
<1>3. ASSUME NEW b \in DOMAIN output
      PROVE  output[b].lo \in Nat /\ output[b].hi \in Nat /\ output[b].list \in Seq(Record)
  <2>1. output[b] \in Block
    BY <1>1, <1>3
  <2> QED
    BY <2>1 DEF Block
<1>4. ASSUME NEW b \in DOMAIN output
      PROVE  /\ Len(output[b].list) \in Nat /\ DOMAIN output[b].list = 1 .. Len(output[b].list)
             /\ \A j \in DOMAIN output[b].list : output[b].list[j] \in Record
  BY <1>3
<1>5. ASSUME NEW b \in DOMAIN output, NEW j \in DOMAIN output[b].list, NEW r, r = output[b].list[j]
      PROVE  /\ r \in Record
             /\ r.of \in 1 .. Len(m) - 1 /\ m[r.of] \in PlainMatch
             /\ Touches(m[r.of], output[b].lo, output[b].hi)
             /\ Represents(r, r.of, output[b].lo, output[b].hi)
             /\ Plain(r) = LM!Clip(m[r.of], output[b].lo, output[b].hi)
  <2>1. OnlyParts(output[b].list, Len(m), output[b].lo, output[b].hi)
    BY DEF ListInv
  <2>2. /\ r.of \in 1 .. Len(m) - 1
        /\ Touches(m[r.of], output[b].lo, output[b].hi)
        /\ Represents(r, r.of, output[b].lo, output[b].hi)
    BY <1>5, <2>1 DEF OnlyParts
  <2>3. r \in Record
    BY <1>4, <1>5
  <2>4. m[r.of] \in PlainMatch
    BY <1>2, <2>2
  <2> QED
    BY <1>3, <2>2, <2>3, <2>4, RecordIsPart
<1> QED
  BY <1>2, <1>3, <1>4, <1>5

LEMMA ListsAreGood ==
    ASSUME Inv, ListInv, BlockInv
    PROVE  /\ GoodLists(PlainLists, Ends)
           /\ DOMAIN PlainLists = DOMAIN output
           /\ \A b \in DOMAIN output :
                 /\ DOMAIN PlainLists[b] = DOMAIN output[b].list
                 /\ Ends[b] = output[b].hi
                 /\ \A j \in DOMAIN output[b].list : PlainLists[b][j] = Plain(output[b].list[j])
<1>1. \A b \in DOMAIN output : PlainLists[b] = PlainList(b) /\ Ends[b] = output[b].hi
  BY DEF PlainLists, Ends
<1>2. ASSUME NEW b \in DOMAIN output
      PROVE  /\ DOMAIN PlainList(b) = DOMAIN output[b].list
             /\ \A j \in DOMAIN output[b].list : PlainList(b)[j] = Plain(output[b].list[j])
             /\ Len(PlainList(b)) = Len(output[b].list)
  <2>1. Len(output[b].list) \in Nat /\ DOMAIN output[b].list = 1 .. Len(output[b].list)
    BY OutputIs
  <2>2. PlainList(b) = [j \in 1 .. Len(output[b].list) |-> Plain(output[b].list[j])]
    BY <2>1 DEF PlainList
  <2> DEFINE n == Len(output[b].list)
             l == [j \in 1 .. n |-> Plain(output[b].list[j])]
  <2>3. n \in Nat /\ DOMAIN output[b].list = 1 .. n
    BY <2>1
  <2> HIDE DEF n
  <2>4. DOMAIN l = 1 .. n /\ Len(l) = n /\ \A j \in 1 .. n : l[j] = Plain(output[b].list[j])
    BY <2>3
  <2>5. PlainList(b) = l
    BY <2>2 DEF n
  <2> HIDE DEF l
  <2> QED
    BY <2>3, <2>4, <2>5 DEF n
<1>3. DOMAIN PlainLists = DOMAIN output /\ Len(PlainLists) = Len(output)
  <2> DEFINE n == Len(output)
  <2>1. n \in Nat /\ DOMAIN output = 1 .. n
    BY OutputIs
  <2> HIDE DEF n
  <2>2. PlainLists = [b \in 1 .. n |-> PlainList(b)]
    BY <2>1 DEF PlainLists
  <2>3. DOMAIN PlainLists = 1 .. n /\ Len(PlainLists) = n
    BY <2>1, <2>2
  <2> QED
    BY <2>1, <2>3 DEF n
<1>4. ASSUME NEW x \in Places(PlainLists)
      PROVE  At(PlainLists, x).dest \in Nat /\ At(PlainLists, x).len \in Nat \ {0}
  <2>1. PICK b \in DOMAIN output : \E j \in DOMAIN PlainLists[b] : x = <<b, j>>
    BY <1>3 DEF Places
  <2>2. PICK j \in DOMAIN PlainLists[b] : x = <<b, j>>
    BY <2>1
  <2> DEFINE r == output[b].list[j]
  <2>3. At(PlainLists, x) = Plain(r) /\ j \in DOMAIN output[b].list
    BY <1>1, <1>2, <2>2 DEF At
  <2>4. r \in Record /\ m[r.of] \in PlainMatch /\ Represents(r, r.of, output[b].lo, output[b].hi)
    BY <2>3, OutputIs
  <2> HIDE DEF r
  <2>5. r.at \in Nat /\ r.off \in Nat /\ r.len \in Nat \ {0}
    BY <2>4 DEF Record
  <2> QED
    BY <2>3, <2>5 DEF Plain
<1>5. GoodLists(PlainLists, Ends)
  <2>1. Len(PlainLists) \in Nat /\ DOMAIN PlainLists = 1 .. Len(PlainLists)
    BY <1>3, OutputIs
  <2>2. ASSUME NEW b \in DOMAIN PlainLists
        PROVE  /\ Len(PlainLists[b]) \in Nat /\ DOMAIN PlainLists[b] = 1 .. Len(PlainLists[b])
               /\ Ends[b] \in Nat
    BY <1>1, <1>2, <1>3, <2>2, OutputIs
  <2>3. \A b, c \in DOMAIN PlainLists : b <= c => Ends[b] <= Ends[c]
    BY <1>1, <1>3 DEF BlockInv
  <2> QED
    BY <1>4, <2>1, <2>2, <2>3 DEF GoodLists
<1> QED
  BY <1>1, <1>2, <1>3, <1>5

\* Every part of a match, by match and block.
Parts == {x \in (1 .. Len(m) - 1) \X DOMAIN output :
             Touches(m[x[1]], output[x[2]].lo, output[x[2]].hi)}

PartWeights == [x \in Parts |-> (Part(x).len + ChunkPayload - 1) \div ChunkPayload]

LEMMA PendingIs ==
    ASSUME IsFiniteSet(Parts), NEW h, Additive(h, PartWeights, Parts),
           NEW b, Waiting(b) \in SUBSET Parts
    PROVE  PendingChunks(b) = h[Waiting(b)]
<1> DEFINE A == Waiting(b)
           v == PartWeights
           Weigh(x) == (Part(x).len + ChunkPayload - 1) \div ChunkPayload
           Solves(iter) ==
              iter = [s \in SUBSET A |->
                        IF s = {} THEN 0
                        ELSE Weigh(CHOOSE x \in s : TRUE) + iter[s \ {CHOOSE x \in s : TRUE}]]
<1>1. PendingChunks(b) = (CHOOSE iter : Solves(iter))[A]
  BY DEF PendingChunks, MapThenSumSet, MapThenFoldSet
<1>2. \A x \in Parts : v[x] = Weigh(x)
  BY DEF PartWeights
<1> HIDE DEF A, v, Weigh
<1>3. ASSUME NEW iter PROVE Solves(iter) <=> IsSumOver(iter, v, A)
  <2> DEFINE f == [s \in SUBSET A |->
                     IF s = {} THEN 0
                     ELSE Weigh(CHOOSE x \in s : TRUE) + iter[s \ {CHOOSE x \in s : TRUE}]]
             h1 == [s \in SUBSET A |-> IF s = {} THEN 0 ELSE v[AnyValue(s)] + iter[s \ {AnyValue(s)}]]
  <2>1. ASSUME NEW s \in SUBSET A, s # {}
        PROVE  v[AnyValue(s)] = Weigh(AnyValue(s))
    <3>1. AnyValue(s) \in Parts
      BY <2>1 DEF AnyValue, A
    <3> QED
      BY <1>2, <3>1
  <2>2. \A s \in SUBSET A : f[s] = h1[s]
    <3> SUFFICES ASSUME NEW s \in SUBSET A PROVE f[s] = h1[s]
      OBVIOUS
    <3>1. CASE s = {}
      BY <3>1
    <3>2. CASE s # {}
      <4>1. f[s] = Weigh(AnyValue(s)) + iter[s \ {AnyValue(s)}]
        BY <3>2 DEF AnyValue
      <4>2. h1[s] = v[AnyValue(s)] + iter[s \ {AnyValue(s)}]
        BY <3>2
      <4> QED
        BY <2>1, <3>2, <4>1, <4>2
    <3> QED
      BY <3>1, <3>2
  <2>3. f = [s \in SUBSET A |-> f[s]] /\ h1 = [s \in SUBSET A |-> h1[s]]
    OBVIOUS
  <2>4. (Solves(iter) <=> iter = f) /\ (IsSumOver(iter, v, A) <=> iter = h1)
    BY DEF IsSumOver
  <2> HIDE DEF f, h1, Solves
  <2>5. f = h1
    BY <2>2, <2>3
  <2> QED
    BY <2>4, <2>5
<1> HIDE DEF Solves
<1>4. (\E iter : IsSumOver(iter, v, A)) /\ \A iter : IsSumOver(iter, v, A) => iter[A] = h[A]
  <2>1. A \in SUBSET Parts /\ Additive(h, v, Parts)
    BY DEF A, v
  <2> QED
    BY <2>1, SumOver
<1>5. Solves(CHOOSE iter : Solves(iter))
  BY <1>3, <1>4
<1> QED
  BY <1>1, <1>3, <1>4, <1>5 DEF A

\* The part that the record at a place is for.
PartAt == [x \in Places(PlainLists) |-> <<output[x[1]].list[x[2]].of, x[1]>>]

LEMMA PartAtIs ==
    ASSUME Inv, ListInv, BlockInv
    PROVE  /\ PartAt \in [Places(PlainLists) -> Parts]
           /\ \A x, y \in Places(PlainLists) : x # y => PartAt[x] # PartAt[y]
           /\ \A x \in Places(PlainLists) : /\ PartAt[x][2] = x[1]
                                            /\ At(PlainLists, x) = Part(PartAt[x])
           /\ \A p \in Parts : \E x \in Places(PlainLists) : p = PartAt[x]
<1>1. /\ DOMAIN PlainLists = DOMAIN output
      /\ \A b \in DOMAIN output : /\ DOMAIN PlainLists[b] = DOMAIN output[b].list
                                  /\ \A j \in DOMAIN output[b].list :
                                        PlainLists[b][j] = Plain(output[b].list[j])
  BY ListsAreGood
<1>2. ASSUME NEW x \in Places(PlainLists)
      PROVE  \E b \in DOMAIN output : \E j \in DOMAIN output[b].list : x = <<b, j>>
  BY <1>1 DEF Places
<1>3. ASSUME NEW x \in Places(PlainLists), NEW b \in DOMAIN output, NEW j \in DOMAIN output[b].list,
             x = <<b, j>>
      PROVE  /\ PartAt[x] = <<output[b].list[j].of, b>>
             /\ PartAt[x] \in Parts
             /\ At(PlainLists, x) = Part(PartAt[x])
  <2> DEFINE r == output[b].list[j]
  <2>1. PartAt[x] = <<r.of, b>>
    BY <1>3 DEF PartAt
  <2>2. /\ r.of \in 1 .. Len(m) - 1
        /\ Touches(m[r.of], output[b].lo, output[b].hi)
        /\ Plain(r) = LM!Clip(m[r.of], output[b].lo, output[b].hi)
    BY OutputIs
  <2>3. At(PlainLists, x) = Plain(r)
    BY <1>1, <1>3 DEF At
  <2> HIDE DEF r
  <2>4. <<r.of, b>> \in Parts
    BY <2>2 DEF Parts
  <2>5. Part(<<r.of, b>>) = LM!Clip(m[r.of], output[b].lo, output[b].hi)
    BY DEF Part
  <2> QED
    BY <2>1, <2>2, <2>3, <2>4, <2>5 DEF r
<1>4. PartAt \in [Places(PlainLists) -> Parts]
  <2>1. \A x \in Places(PlainLists) : PartAt[x] \in Parts
    BY <1>2, <1>3
  <2>2. PartAt = [x \in Places(PlainLists) |-> PartAt[x]]
    BY DEF PartAt
  <2> QED
    BY <2>1, <2>2
<1>5. ASSUME NEW x \in Places(PlainLists), NEW y \in Places(PlainLists), PartAt[x] = PartAt[y]
      PROVE  x = y
  <2>1. PICK b \in DOMAIN output : \E j \in DOMAIN output[b].list : x = <<b, j>>
    BY <1>2
  <2>2. PICK j \in DOMAIN output[b].list : x = <<b, j>>
    BY <2>1
  <2>3. PICK c \in DOMAIN output : \E k \in DOMAIN output[c].list : y = <<c, k>>
    BY <1>2
  <2>4. PICK k \in DOMAIN output[c].list : y = <<c, k>>
    BY <2>3
  <2>5. PartAt[x] = <<output[b].list[j].of, b>> /\ PartAt[y] = <<output[c].list[k].of, c>>
    BY <1>3, <2>2, <2>4
  <2>6. b = c /\ output[b].list[j].of = output[b].list[k].of /\ k \in DOMAIN output[b].list
    <3> DEFINE i1 == output[b].list[j].of
               i2 == output[c].list[k].of
    <3>1. <<i1, b>> = <<i2, c>>
      BY <1>5, <2>5
    <3> HIDE DEF i1, i2
    <3>2. i1 = i2 /\ b = c
      BY <3>1
    <3> QED
      BY <3>2 DEF i1, i2
  <2>7. j = k
    <3> DEFINE l == output[b].list
    <3>1. \A j1, j2 \in DOMAIN l : j1 < j2 => l[j1].of < l[j2].of
      BY DEF ListInv, OnlyParts
    <3>2. l[j].of \in Int /\ l[k].of \in Int /\ j \in Int /\ k \in Int
      <4>1. /\ DOMAIN l = 1 .. Len(l) /\ Len(l) \in Nat /\ Len(m) \in Nat
            /\ \A i \in DOMAIN l : l[i].of \in 1 .. Len(m) - 1
        BY OutputIs
      <4> HIDE DEF l
      <4>2. j \in DOMAIN l /\ k \in DOMAIN l
        BY <2>6 DEF l
      <4> QED
        BY <4>1, <4>2
    <3>3. j \in DOMAIN l /\ k \in DOMAIN l /\ l[j].of = l[k].of
      BY <2>6
    <3> HIDE DEF l
    <3>4. CASE j < k
      BY <3>1, <3>2, <3>3, <3>4
    <3>5. CASE k < j
      BY <3>1, <3>2, <3>3, <3>5
    <3> QED
      BY <3>2, <3>4, <3>5
  <2> QED
    BY <2>2, <2>4, <2>6, <2>7
<1>6. ASSUME NEW x \in Places(PlainLists)
      PROVE  PartAt[x][2] = x[1] /\ At(PlainLists, x) = Part(PartAt[x])
  <2>1. PICK b \in DOMAIN output : \E j \in DOMAIN output[b].list : x = <<b, j>>
    BY <1>2
  <2>2. PICK j \in DOMAIN output[b].list : x = <<b, j>>
    BY <2>1
  <2>3. PartAt[x] = <<output[b].list[j].of, b>> /\ At(PlainLists, x) = Part(PartAt[x])
    BY <1>3, <2>2
  <2> QED
    BY <2>2, <2>3
<1>7. ASSUME NEW p \in Parts PROVE \E x \in Places(PlainLists) : p = PartAt[x]
  <2>1. PICK k \in 1 .. Len(m) - 1, b \in DOMAIN output :
            p = <<k, b>> /\ Touches(m[k], output[b].lo, output[b].hi)
    BY DEF Parts
  <2>2. k \in DOMAIN m
    BY OutputIs
  <2>3. PICK j \in DOMAIN output[b].list :
            Represents(output[b].list[j], k, output[b].lo, output[b].hi)
    BY <2>1, <2>2 DEF Inv, EveryPartEncoded
  <2>4. output[b].list[j].of = k
    BY <2>3 DEF Represents
  <2>5. <<b, j>> \in Places(PlainLists)
    BY <1>1 DEF Places
  <2>6. PartAt[<<b, j>>] = <<k, b>>
    BY <1>3, <2>4, <2>5
  <2> QED
    BY <2>1, <2>5, <2>6
<1> QED
  BY <1>4, <1>5, <1>6, <1>7

\* The parts waiting after block b are those of the estimate's heap.
LEMMA WaitingAreDue ==
    ASSUME Inv, ListInv, BlockInv, NEW b \in DOMAIN output
    PROVE  /\ Waiting(b) = {PartAt[x] : x \in DueAfter(PlainLists, Ends, b)}
           /\ Waiting(b) \in SUBSET Parts
<1> DEFINE P == Places(PlainLists)
           D == DueAfter(PlainLists, Ends, b)
<1>1. /\ PartAt \in [P -> Parts]
      /\ \A x \in P : PartAt[x][2] = x[1] /\ At(PlainLists, x) = Part(PartAt[x])
      /\ \A p \in Parts : \E x \in P : p = PartAt[x]
  BY PartAtIs
<1>2. DOMAIN output = 1 .. Len(output) /\ Len(output) \in Nat
  BY OutputIs
<1>3. Ends[b] = output[b].hi /\ b > 0
  BY <1>2, ListsAreGood
<1>4. ASSUME NEW p
      PROVE  p \in Waiting(b) <=> /\ p \in Parts /\ p[2] <= b
                                  /\ Part(p).dest >= output[b].hi /\ Part(p).len < MaximumSave
  <2>1. ASSUME p \in Waiting(b)
        PROVE  /\ p \in Parts /\ p[2] <= b
               /\ Part(p).dest >= output[b].hi /\ Part(p).len < MaximumSave
    <3>1. /\ p \in (1 .. Len(m) - 1) \X (1 .. b)
          /\ Touches(m[p[1]], output[p[2]].lo, output[p[2]].hi)
          /\ Part(p).dest >= output[b].hi /\ Part(p).len < MaximumSave
      BY <2>1 DEF Waiting
    <3>2. p[1] \in 1 .. Len(m) - 1 /\ p[2] \in 1 .. b /\ p = <<p[1], p[2]>>
      BY <3>1
    <3>3. p[2] \in DOMAIN output /\ p[2] <= b
      BY <1>2, <3>2
    <3>4. p \in (1 .. Len(m) - 1) \X DOMAIN output
      BY <3>2, <3>3
    <3> QED
      BY <3>1, <3>3, <3>4 DEF Parts
  <2>2. ASSUME p \in Parts, p[2] <= b, Part(p).dest >= output[b].hi, Part(p).len < MaximumSave
        PROVE  p \in Waiting(b)
    <3>1. /\ p \in (1 .. Len(m) - 1) \X DOMAIN output
          /\ Touches(m[p[1]], output[p[2]].lo, output[p[2]].hi)
      BY <2>2 DEF Parts
    <3>2. p[1] \in 1 .. Len(m) - 1 /\ p[2] \in DOMAIN output /\ p = <<p[1], p[2]>>
      BY <3>1
    <3>3. p[2] \in 1 .. b
      BY <1>2, <2>2, <3>2
    <3>4. p \in (1 .. Len(m) - 1) \X (1 .. b)
      BY <3>2, <3>3
    <3> QED
      BY <2>2, <3>1, <3>4 DEF Waiting
  <2> QED
    BY <2>1, <2>2
<1>5. ASSUME NEW x \in P
      PROVE  x \in D <=> PartAt[x] \in Waiting(b)
  <2>1. x \in D <=> /\ x[1] <= b /\ At(PlainLists, x).dest >= Ends[b]
                    /\ At(PlainLists, x).len < MaximumSave
    BY <1>3 DEF DueAfter
  <2>2. PartAt[x] \in Parts /\ PartAt[x][2] = x[1] /\ At(PlainLists, x) = Part(PartAt[x])
    BY <1>1
  <2> QED
    BY <1>3, <1>4, <2>1, <2>2
<1>6. D \in SUBSET P
  BY DEF DueAfter
<1> HIDE DEF P, D
<1>7. Waiting(b) = {PartAt[x] : x \in D}
  <2>1. ASSUME NEW p \in Waiting(b) PROVE p \in {PartAt[x] : x \in D}
    <3>1. PICK x \in P : p = PartAt[x]
      BY <1>1, <1>4, <2>1
    <3> QED
      BY <1>5, <2>1, <3>1
  <2>2. ASSUME NEW x \in D PROVE PartAt[x] \in Waiting(b)
    BY <1>5, <1>6
  <2> QED
    BY <2>1, <2>2
<1> QED
  BY <1>4, <1>7 DEF D

LEMMA MaxOf ==
    ASSUME NEW S, NEW x \in S, S \subseteq Nat, \A y \in S : y <= x
    PROVE  Max(S) = x
<1>1. Max(S) \in S /\ \A y \in S : Max(S) >= y
  <2>1. \A y \in S : x >= y
    OBVIOUS
  <2> QED
    BY <2>1 DEF Max
<1> DEFINE top == Max(S)
<1>2. top \in S /\ top >= x /\ top <= x
  BY <1>1
<1>3. top \in Nat /\ x \in Nat
  BY <1>2
<1> HIDE DEF top
<1>4. top = x
  BY <1>2, <1>3
<1> QED
  BY <1>4 DEF top

LEMMA RamIs ==
    ASSUME Inv, ListInv, BlockInv, DOMAIN output # {}
    PROVE  AnnouncedRam = Max({PendingChunks(b) : b \in DOMAIN output})
<1> DEFINE P == Places(PlainLists)
           D(b) == DueAfter(PlainLists, Ends, b)
           peak == Ram!MaxRam(PlainLists, Ends, MaximumSave)
<1>1. /\ GoodLists(PlainLists, Ends) /\ DOMAIN PlainLists = DOMAIN output
      /\ IsFiniteSet(P)
  BY ListsAreGood, PlacesAre
<1>2. \A x \in P : At(PlainLists, x).len \in Nat \ {0}
  BY <1>1 DEF GoodLists
<1>3. \A x \in P : /\ Weights(PlainLists)[x] \in Nat
                   /\ Weights(PlainLists)[x] =
                        (At(PlainLists, x).len + ChunkPayload - 1) \div ChunkPayload
  BY <1>2, NeedMemIs DEF Weights
<1>4. PICK g : Additive(g, Weights(PlainLists), P)
  <2> HIDE DEF P
  <2> QED
    BY <1>1, <1>3, AdditiveExists
<1>5. /\ PartAt \in [P -> Parts]
      /\ \A x, y \in P : x # y => PartAt[x] # PartAt[y]
      /\ \A x \in P : At(PlainLists, x) = Part(PartAt[x])
      /\ \A p \in Parts : \E x \in P : p = PartAt[x]
  BY PartAtIs
<1>6. \A x \in P : Weights(PlainLists)[x] = PartWeights[PartAt[x]]
  <2> SUFFICES ASSUME NEW x \in P PROVE Weights(PlainLists)[x] = PartWeights[PartAt[x]]
    OBVIOUS
  <2> HIDE DEF P
  <2>1. PartAt[x] \in Parts
    BY <1>5
  <2>2. PartWeights[PartAt[x]] = (Part(PartAt[x]).len + ChunkPayload - 1) \div ChunkPayload
    BY <2>1 DEF PartWeights
  <2> QED
    BY <1>3, <1>5, <2>2
<1>7. Parts = {PartAt[x] : x \in P}
  <2> HIDE DEF P
  <2>1. \A x \in P : PartAt[x] \in Parts
    BY <1>5
  <2> QED
    BY <1>5, <2>1
<1>8. IsFiniteSet(Parts) /\ \A p \in Parts : PartWeights[p] \in Nat
  <2> HIDE DEF P
  <2> QED
    BY <1>1, <1>3, <1>5, <1>6, <1>7, FiniteImage
<1>9. PICK h : Additive(h, PartWeights, Parts)
  BY <1>8, AdditiveExists
<1>10. ASSUME NEW b \in DOMAIN output PROVE PendingChunks(b) = g[D(b)] /\ g[D(b)] \in Nat
  <2>1. Waiting(b) = {PartAt[x] : x \in D(b)} /\ Waiting(b) \in SUBSET Parts
    BY WaitingAreDue
  <2>2. PendingChunks(b) = h[Waiting(b)]
    BY <1>8, <1>9, <2>1, PendingIs
  <2>3. D(b) \in SUBSET P
    BY DEF DueAfter
  <2> HIDE DEF D, P
  <2>4. g[D(b)] = h[{PartAt[x] : x \in D(b)}]
    BY <1>1, <1>4, <1>5, <1>6, <1>9, <2>3, SumOfImage
  <2>5. g[D(b)] \in Nat
    BY <1>4, <2>3 DEF Additive
  <2> QED
    BY <2>1, <2>2, <2>4, <2>5
<1>11. /\ \A b \in DOMAIN output : g[D(b)] <= peak
       /\ \E b \in DOMAIN output : g[D(b)] = peak
  BY <1>1, <1>4, PeakIs
<1>12. AnnouncedRam = peak
  BY DEF AnnouncedRam, PlainLists, Ends
<1> HIDE DEF P, D, peak
<1> DEFINE S == {PendingChunks(b) : b \in DOMAIN output}
<1>13. S \subseteq Nat /\ peak \in S /\ \A y \in S : y <= peak
  BY <1>10, <1>11
<1> HIDE DEF S
<1>14. Max(S) = peak
  BY <1>13, MaxOf
<1> QED
  BY <1>12, <1>14 DEF S

\* The memory announced at the end, for any input, is the most that the decoder will have
\* saved at the end of any block: adding and removing parts block by block, each at the
\* block of its record and of its copy, loses count of none (srep.cpp:755-787).
THEOREM AnnouncedIsPeak ==
    Spec => []RamIsPeakOfPending
<1>1. ASSUME Init PROVE ListInv /\ BlockInv
  <2>1. BlockInv
    BY <1>1 DEF Init, BlockInv
  <2> QED
    BY <1>1, <2>1, InitListInv
<1>2. ASSUME Inv, ListInv, BlockInv, [Next]_vars PROVE ListInv' /\ BlockInv'
  BY <1>2, NextListInv, NextBlockInv
<1>3. ASSUME Inv, ListInv, BlockInv PROVE RamIsPeakOfPending
  <2> SUFFICES ASSUME pc = "done", OrigSize > 0
               PROVE  AnnouncedRam = Max({PendingChunks(b) : b \in DOMAIN output})
    BY DEF RamIsPeakOfPending
  <2>1. DOMAIN output # {}
    <3>1. OrigSize \in Nat /\ blockStart \in 0 .. OrigSize
      BY <1>3, Pass2Assumption DEF Inv, TypeOK
    <3>2. blockStart >= OrigSize
      BY <1>3 DEF BlockInv
    <3> QED
      BY <1>3, <3>1, <3>2 DEF BlockInv
  <2> QED
    BY <1>3, <2>1, RamIs
<1> QED
  BY <1>1, <1>2, <1>3, SpecInv, PTL DEF Spec
=============================================================================
