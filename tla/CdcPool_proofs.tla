--------------------------- MODULE CdcPool_proofs ---------------------------
(***************************************************************************)
(* Proofs about CdcPool, for any number of threads and any files.          *)
(*                                                                         *)
(* The argument: the pending jobs (those in FinishedQueue) are consecutive *)
(* stripes, so their storages are consecutive modulo NumThreads; as there  *)
(* are never more of them, with the one being read, than storages, no two  *)
(* share one.  Workers take jobs from the front, so the worker queue is    *)
(* always a tail of the pending jobs; every job before that tail is at one *)
(* worker or has its event set.                                            *)
(***************************************************************************)
EXTENDS CdcPool, Induction, FiniteSetTheorems, SequenceTheorems

N == NumThreads

Pending == Contents(FinishedQueue)
Queued == Contents(WorkerQueue)
Free == Contents(FreeEvents)

InBlock == pc \in {"loop", "read"}

Reading == IF pc = "read" THEN 1 ELSE 0

Collected == Len(used) + Reading

\* The storage i places after storage 0, counted backwards if i is negative.
Wrap(i) == IF i < 0 THEN i + N ELSE i

\* Stripes are issued and collected one by one.
StripesInOrder ==
    /\ issued = Collected + Len(Pending)
    /\ \A k \in 1 .. Len(Pending) : Pending[k].stripe = Collected + k
    /\ \A k \in 1 .. Len(used) : used[k] = k
    /\ pc = "read" => job.stripe = Collected

\* The pending jobs and the one being read have consecutive storages.
StoragesInTurn ==
    /\ InBlock => free_jobs + Len(Pending) + Reading = N
    /\ ~ InBlock => Len(Pending) = 0
    /\ \A k \in 1 .. Len(Pending) : Pending[k].t = Wrap(num_thread - Len(Pending) + k - 1)
    /\ pc = "read" => job.t = Wrap(num_thread - Len(Pending) - 1)

\* An event is free or that of one pending job.
EventsOwned ==
    /\ \A k \in 1 .. Len(Pending) : Pending[k].event \in Events
    /\ \A j, k \in 1 .. Len(Pending) : Pending[j].event = Pending[k].event => j = k
    /\ pc # "done" =>
         /\ Len(Free) + Len(Pending) = N
         /\ \A j \in 1 .. Len(Free) : Free[j] \in Events
         /\ \A i, j \in 1 .. Len(Free) : Free[i] = Free[j] => i = j
         /\ \A j \in 1 .. Len(Free), k \in 1 .. Len(Pending) : Free[j] # Pending[k].event
         /\ \A e \in Events :
              \/ \E j \in 1 .. Len(Free) : Free[j] = e
              \/ \E k \in 1 .. Len(Pending) : Pending[k].event = e

\* Before finish() the worker queue is a tail of the pending jobs, then it holds at most
\* the NULL task of the thread to be stopped.
QueueIsTail ==
    IF pc \in {"block", "loop", "read"}
    THEN /\ Len(Queued) <= Len(Pending)
         /\ \A k \in 1 .. Len(Queued) : Queued[k] = Pending[Len(Pending) - Len(Queued) + k]
    ELSE \A k \in 1 .. Len(Queued) : Queued[k] = NullTask

StoppedOneByOne ==
    /\ pc \in {"finish", "done"} => Len(Queued) = 0
    /\ pc # "await" => ~ finished /\ \A w \in Threads : worker[w].pc # "exit"
    /\ pc = "await" =>
         /\ stopped < N
         /\ Len(Queued) <= 1
         /\ finished => Len(Queued) = 0
         /\ \A w \in Threads : worker[w].pc = "exit" => Len(Queued) = 0 /\ ~ finished
         /\ \A v, w \in Threads : worker[v].pc = "exit" /\ worker[w].pc = "exit" => v = w
    /\ pc \in {"loop", "read"} => stopped = 0
    /\ pc = "block" => stopped = 0
    /\ pc = "done" => AllStopped

\* The jobs before the tail: each is at one worker or has its event set.
EachTakenOnce ==
    /\ \A w \in Threads : Working(w) =>
         \E k \in 1 .. Len(Pending) - Len(Queued) : worker[w].task = Pending[k]
    /\ \A v, w \in Threads :
         Working(v) /\ Working(w) /\ worker[v].task = worker[w].task => v = w
    /\ \A w \in Threads : Working(w) => worker[w].task.event \notin signaled
    /\ \A k \in 1 .. Len(Pending) - Len(Queued) :
         \/ Pending[k].event \in signaled
         \/ \E w \in Threads : Working(w) /\ worker[w].task = Pending[k]
    /\ \A e \in signaled : \E k \in 1 .. Len(Pending) - Len(Queued) : Pending[k].event = e

\* What is signaled has been stored, and stays until it has been read.
StoredWhenSignaled ==
    /\ \A w \in Threads :
         worker[w].pc = "signal" => storage[worker[w].task.t] = worker[w].task.stripe
    /\ \A k \in 1 .. Len(Pending) :
         Pending[k].event \in signaled => storage[Pending[k].t] = Pending[k].stripe
    /\ pc = "read" => storage[job.t] = job.stripe

IInv ==
    /\ TypeOK
    /\ StripesInOrder
    /\ StoragesInTurn
    /\ EventsOwned
    /\ QueueIsTail
    /\ StoppedOneByOne
    /\ EachTakenOnce
    /\ StoredWhenSignaled

-----------------------------------------------------------------------------
(* The ring queue, as long as it gets no more than it can hold. *)

LEMMA NType == N \in Nat \ {0} /\ Threads = 0 .. N - 1 /\ Events = 1 .. N
  BY CdcPoolAssumption DEF N, Threads, Events

LEMMA QueueIsSequence ==
    ASSUME NEW max \in Nat \ {0}, NEW S, NEW q, IsQueue(q, max, S)
    PROVE  /\ ObjectsInQueue(q) \in 0 .. max
           /\ Contents(q) \in Seq(S)
           /\ Len(Contents(q)) = ObjectsInQueue(q)
           /\ \A k \in 1 .. ObjectsInQueue(q) : Contents(q)[k] = q.a[Cell(q, k)]
<1>1. ObjectsInQueue(q) \in 0 .. max
  BY DEF IsQueue, ObjectsInQueue
<1>2. ASSUME NEW k \in 1 .. ObjectsInQueue(q)
      PROVE  Cell(q, k) \in 0 .. max
  BY DEF IsQueue, ObjectsInQueue, Cell
<1>3. q.a \in [0 .. max -> S]
  BY DEF IsQueue
<1>4. \A k \in 1 .. ObjectsInQueue(q) : q.a[Cell(q, k)] \in S
  BY <1>2, <1>3
<1> DEFINE n == ObjectsInQueue(q)
<1> DEFINE e(k) == q.a[Cell(q, k)]
<1>5. Contents(q) = [k \in 1 .. n |-> e(k)]
  BY DEF Contents
<1>6. n \in Nat /\ \A k \in 1 .. n : e(k) \in S
  BY <1>1, <1>4
<1> HIDE DEF n, e
<1>7. Contents(q) \in Seq(S)
  BY <1>5, <1>6, IsASeq
<1>8. Len(Contents(q)) = n
  BY <1>5, <1>6, <1>7, LenProperties
<1> QED
  BY <1>1, <1>5, <1>7, <1>8 DEF n, e

LEMMA PutLast ==
    ASSUME NEW max \in Nat \ {0}, NEW S, NEW q, IsQueue(q, max, S), NEW o \in S,
           Len(Contents(q)) < max
    PROVE  /\ IsQueue(Put(q, o), max, S)
           /\ Len(Contents(Put(q, o))) = Len(Contents(q)) + 1
           /\ \A k \in 1 .. Len(Contents(q)) : Contents(Put(q, o))[k] = Contents(q)[k]
           /\ Contents(Put(q, o))[Len(Contents(q)) + 1] = o
<1> DEFINE r == Put(q, o)
<1> DEFINE n == ObjectsInQueue(q)
<1>1. n \in 0 .. max /\ Len(Contents(q)) = n /\ n < max
  BY QueueIsSequence
<1>2. /\ q \in [size : {max + 1}, head : 0 .. max, tail : 0 .. max,
                added : BOOLEAN, a : [0 .. max -> S]]
      /\ q.size = max + 1 /\ q.head \in 0 .. max /\ q.tail \in 0 .. max
      /\ q.a \in [0 .. max -> S]
  BY DEF IsQueue
<1>3. /\ r \in [size : {max + 1}, head : 0 .. max, tail : 0 .. max,
                added : BOOLEAN, a : [0 .. max -> S]]
      /\ r.size = max + 1 /\ r.head = q.head /\ r.tail = Advance(q.tail, max + 1)
      /\ r.a = [q.a EXCEPT ![q.tail] = o]
  <2> DEFINE b == SignalIfEmpty(q)
  <2> DEFINE t == Advance(q.tail, q.size)
  <2> DEFINE a == [q.a EXCEPT ![q.tail] = o]
  <2>1. b \in BOOLEAN /\ t \in 0 .. max /\ t = Advance(q.tail, max + 1) /\ a \in [0 .. max -> S]
    BY <1>2 DEF SignalIfEmpty, Advance
  <2>2. r = [q EXCEPT !.added = b, !.a = a, !.tail = t]
    BY <1>2 DEF Put
  <2> HIDE DEF b, t, a, r
  <2>3. /\ r \in [size : {max + 1}, head : 0 .. max, tail : 0 .. max,
                  added : BOOLEAN, a : [0 .. max -> S]]
        /\ r.size = max + 1 /\ r.head = q.head /\ r.tail = t /\ r.a = a
    BY <1>2, <2>1, <2>2
  <2> QED
    BY <2>1, <2>3 DEF a
<1> HIDE DEF r, n
<1>5. IsQueue(r, max, S)
  BY <1>3 DEF IsQueue
<1>6. ObjectsInQueue(r) = n + 1
  <2>1. r.tail = IF q.tail = max THEN 0 ELSE q.tail + 1
    BY <1>2, <1>3 DEF Advance
  <2>2. n = IF q.tail >= q.head THEN q.tail - q.head ELSE q.tail - q.head + (max + 1)
    BY <1>2 DEF ObjectsInQueue, n
  <2>3. ObjectsInQueue(r) = IF r.tail >= q.head THEN r.tail - q.head
                            ELSE r.tail - q.head + (max + 1)
    BY <1>3 DEF ObjectsInQueue
  <2> QED
    BY <1>1, <1>2, <2>1, <2>2, <2>3
<1>7. ASSUME NEW k \in 1 .. n
      PROVE  r.a[Cell(r, k)] = q.a[Cell(q, k)]
  <2>1. Cell(r, k) = Cell(q, k)
    BY <1>1, <1>2, <1>3 DEF Cell
  <2>2. Cell(q, k) \in 0 .. max /\ Cell(q, k) # q.tail
    BY SMTT(60), <1>1, <1>2 DEF Cell, ObjectsInQueue, n
  <2> QED
    BY <1>2, <1>3, <2>1, <2>2
<1>8. r.a[Cell(r, n + 1)] = o
  <2>1. Cell(r, n + 1) = q.tail
    BY <1>1, <1>2, <1>3 DEF Cell, ObjectsInQueue, n
  <2> QED
    BY <1>2, <1>3, <2>1
<1>9. /\ \A k \in 1 .. n : Contents(q)[k] = q.a[Cell(q, k)]
      /\ Len(Contents(r)) = n + 1
      /\ \A k \in 1 .. n + 1 : Contents(r)[k] = r.a[Cell(r, k)]
  BY <1>1, <1>5, <1>6, QueueIsSequence DEF n
<1> QED
  BY <1>1, <1>5, <1>7, <1>8, <1>9 DEF r

LEMMA TakeFirst ==
    ASSUME NEW max \in Nat \ {0}, NEW S, NEW q, IsQueue(q, max, S),
           ObjectsInQueue(q) > 0
    PROVE  /\ IsQueue(Taken(q), max, S)
           /\ Len(Contents(q)) > 0
           /\ Oldest(q) = Contents(q)[1]
           /\ Oldest(q) \in S
           /\ Len(Contents(Taken(q))) = Len(Contents(q)) - 1
           /\ \A k \in 1 .. Len(Contents(q)) - 1 :
                 Contents(Taken(q))[k] = Contents(q)[k + 1]
<1> DEFINE r == Taken(q)
<1> DEFINE n == ObjectsInQueue(q)
<1>1. n \in 0 .. max /\ Len(Contents(q)) = n /\ n > 0
  BY QueueIsSequence
<1>2. /\ q \in [size : {max + 1}, head : 0 .. max, tail : 0 .. max,
                added : BOOLEAN, a : [0 .. max -> S]]
      /\ q.size = max + 1 /\ q.head \in 0 .. max /\ q.tail \in 0 .. max
      /\ q.a \in [0 .. max -> S]
  BY DEF IsQueue
<1>3. /\ r.size = max + 1 /\ r.head = Advance(q.head, max + 1) /\ r.tail = q.tail /\ r.a = q.a
      /\ r \in [size : {max + 1}, head : 0 .. max, tail : 0 .. max,
                added : BOOLEAN, a : [0 .. max -> S]]
  <2> DEFINE rest == [q EXCEPT !.head = Advance(q.head, q.size)]
  <2>1. Advance(q.head, q.size) \in 0 .. max /\ q.size = max + 1
    BY <1>2 DEF Advance
  <2>2. rest \in [size : {max + 1}, head : 0 .. max, tail : 0 .. max,
                  added : BOOLEAN, a : [0 .. max -> S]]
    BY <1>2, <2>1
  <2>3. /\ rest.size = max + 1 /\ rest.head = Advance(q.head, max + 1)
        /\ rest.tail = q.tail /\ rest.a = q.a
    BY <1>2, <2>1
  <2> DEFINE b == q.added /\ ObjectsInQueue(rest) > 0
  <2>4. b \in BOOLEAN /\ r = [rest EXCEPT !.added = b]
    BY DEF Taken
  <2> HIDE DEF rest, b, r
  <2> QED
    BY <2>2, <2>3, <2>4
<1> HIDE DEF r, n
<1>4. IsQueue(r, max, S)
  BY <1>3 DEF IsQueue
<1>5. ObjectsInQueue(r) = n - 1
  BY <1>1, <1>2, <1>3 DEF ObjectsInQueue, Advance, n
<1>6. ASSUME NEW k \in 1 .. n - 1
      PROVE  r.a[Cell(r, k)] = q.a[Cell(q, k + 1)]
  <2>1. k \in Nat \ {0} /\ k < max
    BY <1>1
  <2>2. r.head = IF q.head = max THEN 0 ELSE q.head + 1
    BY <1>2, <1>3 DEF Advance
  <2>3. Cell(r, k) = Cell(q, k + 1)
    <3>1. CASE q.head = max
      BY <1>2, <1>3, <2>1, <2>2, <3>1 DEF Cell
    <3>2. CASE q.head # max
      BY <1>2, <1>3, <2>1, <2>2, <3>2 DEF Cell
    <3> QED
      BY <3>1, <3>2
  <2> QED
    BY <1>3, <2>3
<1>7. /\ \A k \in 1 .. n : Contents(q)[k] = q.a[Cell(q, k)]
      /\ Len(Contents(r)) = n - 1
      /\ \A k \in 1 .. n - 1 : Contents(r)[k] = r.a[Cell(r, k)]
  BY <1>1, <1>4, <1>5, QueueIsSequence DEF n
<1>8. Cell(q, 1) = q.head /\ q.a[q.head] \in S
  BY <1>2 DEF Cell
<1> QED
  BY <1>1, <1>4, <1>6, <1>7, <1>8 DEF r, Oldest

\* The ring with its two indices is a first-in first-out queue, as long as the client does
\* what the comment in MultiThreading.h asks of it.
THEOREM RingIsFifo ==
    ASSUME NEW max \in Nat \ {0}, NEW S, NEW q, IsQueue(q, max, S)
    PROVE  /\ \A o \in S : Len(Contents(q)) < max =>
                 /\ IsQueue(Put(q, o), max, S)
                 /\ Contents(Put(q, o)) = Append(Contents(q), o)
           /\ ObjectsInQueue(q) > 0 =>
                 /\ IsQueue(Taken(q), max, S)
                 /\ Oldest(q) = Head(Contents(q))
                 /\ Contents(Taken(q)) = Tail(Contents(q))
<1> DEFINE c == Contents(q)
<1>1. c \in Seq(S) /\ Len(c) = ObjectsInQueue(q) /\ Len(c) \in Nat
  BY QueueIsSequence
<1> HIDE DEF c
<1>2. ASSUME NEW o \in S, Len(c) < max
      PROVE  IsQueue(Put(q, o), max, S) /\ Contents(Put(q, o)) = Append(c, o)
  <2> DEFINE d == Contents(Put(q, o))
  <2>1. /\ IsQueue(Put(q, o), max, S)
        /\ Len(d) = Len(c) + 1
        /\ \A k \in 1 .. Len(c) : d[k] = c[k]
        /\ d[Len(c) + 1] = o
    BY <1>2, PutLast DEF c
  <2>2. d \in Seq(S)
    BY <2>1, QueueIsSequence
  <2>3. /\ Append(c, o) \in Seq(S) /\ Len(Append(c, o)) = Len(c) + 1
        /\ \A k \in 1 .. Len(c) : Append(c, o)[k] = c[k]
        /\ Append(c, o)[Len(c) + 1] = o
    BY <1>1, <1>2, AppendProperties
  <2> HIDE DEF d
  <2>4. d = Append(c, o)
    BY <1>1, <2>1, <2>2, <2>3, SeqEqual
  <2> QED
    BY <2>1, <2>4 DEF d
<1>3. ASSUME ObjectsInQueue(q) > 0
      PROVE  /\ IsQueue(Taken(q), max, S)
             /\ Oldest(q) = Head(c)
             /\ Contents(Taken(q)) = Tail(c)
  <2>0. /\ IsQueue(Taken(q), max, S)
        /\ Len(Contents(q)) > 0
        /\ Oldest(q) = Contents(q)[1]
        /\ Len(Contents(Taken(q))) = Len(Contents(q)) - 1
        /\ \A k \in 1 .. Len(Contents(q)) - 1 :
                 Contents(Taken(q))[k] = Contents(q)[k + 1]
    BY SMTT(60), <1>3, TakeFirst
  <2> DEFINE d == Contents(Taken(q))
  <2>1. /\ IsQueue(Taken(q), max, S)
        /\ Len(c) > 0
        /\ Oldest(q) = c[1]
        /\ Len(d) = Len(c) - 1
        /\ \A k \in 1 .. Len(c) - 1 : d[k] = c[k + 1]
    BY <2>0 DEF c
  <2>2. d \in Seq(S)
    BY <2>1, QueueIsSequence
  <2>3. c # << >> /\ Head(c) = c[1]
    BY <1>1, <2>1, EmptySeq
  <2>4. /\ Tail(c) \in Seq(S) /\ Len(Tail(c)) = Len(c) - 1
        /\ \A k \in 1 .. Len(c) - 1 : Tail(c)[k] = c[k + 1]
    BY <1>1, <2>3, HeadTailProperties
  <2> HIDE DEF d
  <2>5. d = Tail(c)
    BY <2>1, <2>2, <2>4, SeqEqual
  <2> QED
    BY <2>1, <2>3, <2>5 DEF d
<1> QED
  BY <1>2, <1>3 DEF c

-----------------------------------------------------------------------------
(* The initial state. *)

\* After the Put of n events the first n cells hold 1 .. n.
LEMMA FreeEventsStart ==
    /\ IsQueue(FreeEventsAtStart, N, 0 .. N)
    /\ Len(Contents(FreeEventsAtStart)) = N
    /\ \A k \in 1 .. N : Contents(FreeEventsAtStart)[k] = k
<1> DEFINE Ring(n) ==
        [size |-> N + 1, head |-> 0, tail |-> n, added |-> n > 0,
         a |-> [i \in 0 .. N |-> IF i < n THEN i + 1 ELSE 0]]
<1> DEFINE put == CHOOSE put : put = [n \in 0 .. N |->
                IF n = 0 THEN SetSize(N, 0) ELSE Put(put[n - 1], n)]
<1>0. N \in Nat \ {0}
  BY NType
<1>1. SetSize(N, 0) = Ring(0)
  <2>1. (0 > 0) = FALSE
    OBVIOUS
  <2>2. [i \in 0 .. N |-> 0] = [i \in 0 .. N |-> IF i < 0 THEN i + 1 ELSE 0]
    BY <1>0
  <2> QED
    BY <2>1, <2>2 DEF SetSize
<1>2. ASSUME NEW n \in 1 .. N
      PROVE  Put(Ring(n - 1), n) = Ring(n)
  <2> DEFINE q == Ring(n - 1)
  <2> DEFINE a == [i \in 0 .. N |-> IF i < n - 1 THEN i + 1 ELSE 0]
  <2>1. q = [size |-> N + 1, head |-> 0, tail |-> n - 1, added |-> n - 1 > 0, a |-> a]
    OBVIOUS
  <2>2. [a EXCEPT ![n - 1] = n] = [i \in 0 .. N |-> IF i < n THEN i + 1 ELSE 0]
    <3>1. /\ [a EXCEPT ![n - 1] = n] = [i \in 0 .. N |-> IF i = n - 1 THEN n ELSE a[i]]
          /\ \A i \in 0 .. N : a[i] = IF i < n - 1 THEN i + 1 ELSE 0
      OBVIOUS
    <3>2. ASSUME NEW i \in 0 .. N
          PROVE  (IF i = n - 1 THEN n ELSE a[i]) = IF i < n THEN i + 1 ELSE 0
      BY <1>0, <3>1
    <3> HIDE DEF a
    <3> QED
      BY <3>1, <3>2
  <2> HIDE DEF a, q
  <2>3. q.size = N + 1 /\ q.head = 0 /\ q.tail = n - 1 /\ q.added = (n - 1 > 0) /\ q.a = a
    BY <2>1
  <2>4. ObjectsInQueue(q) = n - 1
    BY <1>0, <2>3 DEF ObjectsInQueue
  <2>5. SignalIfEmpty(q) /\ n > 0
    <3>1. CASE n = 1
      BY <2>4, <3>1 DEF SignalIfEmpty
    <3>2. CASE n # 1
      <4>1. (n - 1 > 0) = TRUE
        BY <1>0, <3>2
      <4>2. q.added = TRUE
        BY <2>3, <4>1, Zenon
      <4>3. SignalIfEmpty(q)
        BY <4>2, Zenon DEF SignalIfEmpty
      <4> QED
        BY <1>0, <4>3
    <3> QED
      BY <1>0, <3>1, <3>2
  <2>6. Advance(q.tail, q.size) = n
    BY <1>0, <2>3 DEF Advance
  <2>7. Put(q, n) = [q EXCEPT !.added = n > 0, !.a[n - 1] = n, !.tail = n]
    <3>1. SignalIfEmpty(q) = (n > 0)
      BY <2>5 DEF SignalIfEmpty
    <3> QED
      BY <2>3, <2>6, <3>1 DEF Put
  <2>8. Put(q, n) = [size |-> N + 1, head |-> 0, tail |-> n, added |-> n > 0,
                     a |-> [a EXCEPT ![n - 1] = n]]
    BY <2>1, <2>7
  <2> QED
    BY <2>2, <2>8 DEF q
<1> HIDE DEF Ring
<1>3. [n \in 0 .. N |-> Ring(n)] =
          [n \in 0 .. N |-> IF n = 0 THEN SetSize(N, 0)
                            ELSE Put([m \in 0 .. N |-> Ring(m)][n - 1], n)]
  BY <1>0, <1>1, <1>2
<1>4. put = [n \in 0 .. N |-> IF n = 0 THEN SetSize(N, 0) ELSE Put(put[n - 1], n)]
  BY <1>3
<1> HIDE DEF put
<1> DEFINE T == {n \in 0 .. N : put[n] = Ring(n)}
<1>5. 0 \in T
  <2>1. 0 \in 0 .. N
    BY <1>0
  <2>2. put[0] = SetSize(N, 0)
    BY <1>4, <2>1
  <2> QED
    BY <1>1, <2>1, <2>2
<1>6. ASSUME NEW n \in 0 .. N - 1, n \in T PROVE n + 1 \in T
  <2>1. put[n + 1] = Put(put[n], n + 1)
    BY <1>0, <1>4
  <2> QED
    BY <1>0, <1>2, <1>6, <2>1
<1>7. 0 .. N \subseteq T
  <2> HIDE DEF T
  <2> QED
    BY <1>0, <1>5, <1>6, InductionUpTo
<1>8. FreeEventsAtStart = Ring(N)
  BY <1>0, <1>7 DEF FreeEventsAtStart, put, N
<1>9. IsQueue(Ring(N), N, 0 .. N)
  BY <1>0 DEF Ring, IsQueue
<1>10. ObjectsInQueue(Ring(N)) = N
  BY <1>0 DEF Ring, ObjectsInQueue
<1>11. \A k \in 1 .. N : Ring(N).a[Cell(Ring(N), k)] = k
  BY <1>0 DEF Ring, Cell
<1> QED
  BY <1>0, <1>8, <1>9, <1>10, <1>11, QueueIsSequence

LEMMA InitIInv == Init => IInv
<1> SUFFICES ASSUME Init PROVE IInv
  OBVIOUS
<1>0. N \in Nat \ {0} /\ Threads = 0 .. N - 1 /\ Events = 1 .. N /\ NumThreads = N
  BY NType DEF N
<1>1. NullTask \in Tasks
  BY <1>0 DEF NullTask, Task, Tasks
<1>2. /\ IsQueue(WorkerQueue, N + 1, Tasks) /\ Len(Queued) = 0
      /\ IsQueue(FinishedQueue, N, Tasks) /\ Len(Pending) = 0
  <2>1. ASSUME NEW max \in Nat \ {0}
        PROVE  /\ IsQueue(SetSize(max, NullTask), max, Tasks)
               /\ Len(Contents(SetSize(max, NullTask))) = 0
    <3>1. IsQueue(SetSize(max, NullTask), max, Tasks)
      BY <1>1 DEF IsQueue, SetSize
    <3>2. ObjectsInQueue(SetSize(max, NullTask)) = 0
      BY DEF ObjectsInQueue, SetSize
    <3> QED
      BY <3>1, <3>2, QueueIsSequence
  <2>2. WorkerQueue = SetSize(N + 1, NullTask) /\ FinishedQueue = SetSize(N, NullTask)
    BY DEF Init, N
  <2>3. N + 1 \in Nat \ {0}
    BY <1>0
  <2> QED
    BY <1>0, <2>1, <2>2, <2>3 DEF Queued, Pending
<1>3. /\ IsQueue(FreeEvents, N, 0 .. N) /\ Len(Free) = N
      /\ \A k \in 1 .. N : Free[k] = k
  BY FreeEventsStart DEF Init, Free
<1>4. Len(used) = 0 /\ Reading = 0 /\ pc = "block" /\ used \in Seq(Nat)
  BY DEF Init, Reading
<1>5. TypeOK
  <2>1. /\ IsQueue(WorkerQueue, NumThreads + 1, Tasks)
        /\ IsQueue(FinishedQueue, NumThreads, Tasks)
        /\ IsQueue(FreeEvents, NumThreads, 0 .. NumThreads)
    BY <1>0, <1>2, <1>3
  <2>2. worker \in [Threads -> [pc : {"get", "wait", "process", "signal", "exit", "exited"},
                                task : Tasks]]
    BY <1>1 DEF Init
  <2>3. storage \in [Threads -> Nat] /\ signaled \subseteq Events /\ finished \in BOOLEAN
    BY DEF Init
  <2>4. /\ file \in Files
        /\ pc \in {"block", "loop", "read", "finish", "await", "done"}
        /\ block \in Nat \ {0} /\ {left, issued} \subseteq Nat
        /\ free_jobs \in 0 .. NumThreads
        /\ num_thread \in Threads
        /\ job \in Tasks
        /\ stopped \in 0 .. NumThreads
    BY <1>0, <1>1 DEF Init
  <2> QED
    BY <1>4, <2>1, <2>2, <2>3, <2>4 DEF TypeOK
<1>6. StripesInOrder
  BY <1>2, <1>4 DEF Init, StripesInOrder, Collected
<1>7. StoragesInTurn
  BY <1>0, <1>2, <1>4 DEF StoragesInTurn, InBlock
<1>8. EventsOwned
  BY <1>0, <1>2, <1>3 DEF EventsOwned
<1>9. QueueIsTail /\ StoppedOneByOne /\ EachTakenOnce /\ StoredWhenSignaled
  <2>1. \A w \in Threads : worker[w].pc = "get"
    BY DEF Init
  <2> QED
    BY <1>2, <1>4, <2>1
       DEF Init, QueueIsTail, StoppedOneByOne, EachTakenOnce, StoredWhenSignaled, Working
<1> QED
  BY <1>5, <1>6, <1>7, <1>8, <1>9 DEF IInv

-----------------------------------------------------------------------------
(* The steps. *)

\* What the types of the queues say about their contents.
LEMMA Shapes ==
    ASSUME TypeOK
    PROVE  /\ N \in Nat \ {0} /\ NumThreads = N /\ Threads = 0 .. N - 1 /\ Events = 1 .. N
           /\ Pending \in Seq(Tasks) /\ Len(Pending) \in 0 .. N
           /\ \A k \in 1 .. Len(Pending) : Pending[k] \in Tasks
           /\ Queued \in Seq(Tasks) /\ Len(Queued) \in 0 .. N + 1
           /\ \A k \in 1 .. Len(Queued) : Queued[k] \in Tasks
           /\ Free \in Seq(0 .. N) /\ Len(Free) \in 0 .. N
           /\ Len(used) \in Nat /\ Reading \in {0, 1}
           /\ \A w \in Threads : worker[w].task \in Tasks
<1>1. N \in Nat \ {0} /\ NumThreads = N /\ Threads = 0 .. N - 1 /\ Events = 1 .. N
  BY NType DEF N
<1>2. N + 1 \in Nat \ {0}
  BY <1>1
<1>3. /\ IsQueue(WorkerQueue, N + 1, Tasks)
      /\ IsQueue(FinishedQueue, N, Tasks)
      /\ IsQueue(FreeEvents, N, 0 .. N)
  BY <1>1 DEF TypeOK
<1>4. Pending \in Seq(Tasks) /\ Len(Pending) \in 0 .. N
  BY <1>1, <1>3, QueueIsSequence DEF Pending
<1>5. Queued \in Seq(Tasks) /\ Len(Queued) \in 0 .. N + 1
  BY <1>2, <1>3, QueueIsSequence DEF Queued
<1>6. Free \in Seq(0 .. N) /\ Len(Free) \in 0 .. N
  BY <1>1, <1>3, QueueIsSequence DEF Free
<1>7. /\ \A k \in 1 .. Len(Pending) : Pending[k] \in Tasks
      /\ \A k \in 1 .. Len(Queued) : Queued[k] \in Tasks
  BY <1>4, <1>5, ElementOfSeq
<1>8. Len(used) \in Nat /\ Reading \in {0, 1} /\ \A w \in Threads : worker[w].task \in Tasks
  BY DEF TypeOK, Reading
<1> QED
  BY <1>1, <1>4, <1>5, <1>6, <1>7, <1>8

LEMMA StutterIInv ==
    ASSUME IInv, UNCHANGED vars
    PROVE  IInv'
<1>1. TypeOK'
  BY DEF IInv, TypeOK, vars, mainVars, queues
<1> QED
  BY <1>1 DEF IInv, StripesInOrder, StoragesInTurn, EventsOwned, QueueIsTail,
              StoppedOneByOne, EachTakenOnce, StoredWhenSignaled, Pending, Queued, Free,
              InBlock, Reading, Collected, Working, AllStopped, vars, mainVars, queues

LEMMA StartBlockIInv ==
    ASSUME IInv, StartBlock
    PROVE  IInv'
<1>0. TypeOK
  BY DEF IInv
<1>1. N \in Nat \ {0} /\ NumThreads = N /\ Threads = 0 .. N - 1 /\ Len(Pending) \in 0 .. N
  BY <1>0, Shapes
<1>2. Pending' = Pending /\ Queued' = Queued /\ Free' = Free
  BY DEF StartBlock, queues, Pending, Queued, Free
<1>3. file[block] \in Nat
  <2>1. file \in Seq(Nat \ {0}) /\ block \in 1 .. Len(file)
    BY <1>0, CdcPoolAssumption DEF TypeOK, StartBlock
  <2> QED
    BY <2>1, ElementOfSeq
<1>4. TypeOK'
  BY SMTT(60), <1>0, <1>1, <1>3 DEF TypeOK, StartBlock, queues
<1>5. StripesInOrder'
  BY <1>2 DEF IInv, StripesInOrder, StartBlock, Collected, Reading
<1>6. StoragesInTurn'
  BY <1>1, <1>2 DEF IInv, StoragesInTurn, StartBlock, InBlock, Reading
<1>7. EventsOwned'
  BY <1>2 DEF IInv, EventsOwned, StartBlock
<1>8. QueueIsTail'
  BY <1>2 DEF IInv, QueueIsTail, StartBlock
<1>9. StoppedOneByOne'
  BY <1>2 DEF IInv, StoppedOneByOne, StartBlock
<1>10. EachTakenOnce'
  BY <1>2 DEF IInv, EachTakenOnce, StartBlock, Working
<1>11. StoredWhenSignaled'
  BY <1>2 DEF IInv, StoredWhenSignaled, StartBlock
<1> QED
  BY <1>4, <1>5, <1>6, <1>7, <1>8, <1>9, <1>10, <1>11 DEF IInv

LEMMA EndBlockIInv ==
    ASSUME IInv, EndBlock
    PROVE  IInv'
<1>0. TypeOK
  BY DEF IInv
<1>1. N \in Nat \ {0} /\ NumThreads = N /\ Threads = 0 .. N - 1 /\ Len(Pending) \in 0 .. N
  BY <1>0, Shapes
<1>2. Pending' = Pending /\ Queued' = Queued /\ Free' = Free
  BY DEF EndBlock, queues, Pending, Queued, Free
<1>4. TypeOK'
  <2>1. block' \in Nat \ {0} /\ pc' = "block"
    BY <1>0 DEF TypeOK, EndBlock
  <2> QED
    BY <1>0, <2>1 DEF TypeOK, EndBlock, queues
<1>5. StripesInOrder'
  BY <1>2 DEF IInv, StripesInOrder, EndBlock, Collected, Reading
<1>6. StoragesInTurn'
  BY <1>1, <1>2 DEF IInv, StoragesInTurn, EndBlock, InBlock, Reading
<1>7. EventsOwned'
  BY <1>2 DEF IInv, EventsOwned, EndBlock
<1>8. QueueIsTail'
  BY <1>2 DEF IInv, QueueIsTail, EndBlock
<1>9. StoppedOneByOne'
  BY <1>2 DEF IInv, StoppedOneByOne, EndBlock
<1>10. EachTakenOnce'
  BY <1>2 DEF IInv, EachTakenOnce, EndBlock, Working
<1>11. StoredWhenSignaled'
  BY <1>2 DEF IInv, StoredWhenSignaled, EndBlock
<1> QED
  BY <1>4, <1>5, <1>6, <1>7, <1>8, <1>9, <1>10, <1>11 DEF IInv

LEMMA UseChunksIInv ==
    ASSUME IInv, UseChunks
    PROVE  IInv'
<1>0. TypeOK
  BY DEF IInv
<1>1. /\ N \in Nat \ {0} /\ NumThreads = N /\ Threads = 0 .. N - 1 /\ Len(Pending) \in 0 .. N
      /\ Len(used) \in Nat /\ used \in Seq(Nat) /\ job \in Tasks /\ free_jobs \in 0 .. N
  BY <1>0, Shapes DEF TypeOK
<1>2. Pending' = Pending /\ Queued' = Queued /\ Free' = Free
  BY DEF UseChunks, queues, Pending, Queued, Free
<1>3. storage[job.t] \in Nat
  BY <1>0, <1>1 DEF TypeOK, Tasks
<1>4. /\ used' \in Seq(Nat) /\ Len(used') = Len(used) + 1
      /\ \A k \in 1 .. Len(used) : used'[k] = used[k]
      /\ used'[Len(used) + 1] = storage[job.t]
  BY <1>1, <1>3, AppendProperties DEF UseChunks
<1>5. /\ pc = "read" /\ pc' = "loop" /\ Reading = 1 /\ Reading' = 0
      /\ Collected = Len(used) + 1 /\ Collected' = Len(used) + 1
  BY <1>1, <1>4 DEF UseChunks, Reading, Collected
<1>6. free_jobs + Len(Pending) + 1 = N
  BY <1>5 DEF IInv, StoragesInTurn, InBlock
<1>7. TypeOK'
  <2>1. free_jobs' \in 0 .. NumThreads
    BY <1>1, <1>6 DEF UseChunks
  <2> QED
    BY <1>0, <1>4, <2>1 DEF TypeOK, UseChunks, queues
<1>8. StripesInOrder'
  <2>1. used'[Len(used) + 1] = Len(used) + 1
    BY <1>4, <1>5 DEF IInv, StripesInOrder, StoredWhenSignaled
  <2>2. ASSUME NEW k \in 1 .. Len(used')
        PROVE  used'[k] = k
    <3>1. \A i \in 1 .. Len(used) : used[i] = i
      BY DEF IInv, StripesInOrder
    <3>2. k \in 1 .. Len(used) \/ k = Len(used) + 1
      BY <1>1, <1>4
    <3> QED
      BY <1>4, <2>1, <3>1, <3>2
  <2>3. issued' = issued
    BY DEF UseChunks
  <2> QED
    BY <1>2, <1>5, <2>2, <2>3 DEF IInv, StripesInOrder
<1>9. StoragesInTurn'
  BY <1>1, <1>2, <1>5, <1>6 DEF IInv, StoragesInTurn, UseChunks, InBlock
<1>10. EventsOwned'
  BY <1>2, <1>5 DEF IInv, EventsOwned
<1>11. QueueIsTail'
  BY <1>2, <1>5 DEF IInv, QueueIsTail
<1>12. StoppedOneByOne'
  BY <1>2, <1>5 DEF IInv, StoppedOneByOne, UseChunks
<1>13. EachTakenOnce'
  BY <1>2 DEF IInv, EachTakenOnce, UseChunks, Working
<1>14. StoredWhenSignaled'
  BY <1>2, <1>5 DEF IInv, StoredWhenSignaled, UseChunks
<1> QED
  BY <1>7, <1>8, <1>9, <1>10, <1>11, <1>12, <1>13, <1>14 DEF IInv

\* Which jobs have been taken, and where they are, does not change with the jobs behind them.
LEMMA EachTakenOnceStays ==
    ASSUME EachTakenOnce,
           signaled' = signaled,
           \A w \in Threads : /\ Working(w)' <=> Working(w)
                              /\ Working(w) => worker'[w].task = worker[w].task,
           1 .. Len(Pending') - Len(Queued') = 1 .. Len(Pending) - Len(Queued),
           \A k \in 1 .. Len(Pending) - Len(Queued) : Pending'[k] = Pending[k]
    PROVE  EachTakenOnce'
<1> DEFINE D == 1 .. Len(Pending) - Len(Queued)
<1>1. D' = D /\ \A k \in D : Pending'[k] = Pending[k]
  OBVIOUS
<1>2. /\ \A w \in Threads : Working(w) => \E k \in D : worker[w].task = Pending[k]
      /\ \A k \in D : \/ Pending[k].event \in signaled
                      \/ \E w \in Threads : Working(w) /\ worker[w].task = Pending[k]
      /\ \A e \in signaled : \E k \in D : Pending[k].event = e
  BY DEF EachTakenOnce
<1>3. /\ \A v, w \in Threads :
            Working(v) /\ Working(w) /\ worker[v].task = worker[w].task => v = w
      /\ \A w \in Threads : Working(w) => worker[w].task.event \notin signaled
  BY DEF EachTakenOnce
<1> HIDE DEF D
<1>4. /\ \A w \in Threads : Working(w)' => \E k \in D' : worker'[w].task = Pending'[k]
      /\ \A k \in D' : \/ Pending'[k].event \in signaled'
                       \/ \E w \in Threads : Working(w)' /\ worker'[w].task = Pending'[k]
      /\ \A e \in signaled' : \E k \in D' : Pending'[k].event = e
  BY <1>1, <1>2
<1>5. /\ \A v, w \in Threads :
            Working(v)' /\ Working(w)' /\ worker'[v].task = worker'[w].task => v = w
      /\ \A w \in Threads : Working(w)' => worker'[w].task.event \notin signaled'
  BY <1>3
<1> QED
  BY <1>4, <1>5 DEF EachTakenOnce, D

LEMMA PutJobIInv ==
    ASSUME IInv, PutJob
    PROVE  IInv'
<1> DEFINE task == Task(issued + 1, num_thread, Oldest(FreeEvents))
<1> DEFINE P == Len(Pending)
<1> DEFINE Q == Len(Queued)
<1> DEFINE F == Len(Free)
<1>0. TypeOK
  BY DEF IInv
<1>1. /\ N \in Nat \ {0} /\ NumThreads = N /\ Threads = 0 .. N - 1 /\ Events = 1 .. N
      /\ P \in 0 .. N /\ Q \in 0 .. N + 1 /\ F \in 0 .. N
      /\ issued \in Nat /\ num_thread \in 0 .. N - 1 /\ free_jobs \in 0 .. N /\ left \in Nat
      /\ Collected \in Nat
  BY SMTT(60), <1>0, Shapes DEF TypeOK, Collected
<1>2. pc = "loop" /\ pc' = "loop" /\ Reading = 0 /\ Reading' = 0 /\ Collected' = Collected
  BY DEF PutJob, Reading, Collected
<1>3. free_jobs + P = N /\ free_jobs > 0 /\ P < N /\ Q <= P /\ F + P = N
  BY <1>1, <1>2
     DEF IInv, StoragesInTurn, QueueIsTail, EventsOwned, PutJob, InBlock, Reading
<1>4. /\ IsQueue(WorkerQueue, N + 1, Tasks)
      /\ IsQueue(FinishedQueue, N, Tasks)
      /\ IsQueue(FreeEvents, N, 0 .. N)
  BY <1>0, <1>1 DEF TypeOK
<1>5. /\ IsQueue(FreeEvents', N, 0 .. N)
      /\ F > 0 /\ Oldest(FreeEvents) = Free[1] /\ Oldest(FreeEvents) \in 0 .. N
      /\ Len(Free') = F - 1
      /\ \A k \in 1 .. F - 1 : Free'[k] = Free[k + 1]
  BY SMTT(60), <1>1, <1>4, TakeFirst DEF PutJob, Free
<1>6. /\ task \in Tasks
      /\ task.stripe = issued + 1 /\ task.t = num_thread /\ task.event = Free[1]
      /\ task.event \in Events
  <2>1. Free[1] \in Events
    BY <1>2, <1>5, <1>1 DEF IInv, EventsOwned
  <2> QED
    BY <1>1, <1>5, <2>1 DEF Task, Tasks
<1>7. /\ WorkerQueue' = Put(WorkerQueue, task) /\ FinishedQueue' = Put(FinishedQueue, task)
      /\ issued' = issued + 1 /\ left' = left - 1 /\ free_jobs' = free_jobs - 1 /\ left > 0
      /\ num_thread' = NextStorage(num_thread)
      /\ UNCHANGED <<file, block, job, stopped, used, signaled, finished, storage, worker>>
  BY DEF PutJob
<1> HIDE DEF task
<1>8. /\ IsQueue(FinishedQueue', N, Tasks)
      /\ Len(Pending') = P + 1
      /\ \A k \in 1 .. P : Pending'[k] = Pending[k]
      /\ Pending'[P + 1] = task
  <2> DEFINE q == FinishedQueue
  <2>1. /\ N \in Nat \ {0} /\ IsQueue(q, N, Tasks) /\ task \in Tasks
        /\ Len(Contents(q)) < N /\ Pending = Contents(q) /\ FinishedQueue' = Put(q, task)
    BY <1>1, <1>3, <1>4, <1>6, <1>7 DEF Pending
  <2>2. Pending' = Contents(FinishedQueue')
    BY DEF Pending
  <2> HIDE DEF q
  <2>3. /\ IsQueue(Put(q, task), N, Tasks)
        /\ Len(Contents(Put(q, task))) = Len(Contents(q)) + 1
        /\ \A k \in 1 .. Len(Contents(q)) : Contents(Put(q, task))[k] = Contents(q)[k]
        /\ Contents(Put(q, task))[Len(Contents(q)) + 1] = task
    BY <2>1, PutLast
  <2> QED
    BY <2>1, <2>2, <2>3
<1>9. /\ IsQueue(WorkerQueue', N + 1, Tasks)
      /\ Len(Queued') = Q + 1
      /\ \A k \in 1 .. Q : Queued'[k] = Queued[k]
      /\ Queued'[Q + 1] = task
  <2>1. N + 1 \in Nat \ {0} /\ Q < N + 1
    BY <1>1, <1>3
  <2> QED
    BY <2>1, <1>4, <1>6, <1>7, PutLast DEF Queued
<1> HIDE DEF P, Q, F
<1>10. TypeOK'
  <2>1. num_thread' \in Threads
    BY <1>1, <1>7 DEF NextStorage
  <2>2. issued' \in Nat /\ left' \in Nat /\ free_jobs' \in 0 .. NumThreads
    BY <1>1, <1>7, <1>3
  <2> QED
    BY <1>0, <1>1, <1>2, <1>5, <1>7, <1>8, <1>9, <2>1, <2>2 DEF TypeOK
<1>11. StripesInOrder'
  <2>1. /\ issued = Collected + P
        /\ \A k \in 1 .. P : Pending[k].stripe = Collected + k
        /\ \A k \in 1 .. Len(used) : used[k] = k
    BY DEF IInv, StripesInOrder, P
  <2>2. issued' = Collected' + Len(Pending')
    BY <1>1, <1>2, <1>7, <1>8, <2>1
  <2>3. ASSUME NEW k \in 1 .. P + 1
        PROVE  Pending'[k].stripe = Collected' + k
    <3>1. CASE k = P + 1
      BY <1>1, <1>2, <1>6, <1>8, <2>1, <3>1
    <3>2. CASE k # P + 1
      BY <1>1, <1>2, <1>8, <2>1, <3>2
    <3> QED
      BY <3>1, <3>2
  <2> QED
    BY <1>2, <1>7, <1>8, <2>1, <2>2, <2>3 DEF StripesInOrder
<1>12. StoragesInTurn'
  <2>1. \A k \in 1 .. P : Pending[k].t = Wrap(num_thread - P + k - 1)
    BY DEF IInv, StoragesInTurn, P
  <2>2. num_thread' = IF num_thread + 1 = N THEN 0 ELSE num_thread + 1
    BY <1>1, <1>7 DEF NextStorage
  <2>3. ASSUME NEW k \in 1 .. P + 1
        PROVE  Pending'[k].t = Wrap(num_thread' - (P + 1) + k - 1)
    <3>1. CASE k = P + 1
      BY <1>1, <1>6, <1>8, <2>2, <3>1 DEF Wrap
    <3>2. CASE k # P + 1
      <4>1. Pending'[k].t = Wrap(num_thread - P + k - 1)
        BY <1>1, <1>8, <2>1, <3>2
      <4>2. k \in Nat /\ 1 <= k /\ k <= P
        BY <1>1, <3>2
      <4>3. CASE num_thread + 1 = N
        <5>1. num_thread' = 0 /\ num_thread - P + k - 1 >= 0
          BY <1>1, <1>3, <2>2, <4>2, <4>3
        <5>2. Wrap(num_thread - P + k - 1) = num_thread - P + k - 1
          BY <1>1, <4>2, <5>1 DEF Wrap
        <5>3. Wrap(num_thread' - (P + 1) + k - 1) = N - (P + 1) + k - 1
          BY <1>1, <4>2, <5>1 DEF Wrap
        <5> QED
          BY <1>1, <4>1, <4>2, <4>3, <5>2, <5>3
      <4>4. CASE num_thread + 1 # N
        <5>1. num_thread' - (P + 1) + k - 1 = num_thread - P + k - 1
          BY <1>1, <2>2, <4>2, <4>4
        <5> QED
          BY <4>1, <5>1
      <4> QED
        BY <4>3, <4>4
    <3> QED
      BY <3>1, <3>2
  <2>4. free_jobs' + Len(Pending') + Reading' = N
    BY <1>1, <1>2, <1>3, <1>7, <1>8
  <2> QED
    BY <1>2, <1>8, <2>3, <2>4 DEF StoragesInTurn, InBlock
<1>13. EventsOwned'
  <2>1. /\ \A k \in 1 .. P : Pending[k].event \in Events
        /\ \A j, k \in 1 .. P : Pending[j].event = Pending[k].event => j = k
        /\ \A j \in 1 .. F : Free[j] \in Events
        /\ \A i, j \in 1 .. F : Free[i] = Free[j] => i = j
        /\ \A j \in 1 .. F, k \in 1 .. P : Free[j] # Pending[k].event
        /\ \A e \in Events :
              \/ \E j \in 1 .. F : Free[j] = e
              \/ \E k \in 1 .. P : Pending[k].event = e
    BY <1>2 DEF IInv, EventsOwned, P, F
  <2>2. \A k \in 1 .. P + 1 : Pending'[k].event = IF k = P + 1 THEN Free[1] ELSE Pending[k].event
    BY <1>1, <1>6, <1>8
  <2>3. \A k \in 1 .. P + 1 : Pending'[k].event \in Events
    BY <1>1, <1>5, <2>1, <2>2
  <2>4. \A j, k \in 1 .. P + 1 : Pending'[j].event = Pending'[k].event => j = k
    BY <1>1, <1>5, <2>1, <2>2
  <2>5. \A j \in 1 .. F - 1 : Free'[j] = Free[j + 1] /\ j + 1 \in 1 .. F /\ 1 \in 1 .. F
    BY <1>1, <1>5
  <2>6. /\ \A j \in 1 .. F - 1 : Free'[j] \in Events
        /\ \A i, j \in 1 .. F - 1 : Free'[i] = Free'[j] => i = j
    <3>1. \A j \in 1 .. F - 1 : Free'[j] \in Events
      BY <2>1, <2>5
    <3>2. ASSUME NEW i \in 1 .. F - 1, NEW j \in 1 .. F - 1, Free'[i] = Free'[j]
          PROVE  i = j
      <4>1. i + 1 = j + 1
        BY <2>1, <2>5, <3>2
      <4> QED
        BY <1>1, <4>1
    <3> QED
      BY <3>1, <3>2
  <2>7. ASSUME NEW j \in 1 .. F - 1, NEW k \in 1 .. P + 1
        PROVE  Free'[j] # Pending'[k].event
    <3>1. CASE k = P + 1
      BY <1>1, <2>1, <2>2, <2>5, <3>1
    <3>2. CASE k # P + 1
      <4>1. k \in 1 .. P /\ Pending'[k].event = Pending[k].event
        BY <1>1, <2>2, <3>2
      <4> QED
        BY <2>1, <2>5, <4>1
    <3> QED
      BY <3>1, <3>2
  <2>8. ASSUME NEW e \in Events
        PROVE  \/ \E j \in 1 .. F - 1 : Free'[j] = e
               \/ \E k \in 1 .. P + 1 : Pending'[k].event = e
    <3>1. CASE \E k \in 1 .. P : Pending[k].event = e
      <4>1. PICK k \in 1 .. P : Pending[k].event = e
        BY <3>1
      <4>2. k \in 1 .. P + 1 /\ Pending'[k].event = e
        BY <1>1, <2>2, <4>1
      <4> QED
        BY <4>2
    <3>2. CASE \E j \in 1 .. F : Free[j] = e
      <4>1. PICK j \in 1 .. F : Free[j] = e
        BY <3>2
      <4>2. CASE j = 1
        <5>1. P + 1 \in 1 .. P + 1 /\ Pending'[P + 1].event = e
          BY <1>1, <2>2, <4>1, <4>2
        <5> QED
          BY <5>1
      <4>3. CASE j # 1
        <5>1. j - 1 \in 1 .. F - 1 /\ Free'[j - 1] = e
          BY <1>1, <1>5, <4>1, <4>3
        <5> QED
          BY <5>1
      <4> QED
        BY <4>2, <4>3
    <3> QED
      BY <2>1, <3>1, <3>2
  <2>9. Len(Free') + Len(Pending') = N
    BY <1>1, <1>3, <1>5, <1>8
  <2> QED
    BY <1>5, <1>8, <2>3, <2>4, <2>6, <2>7, <2>8, <2>9 DEF EventsOwned
<1>14. QueueIsTail'
  <2>1. \A k \in 1 .. Q : Queued[k] = Pending[P - Q + k]
    BY <1>2 DEF IInv, QueueIsTail, P, Q
  <2>2. ASSUME NEW k \in 1 .. Q + 1
        PROVE  Queued'[k] = Pending'[(P + 1) - (Q + 1) + k]
    <3>1. CASE k = Q + 1
      BY <1>1, <1>8, <1>9, <3>1
    <3>2. CASE k # Q + 1
      <4>1. k \in 1 .. Q /\ P - Q + k \in 1 .. P /\ (P + 1) - (Q + 1) + k = P - Q + k
        BY <1>1, <1>3, <3>2
      <4> QED
        BY <1>8, <1>9, <2>1, <4>1
    <3> QED
      BY <3>1, <3>2
  <2> QED
    BY <1>1, <1>2, <1>3, <1>8, <1>9, <2>2 DEF QueueIsTail
<1>15. StoppedOneByOne'
  BY <1>2, <1>7 DEF IInv, StoppedOneByOne
<1>16. EachTakenOnce'
  <2>1. Len(Pending') - Len(Queued') = P - Q /\ P - Q \in 0 .. P
    BY <1>1, <1>3, <1>8, <1>9
  <2>2. \A k \in 1 .. P - Q : Pending'[k] = Pending[k]
    BY <1>1, <1>3, <1>8
  <2>3. \A w \in Threads : Working(w)' <=> Working(w)
    BY <1>7 DEF Working
  <2> QED
    BY <1>7, <2>1, <2>2, <2>3, EachTakenOnceStays DEF IInv, P, Q
<1>17. StoredWhenSignaled'
  <2>1. Free[1] \notin signaled
    <3>1. ASSUME Free[1] \in signaled PROVE FALSE
      <4>1. PICK k \in 1 .. P - Q : Pending[k].event = Free[1]
        BY <3>1 DEF IInv, EachTakenOnce, P, Q
      <4>2. k \in 1 .. P /\ 1 \in 1 .. F
        BY <1>1, <1>5
      <4> QED
        BY <1>2, <4>1, <4>2 DEF IInv, EventsOwned, P, F
    <3> QED
      BY <3>1
  <2>2. ASSUME NEW k \in 1 .. P + 1, Pending'[k].event \in signaled
        PROVE  storage[Pending'[k].t] = Pending'[k].stripe
    <3>1. CASE k = P + 1
      BY <1>6, <1>8, <2>1, <2>2, <3>1
    <3>2. CASE k # P + 1
      <4>1. k \in 1 .. P /\ Pending'[k] = Pending[k]
        BY <1>1, <1>8, <3>2
      <4> QED
        BY <2>2, <4>1 DEF IInv, StoredWhenSignaled, P
    <3> QED
      BY <3>1, <3>2
  <2>3. /\ \A w \in Threads : worker[w].pc = "signal" =>
              storage[worker[w].task.t] = worker[w].task.stripe
    BY DEF IInv, StoredWhenSignaled
  <2> QED
    BY <1>2, <1>7, <1>8, <2>2, <2>3 DEF StoredWhenSignaled
<1> QED
  BY <1>10, <1>11, <1>12, <1>13, <1>14, <1>15, <1>16, <1>17 DEF IInv

\* No two of the pending jobs, nor one of them and the job being read, share a storage.
LEMMA StoragesDistinct ==
    ASSUME TypeOK, StoragesInTurn
    PROVE  /\ \A j, k \in 1 .. Len(Pending) : Pending[j].t = Pending[k].t => j = k
           /\ pc = "read" => \A k \in 1 .. Len(Pending) : Pending[k].t # job.t
<1> DEFINE P == Len(Pending)
<1>1. N \in Nat \ {0} /\ P \in 0 .. N /\ num_thread \in 0 .. N - 1 /\ free_jobs \in 0 .. N
  BY Shapes DEF TypeOK
<1>2. \A k \in 1 .. P : Pending[k].t = Wrap(num_thread - P + k - 1)
  BY DEF StoragesInTurn
<1> HIDE DEF P
<1>3. ASSUME NEW j \in 1 .. P, NEW k \in 1 .. P, Pending[j].t = Pending[k].t
      PROVE  j = k
  <2>1. Wrap(num_thread - P + j - 1) = Wrap(num_thread - P + k - 1)
    BY <1>2, <1>3
  <2>2. j \in Nat /\ k \in Nat /\ 1 <= j /\ j <= P /\ 1 <= k /\ k <= P
    BY <1>1
  <2> QED
    BY <1>1, <2>1, <2>2 DEF Wrap
<1>4. ASSUME pc = "read", NEW k \in 1 .. P
      PROVE  Pending[k].t # job.t
  <2>1. P + 1 <= N /\ job.t = Wrap(num_thread - P - 1)
    BY <1>1, <1>4 DEF StoragesInTurn, InBlock, Reading, P
  <2>2. k \in Nat /\ 1 <= k /\ k <= P
    BY <1>1
  <2>3. Wrap(num_thread - P + k - 1) # Wrap(num_thread - P - 1)
    BY <1>1, <2>1, <2>2 DEF Wrap
  <2> QED
    BY <1>2, <2>1, <2>3
<1> QED
  BY <1>3, <1>4 DEF P

LEMMA GetJobIInv ==
    ASSUME IInv, GetJob
    PROVE  IInv'
<1> DEFINE task == Oldest(FinishedQueue)
<1> DEFINE P == Len(Pending)
<1> DEFINE Q == Len(Queued)
<1> DEFINE F == Len(Free)
<1>0. TypeOK
  BY DEF IInv
<1>1. /\ N \in Nat \ {0} /\ NumThreads = N /\ Threads = 0 .. N - 1 /\ Events = 1 .. N
      /\ P \in 0 .. N /\ Q \in 0 .. N + 1 /\ F \in 0 .. N
      /\ issued \in Nat /\ num_thread \in 0 .. N - 1 /\ free_jobs \in 0 .. N
      /\ Len(used) \in Nat
  BY <1>0, Shapes DEF TypeOK
<1>2. /\ pc = "loop" /\ pc' = "read" /\ Reading = 0 /\ Reading' = 1
      /\ Collected = Len(used) /\ Collected' = Len(used) + 1
  BY <1>1 DEF GetJob, Reading, Collected
<1>3. /\ IsQueue(FinishedQueue, N, Tasks)
      /\ IsQueue(FreeEvents, N, 0 .. N)
  BY <1>0, <1>1 DEF TypeOK
<1>4. /\ IsQueue(FinishedQueue', N, Tasks)
      /\ P > 0 /\ task = Pending[1] /\ task \in Tasks
      /\ Len(Pending') = P - 1
      /\ \A k \in 1 .. P - 1 : Pending'[k] = Pending[k + 1]
  BY SMTT(60), <1>1, <1>3, TakeFirst DEF GetJob, Pending
<1>5. /\ FreeEvents' = Put(FreeEvents, task.event)
      /\ signaled' = signaled \ {task.event} /\ task.event \in signaled
      /\ job' = task
      /\ UNCHANGED <<file, block, left, issued, free_jobs, num_thread, stopped, used,
                     WorkerQueue, finished, storage, worker>>
  BY DEF GetJob, IsSet
<1> HIDE DEF task, P, Q, F
<1>6. /\ free_jobs + P = N /\ F + P = N
      /\ 1 \in 1 .. P /\ task.event \in Events /\ task.event \in 0 .. N
  BY <1>1, <1>2, <1>4 DEF IInv, StoragesInTurn, EventsOwned, InBlock, P, F
<1>7. /\ IsQueue(FreeEvents', N, 0 .. N)
      /\ Len(Free') = F + 1
      /\ \A k \in 1 .. F : Free'[k] = Free[k]
      /\ Free'[F + 1] = task.event
  <2>1. F < N
    BY <1>1, <1>4, <1>6
  <2> QED
    BY <1>1, <1>3, <1>5, <1>6, <2>1, PutLast DEF Free, F
<1>8. Q <= P - 1 /\ Queued' = Queued /\ \A k \in 1 .. Q : Queued[k] = Pending[P - Q + k]
  <2>1. Q <= P /\ \A k \in 1 .. Q : Queued[k] = Pending[P - Q + k]
    BY <1>2 DEF IInv, QueueIsTail, P, Q
  <2>2. \E k \in 1 .. P - Q : Pending[k].event = task.event
    BY <1>5 DEF IInv, EachTakenOnce, P, Q
  <2>3. Q < P
    BY <1>1, <2>2
  <2> QED
    BY <1>1, <1>5, <2>1, <2>3 DEF Queued
<1>9. TypeOK'
  BY <1>0, <1>1, <1>2, <1>4, <1>5, <1>7 DEF TypeOK
<1>10. StripesInOrder'
  <2>1. /\ issued = Collected + P
        /\ \A k \in 1 .. P : Pending[k].stripe = Collected + k
        /\ \A k \in 1 .. Len(used) : used[k] = k
    BY DEF IInv, StripesInOrder, P
  <2>2. job'.stripe = Collected' /\ issued' = Collected' + Len(Pending')
    BY <1>1, <1>2, <1>4, <1>5, <1>6, <2>1
  <2>3. ASSUME NEW k \in 1 .. P - 1
        PROVE  Pending'[k].stripe = Collected' + k
    <3>1. k + 1 \in 1 .. P
      BY <1>1
    <3>2. Pending'[k].stripe = Collected + (k + 1)
      BY <1>4, <2>1, <3>1
    <3> QED
      BY <1>1, <1>2, <3>2
  <2> QED
    BY <1>2, <1>4, <1>5, <2>1, <2>2, <2>3 DEF StripesInOrder
<1>11. StoragesInTurn'
  <2>1. \A k \in 1 .. P : Pending[k].t = Wrap(num_thread - P + k - 1)
    BY DEF IInv, StoragesInTurn, P
  <2>2. ASSUME NEW k \in 1 .. P - 1
        PROVE  Pending'[k].t = Wrap(num_thread - (P - 1) + k - 1)
    <3>1. k + 1 \in 1 .. P /\ num_thread - P + (k + 1) - 1 = num_thread - (P - 1) + k - 1
      BY <1>1
    <3> QED
      BY <1>4, <2>1, <3>1
  <2>3. num_thread - P + 1 - 1 = num_thread - (P - 1) - 1
    BY <1>1
  <2>4. job'.t = Wrap(num_thread - (P - 1) - 1)
    BY <1>4, <1>5, <1>6, <2>1, <2>3
  <2>5. free_jobs' + Len(Pending') + Reading' = N
    BY <1>1, <1>2, <1>4, <1>5, <1>6
  <2> QED
    BY <1>2, <1>4, <1>5, <2>2, <2>4, <2>5 DEF StoragesInTurn, InBlock
<1>12. EventsOwned'
  <2>1. /\ \A k \in 1 .. P : Pending[k].event \in Events
        /\ \A j, k \in 1 .. P : Pending[j].event = Pending[k].event => j = k
        /\ \A j \in 1 .. F : Free[j] \in Events
        /\ \A i, j \in 1 .. F : Free[i] = Free[j] => i = j
        /\ \A j \in 1 .. F, k \in 1 .. P : Free[j] # Pending[k].event
        /\ \A e \in Events :
              \/ \E j \in 1 .. F : Free[j] = e
              \/ \E k \in 1 .. P : Pending[k].event = e
    BY <1>2 DEF IInv, EventsOwned, P, F
  <2>2. \A k \in 1 .. P - 1 : Pending'[k] = Pending[k + 1] /\ k + 1 \in 1 .. P /\ k + 1 # 1
    BY <1>1, <1>4
  <2>3. /\ \A k \in 1 .. P - 1 : Pending'[k].event \in Events
        /\ \A k \in 1 .. P - 1 : Pending'[k].event # task.event
    BY <1>4, <1>6, <2>1, <2>2
  <2>4. ASSUME NEW j \in 1 .. P - 1, NEW k \in 1 .. P - 1, Pending'[j].event = Pending'[k].event
        PROVE  j = k
    <3>1. j + 1 = k + 1
      BY <2>1, <2>2, <2>4
    <3> QED
      BY <1>1, <3>1
  <2>5. \A j \in 1 .. F + 1 : \/ j = F + 1 /\ Free'[j] = task.event
                              \/ j \in 1 .. F /\ Free'[j] = Free[j]
    BY <1>1, <1>7
  <2>6. \A j \in 1 .. F : Free[j] # task.event
    BY <1>4, <1>6, <2>1
  <2>7. /\ \A j \in 1 .. F + 1 : Free'[j] \in Events
        /\ \A i, j \in 1 .. F + 1 : Free'[i] = Free'[j] => i = j
    BY <1>6, <2>1, <2>5, <2>6
  <2>8. \A j \in 1 .. F + 1, k \in 1 .. P - 1 : Free'[j] # Pending'[k].event
    BY <2>1, <2>2, <2>3, <2>5
  <2>9. ASSUME NEW e \in Events
        PROVE  \/ \E j \in 1 .. F + 1 : Free'[j] = e
               \/ \E k \in 1 .. P - 1 : Pending'[k].event = e
    <3>1. CASE \E j \in 1 .. F : Free[j] = e
      <4>1. PICK j \in 1 .. F : Free[j] = e
        BY <3>1
      <4>2. j \in 1 .. F + 1 /\ Free'[j] = e
        BY <1>1, <1>7, <4>1
      <4> QED
        BY <4>2
    <3>2. CASE \E k \in 1 .. P : Pending[k].event = e
      <4>1. PICK k \in 1 .. P : Pending[k].event = e
        BY <3>2
      <4>2. CASE k = 1
        <5>1. F + 1 \in 1 .. F + 1 /\ Free'[F + 1] = e
          BY <1>1, <1>4, <1>7, <4>1, <4>2
        <5> QED
          BY <5>1
      <4>3. CASE k # 1
        <5>1. k - 1 \in 1 .. P - 1 /\ Pending'[k - 1] = Pending[(k - 1) + 1] /\ (k - 1) + 1 = k
          BY <1>1, <1>4, <4>3
        <5> QED
          BY <4>1, <5>1
      <4> QED
        BY <4>2, <4>3
    <3> QED
      BY <2>1, <3>1, <3>2
  <2>10. Len(Free') + Len(Pending') = N
    BY <1>1, <1>4, <1>6, <1>7
  <2>11. /\ \A k \in 1 .. Len(Pending') : Pending'[k].event \in Events
         /\ \A j, k \in 1 .. Len(Pending') : Pending'[j].event = Pending'[k].event => j = k
    BY <1>4, <2>3, <2>4
  <2>12. /\ \A j \in 1 .. Len(Free') : Free'[j] \in Events
         /\ \A i, j \in 1 .. Len(Free') : Free'[i] = Free'[j] => i = j
    BY <1>7, <2>7
  <2>13. \A j \in 1 .. Len(Free'), k \in 1 .. Len(Pending') : Free'[j] # Pending'[k].event
    BY <1>4, <1>7, <2>8
  <2>14. \A e \in Events :
              \/ \E j \in 1 .. Len(Free') : Free'[j] = e
              \/ \E k \in 1 .. Len(Pending') : Pending'[k].event = e
    BY <1>4, <1>7, <2>9
  <2>15. Events' = Events
    BY DEF Events
  <2> QED
    BY <2>10, <2>11, <2>12, <2>13, <2>14, <2>15 DEF EventsOwned
<1>13. QueueIsTail'
  <2>1. ASSUME NEW k \in 1 .. Q
        PROVE  Queued'[k] = Pending'[(P - 1) - Q + k]
    <3>1. (P - 1) - Q + k \in 1 .. P - 1 /\ ((P - 1) - Q + k) + 1 = P - Q + k
      BY <1>1, <1>8
    <3> QED
      BY <1>4, <1>8, <3>1
  <2> QED
    BY <1>2, <1>4, <1>8, <2>1 DEF QueueIsTail, Q
<1>14. StoppedOneByOne'
  BY <1>2, <1>5, <1>8 DEF IInv, StoppedOneByOne
<1>15. EachTakenOnce'
  <2>1. /\ \A w \in Threads : Working(w) => \E k \in 1 .. P - Q : worker[w].task = Pending[k]
        /\ \A v, w \in Threads :
              Working(v) /\ Working(w) /\ worker[v].task = worker[w].task => v = w
        /\ \A w \in Threads : Working(w) => worker[w].task.event \notin signaled
        /\ \A k \in 1 .. P - Q : \/ Pending[k].event \in signaled
                                 \/ \E w \in Threads : Working(w) /\ worker[w].task = Pending[k]
        /\ \A e \in signaled : \E k \in 1 .. P - Q : Pending[k].event = e
    BY DEF IInv, EachTakenOnce, P, Q
  <2>2. \A k \in 1 .. (P - 1) - Q : Pending'[k] = Pending[k + 1] /\ k + 1 \in 1 .. P - Q
    BY <1>1, <1>4, <1>8
  <2>3. \A w \in Threads : Working(w)' <=> Working(w)
    BY <1>5 DEF Working
  <2>4. ASSUME NEW k \in 1 .. P - Q, k # 1
        PROVE  \E i \in 1 .. (P - 1) - Q : Pending'[i] = Pending[k]
    <3>1. k - 1 \in 1 .. (P - 1) - Q /\ (k - 1) + 1 = k
      BY <1>1, <1>8, <2>4
    <3> QED
      BY <2>2, <3>1
  <2>5. ASSUME NEW w \in Threads, Working(w)
        PROVE  \E k \in 1 .. (P - 1) - Q : worker[w].task = Pending'[k]
    <3>1. PICK k \in 1 .. P - Q : worker[w].task = Pending[k]
      BY <2>1, <2>5
    <3>2. k # 1
      BY <1>4, <1>5, <2>1, <2>5, <3>1
    <3> QED
      BY <2>4, <3>1, <3>2
  <2>6. ASSUME NEW e \in signaled'
        PROVE  \E k \in 1 .. (P - 1) - Q : Pending'[k].event = e
    <3>1. PICK k \in 1 .. P - Q : Pending[k].event = e
      BY <1>5, <2>1
    <3>2. k # 1
      BY <1>4, <1>5, <3>1
    <3> QED
      BY <2>4, <3>1, <3>2
  <2>7. ASSUME NEW k \in 1 .. (P - 1) - Q
        PROVE  \/ Pending'[k].event \in signaled'
               \/ \E w \in Threads : Working(w) /\ worker[w].task = Pending'[k]
    <3>1. Pending[k + 1].event # task.event
      <4>1. k + 1 \in 1 .. P /\ k + 1 # 1
        BY <1>1, <1>8
      <4> QED
        BY <1>4, <1>6, <4>1 DEF IInv, EventsOwned, P
    <3> QED
      BY <1>5, <2>1, <2>2, <3>1
  <2>8. Len(Pending') - Len(Queued') = (P - 1) - Q
    BY <1>4, <1>8 DEF Q
  <2>9. \A v, w \in Threads :
            Working(v) /\ Working(w) /\ worker[v].task = worker[w].task => v = w
    BY <2>1
  <2>10. \A w \in Threads : Working(w) => worker[w].task.event \notin signaled'
    BY <1>5, <2>1
  <2> QED
    BY <1>5, <2>3, <2>5, <2>6, <2>7, <2>8, <2>9, <2>10 DEF EachTakenOnce
<1>16. StoredWhenSignaled'
  <2>1. /\ \A w \in Threads :
              worker[w].pc = "signal" => storage[worker[w].task.t] = worker[w].task.stripe
        /\ \A k \in 1 .. P :
              Pending[k].event \in signaled => storage[Pending[k].t] = Pending[k].stripe
    BY DEF IInv, StoredWhenSignaled, P
  <2>2. storage[task.t] = task.stripe
    BY <1>4, <1>5, <1>6, <2>1
  <2>3. \A k \in 1 .. P - 1 : Pending'[k] = Pending[k + 1] /\ k + 1 \in 1 .. P
    BY <1>1, <1>4
  <2> QED
    BY <1>4, <1>5, <2>1, <2>2, <2>3 DEF StoredWhenSignaled
<1> QED
  BY <1>9, <1>10, <1>11, <1>12, <1>13, <1>14, <1>15, <1>16 DEF IInv

LEMMA StopThreadIInv ==
    ASSUME IInv, StopThread
    PROVE  IInv'
<1>0. TypeOK
  BY DEF IInv
<1>1. /\ N \in Nat \ {0} /\ NumThreads = N /\ Threads = 0 .. N - 1 /\ Events = 1 .. N
      /\ Len(Pending) \in 0 .. N /\ Len(Queued) \in 0 .. N + 1 /\ stopped \in 0 .. N
  BY <1>0, Shapes DEF TypeOK
<1>2. /\ pc \in {"block", "finish"} /\ pc' = "await" /\ Reading = 0 /\ Reading' = 0
      /\ stopped # N
      /\ UNCHANGED <<file, block, left, issued, free_jobs, num_thread, job, stopped, used,
                     FinishedQueue, FreeEvents, signaled, finished, storage, worker>>
  BY <1>1 DEF StopThread, AllStopped, Reading
<1>3. Pending' = Pending /\ Free' = Free /\ Collected' = Collected
  BY <1>2 DEF Pending, Free, Collected
<1>4. Len(Pending) = 0 /\ Len(Queued) = 0
  BY <1>1, <1>2 DEF IInv, StoragesInTurn, QueueIsTail, StoppedOneByOne, InBlock
<1>5. NullTask \in Tasks
  BY <1>1 DEF NullTask, Task, Tasks
<1>6. /\ IsQueue(WorkerQueue', N + 1, Tasks)
      /\ Len(Queued') = 1
      /\ Queued'[1] = NullTask
  <2>1. IsQueue(WorkerQueue, N + 1, Tasks) /\ N + 1 \in Nat \ {0} /\ 0 < N + 1
    BY <1>0, <1>1 DEF TypeOK
  <2>2. /\ IsQueue(Put(WorkerQueue, NullTask), N + 1, Tasks)
        /\ Len(Contents(Put(WorkerQueue, NullTask))) = Len(Contents(WorkerQueue)) + 1
        /\ Contents(Put(WorkerQueue, NullTask))[Len(Contents(WorkerQueue)) + 1] = NullTask
    <3>1. Len(Contents(WorkerQueue)) < N + 1
      BY <1>4, <2>1 DEF Queued
    <3> QED
      BY <1>5, <2>1, <3>1, PutLast
  <2> QED
    BY <1>4, <2>2 DEF StopThread, Queued
<1>7. TypeOK'
  BY <1>0, <1>1, <1>2, <1>6 DEF TypeOK
<1>8. StripesInOrder'
  BY <1>2, <1>3 DEF IInv, StripesInOrder
<1>9. StoragesInTurn'
  BY <1>2, <1>3, <1>4 DEF StoragesInTurn, InBlock
<1>10. EventsOwned'
  BY <1>2, <1>3 DEF IInv, EventsOwned
<1>11. QueueIsTail'
  BY <1>2, <1>6 DEF QueueIsTail
<1>12. StoppedOneByOne'
  BY <1>1, <1>2, <1>6 DEF IInv, StoppedOneByOne
<1>13. EachTakenOnce'
  <2>1. 1 .. Len(Pending') - Len(Queued') = 1 .. Len(Pending) - Len(Queued)
    BY <1>3, <1>4, <1>6
  <2>2. \A w \in Threads : Working(w)' <=> Working(w)
    BY <1>2 DEF Working
  <2> QED
    BY <1>2, <1>3, <2>1, <2>2, EachTakenOnceStays DEF IInv
<1>14. StoredWhenSignaled'
  BY <1>2, <1>3 DEF IInv, StoredWhenSignaled
<1> QED
  BY <1>7, <1>8, <1>9, <1>10, <1>11, <1>12, <1>13, <1>14 DEF IInv

LEMMA AwaitThreadIInv ==
    ASSUME IInv, AwaitThread
    PROVE  IInv'
<1>0. TypeOK
  BY DEF IInv
<1>1. /\ N \in Nat \ {0} /\ NumThreads = N /\ Threads = 0 .. N - 1
      /\ Len(Queued) \in 0 .. N + 1 /\ stopped \in 0 .. N
  BY <1>0, Shapes DEF TypeOK
<1>2. /\ pc = "await" /\ pc' = "finish" /\ Reading = 0 /\ Reading' = 0
      /\ finished /\ finished' = FALSE /\ stopped' = stopped + 1
      /\ UNCHANGED <<file, block, left, issued, free_jobs, num_thread, job, used,
                     WorkerQueue, FinishedQueue, FreeEvents, signaled, storage, worker>>
  BY DEF AwaitThread, Reading, queues
<1>3. Pending' = Pending /\ Queued' = Queued /\ Free' = Free /\ Collected' = Collected
  BY <1>2 DEF Pending, Queued, Free, Collected
<1>4. stopped < N /\ Len(Queued) = 0 /\ \A w \in Threads : worker[w].pc # "exit"
  BY <1>2 DEF IInv, StoppedOneByOne
<1>5. TypeOK'
  <2>1. stopped' \in 0 .. NumThreads
    BY <1>1, <1>2, <1>4
  <2> QED
    BY <1>0, <1>2, <2>1 DEF TypeOK
<1>6. StripesInOrder'
  BY <1>2, <1>3 DEF IInv, StripesInOrder
<1>7. StoragesInTurn'
  BY <1>2, <1>3 DEF IInv, StoragesInTurn, InBlock
<1>8. EventsOwned'
  BY <1>2, <1>3 DEF IInv, EventsOwned
<1>9. QueueIsTail'
  BY <1>2, <1>3 DEF IInv, QueueIsTail
<1>10. StoppedOneByOne'
  BY <1>2, <1>3, <1>4 DEF StoppedOneByOne
<1>11. EachTakenOnce'
  <2>1. \A w \in Threads : Working(w)' <=> Working(w)
    BY <1>2 DEF Working
  <2> QED
    BY <1>2, <1>3, <2>1, EachTakenOnceStays DEF IInv
<1>12. StoredWhenSignaled'
  BY <1>2, <1>3 DEF IInv, StoredWhenSignaled
<1> QED
  BY <1>5, <1>6, <1>7, <1>8, <1>9, <1>10, <1>11, <1>12 DEF IInv

LEMMA DeleteEventsIInv ==
    ASSUME IInv, DeleteEvents
    PROVE  IInv'
<1>0. TypeOK
  BY DEF IInv
<1>1. N \in Nat \ {0} /\ NumThreads = N /\ Threads = 0 .. N - 1
  BY <1>0, Shapes
<1>2. /\ pc = "finish" /\ pc' = "done" /\ Reading = 0 /\ Reading' = 0 /\ AllStopped
      /\ FreeEvents' = SetSize(N, 0)
      /\ UNCHANGED <<file, block, left, issued, free_jobs, num_thread, job, stopped, used,
                     WorkerQueue, FinishedQueue, signaled, finished, storage, worker>>
  BY <1>1 DEF DeleteEvents, Reading
<1>3. Pending' = Pending /\ Queued' = Queued /\ Collected' = Collected
  BY <1>2 DEF Pending, Queued, Collected
<1>4. IsQueue(FreeEvents', N, 0 .. N)
  <2>1. IsQueue(SetSize(N, 0), N, 0 .. N)
    BY <1>1 DEF IsQueue, SetSize
  <2> QED
    BY <1>2, <2>1
<1>5. TypeOK'
  BY <1>0, <1>1, <1>2, <1>4 DEF TypeOK
<1>6. StripesInOrder'
  BY <1>2, <1>3 DEF IInv, StripesInOrder
<1>7. StoragesInTurn'
  BY <1>2, <1>3 DEF IInv, StoragesInTurn, InBlock
<1>8. EventsOwned'
  BY <1>2, <1>3 DEF IInv, EventsOwned
<1>9. QueueIsTail'
  BY <1>2, <1>3 DEF IInv, QueueIsTail
<1>10. StoppedOneByOne'
  BY <1>2, <1>3 DEF IInv, StoppedOneByOne, AllStopped
<1>11. EachTakenOnce'
  <2>1. \A w \in Threads : Working(w)' <=> Working(w)
    BY <1>2 DEF Working
  <2> QED
    BY <1>2, <1>3, <2>1, EachTakenOnceStays DEF IInv
<1>12. StoredWhenSignaled'
  BY <1>2, <1>3 DEF IInv, StoredWhenSignaled
<1> QED
  BY <1>5, <1>6, <1>7, <1>8, <1>9, <1>10, <1>11, <1>12 DEF IInv

\* A step of worker w that leaves the queues, the events and the storages alone and does
\* not change whether w is working: WaitForTask, Exit, and GetTask when it finds nothing.
LEMMA IdleStepIInv ==
    ASSUME IInv, NEW w \in Threads, NEW next \in {"wait", "get", "exited"},
           ~ Working(w),
           WorkerGoto(w, next),
           \/ finished' = finished /\ worker[w].pc # "exit"
           \/ finished' = TRUE /\ worker[w].pc = "exit",
           UNCHANGED <<file, mainVars, queues, signaled, storage>>
    PROVE  IInv'
<1>0. TypeOK
  BY DEF IInv
<1>1. /\ pc' = pc /\ Reading' = Reading /\ Collected' = Collected
      /\ UNCHANGED <<file, block, left, issued, free_jobs, num_thread, job, stopped, used,
                     WorkerQueue, FinishedQueue, FreeEvents, signaled, storage>>
  BY DEF mainVars, queues, Reading, Collected
<1>2. Pending' = Pending /\ Queued' = Queued /\ Free' = Free
  BY <1>1 DEF Pending, Queued, Free
<1>3. /\ worker' = [worker EXCEPT ![w].pc = next]
      /\ worker'[w].pc = next /\ worker'[w].task = worker[w].task
      /\ \A v \in Threads : v # w => worker'[v] = worker[v]
      /\ worker' \in [Threads -> [pc : {"get", "wait", "process", "signal", "exit", "exited"},
                                  task : Tasks]]
  BY <1>0 DEF TypeOK, WorkerGoto
<1>4. TypeOK'
  <2>1. finished' \in BOOLEAN
    BY <1>0 DEF TypeOK
  <2> QED
    BY <1>0, <1>1, <1>3, <2>1 DEF TypeOK
<1>5. StripesInOrder'
  BY <1>1, <1>2 DEF IInv, StripesInOrder
<1>6. StoragesInTurn'
  BY <1>1, <1>2 DEF IInv, StoragesInTurn, InBlock
<1>7. EventsOwned'
  BY <1>1, <1>2 DEF IInv, EventsOwned
<1>8. QueueIsTail'
  BY <1>1, <1>2 DEF IInv, QueueIsTail
<1>9. StoppedOneByOne'
  <2>1. worker'[w].pc # "exit" /\ \A v \in Threads : v # w => worker'[v] = worker[v]
    BY <1>3
  <2> QED
    BY <1>1, <1>2, <2>1 DEF IInv, StoppedOneByOne, AllStopped
<1>10. EachTakenOnce'
  <2>1. \A v \in Threads : /\ Working(v)' <=> Working(v)
                           /\ Working(v) => worker'[v].task = worker[v].task
    BY <1>3 DEF Working
  <2> QED
    BY <1>1, <1>2, <2>1, EachTakenOnceStays DEF IInv
<1>11. StoredWhenSignaled'
  BY <1>1, <1>2, <1>3 DEF IInv, StoredWhenSignaled
<1> QED
  BY <1>4, <1>5, <1>6, <1>7, <1>8, <1>9, <1>10, <1>11 DEF IInv

LEMMA GetTaskIInv ==
    ASSUME IInv, NEW w \in Threads, GetTask(w)
    PROVE  IInv'
<1> DEFINE task == Oldest(WorkerQueue)
<1> DEFINE P == Len(Pending)
<1> DEFINE Q == Len(Queued)
<1>0. TypeOK
  BY DEF IInv
<1>1. /\ N \in Nat \ {0} /\ NumThreads = N /\ Threads = 0 .. N - 1 /\ Events = 1 .. N
      /\ P \in 0 .. N /\ Q \in 0 .. N + 1
  BY <1>0, Shapes
<1>2. /\ worker[w].pc = "get" /\ ~ Working(w)
      /\ UNCHANGED <<file, mainVars, FinishedQueue, FreeEvents, signaled, finished>>
  BY DEF GetTask, Working
<1>3. /\ pc' = pc /\ Reading' = Reading /\ Collected' = Collected
      /\ UNCHANGED <<file, block, left, issued, free_jobs, num_thread, job, stopped, used,
                     FinishedQueue, FreeEvents, signaled, finished>>
      /\ Pending' = Pending /\ Free' = Free
  BY <1>2 DEF mainVars, Reading, Collected, Pending, Free
<1>4. CASE ObjectsInQueue(WorkerQueue) = 0
  <2>1. WorkerGoto(w, "wait") /\ UNCHANGED <<WorkerQueue, storage>>
    BY <1>4 DEF GetTask
  <2> QED
    BY <1>2, <2>1, IdleStepIInv DEF queues
<1>5. CASE ObjectsInQueue(WorkerQueue) # 0
  <2>1. IsQueue(WorkerQueue, N + 1, Tasks) /\ N + 1 \in Nat \ {0} /\ ObjectsInQueue(WorkerQueue) > 0
    <3>1. IsQueue(WorkerQueue, N + 1, Tasks) /\ N + 1 \in Nat \ {0}
      BY <1>0, <1>1 DEF TypeOK
    <3>2. ObjectsInQueue(WorkerQueue) \in 0 .. N + 1
      BY <3>1, QueueIsSequence
    <3> QED
      BY <1>1, <1>5, <3>1, <3>2
  <2>2. WorkerQueue' = Taken(WorkerQueue)
    BY <1>5 DEF GetTask
  <2>3. /\ IsQueue(WorkerQueue', N + 1, Tasks)
        /\ Q > 0 /\ task = Queued[1] /\ task \in Tasks
        /\ Len(Queued') = Q - 1
        /\ \A k \in 1 .. Q - 1 : Queued'[k] = Queued[k + 1]
    BY <2>1, <2>2, TakeFirst DEF Queued
  <2>4. \/ /\ task.event = 0
           /\ worker' = [worker EXCEPT ![w] = [pc |-> "exit", task |-> task]]
           /\ UNCHANGED storage
        \/ /\ task.event # 0
           /\ worker' = [worker EXCEPT ![w] = [pc |-> "process", task |-> task]]
           /\ storage' = [storage EXCEPT ![task.t] = 0]
    BY <1>5 DEF GetTask
  <2> HIDE DEF task, P, Q
  <2>5. /\ worker'[w].task = task
        /\ worker'[w].pc = IF task.event = 0 THEN "exit" ELSE "process"
        /\ \A v \in Threads : v # w => worker'[v] = worker[v]
        /\ worker' \in [Threads -> [pc : {"get", "wait", "process", "signal", "exit", "exited"},
                                    task : Tasks]]
    <3> DEFINE next == IF task.event = 0 THEN "exit" ELSE "process"
    <3>1. worker' = [worker EXCEPT ![w] = [pc |-> next, task |-> task]]
      BY <2>4
    <3>2. next \in {"get", "wait", "process", "signal", "exit", "exited"}
      OBVIOUS
    <3> HIDE DEF next
    <3>3. /\ worker'[w].task = task /\ worker'[w].pc = next
          /\ \A v \in Threads : v # w => worker'[v] = worker[v]
          /\ worker' \in [Threads -> [pc : {"get", "wait", "process", "signal", "exit", "exited"},
                                      task : Tasks]]
      BY <1>0, <2>3, <3>1, <3>2 DEF TypeOK
    <3> QED
      BY <3>3 DEF next
  <2>6. task.t \in Threads /\ task.stripe \in Nat
    BY <2>3 DEF Tasks
  <2>7. storage' \in [Threads -> Nat]
    <3>1. storage \in [Threads -> Nat]
      BY <1>0 DEF TypeOK
    <3>2. CASE storage' = storage
      BY <3>1, <3>2
    <3>3. CASE storage' = [storage EXCEPT ![task.t] = 0]
      BY <2>6, <3>1, <3>3
    <3> QED
      BY <2>4, <3>2, <3>3
  <2>8. TypeOK'
    BY <1>0, <1>1, <1>3, <2>3, <2>5, <2>7 DEF TypeOK
  <2>9. StripesInOrder'
    BY <1>3 DEF IInv, StripesInOrder
  <2>10. StoragesInTurn'
    BY <1>3 DEF IInv, StoragesInTurn, InBlock
  <2>11. EventsOwned'
    BY <1>3 DEF IInv, EventsOwned
  <2>12. CASE pc \in {"block", "loop", "read"}
    <3>1. Q <= P /\ \A k \in 1 .. Q : Queued[k] = Pending[P - Q + k]
      BY <2>12 DEF IInv, QueueIsTail, P, Q
    <3> DEFINE n == P - Q + 1
    <3>2. n \in 1 .. P /\ 1 \in 1 .. Q /\ task = Pending[n]
      BY <1>1, <2>3, <3>1
    <3>3. task.event \in Events /\ task.event # 0
      BY <1>1, <3>2 DEF IInv, EventsOwned, P
    <3>4. Len(Pending') - Len(Queued') = n
      BY <1>1, <1>3, <2>3 DEF P
    <3>5. P - Q \in Nat /\ n = P - Q + 1
      BY <1>1, <3>1
    <3> HIDE DEF n
    <3>6. QueueIsTail'
      <4>1. ASSUME NEW k \in 1 .. Q - 1
            PROVE  Queued'[k] = Pending[P - (Q - 1) + k]
        <5>1. k + 1 \in 1 .. Q /\ P - Q + (k + 1) = P - (Q - 1) + k
          BY <1>1
        <5> QED
          BY <2>3, <3>1, <5>1
      <4> QED
        BY <1>1, <1>3, <2>3, <2>12, <3>1, <4>1 DEF QueueIsTail, P
    <3>7. StoppedOneByOne'
      BY <1>3, <2>5, <2>12, <3>3 DEF IInv, StoppedOneByOne
    <3>8. /\ \A v \in Threads : Working(v) => v # w
          /\ \A v \in Threads : Working(v)' <=> Working(v) \/ v = w
          /\ \A v \in Threads : Working(v) => worker'[v].task = worker[v].task
      BY <1>2, <2>5, <3>3 DEF Working
    <3>9. \A v \in Threads : Working(v) => \E k \in 1 .. P - Q : worker[v].task = Pending[k]
      BY DEF IInv, EachTakenOnce, P, Q
    <3>10. \A j, k \in 1 .. P : Pending[j].event = Pending[k].event => j = k
      BY DEF IInv, EventsOwned, P
    <3>11. \A k \in 1 .. P - Q : k \in 1 .. P /\ k \in 1 .. n /\ Pending[k].event # task.event
      <4>1. \A k \in 1 .. P - Q : k \in 1 .. P /\ k \in 1 .. n /\ k # n
        BY <1>1, <3>5
      <4> QED
        BY <3>2, <3>10, <4>1
    <3>12. task.event \notin signaled
      BY <3>11 DEF IInv, EachTakenOnce, P, Q
    <3>13. EachTakenOnce'
      <4>1. ASSUME NEW v \in Threads, Working(v)'
            PROVE  \E k \in 1 .. n : worker'[v].task = Pending[k]
        <5>1. CASE v = w
          <6>1. n \in 1 .. n
            BY <3>5
          <6> QED
            BY <2>5, <3>2, <5>1, <6>1
        <5>2. CASE v # w
          BY <3>8, <3>9, <3>11, <4>1, <5>2
        <5> QED
          BY <5>1, <5>2
      <4>2. ASSUME NEW u \in Threads, NEW v \in Threads, Working(u)', Working(v)',
                   worker'[u].task = worker'[v].task
            PROVE  u = v
        <5>1. \A x \in Threads : x # w /\ Working(x)' => worker'[x].task # task
          BY <3>8, <3>9, <3>11
        <5>2. CASE u = w \/ v = w
          BY <2>5, <4>2, <5>1, <5>2
        <5>3. CASE u # w /\ v # w
          <6>1. Working(u) /\ Working(v) /\ worker[u].task = worker[v].task
            BY <3>8, <4>2, <5>3
          <6> QED
            BY <6>1 DEF IInv, EachTakenOnce
        <5> QED
          BY <5>2, <5>3
      <4>3. ASSUME NEW v \in Threads, Working(v)'
            PROVE  worker'[v].task.event \notin signaled'
        <5>1. CASE v = w
          BY <1>3, <2>5, <3>12, <5>1
        <5>2. CASE v # w
          <6>1. Working(v) /\ worker'[v].task = worker[v].task
            BY <3>8, <4>3, <5>2
          <6> QED
            BY <1>3, <6>1 DEF IInv, EachTakenOnce
        <5> QED
          BY <5>1, <5>2
      <4>4. ASSUME NEW k \in 1 .. n
            PROVE  \/ Pending[k].event \in signaled
                   \/ \E v \in Threads : Working(v)' /\ worker'[v].task = Pending[k]
        <5>1. CASE k = n
          BY <2>5, <3>2, <3>8, <5>1
        <5>2. CASE k # n
          <6>1. k \in 1 .. P - Q
            BY <1>1, <3>5, <5>2
          <6>2. \/ Pending[k].event \in signaled
                \/ \E v \in Threads : Working(v) /\ worker[v].task = Pending[k]
            BY <6>1 DEF IInv, EachTakenOnce, P, Q
          <6> QED
            BY <3>8, <6>2
        <5> QED
          BY <5>1, <5>2
      <4>5. ASSUME NEW e \in signaled
            PROVE  \E k \in 1 .. n : Pending[k].event = e
        <5>1. PICK k \in 1 .. P - Q : Pending[k].event = e
          BY DEF IInv, EachTakenOnce, P, Q
        <5> QED
          BY <3>11, <5>1
      <4> QED
        BY <1>3, <3>4, <4>1, <4>2, <4>3, <4>4, <4>5 DEF EachTakenOnce
    <3>14. StoredWhenSignaled'
      <4>1. storage' = [storage EXCEPT ![task.t] = 0]
        BY <2>4, <3>3
      <4>2. \A t \in Threads : t # task.t => storage'[t] = storage[t]
        BY <1>0, <4>1 DEF TypeOK
      <4>3. \A k \in 1 .. P - Q : Pending[k].t # task.t /\ Pending[k].t \in Threads
        <5>1. \A j, k \in 1 .. P : Pending[j].t = Pending[k].t => j = k
          BY <1>0, StoragesDistinct DEF IInv, P
        <5>2. \A k \in 1 .. P - Q : k \in 1 .. P /\ k # n
          BY <1>1, <3>5
        <5>3. \A k \in 1 .. P : Pending[k] \in Tasks
          BY <1>0, Shapes DEF P
        <5> QED
          BY <3>2, <5>1, <5>2, <5>3 DEF Tasks
      <4>4. ASSUME NEW v \in Threads, worker'[v].pc = "signal"
            PROVE  storage'[worker'[v].task.t] = worker'[v].task.stripe
        <5>1. v # w /\ worker'[v] = worker[v]
          BY <2>5, <3>3, <4>4
        <5>2. PICK k \in 1 .. P - Q : worker[v].task = Pending[k]
          BY <3>9, <4>4, <5>1 DEF Working
        <5>3. storage[worker[v].task.t] = worker[v].task.stripe
          BY <4>4, <5>1 DEF IInv, StoredWhenSignaled
        <5> QED
          BY <4>2, <4>3, <5>1, <5>2, <5>3
      <4>5. ASSUME NEW k \in 1 .. P, Pending[k].event \in signaled
            PROVE  storage'[Pending[k].t] = Pending[k].stripe
        <5>1. PICK i \in 1 .. P - Q : Pending[i].event = Pending[k].event
          BY <4>5 DEF IInv, EachTakenOnce, P, Q
        <5>2. k = i
          BY <3>10, <3>11, <5>1
        <5>3. storage[Pending[k].t] = Pending[k].stripe
          BY <4>5 DEF IInv, StoredWhenSignaled, P
        <5> QED
          BY <4>2, <4>3, <5>2, <5>3
      <4>6. ASSUME pc = "read"
            PROVE  storage'[job.t] = job.stripe
        <5>1. job.t # task.t
          BY <1>0, <3>2, <4>6, StoragesDistinct DEF IInv, P
        <5>2. job.t \in Threads
          BY <1>0 DEF TypeOK, Tasks
        <5> QED
          BY <4>2, <4>6, <5>1, <5>2 DEF IInv, StoredWhenSignaled
      <4> QED
        BY <1>3, <4>4, <4>5, <4>6 DEF StoredWhenSignaled, P
    <3> QED
      BY <2>8, <2>9, <2>10, <2>11, <3>6, <3>7, <3>13, <3>14 DEF IInv
  <2>13. CASE pc \notin {"block", "loop", "read"}
    <3>1. task = NullTask /\ task.event = 0
      <4>1. 1 \in 1 .. Q
        BY <1>1, <2>3
      <4>2. task = NullTask
        BY <2>3, <2>13, <4>1 DEF IInv, QueueIsTail, Q
      <4> QED
        BY <4>2 DEF NullTask, Task
    <3>2. storage' = storage /\ worker'[w].pc = "exit"
      BY <2>4, <2>5, <3>1
    <3>3. pc = "await" /\ Q = 1 /\ P = 0 /\ stopped < N /\ ~ finished
          /\ \A v \in Threads : worker[v].pc # "exit"
      <4>1. Q # 0 /\ pc \in {"finish", "await", "done"}
        BY <1>0, <1>1, <2>3, <2>13 DEF TypeOK
      <4>2. pc = "await" /\ Q <= 1 /\ stopped < N
        BY <4>1 DEF IInv, StoppedOneByOne, Q
      <4>3. P = 0
        BY <2>13 DEF IInv, StoragesInTurn, InBlock, P
      <4>4. Q = 1
        BY <1>1, <4>1, <4>2
      <4>5. ~ finished /\ \A v \in Threads : worker[v].pc # "exit"
        BY <4>1, <4>2 DEF IInv, StoppedOneByOne, Q
      <4> QED
        BY <4>2, <4>3, <4>4, <4>5
    <3>4. Len(Queued') = 0
      BY <2>3, <3>3
    <3>5. QueueIsTail'
      BY <1>3, <2>13, <3>4 DEF QueueIsTail
    <3>6. StoppedOneByOne'
      BY <1>3, <2>5, <3>3, <3>4 DEF StoppedOneByOne
    <3>7. EachTakenOnce'
      <4>1. 1 .. Len(Pending') - Len(Queued') = 1 .. Len(Pending) - Len(Queued)
        BY <1>3, <3>3, <3>4 DEF P, Q
      <4>2. \A v \in Threads : /\ Working(v)' <=> Working(v)
                               /\ Working(v) => worker'[v].task = worker[v].task
        BY <1>2, <2>5, <3>2 DEF Working
      <4> QED
        BY <1>3, <4>1, <4>2, EachTakenOnceStays DEF IInv
    <3>8. StoredWhenSignaled'
      BY <1>3, <2>5, <3>2 DEF IInv, StoredWhenSignaled
    <3> QED
      BY <2>8, <2>9, <2>10, <2>11, <3>5, <3>6, <3>7, <3>8 DEF IInv
  <2> QED
    BY <2>12, <2>13
<1> QED
  BY <1>4, <1>5

LEMMA ProcessIInv ==
    ASSUME IInv, NEW w \in Threads, Process(w)
    PROVE  IInv'
<1> DEFINE P == Len(Pending)
<1> DEFINE Q == Len(Queued)
<1> DEFINE task == worker[w].task
<1>0. TypeOK
  BY DEF IInv
<1>1. /\ P \in 0 .. N /\ Q \in 0 .. N + 1
      /\ \A k \in 1 .. P : Pending[k] \in Tasks
      /\ task \in Tasks
      /\ N \in Nat
  BY <1>0, Shapes
<1>2. /\ worker[w].pc = "process" /\ Working(w)
      /\ storage' = [storage EXCEPT ![task.t] = task.stripe]
      /\ worker' = [worker EXCEPT ![w].pc = "signal"]
      /\ UNCHANGED <<file, mainVars, queues, signaled, finished>>
  BY DEF Process, WorkerGoto, Working
<1>3. /\ pc' = pc /\ Reading' = Reading /\ Collected' = Collected
      /\ UNCHANGED <<file, block, left, issued, free_jobs, num_thread, job, stopped, used,
                     WorkerQueue, FinishedQueue, FreeEvents, signaled, finished>>
      /\ Pending' = Pending /\ Queued' = Queued /\ Free' = Free
  BY <1>2 DEF mainVars, queues, Reading, Collected, Pending, Queued, Free
<1>4. /\ worker'[w].pc = "signal" /\ worker'[w].task = task
      /\ \A v \in Threads : v # w => worker'[v] = worker[v]
      /\ worker' \in [Threads -> [pc : {"get", "wait", "process", "signal", "exit", "exited"},
                                  task : Tasks]]
  BY <1>0, <1>2 DEF TypeOK
<1>5. /\ storage' \in [Threads -> Nat]
      /\ storage'[task.t] = task.stripe
      /\ \A t \in Threads : t # task.t => storage'[t] = storage[t]
  <2>1. task.t \in Threads /\ task.stripe \in Nat
    BY <1>1 DEF Tasks
  <2> HIDE DEF task
  <2> QED
    BY <1>0, <1>2, <2>1 DEF TypeOK
<1>6. PICK n \in 1 .. P - Q : task = Pending[n]
  BY <1>2 DEF IInv, EachTakenOnce
<1>7. n \in 1 .. P /\ \A k \in 1 .. P - Q : k \in 1 .. P
  BY <1>1
<1>8. \A k \in 1 .. P : k # n => Pending[k].t # task.t /\ Pending[k].t \in Threads
  <2>1. \A j, k \in 1 .. P : Pending[j].t = Pending[k].t => j = k
    BY <1>0, StoragesDistinct DEF IInv
  <2> HIDE DEF P
  <2> QED
    BY <1>1, <1>6, <1>7, <2>1 DEF Tasks
<1> HIDE DEF P, Q, task
<1>9. TypeOK'
  BY <1>0, <1>3, <1>4, <1>5 DEF TypeOK
<1>10. StripesInOrder'
  BY <1>3 DEF IInv, StripesInOrder
<1>11. StoragesInTurn'
  BY <1>3 DEF IInv, StoragesInTurn, InBlock
<1>12. EventsOwned'
  BY <1>3 DEF IInv, EventsOwned
<1>13. QueueIsTail'
  BY <1>3 DEF IInv, QueueIsTail
<1>14. StoppedOneByOne'
  BY <1>3, <1>4 DEF IInv, StoppedOneByOne, AllStopped
<1>15. EachTakenOnce'
  <2>1. \A v \in Threads : /\ Working(v)' <=> Working(v)
                           /\ Working(v) => worker'[v].task = worker[v].task
    BY <1>2, <1>4 DEF Working, task
  <2> QED
    BY <1>3, <2>1, EachTakenOnceStays DEF IInv
<1>16. StoredWhenSignaled'
  <2>1. ASSUME NEW v \in Threads, worker'[v].pc = "signal"
        PROVE  storage'[worker'[v].task.t] = worker'[v].task.stripe
    <3>1. CASE v = w
      BY <1>4, <1>5, <3>1
    <3>2. CASE v # w
      <4>1. worker'[v] = worker[v] /\ worker[v].pc = "signal" /\ Working(v)
        BY <1>4, <2>1, <3>2 DEF Working
      <4>2. PICK k \in 1 .. P - Q : worker[v].task = Pending[k]
        BY <4>1 DEF IInv, EachTakenOnce, P, Q
      <4>3. k # n
        <5>1. worker[v].task # worker[w].task
          BY <1>2, <3>2, <4>1 DEF IInv, EachTakenOnce
        <5> QED
          BY <1>6, <4>2, <5>1 DEF task
      <4>4. storage[worker[v].task.t] = worker[v].task.stripe
        BY <4>1 DEF IInv, StoredWhenSignaled
      <4> QED
        BY <1>5, <1>7, <1>8, <4>1, <4>2, <4>3, <4>4
    <3> QED
      BY <3>1, <3>2
  <2>2. ASSUME NEW k \in 1 .. P, Pending[k].event \in signaled
        PROVE  storage'[Pending[k].t] = Pending[k].stripe
    <3>1. k # n
      BY <1>2, <1>6, <2>2 DEF IInv, EachTakenOnce, task
    <3>2. storage[Pending[k].t] = Pending[k].stripe
      BY <2>2 DEF IInv, StoredWhenSignaled, P
    <3> QED
      BY <1>5, <1>8, <3>1, <3>2
  <2>3. ASSUME pc = "read"
        PROVE  storage'[job.t] = job.stripe
    <3>1. job.t # task.t
      BY <1>0, <1>6, <1>7, <2>3, StoragesDistinct DEF IInv, P
    <3>2. job.t \in Threads
      BY <1>0 DEF TypeOK, Tasks
    <3> QED
      BY <1>5, <2>3, <3>1, <3>2 DEF IInv, StoredWhenSignaled
  <2> QED
    BY <1>3, <2>1, <2>2, <2>3 DEF StoredWhenSignaled, P
<1> QED
  BY <1>9, <1>10, <1>11, <1>12, <1>13, <1>14, <1>15, <1>16 DEF IInv

LEMMA SignalIInv ==
    ASSUME IInv, NEW w \in Threads, Signal(w)
    PROVE  IInv'
<1> DEFINE P == Len(Pending)
<1> DEFINE Q == Len(Queued)
<1> DEFINE task == worker[w].task
<1>0. TypeOK
  BY DEF IInv
<1>1. /\ P \in 0 .. N /\ Q \in 0 .. N + 1
      /\ \A k \in 1 .. P : Pending[k] \in Tasks
      /\ N \in Nat
  BY <1>0, Shapes
<1>2. /\ worker[w].pc = "signal" /\ Working(w)
      /\ signaled' = signaled \cup {task.event}
      /\ worker' = [worker EXCEPT ![w].pc = "get"]
      /\ UNCHANGED <<file, mainVars, queues, finished, storage>>
  BY DEF Signal, WorkerGoto, Working
<1>3. /\ pc' = pc /\ Reading' = Reading /\ Collected' = Collected
      /\ UNCHANGED <<file, block, left, issued, free_jobs, num_thread, job, stopped, used,
                     WorkerQueue, FinishedQueue, FreeEvents, finished, storage>>
      /\ Pending' = Pending /\ Queued' = Queued /\ Free' = Free
  BY <1>2 DEF mainVars, queues, Reading, Collected, Pending, Queued, Free
<1>4. /\ worker'[w].pc = "get" /\ worker'[w].task = task
      /\ \A v \in Threads : v # w => worker'[v] = worker[v]
      /\ worker' \in [Threads -> [pc : {"get", "wait", "process", "signal", "exit", "exited"},
                                  task : Tasks]]
  BY <1>0, <1>2 DEF TypeOK
<1>5. PICK n \in 1 .. P - Q : task = Pending[n]
  BY <1>2 DEF IInv, EachTakenOnce
<1>6. n \in 1 .. P /\ \A k \in 1 .. P - Q : k \in 1 .. P
  BY <1>1
<1>7. task.event \in Events /\ \A k \in 1 .. P : Pending[k].event = task.event => k = n
  BY <1>5, <1>6 DEF IInv, EventsOwned
<1>8. \A v \in Threads : Working(v)' => /\ v # w /\ Working(v)
                                        /\ worker'[v].task = worker[v].task
  BY <1>4 DEF Working
<1> HIDE DEF P, Q, task
<1>9. TypeOK'
  <2>1. signaled' \subseteq Events
    BY <1>0, <1>2, <1>7 DEF TypeOK
  <2> QED
    BY <1>0, <1>3, <1>4, <2>1 DEF TypeOK
<1>10. StripesInOrder'
  BY <1>3 DEF IInv, StripesInOrder
<1>11. StoragesInTurn'
  BY <1>3 DEF IInv, StoragesInTurn, InBlock
<1>12. EventsOwned'
  BY <1>3 DEF IInv, EventsOwned
<1>13. QueueIsTail'
  BY <1>3 DEF IInv, QueueIsTail
<1>14. StoppedOneByOne'
  BY <1>3, <1>4 DEF IInv, StoppedOneByOne, AllStopped
<1>15. EachTakenOnce'
  <2>1. \A v \in Threads : Working(v) =>
           \E k \in 1 .. P - Q : worker[v].task = Pending[k]
    BY DEF IInv, EachTakenOnce, P, Q
  <2>2. \A v \in Threads : Working(v)' =>
           \E k \in 1 .. P - Q : worker'[v].task = Pending[k]
    BY <1>8, <2>1
  <2>3. \A u, v \in Threads :
           Working(u) /\ Working(v) /\ worker[u].task = worker[v].task => u = v
    BY DEF IInv, EachTakenOnce
  <2>4. \A u, v \in Threads :
           Working(u)' /\ Working(v)' /\ worker'[u].task = worker'[v].task => u = v
    BY <1>8, <2>3
  <2>5. ASSUME NEW v \in Threads, Working(v)'
        PROVE  worker'[v].task.event \notin signaled'
    <3>1. v # w /\ Working(v) /\ worker'[v].task = worker[v].task
      BY <1>8, <2>5
    <3>2. worker[v].task.event \notin signaled
      BY <3>1 DEF IInv, EachTakenOnce
    <3>3. PICK k \in 1 .. P - Q : worker[v].task = Pending[k]
      BY <2>1, <3>1
    <3>4. k # n
      BY <1>2, <1>5, <2>3, <3>1, <3>3 DEF task
    <3>5. worker[v].task.event # task.event
      BY <1>6, <1>7, <3>3, <3>4
    <3> QED
      BY <1>2, <3>1, <3>2, <3>5
  <2>6. ASSUME NEW k \in 1 .. P - Q
        PROVE  \/ Pending[k].event \in signaled'
               \/ \E v \in Threads : Working(v)' /\ worker'[v].task = Pending[k]
    <3>1. CASE Pending[k].event \in signaled
      BY <1>2, <3>1
    <3>2. CASE Pending[k].event \notin signaled
      <4>1. PICK v \in Threads : Working(v) /\ worker[v].task = Pending[k]
        BY <3>2 DEF IInv, EachTakenOnce, P, Q
      <4>2. CASE v = w
        BY <1>2, <4>1, <4>2 DEF task
      <4>3. CASE v # w
        BY <1>4, <4>1, <4>3 DEF Working
      <4> QED
        BY <4>2, <4>3
    <3> QED
      BY <3>1, <3>2
  <2>7. ASSUME NEW e \in signaled'
        PROVE  \E k \in 1 .. P - Q : Pending[k].event = e
    <3>1. CASE e = task.event
      BY <1>5, <3>1
    <3>2. CASE e \in signaled
      BY <3>2 DEF IInv, EachTakenOnce, P, Q
    <3> QED
      BY <1>2, <2>7, <3>1, <3>2
  <2> QED
    BY <1>3, <2>2, <2>4, <2>5, <2>6, <2>7 DEF EachTakenOnce, P, Q
<1>16. StoredWhenSignaled'
  <2>1. \A v \in Threads :
           worker'[v].pc = "signal" => storage'[worker'[v].task.t] = worker'[v].task.stripe
    BY <1>3, <1>4 DEF IInv, StoredWhenSignaled
  <2>2. ASSUME NEW k \in 1 .. P, Pending[k].event \in signaled'
        PROVE  storage[Pending[k].t] = Pending[k].stripe
    <3>1. CASE Pending[k].event \in signaled
      BY <3>1 DEF IInv, StoredWhenSignaled, P
    <3>2. CASE Pending[k].event = task.event
      <4>1. Pending[k] = task
        BY <1>5, <1>7, <3>2
      <4>2. storage[task.t] = task.stripe
        BY <1>2 DEF IInv, StoredWhenSignaled, task
      <4> QED
        BY <4>1, <4>2
    <3> QED
      BY <1>2, <2>2, <3>1, <3>2
  <2> QED
    BY <1>3, <2>1, <2>2 DEF IInv, StoredWhenSignaled, P
<1> QED
  BY <1>9, <1>10, <1>11, <1>12, <1>13, <1>14, <1>15, <1>16 DEF IInv

-----------------------------------------------------------------------------
(* The inductive invariant, and what follows from it. *)

LEMMA StepIInv == IInv /\ [Next]_vars => IInv'
<1> SUFFICES ASSUME IInv, [Next]_vars PROVE IInv'
  OBVIOUS
<1>1. CASE UNCHANGED vars
  BY <1>1, StutterIInv
<1>2. CASE MainStep
  BY <1>2, StartBlockIInv, PutJobIInv, GetJobIInv, UseChunksIInv, EndBlockIInv, StopThreadIInv,
     AwaitThreadIInv, DeleteEventsIInv DEF MainStep
<1>3. ASSUME NEW w \in Threads, WorkerStep(w) PROVE IInv'
  <2>1. CASE WaitForTask(w)
    <3>1. ~ Working(w) /\ worker[w].pc # "exit"
      BY <2>1 DEF WaitForTask, Working
    <3> QED
      BY <2>1, <3>1, IdleStepIInv DEF WaitForTask
  <2>2. CASE Exit(w)
    <3>1. ~ Working(w)
      BY <2>2 DEF Exit, Working
    <3> QED
      BY <2>2, <3>1, IdleStepIInv DEF Exit
  <2> QED
    BY <1>3, <2>1, <2>2, GetTaskIInv, ProcessIInv, SignalIInv DEF WorkerStep
<1> QED
  BY <1>1, <1>2, <1>3 DEF Next, Terminated

\* In every reachable state the pending jobs are consecutive stripes with consecutive
\* storages and events of their own, of which the worker queue holds a tail.
THEOREM Invariance == Spec => []IInv
<1>1. IInv /\ [Next]_vars => IInv'
  BY StepIInv
<1> QED
  BY <1>1, InitIInv, PTL DEF Spec

\* In particular the queues have a free cell whenever something is put, and the pending
\* jobs, the free events and the stopped threads never outnumber the threads.
THEOREM TypeCorrect == Spec => []TypeOK
<1>1. IInv => TypeOK
  BY DEF IInv
<1> QED
  BY <1>1, Invariance, PTL

\* A worker never fills a storage that another worker is filling or the main thread is
\* reading, whatever the number of threads and of stripes.
THEOREM Exclusive == Spec => []StorageExclusive
<1>1. ASSUME IInv PROVE StorageExclusive
  <2> DEFINE P == Len(Pending)
  <2> DEFINE Q == Len(Queued)
  <2>1. P \in Nat /\ Q \in Nat /\ \A k \in 1 .. P - Q : k \in 1 .. P
    BY <1>1, Shapes DEF IInv
  <2>2. ASSUME NEW w \in Threads, worker[w].pc = "process"
        PROVE  \E k \in 1 .. P : worker[w].task = Pending[k]
    <3>1. \E k \in 1 .. P - Q : worker[w].task = Pending[k]
      BY <1>1, <2>2 DEF IInv, EachTakenOnce, Working
    <3> HIDE DEF P, Q
    <3> QED
      BY <2>1, <3>1
  <2>3. /\ \A j, k \in 1 .. P : Pending[j].t = Pending[k].t => j = k
        /\ pc = "read" => \A k \in 1 .. P : Pending[k].t # job.t
    BY <1>1, StoragesDistinct DEF IInv
  <2> HIDE DEF P, Q
  <2>4. ASSUME NEW w \in Threads, worker[w].pc = "process", pc = "read"
        PROVE  job.t # worker[w].task.t
    BY <2>2, <2>3, <2>4
  <2>5. ASSUME NEW w \in Threads, worker[w].pc = "process",
               NEW v \in Threads \ {w}, worker[v].pc = "process"
        PROVE  worker[v].task.t # worker[w].task.t
    <3>1. worker[v].task # worker[w].task
      BY <1>1, <2>5 DEF IInv, EachTakenOnce, Working
    <3> QED
      BY <2>2, <2>3, <2>5, <3>1
  <2> QED
    BY <2>4, <2>5 DEF StorageExclusive
<1> QED
  BY <1>1, Invariance, PTL

\* A one-to-one function maps a finite set to one of the same size.
LEMMA SameSize ==
    ASSUME NEW S, NEW T, IsFiniteSet(S), NEW f \in [S -> T],
           \A x, y \in S : f[x] = f[y] => x = y,
           \A z \in T : \E x \in S : f[x] = z
    PROVE  IsFiniteSet(T) /\ Cardinality(T) = Cardinality(S)
<1>1. f \in Bijection(S, T)
  BY DEF Bijection, Injection, Surjection, IsInjective
<1>2. ExistsBijection(S, T)
  BY <1>1 DEF ExistsBijection
<1> QED
  BY <1>2, FS_Bijection

\* The pending jobs are those in the worker queue, those at a worker and those whose event
\* is set, and none is in two of these places.
LEMMA InOnePlace ==
    ASSUME IInv
    PROVE  LET queued == {k \in DOMAIN Queued : Queued[k].event # 0}
               active == {w \in Threads : Working(w)}
           IN Cardinality(queued) + Cardinality(active) + Cardinality(signaled) = Len(Pending)
<1> DEFINE P == Len(Pending)
<1> DEFINE Q == Len(Queued)
<1> DEFINE queued == {k \in DOMAIN Queued : Queued[k].event # 0}
<1> DEFINE active == {w \in Threads : Working(w)}
<1> DEFINE D == 1 .. P - Q
<1> DEFINE set == {k \in D : Pending[k].event \in signaled}
<1>0. TypeOK
  BY DEF IInv
<1>1. /\ P \in Nat /\ Q \in Nat /\ Queued \in Seq(Tasks) /\ DOMAIN Queued = 1 .. Q
      /\ Threads = 0 .. N - 1 /\ N \in Nat \ {0}
  BY <1>0, Shapes
<1>2. /\ \A k \in D : k \in 1 .. P
      /\ \A j, k \in 1 .. P : Pending[j].event = Pending[k].event => j = k
      /\ \A k \in 1 .. P : Pending[k].event \in Events
  <2>1. \A k \in D : k \in 1 .. P
    BY <1>1
  <2> QED
    BY <2>1 DEF IInv, EventsOwned
<1>3. /\ \A w \in active : \E k \in D : worker[w].task = Pending[k]
      /\ \A v, w \in active : worker[v].task = worker[w].task => v = w
      /\ \A w \in active : worker[w].task.event \notin signaled
      /\ \A k \in D : k \in set \/ \E w \in active : worker[w].task = Pending[k]
      /\ \A e \in signaled : \E k \in D : Pending[k].event = e
  BY DEF IInv, EachTakenOnce
<1>4. Cardinality(D) = IF P - Q > 0 THEN P - Q ELSE 0
  <2>1. 1 \in Int /\ P - Q \in Int
    BY <1>1
  <2>2. Cardinality(D) = IF 1 > P - Q THEN 0 ELSE (P - Q) - 1 + 1
    BY <2>1, FS_Interval
  <2> HIDE DEF P, Q, D
  <2> QED
    BY <1>1, <2>2
<1>5. IsFiniteSet(D)
  <2>1. 1 \in Int /\ P - Q \in Int
    BY <1>1
  <2> QED
    BY <2>1, FS_Interval
<1> HIDE DEF P, Q, queued, active, D
<1>6. /\ IsFiniteSet(set) /\ IsFiniteSet(D \ set)
      /\ Cardinality(set) \in Nat /\ Cardinality(D \ set) \in Nat
      /\ Cardinality(D) = Cardinality(set) + Cardinality(D \ set)
  <2>1. set \in SUBSET D /\ D \cap set = set
    OBVIOUS
  <2> HIDE DEF set
  <2>2. IsFiniteSet(set)
    BY <1>5, <2>1, FS_Subset
  <2>4. IsFiniteSet(D \ set) /\ Cardinality(D \ set) = Cardinality(D) - Cardinality(D \cap set)
    BY <1>5, FS_Difference
  <2>3. Cardinality(set) \in Nat /\ Cardinality(D \ set) \in Nat /\ Cardinality(D) \in Nat
    BY <1>5, <2>2, <2>4, FS_CardinalityType
  <2>5. Cardinality(D \ set) = Cardinality(D) - Cardinality(set)
    BY <2>1, <2>4
  <2> QED
    BY <2>2, <2>3, <2>4, <2>5
<1>7. Cardinality(signaled) = Cardinality(set)
  <2> DEFINE f == [k \in set |-> Pending[k].event]
  <2>1. f \in [set -> signaled]
    OBVIOUS
  <2>2. \A x, y \in set : f[x] = f[y] => x = y
    BY <1>2
  <2>3. \A z \in signaled : \E x \in set : f[x] = z
    BY <1>3
  <2> HIDE DEF f, set
  <2> QED
    BY <1>6, <2>1, <2>2, <2>3, SameSize
<1>8. Cardinality(active) = Cardinality(D \ set)
  <2> DEFINE at(k) == CHOOSE w \in active : worker[w].task = Pending[k]
  <2> DEFINE f == [k \in D \ set |-> at(k)]
  <2>1. \A k \in D \ set : at(k) \in active /\ worker[at(k)].task = Pending[k]
    BY <1>3
  <2> HIDE DEF at
  <2>2. f \in [D \ set -> active]
    BY <2>1
  <2>3. ASSUME NEW x \in D \ set, NEW y \in D \ set, f[x] = f[y]
        PROVE  x = y
    <3>1. Pending[x] = Pending[y]
      BY <2>1, <2>3
    <3> QED
      BY <1>2, <3>1
  <2>4. ASSUME NEW w \in active
        PROVE  \E x \in D \ set : f[x] = w
    <3>1. PICK k \in D : worker[w].task = Pending[k]
      BY <1>3
    <3>2. k \in D \ set
      BY <1>3, <3>1
    <3>3. at(k) = w
      BY <1>3, <2>1, <3>1, <3>2
    <3> QED
      BY <3>2, <3>3
  <2> HIDE DEF f, set
  <2> QED
    BY ZenonT(60), <1>6, <2>2, <2>3, <2>4, SameSize
<1>9. CASE pc \in {"block", "loop", "read"}
  <2>1. Q <= P /\ \A k \in 1 .. Q : Queued[k] = Pending[P - Q + k]
    BY <1>9 DEF IInv, QueueIsTail, P, Q
  <2>2. \A k \in 1 .. Q : P - Q + k \in 1 .. P
    BY <1>1, <2>1
  <2>3. \A k \in 1 .. Q : Queued[k].event # 0
    BY <1>1, <1>2, <2>1, <2>2 DEF Events
  <2>4. queued = 1 .. Q
    BY <1>1, <2>3 DEF queued
  <2>5. Cardinality(queued) = Q
    <3>1. 1 \in Int /\ Q \in Int
      BY <1>1
    <3>2. Cardinality(1 .. Q) = IF 1 > Q THEN 0 ELSE Q - 1 + 1
      BY <3>1, FS_Interval
    <3> QED
      BY <1>1, <2>4, <3>2
  <2>6. Cardinality(D) = P - Q
    BY <1>1, <1>4, <2>1
  <2> HIDE DEF set
  <2>7. Cardinality(queued) + Cardinality(active) + Cardinality(signaled) = P
    BY <1>1, <1>6, <1>7, <1>8, <2>1, <2>5, <2>6
  <2> QED
    BY <2>7 DEF queued, active, P
<1>10. CASE pc \notin {"block", "loop", "read"}
  <2>1. P = 0
    BY <1>10 DEF IInv, StoragesInTurn, InBlock, P
  <2>2. \A k \in 1 .. Q : Queued[k] = NullTask
    BY <1>10 DEF IInv, QueueIsTail, Q
  <2>3. NullTask.event = 0
    BY DEF NullTask, Task
  <2>4. queued = {}
    BY <1>1, <2>2, <2>3 DEF queued
  <2>5. Cardinality(queued) = 0
    BY <2>4, FS_EmptySet
  <2>6. Cardinality(D) = 0
    BY <1>1, <1>4, <2>1
  <2> HIDE DEF set
  <2>7. Cardinality(queued) + Cardinality(active) + Cardinality(signaled) = P
    BY <1>6, <1>7, <1>8, <2>1, <2>5, <2>6
  <2> QED
    BY <2>7 DEF queued, active, P
<1> QED
  BY <1>9, <1>10

\* No job is lost, none is given to two workers, and the jobs that can be collected are
\* collected in the order in which they were put; the events go round with them.
THEOREM Conserved == Spec => []JobsConserved
<1>1. ASSUME IInv PROVE JobsConserved
  <2> DEFINE P == Len(Pending)
  <2> DEFINE Q == Len(Queued)
  <2> DEFINE queued == {k \in DOMAIN Queued : Queued[k].event # 0}
  <2> DEFINE active == {w \in Threads : Working(w)}
  <2> DEFINE ready == {task \in Range(Pending) : task.event \in signaled}
  <2>0. TypeOK
    BY <1>1 DEF IInv
  <2>1. /\ P \in Nat /\ Q \in Nat /\ DOMAIN Pending = 1 .. P /\ DOMAIN Queued = 1 .. Q
        /\ DOMAIN Free = 1 .. Len(Free)
        /\ Len(used) \in Nat /\ Reading \in {0, 1} /\ N \in Nat \ {0}
    BY <2>0, Shapes
  <2>2. Range(Pending) = {Pending[k] : k \in 1 .. P} /\ Range(Free) = {Free[k] : k \in 1 .. Len(Free)}
    BY <2>1 DEF Range
  <2>3. [k \in DOMAIN Pending |-> Pending[k].stripe] =
           [k \in 1 .. issued - Collected |-> Collected + k]
    <3>1. issued = Collected + P /\ \A k \in 1 .. P : Pending[k].stripe = Collected + k
      BY <1>1 DEF IInv, StripesInOrder
    <3>2. Collected \in Nat
      BY <2>1 DEF Collected
    <3> HIDE DEF P
    <3>3. issued - Collected = P
      BY <2>1, <3>1, <3>2
    <3> QED
      BY <2>1, <3>1, <3>3
  <2>4. /\ \A w \in active : \E k \in 1 .. P - Q : worker[w].task = Pending[k]
        /\ \A k \in 1 .. P - Q : \/ Pending[k].event \in signaled
                                 \/ \E w \in active : worker[w].task = Pending[k]
    BY <1>1 DEF IInv, EachTakenOnce
  <2>5. \A k \in 1 .. P : Pending[k].event \in Events
    BY <1>1 DEF IInv, EventsOwned
  <2>6. {Queued[k] : k \in queued} \subseteq Range(Pending)
    <3>1. CASE pc \in {"block", "loop", "read"}
      <4>1. Q <= P /\ \A k \in 1 .. Q : Queued[k] = Pending[P - Q + k]
        BY <1>1, <3>1 DEF IInv, QueueIsTail
      <4> HIDE DEF P, Q
      <4>2. \A k \in 1 .. Q : P - Q + k \in 1 .. P
        BY <2>1, <4>1
      <4> QED
        BY <2>1, <2>2, <4>1, <4>2
    <3>2. CASE pc \notin {"block", "loop", "read"}
      <4>1. \A k \in 1 .. Q : Queued[k] = NullTask
        BY <1>1, <3>2 DEF IInv, QueueIsTail
      <4> QED
        BY <2>1, <4>1 DEF NullTask, Task
    <3> QED
      BY <3>1, <3>2
  <2>7. \A k \in 1 .. P - Q : k \in 1 .. P
    BY <2>1
  <2>8. {worker[w].task : w \in active} \subseteq Range(Pending)
    <3> HIDE DEF P, Q, active
    <3> QED
      BY <2>2, <2>4, <2>7
  <2>9. ASSUME NEW k \in 1 .. P
        PROVE  Pending[k] \in {Queued[j] : j \in queued} \cup {worker[w].task : w \in active} \cup ready
    <3> HIDE DEF P, Q, active
    <3>1. CASE k \in 1 .. P - Q
      <4>1. Pending[k] \in ready \/ Pending[k] \in {worker[w].task : w \in active}
        BY <2>2, <2>4, <3>1
      <4> QED
        BY <4>1
    <3>2. CASE k \notin 1 .. P - Q
      <4>1. pc \in {"block", "loop", "read"}
        <5>1. P # 0
          BY <2>1
        <5> QED
          BY <1>1, <5>1 DEF IInv, StoragesInTurn, InBlock, P
      <4>2. Q <= P /\ \A j \in 1 .. Q : Queued[j] = Pending[P - Q + j]
        BY <1>1, <4>1 DEF IInv, QueueIsTail, P, Q
      <4> DEFINE j == k - (P - Q)
      <4>3. j \in 1 .. Q /\ P - Q + j = k
        BY <2>1, <3>2, <4>2
      <4> HIDE DEF j
      <4>4. Queued[j] = Pending[k] /\ Pending[k].event # 0
        BY <2>1, <2>5, <4>2, <4>3, NType
      <4>5. j \in queued
        BY <2>1, <4>3, <4>4
      <4> QED
        BY <4>4, <4>5
    <3> QED
      BY <3>1, <3>2
  <2>10. {Queued[k] : k \in queued} \cup {worker[w].task : w \in active} \cup ready = Range(Pending)
    <3>1. ready \subseteq Range(Pending)
      OBVIOUS
    <3> HIDE DEF P, queued, active, ready
    <3> QED
      BY <2>2, <2>6, <2>8, <2>9, <3>1
  <2>11. Cardinality(queued) + Cardinality(active) + Cardinality(signaled) = P
    BY <1>1, InOnePlace
  <2>12. ASSUME pc # "done"
         PROVE  /\ Range(Free) = Events \ {task.event : task \in Range(Pending)}
                /\ Len(Free) + P = N
    <3>1. /\ Len(Free) + P = N
          /\ \A j \in 1 .. Len(Free) : Free[j] \in Events
          /\ \A j \in 1 .. Len(Free), k \in 1 .. P : Free[j] # Pending[k].event
          /\ \A e \in Events :
              \/ \E j \in 1 .. Len(Free) : Free[j] = e
              \/ \E k \in 1 .. P : Pending[k].event = e
      BY <1>1, <2>12 DEF IInv, EventsOwned
    <3>2. {task.event : task \in Range(Pending)} = {Pending[k].event : k \in 1 .. P}
      BY <2>2
    <3> HIDE DEF P
    <3> QED
      BY <2>2, <3>1, <3>2
  <2> HIDE DEF P, Q, queued, active, ready
  <2> QED
    BY <2>3, <2>10, <2>11, <2>12
    DEF JobsConserved, Pending, Queued, Free, Collected, Reading, P, queued, active, ready, N
<1> QED
  BY <1>1, Invariance, PTL

-----------------------------------------------------------------------------
(* The output, stripe by stripe. *)

\* The stripes of the first k blocks.
StripesUpTo ==
    LET sum[k \in 0 .. Len(file)] == IF k = 0 THEN 0 ELSE sum[k - 1] + file[k] IN sum

LEMMA StripesUpToType ==
    ASSUME file \in Seq(Nat \ {0})
    PROVE  /\ StripesUpTo \in [0 .. Len(file) -> Nat]
           /\ StripesUpTo[0] = 0
           /\ \A k \in 1 .. Len(file) : StripesUpTo[k] = StripesUpTo[k - 1] + file[k]
<1> DEFINE n == Len(file)
<1> DEFINE step == [i \in 1 .. n |-> [v \in Nat |-> v + file[i]]]
<1> DEFINE Solves(sum) == sum = [k \in 0 .. n |-> IF k = 0 THEN 0 ELSE sum[k - 1] + file[k]]
<1>1. n \in Nat /\ \A i \in 1 .. n : file[i] \in Nat
  OBVIOUS
<1> HIDE DEF n
<1>2. /\ step \in [1 .. n -> [Nat -> Nat]]
      /\ \A i \in 1 .. n, v \in Nat : step[i][v] = v + file[i]
  <2>1. \A i \in 1 .. n, v \in Nat : v + file[i] \in Nat
    BY <1>1
  <2> QED
    BY <2>1
<1> HIDE DEF step
<1>3. PICK f \in [0 .. n -> Nat] : f[0] = 0 /\ \A i \in 1 .. n : f[i] = step[i][f[i - 1]]
  <2>1. AreSteps(step, n, Nat, 0)
    BY <1>1, <1>2 DEF AreSteps
  <2>2. PICK f : IsRecursion(f, step, n, Nat, 0)
    BY <2>1, RecursionExists
  <2> QED
    BY <2>2 DEF IsRecursion
<1>4. \A i \in 1 .. n : f[i] = f[i - 1] + file[i]
  <2>1. \A i \in 1 .. n : i - 1 \in 0 .. n
    BY <1>1
  <2> QED
    BY <1>2, <1>3, <2>1
<1>5. Solves(f)
  <2> DEFINE g == [k \in 0 .. n |-> IF k = 0 THEN 0 ELSE f[k - 1] + file[k]]
  <2>1. \A k \in 0 .. n : f[k] = g[k]
    BY <1>1, <1>3, <1>4
  <2>2. g = [k \in 0 .. n |-> g[k]] /\ f = [k \in 0 .. n |-> f[k]]
    BY <1>3
  <2> HIDE DEF g
  <2>3. f = g
    BY <2>1, <2>2
  <2> QED
    BY <2>3 DEF g
<1>6. StripesUpTo = CHOOSE sum : Solves(sum)
  BY DEF StripesUpTo, n
<1>7. Solves(StripesUpTo)
  <2> HIDE DEF Solves
  <2> QED
    BY <1>5, <1>6
<1> DEFINE sum == StripesUpTo
<1>8. /\ sum[0] = 0
      /\ \A k \in 1 .. n : sum[k] = sum[k - 1] + file[k]
  BY <1>1, <1>7
<1>9. sum \in [0 .. n -> Nat]
  <2> DEFINE T == {k \in 0 .. n : sum[k] \in Nat}
  <2>1. 0 \in T
    BY <1>1, <1>8
  <2>2. \A i \in 0 .. n - 1 : i \in T => i + 1 \in T
    <3>1. ASSUME NEW i \in 0 .. n - 1, sum[i] \in Nat
          PROVE  i + 1 \in 0 .. n /\ sum[i + 1] \in Nat
      <4>1. i + 1 \in 1 .. n /\ (i + 1) - 1 = i /\ i + 1 \in 0 .. n
        BY <1>1
      <4>2. sum[i + 1] = sum[i] + file[i + 1]
        BY <1>8, <4>1
      <4> QED
        BY <1>1, <3>1, <4>1, <4>2
    <3> HIDE DEF sum
    <3> QED
      BY <3>1
  <2> HIDE DEF T
  <2>3. 0 .. n \subseteq T
    BY <1>1, <2>1, <2>2, InductionUpTo
  <2>4. \A k \in 0 .. n : sum[k] \in Nat
    BY <2>3 DEF T
  <2>5. sum = [k \in 0 .. n |-> sum[k]]
    BY <1>7
  <2> HIDE DEF sum
  <2> QED
    BY <2>4, <2>5
<1> QED
  BY <1>8, <1>9 DEF n

LEMMA StripesUpToAll ==
    ASSUME file \in Seq(Nat \ {0})
    PROVE  /\ StripesUpTo[Len(file)] = TotalStripes
           /\ \A k \in 0 .. Len(file) : StripesUpTo[k] <= TotalStripes
<1> DEFINE n == Len(file)
<1> DEFINE step == [i \in 1 .. n |-> [v \in Nat |-> v + file[i]]]
<1> DEFINE Solves(iter) ==
        iter = [s \in SUBSET (1 .. n) |->
                   IF s = {} THEN 0
                   ELSE iter[s \ {Greatest(s)}] + file[Greatest(s)]]
<1>1. n \in Nat /\ DOMAIN file = 1 .. n /\ \A i \in 1 .. n : file[i] \in Nat
  OBVIOUS
<1>2. TotalStripes = (CHOOSE iter : Solves(iter))[1 .. n]
  BY <1>1 DEF TotalStripes, FoldLeft, MapThenFoldSet, Max, Greatest
<1>3. /\ step \in [1 .. n -> [Nat -> Nat]]
      /\ \A i \in 1 .. n, v \in Nat : step[i][v] = v + file[i]
  <2> HIDE DEF n
  <2>1. \A i \in 1 .. n, v \in Nat : v + file[i] \in Nat
    BY <1>1
  <2> QED
    BY <2>1
<1> HIDE DEF step
<1>4. PICK f : /\ f = [s \in SUBSET (1 .. n) |->
                         IF s = {} THEN 0 ELSE step[Greatest(s)][f[s \ {Greatest(s)}]]]
               /\ \A s \in SUBSET (1 .. n) : f[s] \in Nat
  <2>1. AreSteps(step, n, Nat, 0)
    BY <1>1, <1>3 DEF AreSteps
  <2> HIDE DEF n
  <2>2. PICK f : IsFold(f, step, n, Nat, 0)
    BY <2>1, FoldExists
  <2> QED
    BY <2>2 DEF IsFold
<1>5. \A s \in SUBSET (1 .. n) : s # {} => Greatest(s) \in s
  <2> SUFFICES ASSUME NEW s \in SUBSET (1 .. n), s # {} PROVE Greatest(s) \in s
    OBVIOUS
  <2>1. \E x \in s : \A y \in s : x >= y
    BY <1>1, GreatestExists
  <2> QED
    BY <2>1 DEF Greatest
<1>6. Solves(f)
  <2> HIDE DEF n
  <2>1. ASSUME NEW s \in SUBSET (1 .. n), s # {}
        PROVE  step[Greatest(s)][f[s \ {Greatest(s)}]] = f[s \ {Greatest(s)}] + file[Greatest(s)]
    <3>1. Greatest(s) \in 1 .. n /\ s \ {Greatest(s)} \in SUBSET (1 .. n)
      BY <1>5, <2>1
    <3> QED
      BY <1>3, <1>4, <3>1
  <2> DEFINE g == [s \in SUBSET (1 .. n) |->
                     IF s = {} THEN 0 ELSE f[s \ {Greatest(s)}] + file[Greatest(s)]]
  <2>2. \A s \in SUBSET (1 .. n) : f[s] = g[s]
    BY <1>4, <2>1
  <2>3. g = [s \in SUBSET (1 .. n) |-> g[s]] /\ f = [s \in SUBSET (1 .. n) |-> f[s]]
    BY <1>4
  <2> HIDE DEF g
  <2>4. f = g
    BY <2>2, <2>3
  <2> QED
    BY <2>4 DEF g
<1>7. PICK iter : Solves(iter) /\ TotalStripes = iter[1 .. n]
  <2> HIDE DEF Solves
  <2> QED
    BY <1>2, <1>6
<1>8. iter[1 .. 0] = 0 /\ \A k \in 1 .. n : iter[1 .. k] = iter[1 .. k - 1] + file[k]
  <2> HIDE DEF n
  <2>1. ASSUME NEW k \in 1 .. n
        PROVE  iter[1 .. k] = iter[1 .. k - 1] + file[k]
    <3>0. k \in Nat /\ k > 0 /\ 1 \in 1 .. k /\ \A x \in 1 .. k : x \in 1 .. n
      BY <1>1
    <3>1. 1 .. k \in SUBSET (1 .. n) /\ 1 .. k # {} /\ k > 0 /\ k \in Nat
      BY <3>0
    <3>2. Greatest(1 .. k) = k /\ (1 .. k) \ {k} = 1 .. k - 1
      BY <3>1, GreatestOfInterval
    <3>3. iter[1 .. k] = iter[(1 .. k) \ {Greatest(1 .. k)}] + file[Greatest(1 .. k)]
      BY <1>7, <3>1
    <3> QED
      BY <3>2, <3>3
  <2>2. 1 .. 0 = {} /\ {} \in SUBSET (1 .. n)
    OBVIOUS
  <2>3. iter[1 .. 0] = 0
    BY <1>7, <2>2
  <2> QED
    BY <2>1, <2>3
<1> DEFINE sum == StripesUpTo
<1>9. /\ sum \in [0 .. n -> Nat] /\ sum[0] = 0
      /\ \A k \in 1 .. n : sum[k] = sum[k - 1] + file[k]
  BY StripesUpToType
<1> HIDE DEF n, sum, Solves
<1> DEFINE T == {k \in 0 .. n : iter[1 .. k] = sum[k]}
<1>10. 0 .. n \subseteq T
  <2>1. 0 \in T
    BY <1>1, <1>8, <1>9
  <2>2. ASSUME NEW i \in 0 .. n - 1, i \in T
        PROVE  i + 1 \in T
    <3>1. i + 1 \in 1 .. n /\ i + 1 \in 0 .. n /\ (i + 1) - 1 = i
      BY <1>1
    <3>2. iter[1 .. i + 1] = iter[1 .. i] + file[i + 1] /\ sum[i + 1] = sum[i] + file[i + 1]
      BY <1>8, <1>9, <3>1
    <3> QED
      BY <2>2, <3>1, <3>2
  <2> HIDE DEF T
  <2> QED
    BY <1>1, <2>1, <2>2, InductionUpTo
<1>11. sum[n] = TotalStripes
  <2>1. n \in 0 .. n
    BY <1>1
  <2> QED
    BY <1>7, <1>10, <2>1
<1> DEFINE U == {k \in 0 .. n : sum[n - k] <= sum[n]}
<1>12. 0 .. n \subseteq U
  <2>1. 0 \in U
    BY <1>1, <1>9
  <2>2. ASSUME NEW i \in 0 .. n - 1, i \in U
        PROVE  i + 1 \in U
    <3>1. i + 1 \in 0 .. n /\ n - i \in 1 .. n /\ (n - i) - 1 = n - (i + 1) /\ n - (i + 1) \in 0 .. n
          /\ n - i \in 0 .. n /\ n \in 0 .. n
      BY <1>1
    <3>2. sum[n - i] = sum[n - (i + 1)] + file[n - i] /\ file[n - i] \in Nat
      BY <1>1, <1>9, <3>1
    <3>3. sum[n - i] \in Nat /\ sum[n - (i + 1)] \in Nat /\ sum[n] \in Nat
      BY <1>9, <3>1
    <3>4. sum[n - i] <= sum[n]
      BY <2>2
    <3>5. sum[n - (i + 1)] <= sum[n]
      BY <3>2, <3>3, <3>4
    <3> QED
      BY <3>1, <3>5
  <2> HIDE DEF U
  <2> QED
    BY <1>1, <2>1, <2>2, InductionUpTo
<1>13. ASSUME NEW k \in 0 .. n
       PROVE  sum[k] <= sum[n]
  <2>1. n - k \in 0 .. n /\ n - (n - k) = k
    BY <1>1
  <2>2. n - k \in U
    BY <1>12, <2>1
  <2> QED
    BY <2>1, <2>2
<1> QED
  BY <1>11, <1>13 DEF n, sum

\* What has been put, and what is still to be put of the current block.
IssuedSoFar ==
    /\ file \in Seq(Nat \ {0})
    /\ pc = "block" => /\ block <= Len(file) + 1
                       /\ left = 0
                       /\ issued = StripesUpTo[block - 1]
    /\ InBlock => /\ block <= Len(file)
                  /\ issued + left = StripesUpTo[block]
    /\ pc \in {"finish", "await", "done"} => issued = StripesUpTo[Len(file)]

LEMMA IssuedInductive ==
    /\ Init => IssuedSoFar
    /\ IInv /\ IssuedSoFar /\ [Next]_vars => IssuedSoFar'
<1>1. ASSUME Init PROVE IssuedSoFar
  <2>1. file \in Seq(Nat \ {0})
    BY <1>1, CdcPoolAssumption DEF Init
  <2>2. StripesUpTo[0] = 0
    BY <2>1, StripesUpToType
  <2> QED
    BY <1>1, <2>1, <2>2 DEF Init, IssuedSoFar, InBlock
<1>2. ASSUME IInv, IssuedSoFar, [Next]_vars PROVE IssuedSoFar'
  <2>0. /\ TypeOK /\ file \in Seq(Nat \ {0})
        /\ block \in Nat \ {0} /\ left \in Nat /\ issued \in Nat
        /\ pc \in {"block", "loop", "read", "finish", "await", "done"}
    BY <1>2 DEF IInv, IssuedSoFar, TypeOK
  <2>1. /\ StripesUpTo \in [0 .. Len(file) -> Nat]
        /\ \A k \in 1 .. Len(file) : StripesUpTo[k] = StripesUpTo[k - 1] + file[k]
        /\ Len(file) \in Nat /\ \A k \in 1 .. Len(file) : file[k] \in Nat
    BY <2>0, StripesUpToType
  <2>2. file' = file
    BY <1>2 DEF Next, MainStep, WorkerStep, StartBlock, PutJob, GetJob, UseChunks, EndBlock,
       StopThread, AwaitThread, DeleteEvents, GetTask, WaitForTask, Process, Signal, Exit,
       Terminated, vars
  <2>3. StripesUpTo' = StripesUpTo
    BY <2>2 DEF StripesUpTo
  <2>4. CASE StartBlock
    <3>1. block \in 1 .. Len(file)
      BY <2>0, <2>1, <2>4 DEF StartBlock
    <3>2. StripesUpTo[block] = StripesUpTo[block - 1] + file[block]
      BY <2>1, <3>1
    <3> QED
      BY <1>2, <2>2, <2>3, <2>4, <3>1, <3>2 DEF StartBlock, IssuedSoFar, InBlock
  <2>5. CASE PutJob
    <3>1. pc = "loop" /\ pc' = pc /\ block' = block /\ issued' = issued + 1 /\ left' = left - 1
      BY <2>5 DEF PutJob
    <3>2. issued' + left' = issued + left
      BY <2>0, <3>1
    <3> QED
      BY <1>2, <2>2, <2>3, <3>1, <3>2 DEF IssuedSoFar, InBlock
  <2>6. CASE GetJob \/ UseChunks
    BY <1>2, <2>2, <2>3, <2>6 DEF GetJob, UseChunks, IssuedSoFar, InBlock
  <2>7. CASE EndBlock
    <3>1. /\ pc = "loop" /\ pc' = "block" /\ left = 0 /\ left' = left /\ issued' = issued
          /\ block' = block + 1
      BY <2>7 DEF EndBlock
    <3>2. block <= Len(file) /\ issued + left = StripesUpTo[block]
      BY <1>2, <3>1 DEF IssuedSoFar, InBlock
    <3>3. block' - 1 = block /\ block' <= Len(file) + 1 /\ issued + left = issued
      BY <2>0, <2>1, <3>1, <3>2
    <3> QED
      BY <2>0, <2>2, <2>3, <3>1, <3>2, <3>3 DEF IssuedSoFar, InBlock
  <2>8. CASE StopThread
    <3>1. /\ (pc = "block" /\ block > Len(file)) \/ pc = "finish"
          /\ pc' = "await" /\ issued' = issued
      BY <2>8 DEF StopThread
    <3>2. issued = StripesUpTo[Len(file)]
      <4>1. CASE pc = "block"
        <5>1. block <= Len(file) + 1 /\ issued = StripesUpTo[block - 1] /\ block > Len(file)
          BY <1>2, <3>1, <4>1 DEF IssuedSoFar
        <5>2. block - 1 = Len(file)
          BY <2>0, <2>1, <5>1
        <5> QED
          BY <5>1, <5>2
      <4>2. CASE pc = "finish"
        BY <1>2, <4>2 DEF IssuedSoFar
      <4> QED
        BY <3>1, <4>1, <4>2
    <3> QED
      BY <2>0, <2>2, <2>3, <3>1, <3>2 DEF IssuedSoFar, InBlock
  <2>9. CASE AwaitThread \/ DeleteEvents
    BY <1>2, <2>2, <2>3, <2>9 DEF AwaitThread, DeleteEvents, IssuedSoFar, InBlock
  <2>10. CASE UNCHANGED <<file, mainVars>>
    BY <1>2, <2>2, <2>3, <2>10 DEF mainVars, IssuedSoFar, InBlock
  <2>11. ASSUME NEW w \in Threads, WorkerStep(w)
         PROVE  UNCHANGED <<file, mainVars>>
    BY <2>11 DEF WorkerStep, GetTask, WaitForTask, Process, Signal, Exit
  <2>12. CASE Terminated \/ UNCHANGED vars
    BY <2>10, <2>12 DEF Terminated, vars
  <2> QED
    BY <1>2, <2>4, <2>5, <2>6, <2>7, <2>8, <2>9, <2>10, <2>11, <2>12 DEF Next, MainStep
<1> QED
  BY <1>1, <1>2

\* Whatever the workers do, compression uses the chunks stripe by stripe in file order,
\* each stripe once and complete, and ends only when it has used them all.
THEOREM Refinement == Spec => UsesTheStripes
<1> DEFINE original == [k \in 1 .. TotalStripes |-> k]
<1> DEFINE verdict == IF pc = "done" THEN "success" ELSE "running"
<1>1. ASSUME file \in Seq(Nat \ {0})
      PROVE  /\ TotalStripes \in Nat
             /\ \A k \in 0 .. Len(file) : StripesUpTo[k] \in Nat /\ StripesUpTo[k] <= TotalStripes
             /\ StripesUpTo[Len(file)] = TotalStripes
  <2>1. Len(file) \in 0 .. Len(file)
    BY <1>1
  <2> QED
    BY <1>1, <2>1, StripesUpToType, StripesUpToAll
<1>2. Init => Output!Init
  <2> SUFFICES ASSUME Init PROVE Output!Init
    OBVIOUS
  <2>1. file \in Seq(Nat \ {0})
    BY CdcPoolAssumption DEF Init
  <2>2. TotalStripes \in Nat
    BY <1>1, <2>1
  <2>3. original \in Seq(Nat)
    BY <2>2, IsASeq
  <2> QED
    BY <2>3 DEF Init, Output!Init
<1>3. IInv /\ IssuedSoFar /\ [Next]_vars => [Output!Next]_(Output!outputVars)
  <2> SUFFICES ASSUME IInv, IssuedSoFar, [Next]_vars PROVE [Output!Next]_(Output!outputVars)
    OBVIOUS
  <2>0. TypeOK /\ file \in Seq(Nat \ {0}) /\ Len(file) \in Nat
    BY DEF IInv, IssuedSoFar
  <2>1. /\ TotalStripes \in Nat
        /\ \A k \in 0 .. Len(file) : StripesUpTo[k] \in Nat /\ StripesUpTo[k] <= TotalStripes
        /\ StripesUpTo[Len(file)] = TotalStripes
    BY <1>1, <2>0
  <2>2. file' = file
    BY DEF Next, MainStep, WorkerStep, StartBlock, PutJob, GetJob, UseChunks, EndBlock,
       StopThread, AwaitThread, DeleteEvents, GetTask, WaitForTask, Process, Signal, Exit,
       Terminated, vars
  <2>3. original' = original
    <3> DEFINE Sum(f) == FoldLeft(+, 0, f)
    <3>1. TotalStripes = Sum(file) /\ TotalStripes' = Sum(file')
      BY DEF TotalStripes, FoldLeft, MapThenFoldSet
    <3> HIDE DEF Sum
    <3>2. TotalStripes' = TotalStripes
      BY <2>2, <3>1
    <3> QED
      BY <3>2
  <2>4. /\ used \in Seq(Nat) /\ Len(used) \in Nat /\ Len(Pending) \in Nat
        /\ \A k \in 1 .. Len(used) : used[k] = k
        /\ issued = Collected + Len(Pending)
        /\ issued \in Nat /\ left \in Nat /\ block \in Nat \ {0}
    BY <2>0, Shapes DEF IInv, TypeOK, StripesInOrder
  <2>5. Len(original) = TotalStripes /\ original \in Seq(Nat)
        /\ \A k \in 1 .. TotalStripes : original[k] = k
    BY <2>1, IsASeq, LenProperties
  <2>6. CASE UseChunks
    <3> DEFINE n == Len(used)
    <3>1. pc = "read" /\ pc' = "loop" /\ used' = Append(used, storage[job.t])
      BY <2>6 DEF UseChunks
    <3>2. Collected = n + 1
      BY <2>4, <3>1 DEF Collected, Reading
    <3>3. storage[job.t] = n + 1
      BY <3>1, <3>2 DEF IInv, StoredWhenSignaled, StripesInOrder
    <3>4. n < TotalStripes
      <4>1. block <= Len(file) /\ issued + left = StripesUpTo[block]
        BY <3>1 DEF IssuedSoFar, InBlock
      <4>2. block \in 0 .. Len(file)
        BY <2>0, <2>4, <4>1
      <4>3. issued >= n + 1
        BY <2>4, <3>2
      <4>4. StripesUpTo[block] \in Nat /\ StripesUpTo[block] <= TotalStripes
        BY <2>1, <4>2
      <4> QED
        BY <2>1, <2>4, <4>1, <4>3, <4>4
    <3>5. Output!BlockEndAfter(n) = n + 1
      BY <2>1, <2>4, <2>5, <3>4 DEF Output!BlockEndAfter
    <3>6. used' = SubSeq(original, 1, n + 1)
      <4>1. /\ used' \in Seq(Nat) /\ Len(used') = n + 1
            /\ \A k \in 1 .. n : used'[k] = used[k]
            /\ used'[n + 1] = n + 1
        BY <2>4, <3>1, <3>3, AppendProperties
      <4> DEFINE s == SubSeq(original, 1, n + 1)
      <4> HIDE DEF original
      <4>2. /\ s \in Seq(Nat) /\ Len(s) = n + 1
            /\ \A k \in 1 .. n + 1 : s[k] = original[k]
        BY <2>1, <2>4, <2>5, <3>4
      <4> HIDE DEF s, n
      <4>3. \A k \in 1 .. n + 1 : used'[k] = s[k]
        <5> SUFFICES ASSUME NEW k \in 1 .. n + 1 PROVE used'[k] = s[k]
          OBVIOUS
        <5>1. k \in 1 .. TotalStripes
          BY <2>1, <2>4, <3>4 DEF n
        <5>2. s[k] = k
          BY <2>5, <4>2, <5>1
        <5>3. used'[k] = k
          <6>1. k \in 1 .. n \/ k = n + 1
            BY <2>4 DEF n
          <6> QED
            BY <2>4, <4>1, <6>1 DEF n
        <5> QED
          BY <5>2, <5>3
      <4>4. used' = s
        BY <4>1, <4>2, <4>3, SeqEqual
      <4> QED
        BY <4>4 DEF s
    <3> HIDE DEF original
    <3>7. verdict = "running" /\ verdict' = "running"
      BY <3>1
    <3> QED
      BY <2>3, <2>5, <3>4, <3>5, <3>6, <3>7 DEF Output!Next, Output!WriteBlock, original
  <2>7. CASE DeleteEvents
    <3>1. pc = "finish" /\ pc' = "done" /\ used' = used
      BY <2>7 DEF DeleteEvents
    <3>2. Len(used) = TotalStripes
      <4>1. issued = TotalStripes
        BY <2>1, <3>1 DEF IssuedSoFar
      <4>2. Len(Pending) = 0
        BY <3>1 DEF IInv, StoragesInTurn, InBlock
      <4>3. Reading = 0
        BY <3>1 DEF Reading
      <4> QED
        BY <2>4, <4>1, <4>2, <4>3 DEF Collected
    <3>3. used = original
      <4> HIDE DEF original
      <4> QED
        BY <2>4, <2>5, <3>2, SeqEqual
    <3> QED
      BY <2>3, <3>1, <3>3 DEF Output!Next, Output!Succeed
  <2>8. ASSUME ~ UseChunks, ~ DeleteEvents
        PROVE  UNCHANGED <<used, verdict>>
    <3>1. UNCHANGED pc \/ (pc # "done" /\ pc' # "done")
      BY <2>8 DEF Next, MainStep, WorkerStep, StartBlock, PutJob, GetJob, EndBlock,
         StopThread, AwaitThread, GetTask, WaitForTask, Process, Signal, Exit, Terminated,
         vars, mainVars
    <3>2. UNCHANGED used
      BY <2>8 DEF Next, MainStep, WorkerStep, StartBlock, PutJob, GetJob, EndBlock,
         StopThread, AwaitThread, GetTask, WaitForTask, Process, Signal, Exit, Terminated,
         vars, mainVars
    <3> QED
      BY <3>1, <3>2
  <2>9. ASSUME ~ UseChunks, ~ DeleteEvents
        PROVE  UNCHANGED Output!outputVars
    BY <2>3, <2>8, <2>9 DEF Output!outputVars
  <2> QED
    BY <2>6, <2>7, <2>9
<1>4. IInv /\ IssuedSoFar /\ [Next]_vars => IInv' /\ IssuedSoFar'
  BY StepIInv, IssuedInductive
<1>5. Init => IInv /\ IssuedSoFar
  BY InitIInv, IssuedInductive
<1> QED
  BY <1>2, <1>3, <1>4, <1>5, PTL DEF Spec, UsesTheStripes, Output!Spec
=============================================================================
