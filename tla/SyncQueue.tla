----------------------------- MODULE SyncQueue -----------------------------
(***************************************************************************)
(* SyncQueue: a ring of max_elements + 1 places under a mutex, with a      *)
(* manual-reset event that is set while the queue holds something.  Put    *)
(* does not look whether there is room: "the class relies on assumption    *)
(* that client code will never try to put excessive elements to the queue".*)
(*                                                                         *)
(* A queue is a record; Put, and the part of Get under the mutex, are      *)
(* functions of it.                                                        *)
(***************************************************************************)
EXTENDS Integers, Sequences

NoSpareCell(maxElements, o) ==
    [size |-> maxElements, head |-> 0, tail |-> 0, added |-> FALSE,
     a |-> [i \in 0 .. maxElements - 1 |-> o]]

\* SetSize: an empty queue; its cells hold o for want of anything else.
SetSize(maxElements, o) ==
    [size |-> maxElements + 1, head |-> 0, tail |-> 0, added |-> FALSE,
     a |-> [i \in 0 .. maxElements |-> o]]

Advance(i, size) == IF i + 1 = size THEN 0 ELSE i + 1

\* (tail - head + size) % size
ObjectsInQueue(q) == IF q.tail >= q.head THEN q.tail - q.head ELSE q.tail - q.head + q.size

SignalIfEmpty(q) == q.added \/ ObjectsInQueue(q) = 0

Put(q, o) ==
    [q EXCEPT !.added = SignalIfEmpty(q),
              !.a[q.tail] = o,
              !.tail = Advance(q.tail, q.size)]

\* The queue after the oldest object has been taken.
Taken(q) ==
    LET rest == [q EXCEPT !.head = Advance(q.head, q.size)]
    IN [rest EXCEPT !.added = q.added /\ ObjectsInQueue(rest) > 0]

\* The k-th oldest object.
Cell(q, k) == LET i == q.head + k - 1 IN IF i >= q.size THEN i - q.size ELSE i

Oldest(q) == q.a[q.head]

Contents(q) == [k \in 1 .. ObjectsInQueue(q) |-> q.a[Cell(q, k)]]
=============================================================================
