------------------------------ MODULE CdcPool ------------------------------
(***************************************************************************)
(* The worker threads of content-defined chunking (-m1, -m2), the class    *)
(* MultipleProcessingThreads with its only user, compress_CDC.  The main   *)
(* thread cuts each block into stripes and puts one job per stripe; the    *)
(* workers find the stripe's chunk boundaries and hash its chunks into one *)
(* of NumThreads storages, used in turn; the main thread collects the jobs *)
(* in the order it has put them and reads their storages.  A chunk may     *)
(* begin in one stripe and end in the next, so the order matters.          *)
(*                                                                         *)
(* A storage holds the number of the stripe it was last filled from, 0     *)
(* while it is being filled.  FinishedQueue and FreeEvents are used by the *)
(* main thread alone, so one step of it contains one access to what the    *)
(* workers see: the WorkerQueue, an event or a storage.                    *)
(***************************************************************************)
EXTENDS SyncQueue, FiniteSets, FiniteSetsExt, SequencesExt

CONSTANTS
    NumThreads,     \* worker threads, storages, events and jobs at a time (MaxJobs)
    Files           \* the files: stripes per block

ASSUME CdcPoolAssumption ==
    /\ NumThreads \in Nat \ {0}
    /\ Files \subseteq Seq(Nat \ {0})

VARIABLES
    file,           \* the file being compressed
    pc,             \* main: "block", "loop", "read", "finish", "await", "done"
    block,          \* main: the current block
    left,           \* main: stripes of the block not yet put (bufend - ptr)
    issued,         \* main: stripes put so far, of all blocks
    free_jobs,      \* main: local of compress_CDC
    num_thread,     \* main: the storage of the next job, from 0
    job,            \* main: the job being read
    stopped,        \* main: threads that finish() has stopped
    used,           \* stripes whose chunks have been used, in order
    WorkerQueue, FinishedQueue, FreeEvents,
    signaled,       \* the task events that are set
    finished,       \* the event WorkerThreadFinished
    storage,        \* ThreadStorage
    worker          \* worker thread -> [pc, task]

mainVars == <<pc, block, left, issued, free_jobs, num_thread, job, stopped, used>>
queues == <<WorkerQueue, FinishedQueue, FreeEvents>>
vars == <<file, mainVars, queues, signaled, finished, storage, worker>>

Threads == 0 .. NumThreads - 1
Events == 1 .. NumThreads

Task(stripe, t, event) == [stripe |-> stripe, t |-> t, event |-> event]

\* The task whose event is NULL.
NullTask == Task(0, 0, 0)

FreeEventsAtStart ==
    LET put[n \in 0 .. NumThreads] ==
            IF n = 0 THEN SetSize(NumThreads, 0) ELSE Put(put[n - 1], n)
    IN put[NumThreads]

Init ==
    /\ file \in Files
    /\ pc = "block"
    /\ block = 1
    /\ left = 0
    /\ issued = 0
    /\ free_jobs = NumThreads
    /\ num_thread = 0
    /\ job = NullTask
    /\ stopped = 0
    /\ used = <<>>
    /\ WorkerQueue = SetSize(NumThreads + 1, NullTask)
    /\ FinishedQueue = SetSize(NumThreads, NullTask)
    /\ FreeEvents = FreeEventsAtStart
    /\ signaled = {}
    /\ finished = FALSE
    /\ storage = [t \in Threads |-> 0]
    /\ worker = [w \in Threads |-> [pc |-> "get", task |-> NullTask]]

-----------------------------------------------------------------------------
(* The main thread: compress_CDC for each block. *)

StartBlock ==
    /\ pc = "block"
    /\ block <= Len(file)
    /\ left' = file[block]
    /\ free_jobs' = NumThreads
    /\ num_thread' = 0
    /\ pc' = "loop"
    /\ UNCHANGED <<file, block, issued, job, stopped, used, queues, signaled, finished, storage, worker>>

NextStorageUnbounded(t) == t + 1

NextStorageSkipsLast(t) == IF t + 2 >= NumThreads THEN 0 ELSE t + 1

NextStorage(t) == IF t + 1 = NumThreads THEN 0 ELSE t + 1

\* Put: a job takes one of the free events.
PutJob ==
    LET task == Task(issued + 1, num_thread, Oldest(FreeEvents))
    IN /\ pc = "loop"
       /\ free_jobs > 0
       /\ left > 0
       /\ ObjectsInQueue(FreeEvents) > 0
       /\ FreeEvents' = Taken(FreeEvents)
       /\ WorkerQueue' = Put(WorkerQueue, task)
       /\ FinishedQueue' = Put(FinishedQueue, task)
       /\ issued' = issued + 1
       /\ left' = left - 1
       /\ free_jobs' = free_jobs - 1
       /\ num_thread' = NextStorage(num_thread)
       /\ UNCHANGED <<file, pc, block, job, stopped, used, signaled, finished, storage, worker>>

AnyEvent(e) == TRUE

IsSet(e) == e \in signaled

\* Get: wait for the event of the oldest job, and free it.
GetJob ==
    LET task == Oldest(FinishedQueue)
    IN /\ pc = "loop"
       /\ free_jobs = 0 \/ left = 0
       /\ free_jobs < NumThreads
       /\ ObjectsInQueue(FinishedQueue) > 0
       /\ IsSet(task.event)
       /\ FinishedQueue' = Taken(FinishedQueue)
       /\ signaled' = signaled \ {task.event}
       /\ FreeEvents' = Put(FreeEvents, task.event)
       /\ job' = task
       /\ pc' = "read"
       /\ UNCHANGED <<file, block, left, issued, free_jobs, num_thread, stopped, used,
                      WorkerQueue, finished, storage, worker>>

\* The chunk split between two stripes is hashed, with the hash engines and into the
\* hash array of the job's storage; then all its chunks are looked up.
UseChunks ==
    /\ pc = "read"
    /\ used' = Append(used, storage[job.t])
    /\ free_jobs' = free_jobs + 1
    /\ pc' = "loop"
    /\ UNCHANGED <<file, block, left, issued, num_thread, job, stopped,
                   queues, signaled, finished, storage, worker>>

EndBlock ==
    /\ pc = "loop"
    /\ free_jobs = NumThreads
    /\ left = 0
    /\ block' = block + 1
    /\ pc' = "block"
    /\ UNCHANGED <<file, left, issued, free_jobs, num_thread, job, stopped, used,
                   queues, signaled, finished, storage, worker>>

(* finish(): stop the threads one by one, then take back all events. *)

AllButOneStopped == stopped + 1 = NumThreads

AllStopped == stopped = NumThreads

StopThread ==
    /\ \/ pc = "block" /\ block > Len(file)
       \/ pc = "finish"
    /\ ~ AllStopped
    /\ WorkerQueue' = Put(WorkerQueue, NullTask)
    /\ pc' = "await"
    /\ UNCHANGED <<file, block, left, issued, free_jobs, num_thread, job, stopped, used,
                   FinishedQueue, FreeEvents, signaled, finished, storage, worker>>

AwaitThread ==
    /\ pc = "await"
    /\ finished
    /\ finished' = FALSE
    /\ stopped' = stopped + 1
    /\ pc' = "finish"
    /\ UNCHANGED <<file, block, left, issued, free_jobs, num_thread, job, used,
                   queues, signaled, storage, worker>>

DeleteEvents ==
    /\ pc = "finish"
    /\ AllStopped
    /\ ObjectsInQueue(FreeEvents) = NumThreads
    /\ pc' = "done"
    /\ FreeEvents' = SetSize(NumThreads, 0)
    /\ UNCHANGED <<file, block, left, issued, free_jobs, num_thread, job, stopped, used,
                   WorkerQueue, FinishedQueue, signaled, finished, storage, worker>>

-----------------------------------------------------------------------------
(* Worker thread w. *)

WorkerGoto(w, next) == worker' = [worker EXCEPT ![w].pc = next]

\* The part of Get under the mutex; filling the storage begins.
GetTask(w) ==
    LET task == Oldest(WorkerQueue)
    IN /\ worker[w].pc = "get"
       /\ IF ObjectsInQueue(WorkerQueue) = 0
          THEN WorkerGoto(w, "wait") /\ UNCHANGED <<WorkerQueue, storage>>
          ELSE /\ WorkerQueue' = Taken(WorkerQueue)
               /\ IF task.event = 0
                  THEN /\ worker' = [worker EXCEPT ![w] = [pc |-> "exit", task |-> task]]
                       /\ UNCHANGED storage
                  ELSE /\ worker' = [worker EXCEPT ![w] = [pc |-> "process", task |-> task]]
                       /\ storage' = [storage EXCEPT ![task.t] = 0]
       /\ UNCHANGED <<file, mainVars, FinishedQueue, FreeEvents, signaled, finished>>

WaitForTask(w) ==
    /\ worker[w].pc = "wait"
    /\ WorkerQueue.added
    /\ WorkerGoto(w, "get")
    /\ UNCHANGED <<file, mainVars, queues, signaled, finished, storage>>

Process(w) ==
    /\ worker[w].pc = "process"
    /\ storage' = [storage EXCEPT ![worker[w].task.t] = worker[w].task.stripe]
    /\ WorkerGoto(w, "signal")
    /\ UNCHANGED <<file, mainVars, queues, signaled, finished>>

Signal(w) ==
    /\ worker[w].pc = "signal"
    /\ signaled' = signaled \cup {worker[w].task.event}
    /\ WorkerGoto(w, "get")
    /\ UNCHANGED <<file, mainVars, queues, finished, storage>>

Exit(w) ==
    /\ worker[w].pc = "exit"
    /\ finished' = TRUE
    /\ WorkerGoto(w, "exited")
    /\ UNCHANGED <<file, mainVars, queues, signaled, storage>>

MainStep ==
    \/ StartBlock \/ PutJob \/ GetJob \/ UseChunks \/ EndBlock
    \/ StopThread \/ AwaitThread \/ DeleteEvents

WorkerStep(w) == GetTask(w) \/ WaitForTask(w) \/ Process(w) \/ Signal(w) \/ Exit(w)

Terminated == pc = "done" /\ UNCHANGED vars

Next == MainStep \/ (\E w \in Threads : WorkerStep(w)) \/ Terminated

Spec == Init /\ [][Next]_vars

\* Every thread that can run is run in the end.
FairSpec == Spec /\ WF_vars(MainStep) /\ \A w \in Threads : WF_vars(WorkerStep(w))

-----------------------------------------------------------------------------
(* Properties. *)

Tasks == [stripe : Nat, t : Threads, event : 0 .. NumThreads]

IsQueue(q, max, S) ==
    q \in [size : {max + 1}, head : 0 .. max, tail : 0 .. max,
           added : BOOLEAN, a : [0 .. max -> S]]

TypeOK ==
    /\ file \in Files
    /\ pc \in {"block", "loop", "read", "finish", "await", "done"}
    /\ block \in Nat \ {0} /\ {left, issued} \subseteq Nat
    /\ free_jobs \in 0 .. NumThreads
    /\ num_thread \in Threads
    /\ job \in Tasks
    /\ stopped \in 0 .. NumThreads
    /\ used \in Seq(Nat)
    /\ IsQueue(WorkerQueue, NumThreads + 1, Tasks)
    /\ IsQueue(FinishedQueue, NumThreads, Tasks)
    /\ IsQueue(FreeEvents, NumThreads, 0 .. NumThreads)
    /\ signaled \subseteq Events
    /\ finished \in BOOLEAN
    /\ storage \in [Threads -> Nat]
    /\ worker \in [Threads -> [pc : {"get", "wait", "process", "signal", "exit", "exited"}, task : Tasks]]

Working(w) == worker[w].pc \in {"process", "signal"}

\* A storage is never filled by two workers, nor filled while the main thread uses its
\* chunks and hash engines (compress_cdc.cpp:190-214).
StorageExclusive ==
    \A w \in Threads : worker[w].pc = "process" =>
        /\ ~ (pc = "read" /\ job.t = worker[w].task.t)
        /\ \A v \in Threads \ {w} :
              worker[v].pc = "process" => worker[v].task.t # worker[w].task.t

\* The jobs that have been put and not been collected are those in FinishedQueue, in
\* order; each is in the worker queue, at a worker or signaled, but only in one of these
\* places; and an event is free unless such a job has it (MultiThreading.h:24-43: no
\* queue ever gets more than it can hold).
JobsConserved ==
    LET pending == Contents(FinishedQueue)
        queue == Contents(WorkerQueue)
        queued == {k \in DOMAIN queue : queue[k].event # 0}
        active == {w \in Threads : Working(w)}
        ready == {task \in Range(pending) : task.event \in signaled}
        collected == Len(used) + (IF pc = "read" THEN 1 ELSE 0)
    IN /\ [k \in DOMAIN pending |-> pending[k].stripe] = [k \in 1 .. issued - collected |-> collected + k]
       /\ {queue[k] : k \in queued} \cup {worker[w].task : w \in active} \cup ready = Range(pending)
       /\ Cardinality(queued) + Cardinality(active) + Cardinality(signaled) = Len(pending)
       /\ pc # "done" =>
             /\ Range(Contents(FreeEvents)) = Events \ {task.event : task \in Range(pending)}
             /\ Len(Contents(FreeEvents)) + Len(pending) = NumThreads

TotalStripes == FoldLeft(+, 0, file)

\* The chunks are used stripe by stripe, in file order, each stripe once and when
\* complete, although the workers may finish them in any order.
Output == INSTANCE BlockOutput WITH
    Byte <- Nat,
    BufSize <- 1,
    original <- [k \in 1 .. TotalStripes |-> k],
    written <- used,
    verdict <- IF pc = "done" THEN "success" ELSE "running"

UsesTheStripes == Output!Spec

\* Compression always comes to its end, and all threads with it.
Termination == <>(pc = "done" /\ \A w \in Threads : worker[w].pc = "exited")
=============================================================================
