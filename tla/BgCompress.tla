----------------------------- MODULE BgCompress -----------------------------
(***************************************************************************)
(* The first compression pass of the legacy C++ program: the main thread   *)
(* (srep.cpp:589-704) compresses one block while the background thread     *)
(* (io.cpp BG_COMPRESSION_THREAD) reads the next one and saves the         *)
(* previous one.  They share two slots of buffers, the volatile errcode,   *)
(* and three auto-reset events.                                            *)
(*                                                                         *)
(* A slot's data, its checksum and the main thread's results for it are    *)
(* each represented by the number of the block they belong to, 0 being     *)
(* "nothing" (an empty read at the end of the file).                       *)
(***************************************************************************)
EXTENDS Naturals, Sequences

CONSTANT Jobs      \* the compressions that may be run, see Job

Slots == {0, 1}     \* BUFFERS = 2

(***************************************************************************)
(* mode: "io" (-m..o), "index" or "future" (-m..f); size: the number of    *)
(* blocks in filesize bytes; oversize: the input goes on after them;       *)
(* temp: the input is copied to a tempfile; fails: the I/O calls that may  *)
(* fail, "write" to fout and "temp" to ftemp.                              *)
(***************************************************************************)
Job == [mode : {"io", "index", "future"}, size : Nat, oversize : BOOLEAN, temp : BOOLEAN,
        fails : SUBSET {"write", "temp"}]

ASSUME BgCompressAssumption == Jobs \subseteq Job

VARIABLES
    job,
    \* shared by the two threads
    buf,        \* slot -> block read into it (bufptr, len)
    sum,        \* slot -> block whose checksum is in header[3..]
    stat,       \* slot -> block whose matches are in statbuf, stat_size, header[0..2]
    errcode,    \* the background thread has failed
    readDone, writeReady, bgThreadFinished,
    \* background thread
    bgPc,
    b,          \* block being read, from 1 (pos)
    i,          \* its slot
    fout,       \* the blocks saved to the output file
    \* main thread
    mainPc,
    k,          \* slot being compressed
    origsize,   \* blocks compressed
    stored      \* COMPRESSED_BLOCKs kept for the second pass

shared == <<buf, sum, stat, errcode, readDone, writeReady, bgThreadFinished>>
bgVars == <<bgPc, b, i, fout>>
mainVars == <<mainPc, k, origsize, stored>>
vars == <<job, shared, bgVars, mainVars>>

Init ==
    /\ job \in Jobs
    /\ buf = [s \in Slots |-> 0]
    /\ sum = [s \in Slots |-> 0]
    /\ stat = [s \in Slots |-> 0]
    /\ errcode = FALSE
    /\ readDone = FALSE /\ writeReady = FALSE /\ bgThreadFinished = FALSE
    /\ bgPc = "read" /\ b = 1 /\ i = 1 /\ fout = <<>>
    /\ mainPc = "wait" /\ k = 0 /\ origsize = 0 /\ stored = <<>>

NextSlotUnbounded(s) == s + 1

NextSlot(s) == (s + 1) % 2

-----------------------------------------------------------------------------
(* The background thread. It runs until the process exits. *)

Exited == mainPc \in {"ok", "failed"}

FirstTwo == b <= 2

FirstBlock == b = 1

BgGoto(label) == bgPc' = label /\ UNCHANGED <<b, i, fout>>

BreakSilently == UNCHANGED readDone

\* ReadDone.Signal() on the way out after an oversized read.
WakeMain == readDone' = TRUE

FailureUnnoticed == UNCHANGED errcode

NoteFailure == errcode' = TRUE

BgRead ==
    /\ bgPc = "read" /\ ~ Exited
    /\ IF b > job.size /\ job.oversize
       THEN /\ NoteFailure
            /\ WakeMain
            /\ BgGoto("finish")
            /\ UNCHANGED buf
       ELSE /\ buf' = [buf EXCEPT ![i] = IF b <= job.size THEN b ELSE 0]
            /\ BgGoto("prepare")
            /\ UNCHANGED <<errcode, readDone>>
    /\ UNCHANGED <<job, sum, stat, writeReady, bgThreadFinished, mainVars>>

\* hash_func(hash_obj, bufptr[i], len[i], header[i]+3)
BgPrepare ==
    /\ bgPc = "prepare" /\ ~ Exited
    /\ sum' = [sum EXCEPT ![i] = buf[i]]
    /\ BgGoto(IF FirstBlock THEN "signal" ELSE "waitWrite")
    /\ UNCHANGED <<job, buf, stat, errcode, readDone, writeReady, bgThreadFinished, mainVars>>

BgWaitWrite ==
    /\ bgPc = "waitWrite" /\ ~ Exited
    /\ writeReady
    /\ writeReady' = FALSE
    /\ BgGoto("signal")
    /\ UNCHANGED <<job, buf, sum, stat, errcode, readDone, bgThreadFinished, mainVars>>

\* The next iteration, or the end of the loop if the block just read was empty.
BgAdvance ==
    IF buf[i] = 0
    THEN bgPc' = "finish" /\ UNCHANGED <<b, i>>
    ELSE bgPc' = "read" /\ b' = b + 1 /\ i' = NextSlot(i)

BgSignal ==
    /\ bgPc = "signal" /\ ~ Exited
    /\ readDone' = TRUE
    /\ IF FirstBlock \/ job.mode = "future"
       THEN BgAdvance /\ UNCHANGED fout
       ELSE BgGoto("save")
    /\ UNCHANGED <<job, buf, sum, stat, errcode, writeReady, bgThreadFinished, mainVars>>

\* save_data of the previous slot: header, matches, literals.
BgSave ==
    /\ bgPc = "save" /\ ~ Exited
    /\ LET p == NextSlot(i) IN
       fout' = Append(fout, [sum |-> sum[p], stat |-> stat[p], data |-> buf[p]])
    /\ BgAdvance
    /\ UNCHANGED <<job, shared, mainVars>>

BgSaveFails ==
    /\ bgPc = "save" /\ ~ Exited
    /\ "write" \in job.fails
    /\ NoteFailure
    /\ BgGoto("finish")
    /\ UNCHANGED <<job, buf, sum, stat, readDone, writeReady, bgThreadFinished, mainVars>>

BgFinish ==
    /\ bgPc = "finish" /\ ~ Exited
    /\ bgThreadFinished' = TRUE
    /\ BgGoto("gone")
    /\ UNCHANGED <<job, buf, sum, stat, errcode, readDone, writeReady, mainVars>>

BgStep == BgRead \/ BgPrepare \/ BgWaitWrite \/ BgSignal \/ BgSave \/ BgSaveFails \/ BgFinish

-----------------------------------------------------------------------------
(* The main thread. *)

MainGoto(label) == mainPc' = label /\ UNCHANGED <<k, origsize, stored>>

\* bg_thread.read()
MainRead ==
    /\ mainPc = "wait"
    /\ readDone
    /\ readDone' = FALSE
    /\ k' = NextSlot(k)
    /\ mainPc' = "check"
    /\ UNCHANGED <<job, buf, sum, stat, errcode, writeReady, bgThreadFinished,
                   bgVars, origsize, stored>>

MainCheck ==
    /\ mainPc = "check"
    /\ MainGoto(IF errcode THEN "cleanup"
                ELSE IF buf[k] = 0 THEN "finish"
                ELSE IF job.temp THEN "temp" ELSE "compress")
    /\ UNCHANGED <<job, shared, bgVars>>

MainTemp ==
    /\ mainPc = "temp"
    /\ MainGoto("compress") \/ ("temp" \in job.fails /\ MainGoto("cleanup"))
    /\ UNCHANGED <<job, shared, bgVars>>

MainCompress ==
    /\ mainPc = "compress"
    /\ stat' = [stat EXCEPT ![k] = buf[k]]
    /\ MainGoto("write")
    /\ UNCHANGED <<job, buf, sum, errcode, readDone, writeReady, bgThreadFinished, bgVars>>

\* bg_thread.write()
MainWrite ==
    /\ mainPc = "write"
    /\ writeReady' = TRUE
    /\ MainGoto("recheck")
    /\ UNCHANGED <<job, buf, sum, stat, errcode, readDone, bgThreadFinished, bgVars>>

MainRecheck ==
    /\ mainPc = "recheck"
    /\ MainGoto(IF errcode THEN "cleanup" ELSE "store")
    /\ UNCHANGED <<job, shared, bgVars>>

\* Save header[] and statbuf[] to the COMPRESSED_BLOCK struct.
MainStore ==
    /\ mainPc = "store"
    /\ stored' = IF job.mode = "io" THEN stored
                 ELSE Append(stored, [sum |-> sum[k], stat |-> stat[k]])
    /\ origsize' = origsize + 1
    /\ mainPc' = "wait"
    /\ UNCHANGED <<job, shared, bgVars, k>>

BgNotAwaited == TRUE

BgIsDone == bgThreadFinished

\* bg_thread.wait(), then the last look at errcode.
MainFinish ==
    /\ mainPc = "finish"
    /\ BgIsDone
    /\ bgThreadFinished' = FALSE
    /\ MainGoto(IF errcode THEN "cleanup" ELSE "ok")
    /\ UNCHANGED <<job, buf, sum, stat, errcode, readDone, writeReady, bgVars>>

\* Files are closed and deleted and the process exits, whatever the other thread does.
MainCleanup ==
    /\ mainPc = "cleanup"
    /\ MainGoto("failed")
    /\ UNCHANGED <<job, shared, bgVars>>

MainStep ==
    \/ MainRead \/ MainCheck \/ MainTemp \/ MainCompress \/ MainWrite
    \/ MainRecheck \/ MainStore \/ MainFinish \/ MainCleanup

Terminated == Exited /\ UNCHANGED vars

Next == BgStep \/ MainStep \/ Terminated

Spec == Init /\ [][Next]_vars

\* The operating system runs each thread that is not waiting for an event.
FairSpec == Spec /\ WF_vars(BgStep) /\ WF_vars(MainStep)

-----------------------------------------------------------------------------
(* Properties. *)

Saved == [sum : Nat, stat : Nat, data : Nat]
Stored == [sum : Nat, stat : Nat]

TypeOK ==
    /\ job \in Job
    /\ buf \in [Slots -> Nat] /\ sum \in [Slots -> Nat] /\ stat \in [Slots -> Nat]
    /\ errcode \in BOOLEAN /\ readDone \in BOOLEAN
    /\ writeReady \in BOOLEAN /\ bgThreadFinished \in BOOLEAN
    /\ bgPc \in {"read", "prepare", "waitWrite", "signal", "save", "finish", "gone"}
    /\ b \in Nat \ {0} /\ i \in Slots
    /\ fout \in Seq(Saved)
    /\ mainPc \in {"wait", "check", "temp", "compress", "write", "recheck", "store",
                   "finish", "cleanup", "ok", "failed"}
    /\ k \in Slots /\ origsize \in Nat
    /\ stored \in Seq(Stored)

MainOwnsSlot == mainPc \in {"temp", "compress", "write"}

\* Neither the read-ahead nor the write-behind touches the slot that the main thread
\* is compressing: the two handshakes keep the threads in different slots.
SlotExclusive ==
    MainOwnsSlot => /\ bgPc \in {"read", "prepare"} => i # k
                    /\ bgPc = "save" => NextSlot(i) # k

\* The background thread has left because the input is larger than announced.
OversizeExit == errcode /\ job.oversize /\ b > job.size /\ bgPc \in {"finish", "gone"}

\* Auto-reset events do not count: a Signal of an event still set is lost. No hand-over
\* is, in either direction. The oversize exit (io.cpp:149) may signal ReadDone while the
\* block before it has not been taken; that signal then serves for both: the main thread,
\* wherever the error finds it, never waits for an event that has been used up.
NoHandOverLost ==
    /\ bgPc = "signal" => ~ readDone
    /\ mainPc = "write" => ~ writeReady
    /\ OversizeExit /\ mainPc = "wait" => readDone

SavedAs(n) == [sum |-> n, stat |-> n, data |-> n]

\* The blocks reach the output file in order, each once, with its own checksum and
\* matches; and the pass succeeds only when "all compressed data are successfully
\* saved to disk" (srep.cpp:670).
SavedInOrder ==
    /\ \A n \in DOMAIN fout : fout[n] = SavedAs(n)
    /\ mainPc = "ok" /\ job.mode # "future" => Len(fout) = job.size

\* The matches kept for the second pass are those of the blocks, in order, and all
\* of them when the pass succeeds.
MatchesKept ==
    job.mode # "io" => /\ \A n \in DOMAIN stored : stored[n].stat = n
                       /\ mainPc = "ok" => Len(stored) = job.size

\* "Save checksum of every input block for error-checking during decompression"
\* (io.cpp:152): the header kept for block n has the checksum of block n.
ChecksumKept == job.mode = "future" => \A n \in DOMAIN stored : stored[n].sum = n

\* Seen from outside, the output file grows by whole blocks, up to all of them
\* (with -m..f it is written in the second pass only).
Output == INSTANCE BlockOutput WITH
    Byte <- Saved,
    BufSize <- 1,
    original <- [n \in 1 .. job.size |-> SavedAs(n)],
    written <- fout,
    verdict <- IF mainPc = "ok" /\ job.mode # "future" THEN "success"
               ELSE IF mainPc = "failed" THEN "failure"
               ELSE "running"

SavesTheBlocks == Output!Spec

\* Without I/O failures neither thread is left waiting for the other.
Termination == job.fails = {} => <>Exited

\* "Delete output files on error" (srep.cpp:1166): an error of the background thread
\* ends the program with that error.
ErrorReported == errcode ~> mainPc = "failed"
=============================================================================
