-------------------------- MODULE BgCompress_proofs --------------------------
(***************************************************************************)
(* Proofs about BgCompress, for any number of blocks, with and without     *)
(* I/O failures.  The inductive invariant says, for every point of the     *)
(* background thread, how far the main thread is behind or ahead           *)
(* (Handshake), which slot each is on (SlotParity), and what the slots     *)
(* hold (BgData, MainData).                                                *)
(***************************************************************************)
EXTENDS BgCompress, TLAPS

\* What a read of block n delivers.
Blk(n) == IF n <= job.size THEN n ELSE 0

Reading == bgPc \in {"read", "prepare", "waitWrite"}
Over == bgPc \in {"finish", "gone"}
Active == mainPc \notin {"cleanup", "ok", "failed"}

\* The main thread has not taken block n yet, is on it, or has handed it back.
MainBefore(n) == \/ mainPc = "wait" /\ origsize + 1 = n
                 \/ mainPc \in {"recheck", "store"} /\ origsize + 2 = n
MainOn(n) == mainPc \in {"check", "temp", "compress", "write", "finish"} /\ origsize + 1 = n
MainAfter(n) == \/ mainPc = "wait" /\ origsize = n
                \/ mainPc \in {"recheck", "store"} /\ origsize + 1 = n

\* ReadDone has been signalled for block n, not for block n + 1; WriteReady has not
\* been waited for since.
Offered(n) ==
    \/ readDone /\ ~ writeReady /\ MainBefore(n)
    \/ ~ readDone /\ ~ writeReady /\ MainOn(n)
    \/ ~ readDone /\ writeReady /\ MainAfter(n)

Handshake ==
    Active /\ ~ errcode =>
        /\ Reading /\ b = 1 => ~ readDone /\ ~ writeReady /\ MainAfter(0)
        /\ Reading /\ b > 1 => Offered(b - 1)
        /\ bgPc = "signal" => ~ readDone /\ ~ writeReady /\ MainAfter(b - 1)
        /\ bgPc = "save" \/ Over => Offered(b)

\* The number of read() calls the main thread has returned from.
Taken == IF mainPc = "wait" THEN origsize ELSE origsize + 1

SlotParity ==
    Active /\ ~ errcode => /\ Taken = b => k = i
                           /\ Taken + 1 = b => k # i
                           /\ Taken + 2 = b => k = i

BgData ==
    /\ b <= job.size + 1
    /\ bgPc = "waitWrite" => b > 1
    /\ bgPc = "save" => b > 1 /\ job.mode # "future"
    /\ bgPc \in {"prepare", "waitWrite", "signal", "save"} => buf[i] = Blk(b)
    /\ bgPc \in {"waitWrite", "signal", "save"} => sum[i] = Blk(b)
    /\ Over /\ ~ errcode => b = job.size + 1 /\ buf[i] = 0
    /\ ~ Over /\ b > 1 => buf[NextSlot(i)] = b - 1 /\ sum[NextSlot(i)] = b - 1
    /\ bgPc \in {"signal", "save"} /\ b > 1 => stat[NextSlot(i)] = b - 1
    /\ Reading /\ b > 1 /\ writeReady => stat[NextSlot(i)] = b - 1
    /\ bgPc = "save" /\ writeReady => stat[i] = b
    /\ bgThreadFinished => bgPc = "gone"
    /\ errcode => Over

MainData ==
    /\ origsize <= job.size
    /\ mainPc = "check" /\ ~ errcode => buf[k] = Blk(origsize + 1)
    /\ mainPc \in {"temp", "compress"} => buf[k] = origsize + 1
    /\ mainPc \in {"write", "recheck", "store"} => stat[k] = origsize + 1
    /\ mainPc \in {"temp", "compress", "write", "recheck", "store"} => origsize < job.size
    /\ mainPc \in {"temp", "compress", "write"} => ~ writeReady
    /\ mainPc \in {"cleanup", "failed"} /\ ~ errcode =>
          ~ readDone /\ ~ writeReady /\ bgPc # "signal" /\ b > 1
    /\ mainPc \in {"finish", "ok"} => origsize = job.size
    /\ mainPc = "ok" => bgPc = "gone" /\ ~ errcode

Kept ==
    job.mode # "io" => /\ Len(stored) = origsize
                       /\ \A n \in DOMAIN stored : stored[n].stat = n

InFile ==
    /\ \A n \in DOMAIN fout : fout[n] = SavedAs(n)
    /\ job.mode # "future" => /\ ~ Over /\ b = 1 => Len(fout) = 0
                              /\ ~ Over /\ b > 1 => Len(fout) + 2 = b
                              /\ Over /\ ~ errcode => Len(fout) = job.size

Inv == TypeOK /\ Handshake /\ SlotParity /\ BgData /\ MainData /\ Kept /\ InFile

LEMMA NextSlotFlips ==
    ASSUME NEW s \in Slots
    PROVE  /\ NextSlot(s) \in Slots
           /\ NextSlot(s) # s
           /\ NextSlot(NextSlot(s)) = s
BY DEF NextSlot, Slots

LEMMA InitInv == Init => Inv
BY BgCompressAssumption
   DEF Init, Inv, TypeOK, Job, Slots, Saved, Stored, Handshake, MainAfter, Reading, Over, Active,
       SlotParity, Taken, BgData, Blk, MainData, Kept, InFile

LEMMA Advance ==
    ASSUME Inv, BgAdvance, bgPc \in {"signal", "save"}
    PROVE  \/ /\ b = job.size + 1 /\ buf[i] = 0
              /\ bgPc' = "finish" /\ b' = b /\ i' = i
           \/ /\ b <= job.size /\ buf[i] = b
              /\ bgPc' = "read" /\ b' = b + 1 /\ i' = NextSlot(i)
<1>1. b \in Nat \ {0} /\ job.size \in Nat
  BY DEF Inv, TypeOK, Job
<1>2. buf[i] = Blk(b) /\ b <= job.size + 1
  BY DEF Inv, BgData
<1> QED
  BY <1>1, <1>2 DEF BgAdvance, Blk

LEMMA BgReadInv == Inv /\ BgRead => Inv'
<1> SUFFICES ASSUME Inv, BgRead PROVE Inv'
    OBVIOUS
<1> USE NextSlotFlips DEF Inv
<1>1. TypeOK'
  <2>1. b \in Nat /\ job.size \in Nat
    BY DEF TypeOK, Job
  <2>2. buf' \in [Slots -> Nat]
    BY <2>1 DEF BgRead, NoteFailure, TypeOK
  <2>3. errcode' \in BOOLEAN /\ readDone' \in BOOLEAN
    BY DEF BgRead, NoteFailure, WakeMain, TypeOK
  <2>4. bgPc' \in {"finish", "prepare"} /\ b' = b /\ i' = i /\ fout' = fout
    BY DEF BgRead, NoteFailure, BgGoto
  <2> QED BY <2>2, <2>3, <2>4 DEF BgRead, NoteFailure, TypeOK, mainVars
<1>2. Handshake'
    BY DEF BgRead, NoteFailure, BgGoto, WakeMain, shared, mainVars, Exited, TypeOK, Handshake,
           Offered,
       MainBefore, MainOn, MainAfter, Reading, Over, Active
<1>3. SlotParity'
    BY DEF BgRead, NoteFailure, BgGoto, WakeMain, shared, mainVars, Exited, TypeOK, SlotParity,
           Taken, Active
<1>4. BgData'
    BY DEF BgRead, NoteFailure, BgGoto, WakeMain, shared, mainVars, Exited, TypeOK, BgData, Blk,
           Reading, Over
<1>5. MainData'
  <2>1. mainPc = "check" /\ ~ errcode => k # i
    BY DEF BgRead, NoteFailure, TypeOK, BgData, Handshake, Offered, MainBefore, MainOn,
           MainAfter, Reading,
       Over, Active, SlotParity, Taken
  <2>2. mainPc \in {"temp", "compress"} /\ ~ errcode => k # i
    BY DEF BgRead, NoteFailure, TypeOK, BgData, Handshake, Offered, MainBefore, MainOn,
           MainAfter, Reading,
       Over, Active, SlotParity, Taken
  <2>3. ~ errcode
    BY DEF BgRead, NoteFailure, BgData, Over
  <2>4. mainPc \in {"check", "temp", "compress"} => buf'[k] = buf[k]
    BY <2>1, <2>2, <2>3 DEF BgRead, NoteFailure, TypeOK
  <2> QED
    BY <2>3, <2>4 DEF BgRead, NoteFailure, BgGoto, mainVars, Exited, MainData, Blk
<1>6. Kept'
    BY DEF BgRead, NoteFailure, BgGoto, WakeMain, shared, mainVars, Exited, TypeOK, Kept
<1>7. InFile'
    BY DEF BgRead, NoteFailure, BgGoto, WakeMain, shared, mainVars, Exited, TypeOK, InFile, Over
<1> QED BY <1>1, <1>2, <1>3, <1>4, <1>5, <1>6, <1>7

LEMMA BgPrepareInv == Inv /\ BgPrepare => Inv'
<1> SUFFICES ASSUME Inv, BgPrepare PROVE Inv'
    OBVIOUS
<1> USE NextSlotFlips DEF Inv
<1>1. TypeOK'
    BY DEF BgPrepare, BgGoto, FirstBlock, mainVars, Exited, TypeOK
<1>2. Handshake'
    BY DEF BgPrepare, BgGoto, FirstBlock, mainVars, Exited, TypeOK, Handshake, Offered, MainBefore,
       MainOn, MainAfter, Reading, Over, Active
<1>3. SlotParity'
    BY DEF BgPrepare, BgGoto, FirstBlock, mainVars, Exited, TypeOK, SlotParity, Taken, Active
<1>4. BgData'
    BY DEF BgPrepare, BgGoto, FirstBlock, mainVars, Exited, TypeOK, BgData, Blk, Reading, Over
<1>5. MainData'
    BY DEF BgPrepare, BgGoto, FirstBlock, mainVars, Exited, TypeOK, MainData, Blk
<1>6. Kept'
    BY DEF BgPrepare, BgGoto, FirstBlock, mainVars, Exited, TypeOK, Kept
<1>7. InFile'
    BY DEF BgPrepare, BgGoto, FirstBlock, mainVars, Exited, TypeOK, InFile, Over
<1> QED BY <1>1, <1>2, <1>3, <1>4, <1>5, <1>6, <1>7

LEMMA BgWaitWriteInv == Inv /\ BgWaitWrite => Inv'
<1> SUFFICES ASSUME Inv, BgWaitWrite PROVE Inv'
    OBVIOUS
<1> USE NextSlotFlips DEF Inv
<1>1. TypeOK'
    BY DEF BgWaitWrite, BgGoto, mainVars, Exited, TypeOK
<1>2. Handshake'
    BY DEF BgWaitWrite, BgGoto, mainVars, Exited, TypeOK, Handshake, Offered, MainBefore, MainOn,
       MainAfter, Reading, Over, Active
<1>3. SlotParity'
    BY DEF BgWaitWrite, BgGoto, mainVars, Exited, TypeOK, SlotParity, Taken, Active
<1>4. BgData'
    BY DEF BgWaitWrite, BgGoto, mainVars, Exited, TypeOK, BgData, Blk, Reading, Over
<1>5. MainData'
    BY DEF BgWaitWrite, BgGoto, mainVars, Exited, TypeOK, MainData, Blk
<1>6. Kept'
    BY DEF BgWaitWrite, BgGoto, mainVars, Exited, TypeOK, Kept
<1>7. InFile'
    BY DEF BgWaitWrite, BgGoto, mainVars, Exited, TypeOK, InFile, Over
<1> QED BY <1>1, <1>2, <1>3, <1>4, <1>5, <1>6, <1>7

LEMMA BgSignalInv == Inv /\ BgSignal => Inv'
<1> SUFFICES ASSUME Inv, BgSignal PROVE Inv'
    OBVIOUS
<1> USE NextSlotFlips DEF Inv
<1> HIDE DEF Inv
<1>a. /\ b \in Nat \ {0} /\ job.size \in Nat /\ origsize \in Nat /\ i \in Slots /\ k \in Slots
      /\ NextSlot(i) \in Slots /\ NextSlot(i) # i /\ NextSlot(NextSlot(i)) = i
    BY NextSlotFlips DEF Inv, TypeOK, Job
<1> DEFINE Last == /\ b = job.size + 1 /\ buf[i] = 0
                   /\ bgPc' = "finish" /\ b' = b /\ i' = i
           More == /\ b <= job.size /\ buf[i] = b
                   /\ bgPc' = "read" /\ b' = b + 1 /\ i' = NextSlot(i)
           ToSave == /\ bgPc' = "save" /\ b' = b /\ i' = i
                     /\ ~ FirstBlock /\ job.mode # "future"
<1>b. ((FirstBlock \/ job.mode = "future") /\ (Last \/ More)) \/ ToSave
    BY Advance DEF BgSignal, BgGoto
<1> HIDE DEF Last, More, ToSave
<1> USE DEF Inv
<1>1. TypeOK'
    BY SMTT(30) DEF BgSignal, BgAdvance, BgGoto, FirstBlock, mainVars, Exited, TypeOK
<1>2. Handshake'
    BY SMTT(30) DEF BgSignal, BgAdvance, BgGoto, FirstBlock, mainVars, Exited, TypeOK, Handshake, Offered,
       MainBefore, MainOn, MainAfter, Reading, Over, Active
<1>3. SlotParity'
    BY <1>a, <1>b DEF Last, More, ToSave, BgSignal, FirstBlock, mainVars, Handshake, Offered,
       MainBefore, MainOn, MainAfter, Reading, Over, Active, SlotParity, Taken, Slots, NextSlot
<1>4. BgData'
  <2>1. ~ writeReady
    BY DEF BgSignal, Exited, Handshake, Active, MainData, BgData, Over, TypeOK
  <2>2. /\ buf' = buf /\ sum' = sum /\ stat' = stat /\ writeReady' = writeReady
        /\ errcode' = errcode /\ bgThreadFinished' = bgThreadFinished /\ job' = job
        /\ bgPc = "signal" /\ sum[i] = Blk(b) /\ ~ errcode /\ ~ bgThreadFinished
    BY DEF BgSignal, BgData, Over, TypeOK
  <2>3. CASE Last
    BY <1>a, <2>2, <2>3 DEF Last, BgData, Reading, Over
  <2>4. CASE More
    BY <1>a, <2>1, <2>2, <2>4 DEF More, BgData, Reading, Over, Blk
  <2>5. CASE ToSave
    BY <1>a, <2>1, <2>2, <2>5 DEF ToSave, FirstBlock, BgData, Reading, Over, Blk
  <2> QED BY <1>b, <2>3, <2>4, <2>5
<1>5. MainData'
    BY DEF BgSignal, BgAdvance, BgGoto, FirstBlock, mainVars, Exited, TypeOK, MainData, Blk
<1>6. Kept'
    BY DEF BgSignal, BgAdvance, BgGoto, FirstBlock, mainVars, Exited, TypeOK, Kept
<1>7. InFile'
    BY <1>a, <1>b DEF Last, More, ToSave, BgSignal, FirstBlock, mainVars, BgAdvance, BgGoto,
       InFile, BgData, Over
<1> QED BY <1>1, <1>2, <1>3, <1>4, <1>5, <1>6, <1>7

LEMMA BgSaveInv == Inv /\ BgSave => Inv'
<1> SUFFICES ASSUME Inv, BgSave PROVE Inv'
    OBVIOUS
<1> USE NextSlotFlips DEF Inv
<1> HIDE DEF Inv
<1>a. /\ b \in Nat \ {0} /\ job.size \in Nat /\ origsize \in Nat /\ i \in Slots /\ k \in Slots
      /\ NextSlot(i) \in Slots /\ NextSlot(i) # i /\ NextSlot(NextSlot(i)) = i
    BY NextSlotFlips DEF Inv, TypeOK, Job
<1> DEFINE Last == /\ b = job.size + 1 /\ buf[i] = 0
                   /\ bgPc' = "finish" /\ b' = b /\ i' = i
           More == /\ b <= job.size /\ buf[i] = b
                   /\ bgPc' = "read" /\ b' = b + 1 /\ i' = NextSlot(i)
<1>b. Last \/ More
    BY Advance DEF BgSave
<1> HIDE DEF Last, More
<1> USE DEF Inv
<1>1. TypeOK'
    BY SMTT(30) DEF BgSave, BgAdvance, shared, mainVars, Exited, TypeOK, Saved, Slots, NextSlot
<1>2. Handshake'
    BY SMTT(30) DEF BgSave, BgAdvance, shared, mainVars, Exited, TypeOK, Handshake, Offered, MainBefore,
       MainOn, MainAfter, Reading, Over, Active
<1>3. SlotParity'
    BY <1>a, <1>b DEF Last, More, BgSave, shared, mainVars, Handshake, Offered, MainBefore, MainOn,
       MainAfter, Reading, Over, Active, SlotParity, Taken, Slots, NextSlot
<1>4. BgData'
  <2>1. /\ buf' = buf /\ sum' = sum /\ stat' = stat /\ writeReady' = writeReady
        /\ errcode' = errcode /\ bgThreadFinished' = bgThreadFinished /\ job' = job
        /\ bgPc = "save" /\ sum[i] = Blk(b) /\ ~ errcode /\ ~ bgThreadFinished
    BY DEF BgSave, shared, BgData, Over, TypeOK
  <2>2. CASE Last
    BY <1>a, <2>1, <2>2 DEF Last, BgData, Reading, Over
  <2>3. CASE More
    BY <1>a, <2>1, <2>3 DEF More, BgData, Reading, Over, Blk
  <2> QED BY <1>b, <2>2, <2>3
<1>5. MainData'
    BY DEF BgSave, BgAdvance, shared, mainVars, Exited, TypeOK, MainData, Blk
<1>6. Kept'
    BY DEF BgSave, BgAdvance, shared, mainVars, Exited, TypeOK, Kept
<1>7. InFile'
  <2>0. b > 1 /\ b - 1 \in Nat
    BY <1>a DEF BgSave, BgData
  <2>1. fout' = Append(fout, SavedAs(b - 1)) /\ fout \in Seq(Saved) /\ SavedAs(b - 1) \in Saved
    <3>1. /\ sum[NextSlot(i)] = b - 1 /\ stat[NextSlot(i)] = b - 1 /\ buf[NextSlot(i)] = b - 1
      BY <2>0 DEF BgSave, BgData, Over
    <3>2. fout' = Append(fout, SavedAs(b - 1))
      BY <3>1 DEF BgSave, SavedAs
    <3>3. SavedAs(b - 1) \in Saved
      BY <2>0 DEF SavedAs, Saved
    <3> QED BY <3>2, <3>3 DEF TypeOK
  <2>2. Len(fout') = Len(fout) + 1 /\ Len(fout) \in Nat
    BY <2>1
  <2>3. Len(fout) + 2 = b
    BY DEF BgSave, BgData, InFile, Over
  <2>4. \A n \in DOMAIN fout' : fout'[n] = SavedAs(n)
    BY <1>a, <2>1, <2>2, <2>3 DEF InFile
  <2>5. errcode' = errcode /\ ~ Over /\ job' = job
    BY DEF BgSave, shared, Over
  <2> QED
    BY <1>a, <1>b, <2>2, <2>3, <2>4, <2>5 DEF InFile, BgSave, Last, More, Over
<1> QED BY <1>1, <1>2, <1>3, <1>4, <1>5, <1>6, <1>7

LEMMA BgSaveFailsInv == Inv /\ BgSaveFails => Inv'
<1> SUFFICES ASSUME Inv, BgSaveFails PROVE Inv'
    OBVIOUS
<1> USE NextSlotFlips DEF Inv
<1>1. TypeOK'
    BY DEF BgSaveFails, NoteFailure, BgGoto, mainVars, Exited, TypeOK
<1>2. Handshake'
    BY DEF BgSaveFails, NoteFailure, BgGoto, mainVars, Exited, TypeOK, Handshake, Offered,
           MainBefore, MainOn,
       MainAfter, Reading, Over, Active
<1>3. SlotParity'
    BY DEF BgSaveFails, NoteFailure, BgGoto, mainVars, Exited, TypeOK, SlotParity, Taken, Active
<1>4. BgData'
    BY DEF BgSaveFails, NoteFailure, BgGoto, mainVars, Exited, TypeOK, BgData, Blk, Reading, Over
<1>5. MainData'
    BY DEF BgSaveFails, NoteFailure, BgGoto, mainVars, Exited, TypeOK, MainData, Blk
<1>6. Kept'
    BY DEF BgSaveFails, NoteFailure, BgGoto, mainVars, Exited, TypeOK, Kept
<1>7. InFile'
    BY DEF BgSaveFails, NoteFailure, BgGoto, mainVars, Exited, TypeOK, InFile, Over
<1> QED BY <1>1, <1>2, <1>3, <1>4, <1>5, <1>6, <1>7

LEMMA BgFinishInv == Inv /\ BgFinish => Inv'
<1> SUFFICES ASSUME Inv, BgFinish PROVE Inv'
    OBVIOUS
<1> USE NextSlotFlips DEF Inv
<1>1. TypeOK'
    BY DEF BgFinish, BgGoto, mainVars, Exited, TypeOK
<1>2. Handshake'
    BY DEF BgFinish, BgGoto, mainVars, Exited, TypeOK, Handshake, Offered, MainBefore, MainOn,
       MainAfter, Reading, Over, Active
<1>3. SlotParity'
    BY DEF BgFinish, BgGoto, mainVars, Exited, TypeOK, SlotParity, Taken, Active
<1>4. BgData'
    BY DEF BgFinish, BgGoto, mainVars, Exited, TypeOK, BgData, Blk, Reading, Over
<1>5. MainData'
    BY DEF BgFinish, BgGoto, mainVars, Exited, TypeOK, MainData, Blk
<1>6. Kept'
    BY DEF BgFinish, BgGoto, mainVars, Exited, TypeOK, Kept
<1>7. InFile'
    BY DEF BgFinish, BgGoto, mainVars, Exited, TypeOK, InFile, Over
<1> QED BY <1>1, <1>2, <1>3, <1>4, <1>5, <1>6, <1>7

LEMMA MainReadInv == Inv /\ MainRead => Inv'
<1> SUFFICES ASSUME Inv, MainRead PROVE Inv'
    OBVIOUS
<1> USE NextSlotFlips DEF Inv
<1>1. TypeOK'
    BY DEF MainRead, bgVars, TypeOK
<1>2. Handshake'
    BY DEF MainRead, bgVars, TypeOK, Handshake, Offered, MainBefore, MainOn, MainAfter, Reading,
       Over, Active
<1>3. SlotParity'
  <2>1. /\ b \in Nat \ {0} /\ origsize \in Nat /\ i \in Slots /\ k \in Slots
        /\ k' = NextSlot(k) /\ k' \in Slots /\ k' # k /\ (k' = i <=> k # i)
    BY DEF MainRead, TypeOK, Slots, NextSlot
  <2>2. mainPc = "wait" /\ Taken = origsize /\ Taken' = origsize + 1 /\ Active /\ readDone
    BY DEF MainRead, Taken, Active
  <2>3. ~ errcode => \/ Reading /\ b > 1 /\ Taken + 2 = b /\ k = i
                     \/ (bgPc = "save" \/ Over) /\ Taken + 1 = b /\ k # i
    BY <2>1, <2>2 DEF SlotParity, TypeOK, Handshake, Offered, MainBefore, MainOn, MainAfter,
       Reading, Over, Active
  <2> QED
    BY <2>1, <2>2, <2>3 DEF MainRead, bgVars, SlotParity
<1>4. BgData'
    BY DEF MainRead, bgVars, TypeOK, BgData, Blk, Reading, Over
<1>5. MainData'
  <2>1. /\ b \in Nat \ {0} /\ origsize \in Nat /\ i \in Slots /\ k \in Slots
        /\ k' = NextSlot(k) /\ (k # i => k' = i) /\ (k = i => k' = NextSlot(i))
    BY DEF MainRead, TypeOK, Slots, NextSlot
  <2>2. mainPc = "wait" /\ Taken = origsize /\ Active /\ readDone
    BY DEF MainRead, Taken, Active
  <2>3. ~ errcode => \/ Reading /\ b > 1 /\ Taken + 2 = b /\ k = i
                     \/ (bgPc = "save" \/ Over) /\ Taken + 1 = b /\ k # i
    BY <2>1, <2>2 DEF SlotParity, TypeOK, Handshake, Offered, MainBefore, MainOn, MainAfter,
       Reading, Over, Active
  <2>4. ~ errcode => buf[k'] = Blk(origsize + 1)
    <3>1. CASE Reading /\ b > 1 /\ Taken + 2 = b /\ k = i
      BY <2>1, <2>2, <3>1 DEF BgData, Reading, Over, Blk, TypeOK, Job
    <3>2. CASE (bgPc = "save" \/ Over) /\ Taken + 1 = b /\ k # i /\ ~ errcode
      BY <2>1, <2>2, <3>2 DEF BgData, Over, Blk, TypeOK, Job
    <3> QED BY <2>3, <3>1, <3>2
  <2> QED
    BY <2>2, <2>4 DEF MainRead, bgVars, MainData, Blk
<1>6. Kept'
    BY DEF MainRead, bgVars, TypeOK, Kept
<1>7. InFile'
    BY DEF MainRead, bgVars, TypeOK, InFile, Over
<1> QED BY <1>1, <1>2, <1>3, <1>4, <1>5, <1>6, <1>7

LEMMA MainCheckInv == Inv /\ MainCheck => Inv'
<1> SUFFICES ASSUME Inv, MainCheck PROVE Inv'
    OBVIOUS
<1> USE NextSlotFlips DEF Inv
<1>1. TypeOK'
    BY DEF MainCheck, MainGoto, shared, bgVars, TypeOK
<1>2. Handshake'
    BY DEF MainCheck, MainGoto, shared, bgVars, TypeOK, Handshake, Offered, MainBefore, MainOn,
       MainAfter, Reading, Over, Active
<1>3. SlotParity'
    BY DEF MainCheck, MainGoto, shared, bgVars, TypeOK, SlotParity, Taken, Active
<1>4. BgData'
    BY DEF MainCheck, MainGoto, shared, bgVars, TypeOK, BgData, Blk, Reading, Over
<1>5. MainData'
  <2>1. /\ origsize \in Nat /\ job.size \in Nat /\ k \in Slots /\ origsize <= job.size
        /\ errcode \in BOOLEAN
    BY DEF TypeOK, Job, MainData
  <2>2. CASE errcode
    BY <2>1, <2>2 DEF MainCheck, MainGoto, shared, bgVars, MainData, Blk
  <2>3. CASE ~ errcode /\ buf[k] = 0
    BY <2>1, <2>3 DEF MainCheck, MainGoto, shared, bgVars, MainData, Blk
  <2>4. CASE ~ errcode /\ buf[k] # 0
    <3>1. buf[k] = origsize + 1 /\ origsize < job.size
      BY <2>1, <2>4 DEF MainCheck, MainData, Blk
    <3>2. ~ writeReady
      BY <2>1, <2>4, <3>1 DEF MainCheck, Handshake, Offered, MainBefore, MainOn, MainAfter,
         Reading, Over, Active, TypeOK
    <3> QED BY <2>1, <2>4, <3>1, <3>2 DEF MainCheck, MainGoto, shared, bgVars, MainData, Blk
  <2> QED BY <2>1, <2>2, <2>3, <2>4
<1>6. Kept'
    BY DEF MainCheck, MainGoto, shared, bgVars, TypeOK, Kept
<1>7. InFile'
    BY DEF MainCheck, MainGoto, shared, bgVars, TypeOK, InFile, Over
<1> QED BY <1>1, <1>2, <1>3, <1>4, <1>5, <1>6, <1>7

LEMMA MainTempInv == Inv /\ MainTemp => Inv'
<1> SUFFICES ASSUME Inv, MainTemp PROVE Inv'
    OBVIOUS
<1> USE NextSlotFlips DEF Inv
<1>1. TypeOK'
    BY DEF MainTemp, MainGoto, shared, bgVars, TypeOK
<1>2. Handshake'
    BY DEF MainTemp, MainGoto, shared, bgVars, TypeOK, Handshake, Offered, MainBefore, MainOn,
       MainAfter, Reading, Over, Active
<1>3. SlotParity'
    BY DEF MainTemp, MainGoto, shared, bgVars, TypeOK, SlotParity, Taken, Active
<1>4. BgData'
    BY DEF MainTemp, MainGoto, shared, bgVars, TypeOK, BgData, Blk, Reading, Over
<1>5. MainData'
  <2>1. ~ errcode => ~ readDone /\ ~ writeReady /\ bgPc # "signal" /\ b > 1
    BY SMTT(30) DEF MainTemp, MainData, BgData, TypeOK, Job, Handshake, Offered, MainBefore, MainOn,
       MainAfter, Reading, Over, Active
  <2> QED
    BY <2>1 DEF MainTemp, MainGoto, shared, bgVars, TypeOK, MainData, Blk
<1>6. Kept'
    BY DEF MainTemp, MainGoto, shared, bgVars, TypeOK, Kept
<1>7. InFile'
    BY DEF MainTemp, MainGoto, shared, bgVars, TypeOK, InFile, Over
<1> QED BY <1>1, <1>2, <1>3, <1>4, <1>5, <1>6, <1>7

LEMMA MainCompressInv == Inv /\ MainCompress => Inv'
<1> SUFFICES ASSUME Inv, MainCompress PROVE Inv'
    OBVIOUS
<1> USE NextSlotFlips DEF Inv
<1>1. TypeOK'
    BY DEF MainCompress, MainGoto, bgVars, TypeOK
<1>2. Handshake'
    BY DEF MainCompress, MainGoto, bgVars, TypeOK, Handshake, Offered, MainBefore, MainOn,
       MainAfter, Reading, Over, Active
<1>3. SlotParity'
    BY DEF MainCompress, MainGoto, bgVars, TypeOK, SlotParity, Taken, Active
<1>4. BgData'
    BY DEF MainCompress, MainGoto, bgVars, TypeOK, BgData, Blk, Reading, Over, Handshake, Offered,
       MainBefore, MainOn, MainAfter, Active, SlotParity, Taken, MainData
<1>5. MainData'
    BY DEF MainCompress, MainGoto, bgVars, TypeOK, MainData, Blk
<1>6. Kept'
    BY DEF MainCompress, MainGoto, bgVars, TypeOK, Kept
<1>7. InFile'
    BY DEF MainCompress, MainGoto, bgVars, TypeOK, InFile, Over
<1> QED BY <1>1, <1>2, <1>3, <1>4, <1>5, <1>6, <1>7

LEMMA MainWriteInv == Inv /\ MainWrite => Inv'
<1> SUFFICES ASSUME Inv, MainWrite PROVE Inv'
    OBVIOUS
<1> USE NextSlotFlips DEF Inv
<1>1. TypeOK'
    BY DEF MainWrite, MainGoto, bgVars, TypeOK
<1>2. Handshake'
    BY DEF MainWrite, MainGoto, bgVars, TypeOK, Handshake, Offered, MainBefore, MainOn, MainAfter,
       Reading, Over, Active
<1>3. SlotParity'
    BY DEF MainWrite, MainGoto, bgVars, TypeOK, SlotParity, Taken, Active
<1>4. BgData'
  <2>1. /\ b \in Nat \ {0} /\ origsize \in Nat /\ i \in Slots /\ k \in Slots
        /\ stat[k] = origsize + 1
    BY DEF MainWrite, TypeOK, MainData
  <2>2. mainPc = "write" /\ Taken = origsize + 1 /\ Active
    BY DEF MainWrite, Taken, Active
  <2>3. Reading /\ b > 1 => k = NextSlot(i)
    <3>1. Reading /\ b > 1 => ~ errcode /\ Taken + 1 = b
      BY <2>1, <2>2 DEF BgData, TypeOK, Handshake, Offered, MainBefore, MainOn, MainAfter, Reading,
         Over, Active
    <3>2. k # i => k = NextSlot(i)
      BY <2>1 DEF Slots, NextSlot
    <3> QED BY <2>2, <3>1, <3>2 DEF SlotParity
  <2>4. bgPc = "save" => origsize + 1 = b /\ k = i
    <3>1. bgPc = "save" => ~ errcode /\ Taken = b
      BY <2>1, <2>2 DEF BgData, TypeOK, Handshake, Offered, MainBefore, MainOn, MainAfter, Reading,
         Over, Active
    <3> QED BY <2>2, <3>1 DEF SlotParity
  <2>5. Reading /\ b > 1 => origsize + 1 = b - 1
      BY <2>1, <2>2 DEF BgData, TypeOK, Handshake, Offered, MainBefore, MainOn, MainAfter, Reading,
         Over, Active
  <2> QED
    BY <2>1, <2>2, <2>3, <2>4, <2>5 DEF MainWrite, MainGoto, bgVars, BgData, Blk, Reading, Over
<1>5. MainData'
    BY DEF MainWrite, MainGoto, bgVars, TypeOK, MainData, Blk
<1>6. Kept'
    BY DEF MainWrite, MainGoto, bgVars, TypeOK, Kept
<1>7. InFile'
    BY DEF MainWrite, MainGoto, bgVars, TypeOK, InFile, Over
<1> QED BY <1>1, <1>2, <1>3, <1>4, <1>5, <1>6, <1>7

LEMMA MainRecheckInv == Inv /\ MainRecheck => Inv'
<1> SUFFICES ASSUME Inv, MainRecheck PROVE Inv'
    OBVIOUS
<1> USE NextSlotFlips DEF Inv
<1>1. TypeOK'
    BY DEF MainRecheck, MainGoto, shared, bgVars, TypeOK
<1>2. Handshake'
    BY DEF MainRecheck, MainGoto, shared, bgVars, TypeOK, Handshake, Offered, MainBefore, MainOn,
       MainAfter, Reading, Over, Active
<1>3. SlotParity'
    BY DEF MainRecheck, MainGoto, shared, bgVars, TypeOK, SlotParity, Taken, Active
<1>4. BgData'
    BY DEF MainRecheck, MainGoto, shared, bgVars, TypeOK, BgData, Blk, Reading, Over
<1>5. MainData'
    BY DEF MainRecheck, MainGoto, shared, bgVars, TypeOK, MainData, Blk
<1>6. Kept'
    BY DEF MainRecheck, MainGoto, shared, bgVars, TypeOK, Kept
<1>7. InFile'
    BY DEF MainRecheck, MainGoto, shared, bgVars, TypeOK, InFile, Over
<1> QED BY <1>1, <1>2, <1>3, <1>4, <1>5, <1>6, <1>7

LEMMA MainStoreInv == Inv /\ MainStore => Inv'
<1> SUFFICES ASSUME Inv, MainStore PROVE Inv'
    OBVIOUS
<1> USE NextSlotFlips DEF Inv
<1>1. TypeOK'
  <2>1. stored' \in Seq(Stored)
    <3>1. [sum |-> sum[k], stat |-> stat[k]] \in Stored
      BY DEF TypeOK, Stored
    <3> QED BY <3>1 DEF MainStore, TypeOK
  <2>2. origsize' \in Nat /\ mainPc' = "wait" /\ k' = k /\ job' = job
    BY DEF MainStore, TypeOK
  <2> QED BY <2>1, <2>2 DEF MainStore, TypeOK, shared, bgVars
<1>2. Handshake'
    BY DEF MainStore, shared, bgVars, TypeOK, Handshake, Offered, MainBefore, MainOn, MainAfter,
       Reading, Over, Active
<1>3. SlotParity'
    BY DEF MainStore, shared, bgVars, TypeOK, SlotParity, Taken, Active
<1>4. BgData'
    BY DEF MainStore, shared, bgVars, TypeOK, BgData, Blk, Reading, Over
<1>5. MainData'
    BY DEF MainStore, shared, bgVars, TypeOK, MainData, Blk, Job
<1>6. Kept'
    BY DEF MainStore, shared, bgVars, TypeOK, Kept, MainData
<1>7. InFile'
    BY DEF MainStore, shared, bgVars, TypeOK, InFile, Over
<1> QED BY <1>1, <1>2, <1>3, <1>4, <1>5, <1>6, <1>7

LEMMA MainFinishInv == Inv /\ MainFinish => Inv'
<1> SUFFICES ASSUME Inv, MainFinish PROVE Inv'
    OBVIOUS
<1> USE NextSlotFlips DEF Inv
<1>1. TypeOK'
    BY DEF MainFinish, BgIsDone, MainGoto, bgVars, TypeOK
<1>2. Handshake'
    BY DEF MainFinish, BgIsDone, MainGoto, bgVars, TypeOK, Handshake, Offered, MainBefore, MainOn,
       MainAfter, Reading, Over, Active
<1>3. SlotParity'
    BY DEF MainFinish, BgIsDone, MainGoto, bgVars, TypeOK, SlotParity, Taken, Active
<1>4. BgData'
    BY DEF MainFinish, BgIsDone, MainGoto, bgVars, TypeOK, BgData, Blk, Reading, Over
<1>5. MainData'
    BY DEF MainFinish, BgIsDone, MainGoto, bgVars, TypeOK, MainData, Blk, BgData, Over
<1>6. Kept'
    BY DEF MainFinish, BgIsDone, MainGoto, bgVars, TypeOK, Kept
<1>7. InFile'
    BY DEF MainFinish, BgIsDone, MainGoto, bgVars, TypeOK, InFile, Over
<1> QED BY <1>1, <1>2, <1>3, <1>4, <1>5, <1>6, <1>7

LEMMA MainCleanupInv == Inv /\ MainCleanup => Inv'
<1> SUFFICES ASSUME Inv, MainCleanup PROVE Inv'
    OBVIOUS
<1> USE NextSlotFlips DEF Inv
<1>1. TypeOK'
    BY DEF MainCleanup, MainGoto, shared, bgVars, TypeOK
<1>2. Handshake'
    BY DEF MainCleanup, MainGoto, shared, bgVars, TypeOK, Handshake, Offered, MainBefore, MainOn,
       MainAfter, Reading, Over, Active
<1>3. SlotParity'
    BY DEF MainCleanup, MainGoto, shared, bgVars, TypeOK, SlotParity, Taken, Active
<1>4. BgData'
    BY DEF MainCleanup, MainGoto, shared, bgVars, TypeOK, BgData, Blk, Reading, Over
<1>5. MainData'
    BY DEF MainCleanup, MainGoto, shared, bgVars, TypeOK, MainData, Blk
<1>6. Kept'
    BY DEF MainCleanup, MainGoto, shared, bgVars, TypeOK, Kept
<1>7. InFile'
    BY DEF MainCleanup, MainGoto, shared, bgVars, TypeOK, InFile, Over
<1> QED BY <1>1, <1>2, <1>3, <1>4, <1>5, <1>6, <1>7

LEMMA StutterInv == Inv /\ UNCHANGED vars => Inv'
<1> SUFFICES ASSUME Inv, UNCHANGED vars PROVE Inv'
    OBVIOUS
<1> USE DEF Inv, vars, shared, bgVars, mainVars
<1>1. TypeOK'
    BY DEF TypeOK
<1>2. Handshake'
    BY DEF Handshake, Offered, MainBefore, MainOn, MainAfter, Reading, Over, Active
<1>3. SlotParity'
    BY DEF SlotParity, Taken, Active
<1>4. BgData'
    BY DEF BgData, Blk, Reading, Over
<1>5. MainData'
    BY DEF MainData, Blk
<1>6. Kept'
    BY DEF Kept
<1>7. InFile'
    BY DEF InFile, Over
<1> QED BY <1>1, <1>2, <1>3, <1>4, <1>5, <1>6, <1>7

LEMMA StepInv == Inv /\ [Next]_vars => Inv'
<1> SUFFICES ASSUME Inv, [Next]_vars PROVE Inv'
    OBVIOUS
<1>1. CASE BgStep
    BY <1>1, BgReadInv, BgPrepareInv, BgWaitWriteInv, BgSignalInv, BgSaveInv, BgSaveFailsInv,
       BgFinishInv DEF BgStep
<1>2. CASE MainStep
    BY <1>2, MainReadInv, MainCheckInv, MainTempInv, MainCompressInv, MainWriteInv,
       MainRecheckInv, MainStoreInv, MainFinishInv, MainCleanupInv DEF MainStep
<1>3. CASE UNCHANGED vars
    BY <1>3, StutterInv
<1> QED
    BY <1>1, <1>2, <1>3 DEF Next, Terminated

\* Inv is inductive: it holds in every reachable state, for every set of jobs.
THEOREM Invariance == Spec => []Inv
<1>1. Init => Inv
    BY InitInv
<1>2. Inv /\ [Next]_vars => Inv'
    BY StepInv
<1> QED BY <1>1, <1>2, PTL DEF Spec

\* Type correctness of the two threads' state.
THEOREM TypeCorrect == Spec => []TypeOK
<1>1. Inv => TypeOK
    BY DEF Inv
<1> QED BY <1>1, Invariance, PTL

\* The two handshakes keep the threads in different slots while the main thread
\* compresses, for files of any length and whatever fails.
THEOREM SlotsNotShared == Spec => []SlotExclusive
<1>1. Inv => SlotExclusive
  <2> SUFFICES ASSUME Inv, MainOwnsSlot
               PROVE  /\ bgPc \in {"read", "prepare"} => i # k
                      /\ bgPc = "save" => NextSlot(i) # k
      BY DEF SlotExclusive
  <2>1. /\ b \in Nat \ {0} /\ origsize \in Nat /\ i \in Slots /\ NextSlot(i) # i
        /\ Active /\ Taken = origsize + 1
      BY NextSlotFlips DEF Inv, TypeOK, MainOwnsSlot, Active, Taken
  <2>2. bgPc \in {"read", "prepare"} => ~ errcode /\ Taken + 1 = b
      BY <2>1 DEF Inv, TypeOK, MainOwnsSlot, BgData, Handshake, Offered, MainBefore, MainOn,
         MainAfter, Reading, Over
  <2>3. bgPc = "save" => ~ errcode /\ Taken = b
      BY <2>1 DEF Inv, TypeOK, MainOwnsSlot, BgData, Handshake, Offered, MainBefore, MainOn,
         MainAfter, Over
  <2> QED BY <2>1, <2>2, <2>3 DEF Inv, SlotParity
<1> QED BY <1>1, Invariance, PTL

\* An oversized input is noticed by the read after the last block. From then on the main
\* thread finds ReadDone set when it comes to wait, or has come by a check of errcode.
ExitSeen ==
    /\ job.oversize /\ b > job.size => bgPc = "read" \/ errcode
    /\ OversizeExit /\ mainPc \in {"store", "wait"} => readDone

LEMMA ExitSeenKept ==
    ASSUME Inv, ExitSeen, [Next]_vars
    PROVE  ExitSeen'
<1>1. job' = job
  BY DEF Next, BgStep, BgRead, BgPrepare, BgWaitWrite, BgSignal, BgSave, BgSaveFails, BgFinish,
         MainStep, MainRead, MainCheck, MainTemp, MainCompress, MainWrite, MainRecheck, MainStore,
         MainFinish, MainCleanup, Terminated, vars
<1>2. b \in Nat \ {0} /\ job.size \in Nat /\ errcode \in BOOLEAN
  BY DEF Inv, TypeOK, Job
<1>3. CASE BgRead
  <2>1. /\ b' = b /\ mainPc' = mainPc
        /\ IF b > job.size /\ job.oversize THEN errcode' /\ readDone' ELSE errcode' = errcode
    BY <1>3 DEF BgRead, NoteFailure, WakeMain, BgGoto, mainVars
  <2>2. ~ errcode
    BY <1>3 DEF BgRead, Inv, BgData, Over
  <2> QED
    BY <1>1, <1>2, <2>1, <2>2 DEF ExitSeen, OversizeExit
<1>4. CASE BgPrepare \/ BgWaitWrite \/ BgSignal \/ BgSave
  <2>1. ~ errcode /\ ~ errcode'
    BY <1>4 DEF BgPrepare, BgWaitWrite, BgSignal, BgSave, Inv, BgData, Over, shared
  <2>2. job.oversize => ~ (b > job.size)
    BY <1>2, <1>4, <2>1 DEF BgPrepare, BgWaitWrite, BgSignal, BgSave, ExitSeen
  <2>3. b' = b \/ bgPc' = "read"
    <3>1. CASE BgAdvance /\ bgPc \in {"signal", "save"}
      BY <3>1, Advance
    <3> QED
      BY <1>4, <3>1 DEF BgPrepare, BgWaitWrite, BgSignal, BgSave, BgGoto
  <2> QED
    BY <1>1, <2>1, <2>2, <2>3 DEF ExitSeen, OversizeExit
<1>5. CASE BgSaveFails
  <2>1. bgPc = "save" /\ b' = b /\ ~ errcode
    BY <1>5 DEF BgSaveFails, BgGoto, Inv, BgData, Over
  <2>2. job.oversize => ~ (b > job.size)
    BY <2>1 DEF ExitSeen
  <2> QED
    BY <1>1, <2>1, <2>2 DEF ExitSeen, OversizeExit
<1>6. CASE BgFinish
  <2>1. bgPc = "finish" /\ bgPc' = "gone" /\ UNCHANGED <<b, errcode, readDone, mainPc>>
    BY <1>6 DEF BgFinish, BgGoto, mainVars
  <2> QED
    BY <1>1, <2>1 DEF ExitSeen, OversizeExit
<1>7. CASE MainStep
  <2>1. UNCHANGED <<bgPc, b, errcode>>
    BY <1>7 DEF MainStep, MainRead, MainCheck, MainTemp, MainCompress, MainWrite, MainRecheck,
         MainStore, MainFinish, MainCleanup, shared, bgVars
  <2>2. /\ mainPc' \in {"store", "wait"} => ~ errcode \/ mainPc = "store"
        /\ mainPc = "store" => readDone' = readDone
    BY <1>7 DEF MainStep, MainRead, MainCheck, MainTemp, MainCompress, MainWrite, MainRecheck,
         MainStore, MainFinish, MainCleanup, MainGoto, shared
  <2> QED
    BY <1>1, <2>1, <2>2 DEF ExitSeen, OversizeExit
<1>8. CASE Terminated \/ UNCHANGED vars
  BY <1>8 DEF Terminated, vars, shared, bgVars, mainVars, ExitSeen, OversizeExit
<1> QED
  BY <1>3, <1>4, <1>5, <1>6, <1>7, <1>8 DEF Next, BgStep

\* No block is handed over, in either direction, by an event that is still set; and after
\* the oversize exit the main thread never waits in vain, though its signal may be lost.
THEOREM HandOversArrive == Spec => []NoHandOverLost
<1>1. Inv /\ ExitSeen => NoHandOverLost
  <2> SUFFICES ASSUME Inv, ExitSeen PROVE NoHandOverLost
      OBVIOUS
  <2>1. mainPc = "write" => ~ writeReady
      BY DEF Inv, MainData
  <2>2. bgPc = "signal" => ~ errcode
      BY DEF Inv, BgData, Over
  <2>3. bgPc = "signal" => mainPc \notin {"cleanup", "failed", "ok"}
      BY <2>2 DEF Inv, MainData
  <2>4. bgPc = "signal" => ~ readDone
      BY <2>2, <2>3 DEF Inv, Handshake, Active
  <2> QED BY <2>1, <2>4 DEF NoHandOverLost, ExitSeen
<1>2. Init => ExitSeen
  BY DEF Init, ExitSeen, OversizeExit
<1>3. Inv /\ ExitSeen /\ [Next]_vars => ExitSeen'
  BY ExitSeenKept
<1> QED BY <1>1, <1>2, <1>3, Invariance, PTL DEF Spec

\* The output file holds a prefix of the blocks, each with its own checksum and
\* matches, and all of them when the pass succeeds.
THEOREM SavedCorrectly == Spec => []SavedInOrder
<1>1. Inv => SavedInOrder
  BY DEF Inv, SavedInOrder, InFile, MainData, Over
<1> QED BY <1>1, Invariance, PTL

\* The second pass gets the matches of every block, in order.
THEOREM MatchesRemembered == Spec => []MatchesKept
<1>1. Inv => MatchesKept
  BY DEF Inv, MatchesKept, Kept, MainData
<1> QED BY <1>1, Invariance, PTL

\* The first pass implements the abstract writer of BlockOutput: the file grows
\* by whole blocks, and success means that all of them are in it.
THEOREM Refinement == Spec => SavesTheBlocks
<1> DEFINE blocks == [n \in 1 .. job.size |-> SavedAs(n)]
<1>1. Init => Output!Init
  <2> SUFFICES ASSUME Init PROVE Output!Init
      OBVIOUS
  <2>1. job.size \in Nat
      BY BgCompressAssumption DEF Init, Job
  <2>2. \A n \in 1 .. job.size : SavedAs(n) \in Saved
      BY <2>1 DEF SavedAs, Saved
  <2>3. blocks \in Seq(Saved)
      BY <2>1, <2>2
  <2> QED BY <2>3 DEF Init, Output!Init
<1>2. Inv /\ [Next]_vars => [Output!Next]_(Output!outputVars)
  <2> SUFFICES ASSUME Inv, [Next]_vars PROVE [Output!Next]_(Output!outputVars)
      OBVIOUS
  <2>1. job' = job
      BY DEF Next, BgStep, BgRead, BgPrepare, BgWaitWrite, BgSignal, BgSave, BgSaveFails, BgFinish,
         MainStep, MainRead, MainCheck, MainTemp, MainCompress, MainWrite, MainRecheck, MainStore,
         MainFinish, MainCleanup, Terminated, vars
  <2>2. CASE BgSave
    <3>1. /\ mainPc' = mainPc /\ mainPc \notin {"ok", "failed"}
        BY <2>2 DEF BgSave, mainVars, Exited
    <3>2. /\ b \in Nat /\ b > 1 /\ b <= job.size + 1 /\ job.size \in Nat
          /\ fout \in Seq(Saved) /\ Len(fout) = b - 2
        BY <2>2 DEF BgSave, Inv, TypeOK, Job, BgData, InFile, Over
    <3>3. InFile' /\ TypeOK'
        BY <2>2, BgSaveInv DEF Inv
    <3>4. Len(fout') = b - 1 /\ fout' \in Seq(Saved)
        BY <2>2, <3>2, <3>3 DEF BgSave, TypeOK
    <3>5. \A n \in DOMAIN fout' : fout'[n] = SavedAs(n)
        BY <3>3 DEF InFile
    <3>6. Output!BlockEndAfter(Len(fout)) = b - 1
        BY <3>2 DEF Output!BlockEndAfter
    <3>7. fout' = SubSeq(blocks, 1, b - 1)
        BY <3>2, <3>4, <3>5
    <3>8. Len(fout) < Len(blocks)
        BY <3>2
    <3> QED BY <2>1, <3>1, <3>6, <3>7, <3>8 DEF Output!Next, Output!WriteBlock
  <2>3. CASE MainFinish
    <3>1. CASE errcode
        BY <2>1, <2>3, <3>1 DEF MainFinish, MainGoto, bgVars, Output!outputVars
    <3>2. CASE ~ errcode /\ job.mode = "future"
        BY <2>1, <2>3, <3>2 DEF MainFinish, MainGoto, bgVars, Output!outputVars
    <3>3. CASE ~ errcode /\ job.mode # "future"
      <4>1. fout \in Seq(Saved) /\ Len(fout) = job.size /\ job.size \in Nat
          BY <2>3, <3>3 DEF MainFinish, BgIsDone, Inv, TypeOK, Job, BgData, InFile, Over
      <4>2. fout = blocks
          BY <4>1 DEF Inv, InFile
      <4> QED BY <2>1, <2>3, <3>3, <4>2 DEF MainFinish, MainGoto, bgVars,
              Output!Next, Output!Succeed
    <3> QED BY <3>1, <3>2, <3>3 DEF Inv, TypeOK
  <2>4. CASE MainCleanup
      BY <2>1, <2>4 DEF MainCleanup, MainGoto, bgVars, shared, Output!Next, Output!Fail
  <2>5. ASSUME ~ BgSave, ~ MainFinish, ~ MainCleanup
        PROVE  \/ UNCHANGED <<fout, mainPc>>
               \/ fout' = fout /\ {mainPc, mainPc'} \cap {"ok", "failed"} = {}
      BY <2>5 DEF Next, BgStep, BgRead, BgPrepare, BgWaitWrite, BgSignal, BgSaveFails, BgFinish,
         BgGoto, BgAdvance, MainStep, MainRead, MainCheck, MainTemp, MainCompress, MainWrite,
         MainRecheck, MainStore, MainGoto, Terminated, vars, bgVars, mainVars, shared
  <2>6. ASSUME ~ BgSave, ~ MainFinish, ~ MainCleanup
        PROVE  UNCHANGED Output!outputVars
      BY <2>1, <2>5, <2>6 DEF Output!outputVars
  <2> QED BY <2>2, <2>3, <2>4, <2>6
<1> QED BY <1>1, <1>2, Invariance, PTL DEF Spec, SavesTheBlocks, Output!Spec
==============================================================================
