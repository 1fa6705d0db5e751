---------------------------- MODULE BlockOutput ----------------------------
(***************************************************************************)
(* What decompression promises, whatever the archive layout: the output    *)
(* file grows by whole blocks, in order, each byte equal to the original   *)
(* one; decompression ends either with an error, or with a success that    *)
(* means the complete original has been written.                           *)
(*                                                                         *)
(* The detailed decoder (FutureLz) is shown to implement this module.      *)
(***************************************************************************)
EXTENDS Naturals, Sequences

CONSTANTS
    Byte,       \* the values a byte can have
    BufSize     \* bytes per block (the -b option); the last block is shorter

VARIABLES
    original,   \* the file that was compressed
    written,    \* the bytes of the output file
    verdict     \* "running", "success" or "failure"

outputVars == <<original, written, verdict>>

\* The end of the block that starts after n written bytes.
BlockEndAfter(n) ==
    IF n + BufSize < Len(original) THEN n + BufSize ELSE Len(original)

Init ==
    /\ original \in Seq(Byte)
    /\ written = <<>>
    /\ verdict = "running"

WriteBlock ==
    /\ verdict = "running"
    /\ Len(written) < Len(original)
    /\ written' = SubSeq(original, 1, BlockEndAfter(Len(written)))
    /\ UNCHANGED <<original, verdict>>

Succeed ==
    /\ verdict = "running"
    /\ written = original
    /\ verdict' = "success"
    /\ UNCHANGED <<original, written>>

Fail ==
    /\ verdict = "running"
    /\ verdict' = "failure"
    /\ UNCHANGED <<original, written>>

Next == WriteBlock \/ Succeed \/ Fail

Spec == Init /\ [][Next]_outputVars
=============================================================================
