----------------------------- MODULE MCCdcPool -----------------------------
(* Small files for TLC. *)
EXTENDS CdcPool

CONSTANTS
    MaxBlocks,      \* bound on the number of blocks
    MaxStripes      \* bound on the number of stripes of a file

MCFiles == {f \in UNION {[1 .. n -> 1 .. MaxStripes] : n \in 0 .. MaxBlocks} :
               FoldLeft(+, 0, f) <= MaxStripes}
=============================================================================
