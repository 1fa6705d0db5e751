---------------------------- MODULE MCChunkStore ----------------------------
(* Strings whose bytes tell which string they are of, and where in it. *)
EXTENDS ChunkStore, TLC

CONSTANTS Tags, Lengths

MCStrings == {[n \in 1 .. len |-> <<t, n>>] : t \in Tags, len \in Lengths}

Symmetry == Permutations(Tags)
=============================================================================
