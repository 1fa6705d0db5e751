------------------------------ MODULE Parsing ------------------------------
(***************************************************************************)
(* What any match search promises: a file is parsed block by block; in     *)
(* each block it states some matches, disjoint copies of earlier bytes of  *)
(* the file.  It says nothing of which matches are found.                  *)
(*                                                                         *)
(* The first compression pass (FirstPass) is shown to implement it; the    *)
(* second pass and the decoder start from matches of this kind.            *)
(***************************************************************************)
EXTENDS Naturals, Sequences

CONSTANT Byte

VARIABLES
    file,       \* the bytes
    bufSize,    \* bytes per block
    parsed,     \* bytes parsed
    matches     \* the matches of the parsed blocks, [src, dest, len]

parsingVars == <<file, bufSize, parsed, matches>>

Init ==
    /\ file \in Seq(Byte)
    /\ bufSize \in Nat \ {0}
    /\ parsed = 0
    /\ matches = {}

Repeats(m) == \A k \in 1 .. m.len : file[m.dest + k] = file[m.src + k]

Disjoint(m1, m2) == m1.dest + m1.len <= m2.dest \/ m2.dest + m2.len <= m1.dest

ParseBlock ==
    /\ parsed < Len(file)
    /\ parsed' = IF parsed + bufSize < Len(file) THEN parsed + bufSize ELSE Len(file)
    /\ matches \subseteq matches'
    /\ \A m \in matches' \ matches :
          /\ m.len > 0
          /\ m.src \in 0 .. m.dest - 1
          /\ parsed <= m.dest /\ m.dest + m.len <= parsed'
          /\ Repeats(m)
    /\ \A m1, m2 \in matches' : m1 # m2 => Disjoint(m1, m2)
    /\ UNCHANGED <<file, bufSize>>

Spec == Init /\ [][ParseBlock]_parsingVars
=============================================================================
