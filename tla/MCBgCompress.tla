---------------------------- MODULE MCBgCompress ----------------------------
(* Every compression of at most MaxSize blocks in one of the given modes,  *)
(* with each of the given sets of calls failing or not.                    *)
EXTENDS BgCompress

CONSTANTS MaxSize, Modes, Failures

MCJobs == [mode : Modes, size : 0 .. MaxSize, oversize : BOOLEAN, temp : BOOLEAN,
           fails : Failures]
=============================================================================
