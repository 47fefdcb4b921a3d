--------------------------- MODULE MCParallelRead ---------------------------
(***************************************************************************)
(* Instances of ParallelRead for TLC: small objects, and reads that stay   *)
(* inside them, straddle their end or start past it.                       *)
(***************************************************************************)
EXTENDS ParallelRead

CONSTANTS MaxBytes, MaxSize

SmallCalls ==
    [n : 0..MaxBytes, off : 0..2, size : 1..MaxSize, chunk : 1..3, conc : 1..3,
     lazy : BOOLEAN]
=============================================================================
