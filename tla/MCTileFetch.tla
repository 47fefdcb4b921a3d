---------------------------- MODULE MCTileFetch ----------------------------
(***************************************************************************)
(* The instance of TileFetch for TLC.                                      *)
(***************************************************************************)
EXTENDS TileFetch, TLC

CONSTANTS p1, p2, p3, g1, g2, g3, t1

\* Two GeoTIFF values of one file, as after an eviction and a reopening, and
\* one of another file in the same shared cache.
SharedFiles == g1 :> "a" @@ g2 :> "a" @@ g3 :> "b"

\* The reads of one of the two may hang.
SlowReads == {<<g2, t1>>}
=============================================================================
