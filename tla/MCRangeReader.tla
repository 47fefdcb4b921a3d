--------------------------- MODULE MCRangeReader ---------------------------
(***************************************************************************)
(* Instances of RangeReader for TLC.                                       *)
(***************************************************************************)
EXTENDS RangeReader

\* To the start and the end, back from where it is, and before the start.
SomeSeeks == {<<"start", 0>>, <<"current", -1>>, <<"end", 0>>}
=============================================================================
