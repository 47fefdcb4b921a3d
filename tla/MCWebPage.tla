----------------------------- MODULE MCWebPage -----------------------------
(***************************************************************************)
(* The instance of WebPage for TLC: two places, one of them clicked on a   *)
(* copy of the world to the west.                                          *)
(***************************************************************************)
EXTENDS WebPage

SomeLongitudes == {7, -190}
=============================================================================
