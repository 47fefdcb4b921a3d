----------------------------- MODULE MCVRTRead ------------------------------
(***************************************************************************)
(* The instance of VRTRead for TLC.                                        *)
(***************************************************************************)
EXTENDS VRTRead, TLC

CONSTANTS p1, p2, g1, g2, g3, t1, n1, n2

\* Two names with one path, of two files: one name is relative to the VRT's
\* directory, the other has a handler in front and so is absolute.
SomeSources ==
    n1 :> [handler |-> FALSE, relative |-> TRUE, path |-> <<"a">>] @@
    n2 :> [handler |-> TRUE, relative |-> TRUE, path |-> <<"a">>]
SomeBase == <<"dir", "mosaic">>

\* The first file can be open twice, before and after an eviction.
SomeGeos == g1 :> <<"dir", "a">> @@ g2 :> <<"dir", "a">> @@ g3 :> <<"a">>

\* The other file's reads may hang.
SlowReads == {<<g3, t1>>}
=============================================================================
