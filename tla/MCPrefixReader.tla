--------------------------- MODULE MCPrefixReader ---------------------------
(***************************************************************************)
(* The instance of PrefixReader for TLC.                                   *)
(***************************************************************************)
EXTENDS PrefixReader

\* In the first bytes, and behind them.
SomeDirectories == {[start |-> 0, end |-> 1], [start |-> 3, end |-> 4]}

\* Up to three values of up to four bytes, some beyond the end of the object.
SomeRanges == {r \in [start : {1, 2, 4, 5}, end : 2..8] :
                  r.start < r.end /\ r.end - r.start \in {1, 2, 4}}
SomeEntries == UNION {[1..n -> SomeRanges] : n \in 1..3}
=============================================================================
