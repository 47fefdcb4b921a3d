---------------------------- MODULE RecencyList ----------------------------
(***************************************************************************)
(* The container/list operations a list in order of use needs: the front   *)
(* holds what was used last.  Each is written position by position, so     *)
(* that it can be reasoned about as well as evaluated.                     *)
(***************************************************************************)
EXTENDS Naturals, Sequences

PushFront(s, f) == [j \in 1..(Len(s) + 1) |-> IF j = 1 THEN f ELSE s[j - 1]]

\* s with its i-th element moved to the front.
MoveToFront(s, i) ==
    [j \in 1..Len(s) |-> IF j = 1 THEN s[i] ELSE IF j <= i THEN s[j - 1] ELSE s[j]]

Elements(s) == {s[i] : i \in 1..Len(s)}

NoDup(s) == \A i, j \in 1..Len(s) : s[i] = s[j] => i = j

\* s with f first, once.
Touch(s, f) ==
    IF f \in Elements(s)
    THEN MoveToFront(s, CHOOSE i \in 1..Len(s) : s[i] = f)
    ELSE PushFront(s, f)

\* What is left of s when the back is removed until at most n remain.
Trim(s, n) == [j \in 1..(IF Len(s) > n THEN n ELSE Len(s)) |-> s[j]]
=============================================================================
