--------------------------- MODULE ReaderService ----------------------------
(***************************************************************************)
(* What the reader of an object promises the goroutines that share it,     *)
(* whatever requests, locks and lookups of the size are behind it: every   *)
(* call takes effect at one moment between its start and its return.  A    *)
(* Read goes on where the offset is at that moment and moves it by what it *)
(* returns, a Seek sets it, a ReadAt leaves it alone.  A byte of the       *)
(* object is its own position, so from says which bytes a call returned.   *)
(***************************************************************************)
EXTENDS Integers

CONSTANTS
    Procs,           \* goroutines that use the reader
    Calls,           \* the calls they make: [kind, off, len, whence]
    ObjectSize,      \* the object's size
    None             \* no call, no answer, no bytes

VARIABLES
    asked,           \* the call of each goroutine
    answer,          \* what it returned: a count or new offset, where its bytes
                     \* are from, and an error
    offset           \* of the next Read

vars == <<asked, answer, offset>>

Init ==
    /\ asked = [p \in Procs |-> None]
    /\ answer = [p \in Procs |-> None]
    /\ offset = 0

\* How many of len bytes from at on the object has.
Rest(at, len) ==
    IF at >= ObjectSize THEN 0 ELSE IF at + len > ObjectSize THEN ObjectSize - at ELSE len

Reply(n, from, err) == [n |-> n, from |-> from, err |-> err]
Bytes(n, at, err) == Reply(n, IF n = 0 THEN None ELSE at, err)

\* All there is of what was asked for, and io.EOF only if that is short of it or
\* nothing is there; or an error after some of it.
Transfers(at, len) ==
    {Bytes(n, at, "nil") : n \in {k \in {Rest(at, len)} : k > 0 \/ len = 0}}
    \cup {Bytes(n, at, "eof") : n \in {k \in {Rest(at, len)} : k < len \/ at >= ObjectSize}}
    \cup {Bytes(n, at, "error") : n \in 0..Rest(at, len)}

\* The size of the object cannot be had.
Refusal == Reply(0, None, "attributes")

Target(c) ==
    c.off + CASE c.whence = "start" -> 0
              [] c.whence = "current" -> offset
              [] c.whence = "end" -> ObjectSize

-----------------------------------------------------------------------------

Ask(p) ==
    /\ asked[p] = None
    /\ asked'[p] \in Calls
    /\ asked' = [asked EXCEPT ![p] = asked'[p]]
    /\ UNCHANGED <<answer, offset>>

Waits(p, kind) == asked[p] # None /\ answer[p] = None /\ asked[p].kind = kind

Give(p, a) == answer' = [answer EXCEPT ![p] = a] /\ UNCHANGED asked

ReadAt(p) ==
    /\ Waits(p, "ReadAt")
    /\ \E a \in Transfers(asked[p].off, asked[p].len) : Give(p, a)
    /\ UNCHANGED offset

Read(p) ==
    /\ Waits(p, "Read")
    /\ \/ \E a \in Transfers(offset, asked[p].len) : Give(p, a) /\ offset' = offset + a.n
       \/ Give(p, Refusal) /\ UNCHANGED offset

Seek(p) ==
    /\ Waits(p, "Seek")
    /\ \/ /\ Target(asked[p]) >= 0
          /\ Give(p, Reply(Target(asked[p]), None, "nil"))
          /\ offset' = Target(asked[p])
       \/ /\ Target(asked[p]) < 0
          /\ Give(p, Reply(0, None, "error"))
          /\ UNCHANGED offset
       \/ /\ asked[p].whence = "end"
          /\ Give(p, Refusal)
          /\ UNCHANGED offset

Take(p) ==
    /\ answer[p] # None
    /\ asked' = [asked EXCEPT ![p] = None]
    /\ answer' = [answer EXCEPT ![p] = None]
    /\ UNCHANGED offset

Next == \E p \in Procs : Ask(p) \/ ReadAt(p) \/ Read(p) \/ Seek(p) \/ Take(p)

Safety == Init /\ [][Next]_vars
=============================================================================
