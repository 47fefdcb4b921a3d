---------------------------- MODULE RangeReader ----------------------------
(***************************************************************************)
(* BlobReader and HTTPRangeReader, used by several goroutines at once:     *)
(* ReadAt is stateless, Read and Seek share an offset under mu.  An        *)
(* HTTPRangeReader knows the object's size from the start.  A BlobReader   *)
(* learns it from the first response to a read, or from the one call of    *)
(* Attributes it makes, whichever comes first; it remembers an error of    *)
(* that call.  base and stream are history variables, not in the code.     *)
(***************************************************************************)
EXTENDS Integers, Sequences

CONSTANTS
    Procs,           \* goroutines that use the reader
    ObjectSize,      \* the object's true size
    Offsets,         \* offsets of ReadAt (a bound on the instance)
    Lengths,         \* lengths of the buffers (a bound on the instance)
    Seeks,           \* <<whence, offset>> of the Seeks (a bound on the instance)
    None             \* nobody, not known

ASSUME SizeAssumption == ObjectSize \in Nat
ASSUME CallAssumption == Offsets \subseteq Nat /\ Lengths \subseteq Nat
ASSUME SeekAssumption == Seeks \subseteq {"start", "current", "end"} \X Int
ASSUME NoneAssumption == None \notin Procs \cup Int

VARIABLES
    pc,              \* where each goroutine is in its call
    op,              \* the call
    want,            \* the bytes its request asks for
    res,             \* the count, or new offset, and the error it returns
    knew,            \* the size was known when it called
    size,            \* the size, or None
    resolved,        \* what came of the call of Attributes
    mu,              \* who holds the lock
    offset,          \* of the next Read
    base,            \* history: where the last Seek went
    stream           \* history: the bytes that Reads have returned since

locals == <<pc, op, want, res, knew>>
history == <<base, stream>>
vars == <<locals, size, resolved, mu, offset, history>>

Sequential == {"Read", "Seek"}
Whences == {"start", "current", "end"}
Calls == [kind : {"none", "ReadAt", "Read", "Seek"}, off : Int, len : Nat, whence : Whences]
Outcomes == [n : Nat, err : {"nil", "eof", "error", "attributes"}]
Answers == [n : Nat, err : {"nil", "eof", "error", "attributes"}, from : Int \cup {None}]
Stages == {"idle", "lock", "size", "attributes", "request", "header", "body", "move", "done"}

ASSUME SeenAssumption == None \notin Calls \cup Answers

Call(kind, off, len, whence) == [kind |-> kind, off |-> off, len |-> len, whence |-> whence]
Result(n, err) == [n |-> n, err |-> err]
NoCall == Call("none", 0, 0, "start")
NoResult == Result(0, "nil")

Init ==
    /\ pc = [p \in Procs |-> "idle"]
    /\ op = [p \in Procs |-> NoCall]
    /\ want = [p \in Procs |-> 0]
    /\ res = [p \in Procs |-> NoResult]
    /\ knew = [p \in Procs |-> FALSE]
    /\ size \in {None, ObjectSize}
    /\ resolved = "never"
    /\ mu = None
    /\ offset = 0
    /\ base = 0
    /\ stream = << >>

GoTo(p, stage) == pc' = [pc EXCEPT ![p] = stage]
Unlock(p) == mu' = IF mu = p THEN None ELSE mu

Start(p, call, stage) ==
    /\ pc[p] = "idle"
    /\ op' = [op EXCEPT ![p] = call]
    /\ knew' = [knew EXCEPT ![p] = size # None]
    /\ GoTo(p, stage)
    /\ UNCHANGED <<want, res, size, resolved, mu, offset, history>>

ReadAt(p, off, len) == Start(p, Call("ReadAt", off, len, "start"), "request")
Read(p, len) == Start(p, Call("Read", 0, len, "start"), "lock")
Seek(p, whence, off) == Start(p, Call("Seek", off, 0, whence), "lock")

\* MUTANT of Lock: sequential calls do not exclude each other.
LockNot(p) ==
    /\ pc[p] = "lock"
    /\ GoTo(p, IF op[p].kind = "Seek" /\ op[p].whence # "end" THEN "move" ELSE "size")
    /\ UNCHANGED <<op, want, res, knew, size, resolved, mu, offset, history>>

Lock(p) ==
    /\ pc[p] = "lock" /\ mu = None
    /\ mu' = p
    /\ GoTo(p, IF op[p].kind = "Seek" /\ op[p].whence # "end" THEN "move" ELSE "size")
    /\ UNCHANGED <<op, want, res, knew, size, resolved, offset, history>>

\* The call returns; of the calls, only those that hold the lock give it back.
Return(p, n, err) ==
    /\ res' = [res EXCEPT ![p] = Result(n, err)]
    /\ Unlock(p)
    /\ GoTo(p, "done")

\* The call is for off.
Place(p, off) == op' = [op EXCEPT ![p].off = off]

-----------------------------------------------------------------------------
(* knownSize, for Read and Seek from the end *)

\* What follows when the size is known to be s.  A Read past the end stops here.
UseSize(p, s) ==
    IF op[p].kind = "Read" /\ offset >= s
    THEN /\ Place(p, offset)
         /\ Return(p, 0, "eof")
    ELSE /\ GoTo(p, IF op[p].kind = "Seek" THEN "move" ELSE "request")
         /\ UNCHANGED <<op, res, mu>>

\* MUTANT of LoadSize: the remembered error comes first.
LoadSizeErrFirst(p) ==
    /\ pc[p] = "size"
    /\ IF resolved = "failed" THEN Return(p, 0, "attributes") /\ UNCHANGED op
       ELSE IF size = None THEN GoTo(p, "attributes") /\ UNCHANGED <<op, res, mu>>
       ELSE UseSize(p, size)
    /\ UNCHANGED <<want, knew, size, resolved, offset, history>>

LoadSize(p) ==
    /\ pc[p] = "size"
    /\ IF size = None THEN GoTo(p, "attributes") /\ UNCHANGED <<op, res, mu>>
       ELSE UseSize(p, size)
    /\ UNCHANGED <<want, knew, size, resolved, offset, history>>

\* Attributes, once; a read may have learned the size meanwhile.
Resolve(p) ==
    /\ pc[p] = "attributes" /\ resolved = "never"
    /\ resolved' = "ok"
    /\ size' = IF size = None THEN ObjectSize ELSE size
    /\ UseSize(p, size')
    /\ UNCHANGED <<want, knew, offset, history>>

ResolveFails(p) ==
    /\ pc[p] = "attributes" /\ resolved # "ok"
    /\ resolved' = "failed"
    /\ Return(p, 0, "attributes")
    /\ UNCHANGED <<op, want, knew, size, offset, history>>

-----------------------------------------------------------------------------
(* readAt *)

At(p) == IF op[p].kind = "Read" THEN offset ELSE op[p].off

\* Cut the request at the size, if that is known, and send it.
CutAndSend(p) ==
    /\ Place(p, At(p))
    /\ IF op[p].len = 0
       THEN Return(p, 0, "nil") /\ UNCHANGED want
       ELSE IF size # None /\ At(p) >= size
       THEN Return(p, 0, "eof") /\ UNCHANGED want
       ELSE /\ want' = [want EXCEPT ![p] =
                           IF size # None /\ At(p) + op[p].len > size
                           THEN size - At(p) ELSE op[p].len]
            /\ GoTo(p, "header")
            /\ UNCHANGED <<res, mu>>
    /\ UNCHANGED <<knew, size, resolved, offset, history>>

\* MUTANT of Request: not while somebody else holds the lock.
RequestUnlocked(p) == pc[p] = "request" /\ mu \in {None, p} /\ CutAndSend(p)

Request(p) == pc[p] = "request" /\ CutAndSend(p)

RequestFails(p) ==
    /\ pc[p] = "header"
    /\ Return(p, 0, "error")
    /\ UNCHANGED <<op, want, knew, size, resolved, offset, history>>

\* MUTANT of Header: the size that a response carries is left alone.
HeaderUnread(p) ==
    /\ pc[p] = "header"
    /\ GoTo(p, "body")
    /\ UNCHANGED <<op, want, res, knew, size, resolved, mu, offset, history>>

\* The response starts; it carries the size.
Header(p) ==
    /\ pc[p] = "header"
    /\ size' = IF size = None THEN ObjectSize ELSE size
    /\ GoTo(p, "body")
    /\ UNCHANGED <<op, want, res, knew, resolved, mu, offset, history>>

\* How many of the bytes asked for the object has.
Present(p) ==
    IF op[p].off >= ObjectSize THEN 0
    ELSE IF op[p].off + want[p] > ObjectSize THEN ObjectSize - op[p].off ELSE want[p]

\* MUTANT of Bodies: what broke off half way passes for the end.
BodiesCut(p) == {Result(k, IF k < want[p] THEN "eof" ELSE "nil") : k \in 0..Present(p)}

\* io.ReadFull: all bytes asked for, fewer and io.EOF, or an error half way.
Bodies(p) ==
    {Result(k, "error") : k \in 0..Present(p)}
    \cup {Result(Present(p), IF Present(p) < want[p] THEN "eof" ELSE "nil")}

\* A Read moves the offset by what it got.
Delivered(p, n) ==
    IF op[p].kind = "Read"
    THEN /\ offset' = offset + n
         /\ stream' = stream \o [i \in 1..n |-> op[p].off + i - 1]
         /\ UNCHANGED base
    ELSE UNCHANGED <<offset, history>>

Body(p) ==
    /\ pc[p] = "body"
    /\ \E r \in Bodies(p) : Return(p, r.n, r.err) /\ Delivered(p, r.n)
    /\ UNCHANGED <<op, want, knew, size, resolved>>

-----------------------------------------------------------------------------

NewOffset(p) ==
    op[p].off + CASE op[p].whence = "start" -> 0
                  [] op[p].whence = "current" -> offset
                  [] op[p].whence = "end" -> size

Move(p) ==
    /\ pc[p] = "move"
    /\ IF NewOffset(p) < 0
       THEN Return(p, 0, "error") /\ UNCHANGED <<offset, history>>
       ELSE /\ Return(p, NewOffset(p), "nil")
            /\ offset' = NewOffset(p)
            /\ base' = NewOffset(p)
            /\ stream' = << >>
    /\ UNCHANGED <<op, want, knew, size, resolved>>

End(p) ==
    /\ pc[p] = "done"
    /\ op' = [op EXCEPT ![p] = NoCall]
    /\ want' = [want EXCEPT ![p] = 0]
    /\ res' = [res EXCEPT ![p] = NoResult]
    /\ knew' = [knew EXCEPT ![p] = FALSE]
    /\ GoTo(p, "idle")
    /\ UNCHANGED <<size, resolved, mu, offset, history>>

Size(p) == LoadSize(p) \/ Resolve(p) \/ ResolveFails(p)
Transfer(p) == Request(p) \/ RequestFails(p) \/ Header(p) \/ Body(p)
Step(p) == Lock(p) \/ Size(p) \/ Transfer(p) \/ Move(p)

Next == \E p \in Procs :
    \/ \E off \in Offsets, len \in Lengths : ReadAt(p, off, len)
    \/ \E len \in Lengths : Read(p, len)
    \/ \E s \in Seeks : Seek(p, s[1], s[2])
    \/ Step(p) \/ End(p)

\* The requests of ReadAt are answered or refused; those of Read and Seek, made
\* with the lock held, perhaps never.
Fairness == \A p \in Procs : WF_vars(op[p].kind = "ReadAt" /\ Step(p))

Safety == Init /\ [][Next]_vars
Spec == Safety /\ Fairness

-----------------------------------------------------------------------------
(* Properties *)

TypeOK ==
    /\ pc \in [Procs -> Stages]
    /\ op \in [Procs -> Calls]
    /\ want \in [Procs -> Nat]
    /\ res \in [Procs -> Outcomes]
    /\ knew \in [Procs -> BOOLEAN]
    /\ size \in {None, ObjectSize}
    /\ resolved \in {"never", "ok", "failed"}
    /\ mu \in Procs \cup {None}
    /\ offset \in Nat /\ base \in Nat
    /\ stream \in Seq(Nat)

\* Between two Seeks the Reads of all goroutines together return the bytes from
\* where the Seek went, in order, each once, whatever fails half way and
\* whatever ReadAts happen meanwhile.
ReadsConsecutive ==
    /\ offset = base + Len(stream)
    /\ \A i \in DOMAIN stream : stream[i] = base + i - 1

\* A read without an error has all the bytes asked for that the object has; one
\* that reports the end has reached it: io.ReadAll of a VRT is not cut short.
\* Whether the size is known, and from where, makes no difference.
ReadsHonest ==
    \A p \in Procs : pc[p] = "done" /\ op[p].kind # "Seek" =>
        /\ res[p].err = "nil" =>
              \/ res[p].n = op[p].len
              \/ op[p].off + res[p].n = ObjectSize /\ res[p].n < op[p].len
        /\ res[p].err = "eof" => op[p].off + res[p].n >= ObjectSize

\* Once a read has told the size, no call fails any more for the error of
\* Attributes that the reader remembers.
ErrorForgiven == \A p \in Procs : res[p].err = "attributes" => ~knew[p]

\* The kind of a call fits its stage; only a Seek has an offset below zero.
CallFits ==
    \A p \in Procs :
        /\ pc[p] \in {"lock", "size", "attributes", "move"} => op[p].kind \in Sequential
        /\ pc[p] \in {"request", "header", "body"} => op[p].kind \in {"ReadAt", "Read"}
        /\ pc[p] = "move" => op[p].kind = "Seek" /\ (op[p].whence = "end" => size # None)
        /\ pc[p] \in {"size", "attributes"} /\ op[p].kind = "Seek" => op[p].whence = "end"
        /\ op[p].kind # "Seek" => op[p].off \in Nat
        /\ pc[p] # "done" => res[p] = NoResult

\* Sequential calls under way hold the lock, and so the offset stays where the
\* request of a Read was made.
LockHeld ==
    \A p \in Procs :
        /\ pc[p] \in {"size", "attributes", "move"} => mu = p
        /\ pc[p] \in {"request", "header", "body"} /\ op[p].kind = "Read" => mu = p
        /\ pc[p] \in {"header", "body"} /\ op[p].kind = "Read" => op[p].off = offset

\* ... and nobody else does: the lock is given back on every path, and who has it
\* waits for the answer to a request, never for another call.
LockReleased ==
    mu # None =>
        \/ pc[mu] \in {"size", "attributes", "move"}
        \/ pc[mu] \in {"request", "header", "body"} /\ op[mu].kind = "Read"

\* What ParallelRead takes a ReadAt for, of a call's range.
Taken(p) == INSTANCE ParallelRead WITH
               Calls <- {}, next <- 0, status <- << >>, buf <- << >>, sizeKnown <- FALSE,
               firstErr <- FALSE, result <- res[p],
               call <- [n |-> op[p].len, off |-> op[p].off, size |-> ObjectSize,
                        chunk |-> 1, conc |-> 1, lazy |-> TRUE]

\* parallelReadAt takes each of its ReadAts for one step with one of Outcomes, cut
\* at the end of the object if the size was known when it asked: this is what
\* a ReadAt returns, whatever other calls make known of the size meanwhile, and
\* one that returns bytes leaves the size known.
ReadAtAsTaken ==
    \A p \in Procs : pc[p] = "done" /\ op[p].kind = "ReadAt" =>
        /\ \E clamped \in BOOLEAN :
              /\ knew[p] => clamped
              /\ res[p] \in Taken(p)!Outcomes(0, op[p].len, clamped)
        /\ res[p].n > 0 => size # None

\* A request that was cut asks for no more than there is.
KnewCut ==
    \A p \in Procs : pc[p] \in {"header", "body"} =>
        /\ want[p] > 0
        /\ knew[p] => op[p].off + want[p] <= ObjectSize
        /\ pc[p] = "body" => size # None

\* A request asks for the whole buffer or for what is there to the end.
WantFits ==
    \A p \in Procs : pc[p] \in {"header", "body"} =>
        \/ want[p] = op[p].len
        \/ want[p] < op[p].len /\ op[p].off + want[p] = ObjectSize

\* A size that is known stays known.
KnewFits ==
    \A p \in Procs :
        /\ knew[p] => size # None
        /\ pc[p] = "attributes" => ~knew[p]

\* The inductive invariant behind the properties above.
IInv ==
    /\ TypeOK /\ CallFits /\ LockHeld /\ WantFits /\ KnewFits
    /\ ReadsConsecutive /\ ReadsHonest /\ ErrorForgiven

\* The calls under way and what the finished ones returned, as callers see them:
\* the offset that a Read is given on its way is none of theirs.
asked == [p \in Procs |-> IF op[p].kind = "none" THEN None
                          ELSE IF op[p].kind = "Read" THEN [op[p] EXCEPT !.off = 0] ELSE op[p]]
answer == [p \in Procs |-> IF pc[p] # "done" THEN None
                           ELSE [n |-> res[p].n, err |-> res[p].err,
                                 from |-> IF op[p].kind = "Seek" \/ res[p].n = 0 THEN None
                                          ELSE op[p].off]]

Service == INSTANCE ReaderService WITH asked <- asked, answer <- answer, Calls <- Calls

\* However the calls of many goroutines overlap, each takes effect at one moment:
\* between its start and its return a Read returns the bytes at the offset of
\* that moment and moves it, a Seek sets it, a ReadAt does not touch it.
ReaderServiceSafety == Service!Safety

\* ReadAt "does NOT use the mutex": it ends even while a Read hangs with the
\* lock held.
ReadAtEnds == \A p \in Procs : op[p].kind = "ReadAt" ~> op[p].kind = "none" \/ pc[p] = "done"
=============================================================================
