---------------------------- MODULE ParallelRead ----------------------------
(***************************************************************************)
(* parallelReadAt over a BlobReader or an HTTPRangeReader: a read of n     *)
(* bytes at offset off of an object of size bytes, as one range request or *)
(* as one per chunk with at most conc of them at a time.  Both readers cut *)
(* a read that passes the object's end, but only when they know its size,  *)
(* which a BlobReader learns from its first response.                      *)
(***************************************************************************)
EXTENDS Naturals, FiniteSets

CONSTANT Calls       \* the reads asked for, with the settings in force

ASSUME CallsAssumption ==
    Calls \subseteq [n : Nat, off : Nat, size : Nat, chunk : Nat \ {0},
                     conc : Nat \ {0}, lazy : BOOLEAN]

VARIABLES
    call,            \* the read under way
    next,            \* where the loop over the chunks is
    status,          \* of each chunk, by its start in buf
    buf,             \* of each byte of buf: whether it came from the object
    sizeKnown,       \* the reader knows the object's size
    firstErr,        \* a chunk met an error other than io.EOF
    result           \* what parallelReadAt returned: its count and error

vars == <<call, next, status, buf, sizeKnown, firstErr, result>>

Bytes == 0..(call.n - 1)

Pending == [n |-> 0, err |-> "pending"]

\* One plain ReadAt when parallelism is off or the read fits a chunk.
Direct == call.conc = 1 \/ call.n <= call.chunk

\* The end, in buf, of the chunk that starts at s.
End(s) == IF Direct \/ s + call.chunk > call.n THEN call.n ELSE s + call.chunk

\* By what the reader knew of the size when it built the request.
Requested == {"clamped", "unclamped"}

\* MUTANT of Running: no goroutine gives its slot back.
RunningSlotsKept == {s \in Bytes : status[s] # "none"}

\* Chunks whose goroutine holds a slot of the semaphore.
Running == {s \in Bytes : status[s] \in Requested}

Init ==
    /\ call \in Calls
    /\ next = 0
    /\ status = [s \in Bytes |-> "none"]
    /\ buf = [b \in Bytes |-> FALSE]
    /\ sizeKnown = ~call.lazy
    /\ firstErr = FALSE
    /\ result = Pending

-----------------------------------------------------------------------------
(* readAt of buf[s:e]: the count and the error it returns *)

\* How many of the bytes from s to e the object has.
Present(s, e) ==
    IF call.off + s >= call.size THEN 0
    ELSE IF call.off + e > call.size THEN call.size - (call.off + s) ELSE e - s

Outcome(n, err) == [n |-> n, err |-> err]

\* The size was known: cut at the end without an error, io.EOF past it.  It was
\* not: io.ReadFull comes up short, which is io.EOF, and a range that starts
\* past the end may be refused.  And any request may break off half way.
Outcomes(s, e, clamped) ==
    IF s = e THEN {Outcome(0, "nil")}
    ELSE {Outcome(k, "error") : k \in 0..Present(s, e)}
         \cup {Outcome(Present(s, e),
                       IF Present(s, e) = 0 \/ (Present(s, e) < e - s /\ ~clamped)
                       THEN "eof" ELSE "nil")}

\* A response with bytes has told the reader the size; another may have.
Learn(o) == sizeKnown' \in (IF o.n > 0 THEN {TRUE} ELSE {sizeKnown, TRUE})

Fill(s, n) == buf' = [b \in Bytes |-> buf[b] \/ b \in s..(s + n - 1)]

-----------------------------------------------------------------------------

\* One request: its outcome is the caller's.
ReadDirect ==
    /\ Direct /\ result = Pending
    /\ \E o \in Outcomes(0, call.n, sizeKnown) :
          /\ Fill(0, o.n)
          /\ result' = o
          /\ Learn(o)
    /\ UNCHANGED <<call, next, status, firstErr>>

\* The loop gets a slot and starts the next chunk's goroutine, which looks at
\* the size and asks for its range.
StartChunk ==
    /\ ~Direct /\ next < call.n
    /\ Cardinality(Running) < call.conc
    /\ status' = [status EXCEPT ![next] = IF sizeKnown THEN "clamped" ELSE "unclamped"]
    /\ next' = next + call.chunk
    /\ UNCHANGED <<call, buf, sizeKnown, firstErr, result>>

\* MUTANT of ChunkDone: the last chunk to end decides on the error.
ChunkDoneOverwrites(s) ==
    /\ s \in Running
    /\ \E o \in Outcomes(s, End(s), status[s] = "clamped") :
          /\ Fill(s, o.n)
          /\ firstErr' = (o.err = "error")
          /\ Learn(o)
    /\ status' = [status EXCEPT ![s] = "done"]
    /\ UNCHANGED <<call, next, result>>

\* The chunk's ReadAt returned; io.EOF is taken for success.
ChunkDone(s) ==
    /\ s \in Running
    /\ \E o \in Outcomes(s, End(s), status[s] = "clamped") :
          /\ Fill(s, o.n)
          /\ firstErr' = (firstErr \/ o.err = "error")
          /\ Learn(o)
    /\ status' = [status EXCEPT ![s] = "done"]
    /\ UNCHANGED <<call, next, result>>

\* MUTANT of Return: the first error is returned at once.
ReturnEarly ==
    /\ ~Direct /\ result = Pending
    /\ firstErr \/ (next >= call.n /\ Running = {})
    /\ result' = IF firstErr THEN Outcome(0, "error") ELSE Outcome(call.n, "nil")
    /\ UNCHANGED <<call, next, status, buf, sizeKnown, firstErr>>

\* wg.Wait is through: the whole buffer, or no byte and the error.
Return ==
    /\ ~Direct /\ result = Pending
    /\ next >= call.n /\ Running = {}
    /\ result' = IF firstErr THEN Outcome(0, "error") ELSE Outcome(call.n, "nil")
    /\ UNCHANGED <<call, next, status, buf, sizeKnown, firstErr>>

Step == ReadDirect \/ StartChunk \/ Return \/ \E s \in Bytes : ChunkDone(s)
Next == Step

Safety == Init /\ [][Next]_vars

\* The loop runs on and every range request is answered or refused.
Spec == Safety /\ WF_vars(Step)

-----------------------------------------------------------------------------
(* Properties *)

TypeOK ==
    /\ call \in Calls
    /\ next \in Nat
    /\ status \in [Bytes -> Requested \cup {"none", "done"}]
    /\ buf \in [Bytes -> BOOLEAN]
    /\ sizeKnown \in BOOLEAN
    /\ firstErr \in BOOLEAN
    /\ result \in [n : 0..call.n, err : {"pending", "nil", "eof", "error"}]

\* A read that lies inside the object and returns no error has filled all of
\* buf, whatever the chunks, their order and what the reader knew of the size:
\* no gap between chunks, no chunk left out, no error swallowed.
FilledInsideObject ==
    result.err = "nil" /\ call.off + call.n <= call.size =>
        result.n = call.n /\ \A b \in Bytes : buf[b]

\* Whoever gets buf back, with or without an error, has it alone: no goroutine of
\* the read is under way any more, or still to be started, to write into it.
NoLateWrite == result # Pending => Running = {} /\ (Direct \/ next >= call.n)

\* The steps ahead of a read, at most: two for each byte that no chunk has been
\* started for, one for each goroutine, and the return.
Left == (IF result = Pending THEN 1 ELSE 0)
        + 2 * (IF next < call.n THEN call.n - next ELSE 0) + Cardinality(Running)

\* The loop goes forward and each goroutine ends once: a read of n bytes returns
\* within 2n + 1 steps, whatever the chunks, the slots and the errors.
EveryStepCounts == [][Left' < Left]_vars

\* Every byte the loop has passed belongs to a chunk it has started.
Covered ==
    ~Direct => \A b \in Bytes : b < next =>
        \E s \in Bytes : status[s] # "none" /\ s <= b /\ b < End(s)

\* A chunk that is done has filled its part of what the object has of the
\* buffer, if no chunk has failed.
DoneIsFilled ==
    ~firstErr =>
        \A s \in Bytes : status[s] = "done" =>
            \A b \in s..(End(s) - 1) : call.off + b < call.size => buf[b]

\* What is returned without an error but io.EOF: one request's count stops at the
\* object's end, chunks are counted whole; the object's bytes are there.
ResultFilled ==
    result.err \in {"nil", "eof"} =>
        /\ result.n = IF Direct THEN Present(0, call.n) ELSE call.n
        /\ \A b \in Bytes : call.off + b < call.size => buf[b]

\* The inductive invariant behind FilledInsideObject.
IInv == TypeOK /\ Covered /\ DoneIsFilled /\ ResultFilled

\* At most tileFetchConcurrency range requests are under way.
AtMostConc == Cardinality(Running) <= call.conc

\* Every read returns: the loop never waits for a slot nobody gives back.
EveryReadReturns == <>(result # Pending)
=============================================================================
