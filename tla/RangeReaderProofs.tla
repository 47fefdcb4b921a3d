------------------------- MODULE RangeReaderProofs -------------------------
(***************************************************************************)
(* For any goroutines, any object and any calls: the Reads of a reader     *)
(* return consecutive bytes, no read claims bytes it has not or an end it  *)
(* has not reached, an error of Attributes is forgiven, the lock is given  *)
(* back on every path, a ReadAt is what ParallelRead takes it for, and the *)
(* reader as a whole implements ReaderService.                             *)
(***************************************************************************)
EXTENDS RangeReader, TLAPS

\* A call whose offset is filled in stays the call it was.
LEMMA Placed ==
  ASSUME TypeOK, NEW p \in Procs, NEW off \in Int, Place(p, off)
  PROVE /\ op' \in [Procs -> Calls]
        /\ op'[p].off = off /\ op'[p].kind = op[p].kind
        /\ op'[p].len = op[p].len /\ op'[p].whence = op[p].whence
        /\ \A q \in Procs \ {p} : op'[q] = op[q]
  <1>1. op[p] \in Calls
    BY DEF TypeOK
  <1>2. op' = [op EXCEPT ![p] = [op[p] EXCEPT !.off = off]]
    BY DEF Place
  <1>3. op'[p] \in Calls /\ op'[p].off = off /\ op'[p].kind = op[p].kind
        /\ op'[p].len = op[p].len /\ op'[p].whence = op[p].whence
    BY <1>1, <1>2 DEF Calls, TypeOK
  <1>4. \A q \in Procs \ {p} : op'[q] = op[q]
    BY <1>2 DEF TypeOK
  <1>5. op' \in [Procs -> Calls]
    BY <1>2, <1>1, <1>3 DEF TypeOK
  <1> QED
    BY <1>3, <1>4, <1>5

\* The call of a goroutine, part by part.
LEMMA CallTyped ==
  ASSUME TypeOK, NEW p \in Procs
  PROVE /\ op[p].off \in Int /\ op[p].len \in Nat /\ op[p].whence \in Whences
        /\ op[p].kind \in {"none", "ReadAt", "Read", "Seek"}
        /\ res[p].n \in Nat /\ want[p] \in Nat
  <1>1. op[p] \in Calls /\ res[p] \in Outcomes /\ want[p] \in Nat
    BY DEF TypeOK
  <1> QED
    BY <1>1 DEF Calls, Outcomes

-----------------------------------------------------------------------------
(* The steps of one goroutine, one lemma each *)

\* A call may return if its outcome is honest, Reads stay consecutive and, without
\* the lock, the offset stays.
LEMMA ReturnStep ==
  ASSUME IInv, NEW p \in Procs, NEW n \in Nat,
         NEW err \in {"nil", "eof", "error", "attributes"}, Return(p, n, err),
         op' \in [Procs -> Calls], op'[p].kind = op[p].kind, op'[p].len = op[p].len,
         \A q \in Procs \ {p} : op'[q] = op[q],
         op[p].kind # "Seek" =>
            /\ op'[p].off \in Nat
            /\ err = "nil" => \/ n = op[p].len
                              \/ op'[p].off + n = ObjectSize /\ n < op[p].len
            /\ err = "eof" => op'[p].off + n >= ObjectSize,
         err = "attributes" => ~knew[p],
         size' \in {size, ObjectSize}, resolved' \in {"never", "ok", "failed"},
         offset' \in Nat, base' \in Nat, stream' \in Seq(Nat), ReadsConsecutive',
         mu # p => offset' = offset,
         want' = want, knew' = knew
  PROVE IInv'
  <1> USE NoneAssumption, SizeAssumption
  <1> TypeOK /\ CallFits /\ LockHeld /\ WantFits /\ KnewFits /\ ReadsHonest /\ ErrorForgiven
    BY DEF IInv
  <1>a. /\ res' \in [Procs -> Outcomes] /\ pc' \in [Procs -> Stages] /\ mu' \in Procs \cup {None}
        /\ res'[p].n = n /\ res'[p].err = err /\ pc'[p] = "done" /\ (mu # p => mu' = mu)
        /\ \A q \in Procs \ {p} : res'[q] = res[q] /\ pc'[q] = pc[q]
    <2>1. Result(n, err) \in Outcomes /\ Result(n, err).n = n /\ Result(n, err).err = err
      BY DEF Result, Outcomes
    <2>2. res' = [res EXCEPT ![p] = Result(n, err)] /\ pc' = [pc EXCEPT ![p] = "done"]
      BY DEF Return, GoTo
    <2>3. res' \in [Procs -> Outcomes] /\ pc' \in [Procs -> Stages]
      BY ONLY p \in Procs, TypeOK, <2>1, <2>2 DEF TypeOK, Stages
    <2>4. /\ res'[p] = Result(n, err) /\ pc'[p] = "done"
          /\ \A q \in Procs \ {p} : res'[q] = res[q] /\ pc'[q] = pc[q]
      BY ONLY p \in Procs, TypeOK, <2>2 DEF TypeOK
    <2>5. mu' \in Procs \cup {None} /\ (mu # p => mu' = mu)
      BY DEF Return, Unlock, TypeOK
    <2> QED
      BY ONLY <2>1, <2>3, <2>4, <2>5
  <1>1. TypeOK'
    BY <1>a DEF TypeOK
  <1>2. CallFits'
    <2>1. \A q \in Procs \ {p} : /\ pc'[q] = pc[q] /\ op'[q] = op[q] /\ res'[q] = res[q]
                                 /\ size # None => size' # None
      BY <1>a DEF TypeOK
    <2>2. pc'[p] = "done" /\ (op'[p].kind # "Seek" => op'[p].off \in Nat)
      BY <1>a
    <2> QED
      BY ONLY CallFits, <2>1, <2>2 DEF CallFits
  <1>3. LockHeld'
    BY <1>a DEF LockHeld, TypeOK
  <1>4. WantFits'
    BY <1>a DEF WantFits
  <1>5. KnewFits'
    BY <1>a DEF TypeOK, KnewFits
  <1>6. ReadsHonest'
    <2> SUFFICES ASSUME NEW q \in Procs, pc'[q] = "done", op'[q].kind # "Seek"
                 PROVE  /\ res'[q].err = "nil" =>
                              \/ res'[q].n = op'[q].len
                              \/ op'[q].off + res'[q].n = ObjectSize /\ res'[q].n < op'[q].len
                        /\ res'[q].err = "eof" => op'[q].off + res'[q].n >= ObjectSize
      BY DEF ReadsHonest
    <2>1. CASE q = p
      BY <2>1, <1>a
    <2>2. CASE q # p
      BY <2>2, <1>a DEF ReadsHonest
    <2> QED
      BY <2>1, <2>2
  <1>7. ErrorForgiven'
    BY <1>a DEF ErrorForgiven
  <1> QED
    BY <1>1, <1>2, <1>3, <1>4, <1>5, <1>6, <1>7 DEF IInv

\* A call that returns without bytes leaves the offset as it is.
LEMMA StopStep ==
  ASSUME IInv, NEW p \in Procs, NEW err \in {"nil", "eof", "error", "attributes"},
         Return(p, 0, err),
         op' \in [Procs -> Calls], op'[p].kind = op[p].kind, op'[p].len = op[p].len,
         \A q \in Procs \ {p} : op'[q] = op[q],
         op[p].kind # "Seek" =>
            /\ op'[p].off \in Nat
            /\ err = "nil" => op[p].len = 0
            /\ err = "eof" => op'[p].off >= ObjectSize,
         err = "attributes" => ~knew[p],
         size' \in {size, ObjectSize}, resolved' \in {"never", "ok", "failed"},
         UNCHANGED <<want, knew, offset, history>>
  PROVE IInv'
  <1>1. /\ want' = want /\ knew' = knew /\ offset' = offset /\ base' = base /\ stream' = stream
        /\ offset \in Nat /\ base \in Nat /\ stream \in Seq(Nat) /\ ReadsConsecutive
    BY DEF history, IInv, TypeOK
  <1>2. ReadsConsecutive'
    BY <1>1 DEF ReadsConsecutive
  <1>3. op[p].kind # "Seek" =>
            /\ op'[p].off \in Nat
            /\ err = "nil" => 0 = op[p].len
            /\ err = "eof" => op'[p].off + 0 >= ObjectSize
    OBVIOUS
  <1> QED
    BY <1>1, <1>2, <1>3, ReturnStep

\* Read and Seek go on with the lock, which nobody else has.
LEMMA LockStep ==
  ASSUME IInv, NEW p \in Procs, Lock(p)
  PROVE IInv'
  <1> USE NoneAssumption, SizeAssumption DEF IInv
  <1>1. TypeOK'
    BY DEF Stages, TypeOK, Lock, GoTo, history, Sequential, NoResult
  <1>2. CallFits'
    BY DEF TypeOK, CallFits, Lock, GoTo, history, Sequential, NoResult
  <1>3. LockHeld'
    BY DEF TypeOK, LockHeld, Lock, GoTo, history, Sequential, NoResult
  <1>4. WantFits'
    BY DEF TypeOK, WantFits, Lock, GoTo, history, Sequential, NoResult
  <1>5. KnewFits'
    BY DEF TypeOK, KnewFits, Lock, GoTo, history, Sequential, NoResult
  <1>6. ReadsConsecutive'
    BY DEF TypeOK, ReadsConsecutive, Lock, GoTo, history, Sequential, NoResult
  <1>7. ReadsHonest'
    BY DEF TypeOK, ReadsHonest, Lock, GoTo, history, Sequential, NoResult
  <1>8. ErrorForgiven'
    BY DEF TypeOK, ErrorForgiven, Lock, GoTo, history, Sequential, NoResult
  <1> QED
    BY <1>1, <1>2, <1>3, <1>4, <1>5, <1>6, <1>7, <1>8

\* The response's header is there; the size it tells is the object's.
LEMMA HeaderStep ==
  ASSUME IInv, NEW p \in Procs, Header(p)
  PROVE IInv'
  <1> USE NoneAssumption, SizeAssumption DEF IInv
  <1>1. TypeOK'
    BY DEF Stages, TypeOK, Header, GoTo, history, Sequential, NoResult
  <1>2. CallFits'
    BY DEF TypeOK, CallFits, Header, GoTo, history, Sequential, NoResult
  <1>3. LockHeld'
    BY DEF TypeOK, LockHeld, Header, GoTo, history, Sequential, NoResult
  <1>4. WantFits'
    BY DEF TypeOK, WantFits, Header, GoTo, history, Sequential, NoResult
  <1>5. KnewFits'
    BY DEF TypeOK, KnewFits, Header, GoTo, history, Sequential, NoResult
  <1>6. ReadsConsecutive'
    BY DEF TypeOK, ReadsConsecutive, Header, GoTo, history, Sequential, NoResult
  <1>7. ReadsHonest'
    BY DEF TypeOK, ReadsHonest, Header, GoTo, history, Sequential, NoResult
  <1>8. ErrorForgiven'
    BY DEF TypeOK, ErrorForgiven, Header, GoTo, history, Sequential, NoResult
  <1> QED
    BY <1>1, <1>2, <1>3, <1>4, <1>5, <1>6, <1>7, <1>8

\* A call that is over leaves the reader as it is.
LEMMA EndStep ==
  ASSUME IInv, NEW p \in Procs, End(p)
  PROVE IInv'
  <1> USE NoneAssumption, SizeAssumption DEF IInv
  <1> USE DEF NoCall, NoResult, Call, Result, Calls, Outcomes, Whences
  <1>1. TypeOK'
    BY DEF Stages, TypeOK, End, GoTo, history, Sequential
  <1>2. CallFits'
    BY DEF TypeOK, CallFits, End, GoTo, history, Sequential
  <1>3. LockHeld'
    BY DEF TypeOK, LockHeld, End, GoTo, history, Sequential
  <1>4. WantFits'
    BY DEF TypeOK, WantFits, End, GoTo, history, Sequential
  <1>5. KnewFits'
    BY DEF TypeOK, KnewFits, End, GoTo, history, Sequential
  <1>6. ReadsConsecutive'
    BY DEF TypeOK, ReadsConsecutive, End, GoTo, history, Sequential
  <1>7. ReadsHonest'
    BY DEF TypeOK, ReadsHonest, End, GoTo, history, Sequential
  <1>8. ErrorForgiven'
    BY DEF TypeOK, ErrorForgiven, End, GoTo, history, Sequential
  <1> QED
    BY <1>1, <1>2, <1>3, <1>4, <1>5, <1>6, <1>7, <1>8

\* A call that starts has an offset at or above zero unless it is a Seek.
LEMMA StartStep ==
  ASSUME IInv, NEW p \in Procs, NEW call \in Calls, NEW stage \in {"lock", "request"},
         Start(p, call, stage),
         stage = "lock" => call.kind \in Sequential, stage = "request" => call.kind = "ReadAt",
         call.kind # "Seek" => call.off \in Nat
  PROVE IInv'
  <1> USE NoneAssumption, SizeAssumption DEF IInv
  <1>a. /\ pc' = [pc EXCEPT ![p] = stage] /\ op' = [op EXCEPT ![p] = call]
        /\ knew' = [knew EXCEPT ![p] = size # None] /\ pc[p] = "idle"
        /\ want' = want /\ res' = res /\ size' = size /\ resolved' = resolved /\ mu' = mu
        /\ offset' = offset /\ base' = base /\ stream' = stream
    BY DEF Start, GoTo, history
  <1>b. /\ pc'[p] = stage /\ op'[p] = call /\ knew'[p] = (size # None)
        /\ \A q \in Procs \ {p} : pc'[q] = pc[q] /\ op'[q] = op[q] /\ knew'[q] = knew[q]
    BY <1>a DEF TypeOK
  <1>1. TypeOK'
    BY <1>a DEF Stages, TypeOK, Sequential
  <1>2. CallFits'
    BY <1>a, <1>b DEF TypeOK, CallFits, Sequential
  <1>3. LockHeld'
    BY <1>a, <1>b DEF TypeOK, LockHeld, Sequential
  <1>4. WantFits'
    BY <1>a, <1>b DEF TypeOK, WantFits, Sequential
  <1>5. KnewFits'
    BY <1>a, <1>b DEF TypeOK, KnewFits, Sequential
  <1>6. ReadsConsecutive'
    BY <1>a, <1>b DEF TypeOK, ReadsConsecutive, Sequential
  <1>7. ReadsHonest'
    BY <1>a, <1>b DEF TypeOK, ReadsHonest, Sequential
  <1>8. ErrorForgiven'
    BY <1>a, <1>b DEF TypeOK, ErrorForgiven, CallFits, NoResult, Result
  <1> QED
    BY <1>1, <1>2, <1>3, <1>4, <1>5, <1>6, <1>7, <1>8

\* The size is known, and not the end of the call.
LEMMA GoOnStep ==
  ASSUME IInv, NEW p \in Procs, pc[p] \in {"size", "attributes"}, size' = ObjectSize,
         GoTo(p, IF op[p].kind = "Seek" THEN "move" ELSE "request"),
         resolved' \in {"never", "ok", "failed"},
         UNCHANGED <<op, res, mu, want, knew, offset, history>>
  PROVE IInv'
  <1> USE NoneAssumption, SizeAssumption, CallTyped DEF IInv
  <1>1. TypeOK'
    BY DEF Stages, TypeOK, GoTo, history, Sequential
  <1>2. CallFits'
    BY DEF TypeOK, CallFits, GoTo, history, Sequential
  <1>3. LockHeld'
    BY DEF TypeOK, LockHeld, GoTo, history, Sequential
  <1>4. WantFits'
    BY DEF TypeOK, WantFits, GoTo, history, Sequential
  <1>5. KnewFits'
    BY DEF TypeOK, KnewFits, GoTo, history, Sequential
  <1>6. ReadsConsecutive'
    BY DEF TypeOK, ReadsConsecutive, GoTo, history, Sequential
  <1>7. ReadsHonest'
    BY DEF TypeOK, ReadsHonest, GoTo, history, Sequential
  <1>8. ErrorForgiven'
    BY DEF TypeOK, ErrorForgiven, GoTo, history, Sequential
  <1> QED
    BY <1>1, <1>2, <1>3, <1>4, <1>5, <1>6, <1>7, <1>8

\* A size that is already known is used as it is.
LEMMA UseSizeStep ==
  ASSUME IInv, NEW p \in Procs, pc[p] \in {"size", "attributes"},
         size' = ObjectSize, UseSize(p, ObjectSize), resolved' \in {"never", "ok", "failed"},
         UNCHANGED <<want, knew, offset, history>>
  PROVE IInv'
  <1>1. CASE op[p].kind = "Read" /\ offset >= ObjectSize
    <2>1. Return(p, 0, "eof") /\ Place(p, offset)
      BY <1>1 DEF UseSize
    <2>2. TypeOK /\ offset \in Nat
      BY DEF IInv, TypeOK
    <2>3. /\ op' \in [Procs -> Calls] /\ op'[p].off = offset
          /\ op'[p].kind = op[p].kind /\ op'[p].len = op[p].len
          /\ \A q \in Procs \ {p} : op'[q] = op[q]
      BY ONLY p \in Procs, <2>1, <2>2, Placed
    <2> QED
      BY ONLY IInv, p \in Procs, <1>1, <2>1, <2>2, <2>3, StopStep, size' = ObjectSize,
              resolved' \in {"never", "ok", "failed"}, UNCHANGED <<want, knew, offset, history>>
  <1>2. CASE ~(op[p].kind = "Read" /\ offset >= ObjectSize)
    BY <1>2, GoOnStep DEF UseSize
  <1> QED
    BY <1>1, <1>2

\* A call that fails leaves what it was as it was.
LEMMA FailStep ==
  ASSUME IInv, NEW p \in Procs, NEW err \in {"error", "attributes"}, Return(p, 0, err),
         pc[p] \in {"attributes", "header", "move"}, err = "attributes" => ~knew[p],
         resolved' \in {"never", "ok", "failed"},
         UNCHANGED <<op, want, knew, size, offset, history>>
  PROVE IInv'
  <1>1. op' \in [Procs -> Calls] /\ op' = op /\ size' = size
    BY DEF IInv, TypeOK
  <1>2. op[p].kind # "Seek" => op[p].off \in Nat
    BY DEF IInv, CallFits
  <1> QED
    BY <1>1, <1>2, StopStep

\* No size is known: Attributes is asked.
LEMMA AskStep ==
  ASSUME IInv, NEW p \in Procs, pc[p] = "size", size = None, GoTo(p, "attributes"),
         UNCHANGED <<op, res, mu, want, knew, size, resolved, offset, history>>
  PROVE IInv'
  <1> USE NoneAssumption, SizeAssumption DEF IInv
  <1>1. TypeOK'
    BY DEF Stages, TypeOK, GoTo, history, Sequential
  <1>2. CallFits'
    BY DEF TypeOK, CallFits, GoTo, history, Sequential
  <1>3. LockHeld'
    BY DEF TypeOK, LockHeld, GoTo, history, Sequential
  <1>4. WantFits'
    BY DEF TypeOK, WantFits, GoTo, history, Sequential
  <1>5. KnewFits'
    BY DEF TypeOK, KnewFits, GoTo, history, Sequential
  <1>6. ReadsConsecutive'
    BY DEF TypeOK, ReadsConsecutive, GoTo, history, Sequential
  <1>7. ReadsHonest'
    BY DEF TypeOK, ReadsHonest, GoTo, history, Sequential
  <1>8. ErrorForgiven'
    BY DEF TypeOK, ErrorForgiven, GoTo, history, Sequential
  <1> QED
    BY <1>1, <1>2, <1>3, <1>4, <1>5, <1>6, <1>7, <1>8

\* knownSize: the size is there, is asked for, or cannot be had.
LEMMA SizeStep ==
  ASSUME IInv, NEW p \in Procs, Size(p)
  PROVE IInv'
  <1> USE NoneAssumption, SizeAssumption
  <1>1. TypeOK /\ size \in {None, ObjectSize} /\ resolved \in {"never", "ok", "failed"}
    BY DEF IInv, TypeOK
  <1>2. CASE LoadSize(p)
    <2>1. CASE size # None
      <3>1. size' = ObjectSize /\ UseSize(p, ObjectSize) /\ resolved' = resolved
            /\ pc[p] = "size" /\ UNCHANGED <<want, knew, offset, history>>
        BY <1>1, <1>2, <2>1 DEF LoadSize
      <3> QED
        BY ONLY IInv, p \in Procs, <1>1, <3>1, UseSizeStep
    <2>2. CASE size = None
      BY <1>2, <2>2, AskStep DEF LoadSize
    <2> QED
      BY <2>1, <2>2
  <1>3. CASE Resolve(p)
    <2>1. size' = ObjectSize /\ UseSize(p, ObjectSize) /\ resolved' = "ok"
          /\ pc[p] = "attributes" /\ UNCHANGED <<want, knew, offset, history>>
      BY <1>1, <1>3 DEF Resolve
    <2> QED
      BY ONLY IInv, p \in Procs, <2>1, UseSizeStep
  <1>4. CASE ResolveFails(p)
    <2>1. ~knew[p]
      BY <1>4 DEF ResolveFails, IInv, KnewFits
    <2> QED
      BY <1>4, <2>1, FailStep DEF ResolveFails
  <1> QED
    BY <1>2, <1>3, <1>4 DEF Size

\* The request is sent.
LEMMA SendStep ==
  ASSUME IInv, NEW p \in Procs, Request(p), pc'[p] = "header"
  PROVE IInv'
  <1> USE NoneAssumption, SizeAssumption
  <1> DEFINE cut == size # None /\ At(p) + op[p].len > size
             n == IF cut THEN size - At(p) ELSE op[p].len
  <1>1. TypeOK /\ pc[p] = "request" /\ op[p].kind \in {"ReadAt", "Read"} /\ offset \in Nat
    BY DEF Request, IInv, TypeOK, CallFits
  <1>2. op[p].len \in Nat /\ At(p) \in Nat /\ At(p) \in Int
    BY ONLY p \in Procs, <1>1, IInv, CallTyped DEF At, IInv, CallFits
  <1>3. /\ want' = [want EXCEPT ![p] = n] /\ GoTo(p, "header") /\ Place(p, At(p))
        /\ (size # None => At(p) < size)
        /\ res' = res /\ mu' = mu /\ knew' = knew /\ size' = size /\ resolved' = resolved
        /\ offset' = offset /\ base' = base /\ stream' = stream
    <2>1. ~(pc' = [pc EXCEPT ![p] = "done"])
      BY <1>1 DEF TypeOK
    <2> QED
      BY ONLY Request(p), <1>1, <1>2, <2>1, SizeAssumption, NoneAssumption
         DEF Request, CutAndSend, Return, GoTo, TypeOK, history
  <1>4. n \in Nat /\ (n = op[p].len \/ (n < op[p].len /\ At(p) + n = ObjectSize))
    <2>1. size # None => size = ObjectSize /\ At(p) < size
      BY ONLY <1>1, <1>3 DEF TypeOK
    <2>2. CASE cut
      BY ONLY <1>2, <2>1, <2>2, SizeAssumption DEF n, cut
    <2>3. CASE ~cut
      BY ONLY <1>2, <2>3 DEF n, cut
    <2> QED
      BY <2>2, <2>3
  <1>5. /\ op' \in [Procs -> Calls] /\ op'[p].off = At(p) /\ op'[p].kind = op[p].kind
        /\ op'[p].len = op[p].len /\ \A q \in Procs \ {p} : op'[q] = op[q]
    BY ONLY p \in Procs, <1>1, <1>2, <1>3, Placed
  <1>6. /\ want' \in [Procs -> Nat] /\ want'[p] = n /\ \A q \in Procs \ {p} : want'[q] = want[q]
        /\ pc' \in [Procs -> Stages] /\ pc'[p] = "header"
        /\ \A q \in Procs \ {p} : pc'[q] = pc[q]
    BY ONLY p \in Procs, <1>1, <1>3, <1>4 DEF TypeOK, GoTo, Stages
  <1> HIDE DEF n, cut
  <1> USE <1>1, <1>5, <1>6
  <1>a. TypeOK'
    BY <1>3 DEF TypeOK
  <1>b. CallFits'
    BY <1>2, <1>3 DEF IInv, CallFits
  <1>c. LockHeld'
    BY <1>3 DEF IInv, LockHeld, At
  <1>d. WantFits'
    BY <1>3, <1>4 DEF IInv, WantFits
  <1>e. KnewFits'
    BY <1>3 DEF IInv, KnewFits
  <1>f. ReadsConsecutive'
    BY <1>3 DEF IInv, ReadsConsecutive
  <1>g. ReadsHonest'
    BY <1>3 DEF IInv, ReadsHonest
  <1>h. ErrorForgiven'
    BY <1>3 DEF IInv, ErrorForgiven
  <1> QED
    BY <1>a, <1>b, <1>c, <1>d, <1>e, <1>f, <1>g, <1>h DEF IInv

\* The request of a read, cut at a known size; without bytes to ask for none is sent.
LEMMA RequestStep ==
  ASSUME IInv, NEW p \in Procs, Request(p)
  PROVE IInv'
  <1>1. /\ TypeOK /\ pc[p] = "request" /\ op[p].kind \in {"ReadAt", "Read"}
        /\ op[p].len \in Nat /\ At(p) \in Nat /\ At(p) \in Int
    <2>1. TypeOK /\ pc[p] = "request" /\ op[p].kind \in {"ReadAt", "Read"} /\ offset \in Nat
      BY DEF Request, IInv, TypeOK, CallFits
    <2> QED
      BY ONLY p \in Procs, <2>1, IInv, CallTyped DEF At, IInv, CallFits
  <1>2. /\ Place(p, At(p)) /\ size' = size /\ resolved' = resolved
        /\ knew' = knew /\ UNCHANGED <<offset, history>>
    BY DEF Request, CutAndSend
  <1>3. /\ op' \in [Procs -> Calls] /\ op'[p].off = At(p) /\ op'[p].kind = op[p].kind
        /\ op'[p].len = op[p].len /\ \A q \in Procs \ {p} : op'[q] = op[q]
    BY ONLY p \in Procs, <1>1, <1>2, Placed
  <1>4. resolved' \in {"never", "ok", "failed"} /\ size' \in {size, ObjectSize}
    BY <1>1, <1>2 DEF TypeOK
  <1>5. CASE op[p].len = 0
    <2>1. Return(p, 0, "nil") /\ want' = want
      BY <1>5 DEF Request, CutAndSend
    <2> QED
      BY ONLY IInv, p \in Procs, <2>1, <1>1, <1>2, <1>3, <1>4, <1>5, StopStep
  <1>6. CASE op[p].len # 0 /\ size # None /\ At(p) >= size
    <2>1. Return(p, 0, "eof") /\ want' = want /\ At(p) >= ObjectSize
      BY <1>1, <1>6 DEF Request, CutAndSend, TypeOK
    <2> QED
      BY ONLY IInv, p \in Procs, <2>1, <1>1, <1>2, <1>3, <1>4, <1>6, StopStep
  <1>7. CASE op[p].len # 0 /\ ~(size # None /\ At(p) >= size)
    <2>1. pc'[p] = "header"
      BY <1>1, <1>7 DEF Request, CutAndSend, GoTo, TypeOK
    <2> QED
      BY <2>1, SendStep
  <1> QED
    BY <1>5, <1>6, <1>7

\* Bytes appended to a sequence that is consecutive from b leave it so.
LEMMA Appended ==
  ASSUME NEW s \in Seq(Nat), NEW b \in Nat, NEW u \in Seq(Nat),
         \A i \in DOMAIN s : s[i] = b + i - 1,
         \A i \in DOMAIN u : u[i] = b + Len(s) + i - 1
  PROVE  /\ s \o u \in Seq(Nat) /\ Len(s \o u) = Len(s) + Len(u)
         /\ \A i \in DOMAIN (s \o u) : (s \o u)[i] = b + i - 1
  <1>1. /\ Len(s) \in Nat /\ DOMAIN s = 1..Len(s)
        /\ Len(u) \in Nat /\ DOMAIN u = 1..Len(u)
    OBVIOUS
  <1>2. s \o u \in Seq(Nat) /\ Len(s \o u) = Len(s) + Len(u)
    OBVIOUS
  <1>3. ASSUME NEW i \in DOMAIN (s \o u)
        PROVE  (s \o u)[i] = b + i - 1
    <2>1. i \in 1..(Len(s) + Len(u))
      BY <1>2, <1>3
    <2>2. CASE i <= Len(s)
      BY <1>1, <2>1, <2>2
    <2>3. CASE i > Len(s)
      <3>1. i - Len(s) \in DOMAIN u
        BY <1>1, <2>1, <2>3
      <3>2. (s \o u)[i] = u[i - Len(s)]
        BY <1>1, <2>1, <2>3
      <3> QED
        BY <1>1, <2>1, <3>1, <3>2
    <2> QED
      BY <1>1, <2>1, <2>2, <2>3
  <1> QED
    BY <1>2, <1>3

\* The body arrives in full, in part or not at all; Read moves the offset by what came.
LEMMA BodyStep ==
  ASSUME IInv, NEW p \in Procs, Body(p)
  PROVE IInv'
  <1> USE NoneAssumption, SizeAssumption
  <1>1. /\ TypeOK /\ pc[p] = "body" /\ op[p].kind \in {"ReadAt", "Read"}
        /\ op[p].kind = "Read" => mu = p /\ op[p].off = offset
        /\ op[p].off \in Nat /\ ReadsConsecutive
        /\ want[p] = op[p].len \/ (want[p] < op[p].len /\ op[p].off + want[p] = ObjectSize)
    <2>1. pc[p] = "body"
      BY DEF Body
    <2>2. TypeOK /\ CallFits /\ LockHeld /\ WantFits /\ ReadsConsecutive
      BY DEF IInv
    <2>3. op[p].kind \in {"ReadAt", "Read"} /\ op[p].off \in Nat
      BY ONLY p \in Procs, <2>1, <2>2 DEF CallFits
    <2>4. op[p].kind = "Read" => mu = p /\ op[p].off = offset
      BY ONLY p \in Procs, <2>1, <2>2 DEF LockHeld
    <2>5. want[p] = op[p].len \/ (want[p] < op[p].len /\ op[p].off + want[p] = ObjectSize)
      BY ONLY p \in Procs, <2>1, <2>2 DEF WantFits
    <2> QED
      BY <2>1, <2>2, <2>3, <2>4, <2>5
  <1>2. /\ op' = op /\ want' = want /\ knew' = knew /\ size' = size /\ resolved' = resolved
        /\ want[p] \in Nat /\ op[p].len \in Nat /\ op' \in [Procs -> Calls]
    <2>1. op' = op /\ want' = want /\ knew' = knew /\ size' = size /\ resolved' = resolved
      BY DEF Body
    <2> QED
      BY ONLY p \in Procs, <1>1, <2>1, CallTyped DEF TypeOK
  <1>3. PICK r \in Bodies(p) : Return(p, r.n, r.err) /\ Delivered(p, r.n)
    BY DEF Body
  <1>4. Present(p) \in Nat
    BY <1>1, <1>2 DEF Present
  <1>5. r.n \in Nat /\ r.err \in {"nil", "eof", "error"}
    BY <1>3, <1>4 DEF Bodies, Result
  <1>6. /\ r.err = "nil" => r.n = Present(p) /\ Present(p) >= want[p]
        /\ r.err = "eof" => r.n = Present(p) /\ Present(p) < want[p]
    BY <1>2, <1>3, <1>4 DEF Bodies, Result
  <1>7. /\ r.err = "nil" => \/ r.n = op[p].len
                            \/ op[p].off + r.n = ObjectSize /\ r.n < op[p].len
        /\ r.err = "eof" => op[p].off + r.n >= ObjectSize
    BY ONLY <1>1, <1>2, <1>4, <1>5, <1>6, SizeAssumption DEF Present
  <1>8. /\ offset' \in Nat /\ base' \in Nat /\ stream' \in Seq(Nat) /\ ReadsConsecutive'
        /\ mu # p => offset' = offset
    <2>1. CASE op[p].kind = "ReadAt"
      <3>1. offset' = offset /\ base' = base /\ stream' = stream
        BY <1>3, <2>1 DEF Delivered, history
      <3> QED
        BY ONLY <1>1, <3>1 DEF TypeOK, ReadsConsecutive
    <2>2. CASE op[p].kind = "Read"
      <3>1. /\ offset' = offset + r.n /\ base' = base /\ op[p].off = offset /\ mu = p
            /\ stream' = stream \o [i \in 1..r.n |-> op[p].off + i - 1]
        BY <1>1, <1>3, <2>2 DEF Delivered
      <3>2. /\ offset = base + Len(stream) /\ base \in Nat /\ stream \in Seq(Nat)
            /\ \A i \in DOMAIN stream : stream[i] = base + i - 1
        BY ONLY <1>1 DEF TypeOK, ReadsConsecutive
      <3> DEFINE u == [i \in 1..r.n |-> op[p].off + i - 1]
      <3>3. u \in Seq(Nat) /\ Len(u) = r.n /\ \A i \in DOMAIN u : u[i] = base + Len(stream) + i - 1
        <4>1. Len(stream) \in Nat /\ op[p].off = base + Len(stream) /\ r.n \in Nat
          BY ONLY <1>5, <3>1, <3>2
        <4>2. \A i \in 1..r.n : op[p].off + i - 1 = base + Len(stream) + i - 1 /\ op[p].off + i - 1 \in Nat
          BY ONLY <3>2, <4>1
        <4> QED
          BY ONLY <4>1, <4>2
      <3> HIDE DEF u
      <3>4. stream' = stream \o u
        BY <3>1 DEF u
      <3>5. /\ stream' \in Seq(Nat) /\ Len(stream') = Len(stream) + r.n
            /\ \A i \in DOMAIN stream' : stream'[i] = base + i - 1
        <4>1. /\ stream \o u \in Seq(Nat) /\ Len(stream \o u) = Len(stream) + Len(u)
              /\ \A i \in DOMAIN (stream \o u) : (stream \o u)[i] = base + i - 1
          BY ONLY <3>2, <3>3, Appended, Zenon
        <4> QED
          BY ONLY <3>3, <3>4, <4>1
      <3>6. offset' = base' + Len(stream')
        BY ONLY <1>5, <3>1, <3>2, <3>5
      <3>7. offset' \in Nat /\ base' \in Nat /\ (mu # p => offset' = offset)
        <4>1. offset \in Nat
          BY ONLY <3>2
        <4> QED
          BY ONLY <1>5, <3>1, <3>2, <4>1
      <3>8. ReadsConsecutive'
        BY ONLY <3>1, <3>5, <3>6 DEF ReadsConsecutive
      <3> QED
        BY ONLY <3>5, <3>7, <3>8
    <2> QED
      BY <1>1, <2>1, <2>2
  <1>9. resolved' \in {"never", "ok", "failed"}
    BY <1>1, <1>2 DEF TypeOK
  <1> QED
    BY ONLY IInv, p \in Procs, <1>1, <1>2, <1>3, <1>5, <1>7, <1>8, <1>9, ReturnStep

\* Seek moves the offset, never below zero.
LEMMA MoveStep ==
  ASSUME IInv, NEW p \in Procs, Move(p)
  PROVE IInv'
  <1> USE NoneAssumption, SizeAssumption
  <1>1. /\ TypeOK /\ pc[p] = "move" /\ mu = p /\ op[p].kind = "Seek"
        /\ op[p].whence = "end" => size # None
        /\ op' = op /\ want' = want /\ knew' = knew /\ size' = size /\ resolved' = resolved
    BY DEF Move, IInv, CallFits, LockHeld
  <1>2. /\ resolved' \in {"never", "ok", "failed"} /\ op' \in [Procs -> Calls]
        /\ offset \in Nat /\ size \in {None, ObjectSize}
    BY <1>1 DEF TypeOK
  <1>3. op[p].off \in Int /\ op[p].whence \in Whences
    BY ONLY p \in Procs, <1>1, CallTyped
  <1>4. NewOffset(p) \in Int
    BY ONLY <1>1, <1>2, <1>3, SizeAssumption DEF NewOffset, Whences
  <1>5. CASE NewOffset(p) < 0
    BY <1>1, <1>2, <1>5, FailStep DEF Move
  <1>6. CASE ~(NewOffset(p) < 0)
    <2>1. /\ Return(p, NewOffset(p), "nil") /\ offset' = NewOffset(p)
          /\ base' = NewOffset(p) /\ stream' = << >>
      BY <1>6 DEF Move
    <2>2. NewOffset(p) \in Nat
      BY <1>4, <1>6
    <2>3. offset' \in Nat /\ base' \in Nat /\ stream' \in Seq(Nat) /\ ReadsConsecutive'
      BY ONLY <2>1, <2>2 DEF ReadsConsecutive
    <2> QED
      BY ONLY IInv, p \in Procs, <1>1, <1>2, <2>1, <2>2, <2>3, ReturnStep
  <1> QED
    BY <1>5, <1>6

-----------------------------------------------------------------------------
(* The inductive invariant *)

\* Nobody calls, nothing is known: the invariant holds at the start.
LEMMA InitIInv == Init => IInv
  <1> SUFFICES ASSUME Init PROVE IInv
    OBVIOUS
  <1> USE SizeAssumption DEF Init, NoCall, NoResult, Call, Result
  <1>1. TypeOK
    BY DEF TypeOK, Stages, Calls, Outcomes, Whences
  <1>2. CallFits /\ LockHeld /\ WantFits /\ KnewFits
    BY DEF CallFits, LockHeld, WantFits, KnewFits
  <1>3. ReadsConsecutive /\ ReadsHonest /\ ErrorForgiven
    BY DEF ReadsConsecutive, ReadsHonest, ErrorForgiven
  <1> QED
    BY <1>1, <1>2, <1>3 DEF IInv

\* The invariant is about these variables only.
LEMMA Stutter == IInv /\ UNCHANGED vars => IInv'
  BY DEF vars, locals, history, IInv, TypeOK, CallFits, LockHeld, WantFits, KnewFits,
         ReadsConsecutive, ReadsHonest, ErrorForgiven

\* The calls of the instance are calls.
LEMMA CallStep ==
  ASSUME IInv, NEW p \in Procs,
         \/ \E off \in Offsets, len \in Lengths : ReadAt(p, off, len)
         \/ \E len \in Lengths : Read(p, len)
         \/ \E s \in Seeks : Seek(p, s[1], s[2])
  PROVE IInv'
  <1> USE CallAssumption, SeekAssumption DEF Call, Calls, Whences, Sequential
  <1>1. ASSUME NEW off \in Offsets, NEW len \in Lengths, ReadAt(p, off, len)
        PROVE  IInv'
    <2>1. Call("ReadAt", off, len, "start") \in Calls
      OBVIOUS
    <2> QED
      BY <1>1, <2>1, StartStep DEF ReadAt
  <1>2. ASSUME NEW len \in Lengths, Read(p, len)
        PROVE  IInv'
    <2>1. Call("Read", 0, len, "start") \in Calls
      OBVIOUS
    <2> QED
      BY <1>2, <2>1, StartStep DEF Read
  <1>3. ASSUME NEW s \in Seeks, Seek(p, s[1], s[2])
        PROVE  IInv'
    <2>1. Call("Seek", s[2], 0, s[1]) \in Calls
      OBVIOUS
    <2> QED
      BY <1>3, <2>1, StartStep DEF Seek
  <1> QED
    BY <1>1, <1>2, <1>3

\* Every step keeps the invariant.
LEMMA NextStep == IInv /\ [Next]_vars => IInv'
  <1> SUFFICES ASSUME IInv, [Next]_vars PROVE IInv'
    OBVIOUS
  <1>1. CASE UNCHANGED vars
    BY <1>1, Stutter
  <1>2. ASSUME NEW p \in Procs, Step(p)
        PROVE  IInv'
    <2>1. CASE Lock(p)
      BY <2>1, LockStep
    <2>2. CASE Size(p)
      BY <2>2, SizeStep
    <2>3. CASE Request(p)
      BY <2>3, RequestStep
    <2>4. CASE RequestFails(p)
      <3>1. resolved' \in {"never", "ok", "failed"}
        BY <2>4 DEF RequestFails, IInv, TypeOK
      <3> QED
        BY <2>4, <3>1, FailStep DEF RequestFails
    <2>5. CASE Header(p)
      BY <2>5, HeaderStep
    <2>6. CASE Body(p)
      BY <2>6, BodyStep
    <2>7. CASE Move(p)
      BY <2>7, MoveStep
    <2> QED
      BY <1>2, <2>1, <2>2, <2>3, <2>4, <2>5, <2>6, <2>7 DEF Step, Transfer
  <1> QED
    BY <1>1, <1>2, CallStep, EndStep DEF Next

\* The inductive invariant of a reader that goroutines share.
THEOREM Invariance == Safety => []IInv
  BY InitIInv, NextStep, PTL DEF Safety

\* TypeOK of the reader's state: the lock, the offset and the calls stay what they are.
THEOREM TypeCorrect == Safety => []TypeOK
  <1>1. IInv => TypeOK
    BY DEF IInv
  <1> QED
    BY <1>1, Invariance, PTL

\* The Reads of all goroutines together return consecutive bytes, whatever fails.
THEOREM Consecutive == Safety => []ReadsConsecutive
  <1>1. IInv => ReadsConsecutive
    BY DEF IInv
  <1> QED
    BY <1>1, Invariance, PTL

\* No read claims bytes it has not, or an end it has not reached.
THEOREM Honest == Safety => []ReadsHonest
  <1>1. IInv => ReadsHonest
    BY DEF IInv
  <1> QED
    BY <1>1, Invariance, PTL

\* What a read told of the size outlives a failed call of Attributes.
THEOREM Forgiven == Safety => []ErrorForgiven
  <1>1. IInv => ErrorForgiven
    BY DEF IInv
  <1> QED
    BY <1>1, Invariance, PTL
-----------------------------------------------------------------------------
(* The lock: who waits for whom *)

\* A place in a sequential call where the lock is held.
InSection(p) ==
    \/ pc[p] \in {"size", "attributes", "move"}
    \/ pc[p] \in {"request", "header", "body"} /\ op[p].kind = "Read"

\* What a step of one goroutine does: nothing to the calls of others, and the lock
\* changes hands from nobody to a goroutine in its section or back.
LEMMA StepShape ==
  ASSUME IInv, LockReleased, NEW p \in Procs, Step(p) \/ End(p)
  PROVE /\ \A q \in Procs \ {p} : pc'[q] = pc[q] /\ op'[q] = op[q]
        /\ mu' # None => \/ mu' = mu /\ mu # p
                         \/ mu' = p /\ InSection(p)'
  <1>1. TypeOK /\ LockHeld /\ CallFits
    BY DEF IInv
  <1>2. /\ pc \in [Procs -> Stages] /\ op \in [Procs -> Calls]
        /\ (mu = p => InSection(p)) /\ p # None
    BY <1>1, NoneAssumption DEF TypeOK, LockReleased, InSection
  <1>3. ASSUME NEW n, NEW err, Return(p, n, err)
        PROVE /\ \A q \in Procs \ {p} : pc'[q] = pc[q]
              /\ mu' # None => mu' = mu /\ mu # p
    BY <1>2, <1>3 DEF Return, Unlock, GoTo
  <1>4. ASSUME NEW off, Place(p, off)
        PROVE \A q \in Procs \ {p} : op'[q] = op[q]
    BY <1>2, <1>4 DEF Place
  <1>5. ASSUME NEW s, UseSize(p, s), pc[p] \in {"size", "attributes"}
        PROVE /\ \A q \in Procs \ {p} : pc'[q] = pc[q] /\ op'[q] = op[q]
              /\ mu' # None => \/ mu' = mu /\ mu # p
                               \/ mu' = p /\ InSection(p)'
    <2>1. CASE op[p].kind = "Read" /\ offset >= s
      BY <1>3, <1>4, <1>5, <2>1 DEF UseSize
    <2>2. CASE ~(op[p].kind = "Read" /\ offset >= s)
      <3>1. /\ GoTo(p, IF op[p].kind = "Seek" THEN "move" ELSE "request")
            /\ op' = op /\ mu' = mu
        BY <1>5, <2>2 DEF UseSize
      <3>2. op[p].kind \in {"Read", "Seek"} /\ mu = p
        BY <1>1, <1>5 DEF CallFits, LockHeld, Sequential
      <3>3. pc'[p] = (IF op[p].kind = "Seek" THEN "move" ELSE "request")
            /\ \A q \in Procs \ {p} : pc'[q] = pc[q]
        BY <1>2, <3>1 DEF GoTo
      <3> QED
        BY <3>1, <3>2, <3>3 DEF InSection
    <2> QED
      BY <2>1, <2>2
  <1>6. CASE Lock(p)
    <2>1. op[p].kind \in Sequential /\ op' = op /\ mu' = p
          /\ pc'[p] \in {"move", "size"} /\ \A q \in Procs \ {p} : pc'[q] = pc[q]
      BY <1>1, <1>2, <1>6 DEF Lock, CallFits, GoTo
    <2> QED
      BY <2>1 DEF InSection
  <1>7. CASE Size(p)
    <2>1. CASE LoadSize(p) /\ size = None
      <3>1. pc'[p] = "attributes" /\ op' = op /\ mu' = mu /\ \A q \in Procs \ {p} : pc'[q] = pc[q]
        BY <1>2, <2>1 DEF LoadSize, GoTo
      <3> QED
        BY <3>1 DEF InSection
    <2>2. CASE LoadSize(p) /\ size # None
      BY <1>5, <2>2 DEF LoadSize
    <2>3. CASE Resolve(p)
      BY <1>5, <2>3 DEF Resolve
    <2>4. CASE ResolveFails(p)
      BY <1>3, <2>4 DEF ResolveFails
    <2> QED
      BY <1>7, <2>1, <2>2, <2>3, <2>4 DEF Size
  <1>8. CASE Request(p)
    <2>1. Place(p, At(p)) /\ At(p) \in Int /\ pc[p] = "request"
      BY <1>1, <1>8, CallTyped DEF Request, CutAndSend, At, TypeOK
    <2>2. op'[p].kind = op[p].kind /\ \A q \in Procs \ {p} : op'[q] = op[q]
      BY <1>1, <2>1, Placed
    <2>3. CASE GoTo(p, "header") /\ mu' = mu
      <3>1. pc'[p] = "header" /\ \A q \in Procs \ {p} : pc'[q] = pc[q]
        BY <1>2, <2>3 DEF GoTo
      <3>2. mu = p => op[p].kind = "Read"
        BY <1>2, <2>1 DEF InSection
      <3> QED
        BY <2>2, <2>3, <3>1, <3>2 DEF InSection
    <2>4. CASE \E err \in {"nil", "eof"} : Return(p, 0, err)
      BY <1>3, <2>2, <2>4
    <2> QED
      BY <1>8, <2>3, <2>4 DEF Request, CutAndSend
  <1>9. CASE Header(p)
    <2>1. pc[p] = "header" /\ pc'[p] = "body" /\ op' = op /\ mu' = mu
          /\ \A q \in Procs \ {p} : pc'[q] = pc[q]
      BY <1>2, <1>9 DEF Header, GoTo
    <2> QED
      BY <1>2, <2>1 DEF InSection
  <1>10. CASE RequestFails(p) \/ Body(p) \/ Move(p)
    <2>1. op' = op /\ \E n, err : Return(p, n, err)
      BY <1>10 DEF RequestFails, Body, Move
    <2> QED
      BY <1>3, <2>1
  <1>11. CASE End(p)
    <2>1. mu # p
      BY <1>2, <1>11 DEF End, InSection
    <2> QED
      BY <1>2, <1>11, <2>1 DEF End, GoTo
  <1> QED
    BY <1>6, <1>7, <1>8, <1>9, <1>10, <1>11 DEF Step, Transfer

\* A call that begins holds no lock and disturbs nobody who does.
LEMMA StartShape ==
  ASSUME IInv, LockReleased, NEW p \in Procs, NEW call, NEW stage, Start(p, call, stage)
  PROVE /\ \A q \in Procs \ {p} : pc'[q] = pc[q] /\ op'[q] = op[q]
        /\ mu' = mu /\ mu # p
  BY NoneAssumption DEF IInv, TypeOK, LockReleased, Start, GoTo

\* No path leaves the lock behind.
LEMMA StepReleased == IInv /\ LockReleased /\ [Next]_vars => LockReleased'
  <1> SUFFICES ASSUME IInv, LockReleased, [Next]_vars PROVE LockReleased'
    OBVIOUS
  <1>1. mu \in Procs \cup {None} /\ (mu # None => InSection(mu))
    BY DEF IInv, TypeOK, LockReleased, InSection
  <1>2. ASSUME NEW p \in Procs,
               \A q \in Procs \ {p} : pc'[q] = pc[q] /\ op'[q] = op[q],
               mu' # None => \/ mu' = mu /\ mu # p
                             \/ mu' = p /\ InSection(p)'
        PROVE LockReleased'
    BY <1>1, <1>2 DEF LockReleased, InSection
  <1>3. ASSUME NEW p \in Procs, Step(p) \/ End(p) PROVE LockReleased'
    BY <1>2, <1>3, StepShape
  <1>4. ASSUME NEW p \in Procs, NEW call, NEW stage, Start(p, call, stage) PROVE LockReleased'
    BY <1>2, <1>4, StartShape
  <1>5. CASE UNCHANGED vars
    BY <1>5 DEF vars, locals, LockReleased
  <1> QED
    BY <1>3, <1>4, <1>5 DEF Next, ReadAt, Read, Seek

\* The lock of a reader is held only inside a call that goes on by itself: a Read
\* or a Seek waits at most for the answers to the requests of those before it.
THEOREM Released == Safety => []LockReleased
  <1>1. Init => LockReleased
    BY DEF Init, LockReleased
  <1> QED
    BY <1>1, Invariance, StepReleased, PTL DEF Safety

-----------------------------------------------------------------------------
(* ReadAt and ParallelRead *)

\* A size that is known stays known.
LEMMA SizeStays == IInv /\ [Next]_vars => (size # None => size' = size)
  BY DEF Next, Step, Size, Transfer, LoadSize, Resolve, ResolveFails, Request, CutAndSend,
         RequestFails, Header, Body, Move, Lock, End, ReadAt, Read, Seek, Start,
         vars, locals

\* A step of one goroutine, or its next call, changes nothing of another's.
LEMMA OthersStay ==
  ASSUME TypeOK, NEW p \in Procs, NEW q \in Procs, q # p,
         Step(q) \/ End(q) \/ \E call, stage : Start(q, call, stage)
  PROVE /\ pc'[p] = pc[p] /\ op'[p] = op[p] /\ want'[p] = want[p]
        /\ res'[p] = res[p] /\ knew'[p] = knew[p]
  <1>1. CASE Size(q)
    BY <1>1 DEF Size, LoadSize, Resolve, ResolveFails, UseSize, Return, Place, GoTo, TypeOK
  <1>2. CASE Request(q) \/ RequestFails(q) \/ Header(q)
    BY <1>2 DEF Request, CutAndSend, RequestFails, Header, Return, Place, GoTo, TypeOK
  <1>3. CASE Body(q)
    BY <1>3 DEF Body, Return, GoTo, TypeOK
  <1>4. CASE Lock(q) \/ Move(q) \/ End(q) \/ \E call, stage : Start(q, call, stage)
    BY <1>4 DEF Lock, Move, End, Start, Return, GoTo, TypeOK
  <1> QED
    BY <1>1, <1>2, <1>3, <1>4 DEF Step, Transfer

\* A step into the header is the sending of a request, and one into the body its answer.
LEMMA KnewCutStep == IInv /\ KnewCut /\ [Next]_vars => KnewCut'
  <1> SUFFICES ASSUME IInv, KnewCut, [Next]_vars,
                      NEW p \in Procs, pc'[p] \in {"header", "body"}
               PROVE /\ want'[p] > 0
                     /\ knew'[p] => op'[p].off + want'[p] <= ObjectSize
                     /\ pc'[p] = "body" => size' # None
    BY DEF KnewCut
  <1>1. /\ TypeOK /\ KnewFits /\ CallFits
        /\ pc \in [Procs -> Stages] /\ op \in [Procs -> Calls] /\ want \in [Procs -> Nat]
        /\ size \in {None, ObjectSize} /\ ObjectSize \in Nat /\ ObjectSize # None
    BY SizeAssumption, NoneAssumption DEF IInv, TypeOK
  <1>2. ASSUME pc'[p] = pc[p], op'[p] = op[p], want'[p] = want[p], knew'[p] = knew[p]
        PROVE /\ want'[p] > 0
              /\ knew'[p] => op'[p].off + want'[p] <= ObjectSize
              /\ pc'[p] = "body" => size' # None
    BY <1>2, SizeStays DEF KnewCut
  <1>3. CASE UNCHANGED vars
    BY <1>2, <1>3 DEF vars, locals
  <1>4. ASSUME NEW q \in Procs, q # p,
               Step(q) \/ End(q) \/ \E call, stage : Start(q, call, stage)
        PROVE /\ pc'[p] = pc[p] /\ op'[p] = op[p] /\ want'[p] = want[p] /\ knew'[p] = knew[p]
    BY <1>1, <1>4, OthersStay
  <1>5. CASE Request(p)
    <2>1. /\ op[p].kind \in {"ReadAt", "Read"} /\ At(p) \in Nat /\ op[p].len \in Nat
      BY <1>1, <1>5, CallTyped DEF Request, CallFits, At, TypeOK
    <2>2. op'[p].off = At(p)
      BY <1>1, <1>5, <2>1, Placed DEF Request, CutAndSend
    <2>3. /\ op[p].len # 0 /\ (size # None => At(p) < size)
          /\ want'[p] = (IF size # None /\ At(p) + op[p].len > size THEN size - At(p) ELSE op[p].len)
          /\ pc'[p] = "header" /\ knew'[p] = knew[p]
      <3>1. ~Return(p, 0, "nil") /\ ~Return(p, 0, "eof")
        BY <1>1 DEF Return, GoTo
      <3>2. /\ op[p].len # 0 /\ (size # None => ~(At(p) >= size))
            /\ want' = [want EXCEPT ![p] = IF size # None /\ At(p) + op[p].len > size
                                           THEN size - At(p) ELSE op[p].len]
            /\ GoTo(p, "header") /\ knew' = knew
        BY <1>5, <3>1 DEF Request, CutAndSend
      <3>3. size # None => At(p) < size
        BY ONLY <1>1, <2>1, <3>2
      <3> QED
        BY <1>1, <3>2, <3>3 DEF GoTo
    <2>4. knew[p] => size = ObjectSize
      BY <1>1 DEF KnewFits
    <2>5. want'[p] > 0
      BY ONLY <1>1, <2>1, <2>3
    <2>6. knew[p] => At(p) + want'[p] <= ObjectSize
      BY ONLY <1>1, <2>1, <2>3, <2>4
    <2> QED
      BY <2>2, <2>3, <2>5, <2>6
  <1>6. CASE Header(p)
    <2>1. /\ pc[p] = "header" /\ op' = op /\ want' = want /\ knew' = knew /\ size' # None
      BY <1>1, <1>6 DEF Header
    <2> QED
      BY <2>1 DEF KnewCut
  <1>7. ASSUME Lock(p) \/ Size(p) \/ RequestFails(p) \/ Body(p) \/ Move(p) \/ End(p)
                 \/ \E call : Start(p, call, "lock") \/ Start(p, call, "request")
        PROVE FALSE
    <2>1. CASE Size(p)
      BY <1>1, <2>1 DEF Size, LoadSize, Resolve, ResolveFails, UseSize, Return, GoTo
    <2>2. CASE RequestFails(p) \/ Body(p) \/ Move(p)
      BY <1>1, <2>2 DEF RequestFails, Body, Move, Return, GoTo
    <2>3. CASE Lock(p) \/ End(p) \/ \E call : Start(p, call, "lock") \/ Start(p, call, "request")
      BY <1>1, <2>3 DEF Lock, End, Start, GoTo
    <2> QED
      BY <1>7, <2>1, <2>2, <2>3
  <1>8. CASE Next
    <2>1. PICK q \in Procs :
             Step(q) \/ End(q) \/ \E call : Start(q, call, "lock") \/ Start(q, call, "request")
      BY <1>8 DEF Next, ReadAt, Read, Seek
    <2>2. CASE q # p
      BY <1>2, <1>4, <2>1, <2>2
    <2>3. CASE q = p
      BY <1>5, <1>6, <1>7, <2>1, <2>3 DEF Step, Transfer
    <2> QED
      BY <2>2, <2>3
  <1> QED
    BY <1>3, <1>8

\* The end of a request is one of the outcomes that ParallelRead has.
LEMMA BodyTaken ==
  ASSUME IInv, KnewCut, NEW p \in Procs, pc[p] = "body", NEW r \in Bodies(p)
  PROVE \E clamped \in BOOLEAN : /\ knew[p] => clamped
                                 /\ r \in Taken(p)!Outcomes(0, op[p].len, clamped)
  <1> DEFINE off == op[p].off
             len == op[p].len
             w == want[p]
  <1>1. /\ off \in Nat /\ len \in Nat /\ w \in Nat /\ ObjectSize \in Nat
        /\ w > 0 /\ (knew[p] => off + w <= ObjectSize)
        /\ w = len \/ (w < len /\ off + w = ObjectSize)
    <2>1. op[p].kind \in {"ReadAt", "Read"} /\ op[p].len \in Nat /\ want[p] \in Nat
      BY CallTyped DEF IInv, CallFits, TypeOK
    <2>2. op[p].off \in Nat
      BY <2>1 DEF IInv, CallFits
    <2> QED
      BY <2>1, <2>2, SizeAssumption DEF IInv, WantFits, KnewCut
  <1> DEFINE there == IF off >= ObjectSize THEN 0
                      ELSE IF off + w > ObjectSize THEN ObjectSize - off ELSE w
             taken == IF off + 0 >= ObjectSize THEN 0
                      ELSE IF off + len > ObjectSize THEN ObjectSize - (off + 0) ELSE len - 0
  <1>2. Present(p) = there /\ Taken(p)!Present(0, len) = taken
    BY DEF Present, Taken!Present
  <1>3. len # 0 =>
           /\ \A k \in 0..taken : Result(k, "error") \in Taken(p)!Outcomes(0, len, TRUE)
           /\ taken # 0 => Result(taken, "nil") \in Taken(p)!Outcomes(0, len, TRUE)
           /\ taken < len - 0 => Result(taken, "eof") \in Taken(p)!Outcomes(0, len, FALSE)
    <2> HIDE DEF len, taken
    <2> QED
      BY <1>2 DEF Taken!Outcomes, Taken!Outcome, Result
  <1>4. /\ there \in Nat /\ taken \in Nat /\ there <= taken /\ len # 0
        /\ there < w => there = taken /\ taken < len - 0 /\ ~knew[p]
        /\ there = w => w = taken
    BY ONLY <1>1
  <1>5. \/ \E k \in 0..there : r = Result(k, "error")
        \/ r = Result(there, "eof") /\ there < w
        \/ r = Result(there, "nil") /\ there = w
    <2>1. r \in {Result(k, "error") : k \in 0..there}
                  \cup {Result(there, IF there < w THEN "eof" ELSE "nil")}
      BY <1>2 DEF Bodies
    <2>2. there < w \/ there = w
      BY ONLY <1>1
    <2> HIDE DEF there, w
    <2> QED
      BY <2>1, <2>2
  <1> HIDE DEF there, taken, off, len, w
  <1>6. CASE \E k \in 0..there : r = Result(k, "error")
    <2>1. PICK k \in 0..there : r = Result(k, "error")
      BY <1>6
    <2>2. k \in 0..taken
      BY ONLY <1>4, <2>1
    <2>3. r \in Taken(p)!Outcomes(0, len, TRUE)
      BY ONLY <1>1, <1>3, <1>4, <2>1, <2>2
    <2> QED
      BY <2>3 DEF len
  <1>7. CASE r = Result(there, "eof") /\ there < w
    <2>1. r \in Taken(p)!Outcomes(0, len, FALSE)
      BY ONLY <1>1, <1>3, <1>4, <1>7
    <2> QED
      BY <1>4, <1>7, <2>1 DEF len
  <1>8. CASE r = Result(there, "nil") /\ there = w
    <2>1. taken # 0 /\ r = Result(taken, "nil") /\ len # 0
      BY ONLY <1>1, <1>4, <1>8
    <2>2. r \in Taken(p)!Outcomes(0, len, TRUE)
      BY ONLY <1>3, <1>4, <2>1
    <2> QED
      BY <2>2 DEF len
  <1> QED
    BY <1>5, <1>6, <1>7, <1>8

\* The outcomes that ParallelRead has for a call, in terms of the call alone.
TakenFor(call, clamped) ==
  LET there == IF call.off + 0 >= ObjectSize THEN 0
               ELSE IF call.off + call.len > ObjectSize
                    THEN ObjectSize - (call.off + 0) ELSE call.len - 0
  IN  IF 0 = call.len THEN {Result(0, "nil")}
      ELSE {Result(k, "error") : k \in 0..there}
           \cup {Result(there, IF there = 0 \/ (there < call.len - 0 /\ ~clamped)
                               THEN "eof" ELSE "nil")}

\* A call returned what ParallelRead takes it for.
AsTaken(call, r, k, s) ==
  /\ \E clamped \in BOOLEAN : (k => clamped) /\ r \in TakenFor(call, clamped)
  /\ r.n > 0 => s # None

\* The property, one call at a time, in a state and in the next.
LEMMA TakenShape ==
  /\ ReadAtAsTaken <=>
        \A p \in Procs : pc[p] = "done" /\ op[p].kind = "ReadAt" =>
            AsTaken(op[p], res[p], knew[p], size)
  /\ ReadAtAsTaken' <=>
        \A p \in Procs : pc'[p] = "done" /\ op'[p].kind = "ReadAt" =>
            AsTaken(op'[p], res'[p], knew'[p], size')
  <1>1. \A p \in Procs : \A clamped \in BOOLEAN :
           Taken(p)!Outcomes(0, op[p].len, clamped) = TakenFor(op[p], clamped)
    BY DEF Taken!Outcomes, Taken!Present, Taken!Outcome, TakenFor, Result
  <1>2. \A p \in Procs : \A clamped \in BOOLEAN :
           Taken(p)!Outcomes(0, op[p].len, clamped)' = TakenFor(op'[p], clamped)
    BY DEF Taken!Outcomes, Taken!Present, Taken!Outcome, TakenFor, Result
  <1> QED
    BY <1>1, <1>2 DEF ReadAtAsTaken, AsTaken

\* A ReadAt without room, past a known end or with an error has a taken outcome.
LEMMA ShortTaken ==
  ASSUME NEW call \in Calls, NEW k \in BOOLEAN, NEW s
  PROVE /\ call.len = 0 => AsTaken(call, Result(0, "nil"), k, s)
        /\ call.len # 0 => AsTaken(call, Result(0, "error"), k, s)
        /\ call.len # 0 /\ call.off >= ObjectSize => AsTaken(call, Result(0, "eof"), k, s)
  <1>1. call.off \in Int /\ call.len \in Nat /\ ObjectSize \in Nat
    BY SizeAssumption DEF Calls
  <1>2. \A err : Result(0, err).n = 0
    BY DEF Result
  <1>3. call.len = 0 => Result(0, "nil") \in TakenFor(call, TRUE)
    BY <1>1 DEF TakenFor
  <1>4. call.len # 0 /\ call.off >= ObjectSize => Result(0, "eof") \in TakenFor(call, TRUE)
    BY <1>1 DEF TakenFor
  <1>5. ASSUME call.len # 0
        PROVE Result(0, "error") \in TakenFor(call, TRUE)
    <2> DEFINE there == IF call.off + 0 >= ObjectSize THEN 0
                        ELSE IF call.off + call.len > ObjectSize
                             THEN ObjectSize - (call.off + 0) ELSE call.len - 0
    <2>1. 0 \in 0..there
      BY ONLY <1>1
    <2>2. \A j \in 0..there : Result(j, "error") \in TakenFor(call, TRUE)
      BY <1>5 DEF TakenFor
    <2> QED
      BY ONLY <2>1, <2>2
  <1>6. ASSUME NEW err, Result(0, err) \in TakenFor(call, TRUE)
        PROVE AsTaken(call, Result(0, err), k, s)
    <2>1. ~(Result(0, err).n > 0)
      BY <1>2
    <2>2. \E clamped \in BOOLEAN : (k => clamped) /\ Result(0, err) \in TakenFor(call, clamped)
      <3> WITNESS TRUE \in BOOLEAN
      <3> QED
        BY <1>6
    <2> QED
      BY <2>1, <2>2 DEF AsTaken
  <1> QED
    BY <1>3, <1>4, <1>5, <1>6

\* Every ReadAt that returns has one of the outcomes that ParallelRead has for it.
LEMMA ReadAtAsTakenStep == IInv /\ KnewCut /\ ReadAtAsTaken /\ [Next]_vars => ReadAtAsTaken'
  <1> SUFFICES ASSUME IInv, KnewCut, ReadAtAsTaken, [Next]_vars,
                      NEW p \in Procs, pc'[p] = "done", op'[p].kind = "ReadAt"
               PROVE AsTaken(op'[p], res'[p], knew'[p], size')
    BY TakenShape
  <1>1. /\ TypeOK /\ KnewFits /\ CallFits /\ WantFits
        /\ pc \in [Procs -> Stages] /\ op \in [Procs -> Calls] /\ want \in [Procs -> Nat]
        /\ res \in [Procs -> Outcomes] /\ knew \in [Procs -> BOOLEAN]
        /\ size \in {None, ObjectSize} /\ ObjectSize \in Nat /\ ObjectSize # None
    BY SizeAssumption, NoneAssumption DEF IInv, TypeOK
  <1>2. ASSUME pc'[p] = pc[p], op'[p] = op[p], res'[p] = res[p], knew'[p] = knew[p]
        PROVE AsTaken(op'[p], res'[p], knew'[p], size')
    <2>1. AsTaken(op[p], res[p], knew[p], size)
      BY <1>2, TakenShape
    <2> QED
      BY <1>2, <2>1, SizeStays DEF AsTaken
  <1>3. CASE UNCHANGED vars
    BY <1>2, <1>3 DEF vars, locals
  <1>4. ASSUME NEW q \in Procs, q # p,
               Step(q) \/ End(q) \/ \E call, stage : Start(q, call, stage)
        PROVE pc'[p] = pc[p] /\ op'[p] = op[p] /\ res'[p] = res[p] /\ knew'[p] = knew[p]
    BY <1>1, <1>4, OthersStay
  <1>5. CASE Request(p)
    <2>1. /\ op[p].kind \in {"ReadAt", "Read"} /\ At(p) \in Nat
      BY <1>1, <1>5, CallTyped DEF Request, CallFits, At, TypeOK
    <2>2. /\ op'[p].off = At(p) /\ op'[p].len = op[p].len /\ op'[p].kind = op[p].kind
          /\ op'[p] \in Calls
      BY <1>1, <1>5, <2>1, Placed DEF Request, CutAndSend
    <2>3. ~GoTo(p, "header")
      BY <1>1 DEF GoTo
    <2>4. \/ op[p].len = 0 /\ Return(p, 0, "nil")
          \/ op[p].len # 0 /\ At(p) >= ObjectSize /\ Return(p, 0, "eof")
      BY <1>1, <1>5, <2>3 DEF Request, CutAndSend
    <2>5. \/ op[p].len = 0 /\ res'[p] = Result(0, "nil")
          \/ op[p].len # 0 /\ At(p) >= ObjectSize /\ res'[p] = Result(0, "eof")
      BY <1>1, <2>4 DEF Return
    <2>6. knew'[p] \in BOOLEAN
      BY <1>1, <1>5 DEF Request, CutAndSend
    <2> QED
      BY ONLY <2>2, <2>5, <2>6, ShortTaken
  <1>6. CASE RequestFails(p)
    <2>1. /\ pc[p] = "header" /\ op'[p] = op[p] /\ knew'[p] = knew[p]
          /\ res'[p] = Result(0, "error")
      BY <1>1, <1>6 DEF RequestFails, Return
    <2>2. op[p].len # 0 /\ op[p] \in Calls /\ knew[p] \in BOOLEAN
      <3>1. want[p] > 0 /\ want[p] \in Nat /\ op[p].len \in Nat
        BY <1>1, <2>1, CallTyped DEF KnewCut
      <3>2. want[p] = op[p].len \/ want[p] < op[p].len
        BY <1>1, <2>1 DEF WantFits
      <3> QED
        BY ONLY <1>1, <3>1, <3>2, p \in Procs
    <2> QED
      BY <2>1, <2>2, ShortTaken
  <1>7. CASE Body(p)
    <2>1. PICK r \in Bodies(p) : Return(p, r.n, r.err)
      BY <1>7 DEF Body
    <2>2. /\ pc[p] = "body" /\ op'[p] = op[p] /\ knew'[p] = knew[p] /\ size' = size
          /\ res'[p] = Result(r.n, r.err)
      BY <1>1, <1>7, <2>1 DEF Body, Return
    <2>3. Result(r.n, r.err) = r
      BY DEF Bodies, Result
    <2>4. PICK clamped \in BOOLEAN : /\ knew[p] => clamped
                                     /\ r \in Taken(p)!Outcomes(0, op[p].len, clamped)
      BY <2>2, BodyTaken
    <2>5. r \in TakenFor(op[p], clamped)
      BY <2>4 DEF Taken!Outcomes, Taken!Present, Taken!Outcome, TakenFor, Result
    <2>6. size # None
      BY <2>2 DEF KnewCut
    <2> QED
      BY <2>2, <2>3, <2>4, <2>5, <2>6 DEF AsTaken
  <1>8. ASSUME Lock(p) \/ Size(p) \/ Header(p) \/ Move(p) \/ End(p)
                 \/ \E call : Start(p, call, "lock") \/ Start(p, call, "request")
        PROVE FALSE
    <2>1. CASE Size(p)
      <3>1. op[p].kind \in Sequential
        BY <1>1, <2>1 DEF Size, LoadSize, Resolve, ResolveFails, CallFits
      <3>2. op' = op \/ \E off : Place(p, off)
        BY <2>1 DEF Size, LoadSize, Resolve, ResolveFails, UseSize
      <3>3. op'[p].kind = op[p].kind
        BY <1>1, <3>2 DEF Place, Calls
      <3> QED
        BY <3>1, <3>3 DEF Sequential
    <2>2. CASE Move(p)
      BY <1>1, <2>2 DEF Move, CallFits
    <2>3. CASE Lock(p) \/ Header(p) \/ End(p) \/ \E call : Start(p, call, "lock") \/ Start(p, call, "request")
      BY <1>1, <2>3 DEF Lock, Header, End, Start, GoTo
    <2> QED
      BY <1>8, <2>1, <2>2, <2>3
  <1>9. CASE Next
    <2>1. PICK q \in Procs :
             Step(q) \/ End(q) \/ \E call : Start(q, call, "lock") \/ Start(q, call, "request")
      BY <1>9 DEF Next, ReadAt, Read, Seek
    <2>2. CASE q # p
      BY <1>2, <1>4, <2>1, <2>2
    <2>3. CASE q = p
      BY <1>5, <1>6, <1>7, <1>8, <2>1, <2>3 DEF Step, Transfer
    <2> QED
      BY <2>2, <2>3
  <1> QED
    BY <1>3, <1>9

\* parallelReadAt may take a ReadAt of either reader for one step with one of the
\* outcomes of ParallelRead, for any goroutines and calls beside it.
THEOREM ReadAtTaken == Safety => []ReadAtAsTaken
  <1>1. Init => KnewCut /\ ReadAtAsTaken
    BY DEF Init, KnewCut, ReadAtAsTaken
  <1>2. IInv /\ (KnewCut /\ ReadAtAsTaken) /\ [Next]_vars => (KnewCut /\ ReadAtAsTaken)'
    BY KnewCutStep, ReadAtAsTakenStep
  <1> QED
    BY <1>1, <1>2, Invariance, PTL DEF Safety

-----------------------------------------------------------------------------
(* RangeReader implements ReaderService *)

\* What callers see of one goroutine.
AskedOf(c) == IF c.kind = "none" THEN None
              ELSE IF c.kind = "Read" THEN [c EXCEPT !.off = 0] ELSE c
AnswerOf(stage, c, r) ==
  IF stage # "done" THEN None
  ELSE [n |-> r.n, err |-> r.err, from |-> IF c.kind = "Seek" \/ r.n = 0 THEN None ELSE c.off]

LEMMA SeenShape ==
  /\ asked = [p \in Procs |-> AskedOf(op[p])] /\ asked' = [p \in Procs |-> AskedOf(op'[p])]
  /\ answer = [p \in Procs |-> AnswerOf(pc[p], op[p], res[p])]
  /\ answer' = [p \in Procs |-> AnswerOf(pc'[p], op'[p], res'[p])]
  BY DEF asked, answer, AskedOf, AnswerOf

\* Who is idle has asked for nothing.
IdleFits == \A p \in Procs : pc[p] = "idle" <=> op[p].kind = "none"

\* A goroutine on its way has a call, which stays the same to its callers.
LEMMA OnItsWay ==
  ASSUME IInv, IdleFits, NEW p \in Procs, Step(p)
  PROVE /\ pc[p] \notin {"idle", "done"} /\ pc'[p] # "idle"
        /\ op[p].kind # "none" /\ op'[p].kind = op[p].kind /\ op'[p].len = op[p].len
        /\ op[p].kind # "Read" => op'[p] = op[p]
        /\ AskedOf(op'[p]) = AskedOf(op[p]) /\ op'[p] \in Calls
  <1>1. TypeOK /\ CallFits /\ op[p] \in Calls /\ pc \in [Procs -> Stages]
    BY DEF IInv, TypeOK
  <1>2. pc[p] \notin {"idle", "done"}
    BY DEF Step, Size, Transfer, Lock, LoadSize, Resolve, ResolveFails, Request, RequestFails,
           Header, Body, Move
  <1>3. pc'[p] # "idle"
    <2>1. CASE Size(p)
      BY <1>1, <2>1 DEF Size, LoadSize, Resolve, ResolveFails, UseSize, Return, GoTo
    <2>2. CASE Transfer(p)
      BY <1>1, <2>2 DEF Transfer, Request, CutAndSend, RequestFails, Header, Body, Return, GoTo
    <2>3. CASE Lock(p) \/ Move(p)
      BY <1>1, <2>3 DEF Lock, Move, Return, GoTo
    <2> QED
      BY <2>1, <2>2, <2>3 DEF Step
  <1>4. op' = op \/ (op[p].kind = "Read" /\ Place(p, offset))
                 \/ (op[p].kind = "ReadAt" /\ Place(p, op[p].off))
    <2>1. CASE Size(p)
      BY <2>1 DEF Size, LoadSize, Resolve, ResolveFails, UseSize
    <2>2. CASE Request(p)
      BY <1>1, <2>2 DEF Request, CutAndSend, At, CallFits
    <2>3. CASE RequestFails(p) \/ Header(p) \/ Body(p) \/ Lock(p) \/ Move(p)
      BY <2>3 DEF RequestFails, Header, Body, Lock, Move
    <2> QED
      BY <2>1, <2>2, <2>3 DEF Step, Transfer
  <1>5. op[p].kind # "none"
    BY <1>2 DEF IdleFits
  <1>6. offset \in Int /\ op[p].off \in Int
    BY <1>1 DEF IInv, TypeOK, Calls
  <1>7. CASE op[p].kind = "Read" /\ Place(p, offset)
    <2>1. op'[p] = [op[p] EXCEPT !.off = offset]
      BY <1>1, <1>7 DEF Place, TypeOK
    <2>2. [op'[p] EXCEPT !.off = 0] = [op[p] EXCEPT !.off = 0]
      BY <1>1, <1>6, <2>1 DEF Calls
    <2>3. /\ op'[p].kind = op[p].kind /\ op'[p].len = op[p].len /\ op'[p] \in Calls
      BY <1>1, <1>6, <1>7, Placed
    <2> QED
      BY <1>2, <1>3, <1>5, <1>7, <2>2, <2>3 DEF AskedOf
  <1>8. CASE op[p].kind = "ReadAt" /\ Place(p, op[p].off)
    <2>1. op'[p] = op[p]
      BY <1>1, <1>8 DEF Place, TypeOK, Calls
    <2> QED
      BY <1>1, <1>2, <1>3, <1>5, <2>1
  <1>9. CASE op' = op
    BY <1>1, <1>2, <1>3, <1>5, <1>9
  <1> QED
    BY <1>4, <1>7, <1>8, <1>9

\* Those who are idle stay so until they call.
LEMMA IdleFitsStep == IInv /\ IdleFits /\ [Next]_vars => IdleFits'
  <1> SUFFICES ASSUME IInv, IdleFits, [Next]_vars, NEW p \in Procs
               PROVE pc'[p] = "idle" <=> op'[p].kind = "none"
    BY DEF IdleFits
  <1>1. TypeOK
    BY DEF IInv
  <1>2. CASE UNCHANGED vars
    BY <1>2 DEF vars, locals, IdleFits
  <1>3. CASE Next
    <2>0. \A kind, off, len, whence : Call(kind, off, len, whence).kind = kind
      BY DEF Call
    <2>1. PICK q \in Procs :
             \/ Step(q) \/ End(q)
             \/ \E call : /\ Start(q, call, "lock") \/ Start(q, call, "request")
                          /\ call.kind # "none"
      <3>1. PICK r \in Procs :
               \/ \E off \in Offsets, len \in Lengths : ReadAt(r, off, len)
               \/ \E len \in Lengths : Read(r, len)
               \/ \E s \in Seeks : Seek(r, s[1], s[2])
               \/ Step(r) \/ End(r)
        BY <1>3 DEF Next
      <3>2. ASSUME NEW kind \in {"ReadAt", "Read", "Seek"}, NEW off, NEW len, NEW whence, NEW stage,
                   stage \in {"lock", "request"}, Start(r, Call(kind, off, len, whence), stage)
            PROVE \E call : /\ Start(r, call, "lock") \/ Start(r, call, "request")
                            /\ call.kind # "none"
        BY <2>0, <3>2
      <3>3. \/ Step(r) \/ End(r)
            \/ \E call : /\ Start(r, call, "lock") \/ Start(r, call, "request")
                         /\ call.kind # "none"
        <4>1. CASE \E off \in Offsets, len \in Lengths : ReadAt(r, off, len)
          BY <3>2, <4>1 DEF ReadAt
        <4>2. CASE \E len \in Lengths : Read(r, len)
          BY <3>2, <4>2 DEF Read
        <4>3. CASE \E s \in Seeks : Seek(r, s[1], s[2])
          BY <3>2, <4>3 DEF Seek
        <4> QED
          BY <3>1, <4>1, <4>2, <4>3
      <3> QED
        BY <3>3
    <2>2. CASE q # p
      BY <1>1, <2>1, <2>2, OthersStay DEF IdleFits
    <2>3. CASE q = p /\ Step(p)
      BY <2>3, OnItsWay
    <2>4. CASE q = p /\ End(p)
      BY <1>1, <2>4 DEF End, GoTo, TypeOK, NoCall, Call
    <2>5. CASE q = p /\ \E call : /\ Start(q, call, "lock") \/ Start(q, call, "request")
                                  /\ call.kind # "none"
      BY <1>1, <2>5 DEF Start, GoTo, TypeOK
    <2> QED
      BY <2>1, <2>2, <2>3, <2>4, <2>5
  <1> QED
    BY <1>2, <1>3

\* The answers that need no bytes.
LEMMA NothingMoved ==
  ASSUME NEW at \in Int, NEW len \in Nat
  PROVE /\ Service!Bytes(0, at, "error") \in Service!Transfers(at, len)
        /\ len = 0 => Service!Bytes(0, at, "nil") \in Service!Transfers(at, len)
        /\ at >= ObjectSize => Service!Bytes(0, at, "eof") \in Service!Transfers(at, len)
  <1> DEFINE rest == Service!Rest(at, len)
  <1>1. ObjectSize \in Nat
    BY SizeAssumption
  <1>2. /\ rest \in Nat /\ (at >= ObjectSize => rest = 0) /\ (len = 0 => rest = 0)
    BY <1>1 DEF Service!Rest
  <1>3. 0 \in 0..rest
    BY ONLY <1>2
  <1>4. /\ \A n \in 0..rest : Service!Bytes(n, at, "error") \in Service!Transfers(at, len)
        /\ rest > 0 \/ len = 0 => Service!Bytes(rest, at, "nil") \in Service!Transfers(at, len)
        /\ rest < len \/ at >= ObjectSize => Service!Bytes(rest, at, "eof") \in Service!Transfers(at, len)
    <2> HIDE DEF rest
    <2> QED
      BY DEF Service!Transfers, rest
  <1> HIDE DEF rest
  <1> QED
    BY <1>2, <1>3, <1>4

\* The end of a request is one of the answers that the service has for the call,
\* although the request may ask for less than the call.
LEMMA BodyTransfers ==
  ASSUME IInv, KnewCut, NEW p \in Procs, pc[p] = "body", NEW r \in Bodies(p)
  PROVE Service!Bytes(r.n, op[p].off, r.err) \in Service!Transfers(op[p].off, op[p].len)
  <1> DEFINE off == op[p].off
             len == op[p].len
             w == want[p]
  <1>1. /\ off \in Nat /\ len \in Nat /\ w \in Nat /\ ObjectSize \in Nat
        /\ w > 0 /\ (w = len \/ (w < len /\ off + w = ObjectSize))
    <2>1. op[p].kind \in {"ReadAt", "Read"} /\ op[p].len \in Nat /\ want[p] \in Nat
      BY CallTyped DEF IInv, CallFits, TypeOK
    <2>2. op[p].off \in Nat
      BY <2>1 DEF IInv, CallFits
    <2> QED
      BY <2>1, <2>2, SizeAssumption DEF IInv, WantFits, KnewCut
  <1> DEFINE there == IF off >= ObjectSize THEN 0
                      ELSE IF off + w > ObjectSize THEN ObjectSize - off ELSE w
             rest == IF off >= ObjectSize THEN 0
                     ELSE IF off + len > ObjectSize THEN ObjectSize - off ELSE len
  <1>2. Present(p) = there /\ Service!Rest(off, len) = rest
    BY DEF Present, Service!Rest
  <1>3. /\ there \in Nat /\ rest \in Nat /\ there <= rest
        /\ there < w => there = rest /\ rest < len
        /\ there = w => there = rest /\ rest > 0
    BY ONLY <1>1
  <1>4. /\ \A n \in 0..rest : Service!Bytes(n, off, "error") \in Service!Transfers(off, len)
        /\ rest > 0 => Service!Bytes(rest, off, "nil") \in Service!Transfers(off, len)
        /\ rest < len => Service!Bytes(rest, off, "eof") \in Service!Transfers(off, len)
    <2> HIDE DEF rest, off, len
    <2> QED
      BY <1>2 DEF Service!Transfers
  <1>5. \/ \E k \in 0..there : r = Result(k, "error")
        \/ r = Result(there, "eof") /\ there < w
        \/ r = Result(there, "nil") /\ there = w
    <2>1. r \in {Result(k, "error") : k \in 0..there}
                  \cup {Result(there, IF there < w THEN "eof" ELSE "nil")}
      BY <1>2 DEF Bodies
    <2>2. there < w \/ there = w
      BY ONLY <1>1
    <2> HIDE DEF there, w
    <2> QED
      BY <2>1, <2>2
  <1>6. \A k, err : Result(k, err).n = k /\ Result(k, err).err = err
    BY DEF Result
  <1>7. \A k \in 0..there : k \in 0..rest
    BY ONLY <1>3
  <1> HIDE DEF there, rest, w
  <1> QED
    BY <1>3, <1>4, <1>5, <1>6, <1>7

\* A step inside a call changes nothing that callers see, unless the call returns.
LEMMA Silent ==
  ASSUME IInv, IdleFits, NEW p \in Procs, Step(p), pc'[p] # "done", offset' = offset
  PROVE UNCHANGED Service!vars
  <1>1. TypeOK
    BY DEF IInv
  <1>2. \A q \in Procs : AskedOf(op'[q]) = AskedOf(op[q])
    BY <1>1, OthersStay, OnItsWay
  <1>3. \A q \in Procs : AnswerOf(pc'[q], op'[q], res'[q]) = AnswerOf(pc[q], op[q], res[q])
    <2>1. AnswerOf(pc'[p], op'[p], res'[p]) = None /\ AnswerOf(pc[p], op[p], res[p]) = None
      BY OnItsWay DEF AnswerOf
    <2> QED
      BY <1>1, <2>1, OthersStay
  <1>4. asked' = asked /\ answer' = answer
    BY <1>2, <1>3, SeenShape
  <1> QED
    BY <1>4 DEF Service!vars

\* A call that returns answers, and only its own caller.
LEMMA Answered ==
  ASSUME IInv, IdleFits, NEW p \in Procs, Step(p), NEW n, NEW err, Return(p, n, err)
  PROVE LET from == IF op[p].kind = "Seek" \/ n = 0 THEN None ELSE op'[p].off
        IN  /\ Service!Give(p, Service!Reply(n, from, err))
            /\ Service!Waits(p, op[p].kind)
            /\ asked[p].len = op[p].len
            /\ op[p].kind # "Read" => asked[p] = op[p]
  <1> DEFINE from == IF op[p].kind = "Seek" \/ n = 0 THEN None ELSE op'[p].off
             a == Service!Reply(n, from, err)
  <1>1. TypeOK /\ op[p] \in Calls
    BY DEF IInv, TypeOK
  <1>2. \A q \in Procs : AskedOf(op'[q]) = AskedOf(op[q])
    BY <1>1, OthersStay, OnItsWay
  <1>3. pc'[p] = "done" /\ res'[p] = Result(n, err)
    BY <1>1 DEF Return, GoTo, TypeOK
  <1>4. AnswerOf(pc'[p], op'[p], res'[p]) = a
    BY <1>3, OnItsWay DEF AnswerOf, Result, Service!Reply
  <1>5. \A q \in Procs \ {p} : AnswerOf(pc'[q], op'[q], res'[q]) = AnswerOf(pc[q], op[q], res[q])
    BY <1>1, OthersStay
  <1>6. AnswerOf(pc[p], op[p], res[p]) = None
    BY OnItsWay DEF AnswerOf
  <1> HIDE DEF a, from
  <1>7. asked' = asked /\ answer' = [answer EXCEPT ![p] = a] /\ answer[p] = None
    BY <1>2, <1>4, <1>5, <1>6, SeenShape
  <1>8. asked[p] = AskedOf(op[p])
    BY SeenShape
  <1>9. /\ asked[p].kind = op[p].kind /\ asked[p].len = op[p].len
        /\ op[p].kind # "Read" => asked[p] = op[p]
    BY <1>1, <1>8, OnItsWay DEF AskedOf, Calls
  <1>10. asked[p] # None
    <2>1. asked[p] \in Calls
      <3>1. op[p].kind # "Read" => asked[p] = op[p]
        BY <1>8, OnItsWay DEF AskedOf
      <3>2. ASSUME NEW c \in Calls PROVE [c EXCEPT !.off = 0] \in Calls
        BY <3>2 DEF Calls
      <3>3. op[p].kind = "Read" => asked[p] = [op[p] EXCEPT !.off = 0]
        BY <1>8 DEF AskedOf
      <3> QED
        BY <1>1, <3>1, <3>2, <3>3
    <2> QED
      BY <2>1, SeenAssumption
  <1> QED
    BY <1>7, <1>9, <1>10 DEF Service!Give, Service!Waits, a, from

\* A read that returns with one of the service's transfers is a step of the service.
LEMMA ReadServes ==
  ASSUME IInv, IdleFits, NEW p \in Procs, Step(p), NEW n \in Nat, NEW err, Return(p, n, err),
         Service!Bytes(n, op'[p].off, err) \in Service!Transfers(op'[p].off, op[p].len),
         \/ op[p].kind = "ReadAt" /\ offset' = offset
         \/ op[p].kind = "Read" /\ op'[p].off = offset /\ offset' = offset + n
  PROVE Service!Next
  <1> DEFINE a == Service!Bytes(n, op'[p].off, err)
  <1>1. /\ Service!Give(p, a) /\ Service!Waits(p, op[p].kind) /\ asked[p].len = op[p].len
        /\ op[p].kind # "Read" => asked[p] = op[p]
    <2>1. op[p].kind # "Seek"
      OBVIOUS
    <2> QED
      BY <2>1, Answered DEF Service!Bytes
  <1>2. a.n = n
    BY DEF Service!Bytes, Service!Reply
  <1>3. a \in Service!Transfers(op'[p].off, op[p].len)
    OBVIOUS
  <1> HIDE DEF a
  <1>4. CASE op[p].kind = "ReadAt" /\ offset' = offset
    <2>1. op'[p] = op[p]
      BY <1>4, OnItsWay
    <2> QED
      BY <1>1, <1>3, <1>4, <2>1 DEF Service!Next, Service!ReadAt
  <1>5. CASE op[p].kind = "Read" /\ op'[p].off = offset /\ offset' = offset + n
    BY <1>1, <1>2, <1>3, <1>5 DEF Service!Next, Service!Read
  <1> QED
    BY <1>4, <1>5

\* A refusal changes nothing but the answer.
LEMMA RefusalServes ==
  ASSUME IInv, IdleFits, NEW p \in Procs, Step(p), ResolveFails(p)
  PROVE Service!Next
  <1>1. /\ Return(p, 0, "attributes") /\ offset' = offset
        /\ op[p].kind \in Sequential /\ (op[p].kind = "Seek" => op[p].whence = "end")
    BY DEF ResolveFails, IInv, CallFits
  <1>2. /\ Service!Give(p, Service!Refusal) /\ Service!Waits(p, op[p].kind)
        /\ op[p].kind # "Read" => asked[p] = op[p]
    BY <1>1, Answered DEF Service!Refusal
  <1>3. CASE op[p].kind = "Read"
    BY <1>1, <1>2, <1>3 DEF Service!Next, Service!Read
  <1>4. CASE op[p].kind = "Seek"
    BY <1>1, <1>2, <1>4 DEF Service!Next, Service!Seek
  <1> QED
    BY <1>1, <1>3, <1>4 DEF Sequential

\* What is done with a known size: a Read past the end is the service's, the rest
\* goes on unseen.
LEMMA SizeServes ==
  ASSUME IInv, IdleFits, NEW p \in Procs, Step(p), pc[p] \in {"size", "attributes"},
         UseSize(p, ObjectSize), offset' = offset
  PROVE Service!Next \/ UNCHANGED Service!vars
  <1>1. /\ TypeOK /\ op[p].len \in Nat /\ offset \in Nat /\ pc \in [Procs -> Stages]
        /\ op[p].kind \in Sequential
    BY CallTyped DEF IInv, TypeOK, CallFits
  <1>2. CASE op[p].kind = "Read" /\ offset >= ObjectSize
    <2>1. Return(p, 0, "eof") /\ Place(p, offset)
      BY <1>2 DEF UseSize
    <2>2. op'[p].off = offset
      BY <1>1, <2>1, Placed
    <2>3. Service!Bytes(0, op'[p].off, "eof") \in Service!Transfers(op'[p].off, op[p].len)
      BY <1>1, <1>2, <2>2, NothingMoved
    <2>4. offset' = offset + 0
      BY <1>1
    <2> QED
      BY <1>2, <2>1, <2>2, <2>3, <2>4, ReadServes
  <1>3. CASE ~(op[p].kind = "Read" /\ offset >= ObjectSize)
    <2>1. pc'[p] \in {"move", "request"}
      BY <1>1, <1>3 DEF UseSize, GoTo
    <2> QED
      BY <2>1, Silent
  <1> QED
    BY <1>2, <1>3

\* A request that is cut short before it is sent.
LEMMA RequestServes ==
  ASSUME IInv, IdleFits, NEW p \in Procs, Step(p), Request(p)
  PROVE Service!Next \/ UNCHANGED Service!vars
  <1>1. /\ TypeOK /\ op[p].len \in Nat /\ At(p) \in Int /\ offset \in Nat
        /\ op[p].kind \in {"ReadAt", "Read"} /\ Place(p, At(p)) /\ offset' = offset
        /\ pc \in [Procs -> Stages] /\ size \in {None, ObjectSize}
    BY CallTyped DEF IInv, TypeOK, CallFits, Request, CutAndSend, At
  <1>2. op'[p].off = At(p)
    BY <1>1, Placed
  <1>3. ASSUME NEW err, Return(p, 0, err),
               Service!Bytes(0, At(p), err) \in Service!Transfers(At(p), op[p].len)
        PROVE Service!Next
    <2>1. \/ op[p].kind = "ReadAt" /\ offset' = offset
          \/ op[p].kind = "Read" /\ op'[p].off = offset /\ offset' = offset + 0
      BY <1>1, <1>2 DEF At
    <2> QED
      BY <1>2, <1>3, <2>1, ReadServes
  <1>4. CASE op[p].len = 0
    <2>1. Return(p, 0, "nil")
      BY <1>4 DEF Request, CutAndSend
    <2> QED
      BY <1>1, <1>3, <1>4, <2>1, NothingMoved
  <1>5. CASE op[p].len # 0 /\ size # None /\ At(p) >= size
    <2>1. Return(p, 0, "eof") /\ At(p) >= ObjectSize
      BY <1>1, <1>5 DEF Request, CutAndSend
    <2> QED
      BY <1>1, <1>3, <2>1, NothingMoved
  <1>6. CASE op[p].len # 0 /\ ~(size # None /\ At(p) >= size)
    <2>1. pc'[p] = "header"
      BY <1>1, <1>6 DEF Request, CutAndSend, GoTo
    <2> QED
      BY <1>1, <2>1, Silent
  <1> QED
    BY <1>4, <1>5, <1>6

\* What comes of a request that was sent.
LEMMA ResponseServes ==
  ASSUME IInv, IdleFits, KnewCut, NEW p \in Procs, Step(p), RequestFails(p) \/ Body(p)
  PROVE Service!Next
  <1>1. /\ TypeOK /\ op[p].len \in Nat /\ op[p].off \in Int /\ offset \in Nat
        /\ op[p].kind \in {"ReadAt", "Read"} /\ op' = op
        /\ op[p].kind = "Read" => op[p].off = offset
    BY CallTyped DEF IInv, TypeOK, CallFits, LockHeld, RequestFails, Body
  <1>2. CASE RequestFails(p)
    <2>1. Return(p, 0, "error") /\ offset' = offset /\ offset' = offset + 0
      BY <1>1, <1>2 DEF RequestFails
    <2>2. Service!Bytes(0, op'[p].off, "error") \in Service!Transfers(op'[p].off, op[p].len)
      BY <1>1, NothingMoved
    <2> QED
      BY <1>1, <2>1, <2>2, ReadServes
  <1>3. CASE Body(p)
    <2>1. PICK r \in Bodies(p) : Return(p, r.n, r.err) /\ Delivered(p, r.n)
      BY <1>3 DEF Body
    <2>2. pc[p] = "body"
      BY <1>3 DEF Body
    <2>3. Service!Bytes(r.n, op'[p].off, r.err) \in Service!Transfers(op'[p].off, op[p].len)
      BY <1>1, <2>2, BodyTransfers
    <2>4. r.n \in Nat
      <3>1. res'[p] = Result(r.n, r.err)
        BY <1>1, <2>1 DEF Return, TypeOK
      <3>2. TypeOK'
        BY BodyStep, <1>3 DEF IInv
      <3>3. res'[p] \in Outcomes
        BY <3>2 DEF TypeOK
      <3> QED
        BY <3>1, <3>3 DEF Outcomes, Result
    <2>5. \/ op[p].kind = "ReadAt" /\ offset' = offset
          \/ op[p].kind = "Read" /\ offset' = offset + r.n
      BY <1>1, <2>1 DEF Delivered
    <2> QED
      BY <1>1, <2>1, <2>3, <2>4, <2>5, ReadServes
  <1> QED
    BY <1>2, <1>3

\* A Seek goes where the service's does: the end it counts from is the object's.
LEMMA MoveServes ==
  ASSUME IInv, IdleFits, NEW p \in Procs, Step(p), Move(p)
  PROVE Service!Next
  <1>1. /\ TypeOK /\ op[p].kind = "Seek" /\ op[p].whence \in Whences /\ offset \in Nat
        /\ (op[p].whence = "end" => size = ObjectSize) /\ op[p].off \in Int
    BY CallTyped DEF IInv, TypeOK, CallFits, Move
  <1>2. ASSUME NEW n, NEW err, Return(p, n, err)
        PROVE /\ Service!Give(p, Service!Reply(n, None, err)) /\ Service!Waits(p, "Seek")
              /\ asked[p] = op[p]
    BY <1>1, <1>2, Answered
  <1>3. Service!Target(op[p]) = NewOffset(p) /\ NewOffset(p) \in Int
    <2>1. CASE op[p].whence = "start"
      BY <1>1, <2>1 DEF Service!Target, NewOffset
    <2>2. CASE op[p].whence = "current"
      BY <1>1, <2>2 DEF Service!Target, NewOffset
    <2>3. CASE op[p].whence = "end"
      BY <1>1, <2>3, SizeAssumption DEF Service!Target, NewOffset
    <2> QED
      BY <1>1, <2>1, <2>2, <2>3 DEF Whences
  <1>4. CASE NewOffset(p) < 0
    <2>1. Return(p, 0, "error") /\ offset' = offset
      BY <1>4 DEF Move
    <2> QED
      BY <1>2, <1>3, <1>4, <2>1 DEF Service!Next, Service!Seek
  <1>5. CASE ~(NewOffset(p) < 0)
    <2>1. Return(p, NewOffset(p), "nil") /\ offset' = NewOffset(p) /\ NewOffset(p) >= 0
      BY <1>3, <1>5 DEF Move
    <2> QED
      BY <1>2, <1>3, <2>1 DEF Service!Next, Service!Seek
  <1> QED
    BY <1>4, <1>5

\* A call that begins is asked for.
LEMMA StartServes ==
  ASSUME IInv, IdleFits, NEW p \in Procs, NEW call \in Calls, NEW stage \in {"lock", "request"},
         Start(p, call, stage), call.kind # "none", call.kind = "Read" => call.off = 0
  PROVE Service!Next
  <1>1. /\ TypeOK /\ pc[p] = "idle" /\ op' = [op EXCEPT ![p] = call] /\ op[p].kind = "none"
        /\ pc' = [pc EXCEPT ![p] = stage] /\ res' = res /\ offset' = offset
    BY DEF IInv, Start, GoTo, IdleFits
  <1>2. AskedOf(call) = call
    <2>1. call.kind = "Read" => [call EXCEPT !.off = 0] = call
      BY DEF Calls
    <2> QED
      BY <2>1 DEF AskedOf
  <1>3. op'[p] = call /\ \A q \in Procs \ {p} : op'[q] = op[q] /\ pc'[q] = pc[q]
    BY <1>1 DEF TypeOK
  <1>4. pc[p] # "done" /\ pc'[p] # "done"
    BY <1>1 DEF TypeOK
  <1>5. \A q \in Procs : AnswerOf(pc'[q], op'[q], res'[q]) = AnswerOf(pc[q], op[q], res[q])
    BY <1>1, <1>3, <1>4 DEF AnswerOf
  <1>6. asked[p] = None /\ asked'[p] = call /\ asked' = [asked EXCEPT ![p] = call]
    <2>1. \A q \in Procs \ {p} : AskedOf(op'[q]) = AskedOf(op[q])
      BY <1>3
    <2>2. AskedOf(op[p]) = None /\ AskedOf(op'[p]) = call
      BY <1>1, <1>2, <1>3 DEF AskedOf
    <2> QED
      BY <2>1, <2>2, SeenShape
  <1>7. answer' = answer
    BY <1>5, SeenShape
  <1> QED
    BY <1>1, <1>6, <1>7 DEF Service!Next, Service!Ask

\* A caller takes the answer it got.
LEMMA EndServes ==
  ASSUME IInv, NEW p \in Procs, End(p)
  PROVE Service!Next
  <1>1. /\ TypeOK /\ pc[p] = "done" /\ op' = [op EXCEPT ![p] = NoCall] /\ offset' = offset
        /\ pc' = [pc EXCEPT ![p] = "idle"] /\ res' = [res EXCEPT ![p] = NoResult]
    BY DEF IInv, End, GoTo
  <1>2. /\ op'[p] = NoCall /\ pc'[p] = "idle"
        /\ \A q \in Procs \ {p} : op'[q] = op[q] /\ pc'[q] = pc[q] /\ res'[q] = res[q]
    BY <1>1 DEF TypeOK
  <1>3. AskedOf(op'[p]) = None /\ AnswerOf(pc'[p], op'[p], res'[p]) = None
    BY <1>2 DEF AskedOf, AnswerOf, NoCall, Call
  <1>4. asked' = [asked EXCEPT ![p] = None] /\ answer' = [answer EXCEPT ![p] = None]
    BY <1>2, <1>3, SeenShape
  <1>5. answer[p] # None
    <2>1. op[p].off \in Int /\ res[p] \in Outcomes
      BY <1>1, CallTyped DEF TypeOK
    <2>2. AnswerOf("done", op[p], res[p]) \in Answers
      BY <2>1 DEF AnswerOf, Answers, Outcomes
    <2> QED
      BY <1>1, <2>2, SeenShape, SeenAssumption
  <1> QED
    BY <1>1, <1>4, <1>5 DEF Service!Next, Service!Take

\* Every step of the reader is one of the service or none.
LEMMA StepServes ==
  IInv /\ IdleFits /\ KnewCut /\ [Next]_vars => Service!Next \/ UNCHANGED Service!vars
  <1> SUFFICES ASSUME IInv, IdleFits, KnewCut, [Next]_vars
               PROVE Service!Next \/ UNCHANGED Service!vars
    OBVIOUS
  <1>1. CASE UNCHANGED vars
    BY <1>1 DEF vars, locals, Service!vars, asked, answer
  <1>2. ASSUME NEW p \in Procs, NEW kind \in {"ReadAt", "Read", "Seek"}, NEW off \in Int,
               NEW len \in Nat, NEW whence \in Whences, NEW stage \in {"lock", "request"},
               Start(p, Call(kind, off, len, whence), stage), kind = "Read" => off = 0
        PROVE Service!Next
    <2> DEFINE call == Call(kind, off, len, whence)
    <2>1. call \in Calls /\ call.kind # "none" /\ (call.kind = "Read" => call.off = 0)
      BY <1>2 DEF Call, Calls
    <2> HIDE DEF call
    <2>2. Start(p, call, stage)
      BY <1>2 DEF call
    <2> QED
      BY <2>1, <2>2, StartServes
  <1>3. ASSUME NEW p \in Procs, Step(p) PROVE Service!Next \/ UNCHANGED Service!vars
    <2>1. /\ pc \in [Procs -> Stages] /\ size \in {None, ObjectSize}
      BY DEF IInv, TypeOK
    <2>2. CASE Lock(p)
      <3>1. pc'[p] # "done" /\ offset' = offset
        BY <2>1, <2>2 DEF Lock, GoTo
      <3> QED
        BY <1>3, <3>1, Silent
    <2>3. CASE LoadSize(p)
      <3>1. CASE size = None
        <4>1. pc'[p] # "done" /\ offset' = offset
          BY <2>1, <2>3, <3>1 DEF LoadSize, GoTo
        <4> QED
          BY <1>3, <4>1, Silent
      <3>2. CASE size # None
        <4>1. pc[p] = "size" /\ UseSize(p, ObjectSize) /\ offset' = offset
          BY <2>1, <2>3, <3>2 DEF LoadSize
        <4> QED
          BY <1>3, <4>1, SizeServes
      <3> QED
        BY <3>1, <3>2
    <2>4. CASE Resolve(p)
      <3>1. size' = ObjectSize
        BY <2>1, <2>4 DEF Resolve
      <3>2. pc[p] = "attributes" /\ UseSize(p, ObjectSize) /\ offset' = offset
        BY <2>4, <3>1 DEF Resolve
      <3> QED
        BY <1>3, <3>2, SizeServes
    <2>5. CASE ResolveFails(p)
      BY <1>3, <2>5, RefusalServes
    <2>6. CASE Request(p)
      BY <1>3, <2>6, RequestServes
    <2>7. CASE RequestFails(p) \/ Body(p)
      BY <1>3, <2>7, ResponseServes
    <2>8. CASE Header(p)
      <3>1. pc'[p] # "done" /\ offset' = offset
        BY <2>1, <2>8 DEF Header, GoTo
      <3> QED
        BY <1>3, <3>1, Silent
    <2>9. CASE Move(p)
      BY <1>3, <2>9, MoveServes
    <2> QED
      BY <1>3, <2>2, <2>3, <2>4, <2>5, <2>6, <2>7, <2>8, <2>9 DEF Step, Size, Transfer
  <1>4. CASE Next
    <2>1. PICK p \in Procs :
             \/ \E off \in Offsets, len \in Lengths : ReadAt(p, off, len)
             \/ \E len \in Lengths : Read(p, len)
             \/ \E s \in Seeks : Seek(p, s[1], s[2])
             \/ Step(p) \/ End(p)
      BY <1>4 DEF Next
    <2>2. CASE \E off \in Offsets, len \in Lengths : ReadAt(p, off, len)
      BY <1>2, <2>2, CallAssumption DEF ReadAt, Whences
    <2>3. CASE \E len \in Lengths : Read(p, len)
      BY <1>2, <2>3, CallAssumption DEF Read, Whences
    <2>4. CASE \E s \in Seeks : Seek(p, s[1], s[2])
      <3>1. PICK s \in Seeks : Seek(p, s[1], s[2])
        BY <2>4
      <3>2. s[1] \in Whences /\ s[2] \in Int
        BY SeekAssumption DEF Whences
      <3> QED
        BY <1>2, <3>1, <3>2 DEF Seek
    <2>5. CASE End(p)
      BY <2>5, EndServes
    <2> QED
      BY <1>3, <2>1, <2>2, <2>3, <2>4, <2>5
  <1> QED
    BY <1>1, <1>4

\* A reader shared by any number of goroutines, with its lock, its requests that may
\* break off and its size that comes from wherever it first turns up, is the
\* service that makes each call at one moment.
THEOREM ReaderRefinement == Safety => ReaderServiceSafety
  <1>1. Init => KnewCut /\ IdleFits
    BY DEF Init, KnewCut, IdleFits, NoCall, Call
  <1>2. IInv /\ (KnewCut /\ IdleFits) /\ [Next]_vars => (KnewCut /\ IdleFits)'
    BY KnewCutStep, IdleFitsStep
  <1>3. Init => Service!Init
    BY DEF Init, Service!Init, asked, answer, NoCall, Call
  <1>4. IInv /\ (KnewCut /\ IdleFits) /\ [Next]_vars => [Service!Next]_(Service!vars)
    BY StepServes
  <1> QED
    BY <1>1, <1>2, <1>3, <1>4, Invariance, PTL DEF Safety, ReaderServiceSafety, Service!Safety

=============================================================================
