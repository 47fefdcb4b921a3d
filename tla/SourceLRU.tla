----------------------------- MODULE SourceLRU -----------------------------
(***************************************************************************)
(* VRTGeo.getSourceGeo: the bounded set of source files a VRT keeps open.  *)
(* A goroutine that needs a source looks it up under mu, enters the        *)
(* inflight group of the file name, looks it up again, opens the file and  *)
(* puts it first in the LRU list, which drops what is past maxSources.  A  *)
(* dropped GeoTIFF is closed by its finalizer when no goroutine refers to  *)
(* it any more; a neighbour prefetch may hold it longer than the request   *)
(* that started it.  recency is a history variable, not in the code.       *)
(***************************************************************************)
EXTENDS RecencyList

CONSTANTS
    Procs,           \* request goroutines and neighbour-prefetch goroutines
    Files,           \* source file names of the VRT
    Geos,            \* identities of GeoTIFF values, reused once finalized
    MaxSources,      \* maxSources
    None,            \* nobody, nothing
    Failed           \* an error instead of a GeoTIFF

ASSUME MaxAssumption == MaxSources \in Nat \ {0}
ASSUME NoneAssumption == None \notin Procs \cup Files \cup Geos \cup {Failed}
ASSUME FailedAssumption == Failed \notin Geos

VARIABLES
    pc,              \* where each goroutine is in getSourceGeo
    want,            \* the file it needs
    got,             \* the GeoTIFF it has, Failed or None
    sourceReaders,   \* of each file: the GeoTIFF in the LRU, or None
    sourceLRU,       \* the files in the LRU, most recently used first
    inflight,        \* of each file: the goroutine opening it, or None
    fileOf,          \* of each GeoTIFF: the file it has open, None if closed
    recency          \* history: every file got so far, most recent first

lru == <<sourceReaders, sourceLRU, recency>>
vars == <<pc, want, got, lru, inflight, fileOf>>

Leading == {"recheck", "open", "put", "finish"}
Stages == {"idle", "peek", "enter", "wait", "use"} \cup Leading

GoTo(p, stage) == pc' = [pc EXCEPT ![p] = stage]

Init ==
    /\ pc = [p \in Procs |-> "idle"]
    /\ want = [p \in Procs |-> None]
    /\ got = [p \in Procs |-> None]
    /\ sourceReaders = [f \in Files |-> None]
    /\ sourceLRU = << >>
    /\ inflight = [f \in Files |-> None]
    /\ fileOf = [g \in Geos |-> None]
    /\ recency = << >>

-----------------------------------------------------------------------------
(* The LRU under mu *)

\* MUTANT of lruGet: a hit leaves the list as it is.
lruGetInPlace(f) ==
    /\ recency' = Touch(recency, f)
    /\ UNCHANGED <<sourceReaders, sourceLRU>>

\* lruGet of a file that is in the map.
lruGet(f) ==
    /\ sourceLRU' = Touch(sourceLRU, f)
    /\ recency' = Touch(recency, f)
    /\ UNCHANGED sourceReaders

\* MUTANT of lruPut: an evicted source keeps its entry in the map.
lruPutKeepsMap(f, g) ==
    /\ recency' = Touch(recency, f)
    /\ sourceLRU' = Trim(Touch(sourceLRU, f), MaxSources)
    /\ sourceReaders' = [sourceReaders EXCEPT ![f] = g]

\* Replace the GeoTIFF of a file that is there; insert one that is not and
\* evict from the back of the list what is past MaxSources.
lruPut(f, g) ==
    /\ recency' = Touch(recency, f)
    /\ IF sourceReaders[f] # None
       THEN /\ sourceLRU' = Touch(sourceLRU, f)
            /\ sourceReaders' = [sourceReaders EXCEPT ![f] = g]
       ELSE /\ sourceLRU' = Trim(PushFront(sourceLRU, f), MaxSources)
            /\ sourceReaders' =
                  [x \in Files |-> IF x = f THEN g
                                   ELSE IF x \in Elements(sourceLRU') THEN sourceReaders[x]
                                   ELSE None]

-----------------------------------------------------------------------------
(* The steps of one goroutine *)

Ask(p, f) ==
    /\ pc[p] = "idle"
    /\ want' = [want EXCEPT ![p] = f]
    /\ GoTo(p, "peek")
    /\ UNCHANGED <<got, lru, inflight, fileOf>>

PeekHit(p) ==
    /\ pc[p] = "peek"
    /\ sourceReaders[want[p]] # None
    /\ lruGet(want[p])
    /\ got' = [got EXCEPT ![p] = sourceReaders[want[p]]]
    /\ GoTo(p, "use")
    /\ UNCHANGED <<want, inflight, fileOf>>

PeekMiss(p) ==
    /\ pc[p] = "peek"
    /\ sourceReaders[want[p]] = None
    /\ GoTo(p, "enter")
    /\ UNCHANGED <<want, got, lru, inflight, fileOf>>

\* MUTANT of DoLead: open at once, trusting the first lookup.
DoLeadNoRecheck(p) ==
    /\ pc[p] = "enter"
    /\ inflight[want[p]] = None
    /\ inflight' = [inflight EXCEPT ![want[p]] = p]
    /\ GoTo(p, "open")
    /\ UNCHANGED <<want, got, lru, fileOf>>

\* inflight.Do with no call for this file under way.
DoLead(p) ==
    /\ pc[p] = "enter"
    /\ inflight[want[p]] = None
    /\ inflight' = [inflight EXCEPT ![want[p]] = p]
    /\ GoTo(p, "recheck")
    /\ UNCHANGED <<want, got, lru, fileOf>>

\* inflight.Do while another goroutine opens the file.
DoJoin(p) ==
    /\ pc[p] = "enter"
    /\ inflight[want[p]] # None
    /\ GoTo(p, "wait")
    /\ UNCHANGED <<want, got, lru, inflight, fileOf>>

RecheckHit(p) ==
    /\ pc[p] = "recheck"
    /\ sourceReaders[want[p]] # None
    /\ lruGet(want[p])
    /\ got' = [got EXCEPT ![p] = sourceReaders[want[p]]]
    /\ GoTo(p, "finish")
    /\ UNCHANGED <<want, inflight, fileOf>>

RecheckMiss(p) ==
    /\ pc[p] = "recheck"
    /\ sourceReaders[want[p]] = None
    /\ GoTo(p, "open")
    /\ UNCHANGED <<want, got, lru, inflight, fileOf>>

\* readerFactory and OpenWithCache, outside mu.
Open(p, g) ==
    /\ pc[p] = "open"
    /\ fileOf[g] = None
    /\ fileOf' = [fileOf EXCEPT ![g] = want[p]]
    /\ got' = [got EXCEPT ![p] = g]
    /\ GoTo(p, "put")
    /\ UNCHANGED <<want, lru, inflight>>

OpenFails(p) ==
    /\ pc[p] = "open"
    /\ got' = [got EXCEPT ![p] = Failed]
    /\ GoTo(p, "finish")
    /\ UNCHANGED <<want, lru, inflight, fileOf>>

\* MUTANT of Put: what is evicted is closed on the spot.
PutCloses(p) ==
    /\ pc[p] = "put"
    /\ lruPut(want[p], got[p])
    /\ fileOf' = [g \in Geos |->
                     IF \E f \in Files : sourceReaders[f] = g /\ sourceReaders'[f] # g
                     THEN None ELSE fileOf[g]]
    /\ GoTo(p, "finish")
    /\ UNCHANGED <<want, got, inflight>>

Put(p) ==
    /\ pc[p] = "put"
    /\ lruPut(want[p], got[p])
    /\ GoTo(p, "finish")
    /\ UNCHANGED <<want, got, inflight, fileOf>>

\* Who gets p's result: itself and everyone who joined its call.
Sharing(p) == {p} \cup {q \in Procs : pc[q] = "wait" /\ want[q] = want[p]}

\* MUTANT of Finish: an error is returned without leaving the group.
FinishStays(p) ==
    /\ pc[p] = "finish"
    /\ inflight' = IF got[p] = Failed THEN inflight
                   ELSE [inflight EXCEPT ![want[p]] = None]
    /\ got' = [q \in Procs |-> IF q \in Sharing(p) THEN got[p] ELSE got[q]]
    /\ pc' = [q \in Procs |-> IF q \in Sharing(p) THEN "use" ELSE pc[q]]
    /\ UNCHANGED <<want, lru, fileOf>>

\* The function returned: everyone who shares the call has its result.
Finish(p) ==
    /\ pc[p] = "finish"
    /\ inflight' = [inflight EXCEPT ![want[p]] = None]
    /\ got' = [q \in Procs |-> IF q \in Sharing(p) THEN got[p] ELSE got[q]]
    /\ pc' = [q \in Procs |-> IF q \in Sharing(p) THEN "use" ELSE pc[q]]
    /\ UNCHANGED <<want, lru, fileOf>>

\* loc starts a background prefetch on the same GeoTIFF, run by goroutine q.
Prefetch(p, q) ==
    /\ pc[p] = "use" /\ got[p] # Failed
    /\ pc[q] = "idle"
    /\ want' = [want EXCEPT ![q] = want[p]]
    /\ got' = [got EXCEPT ![q] = got[p]]
    /\ GoTo(q, "use")
    /\ UNCHANGED <<lru, inflight, fileOf>>

\* The read is over, or there was an error instead of a GeoTIFF.
Release(p) ==
    /\ pc[p] = "use"
    /\ want' = [want EXCEPT ![p] = None]
    /\ got' = [got EXCEPT ![p] = None]
    /\ GoTo(p, "idle")
    /\ UNCHANGED <<lru, inflight, fileOf>>

-----------------------------------------------------------------------------
(* The garbage collector runs finalizeRemote on what nothing refers to. *)

Reachable(g) ==
    \/ \E f \in Files : sourceReaders[f] = g
    \/ \E p \in Procs : got[p] = g

Finalize(g) ==
    /\ fileOf[g] # None
    /\ ~Reachable(g)
    /\ fileOf' = [fileOf EXCEPT ![g] = None]
    /\ UNCHANGED <<pc, want, got, lru, inflight>>

Look(p) == PeekHit(p) \/ PeekMiss(p) \/ DoLead(p) \/ DoJoin(p)
OpenSource(p) == OpenFails(p) \/ \E g \in Geos : Open(p, g)
Call(p) == RecheckHit(p) \/ RecheckMiss(p) \/ OpenSource(p) \/ Put(p) \/ Finish(p)

Next ==
    \/ \E p \in Procs, f \in Files : Ask(p, f)
    \/ \E p \in Procs : Look(p) \/ Call(p) \/ Release(p)
    \/ \E p, q \in Procs : Prefetch(p, q)
    \/ \E g \in Geos : Finalize(g)

\* A runnable goroutine runs on; opening a source ends, with or without it.
Fairness == \A p \in Procs : WF_vars(Look(p) \/ Call(p))

Safety == Init /\ [][Next]_vars
Spec == Safety /\ Fairness

-----------------------------------------------------------------------------
(* Properties *)

TypeOK ==
    /\ pc \in [Procs -> Stages]
    /\ want \in [Procs -> Files \cup {None}]
    /\ \A p \in Procs : pc[p] # "idle" => want[p] \in Files
    /\ got \in [Procs -> Geos \cup {None, Failed}]
    /\ sourceReaders \in [Files -> Geos \cup {None}]
    /\ sourceLRU \in Seq(Files)
    /\ inflight \in [Files -> Procs \cup {None}]
    /\ fileOf \in [Geos -> Files \cup {None}]

\* The map and the list of the LRU name the same files, each once, and at most
\* MaxSources of them: no file is lost from one and kept by the other.
LRUConsistent ==
    /\ Len(sourceLRU) <= MaxSources
    /\ NoDup(sourceLRU)
    /\ \A f \in Files : sourceReaders[f] # None <=> f \in Elements(sourceLRU)

\* The list holds, in order, the MaxSources files used most recently.
LRUIsMostRecent == sourceLRU = Trim(recency, MaxSources)

\* "it never closes a handle mid-decode": whoever has a GeoTIFF has an open one,
\* of the file it asked for, whatever was evicted and reopened meanwhile; and
\* the LRU hands out nothing that is closed or of another file.
HandlesOpen ==
    /\ \A p \in Procs : got[p] \in Geos => fileOf[got[p]] = want[p]
    /\ \A f \in Files : sourceReaders[f] # None => fileOf[sourceReaders[f]] = f

\* A file is opened by one goroutine at a time, and never while the LRU has it:
\* the second lookup, inside the group, leaves no window for it.
OpenOnlyWhenAbsent ==
    \A p \in Procs : pc[p] \in {"open", "put"} =>
        /\ sourceReaders[want[p]] = None
        /\ \A q \in Procs : pc[q] \in {"open", "put"} /\ want[q] = want[p] => q = p

\* Whoever opens a file runs the group's call for it, and whoever waits for a
\* file has such a goroutine to wait for.
FlightHasLeader ==
    /\ \A p \in Procs : pc[p] \in Leading => inflight[want[p]] = p
    /\ \A f \in Files : inflight[f] # None =>
            pc[inflight[f]] \in Leading /\ want[inflight[f]] = f
    /\ \A p \in Procs : pc[p] = "wait" => inflight[want[p]] # None

\* A goroutine has a GeoTIFF or an error from the moment it got one until it is
\* done with it, and a GeoTIFF when it calls lruPut.
GotFitsStage ==
    \A p \in Procs :
        /\ pc[p] \in {"idle", "peek", "enter", "wait", "recheck", "open"} => got[p] = None
        /\ pc[p] = "put" => got[p] \in Geos
        /\ pc[p] \in {"finish", "use"} => got[p] \in Geos \cup {Failed}

\* The history is what its name says.
RecencyTyped == recency \in Seq(Files) /\ NoDup(recency)

\* The inductive invariant behind the properties above.
IInv ==
    /\ TypeOK /\ RecencyTyped /\ LRUConsistent /\ LRUIsMostRecent /\ HandlesOpen
    /\ OpenOnlyWhenAbsent /\ FlightHasLeader /\ GotFitsStage

\* Asking for a source ends, with its GeoTIFF or an error.
EveryAskAnswered == \A p \in Procs : pc[p] = "peek" ~> pc[p] = "use"
=============================================================================
