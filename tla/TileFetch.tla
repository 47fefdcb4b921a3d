----------------------------- MODULE TileFetch -----------------------------
(***************************************************************************)
(* GeoTIFF.getTileData: how goroutines that want tiles at the same time    *)
(* share one cache and one read per tile.  Several GeoTIFF values (the     *)
(* sources of a VRT) share one tileCache under keys that name the file,    *)
(* while each has an inflightData group of its own keyed by the tile       *)
(* number.  The cache is looked up before the group is entered and not     *)
(* again inside it.  ccache and singleflight are libraries: tileCache and  *)
(* inflightData are what src/ relies on of them.                           *)
(***************************************************************************)
CONSTANTS
    Procs,           \* request goroutines and neighbour-prefetch goroutines
    Geos,            \* GeoTIFF values, each with its own inflightData group
    Tiles,           \* tile numbers
    FileOf,          \* of each GeoTIFF: the file it reads and its keys name
    SlowRequests,    \* <<geo, tile>>s whose reads may never come back
    None,            \* nobody, nothing
    Failed           \* an error instead of a tile

ASSUME NoneAssumption == None \notin Procs
ASSUME SlowAssumption == SlowRequests \subseteq Geos \X Tiles

VARIABLES
    pc,              \* where each goroutine is in getTileData
    req,             \* the <<geo, tile>> it wants
    buf,             \* the data it holds: raw, decoded, Failed or None
    tileCache,       \* of each key: None or the cached item
    inflightData     \* of each <<geo, tile>>: the goroutine running it, or None

vars == <<pc, req, buf, tileCache, inflightData>>

Requests == Geos \X Tiles

\* What a request is about: a tile of the file its GeoTIFF reads.
Content(r) == <<FileOf[r[1]], r[2]>>

\* MUTANT of Key: cache keys without cacheKeyPrefix.
KeyUnprefixed(r) == r[2]

\* The cache key.  The prefix names the file and ends in "#", the tile number
\* is only digits, so a key determines both.
Key(r) == <<FileOf[r[1]], r[2]>>
Keys == {Key(r) : r \in Requests}

\* The bytes of a tile as read and inflated, and its samples.
Raw(r) == <<"raw", Content(r)>>
Decoded(r) == <<"decoded", Content(r)>>

Item(v, expired) == [value |-> v, expired |-> expired]
Fresh(k) == tileCache[k] # None /\ ~tileCache[k].expired

\* Inside the function given to inflightData.Do.
Leading == {"fetch", "decode", "store", "finish"}
Stages == {"idle", "lookup", "enter", "wait", "done"} \cup Leading

Init ==
    /\ pc = [p \in Procs |-> "idle"]
    /\ req = [p \in Procs |-> None]
    /\ buf = [p \in Procs |-> None]
    /\ tileCache = [k \in Keys |-> None]
    /\ inflightData = [r \in Requests |-> None]

GoTo(p, stage) == pc' = [pc EXCEPT ![p] = stage]

-----------------------------------------------------------------------------
(* The steps of one goroutine *)

Call(p, r) ==
    /\ pc[p] = "idle"
    /\ req' = [req EXCEPT ![p] = r]
    /\ GoTo(p, "lookup")
    /\ UNCHANGED <<buf, tileCache, inflightData>>

Hit(p) ==
    /\ pc[p] = "lookup"
    /\ Fresh(Key(req[p]))
    /\ buf' = [buf EXCEPT ![p] = tileCache[Key(req[p])].value]
    /\ GoTo(p, "done")
    /\ UNCHANGED <<req, tileCache, inflightData>>

Miss(p) ==
    /\ pc[p] = "lookup"
    /\ ~Fresh(Key(req[p]))
    /\ GoTo(p, "enter")
    /\ UNCHANGED <<req, buf, tileCache, inflightData>>

\* MUTANT of DoLead: tiles read without the singleflight group.
DoLeadAlways(p) ==
    /\ pc[p] = "enter"
    /\ inflightData' = [inflightData EXCEPT ![req[p]] = p]
    /\ GoTo(p, "fetch")
    /\ UNCHANGED <<req, buf, tileCache>>

\* inflightData.Do with no call for this tile under way: run the function.
DoLead(p) ==
    /\ pc[p] = "enter"
    /\ inflightData[req[p]] = None
    /\ inflightData' = [inflightData EXCEPT ![req[p]] = p]
    /\ GoTo(p, "fetch")
    /\ UNCHANGED <<req, buf, tileCache>>

\* inflightData.Do while another goroutine runs it: wait for its result.
DoJoin(p) ==
    /\ pc[p] = "enter"
    /\ inflightData[req[p]] # None
    /\ GoTo(p, "wait")
    /\ UNCHANGED <<req, buf, tileCache, inflightData>>

Fetch(p) ==
    /\ pc[p] = "fetch"
    /\ buf' = [buf EXCEPT ![p] = Raw(req[p])]
    /\ GoTo(p, "decode")
    /\ UNCHANGED <<req, tileCache, inflightData>>

\* MUTANT of FetchFails: the outcome of a failed read is cached too.
FetchFailsStored(p) ==
    /\ pc[p] = "fetch"
    /\ buf' = [buf EXCEPT ![p] = Failed]
    /\ GoTo(p, "store")
    /\ UNCHANGED <<req, tileCache, inflightData>>

FetchFails(p) ==
    /\ pc[p] = "fetch"
    /\ buf' = [buf EXCEPT ![p] = Failed]
    /\ GoTo(p, "finish")
    /\ UNCHANGED <<req, tileCache, inflightData>>

\* Byte order and predictor are undone on the slice itself.
Decode(p) ==
    /\ pc[p] = "decode"
    /\ buf' = [buf EXCEPT ![p] = Decoded(req[p])]
    /\ GoTo(p, "store")
    /\ UNCHANGED <<req, tileCache, inflightData>>

\* An unsupported sample format or bit depth.
DecodeFails(p) ==
    /\ pc[p] = "decode"
    /\ buf' = [buf EXCEPT ![p] = Failed]
    /\ GoTo(p, "finish")
    /\ UNCHANGED <<req, tileCache, inflightData>>

Store(p) ==
    /\ pc[p] = "store"
    /\ tileCache' = [tileCache EXCEPT ![Key(req[p])] = Item(buf[p], FALSE)]
    /\ GoTo(p, "finish")
    /\ UNCHANGED <<req, buf, inflightData>>

\* MUTANT of Sharing: the result goes to the caller only.
SharingNone(p) == {p}

\* Who gets p's result: itself and everyone who joined its call.
Sharing(p) == {p} \cup {q \in Procs : pc[q] = "wait" /\ req[q] = req[p]}

\* The function returned: the call leaves the group and hands out its result.
Finish(p) ==
    /\ pc[p] = "finish"
    /\ inflightData' = [inflightData EXCEPT ![req[p]] = None]
    /\ buf' = [q \in Procs |-> IF q \in Sharing(p) THEN buf[p] ELSE buf[q]]
    /\ pc' = [q \in Procs |-> IF q \in Sharing(p) THEN "done" ELSE pc[q]]
    /\ UNCHANGED <<req, tileCache>>

Return(p) ==
    /\ pc[p] = "done"
    /\ req' = [req EXCEPT ![p] = None]
    /\ buf' = [buf EXCEPT ![p] = None]
    /\ GoTo(p, "idle")
    /\ UNCHANGED <<tileCache, inflightData>>

-----------------------------------------------------------------------------
(* The cache on its own: an item passes its TTL, or is pruned for room *)

Expire(k) ==
    /\ tileCache[k] # None
    /\ tileCache' = [tileCache EXCEPT ![k].expired = TRUE]
    /\ UNCHANGED <<pc, req, buf, inflightData>>

Prune(k) ==
    /\ tileCache[k] # None
    /\ tileCache' = [tileCache EXCEPT ![k] = None]
    /\ UNCHANGED <<pc, req, buf, inflightData>>

Read(p) == Fetch(p) \/ FetchFails(p)
Process(p) == Decode(p) \/ DecodeFails(p) \/ Store(p) \/ Finish(p)
Enter(p) == Hit(p) \/ Miss(p) \/ DoLead(p) \/ DoJoin(p)

Next ==
    \/ \E p \in Procs, r \in Requests : Call(p, r)
    \/ \E p \in Procs : Enter(p) \/ Read(p) \/ Process(p) \/ Return(p)
    \/ \E k \in Keys : Expire(k) \/ Prune(k)

Steps(p) == Enter(p) \/ Process(p) \/ (Read(p) /\ req[p] \notin SlowRequests)

\* A runnable goroutine runs on, and the store answers or refuses a read, of a
\* slow request perhaps never: src/ sets no deadline on one.
Fairness == \A p \in Procs : WF_vars(Steps(p))

Safety == Init /\ [][Next]_vars
Spec == Safety /\ Fairness

-----------------------------------------------------------------------------
(* Properties *)

\* The types.  tileCache holds decoded tiles only: loc's type switch knows no
\* other value.
TypeOK ==
    /\ pc \in [Procs -> Stages]
    /\ req \in [Procs -> Requests \cup {None}]
    /\ \A p \in Procs : pc[p] # "idle" => req[p] \in Requests
    /\ buf \in [Procs -> {None, Failed} \cup {Raw(r) : r \in Requests}
                                        \cup {Decoded(r) : r \in Requests}]
    /\ tileCache \in [Keys -> {None} \cup
                            [value : {Decoded(r) : r \in Requests}, expired : BOOLEAN]]
    /\ inflightData \in [Requests -> Procs \cup {None}]

\* getTileData returns an error or the decoded samples of the tile asked for,
\* of the file of the GeoTIFF it was called on: never bytes still to be
\* decoded, never another source's tile out of the shared cache.
ServedTileCorrect ==
    \A p \in Procs : pc[p] = "done" => buf[p] \in {Failed, Decoded(req[p])}

\* "for a given tile, only one goroutine will perform the I/O and processing":
\* no two goroutines at once, of one GeoTIFF.
OneFetchPerTile ==
    \A p, q \in Procs :
        pc[p] \in Leading /\ pc[q] \in Leading /\ req[p] = req[q] => p = q

\* The cached item of a key is the decoded tile the key names.
CacheCorrect ==
    \A r \in Requests :
        tileCache[Key(r)] # None => tileCache[Key(r)].value = Decoded(r)

\* What a goroutine holds fits the stage it is in.
BufferFitsStage ==
    \A p \in Procs :
        /\ pc[p] = "decode" => buf[p] = Raw(req[p])
        /\ pc[p] = "store" => buf[p] = Decoded(req[p])
        /\ pc[p] \in {"finish", "done"} => buf[p] \in {Failed, Decoded(req[p])}

\* The group's entry of a tile is the goroutine that runs its function, and
\* whoever waits for a tile has such a goroutine to wait for.
FlightHasLeader ==
    /\ \A p \in Procs : pc[p] \in Leading => inflightData[req[p]] = p
    /\ \A r \in Requests : inflightData[r] # None =>
            pc[inflightData[r]] \in Leading /\ req[inflightData[r]] = r
    /\ \A p \in Procs : pc[p] = "wait" => inflightData[req[p]] # None

\* The inductive invariant behind ServedTileCorrect and OneFetchPerTile.
IInv == TypeOK /\ CacheCorrect /\ BufferFitsStage /\ FlightHasLeader

-----------------------------------------------------------------------------
(* The cache and the groups keep the promise of TileService. *)

status == [p \in Procs |-> CASE pc[p] = "idle" -> "idle"
                             [] pc[p] = "done" -> "answered"
                             [] OTHER -> "waiting"]

answer == [p \in Procs |-> IF pc[p] = "done" THEN buf[p] ELSE None]

Service == INSTANCE TileService WITH
              status <- status, request <- req, answer <- answer, TileOf <- Decoded

\* Everything getTileData does is, to its callers, asking and being answered
\* with the right tile or an error.
ServiceSafety == Service!Safety

\* ... and being answered in the end, even while the reads of other tiles hang:
\* one stuck read holds up only those who want that tile.
ServiceSpec == Service!Spec
=============================================================================
