------------------------------ MODULE VRTRead -------------------------------
(***************************************************************************)
(* VRTGeo.loc: SourceLRU and TileFetch as a VRT puts them together.  A     *)
(* goroutine that wants a pixel asks getSourceGeo for the source's GeoTIFF *)
(* and that GeoTIFF for the tile.  Meanwhile the LRU may evict the source, *)
(* another goroutine may open it again, as a second GeoTIFF with a group   *)
(* of its own, and the collector may finalize what is not referred to.     *)
(* All share one tile cache, under keys that begin with the resolved name. *)
(***************************************************************************)
EXTENDS TileFetch, Naturals, Sequences, SequencesExt

CONSTANTS
    Names,           \* source file names, as the VRT gives them
    Source,          \* of each name: its first SourceFilename element, which says
                     \* relativeToVRT, and whether a GDAL handler precedes the path
    Base,            \* vrtBaseURL: the path of the VRT
    MaxSources       \* maxSources

\* The properties are about a VRT whose path has a directory in it.
ASSUME BaseAssumption == Base \in Seq(STRING) /\ Len(Base) > 1
ASSUME SourceAssumption ==
    Source \in [Names -> [handler : BOOLEAN, relative : BOOLEAN, path : Seq(STRING)]]
ASSUME VRTAssumption ==
    /\ MaxSources \in Nat \ {0}
    /\ None \notin Names \cup Geos \cup {Failed}
    /\ Failed \notin Geos

VARIABLES
    stage, want, got, sourceReaders, sourceLRU, inflight, fileOf, recency,
    tile,            \* the tile each goroutine wants of its source
    refused          \* the goroutines that got an error instead of a GeoTIFF

LRU == INSTANCE SourceLRU WITH Files <- Names, pc <- stage

sources == <<stage, want, got, sourceReaders, sourceLRU, inflight, fileOf, recency>>
vrt == <<vars, sources, tile, refused>>

\* MUTANT of resolveVRTFilename: relativeToVRT is not heeded.
resolveAsWritten(n) == Source[n].path

\* Cut the handler off, put the directory of the VRT before a relative path; of
\* a VRT without one, its own name.
resolveVRTFilename(n) ==
    CASE Source[n].handler \/ ~Source[n].relative \/ Base = << >> -> Source[n].path
      [] OTHER -> (IF Len(Base) > 1 THEN Front(Base) ELSE Base) \o Source[n].path

VRTInit ==
    /\ Init
    /\ LRU!Init
    /\ tile = [p \in Procs |-> None]
    /\ refused = {}

-----------------------------------------------------------------------------

Ask(p, n, t) ==
    /\ LRU!Ask(p, n)
    /\ tile' = [tile EXCEPT ![p] = t]
    /\ UNCHANGED <<vars, refused>>

\* The GeoTIFF reads the object of the resolved name.
Open(p, g) == LRU!Open(p, g) /\ FileOf[g] = resolveVRTFilename(want[p])

\* MUTANT of Locate: what the LRU evicts is closed on the spot.
LocateClosing(p) ==
    /\ \/ LRU!Look(p) \/ LRU!RecheckHit(p) \/ LRU!RecheckMiss(p)
       \/ LRU!OpenFails(p) \/ (\E g \in Geos : Open(p, g))
       \/ LRU!PutCloses(p) \/ LRU!Finish(p)
    /\ UNCHANGED <<vars, tile, refused>>

\* getSourceGeo.
Locate(p) ==
    /\ \/ LRU!Look(p) \/ LRU!RecheckHit(p) \/ LRU!RecheckMiss(p)
       \/ LRU!OpenFails(p) \/ (\E g \in Geos : Open(p, g))
       \/ LRU!Put(p) \/ LRU!Finish(p)
    /\ UNCHANGED <<vars, tile, refused>>

\* getSourceGeo returned an error, and so does loc.
Refuse(p) ==
    /\ stage[p] = "use" /\ got[p] = Failed
    /\ p \notin refused
    /\ refused' = refused \cup {p}
    /\ UNCHANGED <<vars, sources, tile>>

\* srcGeo.AtCoord, down to getTileData.
ReadTile(p) ==
    /\ stage[p] = "use" /\ got[p] # Failed
    /\ Call(p, <<got[p], tile[p]>>)
    /\ UNCHANGED <<sources, tile, refused>>

Fetching(p) == (Enter(p) \/ Read(p) \/ Process(p)) /\ UNCHANGED <<sources, tile, refused>>

\* The tile was read: goroutine q looks after a neighbouring one.
Prefetch(p, q, t) ==
    /\ pc[p] = "done" /\ buf[p] # Failed
    /\ LRU!Prefetch(p, q)
    /\ tile' = [tile EXCEPT ![q] = t]
    /\ UNCHANGED <<vars, refused>>

\* loc returns, and with it goes the last use of the GeoTIFF.
Answer(p) ==
    /\ \/ Return(p) /\ UNCHANGED refused
       \/ p \in refused /\ refused' = refused \ {p} /\ UNCHANGED vars
    /\ LRU!Release(p)
    /\ tile' = [tile EXCEPT ![p] = None]

Background ==
    \/ (\E k \in Keys : Expire(k) \/ Prune(k)) /\ UNCHANGED <<sources, tile, refused>>
    \/ (\E g \in Geos : LRU!Finalize(g)) /\ UNCHANGED <<vars, tile, refused>>

VRTNext ==
    \/ \E p \in Procs, n \in Names, t \in Tiles : Ask(p, n, t)
    \/ \E p \in Procs : Locate(p) \/ Refuse(p) \/ ReadTile(p) \/ Fetching(p) \/ Answer(p)
    \/ \E p, q \in Procs, t \in Tiles : Prefetch(p, q, t)
    \/ Background

\* As in TileFetch: what can run does, but a slow read may hang.
Runs(p) ==
    \/ Locate(p) \/ Refuse(p) \/ ReadTile(p)
    \/ Steps(p) /\ UNCHANGED <<sources, tile, refused>>

VRTSafety == VRTInit /\ [][VRTNext]_vrt
VRTSpec == VRTSafety /\ \A p \in Procs : WF_vrt(Runs(p))

-----------------------------------------------------------------------------
(* Properties *)

\* The tile a source's name stands for: a relative name without a handler means
\* a file in the directory of the VRT.
TileOfName(r) ==
    LET s == Source[r[1]]
        inDirectory == s.relative /\ ~s.handler
    IN  <<"decoded", <<IF inDirectory THEN Front(Base) \o s.path ELSE s.path, r[2]>>>>

\* Whoever reads a tile reads it through an open GeoTIFF of the source it wants,
\* however long that takes: no eviction, and no request that ends earlier and
\* leaves a prefetch behind, has the finalizer close it under the read.
OpenWhileRead == \A p \in Procs : pc[p] # "idle" => fileOf[req[p][1]] = want[p]

\* A goroutine that asked for a tile of a source gets that tile of the file its
\* name stands for, or an error: no eviction, reopening, shared name or shared
\* cache gives it another's.
VRTServed ==
    \A p \in Procs : pc[p] = "done" => buf[p] \in {Failed, TileOfName(<<want[p], tile[p]>>)}

Waits(p) == stage[p] = "wait" \/ pc[p] = "wait"

\* The goroutine that runs the call it has joined, for a source or for a tile.
Runner(p) == IF stage[p] = "wait" THEN inflight[want[p]] ELSE inflightData[req[p]]

\* Two groups, one inside the other, and no deadlock: who has joined a call waits
\* for a goroutine that waits for nobody and is after the very same source, or
\* the same tile of the same GeoTIFF; so a read that hangs holds up only those
\* who want its tile.
NobodyStuck ==
    \A p \in Procs : Waits(p) =>
        /\ Runner(p) \in Procs /\ ~Waits(Runner(p))
        /\ want[Runner(p)] = want[p]
        /\ pc[p] = "wait" => got[Runner(p)] = got[p] /\ tile[Runner(p)] = tile[p]

vrtStatus == [p \in Procs |-> IF stage[p] = "idle" THEN "idle"
                              ELSE IF pc[p] = "done" \/ p \in refused THEN "answered"
                              ELSE "waiting"]
vrtRequest == [p \in Procs |-> IF stage[p] = "idle" THEN None ELSE <<want[p], tile[p]>>]
vrtAnswer == [p \in Procs |-> IF pc[p] = "done" THEN buf[p]
                              ELSE IF p \in refused THEN Failed ELSE None]

\* A name's tile is slow if a GeoTIFF of its file reads it slowly.
SlowNames == {r \in Names \X Tiles :
                 \E g \in Geos : /\ FileOf[g] = resolveVRTFilename(r[1])
                                /\ <<g, r[2]>> \in SlowRequests}

VRTService == INSTANCE TileService WITH
                 Geos <- Names, SlowRequests <- SlowNames, TileOf <- TileOfName,
                 status <- vrtStatus, request <- vrtRequest, answer <- vrtAnswer

\* The safety part of that promise.
VRTServiceSafety == VRTService!Safety

\* A VRT promises of its sources, by name, what a GeoTIFF promises of its tiles:
\* the right tile or an error, in the end, however slow other sources are.
VRTServiceSpec == VRTService!Spec

\* What ties the parts together: a goroutine that reads has a GeoTIFF in hand and
\* reads the tile it came for, one that was refused has none, and an open GeoTIFF
\* reads the file its source's name resolves to.
LinkInv ==
    /\ tile \in [Procs -> Tiles \cup {None}]
    /\ \A p \in Procs :
          /\ stage[p] # "idle" => tile[p] \in Tiles
          /\ pc[p] # "idle" =>
                stage[p] = "use" /\ got[p] \in Geos /\ req[p] = <<got[p], tile[p]>>
          /\ p \in refused => stage[p] = "use" /\ got[p] = Failed
    /\ \A g \in Geos, n \in Names : fileOf[g] = n => FileOf[g] = resolveVRTFilename(n)
=============================================================================
