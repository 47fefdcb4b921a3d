---------------------------- MODULE RemoteDecode ----------------------------
(***************************************************************************)
(* getLZWTileData: LZW tiles, decoded by libtiff.  A file on disk libtiff  *)
(* opens for each tile and closes again.  Of a remote file the first       *)
(* goroutine to need a tile opens a libtiff handle for the GeoTIFF         *)
(* under remoteTIFFMu and registers the reader that serves the handle's    *)
(* reads.  Each then reads its tile's bytes outside any lock and, under    *)
(* readTIFFMu, lends them to the handle's entry in the registry, decodes,  *)
(* and takes them back.  The finalizer of a GeoTIFF that nobody refers to  *)
(* closes its handle.  A handle and its registry id are one number here.   *)
(***************************************************************************)
EXTENDS Naturals

CONSTANTS
    Procs,           \* goroutines
    Geos,            \* identities of GeoTIFF values, reused once finalized
    LocalGeos,       \* those of files on disk
    Tiles,           \* tile numbers
    CutTiles,        \* tiles whose bytes the end of the object cuts off
    ChunkedTiles,    \* tiles longer than a chunk, with more than one request allowed
    SlowTiles,       \* tiles whose first read may never come back
    MaxHandles,      \* bound on the handles registered in all
    None,            \* nobody, nothing
    Failed,          \* an error instead of a tile
    Garbage          \* samples decoded from bytes nobody read

Handles == 1..MaxHandles
Requests == Geos \X Tiles

\* The bytes of a request's tile, all of them or with nothing past the cut.
Read(r, whole) == [of |-> r, whole |-> whole]
Reads == [of : Requests, whole : BOOLEAN]

Entry(b) == [buf |-> b]

ASSUME HandlesAssumption == MaxHandles \in Nat
ASSUME NoneAssumption == None \notin Procs \cup Handles \cup Requests
ASSUME EntryAssumption == \A b \in Reads \cup {None} : Entry(b) # None
ASSUME CutAssumption == CutTiles \subseteq Tiles /\ ChunkedTiles \subseteq Tiles
ASSUME OutcomeAssumption == Failed \notin Requests /\ Garbage \notin Requests \cup {Failed}

VARIABLES
    pc,              \* where each goroutine is in getLZWTileDataFromBytes
    req,             \* the <<geo, tile>> it decodes
    handle,          \* its copy of the GeoTIFF's handle
    prefetch,        \* the bytes it read ahead, or None
    raw,             \* what it got: the tile asked for, Failed, Garbage, None
    remoteTIFF,      \* of each GeoTIFF: its handle, or None
    remoteTIFFMu,    \* of each GeoTIFF: who holds the lock of the handle
    readTIFFMu,      \* of each GeoTIFF: who holds the decode lock
    remoteRegistry,  \* of each id: None or an entry with the bytes lent to it
    remoteIDCounter, \* ids given out
    open             \* the handles libtiff has open

locals == <<pc, req, handle, prefetch, raw>>
shared == <<remoteTIFF, remoteTIFFMu, readTIFFMu, remoteRegistry, remoteIDCounter, open>>
vars == <<locals, shared>>

geo(p) == req[p][1]
tile(p) == req[p][2]

Using == {"prefetch", "lock", "decode", "clear"}
Stages == {"idle", "file", "handle", "check", "opening", "done"} \cup Using

Init ==
    /\ pc = [p \in Procs |-> "idle"]
    /\ req = [p \in Procs |-> None]
    /\ handle = [p \in Procs |-> None]
    /\ prefetch = [p \in Procs |-> None]
    /\ raw = [p \in Procs |-> None]
    /\ remoteTIFF = [g \in Geos |-> None]
    /\ remoteTIFFMu = [g \in Geos |-> None]
    /\ readTIFFMu = [g \in Geos |-> None]
    /\ remoteRegistry = [h \in Handles |-> None]
    /\ remoteIDCounter = 0
    /\ open = {}

GoTo(p, stage) == pc' = [pc EXCEPT ![p] = stage]

-----------------------------------------------------------------------------
(* The handle, under remoteTIFFMu *)

\* inflightData lets one goroutine at a time ask for a tile.
Call(p, r) ==
    /\ pc[p] = "idle"
    /\ \A q \in Procs : req[q] # r
    /\ req' = [req EXCEPT ![p] = r]
    /\ GoTo(p, IF r[1] \in LocalGeos THEN "file" ELSE "handle")
    /\ UNCHANGED <<handle, prefetch, raw, shared>>

\* MUTANT of LockHandle: the handle is looked at without the lock.
LockHandleNot(p) ==
    /\ pc[p] = "handle"
    /\ GoTo(p, "check")
    /\ UNCHANGED <<req, handle, prefetch, raw, shared>>

LockHandle(p) ==
    /\ pc[p] = "handle"
    /\ remoteTIFFMu[geo(p)] = None
    /\ remoteTIFFMu' = [remoteTIFFMu EXCEPT ![geo(p)] = p]
    /\ GoTo(p, "check")
    /\ UNCHANGED <<req, handle, prefetch, raw>>
    /\ UNCHANGED <<remoteTIFF, readTIFFMu, remoteRegistry, remoteIDCounter, open>>

UnlockHandle(p) == remoteTIFFMu' = [remoteTIFFMu EXCEPT ![geo(p)] = None]

UseHandle(p) ==
    /\ pc[p] = "check"
    /\ remoteTIFF[geo(p)] # None
    /\ handle' = [handle EXCEPT ![p] = remoteTIFF[geo(p)]]
    /\ UnlockHandle(p)
    /\ GoTo(p, "prefetch")
    /\ UNCHANGED <<req, prefetch, raw>>
    /\ UNCHANGED <<remoteTIFF, readTIFFMu, remoteRegistry, remoteIDCounter, open>>

\* MUTANT of SizeFails: an error returned with the lock held.
SizeFailsLocked(p) ==
    /\ pc[p] = "check"
    /\ remoteTIFF[geo(p)] = None
    /\ raw' = [raw EXCEPT ![p] = Failed]
    /\ GoTo(p, "done")
    /\ UNCHANGED <<req, handle, prefetch, shared>>

\* No handle yet, and the reader cannot tell the file's size.
SizeFails(p) ==
    /\ pc[p] = "check"
    /\ remoteTIFF[geo(p)] = None
    /\ raw' = [raw EXCEPT ![p] = Failed]
    /\ UnlockHandle(p)
    /\ GoTo(p, "done")
    /\ UNCHANGED <<req, handle, prefetch>>
    /\ UNCHANGED <<remoteTIFF, readTIFFMu, remoteRegistry, remoteIDCounter, open>>

\* No handle yet: registerRemoteReader, then TIFFClientOpen reads the header
\* through the new entry.
Register(p) ==
    /\ pc[p] = "check"
    /\ remoteTIFF[geo(p)] = None
    /\ remoteIDCounter < MaxHandles
    /\ remoteIDCounter' = remoteIDCounter + 1
    /\ remoteRegistry' = [remoteRegistry EXCEPT ![remoteIDCounter'] = Entry(None)]
    /\ handle' = [handle EXCEPT ![p] = remoteIDCounter']
    /\ GoTo(p, "opening")
    /\ UNCHANGED <<req, prefetch, raw>>
    /\ UNCHANGED <<remoteTIFF, remoteTIFFMu, readTIFFMu, open>>

ClientOpen(p) ==
    /\ pc[p] = "opening"
    /\ open' = open \cup {handle[p]}
    /\ remoteTIFF' = [remoteTIFF EXCEPT ![geo(p)] = handle[p]]
    /\ UnlockHandle(p)
    /\ GoTo(p, "prefetch")
    /\ UNCHANGED <<req, handle, prefetch, raw>>
    /\ UNCHANGED <<readTIFFMu, remoteRegistry, remoteIDCounter>>

ClientOpenFails(p) ==
    /\ pc[p] = "opening"
    /\ remoteRegistry' = [remoteRegistry EXCEPT ![handle[p]] = None]
    /\ raw' = [raw EXCEPT ![p] = Failed]
    /\ UnlockHandle(p)
    /\ GoTo(p, "done")
    /\ UNCHANGED <<req, handle, prefetch>>
    /\ UNCHANGED <<remoteTIFF, readTIFFMu, remoteIDCounter, open>>

-----------------------------------------------------------------------------
(* The tile's bytes, outside any lock *)

\* What parallelReadAt can have put into the buffer when it reports a full one.
\* The chunked read reports one for a tile the object's end cuts off as well.
FullReads(r) ==
    IF r[2] \notin CutTiles THEN {Read(r, TRUE)}
    ELSE IF r[2] \in ChunkedTiles THEN {Read(r, FALSE)}
    ELSE {}

\* MUTANT of Prefetch: a short count is not looked at.
PrefetchShort(p) ==
    /\ pc[p] = "prefetch"
    /\ \E b \in {None, Read(req[p], tile(p) \notin CutTiles)} :
          prefetch' = [prefetch EXCEPT ![p] = b]
    /\ GoTo(p, "lock")
    /\ UNCHANGED <<req, handle, raw, shared>>

\* The read ahead, or none if it failed or came up short.
Prefetch(p) ==
    /\ pc[p] = "prefetch"
    /\ \E b \in {None} \cup FullReads(req[p]) : prefetch' = [prefetch EXCEPT ![p] = b]
    /\ GoTo(p, "lock")
    /\ UNCHANGED <<req, handle, raw, shared>>

-----------------------------------------------------------------------------
(* Decoding, under readTIFFMu *)

Lend(h, b) ==
    remoteRegistry' = IF b = None \/ remoteRegistry[h] = None THEN remoteRegistry
                      ELSE [remoteRegistry EXCEPT ![h] = Entry(b)]

LockDecode(p) ==
    /\ pc[p] = "lock"
    /\ readTIFFMu[geo(p)] = None
    /\ readTIFFMu' = [readTIFFMu EXCEPT ![geo(p)] = p]
    /\ Lend(handle[p], prefetch[p])
    /\ GoTo(p, "decode")
    /\ UNCHANGED <<req, handle, prefetch, raw>>
    /\ UNCHANGED <<remoteTIFF, remoteTIFFMu, remoteIDCounter, open>>

\* What libtiff makes of the tile through goRemoteRead, which answers from the
\* bytes lent to the handle if the range asked for lies in them, and from the
\* source if not.  The tile may be corrupt, a read of the source may fail, and
\* one of a cut tile comes up short, which libtiff takes for an error.
Results(r, e) ==
    IF e # None /\ e.buf # None /\ e.buf.of = r
    THEN {Failed, IF e.buf.whole THEN r ELSE Garbage}
    ELSE IF e = None \/ r[2] \in CutTiles THEN {Failed}
    ELSE {Failed, r}

ReadTile(p) ==
    /\ pc[p] = "decode"
    /\ \E v \in Results(req[p], remoteRegistry[handle[p]]) : raw' = [raw EXCEPT ![p] = v]
    /\ GoTo(p, "clear")
    /\ UNCHANGED <<req, handle, prefetch, shared>>

\* MUTANT of UnlockDecode: the buffer is taken back when the tile decoded.
UnlockDecodeEarly(p) ==
    /\ pc[p] = "clear"
    /\ remoteRegistry' =
          IF prefetch[p] = None \/ remoteRegistry[handle[p]] = None \/ raw[p] = Failed
          THEN remoteRegistry ELSE [remoteRegistry EXCEPT ![handle[p]] = Entry(None)]
    /\ readTIFFMu' = [readTIFFMu EXCEPT ![geo(p)] = None]
    /\ GoTo(p, "done")
    /\ UNCHANGED <<req, handle, prefetch, raw>>
    /\ UNCHANGED <<remoteTIFF, remoteTIFFMu, remoteIDCounter, open>>

UnlockDecode(p) ==
    /\ pc[p] = "clear"
    /\ remoteRegistry' =
          IF prefetch[p] = None \/ remoteRegistry[handle[p]] = None
          THEN remoteRegistry ELSE [remoteRegistry EXCEPT ![handle[p]] = Entry(None)]
    /\ readTIFFMu' = [readTIFFMu EXCEPT ![geo(p)] = None]
    /\ GoTo(p, "done")
    /\ UNCHANGED <<req, handle, prefetch, raw>>
    /\ UNCHANGED <<remoteTIFF, remoteTIFFMu, remoteIDCounter, open>>

Return(p) ==
    /\ pc[p] = "done"
    /\ req' = [req EXCEPT ![p] = None]
    /\ handle' = [handle EXCEPT ![p] = None]
    /\ prefetch' = [prefetch EXCEPT ![p] = None]
    /\ raw' = [raw EXCEPT ![p] = None]
    /\ GoTo(p, "idle")
    /\ UNCHANGED shared

-----------------------------------------------------------------------------
(* A file on disk *)

\* getLZWTileDataFromFile: a handle for this tile only, without a registry.
DecodeFromFile(p) ==
    /\ pc[p] = "file"
    /\ \E v \in Results(req[p], Entry(None)) : raw' = [raw EXCEPT ![p] = v]
    /\ GoTo(p, "done")
    /\ UNCHANGED <<req, handle, prefetch, shared>>

-----------------------------------------------------------------------------
(* The garbage collector *)

\* MUTANT of finalizeRemote: called at eviction, not by the collector.
finalizeRemoteInUse(g) ==
    /\ remoteTIFFMu[g] = None
    /\ remoteTIFF[g] # None
    /\ open' = open \ {remoteTIFF[g]}
    /\ remoteRegistry' = [remoteRegistry EXCEPT ![remoteTIFF[g]] = None]
    /\ remoteTIFF' = [remoteTIFF EXCEPT ![g] = None]
    /\ UNCHANGED <<locals, remoteTIFFMu, readTIFFMu, remoteIDCounter>>

\* Nobody refers to the GeoTIFF; what the identity stands for next is a new one.
finalizeRemote(g) ==
    /\ \A p \in Procs : req[p] # None => geo(p) # g
    /\ remoteTIFF[g] # None
    /\ open' = open \ {remoteTIFF[g]}
    /\ remoteRegistry' = [remoteRegistry EXCEPT ![remoteTIFF[g]] = None]
    /\ remoteTIFF' = [remoteTIFF EXCEPT ![g] = None]
    /\ UNCHANGED <<locals, remoteTIFFMu, readTIFFMu, remoteIDCounter>>

Open(p) == UseHandle(p) \/ SizeFails(p) \/ Register(p) \/ ClientOpen(p) \/ ClientOpenFails(p)
Decode(p) == ReadTile(p) \/ UnlockDecode(p) \/ DecodeFromFile(p)

Next ==
    \/ \E p \in Procs, r \in Requests : Call(p, r)
    \/ \E p \in Procs : LockHandle(p) \/ Open(p) \/ Prefetch(p) \/ LockDecode(p)
                        \/ Decode(p) \/ Return(p)
    \/ \E g \in Geos : finalizeRemote(g)

\* A goroutine that can run does, libtiff's own reads end, and a sync.Mutex
\* starves nobody.  The read ahead of a slow tile may never end.
Fairness ==
    \A p \in Procs :
        /\ WF_vars(Open(p) \/ Decode(p) \/ (Prefetch(p) /\ tile(p) \notin SlowTiles))
        /\ SF_vars(LockHandle(p))
        /\ SF_vars(LockDecode(p))

Safety == Init /\ [][Next]_vars
Spec == Safety /\ Fairness

-----------------------------------------------------------------------------
(* Properties *)

TypeOK ==
    /\ pc \in [Procs -> Stages]
    /\ req \in [Procs -> Requests \cup {None}]
    /\ \A p \in Procs : pc[p] = "idle" <=> req[p] = None
    /\ handle \in [Procs -> Handles \cup {None}]
    /\ \A p \in Procs : pc[p] \in Using \cup {"opening"} => handle[p] # None
    /\ prefetch \in [Procs -> Reads \cup {None}]
    /\ raw \in [Procs -> Requests \cup {None, Failed, Garbage}]
    /\ remoteTIFF \in [Geos -> Handles \cup {None}]
    /\ remoteTIFFMu \in [Geos -> Procs \cup {None}]
    /\ readTIFFMu \in [Geos -> Procs \cup {None}]
    /\ remoteRegistry \in [Handles -> [buf : Reads \cup {None}] \cup {None}]
    /\ remoteIDCounter \in 0..MaxHandles
    /\ open \subseteq Handles

\* "it never closes a handle mid-decode": from the moment a goroutine has its
\* GeoTIFF's handle until it is done with it the handle is open, its reader is
\* registered, and it is the only one the GeoTIFF has.
HandleOpenInUse ==
    \A p \in Procs : pc[p] \in Using =>
        /\ handle[p] \in open
        /\ remoteRegistry[handle[p]] # None
        /\ remoteTIFF[geo(p)] = handle[p]

\* Every registered reader and every open handle belongs to a GeoTIFF that will
\* be finalized, or to an open under way: none is left behind by a failed open,
\* by two goroutines opening one file, or by a finalizer.
NothingLeaks ==
    \A h \in Handles :
        /\ h \in open <=> \E g \in Geos : remoteTIFF[g] = h
        /\ remoteRegistry[h] # None <=>
              \/ \E g \in Geos : remoteTIFF[g] = h
              \/ \E p \in Procs : pc[p] = "opening" /\ handle[p] = h

\* A handle's entry holds bytes only while the goroutine that lent them has the
\* decode lock, and then its own: nobody decodes from another tile's bytes or
\* from bytes left behind, and who has read ahead reads nothing under the lock.
BufferIsDecoders ==
    /\ \A h \in Handles : remoteRegistry[h] # None /\ remoteRegistry[h].buf # None =>
          \E p \in Procs : pc[p] \in {"decode", "clear"} /\ handle[p] = h
    /\ \A p \in Procs : pc[p] \in {"decode", "clear"} =>
          remoteRegistry[handle[p]] = Entry(prefetch[p])

\* Requests for a tile that the end of the object behind a network cuts off and
\* that is read in chunks: the read ahead reports it whole, and the code does not
\* do what a comment promises, "A failed/short prefetch simply falls back to
\* libtiff's own reads, so correctness does not depend on it".
Misreported == {r \in Requests : r[1] \notin LocalGeos /\ r[2] \in CutTiles \cap ChunkedTiles}

\* The tile decoded is the one asked for, or an error.  A Misreported one never is.
TileCorrect ==
    \A p \in Procs : pc[p] = "done" =>
        /\ req[p] \notin Misreported => raw[p] \in {Failed, req[p]}
        /\ req[p] \in Misreported => raw[p] \in {Failed, Garbage}

\* A lock is held by the goroutine that is in its section.
LocksHeld ==
    \A p \in Procs :
        /\ pc[p] \in {"check", "opening"} => remoteTIFFMu[geo(p)] = p
        /\ pc[p] \in {"decode", "clear"} => readTIFFMu[geo(p)] = p

\* An id stands for the handle of one GeoTIFF, or of one open under way, of a
\* GeoTIFF that has none yet; ids not given out stand for nothing.
HandlesApart ==
    /\ \A h \in Handles : h > remoteIDCounter => remoteRegistry[h] = None
    /\ \A g, k \in Geos : remoteTIFF[g] # None /\ remoteTIFF[g] = remoteTIFF[k] => g = k
    /\ \A p \in Procs : pc[p] = "opening" =>
          /\ remoteTIFF[geo(p)] = None
          /\ remoteRegistry[handle[p]] = Entry(None)
          /\ \A g \in Geos : remoteTIFF[g] # handle[p]
          /\ \A q \in Procs : pc[q] = "opening" /\ handle[q] = handle[p] => q = p

\* A handle is for files behind a network, what a goroutine has read ahead is its
\* tile, and what it got fits the stage.
ReadsFit ==
    /\ \A p \in Procs : pc[p] \in {"handle", "check", "opening"} \cup Using =>
          req[p][1] \notin LocalGeos
    /\ \A p \in Procs : pc[p] \in {"lock", "decode", "clear"} =>
          prefetch[p] \in {None} \cup FullReads(req[p])
    /\ \A p \in Procs : pc[p] \in {"clear", "done"} =>
          /\ req[p] \notin Misreported => raw[p] \in {Failed, req[p]}
          /\ req[p] \in Misreported => raw[p] \in {Failed, Garbage}

\* ... and by no other: every path out of a section gives its lock back, and who
\* holds one is in its section and wants no other, so nobody waits for somebody
\* who waits.
LocksReleased ==
    \A g \in Geos :
        /\ remoteTIFFMu[g] # None => /\ pc[remoteTIFFMu[g]] \in {"check", "opening"}
                                     /\ geo(remoteTIFFMu[g]) = g
        /\ readTIFFMu[g] # None => /\ pc[readTIFFMu[g]] \in {"decode", "clear"}
                                   /\ geo(readTIFFMu[g]) = g

\* The inductive invariant behind the properties above.
IInv ==
    /\ TypeOK /\ LocksHeld /\ HandlesApart /\ HandleOpenInUse /\ NothingLeaks
    /\ BufferIsDecoders /\ ReadsFit

\* Asking for a tile ends, even while the reads ahead of others hang: they
\* happen outside the locks.
EveryDecodeEnds ==
    \A p \in Procs : pc[p] \in {"file", "handle"} /\ tile(p) \notin SlowTiles ~> pc[p] = "done"

-----------------------------------------------------------------------------
(* What getTileData relies on: TileService again, of tiles by their bytes.  A *)
(* goroutine that asks for a Misreported tile is seen as idle: that request   *)
(* is not part of the promise, though it runs in between the others.          *)

Seen(p) == req[p] \notin Misreported

status == [p \in Procs |-> CASE pc[p] = "idle" \/ ~Seen(p) -> "idle"
                             [] pc[p] = "done" /\ Seen(p) -> "answered"
                             [] OTHER -> "waiting"]

request == [p \in Procs |-> IF Seen(p) THEN req[p] ELSE None]

answer == [p \in Procs |-> IF pc[p] = "done" /\ Seen(p) THEN raw[p] ELSE None]

AskedFor(r) == r

Service == INSTANCE TileService WITH
              status <- status, request <- request, answer <- answer, TileOf <- AskedFor,
              SlowRequests <- Geos \X SlowTiles

\* Two locks, a registry, lent bytes and libtiff's callbacks come down to asking
\* and being answered with the tile asked for or an error, one goroutine at a
\* time.  Left out by name are the requests of Misreported, which can be answered
\* with garbage; what they do harms no other.
DecodeServiceSafety == Service!Safety
=============================================================================
