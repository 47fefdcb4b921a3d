--------------------------- MODULE VRTReadProofs ---------------------------
(***************************************************************************)
(* Proofs about TileFetch and, on top of it, VRTRead.  For any goroutines, *)
(* GeoTIFF values, tiles and files what TileFetch hands out is right, one  *)
(* goroutine of a GeoTIFF reads a tile at a time, and TileFetch implements *)
(* TileService.  Behind a VRT, for any sources and maxSources, no tile is  *)
(* read through a closed GeoTIFF, the tile is that of the source its name  *)
(* stands for, and a VRT keeps by source name the promise that TileService *)
(* makes of a GeoTIFF.  That proof puts those of SourceLRU and TileFetch   *)
(* together; what it adds is LinkInv.                                      *)
(***************************************************************************)
EXTENDS VRTRead, TLAPS

-----------------------------------------------------------------------------
(* TileFetch *)

\* Key and content of a request are the same pair: a prefix is a file.
LEMMA KeyIsContent == \A r \in Requests : Key(r) = Content(r) /\ Key(r) \in Keys
  BY DEF Key, Content, Keys

\* Two requests with one key are about the same decoded tile.
LEMMA SameKeySameTile ==
    \A r, s \in Requests : Key(r) = Key(s) => Decoded(r) = Decoded(s)
  BY DEF Key, Content, Decoded

\* The invariant holds at the start: nothing cached, nobody in a group.
LEMMA InitIInv == Init => IInv
  <1> SUFFICES ASSUME Init PROVE IInv
    OBVIOUS
  <1>1. TypeOK
    BY DEF Init, TypeOK, Stages
  <1>2. CacheCorrect
    BY KeyIsContent DEF Init, CacheCorrect
  <1>3. BufferFitsStage
    BY DEF Init, BufferFitsStage
  <1>4. FlightHasLeader
    BY DEF Init, FlightHasLeader, Leading
  <1> QED
    BY <1>1, <1>2, <1>3, <1>4 DEF IInv

\* Every step preserves the invariant, the stuttering one included.
LEMMA StepIInv == IInv /\ [Next]_vars => IInv'
  <1> SUFFICES ASSUME IInv, [Next]_vars PROVE IInv'
    OBVIOUS
  <1> USE NoneAssumption DEF IInv
  <1>1. ASSUME NEW p \in Procs, NEW r \in Requests, Call(p, r) PROVE IInv'
    <2> USE <1>1 DEF Call, GoTo
    <2>1. TypeOK'
      BY DEF TypeOK, Stages
    <2>2. CacheCorrect'
      BY DEF CacheCorrect
    <2>3. BufferFitsStage'
      BY DEF BufferFitsStage, TypeOK
    <2>4. FlightHasLeader'
      BY DEF FlightHasLeader, TypeOK, Leading
    <2> QED
      BY <2>1, <2>2, <2>3, <2>4
  <1>2. ASSUME NEW p \in Procs, Hit(p) PROVE IInv'
    <2> USE <1>2 DEF Hit, GoTo
    <2>0. req[p] \in Requests /\ buf'[p] = Decoded(req[p])
      BY DEF TypeOK, CacheCorrect, Fresh
    <2>1. TypeOK'
      BY <2>0 DEF TypeOK, Stages
    <2>2. CacheCorrect'
      BY DEF CacheCorrect
    <2>3. BufferFitsStage'
      BY <2>0 DEF BufferFitsStage, TypeOK
    <2>4. FlightHasLeader'
      BY DEF FlightHasLeader, TypeOK, Leading
    <2> QED
      BY <2>1, <2>2, <2>3, <2>4
  <1>3. ASSUME NEW p \in Procs, Miss(p) PROVE IInv'
    <2> USE <1>3 DEF Miss, GoTo
    <2>1. TypeOK'
      BY DEF TypeOK, Stages
    <2>2. CacheCorrect'
      BY DEF CacheCorrect
    <2>3. BufferFitsStage'
      BY DEF BufferFitsStage, TypeOK
    <2>4. FlightHasLeader'
      BY DEF FlightHasLeader, TypeOK, Leading
    <2> QED
      BY <2>1, <2>2, <2>3, <2>4
  <1>4. ASSUME NEW p \in Procs, DoLead(p) PROVE IInv'
    <2> USE <1>4 DEF DoLead, GoTo
    <2>1. TypeOK'
      BY DEF TypeOK, Stages, Leading
    <2>2. CacheCorrect'
      BY DEF CacheCorrect
    <2>3. BufferFitsStage'
      BY DEF BufferFitsStage, TypeOK
    <2>4. FlightHasLeader'
      BY DEF FlightHasLeader, TypeOK, Leading
    <2> QED
      BY <2>1, <2>2, <2>3, <2>4
  <1>5. ASSUME NEW p \in Procs, DoJoin(p) PROVE IInv'
    <2> USE <1>5 DEF DoJoin, GoTo
    <2>1. TypeOK'
      BY DEF TypeOK, Stages
    <2>2. CacheCorrect'
      BY DEF CacheCorrect
    <2>3. BufferFitsStage'
      BY DEF BufferFitsStage, TypeOK
    <2>4. FlightHasLeader'
      BY DEF FlightHasLeader, TypeOK, Leading
    <2> QED
      BY <2>1, <2>2, <2>3, <2>4
  <1>6. ASSUME NEW p \in Procs, Fetch(p) \/ FetchFails(p) \/ Decode(p) \/ DecodeFails(p)
        PROVE IInv'
    <2> USE <1>6 DEF Fetch, FetchFails, Decode, DecodeFails, GoTo
    <2>1. TypeOK'
      BY DEF TypeOK, Stages, Leading
    <2>2. CacheCorrect'
      BY DEF CacheCorrect
    <2>3. BufferFitsStage'
      BY DEF BufferFitsStage, TypeOK
    <2>4. FlightHasLeader'
      BY DEF FlightHasLeader, TypeOK, Leading
    <2> QED
      BY <2>1, <2>2, <2>3, <2>4
  <1>7. ASSUME NEW p \in Procs, Store(p) PROVE IInv'
    <2> USE <1>7 DEF Store, GoTo
    <2>0. /\ req[p] \in Requests
          /\ Key(req[p]) \in Keys
          /\ buf[p] = Decoded(req[p])
      BY KeyIsContent DEF TypeOK, BufferFitsStage
    <2>1. TypeOK'
      BY <2>0 DEF TypeOK, Stages, Leading, Item
    <2>2. CacheCorrect'
      BY <2>0, KeyIsContent, SameKeySameTile DEF CacheCorrect, Item, TypeOK
    <2>3. BufferFitsStage'
      BY DEF BufferFitsStage, TypeOK
    <2>4. FlightHasLeader'
      BY DEF FlightHasLeader, TypeOK, Leading
    <2> QED
      BY <2>1, <2>2, <2>3, <2>4
  <1>8. ASSUME NEW p \in Procs, Finish(p) PROVE IInv'
    <2> USE <1>8 DEF Finish, Sharing
    <2>0. /\ req[p] \in Requests
          /\ buf[p] \in {Failed, Decoded(req[p])}
          /\ inflightData[req[p]] = p
      BY DEF TypeOK, BufferFitsStage, FlightHasLeader, Leading
    <2>1. TypeOK'
      BY DEF TypeOK, Stages
    <2>2. CacheCorrect'
      BY DEF CacheCorrect
    <2>3. BufferFitsStage'
      BY <2>0 DEF BufferFitsStage, TypeOK
    <2>4. FlightHasLeader'
      BY <2>0 DEF FlightHasLeader, TypeOK, Leading
    <2> QED
      BY <2>1, <2>2, <2>3, <2>4
  <1>9. ASSUME NEW p \in Procs, Return(p) PROVE IInv'
    <2> USE <1>9 DEF Return, GoTo
    <2>1. TypeOK'
      BY DEF TypeOK, Stages
    <2>2. CacheCorrect'
      BY DEF CacheCorrect
    <2>3. BufferFitsStage'
      BY DEF BufferFitsStage, TypeOK
    <2>4. FlightHasLeader'
      BY DEF FlightHasLeader, TypeOK, Leading
    <2> QED
      BY <2>1, <2>2, <2>3, <2>4
  <1>10. ASSUME NEW k \in Keys, Expire(k) \/ Prune(k) PROVE IInv'
    <2> USE <1>10 DEF Expire, Prune
    <2>1. TypeOK'
      <3> DEFINE Items == [value : {Decoded(r) : r \in Requests}, expired : BOOLEAN]
      <3>1. tileCache \in [Keys -> {None} \cup Items] /\ tileCache[k] \in Items
        BY DEF TypeOK
      <3>2. [tileCache[k] EXCEPT !.expired = TRUE] \in Items
        BY ONLY <3>1 DEF Items
      <3>3. tileCache' \in [Keys -> {None} \cup Items]
        <4> HIDE DEF Items
        <4> QED
          BY <3>1, <3>2
      <3> QED
        BY <3>3 DEF TypeOK
    <2>2. CacheCorrect'
      BY KeyIsContent DEF CacheCorrect, TypeOK
    <2>3. BufferFitsStage'
      BY DEF BufferFitsStage
    <2>4. FlightHasLeader'
      BY DEF FlightHasLeader
    <2> QED
      BY <2>1, <2>2, <2>3, <2>4
  <1>11. CASE UNCHANGED vars
    BY <1>11 DEF vars, TypeOK, CacheCorrect, BufferFitsStage, FlightHasLeader
  <1> QED
    BY <1>1, <1>2, <1>3, <1>4, <1>5, <1>6, <1>7, <1>8, <1>9, <1>10, <1>11
       DEF Next, Enter, Read, Process

\* The inductive invariant of getTileData: the types, what the cache holds, what
\* each goroutine holds at its stage, and who runs each call of the group.
THEOREM Invariance == Safety => []IInv
  BY InitIInv, StepIInv, PTL DEF Safety

\* Type correctness; in particular nothing but decoded tiles is ever cached.
THEOREM TypeCorrect == Safety => []TypeOK
  <1>1. IInv => TypeOK
    BY DEF IInv
  <1> QED
    BY <1>1, Invariance, PTL

\* Whoever returns from getTileData has an error or the decoded tile it asked
\* for, of its own GeoTIFF's file.
THEOREM Served == Safety => []ServedTileCorrect
  <1>1. IInv => ServedTileCorrect
    BY DEF IInv, BufferFitsStage, ServedTileCorrect
  <1> QED
    BY <1>1, Invariance, PTL

\* No two goroutines read or decode one tile of one GeoTIFF at a time.
THEOREM OneFetch == Safety => []OneFetchPerTile
  <1>1. IInv => OneFetchPerTile
    BY DEF IInv, FlightHasLeader, OneFetchPerTile
  <1> QED
    BY <1>1, Invariance, PTL

-----------------------------------------------------------------------------
(* TileFetch implements TileService *)

\* Nobody has asked: the service's first state.
LEMMA InitRefines == Init => Service!Init
  BY DEF Init, Service!Init, status, answer

\* The steps a caller sees are its call, its own cache hit, the end of the call
\* it leads or joined, and its return; every other step changes nothing it sees.
LEMMA StepRefines == IInv /\ [Next]_vars => [Service!Next]_(Service!vars)
  <1> SUFFICES ASSUME IInv, [Next]_vars
               PROVE Service!Next \/ UNCHANGED Service!vars
    OBVIOUS
  <1> USE DEF IInv
  <1>1. ASSUME NEW p \in Procs, NEW r \in Requests, Call(p, r)
        PROVE Service!Ask(p)
    BY <1>1 DEF Call, GoTo, Service!Ask, Service!Requests, Requests, status, answer, TypeOK
  <1>2. ASSUME NEW p \in Procs, Hit(p)
        PROVE Service!Answer({p}, req[p])
    <2> USE <1>2 DEF Hit, GoTo
    <2>1. req[p] \in Requests /\ buf'[p] = Decoded(req[p])
      BY DEF TypeOK, CacheCorrect, Fresh
    <2>2. status' = [q \in Procs |-> IF q \in {p} THEN "answered" ELSE status[q]]
      BY DEF TypeOK, status
    <2>3. answer' = [q \in Procs |-> IF q \in {p} THEN Decoded(req[p]) ELSE answer[q]]
      BY <2>1 DEF TypeOK, answer
    <2>4. status[p] = "waiting"
      BY DEF status
    <2> QED
      BY <2>2, <2>3, <2>4 DEF Service!Answer, Service!Outcomes
  <1>3. ASSUME NEW p \in Procs, Finish(p)
        PROVE Service!Answer(Sharing(p), req[p])
    <2> USE <1>3 DEF Finish
    <2>1. req[p] \in Requests /\ buf[p] \in {Failed, Decoded(req[p])}
      BY DEF TypeOK, BufferFitsStage
    <2>2. status' = [q \in Procs |-> IF q \in Sharing(p) THEN "answered" ELSE status[q]]
      BY DEF TypeOK, status
    <2>3. answer' = [q \in Procs |-> IF q \in Sharing(p) THEN buf[p] ELSE answer[q]]
      BY DEF TypeOK, answer
    <2>4. \A q \in Sharing(p) : status[q] = "waiting" /\ req[q] = req[p]
      BY DEF Sharing, status
    <2> QED
      BY <2>1, <2>2, <2>3, <2>4 DEF Service!Answer, Service!Outcomes
  <1>4. ASSUME NEW p \in Procs, Return(p)
        PROVE Service!Take(p)
    BY <1>4 DEF Return, GoTo, Service!Take, status, answer, TypeOK
  <1>5. ASSUME NEW p \in Procs,
               Miss(p) \/ DoLead(p) \/ DoJoin(p) \/ Fetch(p) \/ FetchFails(p)
                 \/ Decode(p) \/ DecodeFails(p) \/ Store(p)
        PROVE UNCHANGED Service!vars
    <2>1. /\ pc[p] # "idle" /\ pc[p] # "done" /\ pc'[p] # "idle" /\ pc'[p] # "done"
          /\ \A q \in Procs \ {p} : pc'[q] = pc[q] /\ buf'[q] = buf[q]
          /\ req' = req
      BY <1>5 DEF Miss, DoLead, DoJoin, Fetch, FetchFails, Decode, DecodeFails, Store,
                  GoTo, TypeOK
    <2>2. status' = status
      BY <2>1 DEF status
    <2>3. answer' = answer
      BY <2>1 DEF answer
    <2> QED
      BY <2>1, <2>2, <2>3 DEF Service!vars
  <1>6. ASSUME NEW k \in Keys, Expire(k) \/ Prune(k)
        PROVE UNCHANGED Service!vars
    BY <1>6 DEF Expire, Prune, Service!vars, status, answer
  <1>7. CASE UNCHANGED vars
    BY <1>7 DEF vars, Service!vars, status, answer
  <1>8. ASSUME NEW p \in Procs PROVE p \in Sharing(p) /\ Sharing(p) \in SUBSET Procs
    BY DEF Sharing
  <1>9. ASSUME NEW p \in Procs, NEW S \in SUBSET Procs, p \in S, pc[p] # "idle",
               Service!Answer(S, req[p])
        PROVE Service!Next
    BY <1>9 DEF Service!Next, Service!Requests, Requests, TypeOK
  <1>10. ASSUME NEW p \in Procs, Hit(p) PROVE Service!Next
    BY <1>2, <1>9, <1>10 DEF Hit
  <1>11. ASSUME NEW p \in Procs, Finish(p) PROVE Service!Next
    BY <1>3, <1>8, <1>9, <1>11 DEF Finish
  <1>12. ASSUME NEW p \in Procs, Service!Ask(p) \/ Service!Take(p) PROVE Service!Next
    BY <1>12 DEF Service!Next
  <1> QED
    BY <1>1, <1>4, <1>5, <1>6, <1>7, <1>10, <1>11, <1>12
       DEF Next, Enter, Read, Process

\* getTileData, with its cache, its group and its in-place decoding, behaves to
\* its callers as TileService says (the safety part; the runs check liveness).
THEOREM Refinement == Safety => ServiceSafety
  BY InitRefines, StepRefines, Invariance, PTL
     DEF Safety, ServiceSafety, Service!Safety

-----------------------------------------------------------------------------
(* VRTRead *)

LRUP == INSTANCE SourceLRUProofs WITH Files <- Names, pc <- stage

-----------------------------------------------------------------------------
(* What SourceLRUProofs says of the sources *)

\* The assumptions of SourceLRU, of the constants it is given here.
LEMMA AssumptionsHold ==
    /\ None \notin Procs \cup Names \cup Geos \cup {Failed}
    /\ MaxSources \in Nat \ {0}
    /\ Failed \notin Geos
  BY VRTAssumption, NoneAssumption

\* The first state of the LRU, as SourceLRUProofs has it.
LEMMA InitLRU == LRU!Init => LRUP!IInv
  <1>1. LRU!Init => LRUP!Init
    BY DEF LRU!Init, LRUP!Init
  <1> QED
    BY <1>1, LRUP!InitIInv, AssumptionsHold

\* A step of the LRU, or none, keeps its invariant.
LEMMA StepLRU == LRUP!IInv /\ (LRU!Next \/ UNCHANGED sources) => LRUP!IInv'
  <1>1. LRU!Next => LRUP!Next
    BY DEF LRU!Next, LRUP!Next, LRU!Look, LRUP!Look, LRU!Call, LRUP!Call,
           LRU!OpenSource, LRUP!OpenSource, LRU!Ask, LRUP!Ask, LRU!PeekHit, LRUP!PeekHit,
           LRU!PeekMiss, LRUP!PeekMiss, LRU!DoLead, LRUP!DoLead, LRU!DoJoin, LRUP!DoJoin,
           LRU!RecheckHit, LRUP!RecheckHit, LRU!RecheckMiss, LRUP!RecheckMiss,
           LRU!Open, LRUP!Open, LRU!OpenFails, LRUP!OpenFails, LRU!Put, LRUP!Put,
           LRU!Finish, LRUP!Finish, LRU!Sharing, LRUP!Sharing, LRU!Prefetch, LRUP!Prefetch,
           LRU!Release, LRUP!Release, LRU!Finalize, LRUP!Finalize,
           LRU!Reachable, LRUP!Reachable, LRU!GoTo, LRUP!GoTo, LRU!lru, LRUP!lru,
           LRU!lruGet, LRUP!lruGet, LRU!lruPut, LRUP!lruPut, LRU!Touch, LRUP!Touch,
           LRU!Trim, LRUP!Trim, LRU!PushFront, LRUP!PushFront,
           LRU!MoveToFront, LRUP!MoveToFront, LRU!Elements, LRUP!Elements
  <1>2. UNCHANGED sources => UNCHANGED LRUP!vars
    BY DEF sources, LRUP!vars, LRUP!lru
  <1> QED
    BY <1>1, <1>2, LRUP!StepIInv, AssumptionsHold

LRUFacts ==
    /\ stage \in [Procs -> {"idle", "peek", "enter", "wait", "use", "recheck", "open", "put", "finish"}]
    /\ want \in [Procs -> Names \cup {None}]
    /\ got \in [Procs -> Geos \cup {None, Failed}]
    /\ fileOf \in [Geos -> Names \cup {None}]
    /\ \A p \in Procs :
          /\ stage[p] # "idle" => want[p] \in Names
          /\ stage[p] = "use" => got[p] \in Geos \cup {Failed}
          /\ got[p] \in Geos => fileOf[got[p]] = want[p]

\* What is used of that invariant below.
LEMMA FactsLemma == LRUP!IInv => LRUFacts
  BY AssumptionsHold DEF LRUP!IInv, LRUP!TypeOK, LRUP!Stages, LRUP!Leading, LRUP!HandlesOpen,
     LRUP!GotFitsStage, LRUFacts

-----------------------------------------------------------------------------
(* What the steps of the parts do to each other *)

\* getSourceGeo leaves those alone who have what they asked for.
LEMMA LocateLemma ==
  ASSUME LRUFacts, NEW p \in Procs, Locate(p)
  PROVE /\ LRU!Next
        /\ UNCHANGED <<vars, tile, refused, want>>
        /\ \A q \in Procs : /\ stage[q] = "use" => stage'[q] = "use" /\ got'[q] = got[q]
                            /\ stage[q] = "idle" <=> stage'[q] = "idle"
        /\ \A g \in Geos, n \in Names :
              fileOf'[g] = n => fileOf[g] = n \/ FileOf[g] = resolveVRTFilename(n)
  <1> USE DEF LRUFacts, LRU!GoTo
  <1>1. LRU!Next /\ UNCHANGED <<vars, tile, refused>>
    BY DEF Locate, LRU!Next, LRU!Call, LRU!OpenSource, Open
  <1>2. CASE LRU!Look(p) \/ LRU!RecheckHit(p) \/ LRU!RecheckMiss(p) \/ LRU!OpenFails(p)
    BY <1>1, <1>2 DEF LRU!Look, LRU!PeekHit, LRU!PeekMiss, LRU!DoLead, LRU!DoJoin,
                      LRU!RecheckHit, LRU!RecheckMiss, LRU!OpenFails
  <1>3. CASE \E g \in Geos : Open(p, g)
    <2>1. PICK g \in Geos : Open(p, g)
      BY <1>3
    <2>2. want[p] \in Names /\ want[p] # None
      BY <2>1, AssumptionsHold DEF Open, LRU!Open
    <2> QED
      BY <1>1, <2>1, <2>2 DEF Open, LRU!Open
  <1>4. CASE LRU!Put(p)
    BY <1>1, <1>4 DEF LRU!Put
  <1>5. CASE LRU!Finish(p)
    BY <1>1, <1>5 DEF LRU!Finish, LRU!Sharing
  <1> QED
    BY <1>2, <1>3, <1>4, <1>5 DEF Locate

\* The steps of getTileData concern one goroutine's request or nobody's.
LEMMA FetchLemma ==
  ASSUME IInv, NEW p \in Procs, Enter(p) \/ Read(p) \/ Process(p)
  PROVE /\ Next /\ req' = req
        /\ \A q \in Procs : pc[q] = "idle" <=> pc'[q] = "idle"
  BY DEF Next, IInv, TypeOK, Enter, Read, Process, Hit, Miss, DoLead, DoJoin, Fetch, FetchFails,
         Decode, DecodeFails, Store, Finish, Sharing, GoTo

-----------------------------------------------------------------------------
(* The invariant of the whole *)

VRTInv == IInv /\ LRUP!IInv /\ LinkInv

\* Nobody asks: the invariant of the whole holds at the start.
LEMMA InitVRTInv == VRTInit => VRTInv
  <1> SUFFICES ASSUME VRTInit PROVE VRTInv
    OBVIOUS
  <1>1. IInv /\ LRUP!IInv
    BY InitIInv, InitLRU DEF VRTInit
  <1>2. LinkInv
    BY AssumptionsHold DEF VRTInit, Init, LRU!Init, LinkInv
  <1> QED
    BY <1>1, <1>2 DEF VRTInv

\* Every step of the whole keeps it.
LEMMA StepVRTInv == VRTInv /\ [VRTNext]_vrt => VRTInv'
  <1> SUFFICES ASSUME VRTInv, [VRTNext]_vrt PROVE VRTInv'
    OBVIOUS
  <1>0. /\ LRUFacts /\ IInv
        /\ None \notin Names \cup Geos \cup {Failed} /\ Failed \notin Geos
    BY FactsLemma, AssumptionsHold DEF VRTInv
  <1>1. ASSUME Next \/ UNCHANGED vars, LRU!Next \/ UNCHANGED sources
        PROVE IInv' /\ LRUP!IInv'
    BY <1>1, StepIInv, StepLRU DEF VRTInv
  <1> USE DEF VRTInv
  <1>2. ASSUME NEW p \in Procs, NEW n \in Names, NEW t \in Tiles, Ask(p, n, t) PROVE VRTInv'
    <2>1. LRU!Next
      BY <1>2 DEF Ask, LRU!Next
    <2>2. LinkInv'
      BY <1>0, <1>2 DEF Ask, LRU!Ask, LRU!GoTo, LinkInv, LRUFacts, vars
    <2> QED
      BY <1>1, <1>2, <2>1, <2>2 DEF Ask
  <1>3. ASSUME NEW p \in Procs, Locate(p) PROVE VRTInv'
    <2>1. /\ LRU!Next /\ UNCHANGED <<vars, tile, refused>>
          /\ \A q \in Procs : /\ stage[q] = "use" => stage'[q] = "use" /\ got'[q] = got[q]
                              /\ stage[q] = "idle" <=> stage'[q] = "idle"
          /\ \A g \in Geos, n \in Names :
                fileOf'[g] = n => fileOf[g] = n \/ FileOf[g] = resolveVRTFilename(n)
      BY <1>0, <1>3, LocateLemma
    <2>2. LinkInv'
      BY <2>1 DEF LinkInv, vars
    <2> QED
      BY <1>1, <2>1, <2>2
  <1>4. ASSUME NEW p \in Procs, Refuse(p) PROVE VRTInv'
    <2>1. LinkInv'
      BY <1>4 DEF Refuse, LinkInv, sources, vars
    <2> QED
      BY <1>1, <1>4, <2>1 DEF Refuse
  <1>5. ASSUME NEW p \in Procs, ReadTile(p) PROVE VRTInv'
    <2>1. got[p] \in Geos /\ tile[p] \in Tiles
      BY <1>0, <1>5 DEF ReadTile, LRUFacts, LinkInv
    <2>2. Next
      BY <1>5, <2>1 DEF ReadTile, Next, Requests
    <2>3. LinkInv'
      BY <1>0, <1>5, <2>1 DEF ReadTile, Call, GoTo, LinkInv, sources, IInv, TypeOK
    <2> QED
      BY <1>1, <1>5, <2>2, <2>3 DEF ReadTile
  <1>6. ASSUME NEW p \in Procs, Fetching(p) PROVE VRTInv'
    <2>1. Next /\ req' = req /\ \A q \in Procs : pc[q] = "idle" <=> pc'[q] = "idle"
      BY <1>0, <1>6, FetchLemma DEF Fetching
    <2>2. LinkInv'
      BY <1>6, <2>1 DEF Fetching, LinkInv, sources
    <2> QED
      BY <1>1, <1>6, <2>1, <2>2 DEF Fetching
  <1>7. ASSUME NEW p \in Procs, NEW q \in Procs, NEW t \in Tiles, Prefetch(p, q, t) PROVE VRTInv'
    <2>1. LRU!Next
      BY <1>7 DEF Prefetch, LRU!Next
    <2>2. LinkInv'
      BY <1>0, <1>7 DEF Prefetch, LRU!Prefetch, LRU!GoTo, LinkInv, LRUFacts, vars
    <2> QED
      BY <1>1, <1>7, <2>1, <2>2 DEF Prefetch
  <1>8. ASSUME NEW p \in Procs, Answer(p) PROVE VRTInv'
    <2>1. LRU!Next
      BY <1>8 DEF Answer, LRU!Next
    <2>2. Next \/ UNCHANGED vars
      BY <1>8 DEF Answer, Next
    <2>3. pc'[p] = "idle" /\ p \notin refused'
      BY <1>0, <1>8 DEF Answer, Return, GoTo, IInv, TypeOK, LinkInv, vars
    <2>4. \A q \in Procs \ {p} : /\ pc'[q] = pc[q] /\ req'[q] = req[q] /\ stage'[q] = stage[q]
                                 /\ got'[q] = got[q] /\ tile'[q] = tile[q]
                                 /\ q \in refused' => q \in refused
      BY <1>0, <1>8 DEF Answer, Return, GoTo, LRU!Release, LRU!GoTo, IInv, TypeOK, LRUFacts,
                        LinkInv, vars
    <2>5. stage'[p] = "idle" /\ tile' \in [Procs -> Tiles \cup {None}] /\ fileOf' = fileOf
      BY <1>0, <1>8 DEF Answer, LRU!Release, LRU!GoTo, LRUFacts, LinkInv
    <2>6. LinkInv'
      BY <2>3, <2>4, <2>5 DEF LinkInv
    <2> QED
      BY <1>1, <2>1, <2>2, <2>6
  <1>9. ASSUME Background PROVE VRTInv'
    <2>1. CASE \E k \in Keys : (Expire(k) \/ Prune(k)) /\ UNCHANGED <<sources, tile, refused>>
      <3>1. Next
        BY <2>1 DEF Next
      <3>2. LinkInv'
        BY <2>1 DEF Expire, Prune, LinkInv, sources
      <3> QED
        BY <1>1, <2>1, <3>1, <3>2
    <2>2. CASE \E g \in Geos : LRU!Finalize(g) /\ UNCHANGED <<vars, tile, refused>>
      <3>1. LRU!Next
        BY <2>2 DEF LRU!Next
      <3>2. LinkInv'
        BY <1>0, <2>2 DEF LRU!Finalize, LinkInv, LRUFacts, vars
      <3> QED
        BY <1>1, <2>2, <3>1, <3>2
    <2> QED
      BY <1>9, <2>1, <2>2 DEF Background
  <1>10. CASE UNCHANGED vrt
    <2>1. LinkInv'
      BY <1>10 DEF vrt, vars, sources, LinkInv
    <2> QED
      BY <1>1, <1>10, <2>1 DEF vrt
  <1> QED
    BY <1>2, <1>3, <1>4, <1>5, <1>6, <1>7, <1>8, <1>9, <1>10 DEF VRTNext

-----------------------------------------------------------------------------
(* The theorems *)

\* The invariants of SourceLRU and TileFetch and the link between them hold of the
\* two together.
THEOREM VRTInvariance == VRTSafety => []VRTInv
  BY InitVRTInv, StepVRTInv, PTL DEF VRTSafety

\* No eviction and no finalizer closes a GeoTIFF under somebody's read.
THEOREM StaysOpen == VRTSafety => []OpenWhileRead
  <1>1. VRTInv => OpenWhileRead
    BY FactsLemma DEF VRTInv, LinkInv, LRUFacts, OpenWhileRead
  <1> QED
    BY <1>1, VRTInvariance, PTL

\* A relative path follows the VRT's directory, any other stands alone.
LEMMA Resolved == \A n \in Names, t \in Tiles :
    TileOfName(<<n, t>>) = <<"decoded", <<resolveVRTFilename(n), t>>>>
  BY BaseAssumption, SourceAssumption DEF TileOfName, resolveVRTFilename

\* What a read decodes is the tile of its source's name.
LEMMA DecodedByName ==
  ASSUME VRTInv, NEW p \in Procs, pc[p] # "idle"
  PROVE /\ stage[p] = "use" /\ want[p] \in Names /\ tile[p] \in Tiles
        /\ got[p] \in Geos /\ fileOf[got[p]] = want[p]
        /\ Decoded(req[p]) = TileOfName(<<want[p], tile[p]>>)
  <1>1. /\ stage[p] = "use" /\ want[p] \in Names /\ tile[p] \in Tiles /\ want[p] # None
        /\ got[p] \in Geos /\ fileOf[got[p]] = want[p] /\ req[p] = <<got[p], tile[p]>>
    BY FactsLemma, AssumptionsHold DEF VRTInv, LinkInv, LRUFacts
  <1>2. FileOf[got[p]] = resolveVRTFilename(want[p])
    BY <1>1 DEF VRTInv, LinkInv
  <1> QED
    BY <1>1, <1>2, Resolved DEF Decoded, Content

\* Whatever is evicted, reopened or shared meanwhile, whoever is given a tile has
\* that of the source it asked for.
THEOREM ServedByName == VRTSafety => []VRTServed
  <1>1. VRTInv => VRTServed
    BY DecodedByName DEF VRTInv, IInv, BufferFitsStage, VRTServed
  <1> QED
    BY <1>1, VRTInvariance, PTL

\* For any goroutines and sources, nobody waits for somebody who waits: the part
\* of VRTServiceSpec's liveness that needs no fairness.
THEOREM NeverStuck == VRTSafety => []NobodyStuck
  <1>1. ASSUME VRTInv, NEW p \in Procs, stage[p] = "wait"
        PROVE /\ inflight[want[p]] \in Procs /\ ~Waits(inflight[want[p]])
              /\ want[inflight[want[p]]] = want[p] /\ pc[p] = "idle"
    <2> DEFINE q == inflight[want[p]]
    <2>1. LRUFacts /\ LRUP!FlightHasLeader /\ LRUP!TypeOK
      BY <1>1, FactsLemma, AssumptionsHold DEF VRTInv, LRUP!IInv
    <2>2. want[p] \in Names /\ q # None
      BY <1>1, <2>1 DEF LRUFacts, LRUP!FlightHasLeader
    <2>3. q \in Procs
      BY <2>1, <2>2 DEF LRUP!TypeOK
    <2>4. stage[q] \in LRUP!Leading /\ want[q] = want[p]
      BY <2>1, <2>2 DEF LRUP!FlightHasLeader
    <2>5. stage[q] \notin {"wait", "use"}
      BY <2>4 DEF LRUP!Leading
    <2>6. pc[q] = "idle" /\ pc[p] = "idle"
      BY <1>1, <2>3, <2>5 DEF VRTInv, LinkInv
    <2> QED
      BY <2>3, <2>4, <2>5, <2>6 DEF Waits
  <1>2. ASSUME VRTInv, NEW p \in Procs, pc[p] = "wait"
        PROVE /\ inflightData[req[p]] \in Procs /\ ~Waits(inflightData[req[p]])
              /\ want[inflightData[req[p]]] = want[p] /\ stage[p] # "wait"
              /\ got[inflightData[req[p]]] = got[p] /\ tile[inflightData[req[p]]] = tile[p]
    <2> DEFINE q == inflightData[req[p]]
    <2>1. LRUFacts /\ FlightHasLeader /\ TypeOK /\ LinkInv
      BY <1>2, FactsLemma, AssumptionsHold DEF VRTInv, IInv
    <2>2. req[p] \in Requests /\ q # None
      BY <1>2, <2>1 DEF TypeOK, FlightHasLeader
    <2>3. q \in Procs
      BY <2>1, <2>2 DEF TypeOK
    <2>4. pc[q] \in Leading /\ req[q] = req[p]
      BY <2>1, <2>2 DEF FlightHasLeader
    <2>5. pc[q] # "wait" /\ pc[q] # "idle"
      BY <2>4 DEF Leading
    <2>6. /\ stage[p] = "use" /\ got[p] \in Geos /\ req[p] = <<got[p], tile[p]>>
          /\ stage[q] = "use" /\ got[q] \in Geos /\ req[q] = <<got[q], tile[q]>>
      BY <1>2, <2>1, <2>3, <2>5 DEF LinkInv
    <2>7. got[q] = got[p] /\ tile[q] = tile[p]
      BY <2>4, <2>6
    <2>8. want[q] = want[p]
      BY <2>1, <2>3, <2>6, <2>7 DEF LRUFacts
    <2> QED
      BY <2>3, <2>5, <2>6, <2>7, <2>8 DEF Waits
  <1>3. VRTInv => NobodyStuck
    <2> SUFFICES ASSUME VRTInv, NEW p \in Procs, Waits(p)
                 PROVE /\ Runner(p) \in Procs /\ ~Waits(Runner(p))
                       /\ want[Runner(p)] = want[p]
                       /\ pc[p] = "wait" => got[Runner(p)] = got[p] /\ tile[Runner(p)] = tile[p]
      BY DEF NobodyStuck
    <2>1. CASE stage[p] = "wait"
      BY <1>1, <2>1 DEF Runner
    <2>2. CASE pc[p] = "wait"
      BY <1>2, <2>2 DEF Runner
    <2> QED
      BY <2>1, <2>2 DEF Waits
  <1> QED
    BY <1>3, VRTInvariance, PTL

-----------------------------------------------------------------------------
(* VRTRead implements TileService, by source name *)

\* Nobody has asked a VRT: the service's first state.
LEMMA VRTInitRefines == VRTInit => VRTService!Init
  BY DEF VRTInit, Init, LRU!Init, VRTService!Init, vrtStatus, vrtRequest, vrtAnswer

\* What callers see is which goroutines ask, for what, and who has its answer.
LEMMA SeenLemma ==
  ASSUME \A p \in Procs :
            /\ stage[p] = "idle" <=> stage'[p] = "idle"
            /\ want'[p] = want[p] /\ tile'[p] = tile[p]
            /\ pc[p] = "done" <=> pc'[p] = "done"
            /\ pc[p] = "done" => buf'[p] = buf[p]
            /\ p \in refused <=> p \in refused'
  PROVE UNCHANGED VRTService!vars
  <1>1. UNCHANGED vrtStatus
    BY DEF vrtStatus
  <1>2. UNCHANGED vrtRequest
    BY DEF vrtRequest
  <1>3. UNCHANGED vrtAnswer
    BY DEF vrtAnswer
  <1> QED
    BY <1>1, <1>2, <1>3 DEF VRTService!vars

\* A goroutine that starts asks its source's name for a tile.
LEMMA AskRefines ==
  ASSUME VRTInv, NEW p \in Procs, NEW n \in Names, NEW t \in Tiles,
         stage[p] = "idle", stage' = [stage EXCEPT ![p] = "peek"] \/ stage' = [stage EXCEPT ![p] = "use"],
         want' = [want EXCEPT ![p] = n], tile' = [tile EXCEPT ![p] = t],
         UNCHANGED <<pc, buf, refused>>
  PROVE VRTService!Ask(p)
  <1>1. LRUFacts /\ LinkInv
    BY FactsLemma DEF VRTInv
  <1>2. pc[p] = "idle" /\ p \notin refused
    BY <1>1 DEF LinkInv
  <1>3. vrtStatus[p] = "idle" /\ vrtStatus' = [vrtStatus EXCEPT ![p] = "waiting"]
    BY <1>1, <1>2 DEF vrtStatus, LRUFacts
  <1>4. vrtRequest' = [vrtRequest EXCEPT ![p] = <<n, t>>]
    BY <1>1 DEF vrtRequest, LRUFacts, LinkInv
  <1>5. UNCHANGED vrtAnswer
    BY DEF vrtAnswer
  <1>6. <<n, t>> \in VRTService!Requests
    BY DEF VRTService!Requests
  <1> QED
    BY <1>3, <1>4, <1>5, <1>6 DEF VRTService!Ask

\* The goroutines of S, which wait for one tile of one name, are answered alike.
LEMMA AnswerRefines ==
  ASSUME VRTInv, NEW p \in Procs, NEW S \in SUBSET Procs, p \in S, pc[p] # "idle",
         NEW v \in {Failed, Decoded(req[p])},
         \A q \in S : pc[q] # "idle" /\ pc[q] # "done" /\ req[q] = req[p],
         \A q \in Procs : /\ pc'[q] = "done" <=> pc[q] = "done" \/ q \in S
                          /\ q \in S => buf'[q] = v
                          /\ q \notin S => buf'[q] = buf[q],
         UNCHANGED <<sources, tile, refused>>
  PROVE VRTService!Next
  <1> DEFINE r == <<want[p], tile[p]>>
  <1>0. Failed \notin Geos /\ LinkInv
    BY AssumptionsHold DEF VRTInv
  <1>1. r \in VRTService!Requests /\ v \in VRTService!Outcomes(r)
    BY DecodedByName DEF VRTService!Requests, VRTService!Outcomes
  <1>2. ASSUME NEW q \in S
        PROVE vrtStatus[q] = "waiting" /\ vrtRequest[q] = r
    <2>1. /\ stage[q] = "use" /\ got[q] = got[p] /\ tile[q] = tile[p] /\ got[q] \in Geos
      BY <1>0 DEF LinkInv
    <2>2. want[q] = want[p]
      BY <2>1, DecodedByName
    <2>3. q \notin refused
      BY <1>0, <2>1 DEF LinkInv
    <2> QED
      BY <2>1, <2>2, <2>3 DEF vrtStatus, vrtRequest
  <1>3. \A q \in S : stage[q] = "use"
    BY <1>0 DEF LinkInv
  <1>4. vrtStatus' = [q \in Procs |-> IF q \in S THEN "answered" ELSE vrtStatus[q]]
    BY <1>3 DEF vrtStatus, sources
  <1>5. vrtAnswer' = [q \in Procs |-> IF q \in S THEN v ELSE vrtAnswer[q]]
    BY DEF vrtAnswer
  <1>6. UNCHANGED vrtRequest
    BY DEF vrtRequest, sources
  <1> HIDE DEF r
  <1>7. VRTService!Answer(S, r)
    BY <1>1, <1>2, <1>4, <1>5, <1>6 DEF VRTService!Answer
  <1> QED
    BY <1>1, <1>7 DEF VRTService!Next

\* A step of getTileData answers those who wait for its tile, or changes nothing seen.
LEMMA FetchRefines ==
  ASSUME VRTInv, NEW p \in Procs, Fetching(p)
  PROVE VRTService!Next \/ UNCHANGED VRTService!vars
  <1>0. IInv /\ UNCHANGED <<sources, tile, refused>>
    BY DEF VRTInv, Fetching
  <1>1. CASE Hit(p)
    <2>1. /\ req[p] \in Requests /\ buf'[p] = Decoded(req[p])
          /\ pc[p] = "lookup" /\ pc'[p] = "done"
      BY <1>0, <1>1 DEF Hit, GoTo, IInv, TypeOK, CacheCorrect, Fresh
    <2>2. \A q \in Procs \ {p} : pc'[q] = pc[q] /\ buf'[q] = buf[q]
      BY <1>0, <1>1 DEF Hit, GoTo, IInv, TypeOK
    <2>3. PICK S \in SUBSET Procs : S = {p}
      OBVIOUS
    <2>4. \A q \in Procs : /\ pc'[q] = "done" <=> pc[q] = "done" \/ q \in S
                           /\ q \in S => buf'[q] = Decoded(req[p])
                           /\ q \notin S => buf'[q] = buf[q]
      BY <2>1, <2>2, <2>3
    <2>5. p \in S /\ pc[p] # "idle" /\ \A q \in S : pc[q] # "idle" /\ pc[q] # "done" /\ req[q] = req[p]
      BY <2>1, <2>3
    <2> QED
      BY <1>0, <2>4, <2>5, AnswerRefines
  <1>2. CASE Finish(p)
    <2>1. pc[p] = "finish" /\ buf[p] \in {Failed, Decoded(req[p])}
      BY <1>0, <1>2 DEF Finish, IInv, BufferFitsStage
    <2>2. /\ Sharing(p) \in SUBSET Procs /\ p \in Sharing(p)
          /\ \A q \in Sharing(p) : pc[q] \in {"finish", "wait"} /\ req[q] = req[p]
      BY <2>1 DEF Sharing
    <2>3. \A q \in Procs : /\ pc'[q] = (IF q \in Sharing(p) THEN "done" ELSE pc[q])
                           /\ buf'[q] = (IF q \in Sharing(p) THEN buf[p] ELSE buf[q])
      BY <1>2 DEF Finish
    <2>4. PICK S \in SUBSET Procs : S = Sharing(p)
      BY <2>2
    <2>5. \A q \in Procs : /\ pc'[q] = "done" <=> pc[q] = "done" \/ q \in S
                           /\ q \in S => buf'[q] = buf[p]
                           /\ q \notin S => buf'[q] = buf[q]
      BY <2>3, <2>4
    <2>6. p \in S /\ pc[p] # "idle" /\ \A q \in S : pc[q] # "idle" /\ pc[q] # "done" /\ req[q] = req[p]
      BY <2>1, <2>2, <2>4
    <2> QED
      BY <1>0, <2>1, <2>5, <2>6, AnswerRefines
  <1>3. CASE ~Hit(p) /\ ~Finish(p)
    <2>1. \A q \in Procs : /\ pc[q] = "done" <=> pc'[q] = "done"
                           /\ pc[q] = "done" => buf'[q] = buf[q]
      BY <1>0, <1>3 DEF Fetching, Enter, Read, Process, Miss, DoLead, DoJoin, Fetch, FetchFails,
                        Decode, DecodeFails, Store, GoTo, IInv, TypeOK
    <2> QED
      BY <1>0, <2>1, SeenLemma DEF sources
  <1> QED
    BY <1>1, <1>2, <1>3

\* A goroutine without a GeoTIFF gets the error.
LEMMA RefuseRefines ==
  ASSUME VRTInv, NEW p \in Procs, Refuse(p)
  PROVE VRTService!Next
  <1> DEFINE r == <<want[p], tile[p]>>
  <1>1. LRUFacts /\ LinkInv /\ Failed \notin Geos
    BY FactsLemma, AssumptionsHold DEF VRTInv
  <1>2. /\ stage[p] = "use" /\ got[p] = Failed /\ p \notin refused /\ pc[p] = "idle"
        /\ want[p] \in Names /\ tile[p] \in Tiles
    BY <1>1 DEF Refuse, LinkInv, LRUFacts
  <1>3. refused' = refused \cup {p} /\ UNCHANGED <<pc, buf, stage, want, tile>>
    BY DEF Refuse, vars, sources
  <1>4. vrtStatus[p] = "waiting" /\ vrtRequest[p] = r /\ r \in VRTService!Requests
    BY <1>2 DEF vrtStatus, vrtRequest, VRTService!Requests
  <1>5. /\ vrtStatus' = [q \in Procs |-> IF q \in {p} THEN "answered" ELSE vrtStatus[q]]
        /\ vrtAnswer' = [q \in Procs |-> IF q \in {p} THEN Failed ELSE vrtAnswer[q]]
        /\ UNCHANGED vrtRequest
    BY <1>2, <1>3 DEF vrtStatus, vrtAnswer, vrtRequest
  <1> HIDE DEF r
  <1>6. VRTService!Answer({p}, r)
    BY <1>4, <1>5 DEF VRTService!Answer, VRTService!Outcomes
  <1> QED
    BY <1>4, <1>6 DEF VRTService!Next

\* loc returns: the answer is taken.
LEMMA TakeRefines ==
  ASSUME VRTInv, NEW p \in Procs, Answer(p)
  PROVE VRTService!Take(p)
  <1>1. LRUFacts /\ LinkInv /\ IInv /\ Failed \notin Geos
    BY FactsLemma, AssumptionsHold DEF VRTInv
  <1>2. stage[p] = "use" /\ (pc[p] = "done" \/ p \in refused)
    BY DEF Answer, Return, LRU!Release
  <1>3. stage'[p] = "idle" /\ pc'[p] # "done" /\ p \notin refused'
    BY <1>1 DEF Answer, Return, GoTo, LRU!Release, LRU!GoTo, IInv, TypeOK, LinkInv, LRUFacts, vars
  <1>4. \A q \in Procs \ {p} :
           /\ stage'[q] = stage[q] /\ want'[q] = want[q] /\ tile'[q] = tile[q]
           /\ pc'[q] = pc[q] /\ buf'[q] = buf[q]
           /\ q \in refused <=> q \in refused'
    BY <1>1 DEF Answer, Return, GoTo, LRU!Release, LRU!GoTo, IInv, TypeOK, LinkInv, LRUFacts, vars
  <1>5. vrtStatus[p] = "answered" /\ vrtStatus' = [vrtStatus EXCEPT ![p] = "idle"]
    BY <1>2, <1>3, <1>4 DEF vrtStatus
  <1>6. vrtRequest' = [vrtRequest EXCEPT ![p] = None]
    BY <1>3, <1>4 DEF vrtRequest
  <1>7. vrtAnswer' = [vrtAnswer EXCEPT ![p] = None]
    BY <1>3, <1>4 DEF vrtAnswer
  <1> QED
    BY <1>5, <1>6, <1>7 DEF VRTService!Take

\* Every step is one of the service, or unseen.
LEMMA VRTStepRefines ==
  VRTInv /\ [VRTNext]_vrt => VRTService!Next \/ UNCHANGED VRTService!vars
  <1> SUFFICES ASSUME VRTInv, [VRTNext]_vrt
               PROVE VRTService!Next \/ UNCHANGED VRTService!vars
    OBVIOUS
  <1>0. LRUFacts /\ LinkInv /\ IInv /\ Failed \notin Geos
    BY FactsLemma, AssumptionsHold DEF VRTInv
  <1>1. ASSUME NEW p \in Procs, VRTService!Ask(p) \/ VRTService!Take(p) PROVE VRTService!Next
    BY <1>1 DEF VRTService!Next
  <1>2. ASSUME NEW p \in Procs, NEW n \in Names, NEW t \in Tiles, Ask(p, n, t)
        PROVE VRTService!Next
    BY <1>1, <1>2, AskRefines DEF Ask, LRU!Ask, LRU!GoTo, vars
  <1>3. ASSUME NEW p \in Procs, Locate(p) PROVE UNCHANGED VRTService!vars
    <2>1. /\ UNCHANGED <<vars, tile, refused, want>>
          /\ \A q \in Procs : stage[q] = "idle" <=> stage'[q] = "idle"
      BY <1>0, <1>3, LocateLemma
    <2> QED
      BY <2>1, SeenLemma DEF vars
  <1>4. ASSUME NEW p \in Procs, ReadTile(p) PROVE UNCHANGED VRTService!vars
    <2>1. \A q \in Procs : pc[q] = "done" <=> pc'[q] = "done"
      BY <1>0, <1>4 DEF ReadTile, Call, GoTo, IInv, TypeOK
    <2> QED
      BY <1>4, <2>1, SeenLemma DEF ReadTile, Call, sources
  <1>5. ASSUME NEW p \in Procs, NEW q \in Procs, NEW t \in Tiles, Prefetch(p, q, t)
        PROVE VRTService!Next
    <2>1. want[p] \in Names
      BY <1>0, <1>5 DEF Prefetch, LRU!Prefetch, LRUFacts
    <2> QED
      BY <1>1, <1>5, <2>1, AskRefines DEF Prefetch, LRU!Prefetch, LRU!GoTo, vars
  <1>6. ASSUME Background PROVE UNCHANGED VRTService!vars
    BY <1>6, SeenLemma DEF Background, Expire, Prune, LRU!Finalize, sources, vars
  <1>7. CASE UNCHANGED vrt
    BY <1>7, SeenLemma DEF vrt, vars, sources
  <1> QED
    BY <1>1, <1>2, <1>3, <1>4, <1>5, <1>6, <1>7, FetchRefines, RefuseRefines, TakeRefines
       DEF VRTNext

\* A VRT with its LRU, its shared cache and its prefetches behaves to its callers
\* as TileService says of its sources' names (the safety part; the run checks
\* liveness).
THEOREM VRTRefinement == VRTSafety => VRTServiceSafety
  BY VRTInitRefines, VRTStepRefines, VRTInvariance, PTL
     DEF VRTSafety, VRTServiceSafety, VRTService!Safety
=============================================================================
