------------------------- MODULE RemoteDecodeProofs -------------------------
(***************************************************************************)
(* For any goroutines, GeoTIFF values and tiles, and however the reads     *)
(* turn out: a libtiff handle is open and registered while it is used, is  *)
(* the only one of its GeoTIFF and is not left behind, and libtiff decodes *)
(* from the bytes of the goroutine that holds the decode lock.             *)
(***************************************************************************)
EXTENDS RemoteDecode, TLAPS

\* Whoever is not idle works for a request.
LEMMA Working ==
  ASSUME TypeOK, NEW p \in Procs, pc[p] # "idle"
  PROVE /\ req[p] \in Requests /\ req[p] # None
        /\ geo(p) \in Geos /\ tile(p) \in Tiles
  <1>1. req[p] \in Requests /\ req[p] # None
    BY NoneAssumption DEF TypeOK
  <1> QED
    BY <1>1 DEF Requests, geo, tile

\* A tile decoded from a file on disk is the one asked for or an error.
LEMMA FileResult ==
  ASSUME NEW p \in Procs, DecodeFromFile(p)
  PROVE \E v \in {Failed, req[p]} : /\ raw' = [raw EXCEPT ![p] = v]
                                    /\ req[p] \in Misreported => v = Failed
  <1>1. PICK v \in Results(req[p], Entry(None)) : raw' = [raw EXCEPT ![p] = v]
    BY DEF DecodeFromFile
  <1>2. Entry(None) # None /\ Entry(None).buf = None
    BY EntryAssumption DEF Entry
  <1>3. v \in {Failed, req[p]} /\ (req[p] \in Misreported => v = Failed)
    BY ONLY <1>1, <1>2 DEF Results, Misreported
  <1> QED
    BY <1>1, <1>3

-----------------------------------------------------------------------------
(* The steps of one goroutine, one lemma each *)

\* A request begins without a handle and without bytes.
LEMMA CallStep ==
  ASSUME IInv, NEW p \in Procs, NEW r \in Requests, Call(p, r)
  PROVE IInv'
  <1> USE DEF IInv
  <1>1. TypeOK'
    BY NoneAssumption DEF TypeOK, Call, shared, GoTo, Stages, Using
  <1>2. LocksHeld'
    BY NoneAssumption DEF TypeOK, Call, shared, GoTo, LocksHeld, geo
  <1>3. HandlesApart'
    BY NoneAssumption DEF TypeOK, Call, shared, GoTo, HandlesApart, geo
  <1>4. HandleOpenInUse'
    BY NoneAssumption DEF TypeOK, Call, shared, GoTo, HandleOpenInUse, Using, geo
  <1>5. NothingLeaks'
    BY NoneAssumption DEF TypeOK, Call, shared, GoTo, NothingLeaks
  <1>6. BufferIsDecoders'
    BY NoneAssumption DEF TypeOK, Call, shared, GoTo, BufferIsDecoders
  <1>7. ReadsFit'
    BY NoneAssumption DEF TypeOK, Call, shared, GoTo, ReadsFit, FullReads, Using, tile
  <1> QED
    BY <1>1, <1>2, <1>3, <1>4, <1>5, <1>6, <1>7

\* No size, no handle: the decode fails with the handle lock given back.
LEMMA SizeFailsStep ==
  ASSUME IInv, NEW p \in Procs, SizeFails(p)
  PROVE IInv'
  <1> USE DEF IInv
  <1>1. TypeOK'
    BY NoneAssumption DEF TypeOK, SizeFails, UnlockHandle, GoTo, Stages, Using
  <1>2. LocksHeld'
    BY NoneAssumption DEF TypeOK, SizeFails, UnlockHandle, GoTo, LocksHeld, geo
  <1>3. HandlesApart'
    BY NoneAssumption DEF TypeOK, SizeFails, UnlockHandle, GoTo, HandlesApart, geo
  <1>4. HandleOpenInUse'
    BY NoneAssumption DEF TypeOK, SizeFails, UnlockHandle, GoTo, HandleOpenInUse, Using, geo
  <1>5. NothingLeaks'
    BY NoneAssumption DEF TypeOK, SizeFails, UnlockHandle, GoTo, NothingLeaks
  <1>6. BufferIsDecoders'
    BY NoneAssumption DEF TypeOK, SizeFails, UnlockHandle, GoTo, BufferIsDecoders
  <1>7. ReadsFit'
    <2>1. /\ pc[p] = "check" /\ pc'[p] = "done" /\ raw'[p] = Failed /\ req' = req
          /\ prefetch' = prefetch /\ \A q \in Procs \ {p} : pc'[q] = pc[q] /\ raw'[q] = raw[q]
      BY DEF TypeOK, SizeFails, GoTo
    <2> QED
      BY <2>1 DEF ReadsFit, FullReads, Using
  <1> QED
    BY <1>1, <1>2, <1>3, <1>4, <1>5, <1>6, <1>7

\* A file on disk is decoded without touching what goroutines share.
LEMMA DecodeFromFileStep ==
  ASSUME IInv, NEW p \in Procs, DecodeFromFile(p)
  PROVE IInv'
  <1> USE DEF IInv
  <1>1. TypeOK'
    BY NoneAssumption DEF TypeOK, DecodeFromFile, Results, Entry, shared, GoTo, Stages, Using
  <1>2. LocksHeld'
    BY NoneAssumption DEF TypeOK, DecodeFromFile, shared, GoTo, LocksHeld, geo
  <1>3. HandlesApart'
    BY NoneAssumption DEF TypeOK, DecodeFromFile, shared, GoTo, HandlesApart, geo
  <1>4. HandleOpenInUse'
    BY NoneAssumption DEF TypeOK, DecodeFromFile, shared, GoTo, HandleOpenInUse, Using, geo
  <1>5. NothingLeaks'
    BY NoneAssumption DEF TypeOK, DecodeFromFile, shared, GoTo, NothingLeaks
  <1>6. BufferIsDecoders'
    BY NoneAssumption DEF TypeOK, DecodeFromFile, shared, GoTo, BufferIsDecoders
  <1>7. ReadsFit'
    <2>1. PICK v \in {Failed, req[p]} : /\ raw' = [raw EXCEPT ![p] = v]
                                        /\ req[p] \in Misreported => v = Failed
      BY FileResult
    <2>2. /\ raw'[p] \in {Failed, req[p]} /\ (req[p] \in Misreported => raw'[p] = Failed) /\ pc'[p] = "done" /\ req' = req
          /\ prefetch' = prefetch /\ \A q \in Procs \ {p} : pc'[q] = pc[q] /\ raw'[q] = raw[q]
      BY <2>1 DEF TypeOK, DecodeFromFile, GoTo
    <2> QED
      BY <2>2 DEF ReadsFit, FullReads, Using
  <1> QED
    BY <1>1, <1>2, <1>3, <1>4, <1>5, <1>6, <1>7

\* Whoever is done forgets its handle and its bytes.
LEMMA ReturnStep ==
  ASSUME IInv, NEW p \in Procs, Return(p)
  PROVE IInv'
  <1> USE DEF IInv
  <1>1. TypeOK'
    BY NoneAssumption DEF TypeOK, Return, shared, GoTo, Stages, Using
  <1>2. LocksHeld'
    BY NoneAssumption DEF TypeOK, Return, shared, GoTo, LocksHeld, geo
  <1>3. HandlesApart'
    BY NoneAssumption DEF TypeOK, Return, shared, GoTo, HandlesApart, geo
  <1>4. HandleOpenInUse'
    BY NoneAssumption DEF TypeOK, Return, shared, GoTo, HandleOpenInUse, Using, geo
  <1>5. NothingLeaks'
    BY NoneAssumption DEF TypeOK, Return, shared, GoTo, NothingLeaks
  <1>6. BufferIsDecoders'
    BY NoneAssumption DEF TypeOK, Return, shared, GoTo, BufferIsDecoders
  <1>7. ReadsFit'
    BY NoneAssumption DEF TypeOK, Return, shared, GoTo, ReadsFit, FullReads, Using, tile
  <1> QED
    BY <1>1, <1>2, <1>3, <1>4, <1>5, <1>6, <1>7

\* The handle lock goes to one goroutine.
LEMMA LockHandleStep ==
  ASSUME IInv, NEW p \in Procs, LockHandle(p)
  PROVE IInv'
  <1> USE DEF IInv
  <1>0. geo(p) \in Geos
    BY Working DEF LockHandle
  <1>1. TypeOK'
    BY NoneAssumption DEF TypeOK, LockHandle, shared, GoTo, Stages, Using
  <1>2. LocksHeld'
    <2>1. ASSUME NEW q \in Procs, pc[q] \in {"check", "opening"} PROVE geo(q) # geo(p)
      BY <2>1, NoneAssumption DEF LocksHeld, LockHandle
    <2> QED
      <3>1. /\ remoteTIFFMu'[geo(p)] = p /\ req' = req /\ readTIFFMu' = readTIFFMu
            /\ \A g \in Geos \ {geo(p)} : remoteTIFFMu'[g] = remoteTIFFMu[g]
            /\ \A q \in Procs \ {p} : pc'[q] = pc[q]
            /\ pc'[p] = "check"
        BY <1>0 DEF TypeOK, LockHandle, GoTo
      <3>2. \A q \in Procs : pc[q] \in {"check", "opening"} => geo(q) \in Geos
        BY Working
      <3>3. ASSUME NEW q \in Procs, pc'[q] \in {"check", "opening"}
            PROVE remoteTIFFMu'[geo(q)] = q
        BY <2>1, <3>1, <3>2, <3>3 DEF LocksHeld
      <3>4. ASSUME NEW q \in Procs, pc'[q] \in {"decode", "clear"}
            PROVE readTIFFMu'[geo(q)] = q
        BY <3>1, <3>4 DEF LocksHeld
      <3> QED
        BY <3>1, <3>3, <3>4 DEF LocksHeld, geo
  <1>3. HandlesApart'
    BY NoneAssumption DEF TypeOK, LockHandle, GoTo, HandlesApart, geo
  <1>4. HandleOpenInUse'
    BY NoneAssumption DEF TypeOK, LockHandle, GoTo, HandleOpenInUse, Using, geo
  <1>5. NothingLeaks'
    BY NoneAssumption DEF TypeOK, LockHandle, GoTo, NothingLeaks
  <1>6. BufferIsDecoders'
    BY NoneAssumption DEF TypeOK, LockHandle, GoTo, BufferIsDecoders
  <1>7. ReadsFit'
    <2>1. /\ pc[p] = "handle" /\ pc'[p] = "check" /\ req' = req /\ raw' = raw
          /\ prefetch' = prefetch /\ \A q \in Procs \ {p} : pc'[q] = pc[q]
      BY DEF TypeOK, LockHandle, GoTo
    <2> QED
      BY <2>1 DEF ReadsFit, FullReads, Using
  <1> QED
    BY <1>1, <1>2, <1>3, <1>4, <1>5, <1>6, <1>7

\* The handle another goroutine opened is open and the GeoTIFF's.
LEMMA UseHandleStep ==
  ASSUME IInv, NEW p \in Procs, UseHandle(p)
  PROVE IInv'
  <1> USE DEF IInv
  <1>0. /\ geo(p) \in Geos /\ remoteTIFF[geo(p)] \in Handles
        /\ remoteTIFF[geo(p)] \in open /\ remoteRegistry[remoteTIFF[geo(p)]] # None
    <2>1. geo(p) \in Geos
      BY Working DEF UseHandle
    <2>2. remoteTIFF[geo(p)] \in Handles
      BY <2>1 DEF UseHandle, TypeOK
    <2> QED
      BY <2>1, <2>2 DEF NothingLeaks
  <1>1. TypeOK'
    BY <1>0, NoneAssumption DEF TypeOK, UseHandle, UnlockHandle, GoTo, Stages, Using
  <1>4. HandleOpenInUse'
    <2>1. /\ handle'[p] = remoteTIFF[geo(p)] /\ req' = req /\ remoteTIFF' = remoteTIFF
          /\ open' = open /\ remoteRegistry' = remoteRegistry
          /\ \A q \in Procs \ {p} : pc'[q] = pc[q] /\ handle'[q] = handle[q]
      BY DEF TypeOK, UseHandle, GoTo
    <2>2. ASSUME NEW q \in Procs, pc'[q] \in Using
          PROVE /\ handle'[q] \in open /\ remoteRegistry[handle'[q]] # None
                /\ remoteTIFF[geo(q)] = handle'[q]
      BY <1>0, <2>1, <2>2 DEF HandleOpenInUse
    <2> QED
      BY <2>1, <2>2 DEF HandleOpenInUse, geo
  <1>5. LocksHeld'
    BY NoneAssumption DEF TypeOK, UseHandle, UnlockHandle, GoTo, LocksHeld, geo
  <1>6. HandlesApart'
    BY NoneAssumption DEF TypeOK, UseHandle, UnlockHandle, GoTo, HandlesApart, geo
  <1>7. NothingLeaks'
    BY NoneAssumption DEF TypeOK, UseHandle, UnlockHandle, GoTo, NothingLeaks
  <1>8. BufferIsDecoders'
    BY NoneAssumption DEF TypeOK, UseHandle, UnlockHandle, GoTo, BufferIsDecoders
  <1>9. ReadsFit'
    BY NoneAssumption DEF TypeOK, UseHandle, UnlockHandle, GoTo, ReadsFit, FullReads, Using, tile
  <1> QED
    BY <1>1, <1>4, <1>5, <1>6, <1>7, <1>8, <1>9

\* The reader is registered under a number that stands for nothing yet.
LEMMA RegisterStep ==
  ASSUME IInv, NEW p \in Procs, Register(p)
  PROVE IInv'
  <1> USE DEF IInv
  <1> DEFINE h == remoteIDCounter + 1
  <1>0. geo(p) \in Geos
    BY Working DEF Register
  <1>1. /\ h \in Handles /\ h # None /\ remoteRegistry[h] = None /\ h \notin open
        /\ remoteIDCounter' = h /\ remoteRegistry' = [remoteRegistry EXCEPT ![h] = Entry(None)]
        /\ handle' = [handle EXCEPT ![p] = h] /\ GoTo(p, "opening")
        /\ UNCHANGED <<req, prefetch, raw, remoteTIFF, remoteTIFFMu, readTIFFMu, open>>
    <2>1. remoteIDCounter \in Nat /\ h \in 1..MaxHandles
      BY HandlesAssumption DEF Register, TypeOK
    <2>2. h \in Handles /\ h # None /\ remoteRegistry[h] = None
      BY <2>1, NoneAssumption DEF Handles, HandlesApart
    <2> QED
      BY <2>2 DEF Register, NothingLeaks
  <1>2. \A g \in Geos : remoteTIFF[g] # h
    BY <1>1 DEF NothingLeaks
  <1>3. \A q \in Procs : pc[q] = "opening" \/ pc[q] \in Using => handle[q] # h
    BY <1>1, EntryAssumption DEF HandlesApart, HandleOpenInUse
  <1>e. Entry(None) # None
    BY EntryAssumption
  <1> HIDE DEF h
  <1>4. TypeOK'
    <2>1. remoteIDCounter' \in 0..MaxHandles
      BY <1>1, HandlesAssumption DEF Handles
    <2>2. remoteRegistry' \in [Handles -> [buf : Reads \cup {None}] \cup {None}]
      BY <1>1 DEF TypeOK, Entry
    <2>3. handle' \in [Procs -> Handles \cup {None}] /\ handle'[p] # None
          /\ pc' \in [Procs -> Stages] /\ pc'[p] = "opening"
      BY <1>1 DEF TypeOK, GoTo, Stages
    <2>4. /\ \A q \in Procs : pc'[q] = "idle" <=> req'[q] = None
          /\ \A q \in Procs : pc'[q] \in Using \cup {"opening"} => handle'[q] # None
      BY <1>1, <2>3 DEF TypeOK, GoTo, Register
    <2> QED
      BY <1>1, <2>1, <2>2, <2>3, <2>4 DEF TypeOK
  <1>5. LocksHeld'
    BY DEF TypeOK, Register, GoTo, LocksHeld, geo
  <1>6. HandlesApart'
    BY <1>1, <1>2, <1>3 DEF TypeOK, HandlesApart, GoTo, Handles, geo, Register
  <1>7. HandleOpenInUse'
    BY <1>1, <1>3 DEF TypeOK, HandleOpenInUse, GoTo, Using, geo
  <1>8. NothingLeaks'
    <2>1. \A x \in Handles : remoteRegistry'[x] # None <=> remoteRegistry[x] # None \/ x = h
      BY <1>1, <1>e DEF TypeOK
    <2>2. ASSUME NEW x \in Handles
          PROVE (\E q \in Procs : pc'[q] = "opening" /\ handle'[q] = x)
                <=> x = h \/ \E q \in Procs : pc[q] = "opening" /\ handle[q] = x
      <3>1. pc'[p] = "opening" /\ handle'[p] = h /\ pc[p] # "opening"
        BY <1>1 DEF TypeOK, GoTo, Register
      <3>2. \A q \in Procs \ {p} : pc'[q] = pc[q] /\ handle'[q] = handle[q]
        BY <1>1 DEF TypeOK, GoTo
      <3> QED
        BY <3>1, <3>2
    <2> QED
      BY <1>1, <2>1, <2>2 DEF NothingLeaks
  <1>9. BufferIsDecoders'
    <2>1. /\ \A q \in Procs \ {p} : pc'[q] = pc[q] /\ handle'[q] = handle[q]
          /\ pc[p] = "check" /\ pc'[p] = "opening" /\ prefetch' = prefetch
      BY <1>1 DEF TypeOK, GoTo, Register
    <2>2. /\ \A x \in Handles \ {h} : remoteRegistry'[x] = remoteRegistry[x]
          /\ remoteRegistry'[h].buf = None
      BY <1>1 DEF TypeOK, Entry
    <2>3. \A q \in Procs : pc[q] \in {"decode", "clear"} =>
              handle[q] \in Handles /\ handle[q] # h
      BY <1>3, NoneAssumption DEF TypeOK, Using
    <2> QED
      BY <2>1, <2>2, <2>3 DEF BufferIsDecoders
  <1>10. ReadsFit'
    BY DEF TypeOK, Register, GoTo, ReadsFit, FullReads, Using, tile
  <1> QED
    BY <1>4, <1>5, <1>6, <1>7, <1>8, <1>9, <1>10

\* libtiff has opened the handle: it becomes the GeoTIFF's only one.
LEMMA ClientOpenStep ==
  ASSUME IInv, NEW p \in Procs, ClientOpen(p)
  PROVE IInv'
  <1> USE DEF IInv
  <1> DEFINE h == handle[p]
  <1>1. /\ geo(p) \in Geos /\ h \in Handles /\ h # None /\ pc[p] = "opening"
        /\ remoteTIFF[geo(p)] = None /\ remoteRegistry[h] = Entry(None)
        /\ open' = open \cup {h} /\ remoteTIFF' = [remoteTIFF EXCEPT ![geo(p)] = h]
        /\ GoTo(p, "prefetch")
        /\ UNCHANGED <<req, handle, prefetch, raw, readTIFFMu, remoteRegistry, remoteIDCounter>>
    BY Working DEF ClientOpen, TypeOK, HandlesApart
  <1>2. /\ \A g \in Geos : remoteTIFF[g] # h
        /\ \A q \in Procs : pc[q] = "opening" /\ handle[q] = h => q = p
    BY <1>1 DEF HandlesApart
  <1>3. ASSUME NEW q \in Procs, q # p, pc[q] = "opening" \/ pc[q] \in Using
        PROVE handle[q] # h /\ geo(q) \in Geos
    BY <1>2, <1>3, Working DEF HandleOpenInUse, Using
  <1>4. ASSUME NEW q \in Procs, q # p, pc[q] = "opening" PROVE geo(q) # geo(p)
    BY <1>1, <1>4 DEF LocksHeld
  <1>5. ASSUME NEW q \in Procs, pc[q] \in Using PROVE geo(q) # geo(p)
    BY <1>1, <1>5, NoneAssumption DEF HandleOpenInUse, TypeOK, Using
  <1>6. Entry(None) # None
    BY EntryAssumption
  <1> HIDE DEF h
  <1>7. TypeOK'
    BY <1>1, NoneAssumption DEF TypeOK, ClientOpen, UnlockHandle, GoTo, Stages, Using
  <1>8. HandlesApart'
    BY <1>1, <1>2, <1>3, <1>4 DEF TypeOK, HandlesApart, GoTo, geo
  <1>9. HandleOpenInUse'
    BY <1>1, <1>3, <1>5, <1>6 DEF TypeOK, HandleOpenInUse, GoTo, Using, geo, h
  <1>10. NothingLeaks'
    <2>1. \A x \in Handles : (\E g \in Geos : remoteTIFF'[g] = x)
                            <=> x = h \/ \E g \in Geos : remoteTIFF[g] = x
      BY <1>1, NoneAssumption DEF TypeOK
    <2>2. \A x \in Handles : (\E q \in Procs : pc'[q] = "opening" /\ handle'[q] = x) \/ x = h
              <=> (\E q \in Procs : pc[q] = "opening" /\ handle[q] = x)
      <3>1. pc'[p] # "opening" /\ pc[p] = "opening" /\ handle[p] = h
        BY <1>1 DEF TypeOK, GoTo, h
      <3>2. \A q \in Procs \ {p} : pc'[q] = pc[q] /\ handle'[q] = handle[q]
        BY <1>1 DEF TypeOK, GoTo
      <3> QED
        BY <1>1, <3>1, <3>2
    <2> QED
      BY <1>1, <2>1, <2>2 DEF NothingLeaks
  <1>11. LocksHeld'
    BY NoneAssumption DEF TypeOK, ClientOpen, UnlockHandle, GoTo, LocksHeld, geo
  <1>12. BufferIsDecoders'
    BY NoneAssumption DEF TypeOK, ClientOpen, UnlockHandle, GoTo, BufferIsDecoders
  <1>13. ReadsFit'
    BY NoneAssumption DEF TypeOK, ClientOpen, UnlockHandle, GoTo, ReadsFit, FullReads, Using, tile
  <1> QED
    BY <1>7, <1>8, <1>9, <1>10, <1>11, <1>12, <1>13

\* libtiff could not: the registration is taken back.
LEMMA ClientOpenFailsStep ==
  ASSUME IInv, NEW p \in Procs, ClientOpenFails(p)
  PROVE IInv'
  <1> USE DEF IInv
  <1> DEFINE h == handle[p]
  <1>1. /\ geo(p) \in Geos /\ h \in Handles /\ h # None /\ pc[p] = "opening"
        /\ remoteRegistry' = [remoteRegistry EXCEPT ![h] = None]
        /\ GoTo(p, "done")
        /\ UNCHANGED <<req, handle, prefetch, remoteTIFF, readTIFFMu, remoteIDCounter, open>>
    BY Working DEF ClientOpenFails, TypeOK
  <1>2. /\ \A g \in Geos : remoteTIFF[g] # h
        /\ \A q \in Procs : pc[q] = "opening" /\ handle[q] = h => q = p
    BY <1>1 DEF HandlesApart
  <1>3. ASSUME NEW q \in Procs, q # p, pc[q] = "opening" \/ pc[q] \in Using
        PROVE handle[q] # h
    BY <1>2, <1>3, Working DEF HandleOpenInUse, Using
  <1> HIDE DEF h
  <1>4. HandleOpenInUse'
    BY <1>1, <1>3 DEF TypeOK, HandleOpenInUse, GoTo, Using, geo
  <1>5. NothingLeaks'
    <2>1. \A x \in Handles : remoteRegistry'[x] # None <=> remoteRegistry[x] # None /\ x # h
      BY <1>1 DEF TypeOK
    <2>2. ASSUME NEW x \in Handles
          PROVE (\E q \in Procs : pc'[q] = "opening" /\ handle'[q] = x)
                <=> x # h /\ \E q \in Procs : pc[q] = "opening" /\ handle[q] = x
      <3>1. pc'[p] # "opening" /\ pc[p] = "opening" /\ handle[p] = h
        BY <1>1 DEF TypeOK, GoTo, h
      <3>2. \A q \in Procs \ {p} : pc'[q] = pc[q] /\ handle'[q] = handle[q]
        BY <1>1 DEF TypeOK, GoTo
      <3> QED
        BY <1>1, <1>2, <3>1, <3>2
    <2> QED
      BY <1>1, <1>2, <2>1, <2>2 DEF NothingLeaks
  <1>6. BufferIsDecoders'
    <2>1. /\ \A q \in Procs \ {p} : pc'[q] = pc[q]
          /\ pc[p] = "opening" /\ pc'[p] = "done"
      BY <1>1 DEF TypeOK, GoTo
    <2>2. /\ \A x \in Handles \ {h} : remoteRegistry'[x] = remoteRegistry[x]
          /\ remoteRegistry'[h] = None
      BY <1>1 DEF TypeOK
    <2>3. \A q \in Procs : pc[q] \in {"decode", "clear"} =>
              handle[q] \in Handles /\ handle[q] # h
      BY <1>1, <1>3, NoneAssumption DEF TypeOK, Using
    <2> QED
      BY <1>1, <2>1, <2>2, <2>3 DEF BufferIsDecoders
  <1>7. TypeOK'
    BY NoneAssumption DEF TypeOK, ClientOpenFails, UnlockHandle, GoTo, Stages, Using
  <1>8. LocksHeld'
    BY NoneAssumption DEF TypeOK, ClientOpenFails, UnlockHandle, GoTo, LocksHeld, geo
  <1>9. HandlesApart'
    BY NoneAssumption DEF TypeOK, ClientOpenFails, UnlockHandle, GoTo, HandlesApart, geo
  <1>10. ReadsFit'
    BY NoneAssumption DEF TypeOK, ClientOpenFails, UnlockHandle, GoTo, ReadsFit, FullReads, Using, tile
  <1> QED
    BY <1>4, <1>5, <1>6, <1>7, <1>8, <1>9, <1>10


\* The tile is read ahead, or not, into bytes of this goroutine's own.
LEMMA PrefetchStep ==
  ASSUME IInv, NEW p \in Procs, Prefetch(p)
  PROVE IInv'
  <1> USE DEF IInv
  <1>0. PICK b \in {None} \cup FullReads(req[p]) : prefetch' = [prefetch EXCEPT ![p] = b]
    BY DEF Prefetch
  <1>1. req[p] \in Requests /\ FullReads(req[p]) \subseteq Reads
    <2>1. req[p] \in Requests
      BY Working DEF Prefetch
    <2>2. Read(req[p], TRUE) \in Reads /\ Read(req[p], FALSE) \in Reads
      BY <2>1 DEF Read, Reads
    <2> QED
      BY <2>1, <2>2 DEF FullReads
  <1>2. TypeOK'
    BY <1>0, <1>1, NoneAssumption DEF TypeOK, Prefetch, shared, GoTo, Stages, Using
  <1>3. BufferIsDecoders'
    BY <1>0 DEF TypeOK, Prefetch, shared, GoTo, BufferIsDecoders
  <1>4. ReadsFit'
    BY <1>0 DEF TypeOK, Prefetch, shared, GoTo, ReadsFit, FullReads, Using, tile
  <1>5. LocksHeld'
    BY NoneAssumption DEF TypeOK, Prefetch, shared, GoTo, LocksHeld, geo
  <1>6. HandlesApart'
    BY NoneAssumption DEF TypeOK, Prefetch, shared, GoTo, HandlesApart, geo
  <1>7. HandleOpenInUse'
    BY NoneAssumption DEF TypeOK, Prefetch, shared, GoTo, HandleOpenInUse, Using, geo
  <1>8. NothingLeaks'
    BY NoneAssumption DEF TypeOK, Prefetch, shared, GoTo, NothingLeaks
  <1> QED
    BY <1>2, <1>3, <1>4, <1>5, <1>6, <1>7, <1>8

\* The decode lock is free, so nobody's bytes are lent to the handle.
LEMMA LockDecodeStep ==
  ASSUME IInv, NEW p \in Procs, LockDecode(p)
  PROVE IInv'
  <1> USE DEF IInv
  <1> DEFINE h == handle[p]
  <1>1. /\ pc[p] = "lock" /\ geo(p) \in Geos /\ h \in Handles
        /\ h \in open /\ remoteTIFF[geo(p)] = h
        /\ prefetch[p] \in {None} \cup Reads
    BY Working, NoneAssumption DEF LockDecode, TypeOK, HandleOpenInUse, Using
  <1>2. ASSUME NEW q \in Procs, pc[q] \in {"decode", "clear"}
        PROVE geo(q) # geo(p) /\ handle[q] # h /\ geo(q) \in Geos /\ handle[q] \in Handles
    <2>1. geo(q) # geo(p)
      BY <1>2, NoneAssumption DEF LocksHeld, LockDecode
    <2>2. geo(q) \in Geos /\ remoteTIFF[geo(q)] = handle[q] /\ handle[q] \in Handles
      BY <1>2, Working, NoneAssumption DEF HandleOpenInUse, Using, TypeOK
    <2> QED
      BY <1>1, <2>1, <2>2, NoneAssumption DEF HandlesApart
  <1>3. remoteRegistry[h] = Entry(None)
    <2>1. remoteRegistry[h] # None
      BY <1>1 DEF HandleOpenInUse, Using
    <2>2. remoteRegistry[h].buf = None
      BY <1>1, <1>2, <2>1 DEF BufferIsDecoders
    <2> QED
      BY <1>1, <2>1, <2>2 DEF TypeOK, Entry
  <1>4. remoteRegistry' = [remoteRegistry EXCEPT ![h] = Entry(prefetch[p])]
    <2>1. CASE prefetch[p] = None
      BY <1>1, <1>3, <2>1 DEF LockDecode, Lend, TypeOK
    <2>2. CASE prefetch[p] # None
      BY <1>3, <2>2, EntryAssumption DEF LockDecode, Lend
    <2> QED
      BY <2>1, <2>2
  <1>5. Entry(prefetch[p]) # None /\ Entry(prefetch[p]) \in [buf : Reads \cup {None}]
    BY <1>1, EntryAssumption DEF Entry
  <1>6. /\ pc'[p] = "decode" /\ \A q \in Procs \ {p} : pc'[q] = pc[q]
        /\ \A x \in Handles \ {h} : remoteRegistry'[x] = remoteRegistry[x]
        /\ remoteRegistry'[h] = Entry(prefetch[p])
        /\ UNCHANGED <<req, handle, prefetch, raw, remoteTIFF, remoteTIFFMu, remoteIDCounter, open>>
    BY <1>1, <1>4 DEF LockDecode, GoTo, TypeOK
  <1>7. TypeOK'
    BY <1>1, <1>4, <1>5, NoneAssumption DEF TypeOK, LockDecode, GoTo, Stages, Using
  <1>8. LocksHeld'
    BY <1>1, <1>2 DEF TypeOK, LockDecode, GoTo, LocksHeld, geo
  <1> HIDE DEF h
  <1>9. HandlesApart'
    <2>1. remoteRegistry[h] # None /\ \A q \in Procs : pc[q] = "opening" => handle[q] # h
      BY <1>1, <1>3, EntryAssumption DEF HandlesApart
    <2>2. \A q \in Procs : pc[q] = "opening" => handle[q] \in Handles
      BY NoneAssumption DEF TypeOK
    <2> QED
      BY <1>1, <1>6, <2>1, <2>2 DEF HandlesApart, TypeOK, geo
  <1>10. HandleOpenInUse'
    <2>1. \A x \in Handles : remoteRegistry[x] # None => remoteRegistry'[x] # None
      BY <1>5, <1>6
    <2>2. \A q \in Procs : pc[q] \in Using => handle[q] \in Handles
      BY NoneAssumption DEF TypeOK
    <2>3. \A q \in Procs : pc'[q] \in Using => pc[q] \in Using
      BY <1>1, <1>6 DEF Using
    <2> QED
      BY <1>6, <2>1, <2>2, <2>3 DEF HandleOpenInUse, geo
  <1>11. NothingLeaks'
    <2>1. \A x \in Handles : remoteRegistry'[x] # None <=> remoteRegistry[x] # None
      BY <1>3, <1>5, <1>6, EntryAssumption
    <2>2. \A q \in Procs : pc'[q] = "opening" <=> pc[q] = "opening"
      BY <1>1, <1>6
    <2> QED
      BY <1>6, <2>1, <2>2 DEF NothingLeaks
  <1>12. BufferIsDecoders'
    <2>1. \A x \in Handles \ {h} : remoteRegistry'[x] # None /\ remoteRegistry'[x].buf # None =>
              \E q \in Procs : pc'[q] \in {"decode", "clear"} /\ handle'[q] = x
      BY <1>1, <1>6 DEF BufferIsDecoders
    <2>2. \A q \in Procs : pc'[q] \in {"decode", "clear"} =>
              remoteRegistry'[handle[q]] = Entry(prefetch[q])
      BY <1>1, <1>2, <1>6 DEF BufferIsDecoders, h
    <2> QED
      BY <1>1, <1>6, <2>1, <2>2 DEF BufferIsDecoders, h
  <1>13. ReadsFit'
    BY <1>1, <1>6 DEF ReadsFit, FullReads, Using, tile
  <1> QED
    BY <1>7, <1>8, <1>9, <1>10, <1>11, <1>12, <1>13

\* Bytes lent to the handle are this goroutine's, whole or of a tile cut off.
LEMMA ReadTileStep ==
  ASSUME IInv, NEW p \in Procs, ReadTile(p)
  PROVE IInv'
  <1> USE DEF IInv
  <1>1. /\ pc[p] = "decode" /\ req[p] \in Requests
        /\ remoteRegistry[handle[p]] = Entry(prefetch[p])
        /\ prefetch[p] \in {None} \cup FullReads(req[p])
        /\ req[p][1] \notin LocalGeos
    BY Working DEF ReadTile, BufferIsDecoders, ReadsFit, Using
  <1>2. PICK v \in Results(req[p], remoteRegistry[handle[p]]) : raw' = [raw EXCEPT ![p] = v]
    BY DEF ReadTile
  <1>3. /\ req[p] \notin Misreported => v \in {Failed, req[p]}
        /\ req[p] \in Misreported => v \in {Failed, Garbage}
    <2>1. CASE prefetch[p] = None
      BY <1>1, <1>2, <2>1, EntryAssumption DEF Results, Entry, Misreported
    <2>2. ASSUME prefetch[p] # None, prefetch[p] \in FullReads(req[p])
          PROVE /\ req[p] \notin Misreported => v \in {Failed, req[p]}
                /\ req[p] \in Misreported => v \in {Failed, Garbage}
      <3>1. Entry(prefetch[p]) # None
        BY <1>1, <2>2, EntryAssumption DEF FullReads, Read, Reads
      <3>2. Entry(prefetch[p]).buf = prefetch[p]
        BY DEF Entry
      <3>3. /\ req[p][2] \in CutTiles \cap ChunkedTiles => prefetch[p] = Read(req[p], FALSE)
            /\ req[p][2] \notin CutTiles \cap ChunkedTiles => prefetch[p] = Read(req[p], TRUE)
        BY ONLY <2>2 DEF FullReads
      <3>4. /\ req[p][2] \in CutTiles \cap ChunkedTiles => v \in {Failed, Garbage}
            /\ req[p][2] \notin CutTiles \cap ChunkedTiles => v \in {Failed, req[p]}
        BY ONLY <1>1, <1>2, <2>2, <3>1, <3>2, <3>3 DEF Results, Read
      <3> QED
        BY ONLY <1>1, <3>4 DEF Misreported
    <2> QED
      BY <1>1, <2>1, <2>2
  <1>4. TypeOK'
    <2>1. v \in Requests \cup {Failed, Garbage}
      BY ONLY <1>1, <1>3
    <2> QED
      BY <1>2, <2>1 DEF TypeOK, ReadTile, shared, GoTo, Stages, Using
  <1>5. ReadsFit'
    BY <1>1, <1>2, <1>3 DEF TypeOK, ReadTile, shared, GoTo, ReadsFit, FullReads, Using, tile
  <1>6. LocksHeld'
    BY NoneAssumption DEF TypeOK, ReadTile, shared, GoTo, LocksHeld, geo
  <1>7. HandlesApart'
    BY NoneAssumption DEF TypeOK, ReadTile, shared, GoTo, HandlesApart, geo
  <1>8. HandleOpenInUse'
    BY NoneAssumption DEF TypeOK, ReadTile, shared, GoTo, HandleOpenInUse, Using, geo
  <1>9. NothingLeaks'
    BY NoneAssumption DEF TypeOK, ReadTile, shared, GoTo, NothingLeaks
  <1>10. BufferIsDecoders'
    BY NoneAssumption DEF TypeOK, ReadTile, shared, GoTo, BufferIsDecoders
  <1> QED
    BY <1>4, <1>5, <1>6, <1>7, <1>8, <1>9, <1>10

\* The bytes are taken back before the decode lock is given up.
LEMMA UnlockDecodeStep ==
  ASSUME IInv, NEW p \in Procs, UnlockDecode(p)
  PROVE IInv'
  <1> USE DEF IInv
  <1> DEFINE h == handle[p]
  <1>1. /\ pc[p] = "clear" /\ geo(p) \in Geos /\ h \in Handles
        /\ remoteRegistry[h] = Entry(prefetch[p]) /\ remoteRegistry[h] # None
        /\ prefetch[p] \in {None} \cup Reads
    BY Working, NoneAssumption
       DEF UnlockDecode, TypeOK, HandleOpenInUse, BufferIsDecoders, Using
  <1>2. ASSUME NEW q \in Procs, pc[q] \in {"decode", "clear"}, q # p
        PROVE geo(q) # geo(p) /\ handle[q] # h /\ geo(q) \in Geos /\ handle[q] \in Handles
    <2>1. geo(q) # geo(p)
      BY <1>1, <1>2 DEF LocksHeld
    <2>2. geo(q) \in Geos /\ remoteTIFF[geo(q)] = handle[q] /\ handle[q] \in Handles
          /\ remoteTIFF[geo(p)] = h
      BY <1>1, <1>2, Working, NoneAssumption DEF HandleOpenInUse, Using, TypeOK
    <2> QED
      BY <1>1, <2>1, <2>2, NoneAssumption DEF HandlesApart
  <1>3. remoteRegistry' = [remoteRegistry EXCEPT ![h] = Entry(None)]
    <2>1. CASE prefetch[p] = None
      BY <1>1, <2>1 DEF UnlockDecode, TypeOK
    <2>2. CASE prefetch[p] # None
      BY <1>1, <2>2 DEF UnlockDecode
    <2> QED
      BY <2>1, <2>2
  <1>4. Entry(None) # None /\ Entry(None) \in [buf : Reads \cup {None}] /\ Entry(None).buf = None
    BY EntryAssumption DEF Entry
  <1>5. /\ pc'[p] = "done" /\ \A q \in Procs \ {p} : pc'[q] = pc[q]
        /\ \A x \in Handles \ {h} : remoteRegistry'[x] = remoteRegistry[x]
        /\ remoteRegistry'[h] = Entry(None)
        /\ UNCHANGED <<req, handle, prefetch, raw, remoteTIFF, remoteTIFFMu, remoteIDCounter, open>>
    BY <1>1, <1>3 DEF UnlockDecode, GoTo, TypeOK
  <1>6. TypeOK'
    BY <1>1, <1>3, <1>4, NoneAssumption DEF TypeOK, UnlockDecode, GoTo, Stages, Using
  <1>7. LocksHeld'
    BY <1>1, <1>2 DEF TypeOK, UnlockDecode, GoTo, LocksHeld, geo
  <1> HIDE DEF h
  <1>8. HandlesApart'
    <2>1. \A q \in Procs : pc[q] = "opening" => handle[q] \in Handles
      BY NoneAssumption DEF TypeOK
    <2> QED
      BY <1>1, <1>5, <2>1 DEF HandlesApart, TypeOK, geo
  <1>9. HandleOpenInUse'
    <2>1. \A x \in Handles : remoteRegistry[x] # None => remoteRegistry'[x] # None
      BY <1>4, <1>5
    <2>2. \A q \in Procs : pc[q] \in Using => handle[q] \in Handles
      BY NoneAssumption DEF TypeOK
    <2>3. \A q \in Procs : pc'[q] \in Using => pc[q] \in Using
      BY <1>1, <1>5 DEF Using
    <2> QED
      BY <1>5, <2>1, <2>2, <2>3 DEF HandleOpenInUse, geo
  <1>10. NothingLeaks'
    <2>1. \A x \in Handles : remoteRegistry'[x] # None <=> remoteRegistry[x] # None
      BY <1>1, <1>4, <1>5
    <2>2. \A q \in Procs : pc'[q] = "opening" <=> pc[q] = "opening"
      BY <1>1, <1>5
    <2> QED
      BY <1>5, <2>1, <2>2 DEF NothingLeaks
  <1>11. BufferIsDecoders'
    <2>1. ASSUME NEW x \in Handles \ {h}, remoteRegistry'[x] # None, remoteRegistry'[x].buf # None
          PROVE \E q \in Procs : pc'[q] \in {"decode", "clear"} /\ handle'[q] = x
      <3>1. PICK q \in Procs : pc[q] \in {"decode", "clear"} /\ handle[q] = x
        BY <1>5, <2>1 DEF BufferIsDecoders
      <3>2. q # p
        BY <2>1, <3>1 DEF h
      <3> QED
        BY <1>5, <3>1, <3>2
    <2>2. \A q \in Procs : pc'[q] \in {"decode", "clear"} =>
              remoteRegistry'[handle[q]] = Entry(prefetch[q])
      BY <1>1, <1>2, <1>5 DEF BufferIsDecoders
    <2> QED
      BY <1>4, <1>5, <2>1, <2>2 DEF BufferIsDecoders
  <1>12. ReadsFit'
    BY <1>1, <1>5 DEF ReadsFit, FullReads, Using, tile
  <1> QED
    BY <1>6, <1>7, <1>8, <1>9, <1>10, <1>11, <1>12

\* The collector only takes a GeoTIFF no goroutine has.
LEMMA finalizeRemoteStep ==
  ASSUME IInv, NEW g \in Geos, finalizeRemote(g)
  PROVE IInv'
  <1> USE DEF IInv
  <1> DEFINE h == remoteTIFF[g]
  <1>1. /\ h \in Handles /\ h # None /\ open' = open \ {h}
        /\ remoteRegistry' = [remoteRegistry EXCEPT ![h] = None]
        /\ remoteTIFF' = [remoteTIFF EXCEPT ![g] = None]
        /\ UNCHANGED <<pc, req, handle, prefetch, raw, remoteTIFFMu, readTIFFMu, remoteIDCounter>>
    BY DEF finalizeRemote, TypeOK, locals
  <1>2. ASSUME NEW q \in Procs, pc[q] # "idle" PROVE geo(q) # g /\ geo(q) \in Geos
    BY <1>2, Working DEF finalizeRemote
  <1>3. ASSUME NEW q \in Procs, pc[q] \in Using \cup {"opening"}
        PROVE handle[q] # h /\ handle[q] \in Handles
    <2>1. geo(q) # g /\ geo(q) \in Geos /\ handle[q] \in Handles
      BY <1>2, <1>3, NoneAssumption DEF TypeOK, Using
    <2>2. CASE pc[q] = "opening"
      BY <2>1, <2>2 DEF HandlesApart
    <2>3. CASE pc[q] \in Using
      BY <1>1, <2>1, <2>3 DEF HandleOpenInUse, HandlesApart
    <2> QED
      BY <1>3, <2>1, <2>2, <2>3
  <1>4. /\ \A x \in Handles \ {h} : remoteRegistry'[x] = remoteRegistry[x]
        /\ remoteRegistry'[h] = None
        /\ \A k \in Geos \ {g} : remoteTIFF'[k] = remoteTIFF[k] /\ remoteTIFF[k] # h
        /\ remoteTIFF'[g] = None
    BY <1>1 DEF TypeOK, HandlesApart
  <1> HIDE DEF h
  <1>5. TypeOK'
    BY <1>1 DEF TypeOK
  <1>6. LocksHeld'
    BY <1>1 DEF LocksHeld, geo
  <1>7. HandlesApart'
    <2>1. \A q \in Procs : pc[q] = "opening" => handle[q] \in Handles /\ handle[q] # h
      BY <1>3
    <2>2. \A q \in Procs : pc[q] = "opening" => geo(q) # g /\ geo(q) \in Geos
      BY <1>2
    <2>3. \A x \in Handles : x > remoteIDCounter' => remoteRegistry'[x] = None
      BY <1>1, <1>4 DEF HandlesApart
    <2>4. \A k, m \in Geos : remoteTIFF'[k] # None /\ remoteTIFF'[k] = remoteTIFF'[m] => k = m
      BY <1>4 DEF HandlesApart
    <2>5. \A k \in Geos, x \in Handles : remoteTIFF'[k] = x => remoteTIFF[k] = x
      BY <1>4, NoneAssumption
    <2> QED
      BY <1>1, <1>4, <2>1, <2>2, <2>3, <2>4, <2>5 DEF HandlesApart, geo
  <1>8. HandleOpenInUse'
    <2>1. \A q \in Procs : pc[q] \in Using => /\ handle[q] \in Handles /\ handle[q] # h
                                              /\ geo(q) # g /\ geo(q) \in Geos
      BY <1>2, <1>3 DEF Using
    <2> QED
      BY <1>1, <1>4, <2>1 DEF HandleOpenInUse, geo
  <1>9. NothingLeaks'
    <2>1. \A x \in Handles : (\E k \in Geos : remoteTIFF'[k] = x)
                            <=> x # h /\ \E k \in Geos : remoteTIFF[k] = x
      BY <1>1, <1>4, NoneAssumption DEF h
    <2>2. \A q \in Procs : pc[q] = "opening" => handle[q] # h
      BY <1>3
    <2> QED
      BY <1>1, <1>4, <2>1, <2>2 DEF NothingLeaks
  <1>10. BufferIsDecoders'
    <2>1. \A q \in Procs : pc[q] \in {"decode", "clear"} =>
              handle[q] \in Handles /\ handle[q] # h
      BY <1>3 DEF Using
    <2> QED
      BY <1>1, <1>4, <2>1 DEF BufferIsDecoders
  <1>11. ReadsFit'
    BY <1>1 DEF ReadsFit, FullReads, Using, tile
  <1> QED
    BY <1>5, <1>6, <1>7, <1>8, <1>9, <1>10, <1>11

-----------------------------------------------------------------------------

\* No goroutine, no handle: the invariant holds at the start.
LEMMA InitIInv == Init => IInv
  <1> SUFFICES ASSUME Init PROVE IInv
    OBVIOUS
  <1> USE NoneAssumption, HandlesAssumption DEF Init
  <1>1. TypeOK
    BY DEF TypeOK, Stages, Using
  <1>2. LocksHeld /\ HandlesApart /\ HandleOpenInUse
    BY DEF LocksHeld, HandlesApart, HandleOpenInUse, Using
  <1>3. NothingLeaks /\ BufferIsDecoders /\ ReadsFit
    BY DEF NothingLeaks, BufferIsDecoders, ReadsFit, Using
  <1> QED
    BY <1>1, <1>2, <1>3 DEF IInv

\* Every step keeps it.
LEMMA StepIInv == IInv /\ [Next]_vars => IInv'
  <1> SUFFICES ASSUME IInv, [Next]_vars PROVE IInv'
    OBVIOUS
  <1>1. ASSUME NEW p \in Procs, NEW r \in Requests, Call(p, r) PROVE IInv'
    BY <1>1, CallStep
  <1>2. ASSUME NEW p \in Procs, LockHandle(p) PROVE IInv'
    BY <1>2, LockHandleStep
  <1>3. ASSUME NEW p \in Procs, Open(p) PROVE IInv'
    BY <1>3, UseHandleStep, SizeFailsStep, RegisterStep, ClientOpenStep, ClientOpenFailsStep
       DEF Open
  <1>4. ASSUME NEW p \in Procs, Prefetch(p) PROVE IInv'
    BY <1>4, PrefetchStep
  <1>5. ASSUME NEW p \in Procs, LockDecode(p) PROVE IInv'
    BY <1>5, LockDecodeStep
  <1>6. ASSUME NEW p \in Procs, Decode(p) PROVE IInv'
    BY <1>6, ReadTileStep, UnlockDecodeStep, DecodeFromFileStep DEF Decode
  <1>7. ASSUME NEW p \in Procs, Return(p) PROVE IInv'
    BY <1>7, ReturnStep
  <1>8. ASSUME NEW g \in Geos, finalizeRemote(g) PROVE IInv'
    BY <1>8, finalizeRemoteStep
  <1>9. CASE UNCHANGED vars
    <2> USE <1>9 DEF vars, locals, shared, IInv
    <2>1. TypeOK' /\ NothingLeaks' /\ BufferIsDecoders'
      BY DEF TypeOK, NothingLeaks, BufferIsDecoders
    <2>2. LocksHeld' /\ HandlesApart' /\ HandleOpenInUse'
      BY DEF LocksHeld, HandlesApart, HandleOpenInUse, geo
    <2>3. ReadsFit'
      BY DEF ReadsFit, FullReads, Using, tile
    <2> QED
      BY <2>1, <2>2, <2>3
  <1> QED
    BY <1>1, <1>2, <1>3, <1>4, <1>5, <1>6, <1>7, <1>8, <1>9 DEF Next

\* The inductive invariant of the handles, locks and buffers.
LEMMA Invariance == Safety => []IInv
  BY InitIInv, StepIInv, PTL DEF Safety

\* The types of RemoteDecode's variables.
THEOREM TypeCorrect == Safety => []TypeOK
  <1>1. IInv => TypeOK
    BY DEF IInv
  <1> QED
    BY <1>1, Invariance, PTL

\* A goroutine's handle is open, registered and its GeoTIFF's own from the
\* moment it has it until it is done with it: the finalizer closes no handle
\* that is in use.
THEOREM HandleOpen == Safety => []HandleOpenInUse
  <1>1. IInv => HandleOpenInUse
    BY DEF IInv
  <1> QED
    BY <1>1, Invariance, PTL

\* No handle and no registered reader is left behind.
THEOREM NoLeak == Safety => []NothingLeaks
  <1>1. IInv => NothingLeaks
    BY DEF IInv
  <1> QED
    BY <1>1, Invariance, PTL

\* libtiff decodes from the bytes of the goroutine that holds the decode lock.
THEOREM OwnBuffer == Safety => []BufferIsDecoders
  <1>1. IInv => BufferIsDecoders
    BY DEF IInv
  <1> QED
    BY <1>1, Invariance, PTL

\* The tile decoded is the one asked for, or an error; of a tile that the end of
\* the object cuts off and a chunked read reports as whole it is garbage, or an
\* error.
THEOREM Correct == Safety => []TileCorrect
  <1>1. IInv => TileCorrect
    BY DEF IInv, ReadsFit, TileCorrect
  <1> QED
    BY <1>1, Invariance, PTL
-----------------------------------------------------------------------------
(* The locks: who waits for whom *)

\* A lock is released, or taken, by the goroutine that moves, and others stay.
LEMMA ReleasedStep ==
  ASSUME IInv, LocksReleased, NEW p \in Procs,
         \A q \in Procs \ {p} : pc'[q] = pc[q] /\ req'[q] = req[q],
         \A g \in Geos : remoteTIFFMu'[g] # None =>
            \/ remoteTIFFMu'[g] = remoteTIFFMu[g] /\ remoteTIFFMu[g] # p
            \/ remoteTIFFMu'[g] = p /\ pc'[p] \in {"check", "opening"} /\ req'[p][1] = g,
         \A g \in Geos : readTIFFMu'[g] # None =>
            \/ readTIFFMu'[g] = readTIFFMu[g] /\ readTIFFMu[g] # p
            \/ readTIFFMu'[g] = p /\ pc'[p] \in {"decode", "clear"} /\ req'[p][1] = g
  PROVE LocksReleased'
  <1>1. \A g \in Geos : /\ remoteTIFFMu[g] # None => remoteTIFFMu[g] \in Procs
                        /\ readTIFFMu[g] # None => readTIFFMu[g] \in Procs
    BY DEF IInv, TypeOK
  <1>2. ASSUME NEW g \in Geos, remoteTIFFMu'[g] # None
        PROVE pc'[remoteTIFFMu'[g]] \in {"check", "opening"} /\ geo(remoteTIFFMu[g])' = g
    BY <1>1, <1>2 DEF LocksReleased, geo
  <1>3. ASSUME NEW g \in Geos, readTIFFMu'[g] # None
        PROVE pc'[readTIFFMu'[g]] \in {"decode", "clear"} /\ geo(readTIFFMu[g])' = g
    BY <1>1, <1>3 DEF LocksReleased, geo
  <1> QED
    BY <1>2, <1>3 DEF LocksReleased

\* No path leaves a lock behind.
LEMMA StepReleased == IInv /\ LocksReleased /\ [Next]_vars => LocksReleased'
  <1> SUFFICES ASSUME IInv, LocksReleased, [Next]_vars PROVE LocksReleased'
    OBVIOUS
  <1>0. TypeOK /\ LocksHeld
    BY DEF IInv
  <1>1. ASSUME NEW p \in Procs, NEW r \in Requests, Call(p, r) PROVE LocksReleased'
    <2>1. \A g \in Geos : remoteTIFFMu[g] # p /\ readTIFFMu[g] # p
      BY <1>0, <1>1, NoneAssumption DEF Call, LocksReleased
    <2> QED
      BY <1>0, <1>1, <2>1, ReleasedStep DEF Call, shared, GoTo, TypeOK
  <1>2. ASSUME NEW p \in Procs, LockHandle(p) PROVE LocksReleased'
    <2>1. geo(p) \in Geos /\ \A g \in Geos : remoteTIFFMu[g] # p /\ readTIFFMu[g] # p
      BY <1>0, <1>2, Working, NoneAssumption DEF LockHandle, LocksReleased
    <2> QED
      BY <1>0, <1>2, <2>1, ReleasedStep DEF LockHandle, GoTo, TypeOK, geo
  <1>3. ASSUME NEW p \in Procs, UseHandle(p) \/ SizeFails(p) \/ ClientOpen(p) \/ ClientOpenFails(p)
        PROVE LocksReleased'
    <2>1. /\ pc[p] \in {"check", "opening"} /\ geo(p) \in Geos
          /\ readTIFFMu' = readTIFFMu /\ req' = req
          /\ remoteTIFFMu' = [remoteTIFFMu EXCEPT ![geo(p)] = None]
          /\ \A q \in Procs \ {p} : pc'[q] = pc[q]
      BY <1>0, <1>3, Working
         DEF UseHandle, SizeFails, ClientOpen, ClientOpenFails, UnlockHandle, GoTo, TypeOK
    <2>2. \A g \in Geos : /\ readTIFFMu[g] # p
                          /\ remoteTIFFMu[g] = p => g = geo(p)
      BY <2>1, NoneAssumption DEF LocksReleased
    <2>3. \A g \in Geos : /\ g = geo(p) => remoteTIFFMu'[g] = None
                          /\ g # geo(p) => remoteTIFFMu'[g] = remoteTIFFMu[g]
      BY <1>0, <2>1 DEF TypeOK
    <2> QED
      BY <2>1, <2>2, <2>3, ReleasedStep
  <1>4. ASSUME NEW p \in Procs, Register(p) PROVE LocksReleased'
    <2>1. pc[p] = "check" /\ pc'[p] = "opening" /\ geo(p) \in Geos
      BY <1>0, <1>4, Working DEF Register, GoTo, TypeOK
    <2>2. \A g \in Geos : /\ readTIFFMu[g] # p
                          /\ remoteTIFFMu[g] = p => g = req[p][1]
      BY <2>1, NoneAssumption DEF LocksReleased, geo
    <2> QED
      BY <1>0, <1>4, <2>1, <2>2, ReleasedStep DEF Register, GoTo, TypeOK
  <1>5. ASSUME NEW p \in Procs, Prefetch(p) \/ Return(p) \/ DecodeFromFile(p) PROVE LocksReleased'
    <2>1. \A g \in Geos : remoteTIFFMu[g] # p /\ readTIFFMu[g] # p
      BY <1>0, <1>5, NoneAssumption DEF Prefetch, Return, DecodeFromFile, LocksReleased
    <2> QED
      BY <1>0, <1>5, <2>1, ReleasedStep DEF Prefetch, Return, DecodeFromFile, shared, GoTo, TypeOK
  <1>6. ASSUME NEW p \in Procs, LockDecode(p) PROVE LocksReleased'
    <2>1. geo(p) \in Geos /\ \A g \in Geos : remoteTIFFMu[g] # p /\ readTIFFMu[g] # p
      BY <1>0, <1>6, Working, NoneAssumption DEF LockDecode, LocksReleased
    <2> QED
      BY <1>0, <1>6, <2>1, ReleasedStep DEF LockDecode, GoTo, TypeOK, geo
  <1>7. ASSUME NEW p \in Procs, ReadTile(p) PROVE LocksReleased'
    <2>1. pc[p] = "decode" /\ pc'[p] = "clear"
      BY <1>0, <1>7 DEF ReadTile, GoTo, TypeOK
    <2>2. \A g \in Geos : /\ remoteTIFFMu[g] # p
                          /\ readTIFFMu[g] = p => g = req[p][1]
      BY <2>1, NoneAssumption DEF LocksReleased, geo
    <2> QED
      BY <1>0, <1>7, <2>1, <2>2, ReleasedStep DEF ReadTile, shared, GoTo, TypeOK
  <1>8. ASSUME NEW p \in Procs, UnlockDecode(p) PROVE LocksReleased'
    <2>1. /\ pc[p] = "clear" /\ geo(p) \in Geos
          /\ remoteTIFFMu' = remoteTIFFMu /\ req' = req
          /\ readTIFFMu' = [readTIFFMu EXCEPT ![geo(p)] = None]
          /\ \A q \in Procs \ {p} : pc'[q] = pc[q]
      BY <1>0, <1>8, Working DEF UnlockDecode, GoTo, TypeOK
    <2>2. \A g \in Geos : /\ remoteTIFFMu[g] # p
                          /\ readTIFFMu[g] = p => g = geo(p)
      BY <2>1, NoneAssumption DEF LocksReleased
    <2>3. \A g \in Geos : /\ g = geo(p) => readTIFFMu'[g] = None
                          /\ g # geo(p) => readTIFFMu'[g] = readTIFFMu[g]
      BY <1>0, <2>1 DEF TypeOK
    <2> QED
      BY <2>1, <2>2, <2>3, ReleasedStep
  <1>9. CASE (\E g \in Geos : finalizeRemote(g)) \/ UNCHANGED vars
    BY <1>9 DEF finalizeRemote, vars, locals, shared, LocksReleased, geo
  <1> QED
    BY <1>1, <1>2, <1>3, <1>4, <1>5, <1>6, <1>7, <1>8, <1>9 DEF Next, Open, Decode

\* Every path out of a section gives its lock back: a lock that is taken is held
\* by a goroutine that is in its section, can go on and wants no other lock.
THEOREM Released == Safety => []LocksReleased
  <1>1. Init => LocksReleased
    BY DEF Init, LocksReleased
  <1> QED
    BY <1>1, Invariance, StepReleased, PTL DEF Safety

-----------------------------------------------------------------------------
(* RemoteDecode implements TileService *)

\* Nobody has asked: the service's first state.
LEMMA InitRefines == Init => Service!Init
  <1>1. None \notin Misreported
    BY NoneAssumption DEF Misreported
  <1> QED
    BY <1>1 DEF Init, Service!Init, status, request, answer, Seen

\* The steps getTileData sees are its call, the end of the decoding or its
\* failure, and the return, of a request that is not Misreported; every other
\* step changes nothing it sees.
LEMMA StepRefines == IInv /\ [Next]_vars => [Service!Next]_(Service!vars)
  <1> SUFFICES ASSUME IInv, [Next]_vars PROVE Service!Next \/ UNCHANGED Service!vars
    OBVIOUS
  <1>0. TypeOK /\ ReadsFit
    BY DEF IInv
  <1>n. None \notin Misreported
    BY NoneAssumption DEF Misreported
  <1>1. ASSUME NEW p \in Procs, NEW r \in Requests, Call(p, r)
        PROVE Service!Ask(p) \/ UNCHANGED Service!vars
    <2>1. /\ pc[p] = "idle" /\ req[p] = None /\ pc'[p] \in {"file", "handle"} /\ req'[p] = r
          /\ raw' = raw /\ \A q \in Procs \ {p} : pc'[q] = pc[q] /\ req'[q] = req[q]
      BY <1>0, <1>1 DEF Call, GoTo, TypeOK
    <2>2. answer' = answer
      BY <2>1 DEF answer, Seen
    <2>3. CASE r \in Misreported
      <3>1. status' = status
        BY <2>1, <2>3 DEF status, Seen
      <3>2. request' = request
        BY <1>n, <2>1, <2>3 DEF request, Seen
      <3> QED
        BY <2>2, <3>1, <3>2 DEF Service!vars
    <2>4. CASE r \notin Misreported
      <3>1. status[p] = "idle" /\ status' = [status EXCEPT ![p] = "waiting"]
        BY <2>1, <2>4 DEF status, Seen
      <3>2. request' = [request EXCEPT ![p] = r]
        BY <2>1, <2>4 DEF request, Seen
      <3> QED
        BY <2>2, <3>1, <3>2 DEF Service!Ask, Service!Requests, Requests
    <2> QED
      BY <2>3, <2>4
  <1>2. ASSUME NEW p \in Procs, Return(p) PROVE Service!Take(p) \/ UNCHANGED Service!vars
    <2>1. /\ pc[p] = "done" /\ pc'[p] = "idle" /\ req'[p] = None
          /\ \A q \in Procs \ {p} : pc'[q] = pc[q] /\ req'[q] = req[q] /\ raw'[q] = raw[q]
      BY <1>0, <1>2 DEF Return, GoTo, TypeOK
    <2>2. CASE req[p] \in Misreported
      <3>1. status' = status
        BY <2>1, <2>2 DEF status, Seen
      <3>2. request' = request
        BY <1>n, <2>1, <2>2 DEF request, Seen
      <3>3. answer' = answer
        BY <2>1, <2>2 DEF answer, Seen
      <3> QED
        BY <3>1, <3>2, <3>3 DEF Service!vars
    <2>3. CASE req[p] \notin Misreported
      <3>1. status[p] = "answered" /\ status' = [status EXCEPT ![p] = "idle"]
        BY <2>1, <2>3 DEF status, Seen
      <3>2. request' = [request EXCEPT ![p] = None]
        BY <1>n, <2>1, <2>3 DEF request, Seen
      <3>3. answer' = [answer EXCEPT ![p] = None]
        BY <2>1, <2>3 DEF answer, Seen
      <3> QED
        BY <3>1, <3>2, <3>3 DEF Service!Take
    <2> QED
      BY <2>2, <2>3
  \* Whoever gets to "done" is answered with what it got.
  <1>3. ASSUME NEW p \in Procs, pc[p] \notin {"idle", "done"},
               pc' = [pc EXCEPT ![p] = "done"], req' = req,
               req[p] \notin Misreported => raw'[p] \in {Failed, req[p]},
               \A q \in Procs \ {p} : raw'[q] = raw[q]
        PROVE Service!Next \/ UNCHANGED Service!vars
    <2>1. req[p] \in Requests
      BY <1>0, <1>3, Working
    <2>2. pc'[p] = "done" /\ \A q \in Procs \ {p} : pc'[q] = pc[q]
      BY <1>0, <1>3 DEF TypeOK
    <2>3. request' = request
      BY <1>3 DEF request, Seen
    <2>4. CASE req[p] \in Misreported
      <3>1. status' = status
        BY <1>3, <2>2, <2>4 DEF status, Seen
      <3>2. answer' = answer
        BY <1>3, <2>2, <2>4 DEF answer, Seen
      <3> QED
        BY <2>3, <3>1, <3>2 DEF Service!vars
    <2>5. CASE req[p] \notin Misreported
      <3>1. status' = [q \in Procs |-> IF q \in {p} THEN "answered" ELSE status[q]]
        BY <1>3, <2>2, <2>5 DEF status, Seen
      <3>2. answer' = [q \in Procs |-> IF q \in {p} THEN raw'[p] ELSE answer[q]]
        BY <1>3, <2>2, <2>5 DEF answer, Seen
      <3>3. status[p] = "waiting" /\ request[p] = req[p]
        BY <1>3, <2>5 DEF status, request, Seen
      <3>4. Service!Answer({p}, req[p])
        BY <1>3, <2>3, <2>5, <3>1, <3>2, <3>3
           DEF Service!Answer, Service!Outcomes, AskedFor
      <3> QED
        BY <2>1, <3>4 DEF Service!Next, Service!Requests, Requests
    <2> QED
      BY <2>4, <2>5
  <1>4. ASSUME NEW p \in Procs,
               SizeFails(p) \/ ClientOpenFails(p) \/ UnlockDecode(p) \/ DecodeFromFile(p)
        PROVE Service!Next \/ UNCHANGED Service!vars
    <2>1. CASE SizeFails(p) \/ ClientOpenFails(p)
      BY <1>0, <1>3, <2>1 DEF SizeFails, ClientOpenFails, GoTo, TypeOK
    <2>2. CASE UnlockDecode(p)
      BY <1>0, <1>3, <2>2 DEF UnlockDecode, GoTo, ReadsFit
    <2>3. CASE DecodeFromFile(p)
      <3>1. PICK v \in {Failed, req[p]} : raw' = [raw EXCEPT ![p] = v]
        BY <2>3, FileResult
      <3> QED
        BY <1>0, <1>3, <2>3, <3>1 DEF DecodeFromFile, GoTo, TypeOK
    <2> QED
      BY <1>4, <2>1, <2>2, <2>3
  <1>5. ASSUME NEW p \in Procs,
               LockHandle(p) \/ UseHandle(p) \/ Register(p) \/ ClientOpen(p) \/ Prefetch(p)
                 \/ LockDecode(p) \/ ReadTile(p)
        PROVE UNCHANGED Service!vars
    <2>1. /\ pc[p] \notin {"idle", "done"} /\ pc'[p] \notin {"idle", "done"} /\ req' = req
          /\ \A q \in Procs \ {p} : pc'[q] = pc[q] /\ raw'[q] = raw[q]
      BY <1>0, <1>5 DEF LockHandle, UseHandle, Register, ClientOpen, Prefetch, LockDecode,
                        ReadTile, shared, GoTo, TypeOK
    <2>2. status' = status
      BY <2>1 DEF status, Seen
    <2>3. answer' = answer
      BY <2>1 DEF answer, Seen
    <2>4. request' = request
      BY <2>1 DEF request, Seen
    <2> QED
      BY <2>2, <2>3, <2>4 DEF Service!vars
  <1>6. CASE (\E g \in Geos : finalizeRemote(g)) \/ UNCHANGED vars
    BY <1>6 DEF finalizeRemote, vars, locals, Service!vars, status, request, answer, Seen
  <1>7. ASSUME NEW p \in Procs, Service!Ask(p) \/ Service!Take(p) PROVE Service!Next
    BY <1>7 DEF Service!Next
  <1> QED
    BY <1>1, <1>2, <1>4, <1>5, <1>6, <1>7 DEF Next, Open, Decode

\* Decoding with libtiff behaves to getTileData as TileService says, but for the
\* requests of Misreported: it is the reading of bytes that TileFetch's step
\* "fetch" stands for (the safety part).  Of a Misreported request it says
\* nothing but that it disturbs no other.
THEOREM DecodeRefinement == Safety => DecodeServiceSafety
  BY InitRefines, StepRefines, Invariance, PTL
     DEF Safety, DecodeServiceSafety, Service!Safety

=============================================================================
