# A formal model of gedtm30api

gedtm30api answers elevation queries from GeoTIFF rasters that lie in a file, behind an HTTP
server or in a bucket, either as one cloud-optimised GeoTIFF (COG) or as a VRT mosaic of many.
This directory holds TLA+ modules translated from the Go code, TLC configurations that check them
on small instances, and proofs, checked by TLAPS, that hold for every instance. Line numbers refer
to `src/`; `geotiff.go` and its neighbours are in `src/geotiff/`.

## The system

| Part | State it keeps | Operations | Talks to |
|---|---|---|---|
| Server life cycle (`main.go`) | four package variables, one errgroup and its context, health status | open the raster (`setupTIFFReader`), start four servers, wait for a signal or an error, stop them in order, `g.Wait` | every server; its context reaches a blob reader |
| gRPC and REST handlers (`main.go`) | none | map a call to `AtCoord` or `Profile`, an error to a status | the raster |
| COG (`GeoTIFF`, `geotiff.go`) | tags of the IFD, `tileCache`, `inflightData`, `inflightPrefetch`, libtiff handle | `Open`, `AtCoord`, `loc`, `getTileData`, `prefetchNeighbors` | a reader; libtiff for LZW tiles |
| LZW tiles (`geotiff.go`, `libtiff*.go`) | `remoteTIFF` per GeoTIFF, the process-wide `remoteRegistry` | open a handle, read ahead, lend the bytes, decode, finalize | `parallelReadAt`, libtiff through cgo callbacks |
| VRT (`VRTGeo`, `vrt.go`) | `sourceReaders`, `sourceLRU`, `inflight`, one `tileCache` for all sources | `findSource`, `getSourceGeo`, `loc`, `Profile` | a `GeoTIFF` per open source |
| Range reads (`parallel_read.go`, `blob_reader.go`, `http_reader.go`) | a reader's position and what it knows of the size | `ReadAt`, `Read`, `Seek`, `parallelReadAt` | the object store |
| Opening (`OpenWithCache`, `readTags`, `prefix_reader.go`) | the file's first bytes and some extents, in memory; the tags | read the prefix, the directory, the missing values in merged ranges, the tags | `parallelReadAt`, a reader |
| Coordinates and profiles (`geotiff.go`, `profile.go`, `vrt.go`) | the pixels a request has visited | `AtCoord`, `Profile`, the way from a coordinate to a sample | `loc` |
| Samples (`geotiff.go`) | none | decompress, decode, undo the predictor, scale | called by `getTileData`; its formats come from the tags |
| Web page (`static/app.js`) | clicked points, markers, line, chart, a text | click, fetch, reset | the REST API |

How they interact: a request goroutine calls `AtCoord`, which goes through `getSourceGeo` (VRT
only) to `loc`, to `getTileData`. That looks up `tileCache`, enters a singleflight group, reads
the tile through `parallelReadAt`, inflates or decodes it, and stores it. After a successful read
`loc` may spawn a goroutine that does the same for the neighbouring tiles. All of this state is
shared by all requests, and the goroutines of a prefetch outlive the request that started them.

What makes it correct, and what is hard about it:

* **Tiles.** The answer is the right tile of the right file or an error, though goroutines
  interleave between the lookup, the group and the store, the cache expires and prunes at any
  time, and all sources of a VRT share it. A stuck read delays nobody who wants another tile.
* **Sources.** The map and the list of the LRU agree and hold the most recently used files. A
  source in use is never closed, although the LRU evicts it without asking, and a name of a VRT
  is answered for the file it resolves to, although one file may be open twice and all share a
  cache.
* **LZW.** One handle per GeoTIFF, open while used, none leaked. libtiff is fed the bytes of the
  goroutine that decodes, not those of another.
* **Range reads.** Chunks end in any order, some fail or come back short, and what is known of
  the size changes meanwhile; a read reported as complete is complete. Goroutines that share a
  reader's position read each byte once, in order, and a failure is not remembered for ever.
* **Opening.** Merged reads fail or end in any order; a tag has the bytes the file has there, and
  is not fetched by itself if the merge had it.
* **Profiles.** Truncated floats walk without a gap and keep to the line; a coordinate at the edge
  gives an error and not a sample of the padding; a VRT's pixel is its source's in the same place.
* **Samples.** Byte orders, predictors, sample formats and the defaults of missing tags combine in
  hundreds of ways; a wrong one gives heights that are plausible.
* **Handlers.** Two APIs put the same outcome in their own words, told apart by the text of an error.
* **Prefetch.** Timers act on keys that stand for newer calls by then; goroutines are woken;
  arithmetic on tile numbers does not wrap at the edges.
* **Life cycle.** Stopping races with starting, two shutdowns have a deadline and two have none, and
  the context that the shutdown cancels first is one that readers may still read with.
* **Web page.** Answers come in any order, between further clicks and resets.

PROJECT.json lists the hazards at their lines, with the properties that cover them.

## The modules

| Module | Models | Corresponds to |
|---|---|---|
| `TileService` | what reading a tile promises: ask, be answered with that tile or a failure, perhaps together with others | the contract of `getTileData`, of `getLZWTileData` and of `VRTGeo.loc` |
| `ReaderService` | what a shared reader promises: every call takes effect at one moment, on one offset | the contract of an `io.ReadSeeker` and `io.ReaderAt` |
| `TileFetch` | `getTileData` | `pc` is the place in the function: `lookup` (786), `enter` (791), `fetch` (795-805), `decode` (807-842), `store` (845), `finish`, `done`; `tileCache` and `inflightData` are the fields of that name |
| `RecencyList` | the `container/list` operations of the LRU, as operators on sequences | `lruGet`, `lruPut` |
| `SourceLRU` | `getSourceGeo`, `lruGet`, `lruPut`, the finalizer's reachability | `peek` is the lookup at 347, `recheck` the one at 355, `open` 362-381, `put` 383-387; `recency` is a history variable |
| `VRTRead` | `VRTGeo.loc`: `SourceLRU` and `TileFetch` composed, with `resolveVRTFilename` | a goroutine's `stage` is its place in `getSourceGeo`, its `pc` that in `getTileData` of the GeoTIFF it `got`; opening gives a GeoTIFF of the file the name resolves to; a prefetch goes on after `loc` has returned |
| `Prefetch` | the goroutine in `loc` (737-753), `prefetchNeighbors`, the timer with its `Forget` | `inflightPrefetch` is the group's key per tile; `call` says which call a joiner waits for, which the key need not name any more |
| `ParallelRead` | `parallelReadAt` over `BlobReader.readAt` or `HTTPRangeReader.readAt` | one read per behaviour; `buf` says of each byte whether it was written |
| `RangeReader` | `Read`, `Seek` and `ReadAt` of `BlobReader` and `HTTPRangeReader`, with `knownSize` | `offset`, `mu`, `size` and what the `sync.Once` has made of `Attributes` (`resolved`); a `size` known from the start makes it the HTTP reader; `base` and `stream` are history variables |
| `PrefixReader` | `newPrefixReader`, `readTags` with `prefetchMissingRanges`, `prefixReader.ReadAt` | `pc` is the place in `OpenWithCache`; `missing` and `groups` share one array, as the slices do; a byte is its position |
| `Samples` | from the bytes of a tile to its samples: tag defaults, `fetchAndDecompressTile`, `decodeFloat32` and `decodeInt32`, the predictors, `getTileData`'s choice among them; and what the TIFF format says a writer stores | a sample is a word of two bytes, a byte has `Base` values; `Stored` is the writer's side, `TileData` the code's, `FileSample` what should come out |
| `Raster` | `Bounds`, `AtCoord`, `loc`, `findSource` as operators: from a coordinate to a sample | a coordinate counts in parts of a pixel; the sample is taken out of the decoded tile, by index |
| `Profile` | `AtCoord` and `Profile` of `GeoTIFF` and of `VRTGeo` as a request that takes steps | `seg` and `j` are the loops' indices, `visited` is `visitedPixels`; `Along` is `int(float64(j)*xInc)` |
| `Handlers` | `getElevationHandler`, `getProfileHandler`, `GetElevation`, `GetProfile` as operators on the outcome of `Profile` | status and body of the reply |
| `RemoteDecode` | `getLZWTileData` for files on disk (`LocalGeos`) and for others, the registry, `goRemoteRead`, `finalizeRemote` | both mutexes, the entry with its lent buffer; a handle and its registry id are one number |
| `ServerLifecycle` | `main` from the channel of signals on, the set-up of the readers, and the four `start...` functions | `raster` says which reader was set up under which context, `phase` is each goroutine's place, `assigned` whether its package variable is set, `turn` the server main is at |
| `WebPage` | the handlers of `app.js` and the answers to its fetches | the variables are those of the page; `requests` are the fetches under way; `waited` is a history variable: the user has waited for every answer so far |

The `MC` modules define the constants of their instances; the other modules' constants are given in
the configurations. `TileFetch` instantiates `TileService` with a refinement mapping, and so do
`RemoteDecode`, which is a `fetch` of `TileFetch` seen from inside, and `VRTRead`, which extends
`TileFetch` and instantiates `SourceLRU`. `RangeReader` instantiates `ReaderService`, which it
implements, and `ParallelRead`, whose one step for a `ReadAt` it is. `SourceLRU` extends
`RecencyList`; `Handlers` extends `Profile`, `Profile` `Raster` and `Raster` `Samples`. Operators
marked MUTANT are plausible wrong versions of the definition that follows them and are used by no
specification; substituting one for its original makes the property named in PROJECT.json fail.

Libraries are modelled as `src/` relies on them and marked external in PROJECT.json. A
singleflight group has a key per call under way, drops it when the call returns if it still
stands for that call, and hands the result to whoever joined; `Forget` drops it unconditionally.
ccache may drop or expire an item at any time. libtiff reads a tile through the callback and fails
if the bytes come up short. gRPC's `GracefulStop` waits for its RPCs, `Shutdown` for its requests
or the deadline. A finalizer runs, perhaps, once nothing refers to its value.

Abstractions worth knowing:

* In `TileFetch`, `VRTRead` and `RemoteDecode` the contents of a tile are its identity and whether it
  is raw or decoded; `Samples` has what decoding computes.
* `Samples` has two bytes to a word where the code has four, of 8 values and not 256; a float is
  its word, since nothing is computed with it but what the predictors do to its bits. Compression
  is modelled where it can fail. The scale of integers is a unit (tenths).
* A failed read and a failed decode are nondeterministic.
* Tiles of every compression take the steps of `TileFetch`. For LZW, `fetch` stands for
  `getLZWTileData`, and `decode` and `store` for `processDecompressedTile`; `RemoteDecode` has
  what happens inside.
* The cache key is the pair of file and tile. The code's key is a string, the file name, `#` and
  the digits of the number, which determines both.
* `TileFetch` and `VRTRead` read a tile whole or not at all, so they say nothing of a tile cut by the
  object's end that is read short without an error. That there are such reads is in `ParallelRead`,
  and their consequence for LZW tiles in `RemoteDecode` (`Misreported`).
* A GeoTIFF that is served has its ModelTiepoint. `OpenGeoTIFF` looks for the pixel scale only; a
  file without a tie point opens, and every request to it is an internal error
  (geotiff.go:374-382). A source of a VRT without one is a source that cannot be opened.
* The objects that are read do not change, and a response that breaks off half way is an error and
  not a short body.
* `VRTRead` takes the path of the VRT to have a directory in it (see below for one that has none).
  Names of GeoTIFFs are sequences of path elements, and a GDAL handler is cut off.
* The handlers get a URL or a body that can be parsed; others are refused before the raster is
  asked. `NoSample` is every error but the one that says "does not fall inside".
* In `WebPage` an answer is the points it is about. Its text and chart are told apart by them and
  by the count that the text gives.
* A tag is the range of its value. How its bytes are parsed is left out, and whether its value
  lies in the entry itself, which needs no read.
* Coordinates are exact. Floats come in where truncation shows them: a product that is a whole
  number may come out one short, unless the increment is a number of halves, quarters and so on.
  The error of a coordinate itself is far below the half pixel that rounding allows for.
* `ServerLifecycle` reads a package variable as nil until it is assigned. The race detector's
  view, that a read might see a partly built value, is not modelled.

## What is checked

| Run | Instance | Shows |
|---|---|---|
| `tilefetch` | 3 goroutines, 3 GeoTIFFs of 2 files, 1 tile, reads through one GeoTIFF slow | `TypeOK`, `OneFetchPerTile`, and `ServiceSpec`: the tile service is implemented, its liveness included |
| `sourcelru` | 2 goroutines, 3 files, room for 2, 4 GeoTIFF values | `LRUConsistent`, `LRUIsMostRecent`, `HandlesOpen`, `OpenOnlyWhenAbsent`, `EveryAskAnswered` |
| `prefetch` | 3 goroutines, tiles 0 and 2 of a 3 by 2 grid, 2 timers per tile | `OnlyAdjacentFetched`, `JoinedCallRuns`, `GoroutinesEnd` |
| `parallelread` | all reads of 0 to 5 bytes at offsets 0 to 2 of objects of 1 to 6 bytes, chunks and concurrency 1 to 3, size known or not | `FilledInsideObject`, `NoLateWrite`, `EveryReadReturns` |
| `rangereader` | 2 goroutines with calls of every kind on one reader of 3 bytes, buffers of 0 to 2, size known or not | `ErrorForgiven`, `ReadAtEnds`; `ReadAtAsTaken`: a `ReadAt` is what `ParallelRead` takes it for; and `ReaderServiceSafety`: the reader's service is implemented |
| `prefixreader` | up to 3 values of 1, 2 or 4 bytes in and behind 7 bytes, merges of 3, chunks of 2, no prefix or one of 2 or 7 bytes | `TagsRight`, `NoTagReadAlone` |
| `profile` | a GeoTIFF of 5 by 3 pixels in tiles of 2 by 2 and one of 3 by 4, two VRTs of both and one with a source that ends before its rectangle, every point at half pixels, paths of 0 to 3 points, malformed ones included; and 960 files of 3 by 2 pixels, one for each choice of byte order, compression, predictor, sample format, bit depth and sparseness, every pixel | `OnTheLine`, `Unbroken`, `ElevationsRight`, `SegmentsWalked`, `RepliesRight` |
| `remotedecode` | 2 goroutines, 2 GeoTIFFs behind a network and 1 on disk, 3 tiles: one read in chunks, one cut off by the object's end, one both; 3 handles in all | `HandleOpenInUse`, `NothingLeaks`, `BufferIsDecoders`, `EveryDecodeEnds`, and `DecodeServiceSafety`: the tile service is implemented here too, but for the tile that is both, asked of a file behind a network (`Misreported`), whose requests go on among the others |
| `lifecycle` | a single object in a bucket or a VRT, 4 servers, 1 request each, HTTP requests may hang | `NeverServingAgain`, `CleanExit`, `ReadableWhileAnswered`, `ShutdownEndsWhenUp` |
| `vrtread` | 2 goroutines, 2 names with one path and 2 files, room for 1 source, 3 GeoTIFF values of which 2 of one file, 1 tile, reads of the other file may hang | `OpenWhileRead`, `NobodyStuck`, and `VRTServiceSpec`: the tile service by source name, its liveness included |
| `webpage` | 4 clicks, at a longitude on the map and one on a copy of the world, 2 resets | `MapShowsPoints`, `WaitedPageCurrent`, `FetchingEnds` |

One more run, `lifecycle_race`, is under "What the checks found". What a service promises is not
checked again as an invariant of the module that implements it: `ServedTileCorrect`, `VRTServed`,
`TileCorrect`, `ReadsConsecutive` and `ReadsHonest` follow from the refinements and are theorems. So are
the type invariants, of which only `tilefetch` repeats one (it says that no failure is cached), and
the invariants that belong to a liveness property a run has (see "What is proved"). `TileCorrect`
says more than the refinement, what the requests get that the refinement leaves out.

Why these bounds. Three goroutines give a leader, one that joined and a third that arrives too
late or wants another file; with two, a result handed to the wrong group would go unseen. Two GeoTIFFs
of one file are what an eviction and a reopening leave behind; a third of another file is what
the key's prefix is for. In `sourcelru`, three files with room for two make the order of the
list matter, and four identities let an evicted value live on while its file is opened again; the
theorems cover more goroutines. A grid of 3 by 2 has tiles at both edges of both directions; two
asked tiles share neighbours. Five bytes in chunks of 1 to 3 give a shorter last chunk, one chunk
and none; offsets up to 2 over a short object put its end before, inside and after the read. In
`prefixreader`, three values can merge into one, two or three groups, overlap, share a start, or
lie in the prefix, across the end of the object or behind it. In `profile`, 5 by 3 pixels give
lines of every direction and slopes whose increments floats round (thirds and fifths), the last
tiles stick out, and the VRTs have a gap, an overlap, and sources finer and coarser than they are;
three points let a path retrace itself or leave the raster in its middle. Each of the 960 files
has rows of two samples, of which the predictors make a sum, two rows to a tile, which a sum must
not cross, and a second tile that sticks out; their words exceed a byte, so that carries between
the bytes and the wrong order show. In
`remotedecode`, two goroutines contend for one GeoTIFF's locks or use two handles at once, and
three registrations let an open fail or a finalizer run in between; of the combinations of a cut
tile and a chunked read only both together is `Misreported`, and either alone is not. In `vrtread`,
room for one source makes every change of source an eviction, also of one that is being read; a
second GeoTIFF of the same file is what a reopening makes while the first is still in use, with a group of its own and
the same keys in the cache. In `webpage`, four clicks and two resets let two answers overtake each
other on both sides of a reset. One request per server is
enough for a shutdown that counts only whether any are left.

Bounds that no line of the code has: `MaxForgets` (timers and prefetches of a tile at a time),
`Runners` (background goroutines at a time), `MaxHandles` (libtiff handles over a behaviour),
`MaxRequests` (requests a server answers at a time), `MaxBytes` and `MaxSize` (the instance of
`ParallelRead`), `MaxFailures` (samples of one request that cannot be read), `MaxClicks` and
`MaxResets`, and the number of GeoTIFF identities, which are reused after a finalizer.

Deadlock is checked except in `parallelread` (the read is over), `prefixreader` (the file is open
or has failed to), `profile` (the request is answered), `lifecycle` (the process has exited) and
`webpage` (the clicks and resets of the bound are made).

### Fairness

Weak fairness on the steps of a goroutine: the Go scheduler runs what can run. Calls and deliveries
from outside (`Call`, `Ask`, `Spawn`, `Signal`, `Request`), cache evictions, the collector and
timers have none. Nothing in `src/` sets a deadline on a read, so `SlowRequests` in `TileFetch` and
the reads ahead of `SlowTiles` in `RemoteDecode` have no fairness, and in `RangeReader` only
`ReadAt` has it, because the claim is that it needs no other call to end. Other reads are assumed to
be answered or refused. Acquiring a `sync.Mutex` has strong fairness, since its starvation mode
hands the lock to a waiter after a millisecond. Requests of `HangingServers` need never end. In
`VRTRead` what a goroutine does in either part has weak fairness but for reads that may hang; a
source that cannot be opened or located is refused, not waited for. A fetch of the web page ends, if
only because the browser gives up.

## What is proved

For any goroutines, files, tiles and sizes:

| Module | Theorems | Argument |
|---|---|---|
| `VRTReadProofs`, on `TileFetch` | `TypeCorrect`, `Served`, `OneFetch`, `Refinement` (`Safety => ServiceSafety`) | `IInv` adds to the types that a cached value is the decoded tile of its key, that a goroutine's buffer fits its stage, and that the group's entry and its leader name each other. Correctness of an answer is not inductive alone: a waiter gets the leader's buffer and a hit the cache's. Refinement maps `Call` to `Ask`, `Hit` and `Finish` to `Answer`, `Return` to `Take`, the rest to stuttering |
| `SourceLRUProofs` | `TypeCorrect`, `Consistent`, `MostRecent`, `Handles`, `OneOpen` | the properties are conjuncts of `IInv`, with `FlightHasLeader` (no two goroutines open one file) and `GotFitsStage`. Lemmas say what `Touch`, `Trim` and `PushFront` do to the elements, the length and the absence of duplicates; `MostRecent` rests on the one that touching commutes with trimming |
| `VRTReadProofs`, on `VRTRead` | `VRTInvariance`, `StaysOpen` (`OpenWhileRead`), `ServedByName` (`VRTServed`), `NeverStuck` (`NobodyStuck`), `VRTRefinement` (`VRTSafety => VRTServiceSafety`) | the invariant is that of both parts and `LinkInv`: who reads has a GeoTIFF in hand and reads the tile it came for, and an open GeoTIFF reads the file its name resolves to. The lemmas about a step of either part are those parts' own, instantiated; what is new is that a step of one leaves the other's half of the link alone. `NeverStuck` follows from the invariant: the leaders of both groups are at stages of their own, and the stage of one excludes waiting in the other |
| `PrefetchProofs` | `TypeCorrect`, `Adjacency` (`OnlyAdjacentFetched`), `Joined` (`JoinedCallRuns`) | `NeighborsAdjacent` is the arithmetic: a tile number is divided into row and column, moved and composed again, and does not wrap at an edge. `IInv` adds `KeyIsRunning` (a key stands for a call of its tile that has not returned), which `Forget` keeps by removing and never by redirecting, and `FitsState` |
| `OpeningProofs`, on `ParallelRead` | `TypeCorrect`, `Filled` (`FilledInsideObject`), `WrittenAlone` (`NoLateWrite`), `StepsCount` (`EveryStepCounts`), `Bounded`, `ReadsAsTaken` | `IInv` has that every byte the loop has passed belongs to a started chunk (`Covered`), that a chunk that is done has filled what the object has of it (`DoneIsFilled`) and what that makes of the result (`ResultFilled`). `ReadsAsTaken` links the two modules: `PrefixReader` takes a read for one step, with `Fetched` as its bytes, and that is what `parallelReadAt` returns. `StepsCount` is a measure of the steps ahead, two for each byte the loop has not passed: a started chunk takes one byte at least, and gives its goroutine one more step |
| `OpeningProofs`, on `PrefixReader` | `OpenInvariance`, `OpensTagsRight` (`TagsRight`), `MergesEveryTag` (`NoTagReadAlone`) | `OpenInv` has that every byte in memory is that of its place in the object, as far as that goes (`MemoryRight`), so it does not matter which block serves a tag. `PlacesRight` says that the merge loses no range (`NoneLost`): each is in memory, ahead of the loop or within a group. The groups are written over the array the loop reads, but stay behind it, so what is ahead is sorted and untouched (`Ahead`); then every group that was read is in memory (`Added`) |
| `ApiProofs`, on `Profile` and `Handlers` | `Invariant`, `WalksOnTheLine` (`OnTheLine`), `WalksUnbroken` (`Unbroken`), `WalksSegments` (`SegmentsWalked`), `GivesElevationsRight` (`ElevationsRight`), `GivesRepliesRight` (`RepliesRight`) | `RepliesRight` takes the opening of a source into account: a point beyond the source a VRT takes it from is not found, unless that source cannot be opened to find out (vrt.go:299-312). The state part is `IInv`: a refusal names a segment it is for (`PlaceInv`), the pixel the loop is at is `Along` of its index and is visited (`LineInv`), segments behind are walked or passed over for what they are (`SegmentInv`), and the profile has the elevation of each visited pixel that has one (`ProfileInv`). Below it, lemmas about the operators of `Samples` and `Raster`: undoing a predictor gives the words that were stored, the byte orders and the planes of bytes are inverted, the tile number and the index of a pixel find its sample, rounding inverts `PixelToCoord`, and the pixel of a VRT scales to one in its source's rectangle |
| `RangeReaderProofs` | `TypeCorrect`, `Consecutive` (`ReadsConsecutive`), `Honest` (`ReadsHonest`), `Forgiven` (`ErrorForgiven`), `Released` (`LockReleased`), `ReadAtTaken` (`ReadAtAsTaken`), `ReaderRefinement` (`Safety => ReaderServiceSafety`) | `IInv` adds that the lock is held by the one who moves the position (`LockHeld`), that a call's bytes fit its place (`CallFits`, `WantFits`) and that what a call knew of the size still holds (`KnewFits`). `ReadAtTaken` and the refinement also need `KnewCut`, that a request cut at a known size asks for what is there. In the refinement a call takes effect when it returns: a `Read` is still at the offset its request was made for then, since it holds the lock; the steps before are unseen, although the offset is written into the call; and a response to a shorter request is one of those to the call |
| `RemoteDecodeProofs` | `TypeCorrect`, `HandleOpen` (`HandleOpenInUse`), `NoLeak` (`NothingLeaks`), `OwnBuffer` (`BufferIsDecoders`), `Correct` (`TileCorrect`), `Released` (`LocksReleased`), `DecodeRefinement` (`Safety => DecodeServiceSafety`) | `LocksHeld` turns "in the critical section" into mutual exclusion, `HandlesApart` keeps ids of different GeoTIFFs and of an open under way distinct, `ReadsFit` says what was read ahead is the tile's, and that only files behind a network are read ahead. `HandleOpen` needs that a GeoTIFF in use is not finalized, which the guard of `finalizeRemote` takes from the collector. GeoTIFFs on disk open and close a handle per tile and hold no lock. In the refinement the answer is given where the decode lock is released, or where an error returns; the service's tile is the one asked for, and a goroutine with a request of `Misreported` is seen as idle. So `DecodeRefinement` promises such a request nothing but that it disturbs no other; `Correct` says what it gets, an error or `Garbage` and never its tile |
| `ServerProofs`, on `ServerLifecycle` | `TypeCorrect`, `NotServing` (`NeverServingAgain`), `Clean` (`CleanExit`), `Readable` (`ReadableWhileAnswered`), `HangsOnly` (`HangsOnlyUnstopped`) | `IInv` adds that main stops servers in turn and has stopped those it is past (`StoppedInTurn`), that a server past a graceful stop has no requests (`Drained`), that nothing is answered before it is started (`Unstarted`), that the status stays after the shutdown has set it (`StatusFixed`), and what the errgroup's context and the reader under it can be (`CancelledBy`, `GroupReader`) |
| `ServerProofs`, on `WebPage` | `PageInvariance`, `MapShows` (`MapShowsPoints`), `WaitedShows` (`WaitedPageCurrent`) | `PageInv` adds `Waiting`: what the fetches under way are about if the user has waited. `WrapsAround` is the arithmetic of `wrappedLng`, with the remainder that keeps the sign: a longitude comes back by whole turns into -180 to 179 |

The assumptions are those named in the modules, and say what the code can rely on:

* Values that stand for nothing (`None`, `Failed`, `NoSample`, `Outside`, `Missing`) are told apart
  from others, bounds are numbers, and calls, points and paths are well typed. A path may have
  elements that are no pair of numbers.
* `MaxSources`, chunk sizes and concurrencies are positive: `OpenVRT` replaces a `maxSources` that is
  not by a default, and the setters of `parallel_read.go` ignore settings below 1. The longest
  merged range and the prefix may be of any size, 0 included.
* The path of the VRT has a directory (see below for one that has none).
* Images, tiles and mosaics have a positive size; the samples of a file, its last tiles' padding
  included, are words. A source of a VRT reads a rectangle that is not empty, of any size and
  place, inside its file or not; where it goes in the mosaic is any rectangle, an empty one too.
* Ranges that are read for tags are not empty: a value of few bytes, or of none, is in its entry.
* No uncompressed file of 32-bit floats is sparse and has the floating-point predictor. For such a
  file the code takes the address of the first element of an empty slice and panics; the
  theorems say nothing of it.

The prover has no induction over data, but a recursive function and its inverse can be compared
without: were they to differ, there would be a least place where they do (`LeastNat`, from the
well-founded order of the numbers), and one step of either definition refutes it. So
`ApiProofs` covers rows and tiles of every length, and `OpeningProofs` any number of blocks.

Only model-checked: liveness, since fairness and ENABLED are beyond the prover. This is
`FetchingEnds`, `ReadAtEnds`, `ShutdownEndsWhenUp`, `EveryDecodeEnds`, `EveryReadReturns`,
`EveryAskAnswered`, `GoroutinesEnd`, and the part of `ServiceSpec` and `VRTServiceSpec` that is not
in `Refinement` and `VRTRefinement`, which are their safety halves. Of most of them the part that
needs no fairness is a theorem: every lock is given back and its holder waits for no other call
(`LocksReleased`, `LockReleased`), who joins a group waits for a goroutine that runs
(`JoinedCallRuns`, `NobodyStuck`), every step of a read counts down (`EveryStepCounts`), and a
shutdown that waits does so for servers that go on or were never stopped (`HangsOnlyUnstopped`).
What is left to the runs is that a step which can be taken is taken. Every invariant and action
property that holds in a run is a theorem too, and so is every refinement in its safety half. The runs
are there for what the proofs cannot show, that the cases happen, and to find out soon when a change
to a module is wrong.

## What the checks found

* `lifecycle_race`, `ShutdownEnds`: a shutdown that begins before some server is assigned skips it
  and waits for it for ever. It needs no signal: a taken port is enough. A signal makes it likely,
  since one that comes while the raster is being opened stays in its channel and is read as soon
  as the servers are being started.

Seen while modelling, without a run of their own.

Concurrency, failure and reads:

* geotiff.go:745-747 says the `Forget` allows another prefetch "after a while", but the group's key
  is gone as soon as the call returns. The timer may then drop the key of a newer prefetch, so two
  of one tile can run at once.
* geotiff.go:912-913 says "A failed/short prefetch simply falls back to libtiff's own reads, so
  correctness does not depend on it." A prefetch that is split into chunks takes no notice of a count
  or of `io.EOF` and reports a full buffer (parallel_read.go:66 and 80), so geotiff.go:919 takes a
  tile that the object's end cuts off for whole, and libtiff decodes the zeros at its end. Its own
  reads would have failed. It takes a truncated object and tiles longer than a chunk. These are the
  requests of `Misreported`, which `DecodeServiceSafety` leaves out by name and of which
  `TileCorrect` has that they never get their tile. Were they not left out, `remotedecode` would
  fail: one goroutine that opens the handle, reads ahead, decodes and returns is enough.
* Likewise, a tag whose value lies behind the end is read as zeros when the merged read is chunked
  and fails when it is not, and an uncompressed tile that is cut short decodes with a tail of zeros.
* With a single object of a bucket as the raster, the first step of a shutdown cancels the context
  that its reader keeps (main.go:141-142 and 400, blob_reader.go:143), before the requests it
  waits for are done: they fail, though the shutdown is graceful. `ReadableWhileAnswered` leaves out
  exactly this case. Sources of a VRT get a context that is never cancelled.
* A tile may be read again after another goroutine cached it: `getTileData` looks it up before the
  group and not inside it. Harmless but for the read. `getSourceGeo` does look twice.
* README.md:99 says `CACHE_MAX_OPEN_SOURCES` caps the handles open at once, but evicted ones stay
  open while in use or not collected yet (README.md:260 says so).

Coordinates, sources and profiles:

* A point less than half a pixel from the right or lower edge is inside the bounds, but rounds to a
  pixel outside, so `AtCoord` answers "point lies outside image" (geotiff.go:364, vrt.go:268), which
  the handlers make an internal error and not "not found".
* The last pixel of a profile can be missed by one on the shorter side, when the increment is
  rounded down (profile.go:81-82); `Walked` allows for it. A pixel that could not be read is not
  tried again when a later segment crosses it.
* `findSource` takes the first source that covers a pixel (vrt.go:315-325), and two sources with the
  same name of which one is relative to the VRT resolve as the first of them does.
* A source relative to a VRT whose name has no "/" resolves to "mosaic.vrt/tile.tif" (vrt.go:92-96).
  `setupBlobVRTReader` computes a base directory but passes the object's key (main.go:446-462), so a
  VRT at the top of a bucket finds none of its relative sources.

Samples:

* `undoHorizontalPredictionForFloat32` adds the row's first sample, not the previous one, to each
  (geotiff.go:1190-1194), and takes the address of the first element of an empty slice, which panics
  for a tile without bytes. `PredictorAssumption` leaves such tiles out. The floating-point predictor
  (README.md:272) gives right samples only for LZW tiles, where libtiff undoes it.
* A sparse tile (no bytes in the file) is an error and not the no-data value.
* For LZW tiles, the sample format and depth are not looked at, and in a big-endian file the bytes
  that libtiff has already put in order are put in order again. `Misread` names these
  formats, and `ElevationsRight` claims nothing of them.
* Without cgo the program does not build: the stub's `openRemoteTIFF` returns two values where
  geotiff.go takes three, though README.md:60 and 278 describe a pure-Go fallback.

APIs and page:

* REST answers 404 "All coordinates are outside" also when the samples of points inside could not be
  read. The two APIs differ on a path of less than two points (REST 500, gRPC `InvalidArgument`)
  and on a profile without a sample (REST 404, gRPC an empty answer).
* The page draws an answer that comes after a reset, or after one to a later click. Its text counts
  the points there are now while the chart shows an earlier body, and after an error the old chart
  stays. `MapShowsPoints` and `WaitedPageCurrent` say what holds regardless.

## Not modelled

* Parsing: the XML of a VRT, the bytes of a tag, URLs and bodies of requests. The models start from
  what is parsed.
* Configuration, loggers and metrics: values that are read once, and counters that nothing reads.
* The tag and constant tables and the generated code, which has no logic of its own.
* The stub for builds without cgo, which does not compile.
* How the page looks: styling, chart options, the map's tiles.
* Crashes: nothing is persisted, so a restart is an `Init`.

## Plan

There: tile retrieval, sources, their composition in a VRT, prefetch, range reads and the readers'
position and size, the opening of a GeoTIFF, the way from a coordinate to a sample and from the
bytes of a tile to its samples, profiles, the handlers, the libtiff path for files on disk and
others, the life cycle with the reader it sets up, the page.

Proved: every invariant and action property that is checked, and the safety of all refinements: of
`TileService` by `TileFetch`, `RemoteDecode` and `VRTRead`, and of `ReaderService` by `RangeReader`.

To come:

1. That `PrefixReader` and `ParallelRead` compose as a refinement, with the chunks of a group's read
   as steps of their own. `ReadsAsTaken` has the result of a read, not the interleaving.
2. `Profile` over `VRTRead`: the samples of one request while its sources are evicted.

The number of runs is kept small: pure functions share one, and a property that a theorem covers
is model-checked on the smallest instance that has the case.
