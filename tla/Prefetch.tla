------------------------------ MODULE Prefetch ------------------------------
(***************************************************************************)
(* The background prefetch GeoTIFF.loc starts after a successful read when *)
(* prefetchEnabled is set.  Each such read spawns a goroutine that enters  *)
(* the inflightPrefetch group of its tile; the one that runs the call      *)
(* fetches the tile's neighbours in parallel, schedules a Forget of the    *)
(* key for a minute later and returns.  singleflight drops the key when    *)
(* the call returns, if the key still stands for that call, and wakes who  *)
(* joined it; Forget drops the key whoever runs it by then.                *)
(***************************************************************************)
EXTENDS Integers, FiniteSets

CONSTANTS
    TilesAcross,     \* tiles in a row
    TotalRows,       \* rows of tiles
    Asked,           \* tiles that requests read (a bound on the instance)
    MaxForgets,      \* bound on the prefetches and timers of one tile at a time
    Runners,         \* background goroutines that may exist at once (a bound)
    None             \* nobody

Tiles == 0..(TilesAcross * TotalRows - 1)

ASSUME GridAssumption == TilesAcross \in Nat \ {0} /\ TotalRows \in Nat \ {0}
ASSUME AskedAssumption == Asked \subseteq Tiles
ASSUME NoneAssumption == None \notin Runners

VARIABLES
    state,           \* of each goroutine: free, start, run, return or wait
    tile,            \* the tile it was started for
    call,            \* the goroutine whose call it waits for, or None
    left,            \* neighbours its call has not fetched yet
    inflightPrefetch,\* of each tile: the goroutine the group's key stands for
    timers           \* of each tile: Forgets scheduled and not fired yet

vars == <<state, tile, call, left, inflightPrefetch, timers>>

\* MUTANT of Neighbors: no check of the column, so rows wrap around.
NeighborsWrapping(t) ==
    {((t \div TilesAcross) + e[2]) * TilesAcross + (t % TilesAcross) + e[1] :
        e \in {d \in (-1..1) \X (-1..1) :
                        /\ d # <<0, 0>>
                        /\ (t \div TilesAcross) + d[2] \in 0..(TotalRows - 1)}}

\* The offsets by row and column that stay on the grid, as tile numbers.
Neighbors(t) ==
    {((t \div TilesAcross) + e[2]) * TilesAcross + (t % TilesAcross) + e[1] :
        e \in {d \in (-1..1) \X (-1..1) :
                        /\ d # <<0, 0>>
                        /\ (t % TilesAcross) + d[1] \in 0..(TilesAcross - 1)
                        /\ (t \div TilesAcross) + d[2] \in 0..(TotalRows - 1)}}

Init ==
    /\ state = [r \in Runners |-> "free"]
    /\ tile = [r \in Runners |-> None]
    /\ call = [r \in Runners |-> None]
    /\ left = [r \in Runners |-> {}]
    /\ inflightPrefetch = [t \in Asked |-> None]
    /\ timers = [t \in Asked |-> 0]

\* Prefetches of t that run, or whose Forget is still to come.
Pending(t) ==
    Cardinality({r \in Runners : state[r] \in {"start", "run"} /\ tile[r] = t}) + timers[t]

\* loc read tile t and starts goroutine r.
Spawn(r, t) ==
    /\ state[r] = "free"
    /\ Pending(t) < MaxForgets
    /\ state' = [state EXCEPT ![r] = "start"]
    /\ tile' = [tile EXCEPT ![r] = t]
    /\ UNCHANGED <<call, left, inflightPrefetch, timers>>

\* Do with no call for the tile in the group.
DoLead(r) ==
    /\ state[r] = "start"
    /\ inflightPrefetch[tile[r]] = None
    /\ inflightPrefetch' = [inflightPrefetch EXCEPT ![tile[r]] = r]
    /\ left' = [left EXCEPT ![r] = Neighbors(tile[r])]
    /\ state' = [state EXCEPT ![r] = "run"]
    /\ UNCHANGED <<tile, call, timers>>

DoJoin(r) ==
    /\ state[r] = "start"
    /\ inflightPrefetch[tile[r]] # None
    /\ call' = [call EXCEPT ![r] = inflightPrefetch[tile[r]]]
    /\ state' = [state EXCEPT ![r] = "wait"]
    /\ UNCHANGED <<tile, left, inflightPrefetch, timers>>

\* getTileData of neighbour n returned, with the tile or an error.
NeighborDone(r, n) ==
    /\ state[r] = "run"
    /\ n \in left[r]
    /\ left' = [left EXCEPT ![r] = @ \ {n}]
    /\ UNCHANGED <<state, tile, call, inflightPrefetch, timers>>

\* All neighbours are in: wg.Wait returns, and time.AfterFunc is called.
Schedule(r) ==
    /\ state[r] = "run"
    /\ left[r] = {}
    /\ timers' = [timers EXCEPT ![tile[r]] = @ + 1]
    /\ state' = [state EXCEPT ![r] = "return"]
    /\ UNCHANGED <<tile, call, left, inflightPrefetch>>

\* MUTANT of Return: the key stays until its Forget.
ReturnKeepsKey(r) ==
    LET ended == {r} \cup {q \in Runners : call[q] = r} IN
    /\ state[r] = "return"
    /\ state' = [q \in Runners |-> IF q \in ended THEN "free" ELSE state[q]]
    /\ tile' = [q \in Runners |-> IF q \in ended THEN None ELSE tile[q]]
    /\ call' = [q \in Runners |-> IF q \in ended THEN None ELSE call[q]]
    /\ UNCHANGED <<left, inflightPrefetch, timers>>

\* MUTANT of Return: those who joined are woken through the key only.
ReturnByKey(r) ==
    LET ended == {r} \cup {q \in Runners :
                              call[q] = r /\ inflightPrefetch[tile[r]] = r} IN
    /\ state[r] = "return"
    /\ inflightPrefetch' = [inflightPrefetch EXCEPT ![tile[r]] = IF @ = r THEN None ELSE @]
    /\ state' = [q \in Runners |-> IF q \in ended THEN "free" ELSE state[q]]
    /\ tile' = [q \in Runners |-> IF q \in ended THEN None ELSE tile[q]]
    /\ call' = [q \in Runners |-> IF q \in ended THEN None ELSE call[q]]
    /\ UNCHANGED <<left, timers>>

\* The call returns: its key goes unless it stands for another call by now,
\* and the goroutines that joined this call end with it.
Return(r) ==
    LET ended == {r} \cup {q \in Runners : call[q] = r} IN
    /\ state[r] = "return"
    /\ inflightPrefetch' = [inflightPrefetch EXCEPT ![tile[r]] = IF @ = r THEN None ELSE @]
    /\ state' = [q \in Runners |-> IF q \in ended THEN "free" ELSE state[q]]
    /\ tile' = [q \in Runners |-> IF q \in ended THEN None ELSE tile[q]]
    /\ call' = [q \in Runners |-> IF q \in ended THEN None ELSE call[q]]
    /\ UNCHANGED <<left, timers>>

\* A minute later: drop the key, whatever call it stands for.
Forget(t) ==
    /\ timers[t] > 0
    /\ timers' = [timers EXCEPT ![t] = @ - 1]
    /\ inflightPrefetch' = [inflightPrefetch EXCEPT ![t] = None]
    /\ UNCHANGED <<state, tile, call, left>>

Run(r) ==
    \/ DoLead(r) \/ DoJoin(r) \/ Schedule(r) \/ Return(r)
    \/ \E n \in Tiles : NeighborDone(r, n)

Next ==
    \/ \E r \in Runners, t \in Asked : Spawn(r, t)
    \/ \E r \in Runners : Run(r)
    \/ \E t \in Asked : Forget(t)

Safety == Init /\ [][Next]_vars

\* Goroutines run on, and getTileData answers every neighbour's read.
Spec == Safety /\ \A r \in Runners : WF_vars(Run(r))

-----------------------------------------------------------------------------
(* Properties *)

\* The tile numbers next to t, by the distance of their rows and columns.
Adjacent(t) ==
    {u \in Tiles \ {t} :
        /\ (u \div TilesAcross) - (t \div TilesAcross) \in -1..1
        /\ (u % TilesAcross) - (t % TilesAcross) \in -1..1}

TypeOK ==
    /\ state \in [Runners -> {"free", "start", "run", "return", "wait"}]
    /\ tile \in [Runners -> Asked \cup {None}]
    /\ call \in [Runners -> Runners \cup {None}]
    /\ left \in [Runners -> SUBSET Tiles]
    /\ inflightPrefetch \in [Asked -> Runners \cup {None}]
    /\ timers \in [Asked -> Nat]

\* A prefetch asks for tiles of the image that touch its tile and for no other:
\* at the edges of the grid the arithmetic on tile numbers does not wrap.
OnlyAdjacentFetched ==
    \A r \in Runners : state[r] = "run" => left[r] \subseteq Adjacent(tile[r])

\* Whoever joined a call waits for one of its own tile that still runs, even
\* when a Forget took the key away meanwhile.
JoinedCallRuns ==
    \A r \in Runners : state[r] = "wait" =>
        /\ state[call[r]] \in {"run", "return"}
        /\ tile[call[r]] = tile[r]

\* Every background goroutine ends: none is left behind in the group.
GoroutinesEnd == \A r \in Runners : state[r] = "start" ~> state[r] = "free"

\* The group's key stands for a call of its tile that has not returned.
KeyIsRunning ==
    \A t \in Asked : inflightPrefetch[t] # None =>
        /\ state[inflightPrefetch[t]] \in {"run", "return"}
        /\ tile[inflightPrefetch[t]] = t

\* Only those who wait have a call to wait for; whoever is started has a tile.
FitsState ==
    \A r \in Runners :
        /\ call[r] # None <=> state[r] = "wait"
        /\ state[r] # "free" => tile[r] \in Asked

\* The inductive invariant behind the safety properties.
IInv == TypeOK /\ KeyIsRunning /\ FitsState /\ OnlyAdjacentFetched /\ JoinedCallRuns
=============================================================================
