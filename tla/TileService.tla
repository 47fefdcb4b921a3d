---------------------------- MODULE TileService ----------------------------
(***************************************************************************)
(* What reading a tile promises its callers, whatever the cache, the       *)
(* coalescing of concurrent reads and the decoding do behind it.  A        *)
(* goroutine asks an open GeoTIFF for one of its tiles and waits; the      *)
(* answer is that tile of that GeoTIFF's file, or a failure.  Goroutines   *)
(* that wait for the same tile of the same GeoTIFF may be answered         *)
(* together, and then all of them get the same answer.                     *)
(***************************************************************************)
CONSTANTS
    Procs,           \* goroutines that read tiles
    Geos,            \* open GeoTIFF values
    Tiles,           \* tile numbers
    SlowRequests,    \* <<geo, tile>>s whose reads may never come back
    TileOf(_),       \* the decoded tile a request <<geo, tile>> is about
    None,            \* no request, no answer
    Failed           \* the answer that is an error

VARIABLES
    status,          \* idle, waiting or answered, for each goroutine
    request,         \* the <<geo, tile>> it asked for
    answer           \* what it was given

vars == <<status, request, answer>>

Requests == Geos \X Tiles

Outcomes(r) == {Failed, TileOf(r)}

Init ==
    /\ status = [p \in Procs |-> "idle"]
    /\ request = [p \in Procs |-> None]
    /\ answer = [p \in Procs |-> None]

Ask(p) ==
    /\ status[p] = "idle"
    /\ \E r \in Requests : request' = [request EXCEPT ![p] = r]
    /\ status' = [status EXCEPT ![p] = "waiting"]
    /\ UNCHANGED answer

\* Answer every goroutine of S, all waiting for the tile r, with one outcome.
Answer(S, r) ==
    /\ \A p \in S : status[p] = "waiting" /\ request[p] = r
    /\ \E v \in Outcomes(r) :
          answer' = [p \in Procs |-> IF p \in S THEN v ELSE answer[p]]
    /\ status' = [p \in Procs |-> IF p \in S THEN "answered" ELSE status[p]]
    /\ UNCHANGED request

Take(p) ==
    /\ status[p] = "answered"
    /\ status' = [status EXCEPT ![p] = "idle"]
    /\ request' = [request EXCEPT ![p] = None]
    /\ answer' = [answer EXCEPT ![p] = None]

Next ==
    \/ \E p \in Procs : Ask(p) \/ Take(p)
    \/ \E S \in SUBSET Procs, r \in Requests : S # {} /\ Answer(S, r)

Safety == Init /\ [][Next]_vars

\* Nobody who asks waits for ever, unless for a slow request.
Answered(p) ==
    \E S \in SUBSET Procs, r \in Requests : p \in S /\ r \notin SlowRequests /\ Answer(S, r)

Spec == Safety /\ \A p \in Procs : WF_vars(Answered(p))
=============================================================================
