--------------------------- MODULE PrefetchProofs ---------------------------
(***************************************************************************)
(* For any grid of tiles and any number of background goroutines and of    *)
(* Forgets: a prefetch asks for adjacent tiles only, and whoever joined a  *)
(* call of the group is woken by it.                                       *)
(***************************************************************************)
EXTENDS Prefetch, TLAPS

-----------------------------------------------------------------------------
(* The arithmetic of tile numbers *)

\* A product with a positive factor is at least the factor.
LEMMA ProductLemma ==
  ASSUME NEW n \in Nat \ {0}, NEW a \in Int, NEW b \in Int, a > b
  PROVE a * n >= b * n + n
  <1>1. (a - b) * n = a * n - b * n
    OBVIOUS
  <1>2. a - b >= 1 => (a - b) * n >= n
    OBVIOUS
  <1> QED
    BY <1>1, <1>2

\* A tile number names one row and one column.
LEMMA RowAndColumn ==
  ASSUME NEW n \in Nat \ {0}, NEW q \in Nat, NEW c \in 0..(n - 1)
  PROVE (q * n + c) \div n = q /\ (q * n + c) % n = c
  <1> DEFINE x == q * n + c
             a == x \div n
             b == x % n
  <1>1. x \in Nat /\ x = q * n + c
    OBVIOUS
  <1> HIDE DEF x
  <1>2. a \in Nat /\ b \in 0..(n - 1) /\ x = a * n + b
    BY <1>1
  <1> HIDE DEF a, b
  <1>3. ~(a > q)
    <2>1. a > q => a * n >= q * n + n
      BY <1>2, ProductLemma
    <2> QED
      BY <1>1, <1>2, <2>1
  <1>4. ~(q > a)
    <2>1. q > a => q * n >= a * n + n
      BY <1>2, ProductLemma
    <2> QED
      BY <1>1, <1>2, <2>1
  <1>5. a = q
    BY <1>2, <1>3, <1>4
  <1>6. b = c
    BY <1>1, <1>2, <1>5
  <1> QED
    BY <1>5, <1>6 DEF a, b, x

\* A row and a column of the grid make a tile number.
LEMMA OnGrid ==
  ASSUME NEW q \in 0..(TotalRows - 1), NEW c \in 0..(TilesAcross - 1)
  PROVE q * TilesAcross + c \in Tiles
  <1>1. TilesAcross \in Nat \ {0} /\ TotalRows \in Nat \ {0}
    BY GridAssumption
  <1>2. TotalRows * TilesAcross >= q * TilesAcross + TilesAcross
    BY <1>1, ProductLemma
  <1>3. q * TilesAcross \in Nat
    BY <1>1
  <1>4. TilesAcross * TotalRows = TotalRows * TilesAcross
    BY <1>1
  <1> QED
    BY <1>1, <1>2, <1>3, <1>4 DEF Tiles

\* The neighbours of a tile are the tiles that touch it: at no edge does the
\* arithmetic on tile numbers wrap around.
LEMMA NeighborsAdjacent ==
  ASSUME NEW t \in Tiles
  PROVE Neighbors(t) \subseteq Adjacent(t)
  <1> DEFINE row == t \div TilesAcross
             col == t % TilesAcross
  <1>1. TilesAcross \in Nat \ {0} /\ t \in Nat /\ row \in Nat /\ col \in Nat
    BY GridAssumption DEF Tiles
  <1> SUFFICES ASSUME NEW u \in Neighbors(t) PROVE u \in Adjacent(t)
    OBVIOUS
  <1>2. PICK i \in -1..1, j \in -1..1 :
           /\ <<i, j>> # <<0, 0>>
           /\ col + i \in 0..(TilesAcross - 1) /\ row + j \in 0..(TotalRows - 1)
           /\ u = (row + j) * TilesAcross + col + i
    BY DEF Neighbors
  <1> HIDE DEF row, col
  <1>3. PICK q \in 0..(TotalRows - 1), c \in 0..(TilesAcross - 1) : q = row + j /\ c = col + i
    BY <1>2
  <1>4. u = q * TilesAcross + c
    BY <1>1, <1>2, <1>3
  <1>5. u \in Tiles
    BY <1>4, OnGrid
  <1>6. u \div TilesAcross = q /\ u % TilesAcross = c
    <2>1. q \in Nat
      BY GridAssumption
    <2> QED
      BY <1>1, <1>4, <2>1, RowAndColumn
  <1>7. u # t
    BY <1>1, <1>2, <1>3, <1>6 DEF row, col
  <1>8. q - row \in -1..1 /\ c - col \in -1..1
    BY <1>1, <1>2, <1>3
  <1> QED
    BY <1>5, <1>6, <1>7, <1>8 DEF Adjacent, row, col

-----------------------------------------------------------------------------
(* The invariant *)

\* Nothing is asked and nothing is under way: the invariant holds at the start.
LEMMA InitIInv == Init => IInv
  <1> SUFFICES ASSUME Init PROVE IInv
    OBVIOUS
  <1>1. TypeOK
    BY DEF Init, TypeOK
  <1>2. KeyIsRunning /\ FitsState /\ OnlyAdjacentFetched /\ JoinedCallRuns
    BY DEF Init, KeyIsRunning, FitsState, OnlyAdjacentFetched, JoinedCallRuns
  <1> QED
    BY <1>1, <1>2 DEF IInv

\* Every step preserves the invariant, the stuttering one included.
LEMMA StepIInv == IInv /\ [Next]_vars => IInv'
  <1> SUFFICES ASSUME IInv, [Next]_vars PROVE IInv'
    OBVIOUS
  <1> USE NoneAssumption DEF IInv
  <1>0. Asked \subseteq Tiles
    BY AskedAssumption
  <1>1. ASSUME NEW r \in Runners, NEW t \in Asked, Spawn(r, t) PROVE IInv'
    <2> USE <1>1 DEF Spawn
    <2>1. TypeOK'
      BY DEF TypeOK
    <2>2. KeyIsRunning'
      BY DEF KeyIsRunning, TypeOK
    <2>3. FitsState'
      BY DEF FitsState, TypeOK
    <2>4. OnlyAdjacentFetched'
      BY DEF OnlyAdjacentFetched, TypeOK
    <2>5. JoinedCallRuns'
      BY DEF JoinedCallRuns, FitsState, TypeOK
    <2> QED
      BY <2>1, <2>2, <2>3, <2>4, <2>5
  <1>2. ASSUME NEW r \in Runners, DoLead(r) PROVE IInv'
    <2> USE <1>2 DEF DoLead
    <2>0. tile[r] \in Asked
      BY DEF FitsState
    <2>1. Neighbors(tile[r]) \subseteq Adjacent(tile[r])
      BY <1>0, <2>0, NeighborsAdjacent
    <2>2. TypeOK'
      BY <2>0, <2>1 DEF TypeOK, Adjacent
    <2>3. KeyIsRunning'
      BY <2>0 DEF KeyIsRunning, TypeOK
    <2>4. FitsState'
      BY DEF FitsState, TypeOK
    <2>5. OnlyAdjacentFetched'
      BY <2>1 DEF OnlyAdjacentFetched, TypeOK
    <2>6. JoinedCallRuns'
      BY DEF JoinedCallRuns, FitsState, TypeOK
    <2> QED
      BY <2>2, <2>3, <2>4, <2>5, <2>6
  <1>3. ASSUME NEW r \in Runners, DoJoin(r) PROVE IInv'
    <2> USE <1>3 DEF DoJoin
    <2>0. tile[r] \in Asked /\ inflightPrefetch[tile[r]] \in Runners
      BY DEF FitsState, TypeOK
    <2>1. TypeOK'
      BY <2>0 DEF TypeOK
    <2>2. KeyIsRunning'
      BY DEF KeyIsRunning, TypeOK
    <2>3. FitsState'
      BY <2>0 DEF FitsState, TypeOK
    <2>4. OnlyAdjacentFetched'
      BY DEF OnlyAdjacentFetched, TypeOK
    <2>5. JoinedCallRuns'
      BY <2>0 DEF JoinedCallRuns, KeyIsRunning, FitsState, TypeOK
    <2> QED
      BY <2>1, <2>2, <2>3, <2>4, <2>5
  <1>4. ASSUME NEW r \in Runners, NEW n \in Tiles, NeighborDone(r, n) PROVE IInv'
    <2> USE <1>4 DEF NeighborDone
    <2>1. TypeOK'
      BY DEF TypeOK
    <2>2. KeyIsRunning' /\ FitsState' /\ JoinedCallRuns'
      BY DEF KeyIsRunning, FitsState, JoinedCallRuns
    <2>3. OnlyAdjacentFetched'
      BY DEF OnlyAdjacentFetched, TypeOK
    <2> QED
      BY <2>1, <2>2, <2>3
  <1>5. ASSUME NEW r \in Runners, Schedule(r) PROVE IInv'
    <2> USE <1>5 DEF Schedule
    <2>0. tile[r] \in Asked
      BY DEF FitsState
    <2>1. TypeOK'
      BY <2>0 DEF TypeOK
    <2>2. KeyIsRunning' /\ FitsState'
      BY DEF KeyIsRunning, FitsState, TypeOK
    <2>3. OnlyAdjacentFetched' /\ JoinedCallRuns'
      BY DEF OnlyAdjacentFetched, JoinedCallRuns, FitsState, TypeOK
    <2> QED
      BY <2>1, <2>2, <2>3
  <1>6. ASSUME NEW r \in Runners, Return(r) PROVE IInv'
    <2> DEFINE ended == {r} \cup {q \in Runners : call[q] = r}
    <2>0. /\ state[r] = "return" /\ tile[r] \in Asked
          /\ inflightPrefetch' = [inflightPrefetch EXCEPT ![tile[r]] = IF @ = r THEN None ELSE @]
          /\ state' = [q \in Runners |-> IF q \in ended THEN "free" ELSE state[q]]
          /\ tile' = [q \in Runners |-> IF q \in ended THEN None ELSE tile[q]]
          /\ call' = [q \in Runners |-> IF q \in ended THEN None ELSE call[q]]
          /\ UNCHANGED <<left, timers>>
      BY <1>6 DEF Return, FitsState
    <2>1. \A q \in ended : q = r \/ state[q] = "wait"
      BY DEF FitsState
    <2>2. \A q \in Runners : call[q] = r => q \in ended
      OBVIOUS
    <2> HIDE DEF ended
    <2>3. TypeOK'
      BY <2>0 DEF TypeOK
    <2>4. \A t \in Asked : inflightPrefetch'[t] # None =>
             inflightPrefetch'[t] = inflightPrefetch[t] /\ inflightPrefetch[t] \notin ended
      <3> SUFFICES ASSUME NEW t \in Asked, inflightPrefetch'[t] # None
                   PROVE /\ inflightPrefetch'[t] = inflightPrefetch[t]
                         /\ inflightPrefetch[t] \notin ended
        OBVIOUS
      <3>1. inflightPrefetch'[t] = inflightPrefetch[t]
        BY <2>0 DEF TypeOK
      <3>2. inflightPrefetch[t] # r
        BY <2>0, <3>1 DEF TypeOK, KeyIsRunning
      <3> QED
        BY <2>1, <3>1, <3>2 DEF KeyIsRunning
    <2>5. KeyIsRunning'
      BY <2>0, <2>4 DEF KeyIsRunning, TypeOK
    <2>6. FitsState'
      BY <2>0 DEF FitsState
    <2>7. OnlyAdjacentFetched'
      BY <2>0 DEF OnlyAdjacentFetched
    <2>8. JoinedCallRuns'
      <3> SUFFICES ASSUME NEW q \in Runners, state'[q] = "wait"
                   PROVE state'[call'[q]] \in {"run", "return"} /\ tile'[call'[q]] = tile'[q]
        BY DEF JoinedCallRuns
      <3>1. q \notin ended /\ state[q] = "wait" /\ call'[q] = call[q] /\ tile'[q] = tile[q]
        BY <2>0
      <3>2. call[q] \in Runners /\ call[q] # r /\ state[call[q]] \in {"run", "return"}
        BY <2>2, <3>1 DEF FitsState, JoinedCallRuns, TypeOK
      <3>3. call[q] \notin ended
        BY <2>1, <3>2
      <3> QED
        BY <2>0, <3>1, <3>2, <3>3 DEF JoinedCallRuns
    <2> QED
      BY <2>3, <2>5, <2>6, <2>7, <2>8
  <1>7. ASSUME NEW t \in Asked, Forget(t) PROVE IInv'
    <2> USE <1>7 DEF Forget
    <2>1. TypeOK'
      BY DEF TypeOK
    <2>2. KeyIsRunning'
      BY DEF KeyIsRunning, TypeOK
    <2>3. FitsState' /\ OnlyAdjacentFetched' /\ JoinedCallRuns'
      BY DEF FitsState, OnlyAdjacentFetched, JoinedCallRuns
    <2> QED
      BY <2>1, <2>2, <2>3
  <1>8. CASE UNCHANGED vars
    BY <1>8 DEF vars, TypeOK, KeyIsRunning, FitsState, OnlyAdjacentFetched, JoinedCallRuns
  <1> QED
    BY <1>1, <1>2, <1>3, <1>4, <1>5, <1>6, <1>7, <1>8 DEF Next, Run

-----------------------------------------------------------------------------
(* The theorems *)

\* The inductive invariant of the prefetch and its group.
THEOREM Invariance == Safety => []IInv
  BY InitIInv, StepIInv, PTL DEF Safety

\* Type correctness; the tiles asked for are tiles of the image.
THEOREM TypeCorrect == Safety => []TypeOK
  <1>1. IInv => TypeOK
    BY DEF IInv
  <1> QED
    BY <1>1, Invariance, PTL

\* A prefetch never asks for a tile that does not touch its own.
THEOREM Adjacency == Safety => []OnlyAdjacentFetched
  <1>1. IInv => OnlyAdjacentFetched
    BY DEF IInv
  <1> QED
    BY <1>1, Invariance, PTL

\* Nobody waits for a call that is over, even when a Forget took the key away.
THEOREM Joined == Safety => []JoinedCallRuns
  <1>1. IInv => JoinedCallRuns
    BY DEF IInv
  <1> QED
    BY <1>1, Invariance, PTL
=============================================================================
