---------------------------- MODULE ServerProofs ----------------------------
(***************************************************************************)
(* For every kind of raster, any bound on the requests and any servers     *)
(* that hang: what main's shutdown leaves behind, what the health service  *)
(* says meanwhile, and what the last requests can still read.  For every   *)
(* sequence of clicks, resets and answers: what the page shows.            *)
(***************************************************************************)
EXTENDS ServerLifecycle, WebPage, SequenceTheorems, TLAPS

\* main stops each server once.
LEMMA OrderLemma ==
    /\ Len(StopOrder) = 4
    /\ \A i \in 1..4 : StopOrder[i] \in Servers
    /\ \A i, j \in 1..4 : StopOrder[i] = StopOrder[j] => i = j
    /\ \A s \in Servers : \E i \in 1..4 : StopOrder[i] = s
  BY DEF StopOrder, Servers, Grpc, Http

\* What the setup makes of a configuration.
LEMMA SetupLemma ==
  ASSUME config \in [bucket : BOOLEAN, remote : BOOLEAN, vrt : BOOLEAN]
  PROVE /\ setupTIFFReader \in Readers
        /\ setupTIFFReader.context = "group" => config.bucket /\ ~config.vrt
  BY DEF setupTIFFReader, setupBlobVRTReader, setupHTTPVRTReader, setupLocalVRTReader, Reads,
         Readers

\* Nothing is started before the raster is open: the invariant holds at the start.
LEMMA InitIInv == Init => IInv
  <1> SUFFICES ASSUME Init PROVE IInv
    OBVIOUS
  <1> USE DEF Init
  <1>1. TypeOK
    <2>1. 0 \in 0..MaxRequests /\ 1 \in 1..Len(StopOrder)
      BY OrderLemma, MaxAssumption
    <2>2. /\ config \in Configs /\ raster \in {NoRaster} \cup Readers
          /\ turn \in 1..Len(StopOrder) /\ active \in [Servers -> 0..MaxRequests]
      BY <2>1
    <2>3. /\ assigned \in [Servers -> BOOLEAN] /\ stopped \in [Servers -> BOOLEAN]
          /\ signalled \in BOOLEAN /\ ctxDone \in BOOLEAN
          /\ statusFixed \in BOOLEAN /\ deadline \in BOOLEAN
      OBVIOUS
    <2> QED
      BY <2>2, <2>3 DEF TypeOK
  <1>2. Unstarted /\ StatusFixed /\ StoppedInTurn /\ Drained /\ CancelledBy /\ CleanExit
    BY DEF Unstarted, StatusFixed, StoppedInTurn, Drained, CancelledBy, CleanExit, Servers
  <1>3. GroupReader
    BY DEF GroupReader, NoRaster
  <1> QED
    BY <1>1, <1>2, <1>3 DEF IInv

-----------------------------------------------------------------------------
(* What a server's goroutine, its clients and the outside world may do *)

\* main goes nowhere in such a step, and what the invariant says of main stays.
Elsewhere ==
    /\ UNCHANGED <<opened, main, turn, stopped, exitCode>>
    /\ \A s \in Grpc : stopped[s] => active'[s] <= active[s]
    /\ main = "setup" => UNCHANGED phase
    /\ \A s \in Servers : phase[s] = "failed" => phase'[s] = "failed"
    /\ ctxDone' => ctxDone \/ \E s \in Servers : phase'[s] = "failed"
    /\ statusFixed => statusFixed' /\ status' = status

\* What happens outside main: no server is told to stop, a stopped gRPC server takes
\* no request, a failed one stays so, and a fixed status does.
LEMMA ElsewhereInv ==
  ASSUME IInv, Running, TypeOK', Elsewhere
  PROVE IInv'
  <1> USE DEF IInv, Elsewhere, opened
  <1>1. Unstarted'
    BY DEF Unstarted
  <1>2. StatusFixed'
    BY DEF StatusFixed
  <1>3. StoppedInTurn'
    BY DEF StoppedInTurn, Past, Current
  <1>4. Drained'
    <2> SUFFICES ASSUME NEW s \in Grpc, stopped[s], Past(s) PROVE active'[s] = 0
      BY DEF Drained, Past
    <2>1. active[s] = 0 /\ active'[s] <= active[s]
      BY DEF Drained
    <2>2. active'[s] \in Nat
      BY DEF TypeOK, Servers
    <2> QED
      BY <2>1, <2>2
  <1>5. CancelledBy'
    BY DEF CancelledBy
  <1>6. GroupReader' /\ CleanExit'
    BY DEF GroupReader, CleanExit, Running
  <1> QED
    BY <1>1, <1>2, <1>3, <1>4, <1>5, <1>6

Phases == {"unborn", "start", "listening", "created", "announced", "serving"} \cup Ended

\* A goroutine's step from one phase to the next.
LEMMA GoroutineStep ==
  ASSUME IInv, Running, NEW s \in Servers, Start(s) \/ ListenFails(s) \/ ServeFails(s)
  PROVE IInv'
  <1> USE DEF Enter, Fail, servers, health
  <1>1. TypeOK /\ Unstarted /\ phase[s] # "unborn" /\ phase[s] \notin Ended
    BY DEF IInv, Start, Listen, ListenFails, Assign, SetServingStatus, Serve, ReadyToServe,
           ServeStopped, ServeFails, ServeReturns, Ended
  <1>2. main # "setup"
    BY <1>1 DEF Unstarted
  <1>3. phase' \in [Servers -> Phases]
    <2>1. \E ph \in Phases : Enter(s, ph)
      BY DEF Phases, Ended, Start, Listen, ListenFails, Assign, SetServingStatus, Serve,
             ServeStopped, ServeFails, ServeReturns
    <2> QED
      BY <1>1, <2>1 DEF TypeOK, Phases
  <1>4. assigned' \in [Servers -> BOOLEAN]
    BY <1>1 DEF TypeOK, Start, Listen, ListenFails, Assign, SetServingStatus, Serve,
                ServeStopped, ServeFails, ServeReturns
  <1>5. ctxDone' \in BOOLEAN /\ status' \in {"UNKNOWN", "SERVING", "NOT_SERVING"}
    BY <1>1 DEF TypeOK, Start, Listen, ListenFails, Assign, SetServingStatus, Serve,
                ServeStopped, ServeFails, ServeReturns
  <1>6. UNCHANGED <<opened, main, turn, stopped, active, signalled, statusFixed, deadline, exitCode>>
    BY DEF Start, Listen, ListenFails, Assign, SetServingStatus, Serve, ServeStopped,
           ServeFails, ServeReturns
  <1>7. TypeOK'
    BY <1>1, <1>3, <1>4, <1>5, <1>6 DEF TypeOK, opened, Phases
  <1>8. Elsewhere
    BY <1>1, <1>2 DEF TypeOK, Elsewhere, Ended, Start, Listen, ListenFails, Assign,
                      SetServingStatus, Serve, ServeStopped, ServeFails, ServeReturns, Servers
  <1> QED
    BY <1>7, <1>8, ElsewhereInv

\* Requests come and are answered, the deadline passes, a signal comes.
LEMMA OutsideStep ==
  ASSUME IInv, Running,
         (\E s \in Servers : Request(s) \/ Respond(s)) \/ DeadlinePasses \/ Signal
  PROVE IInv'
  <1> USE DEF servers, health
  <1>0. TypeOK /\ MaxRequests \in Nat
    BY MaxAssumption DEF IInv
  <1>1. CASE DeadlinePasses \/ Signal
    <2>1. TypeOK'
      BY <1>0, <1>1 DEF TypeOK, DeadlinePasses, Signal, opened
    <2>2. Elsewhere
      BY <1>0, <1>1 DEF TypeOK, Elsewhere, DeadlinePasses, Signal, Servers
    <2> QED
      BY <2>1, <2>2, ElsewhereInv
  <1>2. CASE \E s \in Servers : Request(s) \/ Respond(s)
    <2>1. PICK s \in Servers : Request(s) \/ Respond(s)
      BY <1>2
    <2>2. active[s] \in 0..MaxRequests
      BY <1>0 DEF TypeOK
    <2>3. active'[s] \in 0..MaxRequests /\ (stopped[s] => active'[s] <= active[s])
      BY <1>0, <2>1, <2>2 DEF Request, Respond, TypeOK
    <2>4. \A q \in Servers \ {s} : active'[q] = active[q]
      BY <1>0, <2>1 DEF Request, Respond, TypeOK
    <2>5. active' \in [Servers -> 0..MaxRequests]
      BY <1>0, <2>1, <2>3 DEF Request, Respond, TypeOK
    <2>6. TypeOK'
      BY <1>0, <2>1, <2>5 DEF TypeOK, Request, Respond, opened
    <2>7. \A q \in Grpc : stopped[q] => active'[q] <= active[q]
      <3> SUFFICES ASSUME NEW q \in Grpc, stopped[q] PROVE active'[q] <= active[q]
        OBVIOUS
      <3>1. q \in Servers /\ active[q] \in 0..MaxRequests
        BY <1>0 DEF TypeOK, Servers
      <3> QED
        BY <1>0, <2>3, <2>4, <3>1
    <2>8. Elsewhere
      BY <2>1, <2>7 DEF Elsewhere, Request, Respond
    <2> QED
      BY <2>6, <2>8, ElsewhereInv
  <1> QED
    BY <1>1, <1>2

-----------------------------------------------------------------------------
(* What main does *)

\* From the opening of the raster to the end of the health service.
LEMMA BeginStep ==
  ASSUME IInv, Running, Setup \/ SetupFails \/ Select \/ HealthShutdown
  PROVE IInv'
  <1> USE DEF servers, health, opened
  <1>0. TypeOK /\ config \in [bucket : BOOLEAN, remote : BOOLEAN, vrt : BOOLEAN]
    BY ConfigsAssumption DEF IInv, TypeOK
  <1>1. setupTIFFReader \in Readers
        /\ (setupTIFFReader.context = "group" => config.bucket /\ ~config.vrt)
    BY <1>0, SetupLemma
  <1>2. TypeOK'
    <2>1. CASE Setup
      BY <1>0, <1>1, <2>1 DEF TypeOK, Setup
    <2>2. CASE SetupFails \/ Select \/ HealthShutdown
      <3>1. /\ UNCHANGED <<config, raster, turn, phase, assigned, stopped, active, deadline>>
            /\ signalled' = signalled /\ ctxDone' \in BOOLEAN /\ statusFixed' \in BOOLEAN
            /\ status' \in {"UNKNOWN", "SERVING", "NOT_SERVING"} /\ exitCode' \in 0..2
            /\ main' \in {"health", "stop", "exit"}
        <4>1. CASE SetupFails
          BY <4>1 DEF IInv, TypeOK, SetupFails
        <4>2. CASE Select
          BY <4>2 DEF IInv, TypeOK, Select
        <4>3. CASE HealthShutdown
          BY <4>3 DEF IInv, TypeOK, HealthShutdown
        <4> QED
          BY <2>2, <4>1, <4>2, <4>3
      <3> QED
        BY <3>1 DEF IInv, TypeOK
    <2> QED
      BY <2>1, <2>2
  <1>3. main' \in {"select", "health", "stop", "exit"} /\ UNCHANGED <<stopped, turn, active>>
    BY DEF Setup, SetupFails, Select, HealthShutdown
  <1>4. Unstarted' /\ StatusFixed'
    BY <1>3 DEF Unstarted, StatusFixed, HealthShutdown, Setup, SetupFails, Select
  <1>5. main \in {"setup", "select", "health"}
    BY DEF Setup, SetupFails, Select, HealthShutdown
  <1>6. StoppedInTurn'
    BY <1>3, <1>5 DEF IInv, StoppedInTurn, Past
  <1>7. Drained'
    <2>1. CASE SetupFails
      BY <2>1 DEF IInv, Unstarted, Drained, SetupFails, Servers
    <2>2. CASE ~SetupFails
      BY <1>3, <2>2 DEF IInv, Drained, Past, Setup, Select, HealthShutdown
    <2> QED
      BY <2>1, <2>2
  <1>8. CancelledBy'
    <2>1. CASE Setup
      BY <2>1 DEF IInv, Unstarted, CancelledBy, Setup
    <2>2. CASE SetupFails \/ Select \/ HealthShutdown
      BY <2>2 DEF CancelledBy, SetupFails, Select, HealthShutdown
    <2> QED
      BY <2>1, <2>2
  <1>9. GroupReader'
    BY <1>1 DEF IInv, GroupReader, Setup, SetupFails, Select, HealthShutdown
  <1>10. CleanExit' /\ (main' # "exit" => exitCode' = 0)
    BY DEF IInv, Unstarted, CleanExit, Running, Setup, SetupFails, Select, HealthShutdown
  <1> QED
    BY <1>2, <1>4, <1>6, <1>7, <1>8, <1>9, <1>10 DEF IInv

\* The server main is at is one it is not through with.
LEMMA CurrentLemma ==
  ASSUME TypeOK, main \in {"stop", "stopping"}
  PROVE Current \in Servers /\ ~Past(Current)
  <1>1. turn \in 1..4
    BY OrderLemma DEF TypeOK
  <1> QED
    BY <1>1, OrderLemma DEF Current, Past

\* Going on to the next server, main is through with this one and no other.
LEMMA NextServerLemma ==
  ASSUME TypeOK, main \in {"stop", "stopping"}, NextServer, NEW s \in Servers, Past(s)'
  PROVE Past(s) \/ s = Current
  <1>1. turn \in 1..4 /\ Len(StopOrder) = 4
    BY OrderLemma DEF TypeOK
  <1>2. PICK i \in 1..4 : StopOrder[i] = s
    BY OrderLemma
  <1>3. CASE i <= turn
    BY <1>1, <1>2, <1>3 DEF Past, Current
  <1>4. CASE i > turn
    <2>1. turn < 4 /\ turn' = turn + 1 /\ main' = "stop"
      BY <1>1, <1>2, <1>4 DEF NextServer
    <2>2. PICK j \in 1..turn : StopOrder[j] = s
      BY <1>1, <2>1 DEF Past
    <2> QED
      BY <1>1, <1>2, <1>4, <2>2, OrderLemma
  <1> QED
    BY <1>1, <1>2, <1>3, <1>4

\* ... and whatever main was through with, it still is.
LEMMA NextServerPast ==
  ASSUME TypeOK, main \in {"stop", "stopping"}, NextServer, NEW s \in Servers
  PROVE Past(s) \/ s = Current => Past(s)'
  <1>1. turn \in 1..4 /\ Len(StopOrder) = 4
    BY OrderLemma DEF TypeOK
  <1> QED
    BY <1>1 DEF Past, Current, NextServer

\* From server to server.
LEMMA StopStep ==
  ASSUME IInv, Running, SkipServer \/ StopServer \/ StopReturns
  PROVE IInv'
  <1> USE DEF servers, health, opened
  <1>0. TypeOK /\ main \in {"stop", "stopping"} /\ turn \in 1..4 /\ Len(StopOrder) = 4
    BY OrderLemma DEF IInv, TypeOK, SkipServer, StopServer, StopReturns
  <1>1. Current \in Servers /\ ~Past(Current)
    BY <1>0, CurrentLemma
  <1>2. /\ main' \in {"stop", "stopping", "wait"}
        /\ UNCHANGED <<config, raster, phase, active, ctxDone, status, statusFixed, exitCode>>
    BY DEF SkipServer, StopServer, StopReturns, NextServer
  <1>3. TypeOK'
    <2>1. turn' \in 1..4
      BY <1>0 DEF SkipServer, StopServer, StopReturns, NextServer
    <2>2. stopped' \in [Servers -> BOOLEAN]
      BY <1>0, <1>1 DEF TypeOK, SkipServer, StopServer, StopReturns
    <2>3. assigned' = assigned /\ signalled' = signalled /\ deadline' = deadline
      BY DEF SkipServer, StopServer, StopReturns
    <2> QED
      BY <1>0, <1>2, <2>1, <2>2, <2>3 DEF TypeOK
  <1>4. StatusFixed' /\ Unstarted' /\ CancelledBy' /\ GroupReader'
        /\ (main' # "exit" => exitCode' = 0) /\ CleanExit'
    BY <1>0, <1>2 DEF IInv, StatusFixed, Unstarted, CancelledBy, GroupReader, CleanExit
  <1>5. StoppedInTurn' /\ Drained'
    <2>1. CASE StopServer
      <3>1. /\ main = "stop" /\ main' = "stopping" /\ turn' = turn
            /\ stopped' = [stopped EXCEPT ![Current] = TRUE]
        BY <2>1 DEF StopServer
      <3>2. \A s \in Servers : Past(s)' <=> Past(s)
        BY <3>1 DEF Past
      <3>3. Current' = Current
        BY <3>1 DEF Current
      <3>4. \A s \in Servers : s # Current => stopped'[s] = stopped[s]
        BY <3>1, <1>0 DEF TypeOK
      <3>5. StoppedInTurn'
        BY <3>1, <3>2, <3>3, <3>4 DEF IInv, StoppedInTurn
      <3>6. Drained'
        BY <1>1, <1>2, <3>2, <3>4 DEF IInv, Drained, Servers
      <3> QED
        BY <3>5, <3>6
    <2>2. CASE SkipServer \/ StopReturns
      <3>1. NextServer /\ UNCHANGED <<stopped, active>>
        BY <2>2 DEF SkipServer, StopReturns
      <3>2. \A s \in Servers : stopped[s] => Past(s) \/ s = Current
        BY DEF IInv, StoppedInTurn
      <3>3. StoppedInTurn'
        BY <1>0, <3>1, <3>2, NextServerPast DEF StoppedInTurn
      <3>4. Current \in Grpc /\ stopped[Current] => active[Current] = 0
        <4>1. CASE SkipServer
          BY <1>1, <4>1 DEF IInv, StoppedInTurn, SkipServer
        <4>2. CASE StopReturns
          BY <4>2 DEF StopReturns, Grpc, Http
        <4> QED
          BY <2>2, <4>1, <4>2
      <3>5. Drained'
        <4> SUFFICES ASSUME NEW s \in Grpc, stopped[s], Past(s)' PROVE active[s] = 0
          BY <3>1 DEF Drained
        <4>1. Past(s) \/ s = Current
          BY <1>0, <3>1, NextServerLemma DEF Servers
        <4> QED
          BY <3>4, <4>1 DEF IInv, Drained
      <3> QED
        BY <3>3, <3>5
    <2> QED
      BY <2>1, <2>2
  <1> QED
    BY <1>3, <1>4, <1>5 DEF IInv

\* The end: every goroutine has returned.
LEMMA WaitStep ==
  ASSUME IInv, Running, GroupWait
  PROVE IInv'
  <1> USE DEF servers, health, opened, GroupWait
  <1>1. TypeOK'
    BY DEF IInv, TypeOK
  <1>2. \A s \in Servers : Past(s)' <=> Past(s)
    BY DEF Past
  <1>3. StoppedInTurn' /\ Drained'
    BY <1>2 DEF IInv, StoppedInTurn, Drained, Servers
  <1>4. Unstarted' /\ StatusFixed' /\ CancelledBy' /\ GroupReader'
    BY DEF IInv, Unstarted, StatusFixed, CancelledBy, GroupReader
  <1>5. CleanExit'
    <2>1. \A s \in Grpc : stopped[s] => active[s] = 0
      BY DEF IInv, Drained, Past
    <2> QED
      BY <2>1 DEF CleanExit
  <1> QED
    BY <1>1, <1>3, <1>4, <1>5 DEF IInv

\* Every step keeps the invariant.
LEMMA StepIInv == IInv /\ [Next]_vars => IInv'
  <1> SUFFICES ASSUME IInv, [Next]_vars PROVE IInv'
    OBVIOUS
  <1>1. CASE UNCHANGED vars
    <2> USE <1>1 DEF vars, opened, servers, health
    <2>1. TypeOK' /\ Unstarted' /\ StatusFixed'
      BY DEF IInv, TypeOK, Unstarted, StatusFixed
    <2>2. StoppedInTurn' /\ Drained'
      BY DEF IInv, StoppedInTurn, Drained, Past, Current
    <2>3. CancelledBy' /\ GroupReader' /\ CleanExit'
      BY DEF IInv, CancelledBy, GroupReader, CleanExit
    <2> QED
      BY <2>1, <2>2, <2>3 DEF IInv
  <1>2. CASE Next
    BY <1>2, BeginStep, StopStep, WaitStep, OutsideStep, GoroutineStep DEF Next, Main
  <1> QED
    BY <1>1, <1>2

-----------------------------------------------------------------------------
(* The theorems *)

\* The inductive invariant of the start and the shutdown.
THEOREM Invariance == Safety => []IInv
  BY InitIInv, StepIInv, PTL DEF Safety

\* Type correctness.
THEOREM TypeCorrect == Safety => []TypeOK
  <1>1. IInv => TypeOK
    BY DEF IInv
  <1> QED
    BY <1>1, Invariance, PTL

\* However late the API's goroutine comes, once main stops servers the health
\* service says NOT_SERVING.
THEOREM NotServing == Safety => []NeverServingAgain
  <1>1. IInv => NeverServingAgain
    BY DEF IInv, StatusFixed, NeverServingAgain
  <1> QED
    BY <1>1, Invariance, PTL

\* A process that ends has no goroutine of a server left and no RPC unanswered of
\* a server it stopped, and its exit code tells whether a server failed.
THEOREM Clean == Safety => []CleanExit
  <1>1. IInv => CleanExit
    BY DEF IInv
  <1> QED
    BY <1>1, Invariance, PTL

\* Requests under way can read the raster, unless it is a single object in a
\* bucket and the shutdown has begun or a server has failed.
THEOREM Readable == Safety => []ReadableWhileAnswered
  <1>1. ASSUME IInv, Cut
        PROVE /\ config.bucket /\ ~config.vrt
              /\ main # "select" \/ \E s \in Servers : phase[s] = "failed"
    BY <1>1 DEF IInv, Cut, GroupReader, CancelledBy
  <1>2. IInv => ReadableWhileAnswered
    BY <1>1 DEF ReadableWhileAnswered
  <1> QED
    BY <1>2, Invariance, PTL

\* A goroutine's step leads to a phase of its kind of server.
LEMMA StartedStep == IInv /\ Started /\ [Next]_vars => Started'
  <1> SUFFICES ASSUME IInv, Started, [Next]_vars PROVE Started'
    OBVIOUS
  <1>1. TypeOK /\ phase \in [Servers -> Phases]
    BY DEF IInv, TypeOK, Phases
  <1>2. CASE UNCHANGED vars
    BY <1>2 DEF Started, vars, servers
  <1>3. CASE Setup
    BY <1>3 DEF Setup, Started
  <1>4. CASE SetupFails
    BY <1>4 DEF SetupFails, Started, servers
  <1>5. ASSUME UNCHANGED phase, main \notin {"setup", "exit"} PROVE Started'
    BY <1>5 DEF Started
  <1>6. CASE Select \/ HealthShutdown \/ SkipServer \/ StopServer \/ StopReturns \/ GroupWait
    BY <1>5, <1>6 DEF Select, HealthShutdown, SkipServer, StopServer, StopReturns, GroupWait, servers
  <1>7. ASSUME UNCHANGED <<phase, main>> PROVE Started'
    BY <1>7 DEF Started
  <1>8. CASE DeadlinePasses \/ Signal \/ \E s \in Servers : Request(s) \/ Respond(s)
    BY <1>7, <1>8 DEF DeadlinePasses, Signal, Request, Respond, servers
  <1>9. ASSUME NEW s \in Servers, NEW ph \in Phases \ {"unborn"}, Enter(s, ph), UNCHANGED main,
               ph = "listening" => s \in Grpc, ph = "announced" => s = "api"
        PROVE Started'
    <2>1. phase' = [phase EXCEPT ![s] = ph]
      BY <1>9 DEF Enter
    <2>2. phase'[s] = ph /\ \A x \in Servers \ {s} : phase'[x] = phase[x]
      BY <1>1, <2>1
    <2> QED
      BY <1>9, <2>2 DEF Started
  <1>10. CASE \E s \in Servers : Start(s) \/ ListenFails(s) \/ ServeFails(s)
    <2>1. PICK s \in Servers : Start(s) \/ ListenFails(s) \/ ServeFails(s)
      BY <1>10
    <2>2. UNCHANGED main
      BY <2>1 DEF Start, Listen, ListenFails, Assign, SetServingStatus, Serve, ServeStopped,
                  ServeFails, ServeReturns
    <2>3. PICK ph \in Phases \ {"unborn"} :
             /\ Enter(s, ph)
             /\ ph = "listening" => s \in Grpc
             /\ ph = "announced" => s = "api"
      BY <2>1 DEF Phases, Ended, Fail, Start, Listen, ListenFails, Assign, SetServingStatus, Serve,
                  ServeStopped, ServeFails, ServeReturns
    <2> QED
      BY <1>9, <2>2, <2>3
  <1> QED
    BY <1>2, <1>3, <1>4, <1>6, <1>8, <1>10 DEF Next, Main

\* Whatever the moment the shutdown comes and whichever requests hang, only a
\* server that main found unassigned can keep the process from ending: the
\* part of ShutdownEndsWhenUp that needs no fairness.
THEOREM HangsOnly == Safety => []HangsOnlyUnstopped
  <1>1. Init => Started
    BY DEF Init, Started
  <1>2. ASSUME IInv, Started, main = "wait", NEW s \in Servers
        PROVE phase[s] \in Ended \/ GoesOn(s) \/ (phase[s] = "serving" /\ ~stopped[s])
    <2>1. phase[s] \in Phases \ {"unborn"}
      BY <1>2 DEF IInv, TypeOK, Phases, Started
    <2>2. CASE phase[s] = "serving" /\ stopped[s]
      <3>1. s \in Grpc => active[s] = 0
        BY <1>2, <2>2 DEF IInv, Drained, Past
      <3> QED
        BY <2>2, <3>1 DEF GoesOn
    <2>3. CASE phase[s] \in {"listening", "created", "announced"}
      BY <1>2, <2>3 DEF Started, GoesOn, ReadyToServe
    <2> QED
      BY <2>1, <2>2, <2>3 DEF Phases, GoesOn, TypeOK
  <1>3. IInv /\ Started => HangsOnlyUnstopped
    BY <1>2 DEF HangsOnlyUnstopped
  <1> QED
    BY <1>1, <1>3, StartedStep, Invariance, PTL DEF Safety

-----------------------------------------------------------------------------
(* The page that asks the REST server *)

\* A longitude of a copy of the world is brought back by whole turns, to where
\* a raster can have it.
LEMMA WrapsAround ==
  ASSUME NEW lng \in Int
  PROVE /\ wrappedLng(lng) \in Int /\ wrappedLng(lng) \in -180..179
        /\ \E k \in Int : wrappedLng(lng) = lng + 360 * k
  <1>1. ASSUME NEW x \in Int
        PROVE /\ Rem(x, 360) \in Int /\ -360 < Rem(x, 360) /\ Rem(x, 360) < 360
              /\ x >= 0 => Rem(x, 360) >= 0
              /\ \E k \in Int : Rem(x, 360) = x + 360 * k
    <2>1. CASE x < 0
      <3>1. PICK y \in Nat : y = -x
        BY <2>1
      <3>2. /\ (y % 360) \in 0..359 /\ (y \div 360) \in Int
            /\ y = 360 * (y \div 360) + (y % 360)
        OBVIOUS
      <3>3. Rem(x, 360) = -(y % 360)
        BY <2>1, <3>1 DEF Rem
      <3>4. Rem(x, 360) = x + 360 * (y \div 360)
        BY <3>1, <3>2, <3>3
      <3> QED
        BY <2>1, <3>2, <3>3, <3>4
    <2>2. CASE x >= 0
      <3>1. /\ (x % 360) \in 0..359 /\ (x \div 360) \in Int
            /\ x = 360 * (x \div 360) + (x % 360)
        OBVIOUS
      <3>2. Rem(x, 360) = (x % 360)
        BY <2>2 DEF Rem
      <3>3. PICK m \in 0..359 : m = x % 360
        BY <3>1
      <3>4. PICK d \in Int : d = x \div 360
        BY <3>1
      <3>5. Rem(x, 360) = m /\ x = 360 * d + m
        BY ONLY <3>1, <3>2, <3>3, <3>4
      <3>6. m = x + 360 * (-d) /\ -d \in Int /\ m \in Int
        BY ONLY <3>3, <3>4, <3>5, x \in Int
      <3>7. m >= 0 /\ m < 360 /\ -360 < m
        BY ONLY <3>3
      <3>8. \E k \in Int : m = x + 360 * k
        <4> WITNESS -d \in Int
        <4> QED
          BY ONLY <3>6
      <3> QED
        BY ONLY <3>5, <3>6, <3>7, <3>8
    <2> QED
      BY <2>1, <2>2
  <1>2. PICK a \in Int : a = Rem(lng + 180, 360) /\ -360 < a /\ \E k \in Int : a = lng + 180 + 360 * k
    BY <1>1
  <1>3. PICK b \in Int : /\ b = Rem(a + 360, 360) /\ b >= 0 /\ b < 360
                         /\ \E k \in Int : b = a + 360 + 360 * k
    BY <1>1, <1>2
  <1>4. wrappedLng(lng) = b - 180
    BY <1>2, <1>3 DEF wrappedLng
  <1>5. PICK j \in Int, k \in Int : a = lng + 180 + 360 * j /\ b = a + 360 + 360 * k
    BY <1>2, <1>3
  <1>6. PICK n \in Int : n = j + k + 1 /\ wrappedLng(lng) = lng + 360 * n
    BY <1>4, <1>5
  <1>7. wrappedLng(lng) \in Int /\ wrappedLng(lng) \in -180..179
    BY <1>3, <1>4
  <1> QED
    BY <1>6, <1>7

\* What is under way when the user waits for answers is about the map's points.
Waiting ==
    waited =>
        /\ Len(points) < 2 => profileChart = None
        /\ points = << >> => requests = {} /\ info = StartText
        /\ requests # {} => requests = {[points |-> points, resets |-> resets]}

PageInv == points \in Seq(Int) /\ MapShowsPoints /\ Waiting /\ WaitedPageCurrent

LEMMA PageInitInv == PageInit => PageInv
  BY DEF PageInit, PageInv, MapShowsPoints, Waiting, WaitedPageCurrent

LEMMA PageStepInv == PageInv /\ [PageNext]_pageVars => PageInv'
  <1> SUFFICES ASSUME PageInv, [PageNext]_pageVars PROVE PageInv'
    OBVIOUS
  <1> USE DEF PageInv
  <1>1. ASSUME NEW lng \in Longitudes, Click(lng) PROVE PageInv'
    <2>0. lng \in Int /\ Len(points) \in Nat /\ DOMAIN points = 1..Len(points)
      BY LongitudesAssumption, LenProperties
    <2>1. wrappedLng(lng) \in Int /\ wrappedLng(lng) \in -180..179
      BY <2>0, WrapsAround
    <2>2. /\ points' = Append(points, wrappedLng(lng)) /\ markers' = points'
          /\ polyline' = IF Len(points') = 1 THEN polyline ELSE points'
          /\ requests' = requests \cup {[points |-> points', resets |-> resets]}
          /\ waited' = (waited /\ requests = {}) /\ profileChart' = profileChart /\ resets' = resets
      BY <1>1 DEF Click, MapShowsPoints
    <2>3. /\ points' \in Seq(Int) /\ Len(points') = Len(points) + 1 /\ points' # << >>
          /\ DOMAIN points' = 1..(Len(points) + 1)
          /\ \A i \in 1..Len(points) : points'[i] = points[i]
          /\ points'[Len(points) + 1] = wrappedLng(lng)
      BY <2>0, <2>1, <2>2, AppendProperties, LenProperties
    <2>4. MapShowsPoints'
      <3>1. \A i \in DOMAIN points' : points'[i] \in -180..179
        <4> SUFFICES ASSUME NEW i \in 1..(Len(points) + 1) PROVE points'[i] \in -180..179
          BY <2>3
        <4>1. CASE i = Len(points) + 1
          BY <2>1, <2>3, <4>1
        <4>2. CASE i # Len(points) + 1
          <5>1. i \in 1..Len(points) /\ i \in DOMAIN points
            BY <2>0, <4>2
          <5>2. points[i] \in -180..179
            BY <5>1 DEF MapShowsPoints
          <5> QED
            BY <2>3, <5>1, <5>2
        <4> QED
          BY <4>1, <4>2
      <3>2. polyline' = IF Len(points') < 2 THEN None ELSE points'
        BY <2>0, <2>2, <2>3 DEF MapShowsPoints
      <3> QED
        BY <2>2, <3>1, <3>2 DEF MapShowsPoints
    <2>5. Waiting' /\ WaitedPageCurrent'
      <3>1. requests' # {} /\ points' # << >>
        BY <2>2, <2>3
      <3>2. WaitedPageCurrent'
        BY <3>1 DEF WaitedPageCurrent
      <3>3. waited' => /\ requests' = {[points |-> points', resets |-> resets']}
                       /\ Len(points') < 2 => profileChart' = None
        <4> SUFFICES ASSUME waited, requests = {}
                     PROVE /\ requests' = {[points |-> points', resets |-> resets']}
                           /\ Len(points') < 2 => profileChart' = None
          BY <2>2
        <4>1. requests' = {[points |-> points', resets |-> resets']}
          BY <2>2
        <4>2. Len(points') < 2 => profileChart' = None
          BY <2>0, <2>2, <2>3 DEF Waiting
        <4> QED
          BY <4>1, <4>2
      <3> QED
        BY <3>1, <3>2, <3>3 DEF Waiting
    <2> QED
      BY <2>3, <2>4, <2>5
  <1>2. ASSUME NEW r \in requests, Answered(r) PROVE PageInv'
    <2>0. UNCHANGED <<points, markers, polyline, resets, waited>> /\ requests' = requests \ {r}
      BY <1>2 DEF Answered, ElevationAnswered, ProfileAnswered, EmptyProfile, FetchFails, Done, map
    <2>1. MapShowsPoints'
      BY <2>0 DEF MapShowsPoints
    <2> SUFFICES ASSUME waited PROVE (Waiting /\ WaitedPageCurrent)'
      BY <2>0, <2>1 DEF Waiting, WaitedPageCurrent
    <2>2. r.points = points /\ points # << >> /\ requests' = {}
      BY <2>0 DEF Waiting
    <2>3. Len(points) \in Nat /\ Len(points) # 0
      BY <2>2, EmptySeq, LenProperties
    <2>4. CASE ElevationAnswered(r)
      BY <2>0, <2>2, <2>3, <2>4 DEF ElevationAnswered, Waiting, WaitedPageCurrent, Text
    <2>5. CASE ProfileAnswered(r)
      BY <2>0, <2>2, <2>3, <2>5 DEF ProfileAnswered, Waiting, WaitedPageCurrent, Text
    <2>6. CASE EmptyProfile(r)
      BY <2>0, <2>2, <2>3, <2>6 DEF EmptyProfile, Waiting, WaitedPageCurrent, Text
    <2>7. CASE FetchFails(r)
      <3>1. info'.kind = "error" /\ profileChart' = profileChart
        BY <2>7 DEF FetchFails, Text
      <3>2. Len(points) = 1 => profileChart' = None
        BY <3>1 DEF Waiting
      <3>3. Len(points) = 1 \/ Len(points) > 1
        <4>1. PICK n \in Nat : n = Len(points) /\ n # 0
          BY <2>3
        <4>2. n = 1 \/ n > 1
          BY <4>1
        <4> QED
          BY <4>1, <4>2
      <3> QED
        BY <2>0, <2>2, <3>1, <3>2, <3>3 DEF Waiting, WaitedPageCurrent
    <2> QED
      BY <1>2, <2>4, <2>5, <2>6, <2>7 DEF Answered
  <1>3. CASE resetAll
    <2>1. points' = << >> /\ points' \in Seq(Int) /\ Len(points') = 0
      BY <1>3 DEF resetAll
    <2> QED
      <3>1. MapShowsPoints'
        BY <1>3, <2>1 DEF resetAll, MapShowsPoints
      <3>2. Waiting' /\ WaitedPageCurrent'
        BY <1>3, <2>1 DEF resetAll, Waiting, WaitedPageCurrent
      <3> QED
        BY <2>1, <3>1, <3>2
  <1>4. CASE UNCHANGED pageVars
    BY <1>4 DEF pageVars, map, MapShowsPoints, Waiting, WaitedPageCurrent
  <1> QED
    BY <1>1, <1>2, <1>3, <1>4 DEF PageNext

\* The inductive invariant of the page.
THEOREM PageInvariance == PageSafety => []PageInv
  BY PageInitInv, PageStepInv, PTL DEF PageSafety

\* The map shows the points, whatever is clicked, reset and answered when.
THEOREM MapShows == PageSafety => []MapShowsPoints
  <1>1. PageInv => MapShowsPoints
    BY DEF PageInv
  <1> QED
    BY <1>1, PageInvariance, PTL

\* A user who waits for answers sees the last request's.
THEOREM WaitedShows == PageSafety => []WaitedPageCurrent
  <1>1. PageInv => WaitedPageCurrent
    BY DEF PageInv
  <1> QED
    BY <1>1, PageInvariance, PTL
=============================================================================
