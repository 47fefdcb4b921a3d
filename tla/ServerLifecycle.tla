-------------------------- MODULE ServerLifecycle --------------------------
(***************************************************************************)
(* main: the raster is opened, then four servers are started, each by a    *)
(* goroutine of one errgroup that assigns it to a package variable and     *)
(* serves.  The shutdown reads those variables after a signal, even one    *)
(* that came during the opening, or the first error.  net/http,            *)
(* grpc, its health service and errgroup are libraries, modelled by what   *)
(* src/ uses of them.  The variables are not synchronised; a read of one   *)
(* sees nil until the goroutine has assigned it.                           *)
(***************************************************************************)
EXTENDS Naturals, Sequences

CONSTANTS
    MaxRequests,     \* bound on the requests a server answers at a time
    HangingServers,  \* servers whose requests may never end
    Configs          \* where the raster is: [bucket, remote, vrt]

Grpc == {"health", "api"}
Http == {"metrics", "rest"}
Servers == Grpc \cup Http

\* The order in which main stops them.
StopOrder == <<"metrics", "rest", "health", "api">>

ASSUME MaxAssumption == MaxRequests \in Nat \ {0}
ASSUME HangingAssumption == HangingServers \subseteq Servers
ASSUME ConfigsAssumption ==
    Configs \subseteq [bucket : BOOLEAN, remote : BOOLEAN, vrt : BOOLEAN]

VARIABLES
    config,          \* where the raster is
    raster,          \* what reads it, once it is open
    main,            \* where main is
    turn,            \* the server of StopOrder it is at
    phase,           \* of each server: where its goroutine is
    assigned,        \* the package variable of the server is not nil
    stopped,         \* the server has been told to stop
    active,          \* requests it is answering
    signalled,       \* a termination signal is in the channel
    ctxDone,         \* the context of the errgroup is cancelled
    status,          \* what the health service reports of the API
    statusFixed,     \* the health service takes no more updates
    deadline,        \* the five seconds of the shutdown are over
    exitCode

servers == <<phase, assigned, stopped, active>>
health == <<status, statusFixed>>
opened == <<config, raster>>
vars == <<opened, main, turn, servers, signalled, ctxDone, health, deadline, exitCode>>

Ended == {"returned", "failed"}
NoRaster == [reader |-> "none", context |-> "none"]

Init ==
    /\ config \in Configs
    /\ raster = NoRaster
    /\ main = "setup"
    /\ turn = 1
    /\ phase = [s \in Servers |-> "unborn"]
    /\ assigned = [s \in Servers |-> FALSE]
    /\ stopped = [s \in Servers |-> FALSE]
    /\ active = [s \in Servers |-> 0]
    /\ signalled = FALSE
    /\ ctxDone = FALSE
    /\ status = "UNKNOWN"
    /\ statusFixed = FALSE
    /\ deadline = FALSE
    /\ exitCode = 0

Enter(s, ph) == phase' = [phase EXCEPT ![s] = ph]

\* The goroutine returns an error: errgroup cancels the context.
Fail(s) == Enter(s, "failed") /\ ctxDone' = TRUE

-----------------------------------------------------------------------------
(* The goroutine of a server *)

\* The gRPC servers listen first.
Listen(s) ==
    /\ s \in Grpc /\ phase[s] = "start"
    /\ Enter(s, "listening")
    /\ UNCHANGED <<opened, main, turn, assigned, stopped, active, signalled, ctxDone, health,
                   deadline, exitCode>>

\* The address is taken: found by net.Listen, or by ListenAndServe.
ListenFails(s) ==
    /\ \/ s \in Grpc /\ phase[s] = "start"
       \/ s \in Http /\ phase[s] = "created" /\ ~stopped[s]
    /\ Fail(s)
    /\ UNCHANGED <<opened, main, turn, assigned, stopped, active, signalled, health, deadline, exitCode>>

\* The server is made and assigned to its package variable.
Assign(s) ==
    /\ phase[s] = (IF s \in Grpc THEN "listening" ELSE "start")
    /\ assigned' = [assigned EXCEPT ![s] = TRUE]
    /\ Enter(s, "created")
    /\ UNCHANGED <<opened, main, turn, stopped, active, signalled, ctxDone, health, deadline, exitCode>>

\* The API server announces itself just before it serves.
SetServingStatus ==
    /\ phase["api"] = "created"
    /\ status' = IF statusFixed THEN status ELSE "SERVING"
    /\ Enter("api", "announced")
    /\ UNCHANGED <<opened, main, turn, assigned, stopped, active, signalled, ctxDone, statusFixed,
                   deadline, exitCode>>

ReadyToServe(s) == phase[s] = (IF s = "api" THEN "announced" ELSE "created")

Serve(s) ==
    /\ ReadyToServe(s) /\ ~stopped[s]
    /\ Enter(s, "serving")
    /\ UNCHANGED <<opened, main, turn, assigned, stopped, active, signalled, ctxDone, health,
                   deadline, exitCode>>

\* Told to stop before it served: an error of a gRPC server, none of an HTTP one.
ServeStopped(s) ==
    /\ ReadyToServe(s) /\ stopped[s]
    /\ IF s \in Grpc THEN Fail(s) ELSE Enter(s, "returned") /\ UNCHANGED ctxDone
    /\ UNCHANGED <<opened, main, turn, assigned, stopped, active, signalled, health, deadline, exitCode>>

\* The listener breaks while it serves.
ServeFails(s) ==
    /\ phase[s] = "serving" /\ ~stopped[s]
    /\ Fail(s)
    /\ UNCHANGED <<opened, main, turn, assigned, stopped, active, signalled, health, deadline, exitCode>>

\* ListenAndServe returns when the server is told to stop, grpc's Serve when the
\* requests are answered.
ServeReturns(s) ==
    /\ phase[s] = "serving" /\ stopped[s]
    /\ s \in Grpc => active[s] = 0
    /\ Enter(s, "returned")
    /\ UNCHANGED <<opened, main, turn, assigned, stopped, active, signalled, ctxDone, health,
                   deadline, exitCode>>

-----------------------------------------------------------------------------
(* Clients and the operating system *)

Request(s) ==
    /\ phase[s] = "serving" /\ ~stopped[s]
    /\ active[s] < MaxRequests
    /\ active' = [active EXCEPT ![s] = @ + 1]
    /\ UNCHANGED <<opened, main, turn, phase, assigned, stopped, signalled, ctxDone, health,
                   deadline, exitCode>>

Respond(s) ==
    /\ active[s] > 0
    /\ active' = [active EXCEPT ![s] = @ - 1]
    /\ UNCHANGED <<opened, main, turn, phase, assigned, stopped, signalled, ctxDone, health,
                   deadline, exitCode>>

Signal ==
    /\ ~signalled
    /\ signalled' = TRUE
    /\ UNCHANGED <<opened, main, turn, servers, ctxDone, health, deadline, exitCode>>

-----------------------------------------------------------------------------
(* main: opening the raster *)

Reads(reader, context) == [reader |-> reader, context |-> context]

\* MUTANT of setupBlobVRTReader: the factory passes the context of the group on.
setupBlobVRTReaderGroup == Reads("blob", "group")

\* The factories of a VRT open its sources under the context they are given,
\* which getSourceGeo makes of Background.
setupBlobVRTReader == Reads("blob", "background")
setupHTTPVRTReader == Reads("http", "background")
setupLocalVRTReader == Reads("file", "background")

\* A single object is read under the context of the group; a reader over HTTP
\* or of a file has none.
setupTIFFReader ==
    IF config.bucket
    THEN IF config.vrt THEN setupBlobVRTReader ELSE Reads("blob", "group")
    ELSE IF config.vrt
         THEN IF config.remote THEN setupHTTPVRTReader ELSE setupLocalVRTReader
         ELSE IF config.remote THEN Reads("http", "background") ELSE Reads("file", "background")

\* The raster is open, and the goroutines are started.
Setup ==
    /\ main = "setup"
    /\ raster' = setupTIFFReader
    /\ phase' = [s \in Servers |-> "start"]
    /\ main' = "select"
    /\ UNCHANGED <<config, turn, assigned, stopped, active, signalled, ctxDone, health,
                   deadline, exitCode>>

\* The bucket, the file or what is in it cannot be opened or read.
SetupFails ==
    /\ main = "setup"
    /\ exitCode' = 1
    /\ main' = "exit"
    /\ UNCHANGED <<opened, turn, servers, signalled, ctxDone, health, deadline>>

-----------------------------------------------------------------------------
(* main: the shutdown *)

\* The select: a signal, or the context cancelled by an error of the group.
Select ==
    /\ main = "select"
    /\ signalled \/ ctxDone
    /\ ctxDone' = TRUE
    /\ main' = "health"
    /\ UNCHANGED <<opened, turn, servers, signalled, health, deadline, exitCode>>

\* MUTANT of HealthShutdown: the status is set and may be set again.
HealthShutdownOnce ==
    /\ main = "health"
    /\ status' = "NOT_SERVING"
    /\ main' = "stop"
    /\ UNCHANGED <<opened, turn, servers, signalled, ctxDone, statusFixed, deadline, exitCode>>

\* healthServer.Shutdown; the deadline of the HTTP shutdowns starts here.
HealthShutdown ==
    /\ main = "health"
    /\ status' = "NOT_SERVING"
    /\ statusFixed' = TRUE
    /\ main' = "stop"
    /\ UNCHANGED <<opened, turn, servers, signalled, ctxDone, deadline, exitCode>>

DeadlinePasses ==
    /\ main \in {"stop", "stopping"}
    /\ ~deadline
    /\ deadline' = TRUE
    /\ UNCHANGED <<opened, main, turn, servers, signalled, ctxDone, health, exitCode>>

Current == StopOrder[turn]

NextServer ==
    IF turn < Len(StopOrder) THEN turn' = turn + 1 /\ main' = "stop"
    ELSE main' = "wait" /\ UNCHANGED turn

\* The variable is nil: there is nothing to stop.
SkipServer ==
    /\ main = "stop"
    /\ ~assigned[Current]
    /\ NextServer
    /\ UNCHANGED <<opened, servers, signalled, ctxDone, health, deadline, exitCode>>

\* Shutdown or GracefulStop: no more requests are taken.
StopServer ==
    /\ main = "stop"
    /\ assigned[Current]
    /\ stopped' = [stopped EXCEPT ![Current] = TRUE]
    /\ main' = "stopping"
    /\ UNCHANGED <<opened, turn, phase, assigned, active, signalled, ctxDone, health, deadline, exitCode>>

\* MUTANT of StopReturns: Shutdown without the deadline.
StopReturnsDrained ==
    /\ main = "stopping"
    /\ active[Current] = 0
    /\ NextServer
    /\ UNCHANGED <<opened, servers, signalled, ctxDone, health, deadline, exitCode>>

\* MUTANT of StopReturns: a deadline for the gRPC servers too.
StopReturnsDeadline ==
    /\ main = "stopping"
    /\ active[Current] = 0 \/ deadline
    /\ NextServer
    /\ UNCHANGED <<opened, servers, signalled, ctxDone, health, deadline, exitCode>>

\* ... and it returns when the requests are answered; Shutdown also at the
\* deadline.
StopReturns ==
    /\ main = "stopping"
    /\ active[Current] = 0 \/ (Current \in Http /\ deadline)
    /\ NextServer
    /\ UNCHANGED <<opened, servers, signalled, ctxDone, health, deadline, exitCode>>

GroupWait ==
    /\ main = "wait"
    /\ \A s \in Servers : phase[s] \in Ended
    /\ exitCode' = IF \E s \in Servers : phase[s] = "failed" THEN 2 ELSE 0
    /\ main' = "exit"
    /\ UNCHANGED <<opened, turn, servers, signalled, ctxDone, health, deadline>>

Main == Setup \/ SetupFails \/ Select \/ HealthShutdown \/ SkipServer \/ StopServer \/ StopReturns \/ GroupWait

Start(s) == Listen(s) \/ Assign(s) \/ (s = "api" /\ SetServingStatus) \/ Serve(s)
            \/ ServeStopped(s) \/ ServeReturns(s)

Running == main # "exit"

Next ==
    /\ Running
    /\ \/ Main \/ DeadlinePasses \/ Signal
       \/ \E s \in Servers : Start(s) \/ ListenFails(s) \/ ServeFails(s) \/ Request(s) \/ Respond(s)

\* Goroutines that can run do, time passes and requests are answered, those of
\* a hanging server perhaps not.
Fairness ==
    /\ WF_vars(Running /\ Main)
    /\ WF_vars(Running /\ DeadlinePasses)
    /\ \A s \in Servers : WF_vars(Running /\ Start(s))
    /\ \A s \in Servers \ HangingServers : WF_vars(Running /\ Respond(s))

Safety == Init /\ [][Next]_vars
Spec == Safety /\ Fairness

-----------------------------------------------------------------------------
(* Properties *)

Readers == [reader : {"blob", "http", "file"}, context : {"group", "background"}]

TypeOK ==
    /\ config \in Configs
    /\ raster \in {NoRaster} \cup Readers
    /\ main \in {"setup", "select", "health", "stop", "stopping", "wait", "exit"}
    /\ turn \in 1..Len(StopOrder)
    /\ phase \in [Servers -> {"unborn", "start", "listening", "created", "announced", "serving"} \cup Ended]
    /\ assigned \in [Servers -> BOOLEAN]
    /\ stopped \in [Servers -> BOOLEAN]
    /\ active \in [Servers -> 0..MaxRequests]
    /\ signalled \in BOOLEAN /\ ctxDone \in BOOLEAN
    /\ status \in {"UNKNOWN", "SERVING", "NOT_SERVING"} /\ statusFixed \in BOOLEAN
    /\ deadline \in BOOLEAN
    /\ exitCode \in 0..2

\* Once the shutdown has begun the health service never reports the API as
\* serving, even if the API's goroutine starts only then.
NeverServingAgain == main \in {"stop", "stopping", "wait"} => status = "NOT_SERVING"

\* When the process ends, no server was ever started, or every server's goroutine
\* has ended, every RPC of a server that main stopped has been answered, even one
\* whose listener broke in the middle, and the exit code says which, and whether
\* a server failed.
CleanExit ==
    main = "exit" =>
        IF exitCode = 1 THEN \A s \in Servers : phase[s] = "unborn"
        ELSE /\ \A s \in Servers : phase[s] \in Ended
             /\ \A s \in Grpc : stopped[s] => active[s] = 0
             /\ exitCode = 2 <=> \E s \in Servers : phase[s] = "failed"

AllServing == \A s \in Servers : phase[s] = "serving"

\* A signal or an error that finds all servers up ends the process, even while
\* HTTP requests hang.
ShutdownEndsWhenUp ==
    main = "select" /\ AllServing /\ signalled ~> main = "exit"

\* A server's goroutine can take its next step, and waits for nobody.
GoesOn(s) ==
    \/ phase[s] = "start"
    \/ s \in Grpc /\ phase[s] = "listening"
    \/ s = "api" /\ phase[s] = "created"
    \/ ReadyToServe(s)
    \/ phase[s] = "serving" /\ stopped[s] /\ (s \in Grpc => active[s] = 0)

\* Nothing but the race with the start keeps a shutdown from ending: when main
\* waits for the group, who has not ended goes on by himself, or serves and
\* will never be told to stop.
HangsOnlyUnstopped ==
    main = "wait" => \A s \in Servers :
        phase[s] \in Ended \/ GoesOn(s) \/ (phase[s] = "serving" /\ ~stopped[s])

\* README: the servers are "all managed with graceful shutdown".  A shutdown
\* that begins, whatever state the servers are in, ends.
ShutdownEnds == main = "health" ~> main = "exit"

\* The reads of the raster fail for want of a context.
Cut == raster.context = "group" /\ ctxDone

\* The requests that the shutdown waits for can still read a VRT, a file or an
\* object over HTTP; those of a single object in a bucket are cut off only by the
\* shutdown or the end of a server.
ReadableWhileAnswered ==
    \A s \in {"api", "rest"} : active[s] > 0 /\ Cut =>
        /\ config.bucket /\ ~config.vrt
        /\ main # "select" \/ \E x \in Servers : phase[x] = "failed"

\* main starts nothing and stops nothing before the raster is open.
Unstarted ==
    main = "setup" => \A s \in Servers : phase[s] = "unborn" /\ ~stopped[s]

\* Each goroutine has been started, and is where its kind of server can be.
Started ==
    \A s \in Servers :
        /\ main \notin {"setup", "exit"} => phase[s] # "unborn"
        /\ phase[s] = "listening" => s \in Grpc
        /\ phase[s] = "announced" => s = "api"

\* The status is fixed before main stops servers.
StatusFixed == main \in {"stop", "stopping", "wait"} => statusFixed /\ status = "NOT_SERVING"

\* main is through with the server.
Past(s) == main \in {"wait", "exit"} \/ \E i \in 1..(turn - 1) : StopOrder[i] = s

\* main stops the servers in order, and leaves a gRPC server when it is drained.
StoppedInTurn ==
    \A s \in Servers : stopped[s] => Past(s) \/ (main = "stopping" /\ Current = s)
Drained == \A s \in Grpc : stopped[s] /\ Past(s) => active[s] = 0

\* Who cancels the context of the group, and who reads with it.
CancelledBy ==
    ctxDone => main \notin {"setup", "select"} \/ \E s \in Servers : phase[s] = "failed"
GroupReader == raster.context = "group" => config.bucket /\ ~config.vrt

\* The inductive invariant behind the safety properties.
IInv ==
    /\ TypeOK /\ Unstarted /\ StatusFixed /\ StoppedInTurn /\ Drained
    /\ CancelledBy /\ GroupReader
    /\ main # "exit" => exitCode = 0
    /\ CleanExit
=============================================================================
