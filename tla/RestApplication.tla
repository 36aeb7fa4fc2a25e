---------------------------- MODULE RestApplication --------------------------
(***************************************************************************)
(* packages/core/src/init/base-application.ts and                          *)
(* packages/rest/src/init/rest-application.ts: how a started application   *)
(* is closed, by signals and by calls of close(), while its server has     *)
(* connections and its scheduler has jobs.  The scheduler is one of the    *)
(* instances that close() asks to stop; Service is the others.  The HTTP   *)
(* server and its connections are those of Node.js, modelled from what     *)
(* customShutdown asks of them.                                            *)
(***************************************************************************)
EXTENDS Scheduler

CONSTANTS
    Service,    \* providers with beforeShutdown and onShutdown
    Aliased,    \* those that an injector holds under two tokens
    Caller,     \* calls of close()
    Connection

ASSUME ApplicationAssumption == Aliased \subseteq Service

VARIABLES
    process,    \* the process, until it has gone for one reason or another
    created,    \* services that have been instantiated
    call,       \* the calls of close(), with allInstances
    isShuttingDown,
    listeners,  \* are there shutdownListeners?
    runs,       \* history: how often the hooks of each service have been called
    server,     \* the HTTP server
    conn,       \* its connections
    timer,      \* the timer of shutdownTimeout
    forcible    \* has the server closeAllConnections()? (constant)

appVars == <<process, created, call, isShuttingDown, listeners, runs, server,
             conn, timer, forcible>>
vars == <<schedulerVars, appVars>>

Closing == {"before", "drain", "on"}
NoCall == [pc |-> "idle", signal |-> FALSE, all |-> {}, hooks |-> {}]

TypeOK ==
    /\ SchedulerTypeOK
    /\ process \in {"starting", "running", "failed", "exited", "killed"}
    /\ created \subseteq Service
    /\ call \in [Caller -> [pc : {"idle", "done"} \union Closing, signal : BOOLEAN,
                            all : SUBSET Service, hooks : SUBSET Service]]
    /\ isShuttingDown \in BOOLEAN /\ listeners \in BOOLEAN
    /\ runs \in [Service -> [before : 0..2, on : 0..2]]
    /\ server \in {"unopened", "open", "closing", "closed"}
    /\ conn \in [Connection -> {"none", "idle", "busy"}]
    /\ timer \in BOOLEAN /\ forcible \in BOOLEAN

Init ==
    /\ SchedulerInit
    /\ process = "starting"
    /\ created = {}
    /\ call = [c \in Caller |-> NoCall]
    /\ isShuttingDown = FALSE /\ listeners = FALSE
    /\ runs = [s \in Service |-> [before |-> 0, on |-> 0]]
    /\ server = "unopened"
    /\ conn = [n \in Connection |-> "none"]
    /\ timer = FALSE
    /\ forcible \in BOOLEAN

-----------------------------------------------------------------------------
(* RestApplication.create: stage2 of the extension declares the jobs and    *)
(* stage3 mounts them; an error ends the process.                           *)
Declare(j) ==
    /\ process = "starting" /\ ~isMounted
    /\ AddPending(j)
    /\ UNCHANGED appVars

Mount ==
    /\ process = "starting"
    /\ MountJobs
    /\ UNCHANGED appVars

StartFails ==
    /\ process = "starting"
    /\ MountThrows
    /\ process' = "failed"
    /\ UNCHANGED <<schedulerVars, created, call, isShuttingDown, listeners, runs,
                   server, conn, timer, forcible>>

Start ==
    /\ process = "starting" /\ isMounted
    /\ process' = "running"
    /\ UNCHANGED <<schedulerVars, created, call, isShuttingDown, listeners, runs,
                   server, conn, timer, forcible>>

(* main.ts: app.enableShutdownHooks(), and app.server.listen() before       *)
(* anything can have called close().                                        *)
EnableShutdownHooks ==
    /\ process = "running"
    /\ listeners' = TRUE
    /\ UNCHANGED <<schedulerVars, process, created, call, isShuttingDown, runs,
                   server, conn, timer, forcible>>

Listen ==
    /\ process = "running" /\ server = "unopened" /\ ~isShuttingDown
    /\ server' = "open"
    /\ UNCHANGED <<schedulerVars, process, created, call, isShuttingDown, listeners,
                   runs, conn, timer, forcible>>

-----------------------------------------------------------------------------
(* The clients, and the server as they see it.                              *)
Client(n) ==
    /\ process = "running"
    /\ \/ server = "open" /\ conn[n] = "none" /\ conn' = [conn EXCEPT ![n] = "idle"]
       \/ conn[n] = "idle" /\ \E to \in {"busy", "none"} : conn' = [conn EXCEPT ![n] = to]
       \/ conn[n] = "busy" /\ \E to \in {"idle", "none"} : conn' = [conn EXCEPT ![n] = to]
    /\ UNCHANGED <<schedulerVars, process, created, call, isShuttingDown, listeners,
                   runs, server, timer, forcible>>

(* What code of the application does, in constructors, handlers and jobs:   *)
(* it instantiates services, and adds and deletes jobs.                     *)
Instantiate(s) ==
    /\ process \in {"starting", "running"}
    /\ s \notin created
    /\ created' = created \union {s}
    /\ UNCHANGED <<schedulerVars, process, call, isShuttingDown, listeners, runs,
                   server, conn, timer, forcible>>

Reschedule ==
    /\ process \in {"starting", "running"}
    /\ \/ \E j \in Job \ Declared : AddJob(j)
       \/ \E j \in Job : DeleteJob(j)
    /\ UNCHANGED appVars

Tick ==
    /\ process = "running"
    /\ \E j \in Job : TimeoutFires(j) \/ DelayFires(j)
    /\ UNCHANGED appVars

-----------------------------------------------------------------------------
(* close().                                                                 *)

(* runShutdownHooks up to its await: an instance that an injector holds     *)
(* under two tokens is there twice.                                         *)
Times(s) == IF s \in Aliased THEN 2 ELSE 1
Counted(hook, all) ==
    [s \in Service |-> IF s \in all THEN [runs[s] EXCEPT ![hook] = @ + Times(s)]
                       ELSE runs[s]]

(* Up to the first await; the hook of the scheduler is synchronous.         *)
Close(c, signal) ==
    /\ process = "running"
    /\ call[c].pc = "idle"
    /\ ~isShuttingDown
    /\ isShuttingDown' = TRUE
    /\ listeners' = FALSE
    /\ call' = [call EXCEPT ![c] = [pc |-> "before", signal |-> signal,
                                    all |-> created, hooks |-> created]]
    /\ runs' = Counted("before", created)
    /\ BeforeShutdown
    /\ UNCHANGED <<process, created, server, conn, timer, forcible>>

(* A second call returns at once.                                           *)
CloseAgain(c) ==
    /\ process = "running"
    /\ call[c].pc = "idle"
    /\ isShuttingDown
    /\ call' = [call EXCEPT ![c].pc = "done"]
    /\ UNCHANGED <<schedulerVars, process, created, isShuttingDown, listeners, runs,
                   server, conn, timer, forcible>>

(* A signal, with listeners and without.                                    *)
Signal(c) == listeners /\ (Close(c, TRUE) \/ CloseAgain(c))

Kill ==
    /\ process = "running" /\ ~listeners
    /\ process' = "killed"
    /\ UNCHANGED <<schedulerVars, created, call, isShuttingDown, listeners, runs,
                   server, conn, timer, forcible>>

(* A hook is over, with or without an error.                                *)
Settle(c) ==
    /\ process = "running"
    /\ call[c].pc \in {"before", "on"}
    /\ \E s \in call[c].hooks : call' = [call EXCEPT ![c].hooks = @ \ {s}]
    /\ UNCHANGED <<schedulerVars, process, created, isShuttingDown, listeners, runs,
                   server, conn, timer, forcible>>

\* A mistake: no timer.
DrainUntimed(c) ==
    /\ process = "running"
    /\ call[c].pc = "before" /\ call[c].hooks = {}
    /\ call' = [call EXCEPT ![c].pc = "drain"]
    /\ IF server = "open"
       THEN /\ server' = "closing"
            /\ timer' = FALSE
            /\ conn' = [n \in Connection |-> IF forcible /\ conn[n] = "idle"
                                             THEN "none" ELSE conn[n]]
       ELSE UNCHANGED <<server, timer, conn>>
    /\ UNCHANGED <<schedulerVars, process, created, isShuttingDown, listeners, runs, forcible>>

(* customShutdown up to its await.                                          *)
Drain(c) ==
    /\ process = "running"
    /\ call[c].pc = "before" /\ call[c].hooks = {}
    /\ call' = [call EXCEPT ![c].pc = "drain"]
    /\ IF server = "open"
       THEN /\ server' = "closing"
            /\ timer' = forcible
            /\ conn' = [n \in Connection |-> IF forcible /\ conn[n] = "idle"
                                             THEN "none" ELSE conn[n]]
       ELSE UNCHANGED <<server, timer, conn>>
    /\ UNCHANGED <<schedulerVars, process, created, isShuttingDown, listeners, runs, forcible>>

TimerFires ==
    /\ process = "running"
    /\ timer
    /\ timer' = FALSE
    /\ conn' = [n \in Connection |-> "none"]
    /\ UNCHANGED <<schedulerVars, process, created, call, isShuttingDown, listeners,
                   runs, server, forcible>>

\* A mistake: customShutdown does not wait for the callback.
DrainedAtOnce(c) ==
    /\ process = "running"
    /\ call[c].pc = "drain"
    /\ server' = IF server = "closing" THEN "closed" ELSE server
    /\ timer' = FALSE
    /\ runs' = Counted("on", call[c].all)
    /\ call' = [call EXCEPT ![c].pc = "on", ![c].hooks = call[c].all]
    /\ UNCHANGED <<schedulerVars, process, created, isShuttingDown, listeners, conn, forcible>>

(* The callback of server.close(), when there are no connections, or with   *)
(* an error when the server was not open; then the onShutdown hooks.        *)
Drained(c) ==
    /\ process = "running"
    /\ call[c].pc = "drain"
    /\ server = "closing" => \A n \in Connection : conn[n] = "none"
    /\ server' = IF server = "closing" THEN "closed" ELSE server
    /\ timer' = FALSE
    /\ runs' = Counted("on", call[c].all)
    /\ call' = [call EXCEPT ![c].pc = "on", ![c].hooks = call[c].all]
    /\ UNCHANGED <<schedulerVars, process, created, isShuttingDown, listeners, conn, forcible>>

(* The rest of close().                                                     *)
Finish(c) ==
    /\ process = "running"
    /\ call[c].pc = "on" /\ call[c].hooks = {}
    /\ call' = [call EXCEPT ![c].pc = "done"]
    /\ process' = IF call[c].signal THEN "exited" ELSE process
    /\ UNCHANGED <<schedulerVars, created, isShuttingDown, listeners, runs, server,
                   conn, timer, forcible>>

-----------------------------------------------------------------------------
Closes(c) == Settle(c) \/ Drain(c) \/ Drained(c) \/ Finish(c)

\* What code of the application does, and what becomes of it.
ApplicationCode ==
    \/ \E j \in Declared : Declare(j)
    \/ StartFails
    \/ \E s \in Service : Instantiate(s)
    \/ Reschedule
    \/ Tick

Lifecycle ==
    \/ Mount
    \/ Start
    \/ EnableShutdownHooks
    \/ Listen
    \/ \E n \in Connection : Client(n)
    \/ \E c \in Caller :
          \/ Close(c, FALSE)
          \/ CloseAgain(c)
          \/ Signal(c)
          \/ Closes(c)
    \/ Kill
    \/ TimerFires

Next == ApplicationCode \/ Lifecycle

(* Hooks settle, promises resolve and the timer of shutdownTimeout fires;   *)
(* nothing is assumed of the clients.                                       *)
Fairness ==
    /\ \A c \in Caller : WF_vars(Closes(c))
    /\ WF_vars(TimerFires)

Spec == Init /\ [][Next]_vars /\ Fairness

-----------------------------------------------------------------------------
(* Properties of the scheduler.                                             *)

\* Whatever runs can be found in the registry and be deleted, but for a job
\* with an initialDelay that was deleted and whose name was given to another
\* job before the delay was over (scheduler.orchestrator.ts:90).
RunningIsRegistered == ticking \subseteq jobs \union ghosts

\* From the moment close() is called no declared job is called again, delays
\* that were running included, with that exception.
DeclaredStopAtShutdown ==
    isShuttingDown => (ticking \union delays) \intersect Declared \subseteq ghosts

\* A job is called only as long as it is registered, and one that decorators
\* declare only until the application is closed.
JobsRunWhileRegistered == RunningIsRegistered /\ DeclaredStopAtShutdown

(* Properties of close().                                                   *)

\* onShutdown hooks, which close what the handlers use, are called only after
\* the server has closed, no connection is left and all that was asked to stop
\* before has stopped; the server is closed only then, too.  By whatever signals
\* and calls of close(), each service is asked once for each token it is held
\* under, and never to shut down without having been asked to stop before.
ShutdownInOrder ==
    /\ \A s \in Service : runs[s].on > 0 =>
          /\ server \in {"closed", "unopened"}
          /\ \A n \in Connection : conn[n] = "none"
    /\ server \in {"closing", "closed"} =>
          \E c \in Caller : call[c].pc \notin {"idle", "before"}
    /\ \A s \in Service : runs[s].on <= runs[s].before /\ runs[s].before <= Times(s)

\* A close() that has begun ends, even if clients never close their
\* connections, where the server can be made to close them.
CloseEnds ==
    \A c \in Caller :
        forcible /\ call[c].pc \in Closing
            ~> call[c].pc = "done" \/ process \in {"exited", "killed"}
=============================================================================
