--------------------------- MODULE TypeormApplication -------------------------
(***************************************************************************)
(* An application that imports TypeormModule: its data sources are opened  *)
(* while it starts and at each reinit(), and its DataSourceManager is one  *)
(* of the instances that close() asks to shut down.  close() looks for     *)
(* them in the injector that the application was started with, so that the *)
(* manager is that of the first generation.                                *)
(***************************************************************************)
EXTENDS RestApplication, DataSources

CONSTANT Manager    \* the DataSourceManager of the first generation

ASSUME ManagerAssumption == Manager \in Service \ Aliased

VARIABLES
    typeorm,    \* is TypeormModule imported? (constant; bound: jobs, other
                \* services and a second call of close() are there only without)
    late        \* history: data sources that were opened after close() was called

allVars == <<vars, dataVars, typeorm, late>>

AppInit ==
    /\ Init /\ DataInit
    /\ typeorm \in BOOLEAN
    /\ typeorm \/ options = CHOOSE list \in OptionLists : TRUE
    /\ late = {}

-----------------------------------------------------------------------------
(* Stage 1 and 2 of the first initialisation, or those of a reinit().       *)
Bootstrap ==
    /\ typeorm
    /\ IF boot.gen = 1 THEN process = "starting" ELSE process = "running"
    /\ Boots
    /\ process' = IF boot.gen = 1 /\ boot'.step = "failed" THEN "failed" ELSE process
    /\ created' = IF boot'.step = "done" THEN created \union {Manager} ELSE created
    /\ late' = IF isShuttingDown
               THEN late \union {d \in Source : status[d] # "open" /\ status'[d] = "open"}
               ELSE late
    /\ UNCHANGED <<schedulerVars, call, isShuttingDown, listeners, runs, server, conn,
                   timer, forcible, typeorm>>

Reinitialize ==
    /\ typeorm /\ process = "running"
    /\ Reinit \/ RollBack
    /\ UNCHANGED <<vars, typeorm, late>>

UserInitializes(d) ==
    /\ typeorm /\ process = "running"
    /\ InitializeLater(d)
    /\ late' = IF isShuttingDown THEN late \union {d} ELSE late
    /\ UNCHANGED <<vars, typeorm>>

DestroySettles(d) ==
    /\ process = "running"
    /\ Destroyed(d)
    /\ UNCHANGED <<vars, typeorm, late>>

\* The lifecycle beside the data sources: the application starts when they have
\* been opened, and the hook of the manager lasts until they are closed.
ManagerIsAsked == runs'[Manager].on > runs[Manager].on
ManagerSettles ==
    \E c \in Caller : /\ call[c].pc = "on"
                      /\ Manager \in call[c].hooks /\ Manager \notin call'[c].hooks

WithDataSources(A) ==
    /\ typeorm
    /\ process = "starting" => boot.step = "done"
    /\ A
    /\ Cardinality({c \in Caller : call'[c].pc # "idle"}) <= 1
    /\ ManagerSettles => ~Destroying
    /\ IF ManagerIsAsked THEN OnShutdown(1) ELSE UNCHANGED dataVars
    /\ UNCHANGED <<typeorm, late>>

WithoutDataSources(A) ==
    /\ ~typeorm
    /\ A
    /\ Manager \notin created'
    /\ UNCHANGED <<dataVars, typeorm, late>>

AppNext ==
    \/ WithoutDataSources(Next)
    \/ WithDataSources(Lifecycle)
    \/ Bootstrap
    \/ Reinitialize
    \/ \E d \in Source : UserInitializes(d) \/ DestroySettles(d)

AppFairness ==
    /\ \A c \in Caller : /\ WF_allVars(WithoutDataSources(Closes(c)))
                         /\ WF_allVars(WithDataSources(Closes(c)))
    /\ WF_allVars(WithoutDataSources(TimerFires))
    /\ WF_allVars(WithDataSources(TimerFires))
    /\ WF_allVars(Bootstrap)
    /\ WF_allVars(\E d \in Source : DestroySettles(d))

AppSpec == AppInit /\ [][AppNext]_allVars /\ AppFairness

-----------------------------------------------------------------------------
Closed == isShuttingDown /\ \A c \in Caller : call[c].pc \in {"idle", "done"}

\* "Gracefully destroy all connections during application shutdown": once it is
\* closed, all data sources that the application was started with have been
\* destroyed, reinitialised or not, and also those that other code has opened
\* before it was closed, unless a later one of its options has the same name.
StartedWithIsDestroyed ==
    typeorm /\ Closed =>
        \A d \in Source : d[1] = 1 /\ status[d] \in {"open", "closing"} =>
            \/ d \in late
            \/ \E i \in (d[2] + 1)..Len(options) : options[i].name = OptionAt(d[2]).name

Booting == typeorm /\ boot.step \notin {"done", "failed"}

\* "one initial attempt plus up to `retryAttempts` retries" (retry.ts:16-17):
\* whether the databases answer or not, each initialisation comes to an end; and
\* so does each close() that has begun, even if clients never close their
\* connections, where the server can be made to close them.
CallsEnd ==
    /\ Booting ~> ~Booting \/ process \in {"exited", "killed"}
    /\ CloseEnds
=============================================================================
