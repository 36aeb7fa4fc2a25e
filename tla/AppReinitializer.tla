--------------------------- MODULE AppReinitializer --------------------------
(***************************************************************************)
(* packages/core/src/init/app-reinitializer.ts over AppInitializer and the *)
(* transaction of the module registry: requests change the imports and     *)
(* call reinit(), which initialises the application again and commits, or  *)
(* rolls the registry back and initialises what was there before.  With    *)
(* it, RestAppInitializer.requestDispatcher, through which every request   *)
(* is routed, and the injector that close() collects instances from.       *)
(***************************************************************************)
EXTENDS AppInitializer

CONSTANTS
    Base,       \* modules that are always imported
    NoBackup    \* oldGraph when no transaction is open

ASSUME ReinitializerAssumption ==
    /\ Base \subseteq Module /\ Base # {}
    /\ NoBackup \notin SUBSET Module

VARIABLES
    imports,    \* the optional modules that the registry holds
    backup,     \* oldGraph
    dispatcher, \* RestAppInitializer.requestDispatcher, by its injector
    appInjector,\* BaseApplication.injectorPerApp
    bufferLogs, \* LogMediator.bufferLogs
    call,       \* the calls of reinit()
    closed,     \* the injectors per application that close() has collected
    overlap,    \* do requests come while a reinit() is under way? (constant)
    committed   \* history: imports when last no transaction was open

vars == <<initVars, imports, backup, dispatcher, appInjector, bufferLogs, call,
          closed, overlap, committed>>

Optional == Module \ Base
Modules(i) == Base \union i

Registry == INSTANCE Transaction
    WITH Value <- SUBSET Optional, Unloaded <- {}, Nothing <- NoBackup,
         current <- imports, backup <- backup

NoCall == [pc |-> "idle", autocommit |-> TRUE]

TypeOK ==
    /\ InitializerTypeOK
    /\ imports \in SUBSET Optional
    /\ backup \in (SUBSET Optional) \union {NoBackup}
    /\ dispatcher \in Injector
    /\ appInjector \in Injector
    /\ bufferLogs \in BOOLEAN
    /\ call \in [Task -> [pc : {"idle", "main", "rollback", "done", "error", "threw"},
                          autocommit : BOOLEAN]]
    /\ closed \in SUBSET Injector
    /\ overlap \in BOOLEAN
    /\ committed \in SUBSET Optional

Init ==
    /\ Started(Base)
    /\ imports = {}
    /\ backup = NoBackup
    /\ dispatcher = 1
    /\ appInjector = 1
    /\ bufferLogs = FALSE
    /\ call = [t \in Task |-> NoCall]
    /\ closed = {}
    /\ overlap \in BOOLEAN
    /\ committed = {}

Running(t) == call[t].pc \in {"main", "rollback"}
Quiet == \A t \in Task : ~Running(t)

(* A request can come now.                                                  *)
Admitted == overlap \/ Quiet

Goto(t, pc) == call' = [call EXCEPT ![t].pc = pc]

-----------------------------------------------------------------------------
(* Requests that change the registry.                                       *)
AddImport(m) ==
    /\ Admitted
    /\ m \notin imports
    /\ Registry!Change(imports \union {m})
    /\ UNCHANGED <<initVars, dispatcher, appInjector, bufferLogs, call, closed>>

(* addImport of a malformed module undoes the open transaction.             *)
AddMalformed ==
    /\ Admitted
    /\ Registry!Undo
    /\ UNCHANGED <<initVars, dispatcher, appInjector, bufferLogs, call, closed>>

RemoveImport(m) ==
    /\ Admitted
    /\ m \in imports
    /\ Registry!Change(imports \ {m})
    /\ UNCHANGED <<initVars, dispatcher, appInjector, bufferLogs, call, closed>>

-----------------------------------------------------------------------------
\* A mistake: the transaction is committed instead of rolled back.
RestoreCommitting(t, old) ==
    /\ backup' = NoBackup
    /\ Goto(t, "rollback")
    /\ CreateInjector
    /\ Begin(t, Modules(imports))
    /\ UNCHANGED <<imports, store, routes>>

(* handleReinitError, from rollback to the first await, with the registry   *)
(* going back to old.                                                       *)
Restore(t, old) ==
    /\ imports' = old
    /\ backup' = NoBackup
    /\ IF ProvidersCollide(Modules(old))
       THEN /\ Goto(t, "threw")
            /\ UNCHANGED <<made, injectorPerApp, boot>>
       ELSE /\ Goto(t, "rollback")
            /\ CreateInjector
            /\ Begin(t, Modules(old))
    /\ UNCHANGED <<store, routes>>

\* Mistakes: requests are routed through the new injector from the start; the
\* transaction is left to addImport and removeImport.
ReinitDispatching(t) ==
    /\ Admitted
    /\ call[t].pc = "idle"
    /\ ~ProvidersCollide(Modules(imports))
    /\ Registry!Begin
    /\ CreateInjector
    /\ Begin(t, Modules(imports))
    /\ \E autocommit \in BOOLEAN :
         call' = [call EXCEPT ![t] = [pc |-> "main", autocommit |-> autocommit]]
    /\ bufferLogs' = TRUE
    /\ dispatcher' = made + 1
    /\ UNCHANGED <<store, routes, appInjector, closed>>
ReinitUntransacted(t) ==
    /\ Admitted
    /\ call[t].pc = "idle"
    /\ ~ProvidersCollide(Modules(imports))
    /\ CreateInjector
    /\ Begin(t, Modules(imports))
    /\ \E autocommit \in BOOLEAN :
         call' = [call EXCEPT ![t] = [pc |-> "main", autocommit |-> autocommit]]
    /\ bufferLogs' = TRUE
    /\ UNCHANGED <<imports, backup, store, routes, dispatcher, appInjector, closed>>

(* reinit() up to its first await.                                          *)
Reinit(t) ==
    /\ Admitted
    /\ call[t].pc = "idle"
    /\ ~ProvidersCollide(Modules(imports))
    /\ Registry!Begin
    /\ CreateInjector
    /\ Begin(t, Modules(imports))
    /\ \E autocommit \in BOOLEAN :
         call' = [call EXCEPT ![t] = [pc |-> "main", autocommit |-> autocommit]]
    /\ bufferLogs' = TRUE
    /\ UNCHANGED <<store, routes, dispatcher, appInjector, closed>>

(* The first catch block: bootstrapProvidersPerApp has thrown.              *)
ReinitCollides(t) ==
    /\ Admitted
    /\ call[t].pc = "idle"
    /\ ProvidersCollide(Modules(imports))
    /\ Restore(t, Registry!Opened)
    /\ bufferLogs' = FALSE
    /\ UNCHANGED <<dispatcher, appInjector, closed>>

(* The second catch block: without a transaction, rollback itself throws.   *)
Catch(t) ==
    /\ call[t].pc = "main"
    /\ boot[t].stage = "failed"
    /\ IF Registry!IsOpen THEN Restore(t, backup)
       ELSE Goto(t, "threw") /\ UNCHANGED <<initVars, imports, backup>>
    /\ bufferLogs' = FALSE
    /\ UNCHANGED <<dispatcher, appInjector, closed>>

(* The rest of reinit() after a successful initialisation.                  *)
Finish(t) ==
    /\ call[t].pc = "main"
    /\ boot[t].stage = "returned"
    /\ dispatcher' = boot[t].result
    /\ IF call[t].autocommit THEN Registry!Commit ELSE UNCHANGED <<imports, backup>>
    /\ bufferLogs' = FALSE
    /\ Goto(t, "done")
    /\ UNCHANGED <<initVars, appInjector, closed>>

(* The rest of handleReinitError.                                           *)
FinishRollback(t) ==
    /\ call[t].pc = "rollback"
    /\ \/ boot[t].stage = "returned" /\ dispatcher' = boot[t].result /\ Goto(t, "error")
       \/ boot[t].stage = "failed" /\ UNCHANGED dispatcher /\ Goto(t, "threw")
    /\ UNCHANGED <<initVars, imports, backup, appInjector, bufferLogs, closed>>

Boots(t) ==
    /\ Running(t)
    /\ BootStep(t)
    /\ UNCHANGED <<imports, backup, dispatcher, appInjector, bufferLogs, call, closed>>

(* close(): getActiveInstances collects from the injector that              *)
(* bootstrapApplication has kept.                                           *)
Close ==
    /\ closed = {}
    /\ closed' = {appInjector}
    /\ UNCHANGED <<initVars, imports, backup, dispatcher, appInjector, bufferLogs, call>>

Remember == committed' = IF backup' = NoBackup THEN imports' ELSE committed

Next ==
    /\ \/ \E m \in Optional : AddImport(m) \/ RemoveImport(m)
       \/ \E t \in Task :
             \/ Reinit(t)
             \/ ReinitCollides(t)
             \/ Boots(t)
             \/ Catch(t)
             \/ Finish(t)
             \/ FinishRollback(t)
       \/ AddMalformed
       \/ Close
    /\ UNCHANGED overlap
    /\ Remember

Spec == Init /\ [][Next]_vars

-----------------------------------------------------------------------------
(* Safety.  Where requests wait for one another:                            *)

\* When a call ends without throwing, requests are routed to exactly the
\* modules of the registry, and each of those modules has its injector under
\* the application injector that routes them: an initialisation that succeeds,
\* or one that is rolled back, leaves no mixture of two generations behind.
EndsInService ==
    [][ \A t \in Task :
          ~overlap /\ Running(t) /\ call'[t].pc \in {"done", "error"}
            => /\ routes'[dispatcher'] = Modules(imports')
               /\ \A m \in Modules(imports') : store'[m] = dispatcher' ]_vars

\* Whatever fails, and also while a reinit() or its rollback is under way or
\* has thrown, the modules that are always imported are routed.
BaseIsRouted == ~overlap => Base \subseteq routes[dispatcher]

\* A failure always finds a transaction to roll back.
FailureCanRollBack ==
    \A t \in Task : ~overlap /\ call[t].pc = "main" => Registry!IsOpen

(* In any order of requests:                                                *)

\* An initialisation that fails leaves the imports of the last commit,
\* whatever was changed and initialised without commit since, by this call or
\* by requests that came while it was waiting.
FailureRestores ==
    [][ \A t \in Task :
          call[t].pc \in {"idle", "main"} /\ call'[t].pc \in {"rollback", "threw"}
            => imports' = committed ]_vars

\* stage2 finds an injector in the store for every module of its own run,
\* whichever run has put it there (getInjectorPerMod with throwErrIfNotFound).
StagesFindInjectors ==
    \A t \in Task : boot[t].stage \in {"stage2", "stage3"} =>
        \A m \in boot[t].modules \ boot[t].todo : boot[t].inj[m] # NoInjector

\* Log messages are buffered only while a call may still flush them.
BufferedOnlyInCall ==
    bufferLogs => \E t \in Task : call[t].pc = "main"

-----------------------------------------------------------------------------
(* What the documentation and the tests say, and the code does not keep.    *)

\* "should still respond from the first module after a failed import"
\* (examples/07-dynamically-composing-modules/e2e/main.spec.ts:47):
\* when all calls are over, the modules that are always imported are routed.
BaseIsRoutedAtRest == Quiet => Base \subseteq routes[dispatcher]
=============================================================================
