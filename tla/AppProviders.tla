----------------------------- MODULE AppProviders ----------------------------
(***************************************************************************)
(* packages/core/src/init/app-initializer.ts: the providers of the         *)
(* application level.  Each initialisation merges the providersPerApp of   *)
(* the registered modules into the list in the metadata of the root        *)
(* module, where those of earlier initialisations are still, and creates   *)
(* the application's injector from that list; the last provider of a token *)
(* in the list is the one the injector uses.  The list belongs to the      *)
(* graph: it is copied by startTransaction and put back by rollback.       *)
(* A provider is known by its token and the module that declares it.       *)
(***************************************************************************)
EXTENDS MutableModuleRegistry, FiniteSets

CONSTANTS
    Token,      \* tokens of providers
    Declares,   \* the tokens of the providersPerApp of each module
    Resolved,   \* resolvedCollisionsPerApp of the root: token to module
    Nobody      \* the provider of a token that has none

ASSUME ProvidersAssumption ==
    /\ IsFiniteSet(Mod)
    /\ Declares \in [Mod -> SUBSET Token]
    /\ PerApp = {m \in Mod : Declares[m] # {}}
    /\ DOMAIN Resolved \subseteq Token
    /\ \A T \in DOMAIN Resolved : Resolved[T] \in Mod
    /\ Nobody \notin Mod

VARIABLES
    rootProviders,    \* providersPerApp of the root: who comes last in it
    oldRootProviders, \* the same in oldGraph
    injector,         \* injectorPerApp: who provides what, and the modules
                      \* that were registered when it was created
    reinitializing    \* a reinit() waits for its modules and extensions

providersVars == <<rootProviders, oldRootProviders, injector, reinitializing>>

NoProviders == [T \in Token |-> Nobody]
NoInjector == [providers |-> NoProviders, modules |-> {}]

ProvidersInit ==
    /\ Init
    /\ rootProviders = [T \in Token |-> IF T \in Declares[Root] THEN Root ELSE Nobody]
    /\ oldRootProviders = NoProviders
    /\ injector = NoInjector
    /\ reinitializing = FALSE

-----------------------------------------------------------------------------
(* prepareProvidersPerApp on the graph g and the root's list: tokens that   *)
(* are in the list already are not looked at.                               *)
Exporters(g, T) == {m \in Mod \ {Root} : g.app[m] > 0 /\ T \in Declares[m]}

Collisions(g, list) ==
    {T \in Token : /\ list[T] = Nobody
                   /\ T \notin DOMAIN Resolved
                   /\ Cardinality(Exporters(g, T)) > 1}

(* getResolvedCollisionsPerApp: ModuleNotImported, AppProviderMissingToken. *)
Unresolvable(g) ==
    {T \in DOMAIN Resolved : \/ Resolved[T] \notin g.metas
                             \/ T \notin Declares[Resolved[T]]}

Throws(g, list) == Collisions(g, list) # {} \/ Unresolvable(g) # {}

Exported(g, T) ==
    IF T \in DOMAIN Resolved THEN Resolved[T]
    ELSE IF Exporters(g, T) = {} THEN Nobody
    ELSE CHOOSE m \in Exporters(g, T) : TRUE

\* Mistakes: the exported providers replace the list; they are put behind it.
MergedAnew(g, list) == [T \in Token |-> Exported(g, T)]
MergedBehind(g, list) ==
    [T \in Token |-> IF Exported(g, T) = Nobody THEN list[T] ELSE Exported(g, T)]

(* The exported providers are put in front of the list.                     *)
Merged(g, list) ==
    [T \in Token |-> IF list[T] = Nobody THEN Exported(g, T) ELSE list[T]]

(* bootstrapProvidersPerApp, when it does not throw.                        *)
Bootstrapped(g, list) ==
    /\ rootProviders' = Merged(g, list)
    /\ injector' = [providers |-> Merged(g, list), modules |-> g.metas]

-----------------------------------------------------------------------------
(* What an operation of the registry makes of the lists in the two graphs;  *)
(* but for the scan, callers get the registry from the injector.            *)
Backed ==
    oldRootProviders' = IF oldGraph' = NoGraph THEN NoProviders
                        ELSE IF oldGraph = NoGraph THEN rootProviders
                        ELSE oldRootProviders

(* The list that rollback would put back.                                  *)
Undone == IF oldGraph = NoGraph THEN rootProviders ELSE oldRootProviders

RegistryStep ==
    /\ injector = NoInjector => ScanRootModule
    /\ \/ /\ \/ ScanRootModule
             \/ StartTransaction
             \/ Commit
             \/ \E r \in Requests, byId \in BOOLEAN : RemoveImport(r[1], r[2], byId)
          /\ rootProviders' = rootProviders
       \/ /\ Rollback
          /\ rootProviders' = Undone
       \/ /\ \E r \in Requests, byId \in BOOLEAN : AddImport(r[1], r[2], byId)
          /\ rootProviders' = IF oldGraph' = NoGraph THEN Undone ELSE rootProviders
    /\ Backed
    /\ UNCHANGED <<injector, reinitializing>>

-----------------------------------------------------------------------------
(* bootstrapApplication: when it throws there is no application.            *)
StartApp ==
    /\ graph.metas # {}
    /\ injector = NoInjector
    /\ ~Throws(graph, rootProviders)
    /\ Bootstrapped(graph, rootProviders)
    /\ UNCHANGED <<vars, oldRootProviders, reinitializing>>

(* reinit() up to its await.                                                *)
Reinit ==
    /\ injector # NoInjector
    /\ ~reinitializing
    /\ ~Throws(graph, rootProviders)
    /\ Bootstrapped(graph, rootProviders)
    /\ Finish(graph, Backup, "true")
    /\ oldRootProviders' = Undone
    /\ reinitializing' = TRUE

(* handleReinitError: without a transaction rollback() throws; after it the *)
(* providers are merged once more, which may throw as well.                 *)
HandleReinitError(g, list) ==
    /\ Finish(g, NoGraph, "thrown")
    /\ oldRootProviders' = NoProviders
    /\ IF Throws(g, list)
       THEN rootProviders' = list /\ UNCHANGED injector
       ELSE Bootstrapped(g, list)

(* reinit() whose prepareProvidersPerApp throws.                            *)
ReinitCollides ==
    /\ injector # NoInjector
    /\ ~reinitializing
    /\ Throws(graph, rootProviders)
    /\ HandleReinitError(Backup, Undone)
    /\ UNCHANGED reinitializing

(* The await of reinit() is over.                                           *)
ReinitSucceeds(autocommit) ==
    /\ reinitializing
    /\ reinitializing' = FALSE
    /\ IF autocommit THEN Commit ELSE Return("true")
    /\ Backed
    /\ UNCHANGED <<rootProviders, injector>>

ReinitFails ==
    /\ reinitializing
    /\ reinitializing' = FALSE
    /\ \/ /\ oldGraph = NoGraph
          /\ Return("thrown")
          /\ UNCHANGED <<rootProviders, oldRootProviders, injector>>
       \/ /\ oldGraph # NoGraph
          /\ HandleReinitError(oldGraph, oldRootProviders)

ProvidersNext ==
    \/ RegistryStep
    \/ StartApp
    \/ Reinit
    \/ ReinitCollides
    \/ \E autocommit \in BOOLEAN : ReinitSucceeds(autocommit)
    \/ ReinitFails

ProvidersSpec == ProvidersInit /\ [][ProvidersNext]_<<vars, providersVars>>

-----------------------------------------------------------------------------
\* A module that is imported later does not take a token over: its provider
\* stays the same as long as the module that provides it stays registered.
NoTakeover ==
    [][ \A T \in Token :
          injector.providers[T] \in injector'.modules
            => injector'.providers[T] = injector.providers[T] ]_injector
=============================================================================
