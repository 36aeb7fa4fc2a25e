---------------------------- MODULE AppInitializer ---------------------------
(***************************************************************************)
(* packages/core/src/init/app-initializer.ts: how injectors are created    *)
(* and extensions run, each time the application is initialised.  One      *)
(* AppInitializer is shared by every initialisation, and every await lets  *)
(* another one in: a Task is one run of bootstrapModulesAndExtensions,     *)
(* with its local variables in boot.  Injectors per application are        *)
(* numbered as they are created; a module's injector is known by the       *)
(* number of its parent, which is where the module finds the Router.       *)
(***************************************************************************)
EXTENDS Naturals

CONSTANTS
    Module,     \* modules that can be part of the application
    Task,       \* runs of bootstrapModulesAndExtensions
    Colliding,  \* modules with which prepareProvidersPerApp throws
    Flaky,      \* modules whose extensions or constructor may throw
    MaxInjector \* bound: how many injectors per application are created

ASSUME InitializerAssumption ==
    /\ Colliding \subseteq Module
    /\ Flaky \subseteq Module
    /\ MaxInjector \in Nat \ {0}

VARIABLES
    made,           \* how many injectors per application there are
    injectorPerApp, \* AppInitializer.injectorPerApp
    store,          \* ModuleInjectorStore: the parent of a module's injector
    routes,         \* the modules whose routes a Router holds
    boot            \* the local variables of each task

initVars == <<made, injectorPerApp, store, routes, boot>>

Injector == 1..MaxInjector
NoInjector == 0
Parents == [Module -> Injector \union {NoInjector}]
Unset == [m \in Module |-> NoInjector]

Idle == [stage |-> "idle", modules |-> {}, todo |-> {}, inj |-> Unset,
         result |-> NoInjector]

Boot == [stage : {"idle", "stage1", "stage2", "stage3", "returned", "failed"},
         modules : SUBSET Module,   \* resolvedModuleMetaMap
         todo : SUBSET Module,      \* modules the current loop has yet to visit
         inj : Parents,             \* what stage2 has got from the store
         result : Injector \union {NoInjector}]

InitializerTypeOK ==
    /\ made \in Injector
    /\ injectorPerApp \in Injector
    /\ store \in Parents
    /\ routes \in [Injector -> SUBSET Module]
    /\ boot \in [Task -> Boot]

(* The application has been started with the modules ms.                    *)
Started(ms) ==
    /\ made = 1
    /\ injectorPerApp = 1
    /\ store = [m \in Module |-> IF m \in ms THEN 1 ELSE NoInjector]
    /\ routes = [i \in Injector |-> IF i = 1 THEN ms ELSE {}]
    /\ boot = [t \in Task |-> Idle]

-----------------------------------------------------------------------------
(* bootstrapProvidersPerApp: throws on a collision (AppProviders models     *)
(* which), otherwise creates an injector whose Router is still empty.       *)
ProvidersCollide(ms) == ms \intersect Colliding # {}

CreateInjector ==
    /\ made < MaxInjector
    /\ made' = made + 1
    /\ injectorPerApp' = made + 1

(* bootstrapModulesAndExtensions up to its first await: the modules to be   *)
(* initialised are those of the registry at this moment.                    *)
Begin(t, ms) ==
    boot' = [boot EXCEPT ![t] = [Idle EXCEPT !.stage = "stage1", !.modules = ms]]

Abort(t) == boot' = [boot EXCEPT ![t].stage = "failed"]

Stage1Throws(t) ==
    /\ boot[t].stage = "stage1"
    /\ boot[t].modules \intersect Flaky # {}
    /\ Abort(t)
    /\ UNCHANGED <<made, injectorPerApp, store, routes>>

\* Mistakes: a module that has an injector keeps it; the store is emptied first.
StoredOnce(ms) ==
    [m \in Module |-> IF m \in ms /\ store[m] = NoInjector THEN made + 1 ELSE store[m]]
StoredAnew(ms) == [m \in Module |-> IF m \in ms THEN made + 1 ELSE NoInjector]

Stored(ms) == [m \in Module |-> IF m \in ms THEN made + 1 ELSE store[m]]

(* The constructor of a module throws: those before it have injectors.      *)
ModuleThrows(t) ==
    /\ boot[t].stage = "stage1"
    /\ \E m \in boot[t].modules \intersect Flaky :
         \E before \in SUBSET (boot[t].modules \ {m}) : store' = Stored(before)
    /\ CreateInjector
    /\ Abort(t)
    /\ UNCHANGED routes

(* The injectors of the modules, then stage2 of the first module up to its  *)
(* first await.                                                             *)
CreateModules(t) ==
    /\ boot[t].stage = "stage1"
    /\ CreateInjector
    /\ store' = Stored(boot[t].modules)
    /\ \E m \in boot[t].modules :
         boot' = [boot EXCEPT ![t].stage = "stage2",
                              ![t].todo = boot[t].modules \ {m},
                              ![t].inj[m] = made + 1]
    /\ UNCHANGED routes

Stage2(t) ==
    /\ boot[t].stage = "stage2"
    /\ \E m \in boot[t].todo :
         boot' = [boot EXCEPT ![t].todo = @ \ {m}, ![t].inj[m] = store[m]]
    /\ UNCHANGED <<made, injectorPerApp, store, routes>>

Stage2Throws(t) ==
    /\ boot[t].stage = "stage2"
    /\ (boot[t].modules \ boot[t].todo) \intersect Flaky # {}
    /\ Abort(t)
    /\ UNCHANGED <<made, injectorPerApp, store, routes>>

(* The modules stage3 has yet to visit.                                     *)
ToMount(t) ==
    IF boot[t].stage = "stage2" /\ boot[t].todo = {} THEN boot[t].modules
    ELSE IF boot[t].stage = "stage3" THEN boot[t].todo
    ELSE {}

(* stage3 of one module sets its routes in the Router above its injector,   *)
(* which throws HandleAlreadyRegistered when they are set there already.    *)
Stage3(t) ==
    /\ \E m \in ToMount(t) :
         \/ /\ m \in routes[boot[t].inj[m]]
            /\ Abort(t)
            /\ UNCHANGED routes
         \/ /\ m \notin routes[boot[t].inj[m]]
            /\ routes' = [routes EXCEPT ![boot[t].inj[m]] = @ \union {m}]
            /\ boot' = [boot EXCEPT ![t].stage = "stage3",
                                    ![t].todo = ToMount(t) \ {m}]
    /\ UNCHANGED <<made, injectorPerApp, store>>

Stage3Throws(t) ==
    /\ boot[t].stage = "stage3"
    /\ (boot[t].modules \ boot[t].todo) \intersect Flaky # {}
    /\ Abort(t)
    /\ UNCHANGED <<made, injectorPerApp, store, routes>>

(* The last await is over: the injector that is current now is returned.    *)
Return(t) ==
    /\ boot[t].stage = "stage3"
    /\ boot[t].todo = {}
    /\ boot' = [boot EXCEPT ![t].stage = "returned", ![t].result = injectorPerApp]
    /\ UNCHANGED <<made, injectorPerApp, store, routes>>

BootStep(t) ==
    \/ Stage1Throws(t)
    \/ ModuleThrows(t)
    \/ CreateModules(t)
    \/ Stage2(t)
    \/ Stage2Throws(t)
    \/ Stage3(t)
    \/ Stage3Throws(t)
    \/ Return(t)
=============================================================================
