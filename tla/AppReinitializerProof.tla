------------------------- MODULE AppReinitializerProof -----------------------
(***************************************************************************)
(* Proofs about AppReinitializer, for every set of modules, every number   *)
(* of calls and every choice of the modules that collide or fail.  The     *)
(* inductive invariant has four parts: the types; the transaction, of      *)
(* which the backup is the last commit; the injectors that are not yet     *)
(* made, whose routers are empty; and, where requests wait for one         *)
(* another, how far the one run that is under way has come.                *)
(***************************************************************************)
EXTENDS AppReinitializer, TLAPS

-----------------------------------------------------------------------------
(* The parts of the inductive invariant.                                    *)

\* The backup, when there is one, is the last commit; otherwise the imports are.
BackupIsCommit ==
    IF backup = NoBackup THEN imports = committed ELSE backup = committed

\* Only injectors that are there are used, and have routes; what is returned is
\* an injector; a module that has one keeps one, so that the stages find it.
Late == {"stage2", "stage3", "returned"}
Visited(t) == {m \in boot[t].modules : boot[t].stage = "stage3" \/ m \notin boot[t].todo}
LocalsFit(t) ==
    /\ boot[t].result <= made
    /\ boot[t].stage = "returned" => boot[t].result \in Injector
    /\ \A m \in Module : boot[t].inj[m] <= made
    /\ boot[t].stage \in Late => \A m \in boot[t].modules : store[m] # NoInjector
    /\ boot[t].stage \in {"stage2", "stage3"} =>
         \A m \in Visited(t) : boot[t].inj[m] # NoInjector
InjectorsFit ==
    /\ injectorPerApp <= made
    /\ \A m \in Module : store[m] <= made
    /\ \A i \in Injector : i > made => routes[i] = {}
    /\ \A t \in Task : LocalsFit(t)

\* Requests wait for one another, so that one run at most is under way.
OneAtATime == ~overlap => \A t, u \in Task : Running(t) /\ Running(u) => t = u

\* How far that run has come, with the injector it has made.
Progress(t) ==
    /\ boot[t].modules = Modules(imports)
    /\ boot[t].stage # "idle"
    /\ boot[t].stage \in Late =>
         /\ injectorPerApp = made
         /\ \A m \in boot[t].modules : store[m] = made
    /\ boot[t].stage \in {"stage2", "stage3"} =>
         /\ boot[t].todo \subseteq boot[t].modules
         /\ \A m \in Visited(t) : boot[t].inj[m] = made
    /\ boot[t].stage = "stage2" => routes[made] = {}
    /\ boot[t].stage = "stage3" => routes[made] = boot[t].modules \ boot[t].todo
    /\ boot[t].stage = "returned" => boot[t].result = made /\ routes[made] = boot[t].modules
InStep == ~overlap => \A t \in Task : Running(t) => Progress(t)

IInv ==
    /\ TypeOK
    /\ BackupIsCommit
    /\ InjectorsFit /\ dispatcher <= made
    /\ BufferedOnlyInCall
    /\ OneAtATime
    /\ InStep
    /\ BaseIsRouted
    /\ FailureCanRollBack

-----------------------------------------------------------------------------
(* What the steps of an initialisation do to its local variables.           *)

PC == {"idle", "main", "rollback", "done", "error", "threw"}
CallType == [Task -> [pc : PC, autocommit : BOOLEAN]]

\* Only the task itself is changed.
Others(t) == \A u \in Task \ {t} : boot'[u] = boot[u]

\* A run begins with nothing found and nothing to return.
LEMMA BeginBoot ==
    ASSUME InitializerTypeOK, NEW t \in Task, NEW ms \in SUBSET Module, Begin(t, ms)
    PROVE  /\ boot' \in [Task -> Boot] /\ Others(t)
           /\ boot'[t].stage = "stage1" /\ boot'[t].modules = ms
           /\ boot'[t].result = NoInjector /\ boot'[t].inj = Unset
<1>1. [Idle EXCEPT !.stage = "stage1", !.modules = ms] \in Boot
  BY DEF Idle, Boot, Unset, Parents, NoInjector
<1> QED
  BY <1>1 DEF Begin, Idle, InitializerTypeOK, Others

\* A run that throws keeps its other local variables.
LEMMA AbortBoot ==
    ASSUME InitializerTypeOK, NEW t \in Task, Abort(t)
    PROVE  /\ boot' \in [Task -> Boot] /\ Others(t)
           /\ boot'[t] = [boot[t] EXCEPT !.stage = "failed"]
<1>1. [boot[t] EXCEPT !.stage = "failed"] \in Boot
  BY DEF Boot, InitializerTypeOK
<1> QED
  BY <1>1 DEF Abort, InitializerTypeOK, Others

\* setInjectorPerMod: the modules ms are under the injector being made, the
\* others stay where they were.
LEMMA StoredType ==
    ASSUME InitializerTypeOK, made < MaxInjector, NEW ms \in SUBSET Module
    PROVE  /\ made + 1 \in Injector
           /\ Stored(ms) \in Parents
           /\ \A m \in Module : Stored(ms)[m] = IF m \in ms THEN made + 1 ELSE store[m]
<1>1. made + 1 \in Injector
  BY InitializerAssumption DEF InitializerTypeOK, Injector
<1> QED
  BY <1>1 DEF InitializerTypeOK, Stored, Parents

\* stage2 of the first module has its injector from initModule.
LEMMA CreateModulesBoot ==
    ASSUME InitializerTypeOK, NEW t \in Task, CreateModules(t)
    PROVE  /\ boot' \in [Task -> Boot] /\ Others(t)
           /\ boot'[t].stage = "stage2" /\ boot'[t].modules = boot[t].modules
           /\ boot'[t].result = boot[t].result
           /\ \E m \in boot[t].modules :
                /\ boot'[t].todo = boot[t].modules \ {m}
                /\ boot'[t].inj = [boot[t].inj EXCEPT ![m] = made + 1]
<1>1. made < MaxInjector
  BY DEF CreateModules, CreateInjector
<1>2. made + 1 \in Injector
  BY <1>1, StoredType
<1>3. PICK m \in boot[t].modules :
         boot' = [boot EXCEPT ![t].stage = "stage2",
                              ![t].todo = boot[t].modules \ {m},
                              ![t].inj[m] = made + 1]
  BY DEF CreateModules
<1>4. boot[t] \in Boot /\ m \in Module
  BY DEF InitializerTypeOK, Boot
<1> DEFINE new == [boot[t] EXCEPT !.stage = "stage2", !.todo = boot[t].modules \ {m},
                                  !.inj = [boot[t].inj EXCEPT ![m] = made + 1]]
<1>5. boot' = [boot EXCEPT ![t] = new]
  BY <1>3, <1>4 DEF InitializerTypeOK, Boot
<1>6. new \in Boot
  BY <1>2, <1>4 DEF Boot, Parents
<1> QED
  BY <1>4, <1>5, <1>6 DEF InitializerTypeOK, Others, Boot

\* stage2 of the others takes their injectors from the store.
LEMMA Stage2Boot ==
    ASSUME InitializerTypeOK, NEW t \in Task, Stage2(t)
    PROVE  /\ boot' \in [Task -> Boot] /\ Others(t)
           /\ boot'[t].stage = "stage2" /\ boot'[t].modules = boot[t].modules
           /\ boot'[t].result = boot[t].result
           /\ \E m \in boot[t].todo :
                /\ boot'[t].todo = boot[t].todo \ {m}
                /\ boot'[t].inj = [boot[t].inj EXCEPT ![m] = store[m]]
<1>1. PICK m \in boot[t].todo :
         boot' = [boot EXCEPT ![t].todo = @ \ {m}, ![t].inj[m] = store[m]]
  BY DEF Stage2
<1>2. boot[t] \in Boot /\ m \in Module
  BY DEF InitializerTypeOK, Boot
<1> DEFINE new == [boot[t] EXCEPT !.todo = boot[t].todo \ {m},
                                  !.inj = [boot[t].inj EXCEPT ![m] = store[m]]]
<1>3. boot' = [boot EXCEPT ![t] = new]
  BY <1>1, <1>2 DEF InitializerTypeOK, Boot
<1>4. new \in Boot
  BY <1>2 DEF InitializerTypeOK, Boot, Parents
<1> QED
  BY <1>2, <1>3, <1>4 DEF InitializerTypeOK, Others, Boot, Stage2

\* stage3 adds one module to the Router above its injector, or finds it there
\* and throws.
LEMMA Stage3Boot ==
    ASSUME InitializerTypeOK, NEW t \in Task, Stage3(t)
    PROVE  /\ boot' \in [Task -> Boot] /\ Others(t)
           /\ routes' \in [Injector -> SUBSET Module]
           /\ \A i \in Injector : routes[i] \subseteq routes'[i]
           /\ \E m \in ToMount(t) :
                \/ /\ m \in routes[boot[t].inj[m]]
                   /\ boot'[t] = [boot[t] EXCEPT !.stage = "failed"] /\ routes' = routes
                \/ /\ routes' = [routes EXCEPT ![boot[t].inj[m]] = @ \union {m}]
                   /\ boot'[t] = [boot[t] EXCEPT !.stage = "stage3", !.todo = ToMount(t) \ {m}]
<1>1. boot[t] \in Boot /\ ToMount(t) \in SUBSET Module
  BY DEF InitializerTypeOK, Boot, ToMount
<1>2. PICK m \in ToMount(t) :
         \/ m \in routes[boot[t].inj[m]] /\ Abort(t) /\ routes' = routes
         \/ /\ routes' = [routes EXCEPT ![boot[t].inj[m]] = @ \union {m}]
            /\ boot' = [boot EXCEPT ![t].stage = "stage3", ![t].todo = ToMount(t) \ {m}]
  BY DEF Stage3
<1>3. CASE m \in routes[boot[t].inj[m]] /\ Abort(t) /\ routes' = routes
  BY <1>2, <1>3, AbortBoot DEF InitializerTypeOK
<1>4. CASE /\ routes' = [routes EXCEPT ![boot[t].inj[m]] = @ \union {m}]
           /\ boot' = [boot EXCEPT ![t].stage = "stage3", ![t].todo = ToMount(t) \ {m}]
  <2> DEFINE new == [boot[t] EXCEPT !.stage = "stage3", !.todo = ToMount(t) \ {m}]
  <2>1. boot' = [boot EXCEPT ![t] = new]
    BY <1>1, <1>4 DEF InitializerTypeOK, Boot
  <2>2. new \in Boot
    BY <1>1 DEF Boot
  <2>3. boot' \in [Task -> Boot] /\ Others(t) /\ boot'[t] = new
    BY <2>1, <2>2 DEF InitializerTypeOK, Others
  <2>4. routes' \in [Injector -> SUBSET Module]
    BY <1>1, <1>4 DEF InitializerTypeOK
  <2>5. \A i \in Injector : routes[i] \subseteq routes'[i]
    BY <1>4 DEF InitializerTypeOK
  <2> QED
    BY <1>2, <1>4, <2>3, <2>4, <2>5
<1> QED
  BY <1>2, <1>3, <1>4

\* A run returns whichever injector is the current one.
LEMMA ReturnBoot ==
    ASSUME InitializerTypeOK, NEW t \in Task, Return(t)
    PROVE  /\ boot' \in [Task -> Boot] /\ Others(t)
           /\ boot'[t] = [boot[t] EXCEPT !.stage = "returned", !.result = injectorPerApp]
<1>1. boot[t] \in Boot
  BY DEF InitializerTypeOK
<1> DEFINE new == [boot[t] EXCEPT !.stage = "returned", !.result = injectorPerApp]
<1>2. boot' = [boot EXCEPT ![t] = new]
  BY <1>1 DEF Return, InitializerTypeOK, Boot
<1>3. new \in Boot
  BY <1>1 DEF InitializerTypeOK, Boot
<1> QED
  BY <1>2, <1>3 DEF InitializerTypeOK, Others

-----------------------------------------------------------------------------
(* Types.                                                                   *)

\* The state after the first start has the types.
LEMMA InitTyped == Init => TypeOK
<1> SUFFICES ASSUME Init PROVE TypeOK
  OBVIOUS
<1>1. 1 \in Injector /\ NoInjector \notin Injector
  BY InitializerAssumption DEF Injector, NoInjector
<1>2. Base \in SUBSET Module
  BY ReinitializerAssumption
<1>3. Idle \in Boot
  BY DEF Idle, Boot, Unset, Parents, NoInjector
<1>4. InitializerTypeOK
  BY <1>1, <1>2, <1>3 DEF Init, Started, InitializerTypeOK, Parents
<1> QED
  BY <1>1, <1>4 DEF Init, TypeOK, NoCall

\* A step of a run keeps the types and leaves the other runs alone.
LEMMA BootStepTyped ==
    ASSUME InitializerTypeOK, NEW t \in Task, BootStep(t)
    PROVE  InitializerTypeOK' /\ Others(t)
<1> USE DEF InitializerTypeOK
<1>1. CASE Stage1Throws(t)
  BY <1>1, AbortBoot DEF Stage1Throws
<1>2. CASE ModuleThrows(t)
  <2>1. made < MaxInjector /\ Abort(t) /\ made' = made + 1 /\ injectorPerApp' = made + 1
        /\ routes' = routes
    BY <1>2 DEF ModuleThrows, CreateInjector
  <2>2. PICK ms \in SUBSET Module : store' = Stored(ms)
    BY <1>2 DEF ModuleThrows, Boot
  <2> QED
    BY <2>1, <2>2, StoredType, AbortBoot
<1>3. CASE CreateModules(t)
  <2>1. made < MaxInjector /\ made' = made + 1 /\ injectorPerApp' = made + 1
        /\ routes' = routes /\ store' = Stored(boot[t].modules)
    BY <1>3 DEF CreateModules, CreateInjector
  <2>2. boot[t].modules \in SUBSET Module
    BY DEF Boot
  <2> QED
    BY <1>3, <2>1, <2>2, StoredType, CreateModulesBoot
<1>4. CASE Stage2(t)
  BY <1>4, Stage2Boot DEF Stage2
<1>5. CASE Stage2Throws(t)
  BY <1>5, AbortBoot DEF Stage2Throws
<1>6. CASE Stage3(t)
  BY <1>6, Stage3Boot DEF Stage3
<1>7. CASE Stage3Throws(t)
  BY <1>7, AbortBoot DEF Stage3Throws
<1>8. CASE Return(t)
  BY <1>8, ReturnBoot DEF Return
<1> QED
  BY <1>1, <1>2, <1>3, <1>4, <1>5, <1>6, <1>7, <1>8 DEF BootStep

\* The types of what a call of reinit() changes, with the initialisation it
\* begins.
LEMMA GotoTyped ==
    ASSUME TypeOK, NEW t \in Task, NEW pc \in PC, Goto(t, pc)
    PROVE  call' \in CallType /\ call'[t].pc = pc /\ \A u \in Task \ {t} : call'[u] = call[u]
BY DEF TypeOK, Goto, CallType, PC

\* handleReinitError either throws at once, or begins a run with the imports
\* that are rolled back to and an injector of its own.
LEMMA RestoreTyped ==
    ASSUME TypeOK, NEW t \in Task, NEW old \in SUBSET Optional, Restore(t, old)
    PROVE  /\ InitializerTypeOK' /\ Others(t) /\ store' = store /\ routes' = routes
           /\ imports' = old /\ backup' = NoBackup
           /\ call' \in CallType /\ \A u \in Task \ {t} : call'[u] = call[u]
           /\ \/ /\ call'[t].pc = "threw"
                 /\ boot' = boot /\ made' = made /\ injectorPerApp' = injectorPerApp
              \/ /\ call'[t].pc = "rollback"
                 /\ made < MaxInjector /\ made' = made + 1 /\ injectorPerApp' = made + 1
                 /\ Begin(t, Modules(old))
<1>1. Modules(old) \in SUBSET Module
  BY ReinitializerAssumption DEF Modules, Optional
<1>2. CASE ProvidersCollide(Modules(old))
  <2>1. Goto(t, "threw") /\ UNCHANGED <<made, injectorPerApp, boot, store, routes>>
        /\ imports' = old /\ backup' = NoBackup
    BY <1>2 DEF Restore
  <2>2. call' \in CallType /\ call'[t].pc = "threw" /\ \A u \in Task \ {t} : call'[u] = call[u]
    BY <2>1, GotoTyped DEF PC
  <2> QED
    BY <2>1, <2>2 DEF TypeOK, InitializerTypeOK, Others
<1>3. CASE ~ProvidersCollide(Modules(old))
  <2>1. /\ Goto(t, "rollback")
        /\ made < MaxInjector /\ made' = made + 1 /\ injectorPerApp' = made + 1
        /\ Begin(t, Modules(old)) /\ store' = store /\ routes' = routes
        /\ imports' = old /\ backup' = NoBackup
    BY <1>3 DEF Restore, CreateInjector
  <2>4. call' \in CallType /\ call'[t].pc = "rollback" /\ \A u \in Task \ {t} : call'[u] = call[u]
    BY <2>1, GotoTyped DEF PC
  <2>2. made + 1 \in Injector
    BY <2>1, StoredType DEF TypeOK
  <2>3. boot' \in [Task -> Boot] /\ Others(t)
    BY <1>1, <2>1, BeginBoot DEF TypeOK
  <2> QED
    BY <2>1, <2>2, <2>3, <2>4 DEF TypeOK, InitializerTypeOK
<1> QED
  BY <1>2, <1>3

\* reinit() begins a run with the imports of the registry and an injector of
\* its own.
LEMMA ReinitTyped ==
    ASSUME TypeOK, NEW t \in Task, Reinit(t)
    PROVE  /\ InitializerTypeOK' /\ Others(t) /\ Begin(t, Modules(imports))
           /\ made < MaxInjector /\ made' = made + 1 /\ injectorPerApp' = made + 1
           /\ store' = store /\ routes' = routes
           /\ call' \in CallType
           /\ call'[t].pc = "main" /\ \A u \in Task \ {t} : call'[u] = call[u]
<1>1. Modules(imports) \in SUBSET Module
  BY ReinitializerAssumption DEF TypeOK, Modules, Optional
<1>2. /\ Begin(t, Modules(imports)) /\ store' = store /\ routes' = routes
      /\ made < MaxInjector /\ made' = made + 1 /\ injectorPerApp' = made + 1
  BY DEF Reinit, CreateInjector
<1>3. made + 1 \in Injector
  BY <1>2, StoredType DEF TypeOK
<1>4. boot' \in [Task -> Boot] /\ Others(t)
  BY <1>1, <1>2, BeginBoot DEF TypeOK
<1>5. PICK autocommit \in BOOLEAN :
         call' = [call EXCEPT ![t] = [pc |-> "main", autocommit |-> autocommit]]
  BY DEF Reinit
<1> QED
  BY <1>2, <1>3, <1>4, <1>5 DEF TypeOK, InitializerTypeOK, CallType, PC

\* What a transaction opens with, and what Remember keeps.
LEMMA OpenedTyped ==
    ASSUME TypeOK
    PROVE  /\ Registry!Opened \in SUBSET Optional
           /\ backup # NoBackup => backup \in SUBSET Optional
BY DEF TypeOK, Registry!Opened, Registry!IsOpen

\* No set of imports is taken for the absence of a backup.
LEMMA NoBackupIsNoSet == NoBackup \notin SUBSET Optional
BY ReinitializerAssumption DEF Optional

\* Every step keeps the types: what requests are routed through comes from a run
\* that has returned an injector.
LEMMA NextTyped ==
    ASSUME TypeOK, InjectorsFit, [Next]_vars
    PROVE  TypeOK'
<1>1. CASE UNCHANGED vars
  BY <1>1 DEF vars, initVars, TypeOK, InitializerTypeOK
<1>2. ASSUME overlap' = overlap, Remember,
             imports' \in SUBSET Optional, backup' \in (SUBSET Optional) \union {NoBackup},
             InitializerTypeOK', dispatcher' \in Injector, appInjector' \in Injector,
             bufferLogs' \in BOOLEAN, closed' \in SUBSET Injector,
             call' \in CallType
      PROVE  TypeOK'
  BY <1>2 DEF TypeOK, Remember, CallType, PC
<1>0. call \in CallType
  BY DEF TypeOK, CallType, PC
<1> USE OpenedTyped
<1>3. ASSUME Next PROVE overlap' = overlap /\ Remember
  BY <1>3 DEF Next
<1>4. ASSUME UNCHANGED initVars PROVE InitializerTypeOK'
  BY <1>4 DEF initVars, TypeOK, InitializerTypeOK
<1>5. ASSUME Next, NEW m \in Optional, AddImport(m) \/ RemoveImport(m)
      PROVE  TypeOK'
  <2>1. UNCHANGED <<initVars, dispatcher, appInjector, bufferLogs, call, closed>>
    BY <1>5 DEF AddImport, RemoveImport
  <2>2. imports' \in SUBSET Optional /\ backup' \in SUBSET Optional
    BY <1>5 DEF AddImport, RemoveImport, Registry!Change, TypeOK
  <2> QED
    BY <1>2, <1>3, <1>4, <1>5, <2>1, <2>2, <1>0 DEF TypeOK
<1>6. ASSUME Next, AddMalformed
      PROVE  TypeOK'
  <2>1. UNCHANGED <<initVars, dispatcher, appInjector, bufferLogs, call, closed>>
    BY <1>6 DEF AddMalformed
  <2>2. imports' \in SUBSET Optional /\ backup' = NoBackup
    BY <1>6 DEF AddMalformed, Registry!Undo, Registry!IsOpen, TypeOK
  <2> QED
    BY <1>2, <1>3, <1>4, <1>6, <2>1, <2>2, <1>0 DEF TypeOK
<1>7. ASSUME Next, NEW t \in Task, Reinit(t)
      PROVE  TypeOK'
  <2>1. /\ imports' = imports /\ backup' = Registry!Opened /\ bufferLogs' = TRUE
        /\ UNCHANGED <<dispatcher, appInjector, closed>>
    BY <1>7 DEF Reinit, Registry!Begin
  <2> QED
    BY <1>2, <1>3, <1>7, <2>1, ReinitTyped DEF TypeOK
<1>8. ASSUME Next, NEW t \in Task, ReinitCollides(t)
      PROVE  TypeOK'
  <2>1. /\ Restore(t, Registry!Opened) /\ bufferLogs' = FALSE
        /\ UNCHANGED <<dispatcher, appInjector, closed>>
    BY <1>8 DEF ReinitCollides
  <2> QED
    BY <1>2, <1>3, <1>8, <2>1, RestoreTyped DEF TypeOK
<1>9. ASSUME Next, NEW t \in Task, Catch(t)
      PROVE  TypeOK'
  <2>1. bufferLogs' = FALSE /\ UNCHANGED <<dispatcher, appInjector, closed>>
    BY <1>9 DEF Catch
  <2>2. CASE Registry!IsOpen
    <3>1. Restore(t, backup) /\ backup \in SUBSET Optional
      BY <1>9, <2>2 DEF Catch, Registry!IsOpen
    <3> QED
      BY <1>2, <1>3, <1>9, <2>1, <3>1, RestoreTyped DEF TypeOK
  <2>3. CASE ~Registry!IsOpen
    <3>1. Goto(t, "threw") /\ UNCHANGED <<initVars, imports, backup>>
      BY <1>9, <2>3 DEF Catch
    <3>2. call' \in CallType
      BY <3>1, GotoTyped DEF PC
    <3> QED
      BY <1>2, <1>3, <1>4, <1>9, <2>1, <3>1, <3>2 DEF TypeOK
  <2> QED
    BY <2>2, <2>3
<1>10. ASSUME Next, NEW t \in Task, Finish(t)
      PROVE  TypeOK'
  <2>1. /\ bufferLogs' = FALSE /\ UNCHANGED <<initVars, appInjector, closed>>
        /\ Goto(t, "done") /\ dispatcher' = boot[t].result
        /\ imports' = imports /\ backup' \in {backup, NoBackup}
    BY <1>10 DEF Finish, Registry!Commit
  <2>2. boot[t].result \in Injector
    BY <1>10 DEF Finish, InjectorsFit, LocalsFit
  <2>3. call' \in CallType
    BY <2>1, GotoTyped DEF PC
  <2> QED
    BY <1>2, <1>3, <1>4, <1>10, <2>1, <2>2, <2>3 DEF TypeOK
<1>11. ASSUME Next, NEW t \in Task, FinishRollback(t)
      PROVE  TypeOK'
  <2>1. UNCHANGED <<initVars, imports, backup, appInjector, bufferLogs, closed>>
    BY <1>11 DEF FinishRollback
  <2>2. dispatcher' \in Injector
    BY <1>11 DEF FinishRollback, InjectorsFit, LocalsFit, TypeOK
  <2>3. Goto(t, "error") \/ Goto(t, "threw")
    BY <1>11 DEF FinishRollback
  <2>4. call' \in CallType
    BY <2>3, GotoTyped DEF PC
  <2> QED
    BY <1>2, <1>3, <1>4, <1>11, <2>1, <2>2, <2>4 DEF TypeOK
<1>12. ASSUME Next, NEW t \in Task, Boots(t)
      PROVE  TypeOK'
  <2>1. /\ BootStep(t)
        /\ UNCHANGED <<imports, backup, dispatcher, appInjector, bufferLogs, call, closed>>
    BY <1>12 DEF Boots
  <2> QED
    BY <1>0, <1>2, <1>3, <1>12, <2>1, BootStepTyped DEF TypeOK
<1>13. ASSUME Next, Close
      PROVE  TypeOK'
  <2>1. /\ closed' = {appInjector}
        /\ UNCHANGED <<initVars, imports, backup, dispatcher, appInjector, bufferLogs, call>>
    BY <1>13 DEF Close
  <2> QED
    BY <1>0, <1>2, <1>3, <1>4, <1>13, <2>1 DEF TypeOK
<1> QED
  BY <1>1, <1>5, <1>6, <1>7, <1>8, <1>9, <1>10, <1>11, <1>12, <1>13 DEF Next

-----------------------------------------------------------------------------
(* Injectors.                                                               *)

\* What a step of one task leaves true of the others.
LEMMA OthersFit ==
    ASSUME InitializerTypeOK, InitializerTypeOK', InjectorsFit, NEW t \in Task, Others(t),
           made <= made', \A m \in Module : store[m] # NoInjector => store'[m] # NoInjector
    PROVE  \A u \in Task \ {t} : LocalsFit(u)'
<1> SUFFICES ASSUME NEW u \in Task \ {t} PROVE LocalsFit(u)'
  OBVIOUS
<1>1. LocalsFit(u) /\ boot'[u] = boot[u] /\ boot[u] \in Boot
  BY DEF InjectorsFit, Others, InitializerTypeOK
<1>2. made \in Nat /\ made' \in Nat /\ boot[u].result \in Nat
      /\ \A m \in Module : boot[u].inj[m] \in Nat
  BY <1>1 DEF InitializerTypeOK, Injector, Boot, Parents, NoInjector
<1>3. boot[u].modules \subseteq Module
  BY <1>1 DEF Boot
<1>4. Visited(u)' = Visited(u)
  BY <1>1 DEF Visited
<1> QED
  BY <1>1, <1>2, <1>3, <1>4 DEF LocalsFit

\* A run that begins has taken nothing from the store yet.
LEMMA BeginFits ==
    ASSUME InitializerTypeOK, InitializerTypeOK', InjectorsFit, NEW t \in Task,
           NEW ms \in SUBSET Module, Begin(t, ms),
           made' = made + 1, injectorPerApp' = made + 1, store' = store, routes' = routes
    PROVE  InjectorsFit'
<1>1. made \in Nat /\ \A m \in Module : store[m] \in Nat
  BY DEF InitializerTypeOK, Injector, Parents, NoInjector
<1>2. Others(t) /\ boot'[t].stage = "stage1" /\ boot'[t].result = NoInjector
      /\ boot'[t].inj = Unset
  BY BeginBoot
<1>3. LocalsFit(t)'
  BY <1>1, <1>2 DEF LocalsFit, Unset, NoInjector, Late
<1>4. \A u \in Task \ {t} : LocalsFit(u)'
  BY <1>1, <1>2, OthersFit
<1>5. \A i \in Injector : i \in Nat
  BY DEF Injector
<1> QED
  BY <1>1, <1>3, <1>4, <1>5 DEF InjectorsFit

\* A step of a run uses only injectors that are there.
LEMMA BootStepFits ==
    ASSUME InitializerTypeOK, InjectorsFit, NEW t \in Task, BootStep(t)
    PROVE  InjectorsFit'
<1>1. InitializerTypeOK' /\ Others(t)
  BY BootStepTyped
<1>2. /\ made \in Nat /\ made' \in Nat /\ boot[t] \in Boot /\ boot'[t] \in Boot
      /\ boot[t].result \in Nat /\ injectorPerApp \in Injector /\ injectorPerApp \in Nat
      /\ \A m \in Module : boot[t].inj[m] \in Nat /\ store[m] \in Nat
      /\ \A i \in Injector : i \in Nat
      /\ boot[t].modules \subseteq Module /\ boot[t].todo \subseteq Module
  BY <1>1 DEF InitializerTypeOK, Injector, Boot, Parents, NoInjector
<1>3. LocalsFit(t)
  BY DEF InjectorsFit
\* Steps that end the run, with or without new injectors.
<1>4. ASSUME boot'[t] = [boot[t] EXCEPT !.stage = "failed"], made <= made'
      PROVE  LocalsFit(t)'
  <2>1. boot'[t].stage = "failed" /\ boot'[t].result = boot[t].result
        /\ boot'[t].inj = boot[t].inj
    BY <1>2, <1>4 DEF Boot
  <2> QED
    BY <1>2, <1>3, <1>4, <2>1 DEF LocalsFit, Late
<1>5. ASSUME UNCHANGED <<made, injectorPerApp, store, routes>>, LocalsFit(t)'
      PROVE  InjectorsFit'
  BY <1>1, <1>2, <1>5, OthersFit DEF InjectorsFit
<1>6. ASSUME NEW ms \in SUBSET Module, CreateInjector, store' = Stored(ms), routes' = routes,
             LocalsFit(t)'
      PROVE  InjectorsFit'
  <2>1. made < MaxInjector /\ made' = made + 1 /\ injectorPerApp' = made + 1
    BY <1>6 DEF CreateInjector
  <2>2. \A m \in Module : store'[m] = IF m \in ms THEN made + 1 ELSE store[m]
    BY <1>6, <2>1, StoredType
  <2>3. \A m \in Module : store'[m] <= made' /\ (store[m] # NoInjector => store'[m] # NoInjector)
    BY <1>2, <2>1, <2>2 DEF InjectorsFit, NoInjector
  <2>4. \A u \in Task \ {t} : LocalsFit(u)'
    BY <1>1, <1>2, <2>1, <2>3, OthersFit
  <2> QED
    BY <1>2, <1>6, <2>1, <2>3, <2>4 DEF InjectorsFit
<1>7. CASE Stage1Throws(t) \/ Stage2Throws(t) \/ Stage3Throws(t)
  BY <1>2, <1>4, <1>5, <1>7, AbortBoot DEF Stage1Throws, Stage2Throws, Stage3Throws
<1>8. CASE ModuleThrows(t)
  <2>1. PICK ms \in SUBSET Module : store' = Stored(ms)
    BY <1>2, <1>8 DEF ModuleThrows
  <2>2. CreateInjector /\ Abort(t) /\ routes' = routes
    BY <1>8 DEF ModuleThrows
  <2>3. made <= made'
    BY <1>2, <2>2 DEF CreateInjector
  <2> QED
    BY <1>4, <1>6, <2>1, <2>2, <2>3, AbortBoot
<1>9. CASE CreateModules(t)
  <2>1. CreateInjector /\ store' = Stored(boot[t].modules) /\ routes' = routes
        /\ made < MaxInjector /\ made' = made + 1
    BY <1>9 DEF CreateModules, CreateInjector
  <2>2. \A m \in boot[t].modules : store'[m] = made + 1
    BY <1>2, <2>1, StoredType
  <2>3. PICK m \in boot[t].modules :
          /\ boot'[t].stage = "stage2" /\ boot'[t].modules = boot[t].modules
          /\ boot'[t].result = boot[t].result
          /\ boot'[t].todo = boot[t].modules \ {m}
          /\ boot'[t].inj = [boot[t].inj EXCEPT ![m] = made + 1]
    BY <1>9, CreateModulesBoot
  <2>4. \A n \in Module : boot'[t].inj[n] = IF n = m THEN made + 1 ELSE boot[t].inj[n]
    BY <1>2, <2>3 DEF Boot, Parents
  <2>5. Visited(t)' = {m}
    BY <2>3 DEF Visited
  <2>6. LocalsFit(t)'
    BY <1>2, <1>3, <2>1, <2>2, <2>3, <2>4, <2>5 DEF LocalsFit, NoInjector, Late
  <2> QED
    BY <1>2, <1>6, <2>1, <2>6
<1>10. CASE Stage2(t)
  <2>1. boot[t].stage = "stage2" /\ UNCHANGED <<made, injectorPerApp, store, routes>>
    BY <1>10 DEF Stage2
  <2>2. PICK m \in boot[t].todo :
          /\ boot'[t].stage = "stage2" /\ boot'[t].modules = boot[t].modules
          /\ boot'[t].result = boot[t].result
          /\ boot'[t].todo = boot[t].todo \ {m}
          /\ boot'[t].inj = [boot[t].inj EXCEPT ![m] = store[m]]
    BY <1>10, Stage2Boot
  <2>3. \A n \in Module : boot'[t].inj[n] = IF n = m THEN store[m] ELSE boot[t].inj[n]
    BY <1>2, <2>2 DEF Boot, Parents
  <2>4. \A n \in Module : boot'[t].inj[n] <= made
    BY <1>2, <1>3, <2>3 DEF LocalsFit, InjectorsFit
  <2>5. \A n \in Visited(t)' : boot'[t].inj[n] # NoInjector
    BY <1>2, <1>3, <2>1, <2>2, <2>3 DEF Visited, LocalsFit, Late
  <2>6. LocalsFit(t)'
    BY <1>3, <2>1, <2>2, <2>4, <2>5 DEF LocalsFit, Late
  <2> QED
    BY <1>5, <2>1, <2>6
<1>11. CASE Stage3(t)
  <2>0. ToMount(t) # {}
    BY <1>11 DEF Stage3
  <2>1. /\ UNCHANGED <<made, injectorPerApp, store>> /\ boot[t].stage \in {"stage2", "stage3"}
        /\ boot[t].stage = "stage2" => boot[t].todo = {}
    BY <1>11, <2>0 DEF Stage3, ToMount
  <2>2. PICK m \in ToMount(t) :
           \/ boot'[t] = [boot[t] EXCEPT !.stage = "failed"] /\ routes' = routes
           \/ /\ routes' = [routes EXCEPT ![boot[t].inj[m]] = @ \union {m}]
              /\ boot'[t] = [boot[t] EXCEPT !.stage = "stage3", !.todo = ToMount(t) \ {m}]
    BY <1>11, Stage3Boot
  <2>3. CASE boot'[t] = [boot[t] EXCEPT !.stage = "failed"] /\ routes' = routes
    BY <1>2, <1>4, <1>5, <2>1, <2>3
  <2>4. CASE /\ routes' = [routes EXCEPT ![boot[t].inj[m]] = @ \union {m}]
             /\ boot'[t] = [boot[t] EXCEPT !.stage = "stage3", !.todo = ToMount(t) \ {m}]
    <3>1. boot'[t].stage = "stage3" /\ boot'[t].modules = boot[t].modules
          /\ boot'[t].result = boot[t].result /\ boot'[t].inj = boot[t].inj
      BY <1>2, <2>4 DEF Boot
    <3>2. Visited(t)' = boot[t].modules /\ Visited(t) = boot[t].modules
      BY <2>1, <3>1 DEF Visited
    <3>3. LocalsFit(t)'
      BY <1>3, <2>1, <3>1, <3>2 DEF LocalsFit, Late
    <3>4. \A u \in Task \ {t} : LocalsFit(u)'
      BY <1>1, <1>2, <2>1, OthersFit
    <3>5. boot[t].inj[m] <= made
      BY <1>2, <1>3 DEF LocalsFit, ToMount
    <3>6. \A i \in Injector : i > made => routes'[i] = {}
      BY <1>2, <2>4, <3>5 DEF InjectorsFit, InitializerTypeOK
    <3> QED
      BY <2>1, <3>3, <3>4, <3>6 DEF InjectorsFit
  <2> QED
    BY <2>2, <2>3, <2>4
<1>12. CASE Return(t)
  <2>1. UNCHANGED <<made, injectorPerApp, store, routes>> /\ boot[t].stage = "stage3"
    BY <1>12 DEF Return
  <2>2. boot'[t].stage = "returned" /\ boot'[t].modules = boot[t].modules
        /\ boot'[t].result = injectorPerApp /\ boot'[t].inj = boot[t].inj
    <3>1. boot[t] \in Boot
      BY <1>2 DEF InitializerTypeOK
    <3>2. boot'[t] = [boot[t] EXCEPT !.stage = "returned", !.result = injectorPerApp]
      BY <1>2, <1>12, ReturnBoot
    <3> QED
      BY <3>1, <3>2 DEF Boot
  <2>3. LocalsFit(t)'
    BY <1>2, <1>3, <2>1, <2>2 DEF LocalsFit, Late, InjectorsFit
  <2> QED
    BY <1>5, <2>1, <2>3
<1> QED
  BY <1>7, <1>8, <1>9, <1>10, <1>11, <1>12 DEF BootStep

\* A call that fails begins a new initialisation, or none.
LEMMA RestoreFits ==
    ASSUME TypeOK, InjectorsFit, NEW t \in Task, NEW old \in SUBSET Optional, Restore(t, old)
    PROVE  InjectorsFit' /\ made <= made'
<1>1. made \in Nat /\ Modules(old) \in SUBSET Module
  BY ReinitializerAssumption DEF TypeOK, InitializerTypeOK, Injector, Modules, Optional
<1>2. InitializerTypeOK' /\ InitializerTypeOK /\ store' = store /\ routes' = routes
  BY RestoreTyped DEF TypeOK
<1>3. CASE boot' = boot /\ made' = made /\ injectorPerApp' = injectorPerApp
  BY <1>1, <1>2, <1>3 DEF InjectorsFit, LocalsFit, Visited
<1>4. CASE made' = made + 1 /\ injectorPerApp' = made + 1 /\ Begin(t, Modules(old))
  BY <1>1, <1>2, <1>4, BeginFits
<1> QED
  BY <1>3, <1>4, RestoreTyped

\* A step of a run takes no injector away.
LEMMA BootStepMade ==
    ASSUME InitializerTypeOK, NEW t \in Task, BootStep(t)
    PROVE  made <= made'
<1>1. made \in Nat
  BY DEF InitializerTypeOK, Injector
<1>2. CASE CreateInjector
  BY <1>1, <1>2 DEF CreateInjector
<1>3. CASE made' = made
  BY <1>1, <1>3
<1>4. CreateInjector \/ made' = made
  <2>1. ModuleThrows(t) \/ CreateModules(t) => CreateInjector
    BY DEF ModuleThrows, CreateModules
  <2>2. Stage1Throws(t) \/ Stage2Throws(t) \/ Stage3Throws(t) => made' = made
    BY DEF Stage1Throws, Stage2Throws, Stage3Throws
  <2>3. Stage2(t) \/ Stage3(t) \/ Return(t) => made' = made
    BY DEF Stage2, Stage3, Return
  <2> QED
    BY <2>1, <2>2, <2>3 DEF BootStep
<1> QED
  BY <1>2, <1>3, <1>4

\* Only injectors that are there are ever used.
LEMMA NextFits ==
    ASSUME TypeOK, InjectorsFit, dispatcher <= made, [Next]_vars
    PROVE  InjectorsFit' /\ dispatcher' <= made'
<1>0. /\ InitializerTypeOK /\ dispatcher \in Nat /\ made \in Nat
      /\ dispatcher' \in Nat /\ made' \in Nat
  BY NextTyped DEF TypeOK, InitializerTypeOK, Injector
<1>1. ASSUME UNCHANGED <<initVars, dispatcher>>
      PROVE  InjectorsFit' /\ dispatcher' <= made'
  BY <1>1 DEF initVars, InjectorsFit, LocalsFit, Visited
<1>2. CASE UNCHANGED vars
  BY <1>1, <1>2 DEF vars
<1>3. ASSUME NEW m \in Optional, AddImport(m) \/ RemoveImport(m)
      PROVE  InjectorsFit' /\ dispatcher' <= made'
  BY <1>1, <1>3 DEF AddImport, RemoveImport
<1>4. CASE AddMalformed \/ Close
  BY <1>1, <1>4 DEF AddMalformed, Close
<1>5. ASSUME NEW t \in Task, Reinit(t)
      PROVE  InjectorsFit' /\ dispatcher' <= made'
  <2>1. Modules(imports) \in SUBSET Module
    BY ReinitializerAssumption DEF TypeOK, Modules, Optional
  <2>2. dispatcher' = dispatcher
    BY <1>5 DEF Reinit
  <2> QED
    BY <1>0, <1>5, <2>1, <2>2, ReinitTyped, BeginFits
<1>6. ASSUME NEW t \in Task, ReinitCollides(t) \/ Catch(t)
      PROVE  InjectorsFit' /\ dispatcher' <= made'
  <2>1. dispatcher' = dispatcher
    BY <1>6 DEF ReinitCollides, Catch
  <2>2. CASE UNCHANGED initVars
    BY <1>1, <2>1, <2>2
  <2>3. ASSUME NEW old \in SUBSET Optional, Restore(t, old)
        PROVE  InjectorsFit' /\ dispatcher' <= made'
    BY <1>0, <2>1, <2>3, RestoreFits
  <2> QED
    BY <1>6, <2>2, <2>3, OpenedTyped DEF ReinitCollides, Catch, Registry!IsOpen
<1>7. ASSUME NEW t \in Task, Finish(t) \/ FinishRollback(t)
      PROVE  InjectorsFit' /\ dispatcher' <= made'
  <2>1. UNCHANGED initVars /\ dispatcher' \in {dispatcher, boot[t].result}
    BY <1>7 DEF Finish, FinishRollback
  <2> QED
    BY <2>1 DEF initVars, InjectorsFit, LocalsFit, Visited
<1>8. ASSUME NEW t \in Task, Boots(t)
      PROVE  InjectorsFit' /\ dispatcher' <= made'
  BY <1>0, <1>8, BootStepFits, BootStepMade DEF Boots
<1> QED
  BY <1>2, <1>3, <1>4, <1>5, <1>6, <1>7, <1>8 DEF Next

-----------------------------------------------------------------------------
(* The transaction.                                                         *)

\* A step keeps the backup, drops it, or takes it from the imports.
LEMMA NextBackup ==
    ASSUME [Next]_vars
    PROVE  /\ backup' \in {backup, NoBackup, Registry!Opened}
           /\ committed' = (IF backup' = NoBackup THEN imports' ELSE committed)
              \/ UNCHANGED vars
           /\ backup' # NoBackup /\ backup = NoBackup => backup' = imports
<1>1. CASE UNCHANGED vars
  BY <1>1 DEF vars
<1>2. CASE Next
  <2>1. committed' = IF backup' = NoBackup THEN imports' ELSE committed
    BY <1>2 DEF Next, Remember
  <2>2. backup' \in {backup, NoBackup, Registry!Opened}
    <3>1. ASSUME NEW m \in Optional, AddImport(m) \/ RemoveImport(m)
          PROVE  backup' \in {backup, NoBackup, Registry!Opened}
      BY <3>1 DEF AddImport, RemoveImport, Registry!Change
    <3>2. CASE AddMalformed \/ Close
      BY <3>2 DEF AddMalformed, Close, Registry!Undo
    <3>3. ASSUME NEW t \in Task, Reinit(t) \/ ReinitCollides(t) \/ Catch(t)
          PROVE  backup' \in {backup, NoBackup, Registry!Opened}
      BY <3>3 DEF Reinit, Registry!Begin, ReinitCollides, Catch, Restore
    <3>4. ASSUME NEW t \in Task, Finish(t) \/ FinishRollback(t) \/ Boots(t)
          PROVE  backup' \in {backup, NoBackup, Registry!Opened}
      BY <3>4 DEF Finish, Registry!Commit, FinishRollback, Boots
    <3> QED
      BY <1>2, <3>1, <3>2, <3>3, <3>4 DEF Next
  <2> QED
    BY <2>1, <2>2 DEF Registry!Opened, Registry!IsOpen
<1> QED
  BY <1>1, <1>2

\* Through any operation the open backup remains the last commit.
LEMMA NextCommit ==
    ASSUME BackupIsCommit, [Next]_vars
    PROVE  BackupIsCommit'
<1>1. CASE UNCHANGED vars
  BY <1>1 DEF vars, BackupIsCommit
<1>2. CASE ~UNCHANGED vars
  BY <1>2, NextBackup DEF BackupIsCommit, Registry!Opened, Registry!IsOpen
<1> QED
  BY <1>1, <1>2

\* What is open is the last commit, and is what a transaction opens with.
LEMMA OpenedIsCommit == BackupIsCommit => Registry!Opened = committed
BY DEF BackupIsCommit, Registry!Opened, Registry!IsOpen

-----------------------------------------------------------------------------
(* Calls.                                                                   *)

\* A call that turns the buffer off is the last to need it, or another one that
\* is under way will turn it off.
LEMMA NextBuffered ==
    ASSUME TypeOK, BufferedOnlyInCall, [Next]_vars
    PROVE  BufferedOnlyInCall'
<1>1. ASSUME bufferLogs' = bufferLogs, call' = call PROVE BufferedOnlyInCall'
  BY <1>1 DEF BufferedOnlyInCall
<1>2. CASE UNCHANGED vars
  BY <1>1, <1>2 DEF vars
<1>3. ASSUME NEW m \in Optional, AddImport(m) \/ RemoveImport(m)
      PROVE  BufferedOnlyInCall'
  BY <1>1, <1>3 DEF AddImport, RemoveImport
<1>4. CASE AddMalformed \/ Close
  BY <1>1, <1>4 DEF AddMalformed, Close
<1>5. ASSUME NEW t \in Task, Reinit(t) PROVE BufferedOnlyInCall'
  BY <1>5, ReinitTyped DEF BufferedOnlyInCall
<1>6. ASSUME NEW t \in Task, ReinitCollides(t) \/ Catch(t) \/ Finish(t)
      PROVE  BufferedOnlyInCall'
  BY <1>6 DEF ReinitCollides, Catch, Finish, BufferedOnlyInCall
<1>7. ASSUME NEW t \in Task, FinishRollback(t) PROVE BufferedOnlyInCall'
  <2>1. bufferLogs' = bufferLogs /\ call[t].pc = "rollback"
    BY <1>7 DEF FinishRollback
  <2>2. \A u \in Task \ {t} : call'[u] = call[u]
    BY <1>7, GotoTyped DEF FinishRollback, PC
  <2> QED
    BY <2>1, <2>2 DEF BufferedOnlyInCall
<1>8. ASSUME NEW t \in Task, Boots(t) PROVE BufferedOnlyInCall'
  BY <1>1, <1>8 DEF Boots
<1> QED
  BY <1>2, <1>3, <1>4, <1>5, <1>6, <1>7, <1>8 DEF Next

\* A step of one call leaves the others where they are.
OtherCalls(t) == \A u \in Task \ {t} : call'[u] = call[u]

\* A step moves at most one call, which is either admitted or under way.
LEMMA CallSteps ==
    ASSUME TypeOK, Next
    PROVE  \/ call' = call
           \/ \E t \in Task : /\ OtherCalls(t)
                              /\ (Admitted /\ ~Running(t)) \/ Running(t)
<1>1. ASSUME NEW m \in Optional, AddImport(m) \/ RemoveImport(m)
      PROVE  call' = call
  BY <1>1 DEF AddImport, RemoveImport
<1>2. CASE AddMalformed \/ Close
  BY <1>2 DEF AddMalformed, Close
<1>3. ASSUME NEW t \in Task, Reinit(t) \/ ReinitCollides(t)
      PROVE  OtherCalls(t) /\ Admitted /\ ~Running(t)
  <2>1. CASE Reinit(t)
    BY <2>1, ReinitTyped DEF Reinit, Running, OtherCalls
  <2>2. CASE ReinitCollides(t)
    BY <2>2, RestoreTyped, OpenedTyped DEF ReinitCollides, Running, OtherCalls
  <2> QED
    BY <1>3, <2>1, <2>2
<1>4. ASSUME NEW t \in Task, Catch(t) PROVE OtherCalls(t) /\ Running(t)
  <2>1. CASE Registry!IsOpen
    BY <1>4, <2>1, RestoreTyped, OpenedTyped DEF Catch, Registry!IsOpen, Running, OtherCalls
  <2>2. CASE ~Registry!IsOpen
    BY <1>4, <2>2, GotoTyped DEF Catch, Running, OtherCalls, PC
  <2> QED
    BY <2>1, <2>2
<1>5. ASSUME NEW t \in Task, Finish(t) \/ FinishRollback(t) PROVE OtherCalls(t) /\ Running(t)
  BY <1>5, GotoTyped DEF Finish, FinishRollback, Running, OtherCalls, PC
<1>6. ASSUME NEW t \in Task, Boots(t) PROVE call' = call
  BY <1>6 DEF Boots
<1> QED
  BY <1>1, <1>2, <1>3, <1>4, <1>5, <1>6 DEF Next

\* Requests that wait for one another never overlap.
LEMMA NextOneAtATime ==
    ASSUME TypeOK, OneAtATime, [Next]_vars
    PROVE  OneAtATime'
<1>1. CASE UNCHANGED vars
  BY <1>1 DEF vars, OneAtATime, Running
<1>2. CASE Next
  <2>1. overlap' = overlap
    BY <1>2 DEF Next
  <2>2. CASE call' = call
    BY <2>1, <2>2 DEF OneAtATime, Running
  <2>3. ASSUME NEW t \in Task, OtherCalls(t), (Admitted /\ ~Running(t)) \/ Running(t)
        PROVE  OneAtATime'
    <3>1. ASSUME ~overlap, NEW u \in Task \ {t} PROVE ~Running(u)'
      BY <2>3, <3>1 DEF OtherCalls, Admitted, Quiet, OneAtATime, Running
    <3> QED
      BY <2>1, <3>1 DEF OneAtATime
  <2> QED
    BY <1>2, <2>2, <2>3, CallSteps
<1> QED
  BY <1>1, <1>2

-----------------------------------------------------------------------------
(* A run that no other disturbs.                                            *)

\* A run that has failed has nothing more to keep.
LEMMA AbortProgress ==
    ASSUME InitializerTypeOK, NEW t \in Task, Abort(t), Progress(t), imports' = imports
    PROVE  Progress(t)'
<1>1. boot[t] \in Boot /\ boot'[t] = [boot[t] EXCEPT !.stage = "failed"]
  BY AbortBoot DEF InitializerTypeOK
<1>2. boot'[t].stage = "failed" /\ boot'[t].modules = boot[t].modules
  BY <1>1 DEF Boot
<1>3. Modules(imports)' = Modules(imports)
  BY DEF Modules
<1> QED
  BY <1>2, <1>3 DEF Progress, Late

\* Each stage of an undisturbed run takes it from one point of Progress to the
\* next.
LEMMA BootStepProgress ==
    ASSUME InitializerTypeOK, InjectorsFit, NEW t \in Task, BootStep(t), Progress(t),
           imports' = imports
    PROVE  Progress(t)'
<1>1. /\ made \in Injector /\ made \in Nat /\ boot[t] \in Boot
      /\ boot[t].modules \subseteq Module /\ boot[t].todo \subseteq Module
      /\ \A i \in Injector : i \in Nat
  BY DEF InitializerTypeOK, Injector, Boot
<1>2. Modules(imports)' = Modules(imports)
  BY DEF Modules
<1>3. CASE Stage1Throws(t) \/ ModuleThrows(t) \/ Stage2Throws(t) \/ Stage3Throws(t)
  BY <1>3, AbortProgress DEF Stage1Throws, ModuleThrows, Stage2Throws, Stage3Throws
<1>4. CASE CreateModules(t)
  <2>1. store' = Stored(boot[t].modules) /\ routes' = routes
        /\ made < MaxInjector /\ made' = made + 1 /\ injectorPerApp' = made + 1
    BY <1>4 DEF CreateModules, CreateInjector
  <2>2. made + 1 \in Injector /\ \A m \in boot[t].modules : store'[m] = made + 1
    BY <1>1, <2>1, StoredType
  <2>3. PICK m \in boot[t].modules :
          /\ boot'[t].stage = "stage2" /\ boot'[t].modules = boot[t].modules
          /\ boot'[t].todo = boot[t].modules \ {m}
          /\ boot'[t].inj = [boot[t].inj EXCEPT ![m] = made + 1]
    BY <1>4, CreateModulesBoot
  <2>4. boot'[t].inj[m] = made + 1
    BY <1>1, <2>3 DEF Boot, Parents
  <2>5. Visited(t)' = {m}
    BY <2>3 DEF Visited
  <2>6. routes'[made'] = {}
    BY <1>1, <2>1, <2>2 DEF InjectorsFit
  <2> QED
    BY <1>2, <2>1, <2>2, <2>3, <2>4, <2>5, <2>6 DEF Progress, Late
<1>5. CASE Stage2(t)
  <2>1. boot[t].stage = "stage2" /\ UNCHANGED <<made, injectorPerApp, store, routes>>
    BY <1>5 DEF Stage2
  <2>2. PICK m \in boot[t].todo :
          /\ boot'[t].stage = "stage2" /\ boot'[t].modules = boot[t].modules
          /\ boot'[t].todo = boot[t].todo \ {m}
          /\ boot'[t].inj = [boot[t].inj EXCEPT ![m] = store[m]]
    BY <1>5, Stage2Boot
  <2>3. \A n \in Module : boot'[t].inj[n] = IF n = m THEN store[m] ELSE boot[t].inj[n]
    BY <1>1, <2>2 DEF Boot, Parents
  <2>4. \A n \in Visited(t)' : boot'[t].inj[n] = made
    BY <1>1, <2>1, <2>2, <2>3 DEF Visited, Progress, Late
  <2> QED
    BY <1>2, <2>1, <2>2, <2>4 DEF Progress, Late
<1>6. CASE Stage3(t)
  <2>0. ToMount(t) # {}
    BY <1>6 DEF Stage3
  <2>1. /\ UNCHANGED <<made, injectorPerApp, store>> /\ boot[t].stage \in {"stage2", "stage3"}
        /\ boot[t].stage = "stage2" => boot[t].todo = {}
    BY <1>6, <2>0 DEF Stage3, ToMount
  <2>2. Visited(t) = boot[t].modules /\ ToMount(t) \subseteq boot[t].modules
        /\ routes[made] = boot[t].modules \ ToMount(t)
    BY <2>1 DEF Visited, Progress, ToMount
  <2>3. PICK m \in ToMount(t) :
           \/ boot'[t] = [boot[t] EXCEPT !.stage = "failed"]
           \/ /\ routes' = [routes EXCEPT ![boot[t].inj[m]] = @ \union {m}]
              /\ boot'[t] = [boot[t] EXCEPT !.stage = "stage3", !.todo = ToMount(t) \ {m}]
    BY <1>6, Stage3Boot
  <2>4. CASE boot'[t] = [boot[t] EXCEPT !.stage = "failed"]
    <3>1. boot'[t].stage = "failed" /\ boot'[t].modules = boot[t].modules
      BY <1>1, <2>4 DEF Boot
    <3> QED
      BY <1>2, <3>1 DEF Progress, Late
  <2>5. CASE /\ routes' = [routes EXCEPT ![boot[t].inj[m]] = @ \union {m}]
             /\ boot'[t] = [boot[t] EXCEPT !.stage = "stage3", !.todo = ToMount(t) \ {m}]
    <3>1. boot'[t].stage = "stage3" /\ boot'[t].modules = boot[t].modules
          /\ boot'[t].inj = boot[t].inj /\ boot'[t].todo = ToMount(t) \ {m}
      BY <1>1, <2>5 DEF Boot
    <3>2. boot[t].inj[m] = made
      BY <2>1, <2>2 DEF Progress
    <3>3. routes'[made] = boot[t].modules \ (ToMount(t) \ {m})
      BY <1>1, <2>2, <2>5, <3>2 DEF InitializerTypeOK
    <3>4. Visited(t)' = Visited(t)
      BY <2>2, <3>1 DEF Visited
    <3> QED
      BY <1>2, <2>1, <2>2, <3>1, <3>3, <3>4 DEF Progress, Late
  <2> QED
    BY <2>3, <2>4, <2>5
<1>7. CASE Return(t)
  <2>1. UNCHANGED <<made, injectorPerApp, store, routes>> /\ boot[t].stage = "stage3"
        /\ boot[t].todo = {}
    BY <1>7 DEF Return
  <2>2. boot'[t].stage = "returned" /\ boot'[t].modules = boot[t].modules
        /\ boot'[t].result = injectorPerApp
    <3>1. boot[t] \in Boot
      BY <1>1 DEF InitializerTypeOK
    <3>2. boot'[t] = [boot[t] EXCEPT !.stage = "returned", !.result = injectorPerApp]
      BY <1>1, <1>7, ReturnBoot
    <3> QED
      BY <3>1, <3>2 DEF Boot
  <2> QED
    BY <1>2, <2>1, <2>2 DEF Progress, Late
<1> QED
  BY <1>3, <1>4, <1>5, <1>6, <1>7 DEF BootStep

\* A run that begins.
LEMMA BeginProgress ==
    ASSUME InitializerTypeOK, NEW t \in Task, Modules(imports') \in SUBSET Module,
           Begin(t, Modules(imports'))
    PROVE  Progress(t)'
<1>1. boot'[t].stage = "stage1" /\ boot'[t].modules = Modules(imports')
  BY BeginBoot
<1>2. Modules(imports') = Modules(imports)'
  BY DEF Modules
<1> QED
  BY <1>1, <1>2 DEF Progress, Late

\* So does the rollback, from the imports that it restores.
LEMMA RestoreProgress ==
    ASSUME TypeOK, NEW t \in Task, NEW old \in SUBSET Optional, Restore(t, old)
    PROVE  OtherCalls(t) /\ (Running(t)' => Progress(t)')
<1>1. Modules(old) \in SUBSET Module
  BY ReinitializerAssumption DEF Modules, Optional
<1>2. OtherCalls(t) /\ imports' = old
  BY RestoreTyped DEF OtherCalls
<1>3. CASE call'[t].pc = "threw"
  BY <1>2, <1>3 DEF Running
<1>4. CASE Begin(t, Modules(old))
  BY <1>1, <1>2, <1>4, BeginProgress DEF TypeOK
<1> QED
  BY <1>2, <1>3, <1>4, RestoreTyped

\* The one run that is under way is in step with the registry after every step.
LEMMA NextInStep ==
    ASSUME TypeOK, InjectorsFit, OneAtATime, InStep, [Next]_vars
    PROVE  InStep'
<1>1. CASE UNCHANGED vars
  BY <1>1 DEF vars, initVars, InStep, Progress, Running, Modules, Visited
<1>2. CASE Next
  <2> SUFFICES ASSUME ~overlap', NEW u \in Task, Running(u)' PROVE Progress(u)'
    BY DEF InStep
  <2>0. ~overlap
    BY <1>2 DEF Next
  <2>1. ASSUME Quiet, call' = call PROVE FALSE
    BY <2>1 DEF Quiet, Running
  <2>2. ASSUME NEW m \in Optional, AddImport(m) \/ RemoveImport(m)
        PROVE  FALSE
    BY <2>0, <2>1, <2>2 DEF AddImport, RemoveImport, Admitted
  <2>3. CASE AddMalformed
    BY <2>0, <2>1, <2>3 DEF AddMalformed, Admitted
  <2>4. CASE Close
    <3>1. UNCHANGED <<initVars, imports, call>>
      BY <2>4 DEF Close
    <3> QED
      BY <2>0, <3>1 DEF initVars, InStep, Progress, Running, Modules, Visited
  <2>5. ASSUME NEW t \in Task, Reinit(t) PROVE Progress(u)'
    <3>1. u = t
      BY <2>0, <2>5, ReinitTyped DEF Reinit, Admitted, Quiet, Running
    <3>2. imports' = imports /\ Modules(imports) \in SUBSET Module
      BY <2>5, ReinitializerAssumption DEF Reinit, Registry!Begin, TypeOK, Modules, Optional
    <3> QED
      BY <2>5, <3>1, <3>2, ReinitTyped, BeginProgress DEF TypeOK
  <2>6. ASSUME NEW t \in Task, NEW old \in SUBSET Optional, Restore(t, old),
               Quiet \/ Running(t)
        PROVE  Progress(u)'
    <3>1. u = t
      BY <2>0, <2>6, RestoreProgress DEF OneAtATime, Quiet, Running, OtherCalls
    <3> QED
      BY <2>6, <3>1, RestoreProgress
  <2>7. ASSUME NEW t \in Task, ReinitCollides(t) PROVE Progress(u)'
    BY <2>0, <2>6, <2>7, OpenedTyped DEF ReinitCollides, Admitted
  <2>8. ASSUME NEW t \in Task, Catch(t) PROVE Progress(u)'
    <3>1. Running(t)
      BY <2>8 DEF Catch, Running
    <3>2. CASE Registry!IsOpen
      BY <2>6, <2>8, <3>1, <3>2, OpenedTyped DEF Catch, Registry!IsOpen
    <3>3. CASE ~Registry!IsOpen
      <4>1. OtherCalls(t) /\ ~Running(t)'
        BY <2>8, <3>3, GotoTyped DEF Catch, OtherCalls, Running, PC
      <4> QED
        BY <2>0, <3>1, <4>1 DEF OneAtATime, OtherCalls, Running
    <3> QED
      BY <3>2, <3>3
  <2>9. ASSUME NEW t \in Task, Finish(t) \/ FinishRollback(t) PROVE Progress(u)'
    <3>1. Running(t) /\ OtherCalls(t) /\ ~Running(t)'
      BY <2>9, GotoTyped DEF Finish, FinishRollback, OtherCalls, Running, PC
    <3> QED
      BY <2>0, <3>1 DEF OneAtATime, OtherCalls, Running
  <2>10. ASSUME NEW t \in Task, Boots(t) PROVE Progress(u)'
    <3>1. Running(t) /\ BootStep(t) /\ imports' = imports /\ call' = call
      BY <2>10 DEF Boots
    <3>2. u = t
      BY <2>0, <3>1 DEF OneAtATime, Running
    <3> QED
      BY <2>0, <3>1, <3>2, BootStepProgress DEF InStep, TypeOK
  <2> QED
    BY <1>2, <2>2, <2>3, <2>4, <2>5, <2>7, <2>8, <2>9, <2>10 DEF Next
<1> QED
  BY <1>1, <1>2

-----------------------------------------------------------------------------
(* What requests are routed to, and what a failure finds.                   *)

\* The state after the first start satisfies the invariant.
LEMMA InitInvariant == Init => IInv
<1> SUFFICES ASSUME Init PROVE IInv
  OBVIOUS
<1>1. TypeOK
  BY InitTyped
<1>2. \A t \in Task : ~Running(t) /\ boot[t] = Idle
  BY DEF Init, Started, NoCall, Running
<1>3. InjectorsFit /\ dispatcher <= made
  <2>1. made = 1 /\ injectorPerApp = 1 /\ dispatcher = 1
    BY DEF Init, Started
  <2>2. \A m \in Module : store[m] <= made
    <3>1. SUFFICES ASSUME NEW m \in Module PROVE store[m] <= 1
      BY <2>1
    <3>2. store[m] = 1 \/ store[m] = 0
      BY DEF Init, Started, NoInjector
    <3> QED
      BY <3>2
  <2>3. \A i \in Injector : i > made => routes[i] = {}
    BY <2>1 DEF Init, Started, Injector
  <2>4. \A t \in Task : LocalsFit(t)
    BY <1>2, <2>1 DEF LocalsFit, Idle, Unset, NoInjector, Late
  <2> QED
    BY <2>1, <2>2, <2>3, <2>4 DEF InjectorsFit
<1>4. BaseIsRouted
  BY <1>1 DEF Init, Started, BaseIsRouted, TypeOK
<1>5. FailureCanRollBack
  BY DEF Init, NoCall, FailureCanRollBack
<1> QED
  BY <1>1, <1>2, <1>3, <1>4, <1>5
     DEF Init, IInv, BackupIsCommit, BufferedOnlyInCall, OneAtATime, InStep

\* No route is ever taken away.
LEMMA RoutesGrow ==
    ASSUME TypeOK, [Next]_vars
    PROVE  \A i \in Injector : routes[i] \subseteq routes'[i]
<1>1. CASE routes' = routes
  BY <1>1
<1>2. ASSUME NEW t \in Task, Boots(t)
      PROVE  \A i \in Injector : routes[i] \subseteq routes'[i]
  <2>1. CASE Stage3(t)
    BY <2>1, Stage3Boot DEF TypeOK
  <2>2. CASE ~Stage3(t)
    <3>1. routes' = routes
      BY <1>2, <2>2 DEF Boots, BootStep, Stage1Throws, ModuleThrows, CreateModules, Stage2,
                        Stage2Throws, Stage3Throws, Return
    <3> QED
      BY <3>1
  <2> QED
    BY <2>1, <2>2
<1>3. CASE UNCHANGED vars
  BY <1>1, <1>3 DEF vars, initVars
<1>4. ASSUME NEW m \in Optional, AddImport(m) \/ RemoveImport(m)
      PROVE  routes' = routes
  BY <1>4 DEF AddImport, RemoveImport, initVars
<1>5. AddMalformed \/ Close => routes' = routes
  BY DEF AddMalformed, Close, initVars
<1>6. ASSUME NEW t \in Task, Reinit(t) \/ ReinitCollides(t) \/ Catch(t)
      PROVE  routes' = routes
  BY <1>6 DEF Reinit, ReinitCollides, Catch, Restore, initVars
<1>7. ASSUME NEW t \in Task, Finish(t) \/ FinishRollback(t)
      PROVE  routes' = routes
  BY <1>7 DEF Finish, FinishRollback, initVars
<1> QED
  BY <1>1, <1>2, <1>3, <1>4, <1>5, <1>6, <1>7 DEF Next

\* Requests are routed through another injector only at the end of a run, and
\* through the injector that this run has made.
LEMMA Switches ==
    ASSUME TypeOK, [Next]_vars
    PROVE  \/ dispatcher' = dispatcher
           \/ \E t \in Task : /\ Running(t) /\ boot[t].stage = "returned"
                              /\ dispatcher' = boot[t].result /\ routes' = routes
<1>1. CASE UNCHANGED vars
  BY <1>1 DEF vars
<1>2. ASSUME NEW m \in Optional, AddImport(m) \/ RemoveImport(m)
      PROVE  dispatcher' = dispatcher
  BY <1>2 DEF AddImport, RemoveImport
<1>3. AddMalformed \/ Close => dispatcher' = dispatcher
  BY DEF AddMalformed, Close
<1>4. ASSUME NEW t \in Task, Reinit(t) \/ ReinitCollides(t) \/ Catch(t) \/ Boots(t)
      PROVE  dispatcher' = dispatcher
  BY <1>4 DEF Reinit, ReinitCollides, Catch, Boots
<1>5. ASSUME NEW t \in Task, Finish(t) \/ FinishRollback(t)
      PROVE  \/ dispatcher' = dispatcher
             \/ /\ Running(t) /\ boot[t].stage = "returned"
                /\ dispatcher' = boot[t].result /\ routes' = routes
  BY <1>5 DEF Finish, FinishRollback, Running, initVars
<1> QED
  BY <1>1, <1>2, <1>3, <1>4, <1>5 DEF Next

\* The switch to another injector and the growth of the routes keep the base
\* modules routed.
LEMMA NextRouted ==
    ASSUME TypeOK, InStep, BaseIsRouted, [Next]_vars
    PROVE  BaseIsRouted'
<1> SUFFICES ASSUME ~overlap' PROVE Base \subseteq routes'[dispatcher']
  BY DEF BaseIsRouted
<1>1. ~overlap
  BY DEF Next, vars
<1>2. CASE dispatcher' = dispatcher
  BY <1>1, <1>2, RoutesGrow DEF BaseIsRouted, TypeOK
<1>3. ASSUME NEW t \in Task, Running(t), boot[t].stage = "returned",
             dispatcher' = boot[t].result, routes' = routes
      PROVE  Base \subseteq routes'[dispatcher']
  BY <1>1, <1>3 DEF InStep, Progress, Modules
<1> QED
  BY <1>2, <1>3, Switches

\* No step of a request that waits its turn closes a transaction under a call.
LEMMA NextCanRollBack ==
    ASSUME TypeOK, OneAtATime, FailureCanRollBack, [Next]_vars
    PROVE  FailureCanRollBack'
<1> SUFFICES ASSUME NEW u \in Task, ~overlap', call'[u].pc = "main"
             PROVE  backup' # NoBackup
  BY DEF FailureCanRollBack, Registry!IsOpen
<1>1. ~overlap
  BY DEF Next, vars
<1>2. Registry!Opened # NoBackup
  BY OpenedTyped, NoBackupIsNoSet
<1>3. ASSUME call[u].pc = "main", backup' = backup PROVE backup' # NoBackup
  BY <1>1, <1>3 DEF FailureCanRollBack, Registry!IsOpen
<1>4. CASE UNCHANGED vars
  BY <1>3, <1>4 DEF vars
<1>5. ASSUME NEW m \in Optional, AddImport(m) \/ RemoveImport(m)
      PROVE  backup' # NoBackup
  BY <1>2, <1>5 DEF AddImport, RemoveImport, Registry!Change
<1>6. CASE AddMalformed
  BY <1>1, <1>6 DEF AddMalformed, Admitted, Quiet, Running
<1>7. CASE Close
  BY <1>3, <1>7 DEF Close
<1>8. ASSUME NEW t \in Task, Reinit(t) PROVE backup' # NoBackup
  BY <1>2, <1>8 DEF Reinit, Registry!Begin
<1>9. ASSUME NEW t \in Task, NEW old \in SUBSET Optional, Restore(t, old),
             Quiet \/ Running(t)
      PROVE  FALSE
  <2>1. call'[t].pc # "main" /\ OtherCalls(t)
    BY <1>9, RestoreTyped DEF OtherCalls
  <2> QED
    BY <1>1, <1>9, <2>1 DEF OneAtATime, Quiet, Running, OtherCalls
<1>10. ASSUME NEW t \in Task, ReinitCollides(t) PROVE FALSE
  BY <1>1, <1>9, <1>10, OpenedTyped DEF ReinitCollides, Admitted
<1>11. ASSUME NEW t \in Task, Catch(t) PROVE FALSE
  <2>1. Registry!IsOpen /\ Running(t)
    BY <1>1, <1>11 DEF Catch, FailureCanRollBack, Running
  <2> QED
    BY <1>9, <1>11, <2>1, OpenedTyped DEF Catch, Registry!IsOpen
<1>12. ASSUME NEW t \in Task, Finish(t) PROVE FALSE
  <2>1. call'[t].pc # "main" /\ OtherCalls(t) /\ Running(t)
    BY <1>12, GotoTyped DEF Finish, OtherCalls, Running, PC
  <2> QED
    BY <1>1, <2>1 DEF OneAtATime, OtherCalls, Running
<1>13. ASSUME NEW t \in Task, FinishRollback(t) PROVE backup' # NoBackup
  <2>1. backup' = backup /\ call'[t].pc # "main" /\ OtherCalls(t)
    BY <1>13, GotoTyped DEF FinishRollback, OtherCalls, PC
  <2> QED
    BY <1>3, <2>1 DEF OtherCalls
<1>14. ASSUME NEW t \in Task, Boots(t) PROVE backup' # NoBackup
  BY <1>3, <1>14 DEF Boots
<1> QED
  BY <1>4, <1>5, <1>6, <1>7, <1>8, <1>10, <1>11, <1>12, <1>13, <1>14 DEF Next

-----------------------------------------------------------------------------
(* The theorems.                                                            *)

\* The invariant is inductive: every step of every request keeps all its parts.
THEOREM Invariant == Spec => []IInv
<1>1. IInv /\ [Next]_vars => IInv'
  <2> SUFFICES ASSUME IInv, [Next]_vars PROVE IInv'
    OBVIOUS
  <2>1. TypeOK' /\ InjectorsFit' /\ (dispatcher <= made)'
    BY NextTyped, NextFits DEF IInv
  <2>2. BackupIsCommit' /\ BufferedOnlyInCall' /\ OneAtATime'
    BY NextCommit, NextBuffered, NextOneAtATime DEF IInv
  <2>3. InStep' /\ BaseIsRouted' /\ FailureCanRollBack'
    BY NextInStep, NextRouted, NextCanRollBack DEF IInv
  <2> QED
    BY <2>1, <2>2, <2>3 DEF IInv
<1> QED
  BY <1>1, InitInvariant, PTL DEF Spec

\* Every variable keeps its type; above all, requests are always routed through
\* an injector that a successful initialisation has returned, never through none.
THEOREM ReinitTypeCorrect == Spec => []TypeOK
<1>1. IInv => TypeOK
  BY DEF IInv
<1> QED
  BY <1>1, Invariant, PTL

\* However the runs interleave, stage2 finds the injector of each of its modules
\* in the store that all runs share.
THEOREM StagesAlwaysFindInjectors == Spec => []StagesFindInjectors
<1>1. IInv => StagesFindInjectors
  <2> SUFFICES ASSUME IInv, NEW t \in Task, boot[t].stage \in {"stage2", "stage3"},
                      NEW m \in boot[t].modules \ boot[t].todo
               PROVE  boot[t].inj[m] # NoInjector
    BY DEF StagesFindInjectors
  <2> QED
    BY DEF IInv, InjectorsFit, LocalsFit, Visited
<1> QED
  BY <1>1, Invariant, PTL

\* Log messages are never left in the buffer: it is on only while a call that
\* turns it off, in its finally block, is under way.
THEOREM BufferIsFlushed == Spec => []BufferedOnlyInCall
<1>1. IInv => BufferedOnlyInCall
  BY DEF IInv
<1> QED
  BY <1>1, Invariant, PTL

\* When requests wait for one another, the application goes on serving the
\* modules that are always imported, and whatever fails can be rolled back.
THEOREM ServiceGoesOn == Spec => [](BaseIsRouted /\ FailureCanRollBack)
<1>1. IInv => BaseIsRouted /\ FailureCanRollBack
  BY DEF IInv
<1> QED
  BY <1>1, Invariant, PTL

\* A failure leaves the imports of the last commit, in any order of requests.
THEOREM FailureIsUndone == Spec => FailureRestores
<1>1. IInv /\ [Next]_vars
        => [\A t \in Task :
              call[t].pc \in {"idle", "main"} /\ call'[t].pc \in {"rollback", "threw"}
                => imports' = committed]_vars
  <2> SUFFICES ASSUME IInv, Next, NEW u \in Task, call[u].pc \in {"idle", "main"},
                      call'[u].pc \in {"rollback", "threw"}
               PROVE  imports' = committed
    BY DEF vars
  <2>1. TypeOK /\ BackupIsCommit /\ Registry!Opened = committed
    BY OpenedIsCommit DEF IInv
  <2>2. call' # call
    OBVIOUS
  <2>3. ASSUME NEW m \in Optional, AddImport(m) \/ RemoveImport(m) PROVE FALSE
    BY <2>2, <2>3 DEF AddImport, RemoveImport
  <2>4. ~AddMalformed /\ ~Close
    BY <2>2 DEF AddMalformed, Close
  <2>5. ASSUME NEW t \in Task, Boots(t) PROVE FALSE
    BY <2>2, <2>5 DEF Boots
  <2>6. ASSUME NEW t \in Task, Reinit(t) PROVE FALSE
    BY <2>1, <2>6, ReinitTyped
  <2>7. ASSUME NEW t \in Task, ReinitCollides(t) PROVE imports' = committed
    BY <2>1, <2>7 DEF ReinitCollides, Restore
  <2>8. ASSUME NEW t \in Task, Catch(t) PROVE imports' = committed
    BY <2>1, <2>8 DEF Catch, Restore, BackupIsCommit, Registry!IsOpen
  <2>9. ASSUME NEW t \in Task, Finish(t) PROVE FALSE
    BY <2>1, <2>9, GotoTyped DEF Finish, PC
  <2>10. ASSUME NEW t \in Task, FinishRollback(t) PROVE FALSE
    BY <2>1, <2>10, GotoTyped DEF FinishRollback, PC
  <2> QED
    BY <2>3, <2>4, <2>5, <2>6, <2>7, <2>8, <2>9, <2>10 DEF Next
<1> QED
  BY <1>1, Invariant, PTL DEF Spec, FailureRestores

\* When requests wait for one another, a call that does not throw ends with the
\* requests routed to the modules of the registry and to no mixture of two runs.
THEOREM CallsEndInService == Spec => EndsInService
<1>1. IInv /\ [Next]_vars
        => [\A t \in Task :
              ~overlap /\ Running(t) /\ call'[t].pc \in {"done", "error"}
                => /\ routes'[dispatcher'] = Modules(imports')
                   /\ \A m \in Modules(imports') : store'[m] = dispatcher']_vars
  <2> SUFFICES ASSUME IInv, Next, NEW u \in Task, ~overlap, Running(u),
                      call'[u].pc \in {"done", "error"}
               PROVE  /\ routes'[dispatcher'] = Modules(imports')
                      /\ \A m \in Modules(imports') : store'[m] = dispatcher'
    BY DEF vars
  <2>1. TypeOK /\ Progress(u)
    BY DEF IInv, InStep
  <2>2. call' # call
    BY DEF Running
  <2>3. ASSUME NEW m \in Optional, AddImport(m) \/ RemoveImport(m) PROVE FALSE
    BY <2>2, <2>3 DEF AddImport, RemoveImport
  <2>4. ~AddMalformed /\ ~Close
    BY <2>2 DEF AddMalformed, Close
  <2>5. ASSUME NEW t \in Task, Boots(t) PROVE FALSE
    BY <2>2, <2>5 DEF Boots
  <2>6. ASSUME NEW t \in Task, Reinit(t) \/ ReinitCollides(t) \/ Catch(t) PROVE FALSE
    <3>1. CASE Reinit(t)
      BY <2>1, <3>1, ReinitTyped DEF Running
    <3>2. ASSUME NEW old \in SUBSET Optional, Restore(t, old) PROVE FALSE
      BY <2>1, <3>2, RestoreTyped DEF Running
    <3>3. CASE ReinitCollides(t)
      BY <2>1, <3>2, <3>3, OpenedTyped DEF ReinitCollides
    <3>4. CASE Catch(t) /\ Registry!IsOpen
      BY <2>1, <3>2, <3>4, OpenedTyped DEF Catch, Registry!IsOpen
    <3>5. CASE Catch(t) /\ ~Registry!IsOpen
      BY <2>1, <3>5, GotoTyped DEF Catch, Running, PC
    <3> QED
      BY <2>6, <3>1, <3>3, <3>4, <3>5
  <2>7. ASSUME NEW t \in Task, Finish(t) \/ FinishRollback(t)
        PROVE  /\ u = t /\ boot[u].stage = "returned" /\ dispatcher' = boot[u].result
               /\ imports' = imports /\ store' = store /\ routes' = routes
    <3>1. u = t
      BY <2>1, <2>7, GotoTyped DEF Finish, FinishRollback, Running, PC
    <3>2. FinishRollback(t) /\ call'[t].pc = "error"
            => boot[t].stage = "returned" /\ dispatcher' = boot[t].result
      BY <2>1, GotoTyped DEF FinishRollback, PC
    <3> QED
      BY <2>1, <2>7, <3>1, <3>2, GotoTyped
         DEF Finish, FinishRollback, Registry!Commit, initVars, PC
  <2>8. ASSUME boot[u].stage = "returned", dispatcher' = boot[u].result,
               imports' = imports, store' = store, routes' = routes
        PROVE  /\ routes'[dispatcher'] = Modules(imports')
               /\ \A m \in Modules(imports') : store'[m] = dispatcher'
    BY <2>1, <2>8 DEF Progress, Late
  <2> QED
    BY <2>3, <2>4, <2>5, <2>6, <2>7, <2>8 DEF Next
<1> QED
  BY <1>1, Invariant, PTL DEF Spec, EndsInService

\* A roll back undoes an open transaction; without one it leaves the imports as
\* they are, as a commit does.
LEMMA RestoreIsUndo ==
    ASSUME NEW t \in Task, Restore(t, Registry!Opened)
    PROVE  Registry!Undo \/ Registry!Commit
<1>1. imports' = Registry!Opened /\ backup' = NoBackup
  BY DEF Restore
<1> QED
  BY <1>1 DEF Registry!Undo, Registry!Commit, Registry!Opened, Registry!IsOpen

\* Whatever requests and calls of reinit() overlap, each step changes imports and
\* their backup as the transaction of the registry does, or leaves both alone: a
\* change, a begin, an undo or a commit.
THEOREM KeepsToTransaction == Spec => [][Registry!Next]_<<imports, backup>>
<1>1. TypeOK' /\ [Next]_vars => [Registry!Next]_<<imports, backup>>
  <2> SUFFICES ASSUME TypeOK', Next PROVE [Registry!Next]_<<imports, backup>>
    BY DEF vars
  <2>1. ASSUME NEW m \in Optional, AddImport(m) \/ RemoveImport(m) PROVE Registry!Next
    <3>1. imports' \in SUBSET Optional
      BY DEF TypeOK
    <3> QED
      BY <2>1, <3>1 DEF AddImport, RemoveImport, Registry!Change, Registry!Next
  <2>2. CASE AddMalformed
    BY <2>2 DEF AddMalformed, Registry!Next
  <2>3. ASSUME NEW t \in Task, Reinit(t) PROVE Registry!Next
    BY <2>3 DEF Reinit, Registry!Next
  <2>4. ASSUME NEW t \in Task, ReinitCollides(t) PROVE Registry!Next
    BY <2>4, RestoreIsUndo DEF ReinitCollides, Registry!Next
  <2>5. ASSUME NEW t \in Task, Catch(t) PROVE [Registry!Next]_<<imports, backup>>
    <3>1. CASE Registry!IsOpen
      <4>1. Restore(t, Registry!Opened)
        BY <2>5, <3>1 DEF Catch, Registry!Opened
      <4> QED
        BY <4>1, RestoreIsUndo DEF Registry!Next
    <3>2. CASE ~Registry!IsOpen
      BY <2>5, <3>2 DEF Catch
    <3> QED
      BY <3>1, <3>2
  <2>6. ASSUME NEW t \in Task, Finish(t) PROVE [Registry!Next]_<<imports, backup>>
    BY <2>6 DEF Finish, Registry!Next
  <2>7. CASE Close \/ \E t \in Task : Boots(t) \/ FinishRollback(t)
    BY <2>7 DEF Close, Boots, FinishRollback
  <2> QED
    BY <2>1, <2>2, <2>3, <2>4, <2>5, <2>6, <2>7 DEF Next
<1> QED
  BY <1>1, ReinitTypeCorrect, PTL DEF Spec
=============================================================================
