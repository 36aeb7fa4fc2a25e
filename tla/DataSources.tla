------------------------------ MODULE DataSources -----------------------------
(***************************************************************************)
(* packages/typeorm/src: TypeormExtension, which opens the data sources    *)
(* that TypeormModule.forRoot() and forRootAsync() ask for, with retries,  *)
(* when it is called in the last module, and DataSourceManager, which      *)
(* closes them.  An initialisation of the application, the first one or    *)
(* that of a reinit(), is a generation; the objects { token, useValue }    *)
(* of the tokens are shared by all of them.  Initialisations that overlap  *)
(* are AppReinitializer's matter.  DataSource is TypeORM's: its            *)
(* initialize() and destroy() take their time and succeed or fail.         *)
(***************************************************************************)
EXTENDS Sequences, FiniteSets, Naturals

CONSTANTS
    Name,           \* names of data sources
    OptionLists,    \* what TYPEORM_OPTIONS, or else TYPEORM_ASYNC_OPTIONS, can
                    \* be: sequences of [name, opens], where a data source
                    \* opens "here", in its "factory" or, by other code, "later"
    RetryAttempts,
    MaxGeneration,  \* bound: how often the application is initialised
    MaxSource       \* bound: how many data sources a reinit() may lead to

ASSUME DataSourcesAssumption ==
    /\ RetryAttempts \in Nat /\ MaxGeneration \in Nat \ {0} /\ MaxSource \in Nat
    /\ OptionLists \subseteq
          Seq([name : Name, opens : {"here", "factory", "later"}])

VARIABLES
    options,    \* the list of one initialisation (constant)
    copies,     \* how often it is in providersPerApp, and was in the backup
    boot,       \* the initialisation: its generation, step, place in the list
                \* and number of the attempt
    status,     \* of each data source: the i-th one of a generation
    provided,   \* useValue of the tokens
    injected,   \* what the injector of each generation provides for them
    managed     \* dataSources of the DataSourceManager of each generation

dataVars == <<options, copies, boot, status, provided, injected, managed>>

Generation == 1..MaxGeneration
Source == Generation \X (1..MaxSource)
NoSource == <<0, 0>>

DataTypeOK ==
    /\ options \in OptionLists
    /\ copies.now \in Generation /\ copies.backup \in 0..MaxGeneration
    /\ boot.gen \in Generation /\ boot.attempt \in 0..RetryAttempts
    /\ boot.step \in {"next", "opening", "waiting", "done", "failed"}
    /\ status \in [Source -> {"none", "created", "open", "closing", "closed", "stuck"}]
    /\ provided \in [Name -> Source \union {NoSource}]
    /\ injected \in [Generation -> [Name -> Source \union {NoSource}]]
    /\ managed \in [Generation -> SUBSET Source]

DataInit ==
    /\ options \in OptionLists
    /\ copies = [now |-> 1, backup |-> 0]
    /\ boot = [gen |-> 1, step |-> "next", at |-> 1, attempt |-> 0]
    /\ status = [d \in Source |-> "none"]
    /\ provided = [n \in Name |-> NoSource]
    /\ injected = [g \in Generation |-> provided]
    /\ managed = [g \in Generation |-> {}]

-----------------------------------------------------------------------------
(* Multi providers are put in front of the list that the generation before  *)
(* has left: each is there once more.                                       *)
Length == copies.now * Len(options)
OptionAt(i) == options[((i - 1) % Len(options)) + 1]
Current == <<boot.gen, boot.at>>
Option == OptionAt(boot.at)

(* An error that stage1 does not catch.                                     *)
Throw == boot' = [boot EXCEPT !.step = "failed"]

(* The end of initDataSource.                                               *)
Register ==
    /\ provided' = [provided EXCEPT ![Option.name] = Current]
    /\ boot' = [boot EXCEPT !.step = "next", !.at = @ + 1, !.attempt = 0]

(* resolveAsyncOptions and createDataSource, which call code of the user.   *)
CreateDataSource ==
    /\ boot.step = "next" /\ boot.at <= Length
    /\ \/ Throw /\ UNCHANGED <<status, provided>>
       \/ /\ status' = [status EXCEPT ![Current] =
                           IF Option.opens = "factory" THEN "open" ELSE "created"]
          /\ IF Option.opens = "here"
             THEN boot' = [boot EXCEPT !.step = "opening"] /\ UNCHANGED provided
             ELSE Register
    /\ UNCHANGED <<options, copies, injected, managed>>

(* `await dataSource.initialize()` is over; toRetry decides about errors.   *)
Initialized ==
    /\ boot.step = "opening"
    /\ status' = [status EXCEPT ![Current] = "open"]
    /\ Register
    /\ UNCHANGED <<options, copies, injected, managed>>

\* A mistake: the attempts are counted anew.
NotInitializedAnew(toRetry) ==
    /\ boot.step = "opening"
    /\ IF toRetry THEN boot' = [boot EXCEPT !.step = "waiting"] ELSE Throw
    /\ UNCHANGED <<options, copies, status, provided, injected, managed>>

NotInitialized(toRetry) ==
    /\ boot.step = "opening"
    /\ IF toRetry /\ boot.attempt < RetryAttempts
       THEN boot' = [boot EXCEPT !.step = "waiting", !.attempt = @ + 1]
       ELSE Throw
    /\ UNCHANGED <<options, copies, status, provided, injected, managed>>

(* The timer of retryDelay.                                                 *)
RetryTimer ==
    /\ boot.step = "waiting"
    /\ boot' = [boot EXCEPT !.step = "opening"]
    /\ UNCHANGED <<options, copies, status, provided, injected, managed>>

\* A mistake: stage2 registers what is open only.
RegisterOpen ==
    /\ boot.step = "next" /\ boot.at > Length
    /\ boot' = [boot EXCEPT !.step = "done"]
    /\ injected' = [injected EXCEPT ![boot.gen] = provided]
    /\ managed' = [managed EXCEPT ![boot.gen] =
          {d \in {provided[n] : n \in Name} \ {NoSource} : status[d] = "open"}]
    /\ UNCHANGED <<options, copies, status, provided>>

(* The injector of the generation is created, with what the tokens provide  *)
(* now, and stage2 registers that with the manager of that injector.        *)
RegisterAll ==
    /\ boot.step = "next" /\ boot.at > Length
    /\ boot' = [boot EXCEPT !.step = "done"]
    /\ injected' = [injected EXCEPT ![boot.gen] = provided]
    /\ managed' = [managed EXCEPT ![boot.gen] = {provided[n] : n \in Name} \ {NoSource}]
    /\ UNCHANGED <<options, copies, status, provided>>

Boots ==
    \/ CreateDataSource
    \/ Initialized
    \/ \E toRetry \in BOOLEAN : NotInitialized(toRetry)
    \/ RetryTimer
    \/ RegisterAll

-----------------------------------------------------------------------------
(* Another generation, on the list as it is or as the backup has it.        *)
Begin(list) ==
    /\ boot.gen < MaxGeneration
    /\ Cardinality({d \in Source : status[d] # "none"}) + (list + 1) * Len(options)
          <= MaxSource
    /\ boot' = [gen |-> boot.gen + 1, step |-> "next", at |-> 1, attempt |-> 0]
    /\ copies' = [now |-> list + 1, backup |-> list]
    /\ UNCHANGED <<options, status, provided, injected, managed>>

Reinit == boot.step = "done" /\ Begin(copies.now)

(* handleReinitError; an error in the generation it starts is thrown.       *)
RollBack == boot.step = "failed" /\ copies.backup # 0 /\ Begin(copies.backup)

(* Code of the application initializes a data source it has been given.     *)
InitializeLater(d) ==
    /\ status[d] = "created"
    /\ \E g \in {1, boot.gen}, n \in Name : injected[g][n] = d
    /\ OptionAt(d[2]).opens = "later"
    /\ status' = [status EXCEPT ![d] = "open"]
    /\ UNCHANGED <<options, copies, boot, provided, injected, managed>>

-----------------------------------------------------------------------------
(* onShutdown of one manager, up to its await; nobody asks the manager for  *)
(* the data sources that it forgets after it.                               *)
OnShutdown(g) ==
    /\ status' = [d \in Source |-> IF d \in managed[g] /\ status[d] = "open"
                                   THEN "closing" ELSE status[d]]
    /\ UNCHANGED <<options, copies, boot, provided, injected, managed>>

(* destroy() is over; what it throws is logged.                             *)
Destroyed(d) ==
    /\ status[d] = "closing"
    /\ \E to \in {"closed", "stuck"} : status' = [status EXCEPT ![d] = to]
    /\ UNCHANGED <<options, copies, boot, provided, injected, managed>>

Destroying == \E d \in Source : status[d] = "closing"
=============================================================================
