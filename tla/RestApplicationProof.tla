------------------------- MODULE RestApplicationProof ------------------------
(***************************************************************************)
(* Proofs about the lifecycle of an application, with and without data     *)
(* sources, for any number of jobs, services, connections and calls of     *)
(* close().                                                                *)
(***************************************************************************)
EXTENDS TypeormApplication, TLAPS

-----------------------------------------------------------------------------
(* The jobs.  No delay is running once the application is being closed, and  *)
(* nothing mounts jobs any more.                                             *)
JobsInv ==
    /\ RunningIsRegistered
    /\ isShuttingDown =>
         /\ process # "starting"
         /\ delays = {}
         /\ ticking \intersect Declared \subseteq ghosts

(* close().  Types, and what is so before anything is closed.                *)
AppTypes ==
    /\ process \in {"starting", "running", "failed", "exited", "killed"}
    /\ created \subseteq Service
    /\ call \in [Caller -> [pc : {"idle", "done"} \union Closing, signal : BOOLEAN,
                            all : SUBSET Service, hooks : SUBSET Service]]
    /\ isShuttingDown \in BOOLEAN /\ listeners \in BOOLEAN
    /\ runs \in [Service -> [before : Nat, on : Nat]]
    /\ server \in {"unopened", "open", "closing", "closed"}
    /\ conn \in [Connection -> {"none", "idle", "busy"}]
    /\ timer \in BOOLEAN /\ forcible \in BOOLEAN

NotYet ==
    ~isShuttingDown =>
        /\ \A c \in Caller : call[c].pc = "idle"
        /\ \A s \in Service : runs[s].before = 0 /\ runs[s].on = 0
        /\ server \in {"unopened", "open"}

\* One call closes the application, and how far it is says where server and hooks
\* are.
OneCloses ==
    \A c, d \in Caller : call[c].pc \in Closing /\ call[d].pc \in Closing => c = d

AskedBy(c) ==
    \A s \in Service :
        /\ runs[s].on = 0
        /\ runs[s].before = IF s \in call[c].all THEN Times(s) ELSE 0
StageFits(c) ==
    /\ call[c].pc \in {"before", "drain"} => AskedBy(c)
    /\ call[c].pc = "before" => server \in {"unopened", "open"}
    /\ call[c].pc = "drain" => server \in {"unopened", "closing"}
    /\ call[c].pc = "on" => server \in {"unopened", "closed"}

NoClients == \A n \in Connection : conn[n] = "none"

CloseInv ==
    /\ AppTypes
    /\ NotYet
    /\ OneCloses
    /\ \A c \in Caller : StageFits(c)
    /\ server \in {"unopened", "closed"} => NoClients
    /\ ShutdownInOrder

-----------------------------------------------------------------------------
(* Steps of RestApplication.                                                *)

\* No job runs before one has been declared.
LEMMA InitJobs == Init => JobsInv
BY DEF Init, SchedulerInit, JobsInv, RunningIsRegistered

\* What touches neither the jobs nor the shutdown keeps the invariant.
JobsFrame ==
    /\ UNCHANGED <<schedulerVars, isShuttingDown>>
    /\ process' \in {process, "failed", "running", "killed", "exited"}

\* Such a step keeps what is known of the jobs.
LEMMA FrameKeepsJobs == JobsInv /\ JobsFrame => JobsInv'
BY DEF JobsInv, RunningIsRegistered, JobsFrame, schedulerVars

\* Declaring, mounting, adding, deleting and firing jobs keep it, and close() makes it
\* what it is after the hook of the scheduler.
LEMMA NextKeepsJobs == JobsInv /\ Next => JobsInv'
<1> SUFFICES ASSUME JobsInv, Next PROVE JobsInv'
  OBVIOUS
<1> USE DEF JobsInv, RunningIsRegistered
<1>1. CASE \E j \in Declared : Declare(j)
  BY <1>1 DEF Declare, AddPending, appVars
<1>2. CASE Mount
  BY <1>2 DEF Mount, MountJobs, appVars, schedulerVars
<1>3. CASE Reschedule
  BY <1>3 DEF Reschedule, AddJob, DeleteJob, appVars
<1>4. CASE Tick
  BY <1>4 DEF Tick, TimeoutFires, DelayFires, appVars
<1>5. CASE \E c \in Caller : Close(c, FALSE) \/ Close(c, TRUE)
  BY <1>5 DEF Close, BeforeShutdown
<1>6. CASE JobsFrame
  BY <1>6, FrameKeepsJobs
<1> QED
  BY <1>1, <1>2, <1>3, <1>4, <1>5, <1>6
     DEF JobsFrame,
         Next, ApplicationCode, Lifecycle, StartFails, Start, EnableShutdownHooks, Listen,
         Client, Instantiate, CloseAgain, Signal, Kill, Closes, Settle, Drain, TimerFires,
         Drained, Finish

\* Each service is held under one token at least.
LEMMA TimesIsNat == \A s : Times(s) \in Nat /\ Times(s) > 0
BY DEF Times

\* Nothing has been asked to stop before anything has started.
LEMMA InitClose == Init => CloseInv
<1> SUFFICES ASSUME Init PROVE CloseInv
  OBVIOUS
<1>1. /\ process = "starting" /\ created = {} /\ call = [c \in Caller |-> NoCall]
      /\ isShuttingDown = FALSE /\ listeners = FALSE /\ server = "unopened"
      /\ runs = [s \in Service |-> [before |-> 0, on |-> 0]]
      /\ conn = [n \in Connection |-> "none"] /\ timer = FALSE /\ forcible \in BOOLEAN
  BY DEF Init
<1>2. NoCall \in [pc : {"idle", "done"} \union Closing, signal : BOOLEAN,
                 all : SUBSET Service, hooks : SUBSET Service]
  BY DEF NoCall
<1>3. AppTypes
  BY <1>1, <1>2 DEF AppTypes
<1>4. \A c \in Caller : call[c].pc = "idle"
  BY <1>1 DEF NoCall
<1>5. NotYet /\ OneCloses /\ (\A c \in Caller : StageFits(c)) /\ NoClients
  BY <1>1, <1>4 DEF NotYet, OneCloses, StageFits, NoClients, Closing
<1>6. ShutdownInOrder
  BY <1>1, TimesIsNat DEF ShutdownInOrder
<1> QED
  BY <1>3, <1>5, <1>6 DEF CloseInv

\* Nor does what touches neither a call of close() nor the server.
CloseFrame ==
    /\ UNCHANGED <<call, isShuttingDown, runs, server, conn, timer, forcible>>
    /\ process' \in {process, "failed", "running", "killed"}
    /\ created' \subseteq Service /\ listeners' \in BOOLEAN

\* Such a step keeps what is known of close().
LEMMA FrameKeepsClose == CloseInv /\ CloseFrame => CloseInv'
BY DEF CloseInv, CloseFrame, AppTypes, NotYet, OneCloses, StageFits, AskedBy, NoClients,
       ShutdownInOrder

\* Each part of close(), each signal and each step of a client keeps it.
LEMMA NextKeepsClose == CloseInv /\ Next => CloseInv'
<1> SUFFICES ASSUME CloseInv, Next PROVE CloseInv'
  OBVIOUS
<1> USE DEF CloseInv
<1>1. CASE CloseFrame
  BY <1>1, FrameKeepsClose
<1>2. CASE Listen
  BY <1>2 DEF Listen, AppTypes, NotYet, OneCloses, StageFits, AskedBy, NoClients,
              ShutdownInOrder, Closing
<1>3. CASE \E n \in Connection : Client(n)
  BY <1>3 DEF Client, AppTypes, NotYet, OneCloses, StageFits, AskedBy, NoClients,
              ShutdownInOrder, Closing
<1>4. ASSUME NEW c \in Caller, NEW signal \in BOOLEAN, Close(c, signal) PROVE CloseInv'
  <2>1. /\ ~isShuttingDown /\ isShuttingDown' /\ listeners' = FALSE
        /\ call' = [call EXCEPT ![c] = [pc |-> "before", signal |-> signal,
                                       all |-> created, hooks |-> created]]
        /\ runs' = Counted("before", created)
        /\ UNCHANGED <<process, created, server, conn, timer, forcible>>
    BY <1>4 DEF Close
  <2>2. [pc |-> "before", signal |-> signal, all |-> created, hooks |-> created] \in
            [pc : {"idle", "done"} \union Closing, signal : BOOLEAN,
             all : SUBSET Service, hooks : SUBSET Service]
    BY DEF AppTypes, Closing
  <2>3. \A s \in Service : /\ runs'[s] \in [before : Nat, on : Nat]
                           /\ runs'[s].on = 0
                           /\ runs'[s].before = IF s \in created THEN Times(s) ELSE 0
    BY <2>1, TimesIsNat DEF Counted, NotYet, AppTypes
  <2>4. runs' \in [Service -> [before : Nat, on : Nat]]
    BY <2>1, <2>3 DEF Counted
  <2>5. AppTypes'
    BY <2>1, <2>2, <2>4 DEF AppTypes
  <2>6. /\ call'[c].pc = "before" /\ call'[c].all = created
        /\ \A d \in Caller \ {c} : call'[d].pc = "idle"
    BY <2>1 DEF AppTypes, NotYet
  <2>7. (NotYet /\ OneCloses /\ \A d \in Caller : StageFits(d))'
    BY <2>1, <2>3, <2>6 DEF NotYet, OneCloses, StageFits, AskedBy, Closing
  <2>8. (server \in {"unopened", "closed"} => NoClients)'
    BY <2>1 DEF NoClients
  <2>9. ShutdownInOrder'
    BY <2>1, <2>3, TimesIsNat DEF ShutdownInOrder, NotYet
  <2> QED
    BY <2>5, <2>7, <2>8, <2>9 DEF CloseInv
<1>5. CASE \E c \in Caller : CloseAgain(c)
  BY <1>5 DEF CloseAgain, AppTypes, NotYet, OneCloses, StageFits, AskedBy, NoClients,
              ShutdownInOrder, Closing
<1>6. CASE \E c \in Caller : Settle(c)
  BY <1>6 DEF Settle, AppTypes, NotYet, OneCloses, StageFits, AskedBy, NoClients,
              ShutdownInOrder, Closing
<1>7. CASE \E c \in Caller : Drain(c)
  BY <1>7 DEF Drain, AppTypes, NotYet, OneCloses, StageFits, AskedBy, NoClients,
              ShutdownInOrder, Closing
<1>8. ASSUME NEW c \in Caller, Drained(c) PROVE CloseInv'
  <2>1. /\ call[c].pc = "drain"
        /\ server = "closing" => NoClients
        /\ server' = IF server = "closing" THEN "closed" ELSE server
        /\ timer' = FALSE
        /\ runs' = Counted("on", call[c].all)
        /\ call' = [call EXCEPT ![c].pc = "on", ![c].hooks = call[c].all]
        /\ UNCHANGED <<process, created, isShuttingDown, listeners, conn, forcible>>
    BY <1>8 DEF Drained, NoClients
  <2>2. server \in {"unopened", "closing"} /\ AskedBy(c)
    BY <2>1 DEF StageFits
  <2>3. server' \in {"unopened", "closed"} /\ NoClients /\ NoClients'
    BY <2>1, <2>2 DEF NoClients
  <2>4. \A s \in Service : /\ runs'[s] \in [before : Nat, on : Nat]
                           /\ runs'[s].before \in {0, Times(s)}
                           /\ runs'[s].on = runs'[s].before
    BY <2>1, <2>2, TimesIsNat DEF Counted, AskedBy, AppTypes
  <2>5. runs' \in [Service -> [before : Nat, on : Nat]]
    BY <2>1, <2>4 DEF Counted
  <2>6. call' \in [Caller -> [pc : {"idle", "done"} \union Closing, signal : BOOLEAN,
                             all : SUBSET Service, hooks : SUBSET Service]]
    <3> DEFINE on == [call[c] EXCEPT !.pc = "on", !.hooks = call[c].all]
    <3>0. call[c] \in [pc : {"idle", "done"} \union Closing, signal : BOOLEAN,
                       all : SUBSET Service, hooks : SUBSET Service]
      BY DEF AppTypes
    <3>1. on \in [pc : {"idle", "done"} \union Closing, signal : BOOLEAN,
                 all : SUBSET Service, hooks : SUBSET Service]
      BY <3>0 DEF Closing
    <3>2. call' = [call EXCEPT ![c] = on]
      BY <2>1
    <3> QED
      BY <3>1, <3>2 DEF AppTypes
  <2>7. AppTypes'
    BY <2>1, <2>3, <2>5, <2>6 DEF AppTypes
  <2>8. call'[c].pc = "on" /\ \A d \in Caller \ {c} : call'[d] = call[d]
    BY <2>1 DEF AppTypes
  <2>9. isShuttingDown'
    BY <2>1 DEF NotYet
  <2>10. \A d \in Caller \ {c} : call[d].pc \notin Closing
    BY <2>1 DEF OneCloses, Closing
  <2>11. (NotYet /\ OneCloses /\ \A d \in Caller : StageFits(d))'
    BY <2>3, <2>8, <2>9, <2>10 DEF NotYet, OneCloses, StageFits, Closing
  <2>12. ShutdownInOrder'
    BY <2>3, <2>4, <2>8, TimesIsNat DEF ShutdownInOrder, NoClients
  <2> QED
    BY <2>3, <2>7, <2>11, <2>12 DEF CloseInv
<1>9. CASE \E c \in Caller : Finish(c)
  BY <1>9 DEF Finish, AppTypes, NotYet, OneCloses, StageFits, AskedBy, NoClients,
              ShutdownInOrder, Closing
<1>10. CASE TimerFires
  BY <1>10 DEF TimerFires, AppTypes, NotYet, OneCloses, StageFits, AskedBy, NoClients,
              ShutdownInOrder, Closing
<1>11. AppTypes
  OBVIOUS
<1> QED
  BY <1>1, <1>2, <1>3, <1>4, <1>5, <1>6, <1>7, <1>8, <1>9, <1>10, <1>11
     DEF CloseFrame, Next, ApplicationCode, Lifecycle, Declare, StartFails, Instantiate, Reschedule,
         Tick, Mount, Start, EnableShutdownHooks, Signal, Kill, Closes, appVars, AppTypes
-----------------------------------------------------------------------------
(* Steps of TypeormApplication, which are such steps or frames.             *)

\* Beside the data sources an application makes the steps it makes without.
LEMMA AppStep == AppNext => Next \/ Bootstrap \/ UNCHANGED vars
BY DEF AppNext, WithoutDataSources, WithDataSources, Next, Reinitialize, UserInitializes,
       DestroySettles

\* Opening data sources touches neither jobs nor close() ...
LEMMA BootstrapIsFrame ==
    ASSUME Bootstrap, created \subseteq Service, listeners \in BOOLEAN
    PROVE  JobsFrame /\ CloseFrame
BY ManagerAssumption DEF Bootstrap, JobsFrame, CloseFrame

\* ... and nor do reinit(), other code and the destruction of data sources.
LEMMA StutterIsFrame ==
    ASSUME UNCHANGED vars, created \subseteq Service, listeners \in BOOLEAN
    PROVE  JobsFrame /\ CloseFrame
BY DEF vars, appVars, JobsFrame, CloseFrame

\* What holds of jobs and of close() together is inductive for the application
\* with data sources.
LEMMA AppInvariant == AppSpec => [](JobsInv /\ CloseInv)
<1>1. AppInit => JobsInv /\ CloseInv
  BY InitJobs, InitClose DEF AppInit
<1>2. JobsInv /\ CloseInv /\ [AppNext]_allVars => (JobsInv /\ CloseInv)'
  <2> SUFFICES ASSUME JobsInv, CloseInv, [AppNext]_allVars PROVE (JobsInv /\ CloseInv)'
    OBVIOUS
  <2>1. created \subseteq Service /\ listeners \in BOOLEAN
    BY DEF CloseInv, AppTypes
  <2>2. Next \/ Bootstrap \/ UNCHANGED vars
    BY AppStep DEF allVars
  <2>3. CASE Next
    BY <2>3, NextKeepsJobs, NextKeepsClose
  <2>4. CASE Bootstrap \/ UNCHANGED vars
    BY <2>1, <2>4, BootstrapIsFrame, StutterIsFrame, FrameKeepsJobs, FrameKeepsClose
  <2> QED
    BY <2>2, <2>3, <2>4
<1> QED
  BY <1>1, <1>2, PTL DEF AppSpec

\* A job is called only as long as it is registered, and one that decorators
\* declare only until close() is called: the scheduler's hook stops what is in
\* the registry and clears the delays, and nothing declares jobs after it.
THEOREM JobsStop == AppSpec => []JobsRunWhileRegistered
<1>1. JobsInv => JobsRunWhileRegistered
  BY DEF JobsInv, JobsRunWhileRegistered, DeclaredStopAtShutdown
<1> QED
  BY <1>1, AppInvariant, PTL

\* However many signals, calls of close() and clients there are, what handlers
\* use is closed after the server and its connections, and each service is asked
\* to stop, and to shut down, once for each token it is held under.
THEOREM CloseInOrder == AppSpec => []ShutdownInOrder
<1>1. CloseInv => ShutdownInOrder
  BY DEF CloseInv
<1> QED
  BY <1>1, AppInvariant, PTL

-----------------------------------------------------------------------------
(* The data sources of the first generation.                                *)

\* No later option has the name of the i-th.
LastOfItsName(i) ==
    \A j \in (i + 1)..Len(options) : options[j].name # options[i].name

\* The token of the name of each option before `upto` holds the data source of
\* the last such option.
ProvidedUpTo(upto) ==
    \A i \in 1..(upto - 1) : \E j \in i..(upto - 1) :
        options[j].name = options[i].name /\ provided[options[i].name] = <<1, j>>

\* The first initialisation is over.
Booted == boot.gen > 1 \/ boot.step = "done"

BootTypes ==
    /\ options \in OptionLists
    /\ boot \in [gen : Generation, step : {"next", "opening", "waiting", "done", "failed"},
                 at : Nat \ {0}, attempt : Nat]
    /\ status \in [Source -> {"none", "created", "open", "closing", "closed", "stuck"}]
    /\ provided \in [Name -> Nat \X Nat]
    /\ DOMAIN managed = Generation

DataInv ==
    /\ BootTypes
    /\ boot.gen = 1 =>
          /\ copies.now = 1 /\ copies.backup = 0
          /\ boot.at <= Len(options) + 1
          /\ boot.step \in {"opening", "waiting"} => boot.at <= Len(options)
          /\ ProvidedUpTo(boot.at)
    /\ \A d \in Source : d[1] = 1 /\ status[d] # "none" => d[2] <= Len(options)
    /\ Booted => \A i \in 1..Len(options) : LastOfItsName(i) => <<1, i>> \in managed[1]

\* An option of the list.
LEMMA OptionTypes ==
    ASSUME options \in OptionLists
    PROVE  /\ Len(options) \in Nat
           /\ \A i \in 1..Len(options) : options[i].name \in Name
<1> DEFINE Item == [name : Name, opens : {"here", "factory", "later"}]
<1>1. options \in Seq(Item)
  BY DataSourcesAssumption
<1>2. \A x \in Item : x.name \in Name
  OBVIOUS
<1> HIDE DEF Item
<1>3. Len(options) \in Nat /\ \A i \in 1..Len(options) : options[i] \in Item
  BY <1>1
<1> QED
  BY <1>2, <1>3

\* In one copy of the list the i-th option is the one at i.
LEMMA OptionOfCopy ==
    ASSUME options \in OptionLists, NEW i \in 1..Len(options)
    PROVE  OptionAt(i) = options[i]
<1>1. Len(options) \in Nat
  BY OptionTypes
<1>2. (i - 1) % Len(options) = i - 1
  BY <1>1
<1>3. ((i - 1) % Len(options)) + 1 = i
  BY <1>1, <1>2
<1> QED
  BY <1>3 DEF OptionAt

\* The first initialisation starts with nothing provided.
LEMMA InitData == DataInit => DataInv
<1> SUFFICES ASSUME DataInit PROVE DataInv
  OBVIOUS
<1>1. Len(options) \in Nat /\ 1 \in Generation
  BY DataSourcesAssumption, OptionTypes DEF DataInit, Generation
<1>2. BootTypes
  BY <1>1 DEF DataInit, BootTypes, NoSource
<1>3. boot.gen = 1 /\ boot.at = 1 /\ boot.step = "next"
      /\ copies.now = 1 /\ copies.backup = 0
      /\ \A d \in Source : status[d] = "none"
  BY DEF DataInit
<1> QED
  BY <1>1, <1>2, <1>3 DEF DataInv, Booted, ProvidedUpTo

\* initDataSource puts a data source in the place of the last of that name.
LEMMA RegisterProvides ==
    ASSUME DataInv, boot.gen = 1, boot.at <= Len(options), Register,
           options' = options
    PROVE  /\ boot'.at <= Len(options) + 1
           /\ ProvidedUpTo(boot.at)'
<1>1. boot.at \in 1..Len(options) /\ Len(options) \in Nat /\ boot.at \in Nat
  BY OptionTypes DEF DataInv, BootTypes
<1>2. boot'.at = boot.at + 1
  BY DEF Register, DataInv, BootTypes
<1>3. Option = options[boot.at] /\ options[boot.at].name \in Name
  BY <1>1, OptionOfCopy, OptionTypes DEF Option, DataInv, BootTypes
<1>4. provided' = [provided EXCEPT ![options[boot.at].name] = <<1, boot.at>>]
  BY <1>3 DEF Register, Current
<1>5. ASSUME NEW i \in 1..boot.at
      PROVE  \E j \in i..boot.at :
                options[j].name = options[i].name /\ provided'[options[i].name] = <<1, j>>
  <2>1. options[i].name \in Name
    BY <1>1, OptionTypes DEF DataInv, BootTypes
  <2>2. CASE options[i].name = options[boot.at].name
    <3>1. provided'[options[i].name] = <<1, boot.at>>
      BY <1>3, <1>4, <2>2 DEF DataInv, BootTypes
    <3>2. boot.at \in i..boot.at
      BY <1>1
    <3> QED
      BY <2>2, <3>1, <3>2
  <2>3. CASE options[i].name # options[boot.at].name
    <3>1. i \in 1..(boot.at - 1)
      BY <1>1, <2>3
    <3>2. PICK j \in i..(boot.at - 1) :
                options[j].name = options[i].name /\ provided[options[i].name] = <<1, j>>
      BY <3>1 DEF DataInv, ProvidedUpTo
    <3>3. provided'[options[i].name] = <<1, j>>
      BY <1>4, <2>1, <2>3, <3>2 DEF DataInv, BootTypes
    <3> QED
      BY <1>1, <3>2, <3>3
  <2> QED
    BY <2>2, <2>3
<1>6. boot'.at - 1 = boot.at /\ boot'.at <= Len(options) + 1
  BY <1>1, <1>2
<1>7. ProvidedUpTo(boot.at)'
  BY <1>5, <1>6 DEF ProvidedUpTo
<1> QED
  BY <1>6, <1>7

\* The status of the current data source changes: in the first generation it
\* belongs to an option of the list.
LEMMA StatusOfCurrent ==
    ASSUME DataInv, options' = options, boot.gen = 1 => boot.at <= Len(options),
           NEW to \in {"created", "open"}, status' = [status EXCEPT ![Current] = to]
    PROVE  /\ status' \in [Source -> {"none", "created", "open", "closing", "closed", "stuck"}]
           /\ \A d \in Source : d[1] = 1 /\ status'[d] # "none" => d[2] <= Len(options)
<1>1. status' \in [Source -> {"none", "created", "open", "closing", "closed", "stuck"}]
  BY DEF DataInv, BootTypes
<1>2. ASSUME NEW d \in Source, d[1] = 1, status'[d] # "none" PROVE d[2] <= Len(options)
  <2>1. CASE d = Current
    BY <1>2, <2>1 DEF Current
  <2>2. CASE d # Current
    BY <1>2, <2>2 DEF DataInv, BootTypes
  <2> QED
    BY <2>1, <2>2
<1> QED
  BY <1>1, <1>2

\* An initialisation that goes on leaves the managers alone, and is not over.
GoesOn ==
    /\ UNCHANGED <<options, copies, managed>>
    /\ boot.step # "done" /\ boot'.step # "done"
    /\ boot'.gen = boot.gen
    /\ BootTypes'
    /\ \A d \in Source : d[1] = 1 /\ status'[d] # "none" => d[2] <= Len(options)

\* Such a step keeps what is known if it keeps what the first one provides.
LEMMA GoesOnKeepsData ==
    ASSUME DataInv, GoesOn,
           boot.gen = 1 =>
              /\ boot'.at <= Len(options) + 1
              /\ boot'.step \in {"opening", "waiting"} => boot'.at <= Len(options)
              /\ ProvidedUpTo(boot.at)'
    PROVE  DataInv'
BY DEF DataInv, GoesOn, Booted, LastOfItsName

\* What a data source that has been created, or opened, is registered with.
LEMMA RegisterKeepsData ==
    ASSUME DataInv, Register, UNCHANGED <<options, copies, managed>>,
           boot.step # "done", boot.gen = 1 => boot.at <= Len(options),
           NEW to \in {"created", "open"}, status' = [status EXCEPT ![Current] = to]
    PROVE  DataInv'
<1>1. BootTypes
  BY DEF DataInv
<1>2. boot'.gen = boot.gen /\ boot'.step = "next"
      /\ boot' \in [gen : Generation, at : Nat \ {0}, attempt : Nat,
                    step : {"next", "opening", "waiting", "done", "failed"}]
  <2>1. boot.at + 1 \in Nat \ {0} /\ boot.gen \in Generation
    BY <1>1 DEF BootTypes
  <2>2. boot' = [gen |-> boot.gen, step |-> "next", at |-> boot.at + 1, attempt |-> 0]
    BY <1>1 DEF BootTypes, Register
  <2> QED
    BY <2>1, <2>2
<1>3. Current \in Nat \X Nat
  BY <1>1 DEF BootTypes, Generation, Current
<1>4. provided' \in [Name -> Nat \X Nat]
  BY <1>1, <1>3 DEF BootTypes, Register
<1>5. GoesOn
  BY <1>1, <1>2, <1>4, StatusOfCurrent DEF GoesOn, BootTypes
<1>6. boot.gen = 1 => boot'.at <= Len(options) + 1 /\ ProvidedUpTo(boot.at)'
  BY RegisterProvides
<1> QED
  BY <1>2, <1>5, <1>6, GoesOnKeepsData

\* An initialisation, step by step; the first one ends with the last data source
\* of each name registered.
LEMMA BootsKeepData == ASSUME DataInv, Boots PROVE DataInv'
<1>1. BootTypes /\ options' = options /\ copies' = copies
  BY DEF DataInv, Boots, CreateDataSource, Initialized, NotInitialized, RetryTimer,
         RegisterAll
<1>2. boot.gen \in Nat /\ boot.at \in Nat \ {0} /\ Len(options) \in Nat
      /\ 1 \in Generation
  BY <1>1, OptionTypes, DataSourcesAssumption DEF BootTypes, Generation
<1>3. boot.gen = 1 => Length = Len(options)
  BY <1>2 DEF DataInv, Length
<1>4. ASSUME NEW step \in {"next", "opening", "waiting", "failed"}, NEW attempt \in Nat,
             boot' = [boot EXCEPT !.step = step, !.attempt = attempt],
             boot.step # "done", UNCHANGED <<provided, managed>>,
             status' = status \/
                \E to \in {"created", "open"} : status' = [status EXCEPT ![Current] = to],
             boot.gen = 1 /\ step \in {"opening", "waiting"} => boot.at <= Len(options),
             boot.gen = 1 /\ status' # status => boot.at <= Len(options)
      PROVE  DataInv'
  <2>1. boot'.gen = boot.gen /\ boot'.at = boot.at /\ boot'.step = step
        /\ boot' \in [gen : Generation, at : Nat \ {0}, attempt : Nat,
                      step : {"next", "opening", "waiting", "done", "failed"}]
    BY <1>1, <1>4 DEF BootTypes
  <2>2. /\ status' \in [Source -> {"none", "created", "open", "closing", "closed", "stuck"}]
        /\ \A d \in Source : d[1] = 1 /\ status'[d] # "none" => d[2] <= Len(options)
    <3>1. CASE status' = status
      BY <3>1 DEF DataInv, BootTypes
    <3>2. CASE status' # status
      BY <1>1, <1>4, <3>2, StatusOfCurrent
    <3> QED
      BY <3>1, <3>2
  <2>3. GoesOn
    BY <1>1, <1>4, <2>1, <2>2 DEF GoesOn, BootTypes
  <2>4. boot.gen = 1 => ProvidedUpTo(boot.at)'
    BY <1>1, <1>4, <2>1 DEF DataInv, ProvidedUpTo
  <2> QED
    BY <1>4, <2>1, <2>3, <2>4, GoesOnKeepsData DEF DataInv
<1>5. boot.attempt \in Nat /\ boot = [boot EXCEPT !.attempt = boot.attempt]
  BY <1>1 DEF BootTypes
<1>6. CASE CreateDataSource
  <2>1. boot.step = "next" /\ managed' = managed
        /\ (boot.gen = 1 => boot.at <= Len(options))
    BY <1>3, <1>6 DEF CreateDataSource
  <2>2. CASE Throw /\ UNCHANGED <<status, provided>>
    <3>1. boot' = [boot EXCEPT !.step = "failed", !.attempt = boot.attempt]
      BY <1>1, <2>2 DEF Throw, BootTypes
    <3> QED
      BY <1>4, <1>5, <2>1, <2>2, <3>1
  <2>3. ASSUME NEW to \in {"created", "open"}, status' = [status EXCEPT ![Current] = to],
               boot' = [boot EXCEPT !.step = "opening"], UNCHANGED provided
        PROVE  DataInv'
    <3>1. boot' = [boot EXCEPT !.step = "opening", !.attempt = boot.attempt]
      BY <1>1, <2>3 DEF BootTypes
    <3> QED
      BY <1>4, <1>5, <2>1, <2>3, <3>1
  <2>4. ASSUME NEW to \in {"created", "open"}, status' = [status EXCEPT ![Current] = to],
               Register
        PROVE  DataInv'
    BY <1>1, <2>1, <2>4, RegisterKeepsData
  <2> QED
    BY <1>6, <2>2, <2>3, <2>4 DEF CreateDataSource
<1>7. CASE Initialized
  BY <1>1, <1>7, RegisterKeepsData DEF Initialized, DataInv
<1>8. ASSUME NEW toRetry \in BOOLEAN, NotInitialized(toRetry) PROVE DataInv'
  <2>1. CASE boot' = [boot EXCEPT !.step = "waiting", !.attempt = @ + 1]
    <3>1. boot' = [boot EXCEPT !.step = "waiting", !.attempt = boot.attempt + 1]
      BY <2>1
    <3>2. boot.step = "opening" /\ UNCHANGED <<status, provided, managed>>
          /\ (boot.gen = 1 => boot.at <= Len(options)) /\ boot.attempt + 1 \in Nat
      BY <1>5, <1>8 DEF NotInitialized, DataInv
    <3> QED
      BY <1>4, <3>1, <3>2
  <2>2. CASE Throw
    <3>1. boot' = [boot EXCEPT !.step = "failed", !.attempt = boot.attempt]
      BY <1>1, <2>2 DEF Throw, BootTypes
    <3> QED
      BY <1>4, <1>5, <1>8, <3>1 DEF NotInitialized
  <2> QED
    BY <1>8, <2>1, <2>2 DEF NotInitialized
<1>9. CASE RetryTimer
  <2>1. boot' = [boot EXCEPT !.step = "opening", !.attempt = boot.attempt]
    BY <1>1, <1>9 DEF RetryTimer, BootTypes
  <2> QED
    BY <1>4, <1>5, <1>9, <2>1 DEF RetryTimer, DataInv
<1>10. CASE RegisterAll
  <2>1. /\ boot.step = "next" /\ boot.at > Length /\ UNCHANGED <<status, provided>>
        /\ boot' = [boot EXCEPT !.step = "done"]
        /\ managed' = [managed EXCEPT ![boot.gen] =
                          {provided[n] : n \in Name} \ {NoSource}]
    BY <1>10 DEF RegisterAll
  <2>2. boot'.gen = boot.gen /\ boot'.at = boot.at /\ boot'.step = "done"
        /\ boot' \in [gen : Generation, at : Nat \ {0}, attempt : Nat,
                      step : {"next", "opening", "waiting", "done", "failed"}]
    BY <1>1, <2>1 DEF BootTypes
  <2>3. BootTypes'
    BY <1>1, <2>1, <2>2 DEF BootTypes
  <2>4. ASSUME NEW i \in 1..Len(options), LastOfItsName(i) PROVE <<1, i>> \in managed'[1]
    <3>1. CASE boot.gen = 1
      <4>1. boot.at = Len(options) + 1
        BY <1>2, <1>3, <2>1, <3>1 DEF DataInv
      <4>2. boot.at - 1 = Len(options)
        BY <1>2, <4>1
      <4>3. PICK j \in i..Len(options) :
                options[j].name = options[i].name /\ provided[options[i].name] = <<1, j>>
        BY <3>1, <4>2 DEF DataInv, ProvidedUpTo
      <4>4. j = i
        BY <1>2, <2>4, <4>3 DEF LastOfItsName
      <4>5. options[i].name \in Name
        BY <1>1, OptionTypes DEF BootTypes
      <4>6. <<1, i>> \in {provided[n] : n \in Name} \ {NoSource}
        BY <4>3, <4>4, <4>5 DEF NoSource
      <4> QED
        BY <1>1, <1>2, <2>1, <3>1, <4>6 DEF BootTypes
    <3>2. CASE boot.gen # 1
      <4>1. boot.gen > 1 /\ managed'[1] = managed[1]
        BY <1>1, <1>2, <2>1, <3>2 DEF BootTypes, Generation
      <4> QED
        BY <2>4, <4>1 DEF DataInv, Booted
    <3> QED
      BY <3>1, <3>2
  <2>5. boot.gen = 1 => ProvidedUpTo(boot.at)'
    BY <1>1, <2>1, <2>2 DEF DataInv, ProvidedUpTo
  <2> QED
    BY <1>1, <2>1, <2>2, <2>3, <2>4, <2>5 DEF DataInv, LastOfItsName
<1> QED
  BY <1>6, <1>7, <1>8, <1>9, <1>10 DEF Boots

\* Another generation, of a reinit() or of the roll-back of one, leaves the managers
\* of those before alone.
LEMMA BeginKeepsData == ASSUME DataInv, Reinit \/ RollBack PROVE DataInv'
<1>1. PICK list \in {copies.now, copies.backup} : Begin(list)
  BY DEF Reinit, RollBack
<1>2. /\ boot' = [gen |-> boot.gen + 1, step |-> "next", at |-> 1, attempt |-> 0]
      /\ UNCHANGED <<options, status, provided, managed>>
      /\ boot.gen \in Generation /\ boot.gen + 1 \in Generation
  BY <1>1, DataSourcesAssumption DEF Begin, DataInv, BootTypes, Generation
<1>3. Booted
  BY <1>2 DEF Reinit, RollBack, Booted, DataInv, Generation
<1>4. boot'.gen # 1 /\ BootTypes'
  BY <1>2 DEF DataInv, BootTypes, Generation
<1> QED
  BY <1>2, <1>3, <1>4 DEF DataInv, LastOfItsName

\* Only the status of data sources that exist changes when other code opens one,
\* and when a manager destroys what it holds.
LEMMA StatusKeepsData ==
    ASSUME DataInv, UNCHANGED <<options, copies, boot, provided, managed>>,
           status' \in [Source -> {"none", "created", "open", "closing", "closed", "stuck"}],
           \A d \in Source : status'[d] # status[d] => status[d] # "none"
    PROVE  DataInv'
BY DEF DataInv, BootTypes, Booted, LastOfItsName, ProvidedUpTo

\* Every step of the application beside close() keeps what is known of its data
\* sources, and so does the hook of a manager.
LEMMA DataStep ==
    ASSUME DataInv,
           \/ Boots \/ Reinit \/ RollBack \/ OnShutdown(1) \/ UNCHANGED dataVars
           \/ \E d \in Source : InitializeLater(d) \/ Destroyed(d)
    PROVE  DataInv'
<1>1. CASE Boots
  BY <1>1, BootsKeepData
<1>2. CASE Reinit \/ RollBack
  BY <1>2, BeginKeepsData
<1>3. CASE OnShutdown(1)
  BY <1>3, StatusKeepsData DEF OnShutdown, DataInv, BootTypes
<1>4. ASSUME NEW d \in Source, InitializeLater(d) \/ Destroyed(d) PROVE DataInv'
  <2>1. status \in [Source -> {"none", "created", "open", "closing", "closed", "stuck"}]
    BY DEF DataInv, BootTypes
  <2>2. status[d] # "none" /\ UNCHANGED <<options, copies, boot, provided, managed>>
    BY <1>4 DEF InitializeLater, Destroyed
  <2>3. \E to \in {"open", "closed", "stuck"} : status' = [status EXCEPT ![d] = to]
    BY <1>4 DEF InitializeLater, Destroyed
  <2> QED
    BY <2>1, <2>2, <2>3, StatusKeepsData
<1>5. CASE UNCHANGED dataVars
  BY <1>5 DEF dataVars, DataInv, BootTypes, Booted, LastOfItsName, ProvidedUpTo
<1> QED
  BY <1>1, <1>2, <1>3, <1>4, <1>5

-----------------------------------------------------------------------------
(* The data sources and close().                                            *)

\* Nothing that the first manager holds is open, but for what was opened late.
NoneLeft == \A d \in managed[1] \intersect Source : status[d] = "open" => d \in late

\* The first manager is there once the first initialisation is over, and so it is
\* among those that a close() asks; that call goes on from its onShutdown hooks
\* only when what they destroy has been destroyed.
ManagerInv ==
    typeorm =>
        /\ Booted => Manager \in created
        /\ process = "running" \/ isShuttingDown => Booted
        /\ \A c \in Caller : call[c].pc \in Closing => Manager \in call[c].all
        /\ isShuttingDown =>
              \/ \E c \in Caller : call[c].pc \in {"before", "drain"}
              \/ /\ NoneLeft
                 /\ Destroying =>
                       \E c \in Caller : call[c].pc = "on" /\ Manager \in call[c].hooks

\* A step outside close(): what it opens after close() was called is late.
ManagerFrame ==
    /\ UNCHANGED <<call, isShuttingDown, typeorm>>
    /\ Booted => Booted' /\ managed'[1] = managed[1]
    /\ Booted' => Manager \in created'
    /\ process' = "running" => Booted'
    /\ late \subseteq late'
    /\ \A d \in Source : status'[d] = "open" =>
          status[d] = "open" \/ (isShuttingDown => d \in late')
    /\ Destroying' => Destroying

\* Such a step keeps what is known of the manager.
LEMMA FrameKeepsManager == ASSUME ManagerInv, ManagerFrame PROVE ManagerInv'
BY DEF ManagerInv, ManagerFrame, NoneLeft

\* Opening data sources, at the start or in a reinit().
LEMMA BootstrapKeepsManager ==
    ASSUME ManagerInv, DataInv, JobsInv, Bootstrap, typeorm PROVE ManagerFrame
<1>1. /\ UNCHANGED <<call, isShuttingDown, typeorm>>
      /\ created' = IF boot'.step = "done" THEN created \union {Manager} ELSE created
      /\ process' \in {process, "failed"} /\ Boots
      /\ late' = IF isShuttingDown
                 THEN late \union {d \in Source : status[d] # "open" /\ status'[d] = "open"}
                 ELSE late
  BY DEF Bootstrap
<1>2. /\ boot.step # "done" /\ boot'.gen = boot.gen
      /\ boot.gen \in Nat \ {0} /\ 1 \in Generation /\ DOMAIN managed = Generation
  <2>1. /\ boot \in [gen : Generation, step : {"next", "opening", "waiting", "done", "failed"},
                     at : Nat \ {0}, attempt : Nat]
        /\ DOMAIN managed = Generation
    BY DEF DataInv, BootTypes
  <2>2. boot.gen \in Nat \ {0} /\ 1 \in Generation
    BY <2>1, DataSourcesAssumption DEF Generation
  <2>3. boot.step # "done" /\ boot'.gen = boot.gen
    BY <1>1, <2>1 DEF Boots, CreateDataSource, Initialized, NotInitialized, RetryTimer,
                      RegisterAll, Register, Throw
  <2> QED
    BY <2>1, <2>2, <2>3
<1>3. Booted => Booted' /\ managed'[1] = managed[1]
  <2>1. CASE RegisterAll
    BY <1>2, <2>1 DEF RegisterAll, Booted
  <2>2. CASE CreateDataSource \/ Initialized \/ RetryTimer
             \/ \E toRetry \in BOOLEAN : NotInitialized(toRetry)
    BY <1>2, <2>2 DEF CreateDataSource, Initialized, NotInitialized, RetryTimer, Booted
  <2> QED
    BY <1>1, <2>1, <2>2 DEF Boots
<1>4. Booted' => Manager \in created'
  BY <1>1, <1>2 DEF Booted, ManagerInv
<1>5. process' = "running" => Booted'
  BY <1>1, <1>3 DEF ManagerInv
<1>6. \A d \in Source : status'[d] = "closing" => status[d] = "closing"
  BY <1>1 DEF Boots, CreateDataSource, Initialized, NotInitialized, RetryTimer,
              RegisterAll, Register, Throw, DataInv, BootTypes
<1> QED
  BY <1>1, <1>3, <1>4, <1>5, <1>6 DEF ManagerFrame, Destroying

\* Reinitialising, opening a data source later and destroying one.
LEMMA OthersKeepManager ==
    ASSUME ManagerInv, DataInv,
           \/ Reinitialize \/ UNCHANGED allVars
           \/ \E d \in Source : UserInitializes(d) \/ DestroySettles(d)
    PROVE  typeorm => ManagerFrame
<1>1. CASE Reinitialize
  <2>1. /\ UNCHANGED <<call, isShuttingDown, typeorm, process, created, late, status, managed>>
        /\ boot'.gen = boot.gen + 1
    BY <1>1 DEF Reinitialize, Reinit, RollBack, Begin, vars, appVars
  <2>2. Booted /\ Booted'
    BY <1>1, <2>1 DEF Reinitialize, Reinit, RollBack, Booted, DataInv, BootTypes, Generation
  <2> QED
    BY <2>1, <2>2 DEF ManagerFrame, ManagerInv, Destroying
<1>2. ASSUME NEW d \in Source, UserInitializes(d) PROVE typeorm => ManagerFrame
  BY <1>2 DEF UserInitializes, InitializeLater, vars, appVars, ManagerFrame, ManagerInv,
              Destroying, Booted, DataInv, BootTypes
<1>3. ASSUME NEW d \in Source, DestroySettles(d) PROVE typeorm => ManagerFrame
  BY <1>3 DEF DestroySettles, Destroyed, vars, appVars, ManagerFrame, ManagerInv,
              Destroying, Booted, DataInv, BootTypes
<1>4. CASE UNCHANGED allVars
  BY <1>4 DEF allVars, dataVars, vars, appVars, ManagerFrame, ManagerInv, Destroying, Booted
<1> QED
  BY <1>1, <1>2, <1>3, <1>4

\* A call of close(), a signal and a client, with data sources.
LEMMA LifecycleKeepsManager ==
    ASSUME ManagerInv, DataInv, CloseInv, JobsInv, WithDataSources(Lifecycle)
    PROVE  ManagerInv'
<1> DEFINE Asked == ManagerIsAsked
<1>1. /\ typeorm /\ UNCHANGED <<typeorm, late>> /\ Lifecycle
      /\ process = "starting" => boot.step = "done"
      /\ ManagerSettles => ~Destroying
      /\ IF Asked THEN OnShutdown(1) ELSE UNCHANGED dataVars
  BY DEF WithDataSources
<1>2. /\ Booted => Manager \in created
      /\ process = "running" \/ isShuttingDown => Booted
      /\ \A c \in Caller : call[c].pc \in Closing => Manager \in call[c].all
  BY <1>1 DEF ManagerInv
<1>3. Manager \in Service /\ Times(Manager) = 1
  BY ManagerAssumption DEF Times
<1>4. runs \in [Service -> [before : Nat, on : Nat]]
  BY DEF CloseInv, AppTypes
<1>5. runs'[Manager].on = runs[Manager].on => UNCHANGED dataVars
  BY <1>1, <1>3, <1>4 DEF ManagerIsAsked
<1>6. \A c \in Caller : call[c].pc \in Closing => isShuttingDown
  BY DEF CloseInv, NotYet, Closing
<1> DEFINE Rest == /\ UNCHANGED <<call, isShuttingDown, runs>>
                   /\ process' \in {process, "running", "killed"} /\ created' = created
                   /\ process' = "running" => process = "running" \/ process = "starting"
<1>7. CASE Rest
  <2>1. UNCHANGED dataVars
    BY <1>5, <1>7
  <2>2. ManagerFrame
    BY <1>1, <1>2, <1>7, <2>1 DEF ManagerFrame, dataVars, Booted, Destroying
  <2> QED
    BY <2>2, FrameKeepsManager
<1>8. ASSUME NEW c \in Caller, NEW signal \in BOOLEAN, Close(c, signal) PROVE ManagerInv'
  <2>1. /\ process = "running" /\ isShuttingDown' /\ UNCHANGED <<process, created>>
        /\ call' = [call EXCEPT ![c] = [pc |-> "before", signal |-> signal,
                                        all |-> created, hooks |-> created]]
        /\ runs' = Counted("before", created)
    BY <1>8 DEF Close
  <2>2. runs'[Manager].on = runs[Manager].on
    BY <1>3, <1>4, <2>1 DEF Counted
  <2>3. UNCHANGED dataVars
    BY <1>5, <2>2
  <2>4. Manager \in created
    BY <1>2, <2>1
  <2>5. c \in DOMAIN call
    BY DEF CloseInv, AppTypes
  <2> QED
    BY <1>1, <1>2, <2>1, <2>3, <2>4, <2>5 DEF ManagerInv, dataVars, Booted
<1>9. ASSUME NEW c \in Caller, CloseAgain(c) PROVE ManagerInv'
  <2>1. /\ UNCHANGED <<process, created, isShuttingDown, runs>> /\ call[c].pc = "idle"
        /\ call' = [call EXCEPT ![c].pc = "done"]
    BY <1>9 DEF CloseAgain
  <2>2. UNCHANGED dataVars
    BY <1>5, <2>1
  <2>3. \A d \in Caller : call[d].pc \in Closing \/ call'[d].pc \in Closing
                             => call'[d] = call[d]
    BY <2>1 DEF CloseInv, AppTypes, Closing
  <2>4. \A d \in Caller : call[d].pc \in {"before", "drain", "on"} => call'[d] = call[d]
    BY <2>3 DEF Closing
  <2> QED
    BY <1>1, <2>1, <2>2, <2>3, <2>4
       DEF ManagerInv, dataVars, Booted, NoneLeft, Destroying
<1>10. ASSUME NEW c \in Caller, Settle(c) PROVE ManagerInv'
  <2>1. PICK s \in call[c].hooks : call' = [call EXCEPT ![c].hooks = @ \ {s}]
    BY <1>10 DEF Settle
  <2>2. UNCHANGED <<process, created, isShuttingDown, runs>>
    BY <1>10 DEF Settle
  <2>3. UNCHANGED dataVars
    BY <1>5, <2>2
  <2>4. \A d \in Caller : call'[d].pc = call[d].pc /\ call'[d].all = call[d].all
    BY <2>1 DEF CloseInv, AppTypes
  <2>5. ASSUME Destroying, NEW d \in Caller, call[d].pc = "on", Manager \in call[d].hooks
        PROVE  Manager \in call'[d].hooks
    BY <1>1, <2>5 DEF ManagerSettles
  <2> QED
    BY <1>1, <2>2, <2>3, <2>4, <2>5 DEF ManagerInv, dataVars, Booted, NoneLeft, Destroying
<1>11. ASSUME NEW c \in Caller, Drain(c) PROVE ManagerInv'
  <2>1. /\ UNCHANGED <<process, created, isShuttingDown, runs>> /\ call[c].pc = "before"
        /\ call' = [call EXCEPT ![c].pc = "drain"]
    BY <1>11 DEF Drain
  <2>2. UNCHANGED dataVars
    BY <1>5, <2>1
  <2>3. /\ \A d \in Caller : call'[d].all = call[d].all
        /\ \A d \in Caller : d # c => call'[d] = call[d]
        /\ call'[c].pc = "drain"
    BY <2>1 DEF CloseInv, AppTypes
  <2>4. call[c].pc \in Closing
    BY <2>1 DEF Closing
  <2> QED
    BY <1>1, <1>2, <1>6, <2>1, <2>2, <2>3, <2>4 DEF ManagerInv, dataVars, Booted
<1>12. ASSUME NEW c \in Caller, Drained(c) PROVE ManagerInv'
  <2>1. /\ UNCHANGED <<process, created, isShuttingDown>> /\ call[c].pc = "drain"
        /\ call' = [call EXCEPT ![c].pc = "on", ![c].hooks = call[c].all]
        /\ runs' = Counted("on", call[c].all)
    BY <1>12 DEF Drained
  <2>2. call[c].pc \in Closing
    BY <2>1 DEF Closing
  <2>3. Manager \in call[c].all
    BY <1>2, <2>2
  <2>4. runs[Manager].on = 0
    BY <1>3, <2>1 DEF CloseInv, StageFits, AskedBy
  <2>5. runs'[Manager].on = 1
    BY <1>3, <1>4, <2>1, <2>3, <2>4 DEF Counted
  <2>6. OnShutdown(1)
    BY <1>1, <2>4, <2>5 DEF ManagerIsAsked
  <2>7. /\ \A d \in Caller : call'[d].all = call[d].all
        /\ \A d \in Caller : d # c => call'[d] = call[d]
        /\ call'[c].pc = "on" /\ Manager \in call'[c].hooks
    BY <2>1, <2>3 DEF CloseInv, AppTypes
  <2>8. NoneLeft'
    BY <2>6 DEF OnShutdown, NoneLeft
  <2> QED
    BY <1>1, <1>2, <2>1, <2>2, <2>6, <2>7, <2>8 DEF ManagerInv, Booted, OnShutdown
<1>13. ASSUME NEW c \in Caller, Finish(c) PROVE ManagerInv'
  <2>1. /\ UNCHANGED <<created, isShuttingDown, runs>> /\ call[c].pc = "on"
        /\ call[c].hooks = {} /\ call' = [call EXCEPT ![c].pc = "done"]
        /\ process = "running"
    BY <1>13 DEF Finish
  <2>2. UNCHANGED dataVars
    BY <1>5, <2>1
  <2>3. /\ \A d \in Caller : call'[d].all = call[d].all
        /\ \A d \in Caller : d # c => call'[d] = call[d]
        /\ call'[c].pc = "done"
    BY <2>1 DEF CloseInv, AppTypes
  <2>4. \A d \in Caller : call[d].pc \in Closing => d = c
    BY <2>1 DEF CloseInv, OneCloses, Closing
  <2>5. isShuttingDown
    BY <1>6, <2>1 DEF Closing
  <2>6. NoneLeft /\ ~Destroying
    BY <1>1, <2>1, <2>4, <2>5 DEF ManagerInv, Closing
  <2>7. NoneLeft' /\ ~Destroying'
    BY <1>1, <2>2, <2>6 DEF NoneLeft, Destroying, dataVars
  <2> QED
    BY <1>1, <1>2, <2>1, <2>2, <2>3, <2>7 DEF ManagerInv, Booted, dataVars, Closing
<1>14. CASE Mount \/ Start \/ EnableShutdownHooks \/ Listen \/ Kill \/ TimerFires
            \/ \E n \in Connection : Client(n)
  <2>1. Rest
    BY <1>14 DEF Mount, Start, EnableShutdownHooks, Listen, Kill, TimerFires, Client, appVars
  <2> QED
    BY <1>7, <2>1
<1> QED
  BY <1>1, <1>8, <1>9, <1>10, <1>11, <1>12, <1>13, <1>14 DEF Lifecycle, Signal, Closes

\* Nothing has been closed when the first initialisation begins.
LEMMA InitManager == AppInit => ManagerInv
BY DEF AppInit, Init, DataInit, ManagerInv, Booted, NoCall, Closing

\* What is known of the data sources, of close() and of both is inductive.
LEMMA SourcesInvariant == AppSpec => [](DataInv /\ ManagerInv)
<1>1. AppInit => DataInv /\ ManagerInv
  BY InitData, InitManager DEF AppInit
<1>2. JobsInv /\ CloseInv /\ DataInv /\ ManagerInv /\ [AppNext]_allVars
         => DataInv' /\ ManagerInv'
  <2> SUFFICES ASSUME JobsInv, CloseInv, DataInv, ManagerInv, [AppNext]_allVars
               PROVE  DataInv' /\ ManagerInv'
    OBVIOUS
  <2>1. CASE WithoutDataSources(Next)
    BY <2>1, DataStep DEF WithoutDataSources, ManagerInv
  <2>2. CASE WithDataSources(Lifecycle)
    <3>1. OnShutdown(1) \/ UNCHANGED dataVars
      BY <2>2 DEF WithDataSources
    <3> QED
      BY <2>2, <3>1, DataStep, LifecycleKeepsManager
  <2>3. CASE Bootstrap
    <3>1. typeorm /\ Boots
      BY <2>3 DEF Bootstrap
    <3> QED
      BY <2>3, <3>1, DataStep, BootstrapKeepsManager, FrameKeepsManager
  <2>4. CASE Reinitialize \/ UNCHANGED allVars
    <3>1. DataInv'
      BY <2>4, DataStep DEF Reinitialize, allVars
    <3>2. typeorm => ManagerFrame
      BY <2>4, OthersKeepManager
    <3>3. UNCHANGED typeorm
      BY <2>4 DEF Reinitialize, allVars
    <3> QED
      BY <3>1, <3>2, <3>3, FrameKeepsManager DEF ManagerInv
  <2>5. ASSUME NEW d \in Source, UserInitializes(d) \/ DestroySettles(d)
        PROVE  DataInv' /\ ManagerInv'
    <3>1. DataInv'
      BY <2>5, DataStep DEF UserInitializes, DestroySettles
    <3>2. typeorm => ManagerFrame
      BY <2>5, OthersKeepManager
    <3>3. UNCHANGED typeorm
      BY <2>5 DEF UserInitializes, DestroySettles
    <3> QED
      BY <3>1, <3>2, <3>3, FrameKeepsManager DEF ManagerInv
  <2> QED
    BY <2>1, <2>2, <2>3, <2>4, <2>5 DEF AppNext
<1> QED
  BY <1>1, <1>2, AppInvariant, PTL DEF AppSpec

\* Once a call of close() is over, no data source that the application was
\* started with is open, but for what was opened after close() was called and for
\* those whose name another data source has taken, however often the application
\* was reinitialized, and whatever failed, in between.
THEOREM SourcesAreDestroyed == AppSpec => []StartedWithIsDestroyed
<1>1. DataInv /\ CloseInv /\ ManagerInv => StartedWithIsDestroyed
  <2> SUFFICES ASSUME DataInv, CloseInv, ManagerInv, typeorm, Closed,
                      NEW d \in Source, d[1] = 1
               PROVE  /\ status[d] # "closing"
                      /\ status[d] = "open" =>
                            \/ d \in late
                            \/ \E i \in (d[2] + 1)..Len(options) :
                                  options[i].name = OptionAt(d[2]).name
    BY DEF StartedWithIsDestroyed
  <2>1. \A c \in Caller : call[c].pc \notin {"before", "drain", "on"}
    BY DEF Closed
  <2>2. NoneLeft /\ ~Destroying
    BY <2>1 DEF ManagerInv, Closed
  <2>3. ASSUME status[d] = "open", d \notin late
        PROVE  \E i \in (d[2] + 1)..Len(options) :
                                  options[i].name = OptionAt(d[2]).name
    <3>1. Booted
      BY DEF ManagerInv, Closed
    <3>2. d[2] \in 1..Len(options) /\ d = <<1, d[2]>>
      <4>1. options \in OptionLists /\ d[2] <= Len(options)
        BY <2>3 DEF DataInv, BootTypes
      <4>2. d = <<d[1], d[2]>> /\ d[2] \in Nat \ {0}
        BY DEF Source
      <4> QED
        BY <4>1, <4>2, OptionTypes
    <3>3. OptionAt(d[2]) = options[d[2]]
      BY <3>2, OptionOfCopy DEF DataInv, BootTypes
    <3>4. d \notin managed[1]
      BY <2>2, <2>3 DEF NoneLeft
    <3> QED
      BY <3>1, <3>2, <3>3, <3>4 DEF DataInv, LastOfItsName
  <2> QED
    BY <2>2, <2>3 DEF Destroying
<1> QED
  BY <1>1, AppInvariant, SourcesInvariant, PTL
=============================================================================
