--------------------------- MODULE StartCommandProof ---------------------------
(***************************************************************************)
(* Proofs about `holu start`: its types, that no application process is    *)
(* left behind, and that calls which do not overlap keep the promise of    *)
(* AppSlot.  They are about WatchSpec, the command beside its asset        *)
(* watcher, whose steps are steps of the command or leave it alone.        *)
(***************************************************************************)
EXTENDS WatchMode, FiniteSetTheorems, TLAPS

\* Every process spawned, and every restart that is under way, is counted.
Budget ==
    /\ CommandTypeOK
    /\ spawned + Cardinality(PendingRestarts) <= MaxProc

\* Every child that runs will be killed when the command ends: its handlers are
\* registered, or a signal has reached it.
ChildrenAreHandled ==
    /\ Running \subseteq handlers \union killed
    /\ NoOrphan

\* One call at a time.
AllIdle == \A c \in Caller : pc[c] = "idle"
OneCall == \A c, d \in Caller : pc[c] # "idle" /\ pc[d] # "idle" => c = d

\* Processes are born in the order of their numbers.
Unborn == \A p \in Proc : p > spawned => proc[p] = "unborn"

\* Where calls do not overlap: what can be under way at the same time, and
\* which process there can be.  A call that is ready has seen the end of the last.
OneAtATime ==
    /\ OneCall
    /\ timer => loop = "loop" /\ AllIdle
    /\ loop = "closing" => AllIdle
    /\ Running \subseteq {current}
    /\ stopping # NoProc => stopping = current /\ \E c \in Caller : pc[c] = "awaiting"
    /\ \A c \in Caller : pc[c] = "ready" => Running = {}

SlotInv == Unborn /\ (~overlap => OneAtATime)

WatchInv == Budget /\ ChildrenAreHandled /\ SlotInv

-----------------------------------------------------------------------------
(* The asset watcher leaves the command alone.                              *)
LEMMA WatchStep == [WatchNext]_watchVars => CommandNext \/ UNCHANGED allVars
BY DEF WatchNext, CommandTurn, AssetTurn, watchVars

-----------------------------------------------------------------------------
(* Counting restarts.                                                       *)

\* The calls that are not idle are some of the calls, so they can be counted.
LEMMA RestartsAreCounted ==
    /\ IsFiniteSet(PendingRestarts)
    /\ Cardinality(PendingRestarts) \in Nat
<1>1. PendingRestarts \in SUBSET Caller
  BY DEF PendingRestarts
<1>2. IsFiniteSet(PendingRestarts)
  BY ONLY <1>1, CallerAssumption, FS_Subset
<1> QED
  BY ONLY <1>2, FS_CardinalityType

\* The state of the calls and the number of processes stay as they are.
BudgetFrame == UNCHANGED <<spawned, pc, op>>

\* Then as many restarts as before may still spawn a process.
LEMMA FrameKeepsBudget ==
    ASSUME Budget, BudgetFrame
    PROVE  spawned' + Cardinality(PendingRestarts)' <= MaxProc
BY DEF Budget, BudgetFrame, PendingRestarts

\* One more pending call adds one restart at most, which MaySpawn has allowed.
LEMMA CallKeepsBudget ==
    ASSUME Budget, NEW c \in Caller, NEW kind \in {"restart", "stop"}, Call(c, kind)
    PROVE  spawned' + Cardinality(PendingRestarts)' <= MaxProc
<1>1. spawned' = spawned /\ spawned \in Nat /\ MaxProc \in Nat
  BY MaxProcAssumption DEF Call, Budget, CommandTypeOK, TypeOK
<1>2. pc[c] = "idle" /\ op' = [op EXCEPT ![c] = kind]
  BY DEF Call
<1>3. pc' \in {[pc EXCEPT ![c] = "ready"], [pc EXCEPT ![c] = "awaiting"]}
  BY DEF Call, StopCall
<1>4. pc \in [Caller -> {"idle", "awaiting", "ready"}] /\ op \in [Caller -> {"restart", "stop"}]
  BY DEF Budget, CommandTypeOK, TypeOK
<1>5. CASE kind = "restart"
  <2>1. PendingRestarts' = PendingRestarts \union {c}
    BY <1>2, <1>3, <1>4, <1>5 DEF PendingRestarts
  <2>2. Cardinality(PendingRestarts') <= Cardinality(PendingRestarts) + 1
    BY <2>1, RestartsAreCounted, FS_AddElement
  <2>3. spawned + Cardinality(PendingRestarts) < MaxProc
    BY <1>5 DEF Call, MaySpawn
  <2>4. Cardinality(PendingRestarts') \in Nat
    BY ONLY <2>1, RestartsAreCounted, FS_AddElement, FS_CardinalityType
  <2> QED
    BY <1>1, <2>2, <2>3, <2>4, RestartsAreCounted
<1>6. CASE kind = "stop"
  <2>1. PendingRestarts' = PendingRestarts
    BY <1>2, <1>3, <1>4, <1>6 DEF PendingRestarts
  <2> QED
    BY <1>1, <2>1 DEF Budget
<1> QED
  BY <1>5, <1>6

\* A restart that goes on has room for its process and is pending no longer.
LEMMA ContinueKeepsBudget ==
    ASSUME Budget, NEW c \in Caller, Continue(c)
    PROVE  /\ spawned' + Cardinality(PendingRestarts)' <= MaxProc
           /\ op[c] = "restart" => spawned + 1 \in Proc
<1>1. spawned \in Nat /\ MaxProc \in Nat /\ spawned + Cardinality(PendingRestarts) <= MaxProc
  BY MaxProcAssumption DEF Budget, CommandTypeOK, TypeOK
<1>2. PendingRestarts' = PendingRestarts \ {c}
  BY DEF Continue, PendingRestarts, Budget, CommandTypeOK, TypeOK
<1>3. Cardinality(PendingRestarts') = IF c \in PendingRestarts
                                      THEN Cardinality(PendingRestarts) - 1
                                      ELSE Cardinality(PendingRestarts)
  BY ONLY <1>2, RestartsAreCounted, FS_RemoveElement
<1>4. CASE op[c] = "restart"
  <2>1. c \in PendingRestarts
    BY <1>4 DEF Continue, PendingRestarts
  <2>2. Cardinality(PendingRestarts) >= 1
    BY <2>1, RestartsAreCounted, FS_EmptySet
  <2>3. spawned' = spawned + 1
    BY <1>4 DEF Continue, SpawnProcess
  <2> QED
    BY <1>1, <1>3, <2>1, <2>2, <2>3, RestartsAreCounted DEF Proc
<1>5. CASE op[c] # "restart"
  <2>1. spawned' = spawned /\ c \notin PendingRestarts
    BY <1>5 DEF Continue, PendingRestarts
  <2> QED
    BY <1>1, <1>3, <1>5, <2>1
<1> QED
  BY <1>4, <1>5

\* The exit event of a child makes calls ready that were awaiting it.
LEMMA ExitKeepsBudget ==
    ASSUME Budget, NEW p \in Proc, ExitEvent(p)
    PROVE  spawned' + Cardinality(PendingRestarts)' <= MaxProc
<1>1. PendingRestarts' = PendingRestarts
  BY DEF ExitEvent, PendingRestarts, Budget, CommandTypeOK, TypeOK
<1> QED
  BY <1>1 DEF ExitEvent, Budget

-----------------------------------------------------------------------------
(* Types.                                                                   *)

\* The variables of the process manager that only spawning changes.
LEMMA SpawnTypes ==
    ASSUME TypeOK, spawned + 1 \in Proc, SpawnProcess
    PROVE  /\ spawned' \in 0..MaxProc
           /\ proc' \in [Proc -> {"unborn", "running", "dead", "gone"}]
           /\ current' \in Proc \union {NoProc}
BY MaxProcAssumption DEF TypeOK, SpawnProcess, Proc

\* What a child that is born adds to the types of the command.
LEMMA BornTypes ==
    ASSUME CommandTypeOK, Born, good' \in 0..MaxBuilds,
           spawned' # spawned => spawned' \in Proc
    PROVE  handlers' \subseteq Proc /\ bornAt' \in [Proc -> 0..MaxBuilds]
BY DEF CommandTypeOK, Born

\* One call of stop() changes no type.
LEMMA CallTypes ==
    ASSUME TypeOK, NEW c \in Caller, NEW kind \in {"restart", "stop"}, Call(c, kind)
    PROVE  TypeOK'
BY DEF TypeOK, Call, StopCall

\* An iteration of the loop spawns the first process or none.
LEMMA CompiledTypes ==
    ASSUME Budget, NEW hasErrors \in BOOLEAN, Compiled(hasErrors)
    PROVE  Budget'
<1>1. CommandTypeOK /\ TypeOK
  BY DEF Budget, CommandTypeOK
<1>2. /\ builds' \in 0..MaxBuilds /\ good' \in 0..builds' /\ good' \in 0..MaxBuilds
      /\ timer' \in BOOLEAN /\ started' \in BOOLEAN
      /\ loop' = loop /\ overlap' = overlap /\ pc' = pc /\ op' = op /\ Born
  <2>1. /\ builds < MaxBuilds /\ builds' = builds + 1 /\ good' \in {good, good + 1}
        /\ loop' = loop /\ overlap' = overlap /\ Born
    BY DEF Compiled
  <2>2. builds \in Nat /\ good \in 0..builds /\ MaxBuilds \in Nat
    BY <1>1, MaxBuildsAssumption DEF CommandTypeOK
  <2>3. builds' \in 0..MaxBuilds /\ good' \in 0..builds' /\ good' \in 0..MaxBuilds
    BY <2>1, <2>2
  <2>4. timer' \in BOOLEAN /\ started' \in BOOLEAN
    BY <1>1, Zenon DEF Compiled, CommandTypeOK
  <2>5. pc' = pc /\ op' = op
    BY DEF Compiled, Start, vars
  <2> QED
    BY <2>1, <2>3, <2>4, <2>5
<1>3. CASE UNCHANGED vars
  <2>1. TypeOK' /\ spawned' = spawned
    BY <1>1, <1>3 DEF TypeOK, vars
  <2>2. handlers' \subseteq Proc /\ bornAt' \in [Proc -> 0..MaxBuilds]
    BY <1>1, <1>2, <2>1, BornTypes
  <2>3. spawned' + Cardinality(PendingRestarts)' <= MaxProc
    BY <1>3, FrameKeepsBudget DEF BudgetFrame, vars
  <2> QED
    BY <1>1, <1>2, <2>1, <2>2, <2>3 DEF Budget, CommandTypeOK
<1>4. CASE Start
  <2>1. 1 \in Proc /\ spawned = 0 /\ spawned' = 1
    BY <1>4, MaxProcAssumption DEF Start, SpawnProcess, Proc
  <2>2. TypeOK'
    BY <1>1, <1>4, <2>1, SpawnTypes DEF Start, TypeOK
  <2>3. handlers' \subseteq Proc /\ bornAt' \in [Proc -> 0..MaxBuilds]
    BY <1>1, <1>2, <2>1, BornTypes
  <2>4. PendingRestarts' = {}
    BY <1>4 DEF Start, PendingRestarts
  <2>5. spawned' + Cardinality(PendingRestarts)' <= MaxProc
    BY <2>1, <2>4, FS_EmptySet, MaxProcAssumption
  <2> QED
    BY <1>1, <1>2, <2>2, <2>3, <2>5 DEF Budget, CommandTypeOK
<1> QED
  BY <1>3, <1>4 DEF Compiled

\* The type of every variable, and the number of processes within its bound, are
\* inductive.
LEMMA NextKeepsBudget == ASSUME Budget, CommandNext PROVE Budget'
<1>1. CommandTypeOK /\ TypeOK
  BY DEF Budget, CommandTypeOK
<1>2. ASSUME NEW hasErrors \in BOOLEAN, Compiled(hasErrors) PROVE Budget'
  BY <1>2, CompiledTypes
<1>3. ASSUME NEW c \in Caller, NEW kind \in {"restart", "stop"}, Call(c, kind),
             loop' \in {"loop", "closing", "stopping", "done", "exited"},
             timer' \in BOOLEAN,
             UNCHANGED <<builds, good, bornAt, started, handlers, overlap>>
      PROVE  Budget'
  <2>1. TypeOK'
    BY <1>1, <1>3, CallTypes
  <2>2. spawned' + Cardinality(PendingRestarts)' <= MaxProc
    BY <1>3, CallKeepsBudget
  <2> QED
    BY <1>1, <1>3, <2>1, <2>2 DEF Budget, CommandTypeOK
<1>4. CASE RestartApp
  BY <1>1, <1>3, <1>4 DEF RestartApp, CommandTypeOK
<1>5. CASE FinallyStop
  BY <1>1, <1>3, <1>5, MainAssumption DEF FinallyStop, CommandTypeOK
<1>6. CASE Signal
  <2>1. CommandTypeOK'
    BY <1>1, <1>6 DEF Signal, CommandTypeOK, TypeOK
  <2> QED
    BY <1>6, <2>1, FrameKeepsBudget DEF Signal, Budget, BudgetFrame
<1>7. CASE Exit
  <2>1. CommandTypeOK'
    BY <1>1, <1>7 DEF Exit, CommandTypeOK, TypeOK
  <2> QED
    BY <1>7, <2>1, FrameKeepsBudget DEF Exit, Budget, BudgetFrame
<1>8. ASSUME NEW c \in Caller, CommandContinue(c) PROVE Budget'
  <2>1. /\ spawned' + Cardinality(PendingRestarts)' <= MaxProc
        /\ op[c] = "restart" => spawned + 1 \in Proc
    BY <1>8, ContinueKeepsBudget DEF CommandContinue
  <2>2. TypeOK'
    BY <1>1, <1>8, <2>1, SpawnTypes DEF CommandContinue, Continue, TypeOK
  <2>3. spawned' # spawned => spawned' \in Proc
    BY <1>8, <2>1 DEF CommandContinue, Continue, SpawnProcess
  <2>4. good' = good /\ good \in 0..MaxBuilds
    BY <1>1, <1>8, MaxBuildsAssumption DEF CommandContinue, CommandTypeOK
  <2>5. handlers' \subseteq Proc /\ bornAt' \in [Proc -> 0..MaxBuilds]
    BY <1>1, <1>8, <2>3, <2>4, BornTypes DEF CommandContinue
  <2> QED
    BY <1>1, <1>8, <2>1, <2>2, <2>4, <2>5 DEF CommandContinue, Budget, CommandTypeOK
<1>9. ASSUME NEW p \in Proc, ChildExit(p) PROVE Budget'
  <2>1. TypeOK'
    BY <1>1, <1>9 DEF ChildExit, ExitEvent, TypeOK
  <2>2. spawned' + Cardinality(PendingRestarts)' <= MaxProc
    BY <1>9, ExitKeepsBudget DEF ChildExit
  <2> QED
    BY <1>1, <1>9, <2>1, <2>2 DEF ChildExit, Budget, CommandTypeOK
<1>10. ASSUME NEW p \in Proc, KillTimeout(p) \/ ChildDies(p) PROVE Budget'
  <2>1. TypeOK' /\ UNCHANGED cmdVars
    BY <1>1, <1>10, CrashModesAssumption DEF KillTimeout, KillTimer, ChildDies, Die, TypeOK
  <2>2. spawned' + Cardinality(PendingRestarts)' <= MaxProc
    BY <1>10, FrameKeepsBudget DEF KillTimeout, KillTimer, ChildDies, Die, BudgetFrame
  <2> QED
    BY <1>1, <2>1, <2>2 DEF cmdVars, Budget, CommandTypeOK
<1> QED
  BY <1>2, <1>4, <1>5, <1>6, <1>7, <1>8, <1>9, <1>10 DEF CommandNext

\* Nothing has happened yet.
LEMMA InitBudget == CommandInit => Budget
<1> SUFFICES ASSUME CommandInit PROVE Budget
  OBVIOUS
<1>1. TypeOK
  BY MaxProcAssumption DEF CommandInit, Init, TypeOK
<1>2. CommandTypeOK
  <2>1. 0 \in 0..MaxBuilds /\ 0 \in 0..0
    BY MaxBuildsAssumption
  <2>2. builds \in 0..MaxBuilds /\ good \in 0..builds /\ bornAt \in [Proc -> 0..MaxBuilds]
    BY <2>1 DEF CommandInit
  <2>3. /\ started \in BOOLEAN /\ timer \in BOOLEAN /\ overlap \in BOOLEAN
        /\ loop = "loop" /\ handlers \subseteq Proc
    BY DEF CommandInit
  <2> QED
    BY <1>1, <2>2, <2>3 DEF CommandTypeOK
<1>3. PendingRestarts = {}
  BY DEF CommandInit, Init, PendingRestarts
<1> QED
  BY <1>2, <1>3, FS_EmptySet, MaxProcAssumption DEF Budget, CommandInit, Init

\* Steps that are not of the command leave its variables as they are.
LEMMA StutterKeepsBudget == ASSUME Budget, UNCHANGED allVars PROVE Budget'
<1>1. CommandTypeOK'
  BY DEF Budget, CommandTypeOK, TypeOK, allVars, cmdVars, vars
<1> QED
  BY <1>1, FrameKeepsBudget DEF BudgetFrame, Budget, allVars, vars

\* Every variable of the command has its type, and no more processes are
\* spawned than there are restarts.
LEMMA BudgetInvariant == WatchSpec => []Budget
<1>1. WatchInit => Budget
  BY InitBudget DEF WatchInit
<1>2. Budget /\ [WatchNext]_watchVars => Budget'
  BY WatchStep, NextKeepsBudget, StutterKeepsBudget
<1> QED
  BY <1>1, <1>2, PTL DEF WatchSpec

\* Every variable of the process manager and of the command has its type: among
\* others, no overlap of restarts spawns a process beyond those counted.
THEOREM CommandTypes == WatchSpec => []CommandTypeOK
<1>1. Budget => CommandTypeOK
  BY DEF Budget
<1> QED
  BY <1>1, BudgetInvariant, PTL

-----------------------------------------------------------------------------
(* No orphan.                                                               *)

\* A step that gives birth to a child registers its handlers with it.
LEMMA BirthIsHandled ==
    ASSUME ChildrenAreHandled, SpawnProcess, Born, spawned \in Nat,
           proc \in [Proc -> {"unborn", "running", "dead", "gone"}],
           killed' = killed, loop' # "exited"
    PROVE  ChildrenAreHandled'
<1>1. Running' \subseteq Running \union {spawned'}
  BY DEF Running, SpawnProcess
<1>2. handlers' = handlers \union {spawned'}
  BY DEF Born, SpawnProcess
<1> QED
  BY <1>1, <1>2 DEF ChildrenAreHandled, NoOrphan

\* A child that runs loses its handlers to the signal that they pass on, or at
\* the end of the command, which kills it; nothing is spawned afterwards.
LEMMA NextKeepsHandled ==
    ASSUME Budget, ChildrenAreHandled, CommandNext PROVE ChildrenAreHandled'
<1>1. spawned \in Nat /\ proc \in [Proc -> {"unborn", "running", "dead", "gone"}]
      /\ Running \subseteq Proc
  BY DEF Budget, CommandTypeOK, TypeOK, Running
<1>2. ASSUME NEW hasErrors \in BOOLEAN, Compiled(hasErrors) PROVE ChildrenAreHandled'
  <2>1. CASE UNCHANGED vars
    BY <1>2, <2>1 DEF Compiled, Born, vars, Running, ChildrenAreHandled, NoOrphan
  <2>2. CASE Start
    BY <1>1, <1>2, <2>2, BirthIsHandled DEF Compiled, Start
  <2> QED
    BY <1>2, <2>1, <2>2 DEF Compiled
<1>3. CASE RestartApp
  BY <1>3 DEF RestartApp, Call, Running, ChildrenAreHandled, NoOrphan
<1>4. CASE FinallyStop
  BY <1>4 DEF FinallyStop, Call, Running, ChildrenAreHandled, NoOrphan
<1>5. CASE Signal
  BY <1>5 DEF Signal, Running, ChildrenAreHandled, NoOrphan
<1>6. CASE Exit
  BY <1>6 DEF Exit, Running, ChildrenAreHandled, NoOrphan
<1>7. ASSUME NEW c \in Caller, CommandContinue(c) PROVE ChildrenAreHandled'
  <2>1. CASE op[c] = "restart"
    <3>1. loop' # "exited"
      BY <1>7 DEF CommandContinue
    <3> QED
      BY <1>1, <1>7, <2>1, <3>1, BirthIsHandled DEF CommandContinue, Continue
  <2>2. CASE op[c] # "restart"
    BY <1>7, <2>2
       DEF CommandContinue, Continue, Born, Running, ChildrenAreHandled, NoOrphan
  <2> QED
    BY <2>1, <2>2
<1>8. ASSUME NEW p \in Proc, ChildExit(p) PROVE ChildrenAreHandled'
  <2>1. Running' \subseteq Running \ {p}
    BY <1>1, <1>8 DEF ChildExit, ExitEvent, Running
  <2> QED
    BY <1>8, <2>1 DEF ChildExit, ExitEvent, ChildrenAreHandled, NoOrphan
<1>9. ASSUME NEW p \in Proc, KillTimeout(p) PROVE ChildrenAreHandled'
  <2>1. Running' = Running /\ killed \subseteq killed' /\ UNCHANGED <<handlers, loop>>
    BY <1>9 DEF KillTimeout, KillTimer, Running, cmdVars
  <2> QED
    BY <2>1 DEF ChildrenAreHandled, NoOrphan
<1>10. ASSUME NEW p \in Proc, ChildDies(p) PROVE ChildrenAreHandled'
  <2>1. Running' \subseteq Running /\ UNCHANGED <<killed, handlers, loop>>
    BY <1>1, <1>10 DEF ChildDies, Die, Running, cmdVars
  <2> QED
    BY <2>1 DEF ChildrenAreHandled, NoOrphan
<1> QED
  BY <1>2, <1>3, <1>4, <1>5, <1>6, <1>7, <1>8, <1>9, <1>10 DEF CommandNext

\* However many restarts are in flight, signals come and children die, the end
\* of the command leaves no application process that has not been killed.
THEOREM NothingIsLeftBehind == WatchSpec => []NoOrphan
<1>1. WatchInit => ChildrenAreHandled
  BY DEF WatchInit, CommandInit, Init, ChildrenAreHandled, NoOrphan, Running
<1>2. Budget /\ ChildrenAreHandled /\ [WatchNext]_watchVars => ChildrenAreHandled'
  <2> SUFFICES ASSUME Budget, ChildrenAreHandled, [WatchNext]_watchVars
               PROVE  ChildrenAreHandled'
    OBVIOUS
  <2>1. CASE CommandNext
    BY <2>1, NextKeepsHandled
  <2>2. CASE UNCHANGED allVars
    BY <2>2 DEF allVars, vars, cmdVars, ChildrenAreHandled, NoOrphan, Running
  <2> QED
    BY <2>1, <2>2, WatchStep
<1>3. ChildrenAreHandled => NoOrphan
  BY DEF ChildrenAreHandled
<1> QED
  BY <1>1, <1>2, <1>3, BudgetInvariant, PTL DEF WatchSpec

-----------------------------------------------------------------------------
(* The slot.                                                                *)

\* Call leaves every process as it is; with no other call under way, one that
\* finds no process to wait for goes on at once.
LEMMA CallKeepsSlot ==
    ASSUME Budget, OneAtATime, AllIdle,
           NEW c \in Caller, NEW kind \in {"restart", "stop"}, Call(c, kind)
    PROVE  /\ OneCall'
           /\ Running' = Running
           /\ Running' \subseteq {current'}
           /\ stopping' # NoProc => stopping' = current' /\ \E d \in Caller : pc'[d] = "awaiting"
           /\ \A d \in Caller : pc'[d] = "ready" => Running' = {}
<1>1. pc \in [Caller -> {"idle", "awaiting", "ready"}] /\ current \in Proc \union {NoProc}
      /\ proc \in [Proc -> {"unborn", "running", "dead", "gone"}]
  BY DEF Budget, CommandTypeOK, TypeOK
<1>2. Running' = Running /\ proc' = proc
  BY DEF Call, Running
<1>3. Running \subseteq {current} /\ Running \subseteq Proc
      /\ stopping = NoProc
  BY DEF OneAtATime, AllIdle, Running
<1>4. \A d \in Caller : d # c => pc'[d] = "idle"
  BY <1>1 DEF Call, StopCall, AllIdle
<1>5. CASE current = NoProc \/ HasExitCode(current)
  <2>1. Running = {}
    BY <1>1, <1>3, <1>5, NoProcAssumption DEF HasExitCode, Running
  <2>2. current' = NoProc /\ stopping' = stopping
    BY <1>5 DEF Call, StopCall
  <2>3. stopping' = NoProc
    BY <1>3, <1>5, <2>2
  <2> QED
    BY <1>2, <1>3, <1>4, <1>5, <2>1, <2>2, <2>3 DEF OneCall
<1>6. CASE ~(current = NoProc \/ HasExitCode(current))
  <2>1. pc' = [pc EXCEPT ![c] = "awaiting"] /\ current' = current
        /\ stopping' = current
    BY <1>3, <1>6 DEF Call, StopCall
  <2> QED
    BY <1>1, <1>2, <1>3, <1>4, <2>1 DEF OneCall
<1> QED
  BY <1>5, <1>6

\* A process is spawned where none is.
LEMMA SpawnFillsSlot ==
    ASSUME Budget, Running = {}, SpawnProcess, spawned + 1 \in Proc
    PROVE  Running' = {current'} /\ current' \in Proc
BY DEF Budget, CommandTypeOK, TypeOK, SpawnProcess, Running

\* Only the next process is born, and only what is born changes.
LEMMA NextKeepsUnborn ==
    ASSUME Budget, Unborn, CommandNext PROVE Unborn'
<1>1. spawned \in Nat /\ proc \in [Proc -> {"unborn", "running", "dead", "gone"}]
      /\ Proc \subseteq Nat
  BY DEF Budget, CommandTypeOK, TypeOK, Proc
<1>2. CASE UNCHANGED <<spawned, proc>>
  BY <1>2 DEF Unborn
<1>3. CASE SpawnProcess
  BY <1>1, <1>3 DEF SpawnProcess, Unborn
<1>4. ASSUME NEW p \in Proc, ExitEvent(p) \/ Die(p) PROVE Unborn'
  BY <1>1, <1>4 DEF ExitEvent, Die, Unborn
<1>5. ASSUME NEW hasErrors \in BOOLEAN, Compiled(hasErrors) PROVE Unborn'
  BY <1>2, <1>3, <1>5 DEF Compiled, Start, vars
<1>6. CASE RestartApp \/ Signal \/ FinallyStop \/ Exit
  BY <1>2, <1>6 DEF RestartApp, Signal, FinallyStop, Exit, Call
<1>7. ASSUME NEW c \in Caller, CommandContinue(c) PROVE Unborn'
  BY <1>2, <1>3, <1>7 DEF CommandContinue, Continue
<1>8. ASSUME NEW p \in Proc, ChildExit(p) \/ KillTimeout(p) \/ ChildDies(p) PROVE Unborn'
  BY <1>2, <1>4, <1>8 DEF ChildExit, KillTimeout, KillTimer, ChildDies
<1> QED
  BY <1>5, <1>6, <1>7, <1>8 DEF CommandNext

\* Without overlap: the timer and the finally block make their calls when no
\* other is under way, and a process is spawned when no other runs.
LEMMA NextKeepsOneAtATime ==
    ASSUME Budget, Unborn, OneAtATime, ~overlap, CommandNext PROVE OneAtATime'
<1>1. /\ spawned \in Nat /\ proc \in [Proc -> {"unborn", "running", "dead", "gone"}]
      /\ pc \in [Caller -> {"idle", "awaiting", "ready"}]
      /\ current \in Proc \union {NoProc} /\ stopping \in Proc \union {NoProc}
  BY DEF Budget, CommandTypeOK, TypeOK
<1>2. ASSUME NEW c \in Caller, NEW kind \in {"restart", "stop"}, Call(c, kind), AllIdle,
             ~timer', loop' # "closing"
      PROVE  OneAtATime'
  BY <1>2, CallKeepsSlot DEF OneAtATime
<1>3. ASSUME NEW hasErrors \in BOOLEAN, Compiled(hasErrors) PROVE OneAtATime'
  <2>1. AllIdle /\ loop' = "loop"
    BY <1>3 DEF Compiled, Admitted, AllIdle
  <2>2. CASE UNCHANGED vars
    BY <1>3, <2>1, <2>2
       DEF vars, OneAtATime, OneCall, AllIdle, Running
  <2>3. CASE Start
    <3>1. Running = {} /\ 1 \in Proc /\ spawned = 0
      BY <1>1, <2>3, MaxProcAssumption DEF Start, Unborn, Running, Proc
    <3>2. Running' = {current'} /\ current' = 1
      BY <2>3, <3>1, SpawnFillsSlot DEF Start, SpawnProcess
    <3>3. pc' = pc /\ stopping' = stopping /\ stopping = NoProc
      BY <2>1, <2>3 DEF Start, OneAtATime, AllIdle
    <3>4. proc' = [proc EXCEPT ![1] = "running"]
      BY <2>3, <3>1 DEF Start, SpawnProcess
    <3> QED
      BY <1>1, <2>1, <3>1, <3>2, <3>3, <3>4 DEF OneAtATime, OneCall, AllIdle
  <2> QED
    BY <1>3, <2>2, <2>3 DEF Compiled
<1>4. CASE RestartApp
  BY <1>2, <1>4 DEF RestartApp, OneAtATime
<1>5. CASE FinallyStop
  BY <1>2, <1>5, MainAssumption DEF FinallyStop, OneAtATime
<1>6. CASE Signal
  <2>1. UNCHANGED <<proc, current, stopping, pc>>
    BY <1>6 DEF Signal
  <2>2. loop = "loop" => AllIdle /\ ~timer'
    BY <1>6 DEF Signal, Admitted, AllIdle
  <2>3. loop # "loop" => loop' \in {loop, "exited"} /\ timer' = timer
    BY <1>6 DEF Signal
  <2> QED
    BY <2>1, <2>2, <2>3 DEF Signal, OneAtATime, OneCall, AllIdle, Running
<1>7. CASE Exit
  BY <1>7 DEF Exit, OneAtATime, OneCall, AllIdle, Running
<1>8. ASSUME NEW c \in Caller, CommandContinue(c) PROVE OneAtATime'
  <2>1. /\ pc[c] = "ready" /\ pc' = [pc EXCEPT ![c] = "idle"] /\ Running = {}
        /\ UNCHANGED <<stopping, timer>> /\ loop' \in {loop, "done"}
    BY <1>8 DEF CommandContinue, Continue, OneAtATime
  <2>2. (\A d \in Caller : pc'[d] = "idle") /\ ~timer /\ stopping = NoProc
    BY <1>1, <2>1 DEF OneAtATime, OneCall, AllIdle
  <2>3. CASE op[c] = "restart"
    <3>1. SpawnProcess /\ spawned + 1 \in Proc
      BY <1>8, <2>3, ContinueKeepsBudget DEF CommandContinue, Continue
    <3>2. Running' = {current'} /\ proc' = [proc EXCEPT ![spawned + 1] = "running"]
      BY <2>1, <3>1, SpawnFillsSlot DEF SpawnProcess
    <3> QED
      BY <1>1, <2>1, <2>2, <3>1, <3>2 DEF OneAtATime, OneCall, AllIdle
  <2>4. CASE op[c] # "restart"
    <3>1. UNCHANGED <<proc, current>>
      BY <1>8, <2>4 DEF CommandContinue, Continue
    <3> QED
      BY <2>1, <2>2, <3>1 DEF OneAtATime, OneCall, AllIdle, Running
  <2> QED
    BY <2>3, <2>4
<1>9. ASSUME NEW p \in Proc, ChildExit(p) PROVE OneAtATime'
  <2>1. /\ proc[p] = "dead" /\ proc' = [proc EXCEPT ![p] = "gone"]
        /\ UNCHANGED <<timer, loop>>
    BY <1>9 DEF ChildExit, ExitEvent
  <2>2. Running' = Running
    BY <1>1, <2>1 DEF Running
  <2>3. CASE stopping = p
    <3>1. current' = NoProc /\ stopping' = NoProc /\ Running = {}
      BY <1>1, <1>9, <2>1, <2>3, NoProcAssumption
         DEF ChildExit, ExitEvent, OneAtATime, Running
    <3>2. pc' = [c \in Caller |-> IF pc[c] = "awaiting" THEN "ready" ELSE pc[c]]
      BY <1>9, <2>3 DEF ChildExit, ExitEvent
    <3> QED
      BY <1>1, <2>1, <2>2, <3>1, <3>2 DEF OneAtATime, OneCall, AllIdle
  <2>4. CASE stopping # p
    <3>1. UNCHANGED <<current, stopping, pc>>
      BY <1>9, <2>4 DEF ChildExit, ExitEvent
    <3> QED
      BY <1>1, <2>1, <2>2, <2>4, <3>1 DEF OneAtATime, OneCall, AllIdle
  <2> QED
    BY <2>3, <2>4
<1>10. ASSUME NEW p \in Proc, KillTimeout(p) PROVE OneAtATime'
  BY <1>10 DEF KillTimeout, KillTimer, cmdVars, OneAtATime, OneCall, AllIdle, Running
<1>11. ASSUME NEW p \in Proc, ChildDies(p) PROVE OneAtATime'
  <2>1. /\ proc[p] = "running" /\ proc' = [proc EXCEPT ![p] = "dead"]
        /\ UNCHANGED <<current, stopping, pc, timer, loop>>
    BY <1>1, <1>11 DEF ChildDies, Die, cmdVars
  <2>2. Running' \subseteq Running
    BY <1>1, <2>1 DEF Running
  <2> QED
    BY <1>1, <2>1, <2>2 DEF OneAtATime, OneCall, AllIdle
<1> QED
  BY <1>3, <1>4, <1>5, <1>6, <1>7, <1>8, <1>9, <1>10, <1>11 DEF CommandNext

\* What is known of the slot is inductive, and `overlap` is chosen once.
LEMMA SlotInvariant == WatchSpec => []SlotInv
<1>1. WatchInit => SlotInv
  BY MaxProcAssumption DEF WatchInit, CommandInit, Init, SlotInv, Unborn, OneAtATime,
        OneCall, AllIdle, Running
<1>2. Budget /\ SlotInv /\ [WatchNext]_watchVars => SlotInv'
  <2> SUFFICES ASSUME Budget, SlotInv, [WatchNext]_watchVars PROVE SlotInv'
    OBVIOUS
  <2>1. CASE CommandNext
    <3>1. overlap' = overlap
      BY <2>1 DEF CommandNext, Compiled, RestartApp, Signal, FinallyStop, Exit,
                  CommandContinue, ChildExit, KillTimeout, ChildDies, cmdVars
    <3> QED
      BY <2>1, <3>1, NextKeepsUnborn, NextKeepsOneAtATime DEF SlotInv
  <2>2. CASE UNCHANGED allVars
    BY <2>2 DEF allVars, vars, cmdVars, SlotInv, Unborn, OneAtATime, OneCall, AllIdle,
                Running
  <2> QED
    BY <2>1, <2>2, WatchStep
<1> QED
  BY <1>1, <1>2, BudgetInvariant, PTL DEF WatchSpec

\* The slot and the calls asked, as AppSlot sees them.
SlotOf == IF overlap THEN {} ELSE Running
AskedOf == IF overlap THEN {} ELSE {c \in Caller : pc[c] # "idle"}

\* A call is asked for as it is made, and leaves the slot alone.
LEMMA CallIsAsked ==
    ASSUME Budget, ~overlap, ~overlap', NEW c \in Caller,
           NEW kind \in {"restart", "stop"}, Call(c, kind)
    PROVE  Slot!Ask(c)
<1>1. Running' = Running
  BY DEF Call, Running
<1>2. pc[c] = "idle" /\ pc \in [Caller -> {"idle", "awaiting", "ready"}]
      /\ pc' \in {[pc EXCEPT ![c] = "ready"], [pc EXCEPT ![c] = "awaiting"]}
  BY DEF Call, StopCall, Budget, CommandTypeOK, TypeOK
<1>3. {d \in Caller : pc'[d] # "idle"} = {d \in Caller : pc[d] # "idle"} \union {c}
  BY <1>2
<1> QED
  BY <1>1, <1>2, <1>3 DEF Slot!Ask

\* A step that leaves alone which processes run and which calls are pending.
LEMMA StepIsStutter ==
    ASSUME Running' = Running, overlap' = overlap,
           \A c \in Caller : pc'[c] = "idle" <=> pc[c] = "idle"
    PROVE  UNCHANGED <<SlotOf, AskedOf>>
BY DEF SlotOf, AskedOf

\* The step simulation: where calls do not overlap, every step of the command is
\* a step of the slot or leaves it as it is.
LEMMA NextIsSlotStep ==
    ASSUME Budget, SlotInv, CommandNext
    PROVE  Slot!Next \/ UNCHANGED <<SlotOf, AskedOf>>
<1> DEFINE Goal == Slot!Next \/ UNCHANGED <<SlotOf, AskedOf>>
<1>1. /\ spawned \in Nat /\ proc \in [Proc -> {"unborn", "running", "dead", "gone"}]
      /\ pc \in [Caller -> {"idle", "awaiting", "ready"}]
  BY DEF Budget, CommandTypeOK, TypeOK
<1>2. overlap' = overlap
  BY DEF CommandNext, Compiled, RestartApp, Signal, FinallyStop, Exit, CommandContinue,
         ChildExit, KillTimeout, ChildDies, cmdVars
<1>3. CASE overlap
  BY <1>2, <1>3 DEF SlotOf, AskedOf
<1>4. CASE ~overlap
  <2>1. OneAtATime /\ Unborn
    BY <1>4 DEF SlotInv
  <2>2. ASSUME NEW hasErrors \in BOOLEAN, Compiled(hasErrors) PROVE Goal
    <3>1. CASE UNCHANGED vars
      BY <1>2, <3>1, StepIsStutter DEF vars, Running
    <3>2. CASE Start
      <4>1. Running = {} /\ 1 \in Proc /\ spawned = 0
        BY <1>1, <2>1, <3>2, MaxProcAssumption DEF Start, Unborn, Running, Proc
      <4>2. Running' = {current'} /\ current' \in Proc /\ pc' = pc
        BY <3>2, <4>1, SpawnFillsSlot DEF Start
      <4>3. Slot!Start
        BY <1>2, <1>4, <4>1, <4>2 DEF Slot!Start
      <4> QED
        BY <4>3 DEF Slot!Next
    <3> QED
      BY <2>2, <3>1, <3>2 DEF Compiled
  <2>3. CASE RestartApp
    BY <1>2, <1>4, <2>3, CallIsAsked DEF RestartApp, Slot!Next
  <2>4. CASE FinallyStop
    BY <1>2, <1>4, <2>4, MainAssumption, CallIsAsked DEF FinallyStop, Slot!Next
  <2>5. CASE Signal \/ Exit
    BY <1>2, <2>5, StepIsStutter DEF Signal, Exit, Running
  <2>6. ASSUME NEW c \in Caller, CommandContinue(c) PROVE Goal
    <3>1. pc[c] = "ready" /\ pc' = [pc EXCEPT ![c] = "idle"] /\ Running = {}
      BY <2>1, <2>6 DEF CommandContinue, Continue, OneAtATime
    <3>2. {d \in Caller : pc'[d] # "idle"} = {d \in Caller : pc[d] # "idle"} \ {c}
      BY <1>1, <3>1
    <3>3. CASE op[c] = "restart"
      <4>1. Running' = {current'} /\ current' \in Proc
        BY <2>6, <3>1, <3>3, ContinueKeepsBudget, SpawnFillsSlot
           DEF CommandContinue, Continue
      <4>2. Slot!AnswerRestart(c)
        BY <1>2, <1>4, <3>1, <3>2, <4>1 DEF Slot!AnswerRestart
      <4> QED
        BY <4>2 DEF Slot!Next
    <3>4. CASE op[c] # "restart"
      <4>1. Running' = Running
        BY <2>6, <3>4 DEF CommandContinue, Continue, Running
      <4>2. Slot!AnswerStop(c)
        BY <1>2, <1>4, <3>1, <3>2, <4>1 DEF Slot!AnswerStop
      <4> QED
        BY <4>2 DEF Slot!Next
    <3> QED
      BY <3>3, <3>4
  <2>7. ASSUME NEW p \in Proc, ChildExit(p) PROVE Goal
    <3>1. Running' = Running
      BY <1>1, <2>7 DEF ChildExit, ExitEvent, Running
    <3>2. \A c \in Caller : pc'[c] = "idle" <=> pc[c] = "idle"
      BY <1>1, <2>7 DEF ChildExit, ExitEvent
    <3> QED
      BY <1>2, <3>1, <3>2, StepIsStutter
  <2>8. ASSUME NEW p \in Proc, KillTimeout(p) PROVE Goal
    BY <1>2, <2>8, StepIsStutter DEF KillTimeout, KillTimer, Running
  <2>9. ASSUME NEW p \in Proc, ChildDies(p) PROVE Goal
    <3>1. Running = {p} /\ Running' = {} /\ pc' = pc
      BY <1>1, <2>1, <2>9 DEF ChildDies, Die, OneAtATime, Running
    <3>2. Slot!Die
      BY <1>2, <1>4, <3>1 DEF Slot!Die
    <3> QED
      BY <3>2 DEF Slot!Next
  <2> QED
    BY <2>2, <2>3, <2>4, <2>5, <2>6, <2>7, <2>8, <2>9 DEF CommandNext
<1> QED
  BY <1>3, <1>4

\* The process manager under the watch loop implements AppSlot: as long as calls
\* do not overlap there is at most one application process, a restart launches
\* it into the empty slot, and a stop is answered once the slot is empty.
THEOREM CommandImplementsSlot == WatchSpec => ImplementsSlot
<1>1. WatchInit => Slot!Init
  BY DEF WatchInit, CommandInit, Init, Slot!Init, Running
<1>2. Budget /\ SlotInv /\ [WatchNext]_watchVars => [Slot!Next]_<<SlotOf, AskedOf>>
  <2> SUFFICES ASSUME Budget, SlotInv, [WatchNext]_watchVars
               PROVE  Slot!Next \/ UNCHANGED <<SlotOf, AskedOf>>
    OBVIOUS
  <2>1. CASE CommandNext
    BY <2>1, NextIsSlotStep
  <2>2. CASE UNCHANGED allVars
    BY <2>2, StepIsStutter DEF allVars, vars, cmdVars, Running
  <2> QED
    BY <2>1, <2>2, WatchStep
<1> QED
  BY <1>1, <1>2, BudgetInvariant, SlotInvariant, PTL
     DEF WatchSpec, ImplementsSlot, Slot!Spec, SlotOf, AskedOf
=============================================================================
