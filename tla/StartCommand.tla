----------------------------- MODULE StartCommand -----------------------------
(***************************************************************************)
(* The watch loop of `holu start` (packages/cli/src/commands/              *)
(* start.command.ts) on top of the process manager: the compiler emits     *)
(* 'compiled' events; the first good one starts the application, each      *)
(* later one re-arms a timer that restarts it, without waiting for the     *)
(* restart before.  A signal (one kind of signal, Ctrl+C) aborts the loop. *)
(* The loop body is synchronous, so an event is consumed in the turn that  *)
(* emits it.                                                               *)
(***************************************************************************)
EXTENDS ProcessManager

CONSTANTS
    MaxBuilds,  \* bound: the number of 'compiled' events
    Main        \* the stop() of the finally block; the other calls restart

ASSUME MainAssumption == Main \in Caller
ASSUME MaxBuildsAssumption == MaxBuilds \in Nat /\ MaxBuilds <= MaxProc

VARIABLES
    builds,     \* history: the number of 'compiled' events
    good,       \* history: how many of them were without errors
    bornAt,     \* history: how many were when a process was spawned
    started,    \* started
    timer,      \* whether restartTimer is armed
    loop,       \* "loop", "closing", "stopping" and "done" (the finally block
                \* and after), "exited" (the command itself has ended)
    handlers,   \* the children whose handler for the signal is registered
    overlap     \* do builds and signals come while a call is pending? (constant)

cmdVars == <<builds, good, bornAt, started, timer, loop, handlers, overlap>>
allVars == <<vars, cmdVars>>

CommandTypeOK ==
    /\ TypeOK
    /\ builds \in 0..MaxBuilds /\ good \in 0..builds
    /\ bornAt \in [Proc -> 0..MaxBuilds]
    /\ started \in BOOLEAN /\ timer \in BOOLEAN
    /\ loop \in {"loop", "closing", "stopping", "done", "exited"}
    /\ handlers \subseteq Proc
    /\ overlap \in BOOLEAN

CommandInit ==
    /\ Init
    /\ builds = 0 /\ good = 0
    /\ bornAt = [p \in Proc |-> 0]
    /\ started = FALSE /\ timer = FALSE
    /\ loop = "loop"
    /\ handlers = {}
    /\ overlap \in BOOLEAN

(* A build or the first signal can come now.                                *)
Admitted == overlap \/ \A c \in Caller : pc[c] = "idle"

-----------------------------------------------------------------------------
\* spawnProcess registers handlers on the command's own signals and exit.
Born ==
    /\ handlers' = IF spawned' = spawned THEN handlers ELSE handlers \union {spawned'}
    /\ bornAt' = IF spawned' = spawned THEN bornAt ELSE [bornAt EXCEPT ![spawned'] = good']

\* A mistake: a build that comes while the timer is armed cancels it.
CompiledCancelling(hasErrors) ==
    /\ loop = "loop" /\ Quiet /\ Admitted /\ builds < MaxBuilds
    /\ builds' = builds + 1
    /\ good' = IF hasErrors THEN good ELSE good + 1
    /\ IF hasErrors THEN UNCHANGED <<vars, started, timer>>
       ELSE IF ~started THEN Start /\ started' = TRUE /\ UNCHANGED timer
       ELSE timer' = ~timer /\ UNCHANGED <<vars, started>>
    /\ Born /\ UNCHANGED <<loop, overlap>>

\* One iteration of the for await loop.
Compiled(hasErrors) ==
    /\ loop = "loop" /\ Quiet /\ Admitted /\ builds < MaxBuilds
    /\ builds' = builds + 1
    /\ good' = IF hasErrors THEN good ELSE good + 1
    /\ IF hasErrors THEN UNCHANGED <<vars, started, timer>>
       ELSE IF ~started THEN Start /\ started' = TRUE /\ UNCHANGED timer
       ELSE timer' = TRUE /\ UNCHANGED <<vars, started>>
    /\ Born /\ UNCHANGED <<loop, overlap>>

\* restartApp: the call of restart(), in the turn of the timer.
RestartApp ==
    /\ loop # "exited" /\ Quiet /\ timer
    /\ timer' = FALSE
    /\ \E c \in Caller \ {Main} : Call(c, "restart")
    /\ UNCHANGED <<builds, good, bornAt, started, loop, handlers, overlap>>

\* The signal: the first one aborts the loop (the finally block clears the
\* timer and closes the compiler); the handler of every child, used once,
\* kills the group of that child.  With no handler left the signal ends the
\* command at once, without its exit event.
Signal ==
    /\ loop # "exited" /\ Quiet
    /\ loop = "loop" => Admitted
    /\ IF loop = "loop"
       THEN loop' = "closing" /\ timer' = FALSE
       ELSE /\ loop' = IF handlers = {} THEN "exited" ELSE loop
            /\ UNCHANGED timer
    /\ killed' = killed \union handlers
    /\ handlers' = {}
    /\ UNCHANGED <<spawned, proc, death, termed, current, stopping, killTimers,
                   pc, op, builds, good, bornAt, started, overlap>>

\* `await assetWatcher?.close()` is over: the finally block calls stop().
FinallyStop ==
    /\ loop = "closing"
    /\ Call(Main, "stop")
    /\ loop' = "stopping"
    /\ UNCHANGED <<builds, good, bornAt, started, timer, handlers, overlap>>

\* A continuation of restart(), or the end of the finally block.
CommandContinue(c) ==
    /\ loop # "exited"
    /\ Continue(c)
    /\ loop' = IF c = Main THEN "done" ELSE loop
    /\ UNCHANGED good
    /\ Born
    /\ UNCHANGED <<builds, started, timer, overlap>>

\* removeListeners runs with the exit event of a child.
ChildExit(p) ==
    /\ loop # "exited"
    /\ ExitEvent(p)
    /\ handlers' = handlers \ {p}
    /\ UNCHANGED <<builds, good, bornAt, started, timer, loop, overlap>>

KillTimeout(p) == loop # "exited" /\ KillTimer(p) /\ UNCHANGED cmdVars

\* Mistakes: the exit handler kills the current process only; the command
\* stays alive until stop() has resolved.
ExitKillingCurrent ==
    /\ loop \in {"stopping", "done"} /\ Quiet
    /\ loop' = "exited"
    /\ killed' = killed \union ({current} \ {NoProc})
    /\ UNCHANGED <<spawned, proc, death, termed, current, stopping, killTimers, pc,
                   op, builds, good, bornAt, started, timer, handlers,
                   overlap>>

ExitWhenDone ==
    /\ loop = "done" /\ Quiet
    /\ loop' = "exited"
    /\ killed' = killed \union {p \in Proc : proc[p] \in {"running", "dead"}}
    /\ UNCHANGED <<spawned, proc, death, termed, current, stopping, killTimers, pc,
                   op, builds, good, bornAt, started, timer, handlers,
                   overlap>>

\* Children and kill timers are unref'd: once the compiler and the watcher are
\* closed nothing keeps the command alive, not even a stop() it still awaits.
\* Its exit event kills the group of every child whose listeners are there.
Exit ==
    /\ loop \in {"stopping", "done"} /\ Quiet
    /\ loop' = "exited"
    /\ killed' = killed \union {p \in Proc : proc[p] \in {"running", "dead"}}
    /\ UNCHANGED <<spawned, proc, death, termed, current, stopping, killTimers, pc,
                   op, builds, good, bornAt, started, timer, handlers,
                   overlap>>

ChildDies(p) == Die(p) /\ UNCHANGED cmdVars

CommandNext ==
    \/ \E hasErrors \in BOOLEAN : Compiled(hasErrors)
    \/ RestartApp
    \/ Signal
    \/ FinallyStop
    \/ Exit
    \/ \E c \in Caller : CommandContinue(c)
    \/ \E p \in Proc : ChildExit(p) \/ KillTimeout(p) \/ ChildDies(p)

\* The event loop goes round; neither builds nor signals need to come.
CommandFairness ==
    /\ WF_allVars(RestartApp) /\ WF_allVars(FinallyStop) /\ WF_allVars(Exit)
    /\ \A c \in Caller : WF_allVars(CommandContinue(c))
    /\ \A p \in Proc : /\ WF_allVars(ChildExit(p))
                       /\ WF_allVars(KillTimeout(p))
                       /\ WF_allVars(p \in killed /\ ChildDies(p))

CommandSpec == CommandInit /\ [][CommandNext]_allVars /\ CommandFairness

-----------------------------------------------------------------------------
\* However the command ends, restarts in flight or not, no application
\* process that has not been killed is left behind.
NoOrphan == loop = "exited" => Running \subseteq killed

\* A process is spawned for every good build, or for a later one, unless the
\* command is told to end or the manager has missed the end of a child:
\* debouncing and overlapping restarts lose no build.
LatestBuildIsServed ==
    \A n \in 1..MaxBuilds :
        good = n ~> (loop # "loop" \/ EndUnnoticed \/ \E p \in 1..spawned : bornAt[p] >= n)

\* As long as calls do not overlap, the manager keeps the promise of AppSlot:
\* one process, a restart that launches it into the empty slot, a stop that is
\* answered once the slot is empty, whatever builds, crashes and signals come.
Slot == INSTANCE AppSlot WITH
    slot <- IF overlap THEN {} ELSE Running,
    asked <- IF overlap THEN {} ELSE {c \in Caller : pc[c] # "idle"}
ImplementsSlot == Slot!Spec

\* Every restart() and stop() comes to an end, whether the child obeys SIGTERM,
\* ignores it, or ends while it is being stopped, unless a child that nobody was
\* stopping has been ended by a signal, or the command has ended first.
CallsEndIfNoticed ==
    \A c \in Caller :
        pc[c] # "idle" ~> (pc[c] = "idle" \/ EndUnnoticed \/ loop = "exited")
=============================================================================
