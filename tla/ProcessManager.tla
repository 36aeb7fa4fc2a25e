---------------------------- MODULE ProcessManager ----------------------------
(***************************************************************************)
(* The class ProcessManager of packages/cli/src/runner/process-manager.ts: *)
(* it spawns the application as a child process, stops it (SIGTERM, and    *)
(* SIGKILL after killTimeout) and restarts it.  Each action is one turn of *)
(* the JavaScript thread: the synchronous part of a call, the continuation *)
(* of an await, a timer or an event of a child process.  The child         *)
(* processes run beside it.                                                *)
(***************************************************************************)
EXTENDS Naturals, FiniteSets

CONSTANTS
    MaxProc,    \* bound: the number of processes ever spawned
    Caller,     \* the calls of restart() and stop() that can be pending
    CrashModes, \* how a child can end by itself: with a "code" or by a "signal"
    NoProc      \* null

Proc == 1..MaxProc

ASSUME MaxProcAssumption == MaxProc \in Nat \ {0}
ASSUME NoProcAssumption == NoProc \notin Proc
ASSUME CallerAssumption == IsFiniteSet(Caller)
ASSUME CrashModesAssumption == CrashModes \subseteq {"code", "signal"}

VARIABLES
    spawned,    \* how many processes have been spawned
    proc,       \* "running", "dead" (the exit event is still to come), "gone"
    death,      \* how a process ended
    termed,     \* the processes that were sent SIGTERM
    killed,     \* the processes that were sent SIGKILL
    current,    \* this.current
    stopping,   \* the process this.stoppingPromise waits for
    killTimers, \* the processes whose kill timer is armed
    pc,         \* where each call is: "idle", "awaiting" stop(), "ready" to go on
    op          \* what each call is: "restart" or "stop"

vars == <<spawned, proc, death, termed, killed, current, stopping,
          killTimers, pc, op>>

TypeOK ==
    /\ spawned \in 0..MaxProc
    /\ proc \in [Proc -> {"unborn", "running", "dead", "gone"}]
    /\ death \in [Proc -> {"none", "code", "signal"}]
    /\ termed \subseteq Proc /\ killed \subseteq Proc /\ killTimers \subseteq Proc
    /\ current \in Proc \union {NoProc}
    /\ stopping \in Proc \union {NoProc}
    /\ pc \in [Caller -> {"idle", "awaiting", "ready"}]
    /\ op \in [Caller -> {"restart", "stop"}]

Init ==
    /\ spawned = 0
    /\ proc = [p \in Proc |-> "unborn"]
    /\ death = [p \in Proc |-> "none"]
    /\ termed = {} /\ killed = {} /\ killTimers = {}
    /\ current = NoProc /\ stopping = NoProc
    /\ pc = [c \in Caller |-> "idle"]
    /\ op = [c \in Caller |-> "stop"]

-----------------------------------------------------------------------------
Running == {p \in Proc : proc[p] = "running"}

\* ChildProcess.exitCode stays null when the child was ended by a signal.
HasExitCode(p) == proc[p] = "gone" /\ death[p] = "code"

\* So the manager goes on holding such a child for one that runs.
EndUnnoticed == current # NoProc /\ proc[current] = "gone" /\ ~HasExitCode(current)

\* Continuations of promises run before the next timer or event.
Quiet == \A c \in Caller : pc[c] # "ready"

PendingRestarts == {c \in Caller : pc[c] # "idle" /\ op[c] = "restart"}
MaySpawn == spawned + Cardinality(PendingRestarts) < MaxProc

\* spawnProcess and the assignment of its result to this.current.
SpawnProcess ==
    /\ spawned' = spawned + 1
    /\ proc' = [proc EXCEPT ![spawned + 1] = "running"]
    /\ current' = spawned + 1

-----------------------------------------------------------------------------
\* start(): called once, before anything else, by the start command.
Start ==
    /\ spawned = 0
    /\ \A c \in Caller : pc[c] = "idle"
    /\ SpawnProcess
    /\ UNCHANGED <<death, termed, killed, stopping, killTimers, pc, op>>

\* Mistakes: stop() forgets the process as soon as SIGTERM is sent; it arms no
\* timer to force the end.
StopCallUnawaited(c) ==
    /\ current' = NoProc
    /\ termed' = IF current = NoProc THEN termed ELSE termed \union {current}
    /\ pc' = [pc EXCEPT ![c] = "ready"]
    /\ UNCHANGED <<stopping, killTimers>>
StopCallUntimed(c) ==
    IF current = NoProc \/ HasExitCode(current)
    THEN /\ current' = NoProc
         /\ pc' = [pc EXCEPT ![c] = "ready"]
         /\ UNCHANGED <<stopping, termed, killTimers>>
    ELSE /\ pc' = [pc EXCEPT ![c] = "awaiting"]
         /\ stopping' = current
         /\ termed' = termed \union {current}
         /\ UNCHANGED <<current, killTimers>>

\* The synchronous part of stop(): a resolved promise, the promise of the stop
\* that is under way, or a new one with its listeners, SIGTERM and kill timer.
StopCall(c) ==
    IF current = NoProc \/ HasExitCode(current)
    THEN /\ current' = NoProc
         /\ pc' = [pc EXCEPT ![c] = "ready"]
         /\ UNCHANGED <<stopping, termed, killTimers>>
    ELSE /\ pc' = [pc EXCEPT ![c] = "awaiting"]
         /\ IF stopping # NoProc
            THEN UNCHANGED <<stopping, termed, killTimers>>
            ELSE /\ stopping' = current
                 /\ termed' = termed \union {current}
                 /\ killTimers' = killTimers \union {current}
         /\ UNCHANGED current

Call(c, kind) ==
    /\ pc[c] = "idle"
    /\ kind = "restart" => MaySpawn
    /\ StopCall(c)
    /\ op' = [op EXCEPT ![c] = kind]
    /\ UNCHANGED <<spawned, proc, death, killed>>

\* The continuation of `await this.stop()`.
Continue(c) ==
    /\ pc[c] = "ready"
    /\ pc' = [pc EXCEPT ![c] = "idle"]
    /\ IF op[c] = "restart" THEN SpawnProcess
                            ELSE UNCHANGED <<spawned, proc, current>>
    /\ UNCHANGED <<death, termed, killed, stopping, killTimers, op>>

\* The exit event of a child: the listener `done` that stop() has registered
\* on it resolves the promise, and with it every call that awaits it.
ExitEvent(p) ==
    /\ Quiet
    /\ proc[p] = "dead"
    /\ proc' = [proc EXCEPT ![p] = "gone"]
    /\ IF stopping = p
       THEN /\ current' = NoProc
            /\ stopping' = NoProc
            /\ killTimers' = killTimers \ {p}
            /\ pc' = [c \in Caller |-> IF pc[c] = "awaiting" THEN "ready" ELSE pc[c]]
       ELSE UNCHANGED <<current, stopping, killTimers, pc>>
    /\ UNCHANGED <<spawned, death, termed, killed, op>>

\* killTimeout has passed.
KillTimer(p) ==
    /\ Quiet
    /\ p \in killTimers
    /\ killTimers' = killTimers \ {p}
    /\ killed' = IF HasExitCode(p) THEN killed ELSE killed \union {p}
    /\ UNCHANGED <<spawned, proc, death, termed, current, stopping, pc, op>>

\* External: a child ends by itself, because of SIGTERM (which it may also
\* catch or ignore) or because of SIGKILL.
Die(p) ==
    /\ proc[p] = "running"
    /\ \E how \in IF p \in killed THEN {"signal"}
                  ELSE IF p \in termed THEN {"code", "signal"} ELSE CrashModes :
          death' = [death EXCEPT ![p] = how]
    /\ proc' = [proc EXCEPT ![p] = "dead"]
    /\ UNCHANGED <<spawned, termed, killed, current, stopping, killTimers, pc, op>>
=============================================================================
