------------------------------- MODULE AppSlot -------------------------------
(***************************************************************************)
(* What the process manager of the CLI promises to a caller that uses it   *)
(* one call at a time (the comments of cli/src/runner/process-manager.ts): *)
(* the port of the application is a slot that holds at most one process.   *)
(* A restart is answered by launching a process into the empty slot, a     *)
(* stop is answered once the slot is empty.                                *)
(***************************************************************************)
CONSTANTS
    Proc,       \* processes
    Caller      \* pending calls of restart() and stop()

VARIABLES
    slot,       \* the living application processes
    asked       \* the calls that are not answered yet

Init == slot = {} /\ asked = {}

Start == slot = {} /\ (\E p \in Proc : slot' = {p}) /\ UNCHANGED asked

Ask(c) == c \notin asked /\ asked' = asked \union {c} /\ UNCHANGED slot

Die == slot # {} /\ slot' = {} /\ UNCHANGED asked

AnswerRestart(c) ==
    /\ c \in asked
    /\ slot = {}
    /\ \E p \in Proc : slot' = {p}
    /\ asked' = asked \ {c}

AnswerStop(c) == c \in asked /\ slot = {} /\ asked' = asked \ {c} /\ UNCHANGED slot

Next ==
    \/ Start
    \/ Die
    \/ \E c \in Caller : Ask(c) \/ AnswerRestart(c) \/ AnswerStop(c)

Spec == Init /\ [][Next]_<<slot, asked>>
=============================================================================
