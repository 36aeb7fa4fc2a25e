------------------------------ MODULE Transaction ----------------------------
(***************************************************************************)
(* What MutableModuleRegistry promises of its transactions                 *)
(* (packages/core/src/init/mutable-module-registry.ts), without the graph: *)
(* a value that is loaded once, changed under a backup that the first      *)
(* change takes, and either restored from that backup or committed.        *)
(* MutableModuleRegistry implements it with graphs for values; AppReinit   *)
(* uses it with sets of imported modules.                                  *)
(***************************************************************************)
CONSTANTS
    Value,      \* what is changed
    Unloaded,   \* the values before anything is loaded
    Nothing     \* the backup when no transaction is open

VARIABLES current, backup

vars == <<current, backup>>

Init == current \in Unloaded /\ backup = Nothing

IsOpen == backup # Nothing

(* The backup after startTransaction.                                       *)
Opened == IF IsOpen THEN backup ELSE current

Load(v) ==
    /\ current \in Unloaded
    /\ current' = v
    /\ UNCHANGED backup

Begin ==
    /\ backup' = Opened
    /\ UNCHANGED current

Change(v) ==
    /\ current' = v
    /\ backup' = Opened

Undo ==
    /\ IsOpen
    /\ current' = backup
    /\ backup' = Nothing

Commit ==
    /\ backup' = Nothing
    /\ UNCHANGED current

Next ==
    \/ current' \in Value /\ (Load(current') \/ Change(current'))
    \/ Begin
    \/ Undo
    \/ Commit

Spec == Init /\ [][Next]_vars
=============================================================================
