------------------------------- MODULE WatchMode ------------------------------
(***************************************************************************)
(* `holu start` with its asset watcher: runWatchMode of packages/cli/src/  *)
(* commands/start.command.ts.  The watcher is started, and has copied what *)
(* there is, before the compiler is; the finally block closes both.  The   *)
(* command and its watcher share the JavaScript thread.                    *)
(*                                                                         *)
(* The asset watcher, packages/cli/src/assets/asset-watcher.ts: the files  *)
(* that match the globs are copied from the source to the output           *)
(* directory, first all of them, then each one that changes.  The file     *)
(* system and fs.watch are those of Node.js: other programs change files   *)
(* between any two calls of them, and a change is reported, once or        *)
(* several times, at some time after it.  A copy fails only if its file is *)
(* gone.                                                                   *)
(***************************************************************************)
EXTENDS StartCommand

CONSTANTS
    Asset,      \* the paths for which isAsset is true
    MaxEdits    \* bound: how often files change

ASSUME MaxEditsAssumption == MaxEdits \in Nat

VARIABLES
    src,        \* the contents of the source directory; 0: there is no file
    out,        \* that of the output directory
    watcher,    \* "absent" (no AssetWatcher), "scanning", "open", "failed", "closed"
    entries,    \* what readdirSync has found and initialScan has not copied yet
    unreported, \* changes that fs.watch is going to report
    debounceTimers,
    handling,   \* the synchronous call of handleChange: [file, exists] or none
    edits,      \* history: the number of changes
    missed      \* history: changed, or already gone, where nothing was watching

assetVars == <<src, out, watcher, entries, unreported, debounceTimers, handling,
               edits, missed>>

NotHandling == [file |-> "none", exists |-> FALSE]
Contents == 0..(MaxEdits + 1)

AssetTypeOK ==
    /\ src \in [Asset -> Contents] /\ out \in [Asset -> Contents]
    /\ watcher \in {"absent", "scanning", "open", "failed", "closed"}
    /\ entries \subseteq Asset /\ unreported \subseteq Asset
    /\ debounceTimers \subseteq Asset /\ missed \subseteq Asset
    /\ handling \in {NotHandling} \union [file : Asset, exists : BOOLEAN]
    /\ edits \in 0..MaxEdits

(* start(): readdirSync has listed the files.  The output directory holds   *)
(* what an earlier run has left.                                            *)
AssetInit ==
    /\ src \in [Asset -> {0, 1}] /\ out \in [Asset -> {0, 1}]
    /\ watcher \in {"absent", "scanning"}
    /\ entries = {f \in Asset : src[f] # 0 /\ watcher = "scanning"}
    /\ unreported = {} /\ debounceTimers = {}
    /\ handling = NotHandling
    /\ edits = 0
    /\ missed = {f \in Asset : src[f] = 0 /\ out[f] # 0}

(* JavaScript code of the watcher is running, so that nothing else is.      *)
Busy == watcher = "scanning" \/ handling # NotHandling

-----------------------------------------------------------------------------
(* Another program writes a file or removes it.                             *)
Edit(f) ==
    /\ watcher \in {"scanning", "open"}
    /\ edits < MaxEdits
    /\ edits' = edits + 1
    /\ \/ src' = [src EXCEPT ![f] = edits + 2]
       \/ src[f] # 0 /\ src' = [src EXCEPT ![f] = 0]
    /\ IF watcher = "open"
       THEN unreported' = unreported \union {f} /\ missed' = missed \ {f}
       ELSE unreported' = unreported /\ missed' = missed \union {f}
    /\ UNCHANGED <<out, watcher, entries, debounceTimers, handling>>

(* copyAsset; if the file is gone the error is emitted and that is all.     *)
CopyAsset(f) == out' = IF src[f] = 0 THEN out ELSE [out EXCEPT ![f] = src[f]]

(* removeAsset.                                                             *)
RemoveAsset(f) == out' = [out EXCEPT ![f] = 0]

(* initialScan copies the next file.                                        *)
ScanOne(f) ==
    /\ watcher = "scanning" /\ f \in entries
    /\ CopyAsset(f)
    /\ entries' = entries \ {f}
    /\ missed' = IF src[f] # 0 THEN missed \ {f} ELSE missed
    /\ UNCHANGED <<src, watcher, unreported, debounceTimers, handling, edits>>

(* fs.watch, which throws if there is no such directory.                    *)
StartWatching ==
    /\ watcher = "scanning" /\ entries = {}
    /\ watcher' \in {"open", "failed"}
    /\ UNCHANGED <<src, out, entries, unreported, debounceTimers, handling, edits,
                   missed>>

\* The 'change' event of the watcher, and debouncedHandleChange: the timer
\* starts anew.  The watcher may report the same change again.
Reported(f) ==
    /\ watcher = "open" /\ ~Busy /\ f \in unreported
    /\ unreported' \in {unreported, unreported \ {f}}
    /\ debounceTimers' = debounceTimers \union {f}
    /\ UNCHANGED <<src, out, watcher, entries, handling, edits, missed>>

\* The timer fires; handleChange asks whether the file exists.
TimerFires(f) ==
    /\ ~Busy /\ f \in debounceTimers
    /\ debounceTimers' = debounceTimers \ {f}
    /\ handling' = [file |-> f, exists |-> src[f] # 0]
    /\ UNCHANGED <<src, out, watcher, entries, unreported, edits, missed>>

\* A mistake: a file that is gone is left where it was copied to.
HandleCopying ==
    /\ handling # NotHandling
    /\ CopyAsset(handling.file)
    /\ handling' = NotHandling
    /\ UNCHANGED <<src, watcher, entries, unreported, debounceTimers, edits, missed>>

\* The rest of handleChange, in the same turn.
Handle ==
    /\ handling # NotHandling
    /\ IF handling.exists THEN CopyAsset(handling.file) ELSE RemoveAsset(handling.file)
    /\ handling' = NotHandling
    /\ UNCHANGED <<src, watcher, entries, unreported, debounceTimers, edits, missed>>

\* close(); nothing is there to close if the command watches no assets.
CloseWatcher ==
    /\ watcher' = IF watcher = "absent" THEN watcher ELSE "closed"
    /\ unreported' = {} /\ debounceTimers' = {}
    /\ UNCHANGED <<src, out, entries, handling, edits, missed>>

AssetNext ==
    \/ \E f \in Asset : Edit(f) \/ ScanOne(f) \/ Reported(f) \/ TimerFires(f)
    \/ StartWatching
    \/ Handle

-----------------------------------------------------------------------------
(* The command and its watcher.                                             *)

\* Bound: how many builds there are beside an asset watcher.
BuildsBesideAssets == 1

watchVars == <<allVars, assetVars>>

WatchInit == CommandInit /\ AssetInit

\* A turn of the command; the first signal leads to the finally block.
CommandTurn(A) ==
    /\ ~Busy
    /\ A
    /\ watcher # "absent" => builds' <= BuildsBesideAssets
    /\ IF loop = "loop" /\ loop' = "closing" THEN CloseWatcher ELSE UNCHANGED assetVars

\* A turn of the watcher, or what other programs do meanwhile.
AssetTurn(A) ==
    /\ loop # "exited" /\ Quiet
    /\ A
    /\ UNCHANGED allVars

WatchNext == CommandTurn(CommandNext) \/ AssetTurn(AssetNext)

\* The event loop goes round and changes are reported; no file, build or signal
\* needs to come.
WatchFairness ==
    /\ WF_watchVars(CommandTurn(RestartApp))
    /\ WF_watchVars(CommandTurn(FinallyStop))
    /\ WF_watchVars(CommandTurn(Exit))
    /\ \A c \in Caller : WF_watchVars(CommandTurn(CommandContinue(c)))
    /\ \A p \in Proc : /\ WF_watchVars(CommandTurn(ChildExit(p)))
                       /\ WF_watchVars(CommandTurn(KillTimeout(p)))
                       /\ WF_watchVars(CommandTurn(p \in killed /\ ChildDies(p)))
    /\ WF_watchVars(AssetTurn(StartWatching)) /\ WF_watchVars(AssetTurn(Handle))
    /\ \A f \in Asset : /\ WF_watchVars(AssetTurn(ScanOne(f)))
                        /\ WF_watchVars(AssetTurn(Reported(f)))
                        /\ WF_watchVars(AssetTurn(TimerFires(f)))

WatchSpec == WatchInit /\ [][WatchNext]_watchVars /\ WatchFairness

-----------------------------------------------------------------------------
\* "mirrors changes into the output directory": while the watcher is open, and
\* once files no longer change, every asset is in the output directory as it is
\* in the source directory, unless its last change was not seen: it came before
\* the directory was watched, and after the file was copied or to remove it.
AssetsAreMirrored ==
    \A f \in Asset :
        <>[](watcher # "open" \/ loop = "exited" \/ f \in missed \/ out[f] = src[f])
=============================================================================
