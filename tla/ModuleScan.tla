------------------------------ MODULE ModuleScan ------------------------------
(***************************************************************************)
(* The recursion of scanModule (packages/core/src/init/module-registry.ts: *)
(* 104-126) as it is written: call by call, over the children in any order *)
(* in which the decorators can list them.  MutableModuleRegistry takes a   *)
(* whole scan for one function of the graph, ScanModule; here a scan that  *)
(* an operation of the registry makes is walked through beside it, on a    *)
(* graph of its own, and what it ends with is compared with that function. *)
(***************************************************************************)
EXTENDS AppProviders, SequencesExt

VARIABLE
    scan    \* graph, scanningModules and the calls of scanModule under way,
            \* what was called, and if it runs, has returned or has thrown

allVars == <<vars, providersVars, scan>>

Idle == [phase |-> "idle"]
RegistryInit == ProvidersInit /\ scan = Idle

(* The scans that can begin on the current graph: that of scanRootModule,   *)
(* or those of the additions that are not refused.                          *)
Scans ==
    IF graph.metas = {}
    THEN {<<EmptyGraph, Root>>}
    ELSE {<<AddChild([graph EXCEPT !.imports[r[2]] = @ \union {r[1]}], r[2], r[1]), r[1]>> :
              r \in {q \in Requests : q[2] \in graph.metas /\ q[1] \notin graph.imports[q[2]]}}

IsVisited(s, child) == child \in s.scanning \/ child \in s.graph.scanned

(* setMeta: the metadata, its id and its application providers.             *)
SetMeta(g, m) ==
    [g EXCEPT !.metas = @ \union {m},
              !.imports[m] = Imports[m],
              !.ids = @ \union ({m} \intersect WithId),
              !.app[m] = IF m \in PerApp \ {Root} THEN SaturatingAdd(@, 1) ELSE @]

BeginScanning(s, m) == [s EXCEPT !.scanning = @ \union {m}]

\* A mistake: a module is marked as scanned once, by whoever scans it last.
FinishScanningLast(s, m) ==
    [s EXCEPT !.scanning = @ \ {m},
              !.graph.scanned = IF s.scanning = {m} THEN @ \union {m} ELSE @]

FinishScanning(s, m) ==
    [s EXCEPT !.scanning = @ \ {m}, !.graph.scanned = @ \union {m}]

-----------------------------------------------------------------------------
(* The calls that are under way, the last one at work: a module, and its    *)
(* children that the loop has not come to.                                  *)

(* The call scanModule(m) up to its loop: normalizeMeta throws for a        *)
(* malformed module; the children are entered in childrenMap before any of  *)
(* them is scanned.                                                         *)
Called(s, m) ==
    IF m \in Malformed THEN [s EXCEPT !.phase = "thrown"]
    ELSE [s EXCEPT !.graph.children[m] = ToScan(m),
                   !.calls = Append(@, [mod |-> m, todo |-> ToScan(m)])]

Taken(s, child) == [s EXCEPT !.calls[Len(s.calls)].todo = @ \ {child}]

BeginScan ==
    /\ scan = Idle
    /\ \E of \in Scans :
          scan' = Called([phase |-> "running", of |-> of, graph |-> of[1], scanning |-> {},
                          calls |-> <<>>], of[2])

\* One turn of the loop.
VisitChild ==
    /\ scan.phase = "running"
    /\ \E child \in Last(scan.calls).todo :
          scan' = IF IsVisited(scan, child) THEN Taken(scan, child)
                  ELSE Called(BeginScanning(Taken(scan, child), child), child)

\* After the loop: the metadata is stored, and the caller goes on.
ReturnScan ==
    /\ scan.phase = "running"
    /\ Last(scan.calls).todo = {}
    /\ LET m == Last(scan.calls).mod
           stored == [scan EXCEPT !.graph = SetMeta(@, m), !.calls = Front(@)]
       IN  scan' = IF Len(scan.calls) = 1 THEN [stored EXCEPT !.phase = "returned"]
                   ELSE FinishScanning(stored, m)

EndScan == scan.phase \in {"returned", "thrown"} /\ scan' = Idle

ScanNext == BeginScan \/ VisitChild \/ ReturnScan \/ EndScan

\* The registry does nothing else meanwhile.
RegistryNext ==
    \/ scan = Idle /\ ProvidersNext /\ UNCHANGED scan
    \/ ScanNext /\ UNCHANGED <<vars, providersVars>>

RegistrySpec == RegistryInit /\ [][RegistryNext]_allVars

-----------------------------------------------------------------------------
\* In whatever order the children are walked, over cycles, shared modules and
\* modules left marked by an earlier removal, a scan ends with the graph that
\* ScanModule gives; it throws exactly when it meets a malformed module.
ScanComputes ==
    scan.phase \in {"returned", "thrown"} =>
        IF ScanSet(scan.of[1], scan.of[2]) \intersect Malformed = {}
        THEN scan.phase = "returned" /\ scan.graph = ScanModule(scan.of[1], scan.of[2])
        ELSE scan.phase = "thrown"
=============================================================================
