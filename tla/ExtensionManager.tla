--------------------------- MODULE ExtensionManager --------------------------
(***************************************************************************)
(* stage1 of the extensions (packages/core/src/extension/                  *)
(* extension-manager.ts, called by app-initializer.ts): module after       *)
(* module, the extensions of a module in their order; an extension asks    *)
(* the manager of its module for the results of others, of this module or  *)
(* "per app".  Who asks per app before the last module has been handled is *)
(* put on a pending list and run once more at the end.  Before all that    *)
(* the importer of each module sorts its extensions (ExtensionOrder).      *)
(***************************************************************************)
EXTENDS ExtensionOrder

CONSTANTS
    Ext,        \* classes of extensions
    Leads,      \* the classes that a class names in groups
    Setup,      \* configurations of the classes, and what each stage1 asks for
    Flaky,      \* classes whose stage1 may throw
    Modules     \* how many modules there are

ASSUME ExtensionAssumption ==
    /\ Leads \in [Ext -> SUBSET Ext]
    /\ Flaky \subseteq Ext
    /\ Modules \in Nat /\ IsFiniteSet(Ext)
    /\ \A s \in Setup :
          /\ s.configs \in Seq([extension : Ext, before : Seq(Ext), after : Seq(Ext)])
          /\ Origin(s.configs) = Ext
          /\ \A i, j \in DOMAIN s.configs :
                s.configs[i].extension = s.configs[j].extension => s.configs[i] = s.configs[j]
          /\ s.asks \in [Ext -> Seq([of : Ext, perApp : BOOLEAN])]

Module == 1..Modules
None == 0

VARIABLES
    setup,      \* one of Setup (constant)
    has,        \* the classes that the injector of each module knows (constant)
    entries,    \* orderedExtensions of each module
    phase,      \* "import", "module", "perApp", "done" or "failed"
    mod,        \* the module of the manager at work
    entry,      \* the index of currStageEntry
    stack,      \* the calls of initExtension that are under way
    resolved,   \* stageEntryMap: the entries whose promise is resolved
    countdown,  \* extensionCounters
    metaCache,  \* extensionGroupMetaCache of each module
    inited,     \* debugMetaCache of each module
    appMeta,    \* extensionContext.extensionGroupMetaMap
    pending,    \* extensionContext.extensionPendingMap, by module of the instance
    excluded,   \* excludedExtensionPendingList
    lastCalls,  \* history: the modules whose instance was told isLastModule
    finals      \* history: the answers per app without delay

vars == <<setup, has, entries, phase, mod, entry, stack, resolved, countdown, metaCache,
          inited, appMeta, pending, excluded, lastCalls, finals>>

Result == Module \X Ext     \* the payload of an extension of a module

TypeOK ==
    /\ setup \in Setup
    /\ has \in [Module -> SUBSET Ext]
    /\ \A m \in Module : \A i \in DOMAIN entries[m] : entries[m][i] \in has[m]
    /\ phase \in {"import", "module", "perApp", "done", "failed"}
    /\ mod \in 0..Modules /\ entry \in 0..Cardinality(Ext)
    /\ resolved \subseteq Ext
    /\ countdown \in [Ext -> 0..Modules]
    /\ metaCache \in [Module -> SUBSET Ext] /\ inited \in [Module -> SUBSET Ext]
    /\ appMeta \in [Ext -> SUBSET Result]
    /\ pending \in [Ext -> [Ext -> Module \union {None}]]
    /\ excluded \subseteq Ext \X Ext
    /\ lastCalls \in [Ext -> SUBSET Module]
    /\ \A f \in finals : f.data \subseteq Result

-----------------------------------------------------------------------------
(* Definitions.                                                             *)

\* The index of the entry of a class, and the class whose turn it is.
Entries(m) == IF m = None THEN <<>> ELSE entries[m]
Rank(e) == CHOOSE i \in DOMAIN Entries(mod) : Entries(mod)[i] = e
Turn == Entries(mod)[entry]

\* What the importer of a module makes of the configurations of the extensions
\* it knows, its own and imported ones: a table, computed once.  (Table(f) is f,
\* which TLC has computed when it has compared it.)
Table(f) == CHOOSE g \in {f} : g = f
Configs(s, known) ==
    [i \in {k \in DOMAIN s.configs : s.configs[k].extension \in known} |-> s.configs[i]]
Sorted ==
    Table([s \in Setup |-> Table([known \in SUBSET Ext |->
        [refused |-> checkExtensionsGraph(Configs(s, known)),
         order |-> topologicalSort(Configs(s, known))]])])

\* A class that names a lead makes a group of that lead in its module, for
\* which the injector needs the lead itself.
IsLead(m, e) == \E x \in has[m] : e \in Leads[x]
Members(m, e) == {x \in has[m] : x = e \/ e \in Leads[x]}
Unresolvable(m, e) == IsLead(m, e) /\ e \notin has[m]

\* The targets of the extension providers of a module, which are counted.
Targets(m) == has[m] \union UNION {Leads[x] : x \in has[m]}

Top == stack[Len(stack)]
Pop == SubSeq(stack, 1, Len(stack) - 1)
OnTop(frame) == Append(Pop, frame)

\* A call of initExtension: the group, whether the answer is wanted per app,
\* the members to run, and the request the first of them comes to next.
Frame(e, perApp) ==
    [of |-> e, perApp |-> perApp, todo |-> Members(mod, e), at |-> 0]

\* The members run in the order of their entries.
RunnerOf(frame) == CHOOSE x \in frame.todo : \A y \in frame.todo : Rank(x) <= Rank(y)

\* unfinishedInit, as far as it holds classes.
Unfinished == IF phase = "module" THEN {stack[i].of : i \in DOMAIN stack}
              ELSE {stack[i].of : i \in 2..Len(stack)}

Working == phase \in {"module", "perApp"} /\ stack # <<>>
Runs == Working /\ Top.at > 0
Runner == RunnerOf(Top)
Asking == Runs /\ Top.at <= Len(setup.asks[Runner])
Request == setup.asks[Runner][Top.at]

Fail ==
    /\ phase' = "failed"
    /\ UNCHANGED <<setup, has, entries, mod, entry, stack, resolved, countdown, metaCache,
                   inited, appMeta, pending, excluded, lastCalls, finals>>

-----------------------------------------------------------------------------
InitWith(s, installed) ==
    /\ setup = s
    /\ has = installed
    /\ entries = [m \in Module |-> <<>>]
    /\ phase = "import" /\ mod = 0 /\ entry = 0 /\ stack = <<>>
    /\ resolved = {} /\ excluded = {}
    /\ countdown = [e \in Ext |-> Cardinality({m \in Module : e \in Targets(m)})]
    /\ metaCache = [m \in Module |-> {}]
    /\ inited = [m \in Module |-> {}]
    /\ appMeta = [e \in Ext |-> {}]
    /\ pending = [e \in Ext |-> [x \in Ext |-> None]]
    /\ lastCalls = [e \in Ext |-> {}]
    /\ finals = {}

Init == \E s \in Setup, installed \in [Module -> SUBSET Ext] : InitWith(s, installed)

\* The importers of all modules, before any extension runs.
ImportExtensions ==
    /\ phase = "import"
    /\ IF \E m \in Module : Sorted[setup][has[m]].refused
       THEN /\ phase' = "failed"
            /\ UNCHANGED entries
       ELSE /\ phase' = "module"
            /\ entries' = [m \in Module |-> Sorted[setup][has[m]].order]
    /\ UNCHANGED <<setup, has, mod, entry, stack, resolved, countdown, metaCache, inited,
                   appMeta, pending, excluded, lastCalls, finals>>

ModuleOver == phase = "module" /\ stack = <<>> /\ entry = Len(Entries(mod))

\* Mistakes: the counters are decreased when the module has been handled; once
\* for each provider of a class.
DecreasedLate(m) ==
    [e \in Ext |-> IF m > 1 /\ e \in Targets(m - 1) THEN countdown[e] - 1 ELSE countdown[e]]
DecreasedEach(m) ==
    [e \in Ext |-> countdown[e] - Cardinality(Members(m, e))]

\* decreaseExtensionsCounters.
Decreased(m) == [e \in Ext |-> IF e \in Targets(m) THEN countdown[e] - 1 ELSE countdown[e]]

\* One round of the loop of handleExtensions.
StartModule ==
    /\ ModuleOver /\ mod < Modules
    /\ mod' = mod + 1
    /\ entry' = 0
    /\ resolved' = {} /\ excluded' = {}
    /\ countdown' = Decreased(mod + 1)
    /\ UNCHANGED <<setup, has, entries, phase, stack, metaCache, inited, appMeta, pending,
                   lastCalls, finals>>

\* One round of the loop of internalStage1: nobody has asked for this class
\* before, it would have been a request out of order.
NextEntry ==
    /\ phase = "module" /\ stack = <<>> /\ entry < Len(Entries(mod))
    /\ entry' = entry + 1
    /\ stack' = <<Frame(Entries(mod)[entry + 1], FALSE)>>
    /\ UNCHANGED <<setup, has, entries, phase, mod, resolved, countdown, metaCache, inited,
                   appMeta, pending, excluded, lastCalls, finals>>

-----------------------------------------------------------------------------
(* The loop of initExtension over the members of a group.                   *)

\* No instance is a member of two groups under way: the groups of earlier entries
\* are cached, and those of later ones may not be asked for.
StartMember ==
    /\ Working /\ Top.at = 0 /\ Top.todo # {}
    /\ IF Runner \in inited[mod]
       THEN /\ stack' = OnTop([Top EXCEPT !.todo = @ \ {Runner}])
            /\ UNCHANGED lastCalls
       ELSE /\ stack' = OnTop([Top EXCEPT !.at = 1])
            /\ lastCalls' = IF countdown[Runner] = 0
                            THEN [lastCalls EXCEPT ![Runner] = @ \union {mod}] ELSE lastCalls
    /\ UNCHANGED <<setup, has, entries, phase, mod, entry, resolved, countdown, metaCache, inited,
                   appMeta, pending, excluded, finals>>

Stage1Throws == Runs /\ Runner \in Flaky /\ Fail

\* stage1 of an extension has returned, to initExtension or to perAppHandling.
EndMember ==
    /\ Runs /\ ~Asking
    /\ IF phase = "perApp" /\ Len(stack) = 1
       THEN /\ stack' = <<>>
            /\ UNCHANGED inited
       ELSE /\ stack' = OnTop([Top EXCEPT !.todo = @ \ {Runner}, !.at = 0])
            /\ inited' = [inited EXCEPT ![mod] = @ \union {Runner}]
    /\ UNCHANGED <<setup, has, entries, phase, mod, entry, resolved, countdown, metaCache, appMeta,
                   pending, excluded, lastCalls, finals>>

-----------------------------------------------------------------------------
(* stage1(ExtCls, pendingExtension?), called by an extension.               *)

OutOfOrder(e) == e \in has[mod] /\ Rank(e) > Rank(Turn)

\* UndeclaredExtensionDependency.
AskTooEarly == Asking /\ OutOfOrder(Request.of) /\ Fail

\* CyclicExtensions.  The request first waits for the promise of the entry, and
\* for ever when it is not resolved before the group itself is finished.
AskInCircle ==
    /\ Asking
    /\ Request.of \in Unfinished
    /\ Request.of \in has[mod] => Request.of \in resolved
    /\ Fail

\* NoProvider: the injector has no instance of the lead of the group.
AskUnresolvable ==
    /\ Asking
    /\ Request.of \notin Unfinished \union metaCache[mod]
    /\ Unresolvable(mod, Request.of)
    /\ Fail

AskAnew ==
    /\ Asking
    /\ Request.of \notin Unfinished \union metaCache[mod]
    /\ ~OutOfOrder(Request.of)
    /\ ~Unresolvable(mod, Request.of)
    /\ stack' = Append(stack, Frame(Request.of, Request.perApp))
    /\ UNCHANGED <<setup, has, entries, phase, mod, entry, resolved, countdown, metaCache, inited,
                   appMeta, pending, excluded, lastCalls, finals>>

\* A mistake: the list of a class is created but never stored.
PendedUnstored(e, x) == pending

Pended(e, x) == [pending EXCEPT ![e][x] = IF @ = None THEN mod ELSE @]
Excluded(e, x) == excluded \union {<<e, x>>}

\* updatePerAppState: the answer to the extension that runs in frame, which
\* returns at once from stage1 when it is told to wait.
Answered(frame, below) ==
    LET x == RunnerOf(frame)
        r == setup.asks[x][frame.at]
        delay == countdown[r.of] > 0
    IN  /\ stack' = Append(below, [frame EXCEPT
                        !.at = IF r.perApp /\ delay THEN Len(setup.asks[x]) + 1 ELSE @ + 1])
        /\ pending' = IF r.perApp /\ delay THEN Pended(r.of, x) ELSE pending
        /\ excluded' = IF r.perApp /\ ~delay THEN Excluded(r.of, x) ELSE excluded
        /\ finals' = IF r.perApp /\ ~delay
                     THEN finals \union {[by |-> x, of |-> r.of, in |-> mod, phase |-> phase,
                                          data |-> appMeta'[r.of]]}
                     ELSE finals

AskCached ==
    /\ Asking
    /\ Request.of \notin Unfinished
    /\ Request.of \in metaCache[mod]
    /\ UNCHANGED appMeta
    /\ Answered(Top, Pop)
    /\ UNCHANGED <<setup, has, entries, phase, mod, entry, resolved, countdown, metaCache, inited,
                   lastCalls>>

-----------------------------------------------------------------------------
\* updateExtensionPendingList.
Updated == [e \in Ext |-> [x \in Ext |-> IF <<e, x>> \in excluded THEN None ELSE pending[e][x]]]

\* A mistake: only the first group of a class is handed to the application.
HandedOnce(e) ==
    [appMeta EXCEPT ![e] = IF @ = {} THEN {mod} \X Members(mod, e) ELSE @]

\* setAppExtensionGroupMeta.
Handed(e) == [appMeta EXCEPT ![e] = @ \union ({mod} \X Members(mod, e))]

\* All members of a group have been run; whoever asked first gets the answer.
FinishGroup ==
    /\ Working /\ Top.at = 0 /\ Top.todo = {}
    /\ metaCache' = [metaCache EXCEPT ![mod] = @ \union {Top.of}]
    /\ appMeta' = Handed(Top.of)
    /\ resolved' = resolved \union {Turn}
    /\ IF Len(stack) = 1
       THEN /\ stack' = <<>>
            /\ pending' = Updated
            /\ UNCHANGED <<excluded, finals>>
       ELSE Answered(stack[Len(stack) - 1], SubSeq(stack, 1, Len(stack) - 2))
    /\ UNCHANGED <<setup, has, entries, phase, mod, entry, countdown, inited, lastCalls>>

-----------------------------------------------------------------------------
(* perAppHandling.                                                          *)

StartPerApp ==
    /\ ModuleOver /\ mod = Modules
    /\ phase' = "perApp"
    /\ UNCHANGED <<setup, has, entries, mod, entry, stack, resolved, countdown, metaCache, inited,
                   appMeta, pending, excluded, lastCalls, finals>>

\* A mistake: the loop goes on as long as the list is not empty.
NextPendingAgain ==
    /\ phase = "perApp" /\ stack = <<>>
    /\ \E e, x \in Ext :
         /\ pending[e][x] # None
         /\ mod' = pending[e][x]
         /\ entry' = Len(Entries(pending[e][x]))
         /\ stack' = <<[of |-> x, perApp |-> FALSE, todo |-> {x}, at |-> 1]>>
    /\ UNCHANGED <<setup, has, entries, phase, resolved, countdown, metaCache, inited, appMeta,
                   pending, excluded, lastCalls, finals>>

\* The pending instance runs again, with the manager of its own module.
NextPending ==
    /\ phase = "perApp" /\ stack = <<>>
    /\ \E e, x \in Ext :
         /\ pending[e][x] # None
         /\ mod' = pending[e][x]
         /\ entry' = Len(Entries(pending[e][x]))
         /\ stack' = <<[of |-> x, perApp |-> FALSE, todo |-> {x}, at |-> 1]>>
         /\ pending' = [pending EXCEPT ![e][x] = None]
    /\ UNCHANGED <<setup, has, entries, phase, resolved, countdown, metaCache, inited, appMeta,
                   excluded, lastCalls, finals>>

Stage1Over ==
    /\ phase = "perApp" /\ stack = <<>>
    /\ \A e, x \in Ext : pending[e][x] = None
    /\ phase' = "done"
    /\ UNCHANGED <<setup, has, entries, mod, entry, stack, resolved, countdown, metaCache, inited,
                   appMeta, pending, excluded, lastCalls, finals>>

Next ==
    \/ ImportExtensions
    \/ StartModule
    \/ NextEntry
    \/ StartMember
    \/ Stage1Throws
    \/ EndMember
    \/ AskTooEarly
    \/ AskInCircle
    \/ AskUnresolvable
    \/ AskAnew
    \/ AskCached
    \/ FinishGroup
    \/ StartPerApp
    \/ NextPending
    \/ Stage1Over

\* The promises of the extensions settle.
Spec == Init /\ [][Next]_vars /\ WF_vars(Next)

-----------------------------------------------------------------------------
Homes(e) == {m \in Module : e \in has[m]}
AppResults(e) == UNION {{m} \X Members(m, e) : m \in Homes(e)}
AsksPerApp(x, e) ==
    \E i \in DOMAIN setup.asks[x] : setup.asks[x][i] = [of |-> e, perApp |-> TRUE]
FinalsOf(x, e) == {f \in finals : f.by = x /\ f.of = e}

\* "It is guaranteed that the instance of Extension2 will receive data from all
\* modules where Extension1 is imported.  Even if Extension1 and Extension2 are
\* imported into separate modules" (03-extensions.md): when stage1 is over, each
\* class that asks per app has had an answer to work with.
AskersAreServed ==
    phase = "done" =>
        \A x, e \in Ext : Homes(x) # {} /\ AsksPerApp(x, e) => FinalsOf(x, e) # {}

\* "If delay = true [...] data not yet from all modules": an answer without
\* delay has the results of all modules, also of the groups' other members, and
\* whatever the module it was asked in.
FinalAnswersAreComplete == \A f \in finals : AppResults(f.of) \subseteq f.data

OnlyAsks(x, e) ==
    \A i \in DOMAIN setup.asks[x] : setup.asks[x][i].perApp => setup.asks[x][i].of = e

\* A class that is never without the one it asks for, and asks for no other per
\* app, is served once in the application: by its instance in the last module or
\* by the pending one.  (One that waits for a second class is run again, and then
\* asks for the first one again.)
ServedOnceWhenTogether ==
    \A x, e \in Ext :
        Homes(x) \subseteq Homes(e) /\ OnlyAsks(x, e) => Cardinality(FinalsOf(x, e)) <= 1

\* Who asks for the results of the application has all of them when it is served
\* at last, and is not served again.
ServedInFullAndOnce == FinalAnswersAreComplete /\ ServedOnceWhenTogether

\* Which of the classes S comes before which by the configurations, and whether
\* such a pair of R is on a circle.
Declared(S) ==
    LET In(e, s) == \E j \in DOMAIN s : s[j] = e
    IN  {p \in S \X S :
            \E i \in DOMAIN setup.configs :
                LET c == setup.configs[i]
                IN  \/ c.extension = p[1] /\ In(p[2], c.before)
                    \/ c.extension = p[2] /\ In(p[1], c.after)}
OnCircle(p, R) ==
    \A S \in SUBSET Ext :
        p[2] \in S /\ (\A r \in R : r[1] \in S => r[2] \in S) => p[1] \in S
StatesBefore(m) ==
    {e \in has[m] : \E i \in DOMAIN setup.configs :
        setup.configs[i].extension = e /\ setup.configs[i].before # <<>>}

\* "It initializes extensions following the appropriate sequence specified in
\* the configs" and "throws errors about cyclic dependencies" (03-extensions.md):
\* whatever the extensions ask for, one that is in no group has run in a module
\* only when all that are declared before it have, unless the declaration is a
\* circle; and it is an error, before anything is started, just where those of
\* beforeExtensions are in one.
OrderIsDeclared ==
    /\ \A m \in Module : \A p \in Declared(has[m]) :
         p[2] \in inited[m] /\ Leads[p[2]] = {} =>
             p[1] \in inited[m] \/ OnCircle(p, Declared(has[m]))
    /\ mod = 0 /\ phase \in {"module", "failed"} =>
         (phase = "failed" <=>
             \E m \in Module : \E p \in Declared(StatesBefore(m)) :
                 OnCircle(p, Declared(StatesBefore(m))))

\* Unless an extension asks for a group that it is itself a member of, stage1
\* comes to an end, with or without an error: nothing waits for ever.
RequestsEnd ==
    (\A x \in Ext : \A i \in DOMAIN setup.asks[x] :
        setup.asks[x][i].of \notin Leads[x] \union {x})
    => <>(phase \in {"done", "failed"})
=============================================================================
