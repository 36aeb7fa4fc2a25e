------------------------------- MODULE Scheduler -----------------------------
(***************************************************************************)
(* packages/schedule/src: SchedulerOrchestrator, which collects the jobs   *)
(* that decorators declare, mounts them and stops them at shutdown, and    *)
(* SchedulerRegistry, through which the application adds and deletes jobs  *)
(* at any time.  A job is one CronJob or one timer; its key is its kind    *)
(* and name, and the maps of the code are sets of jobs with distinct keys. *)
(***************************************************************************)
EXTENDS Naturals

CONSTANTS
    Job,        \* timers and CronJob objects
    Declared,   \* those of decorators; the others come from application code
    Timeout,    \* those that fire once
    Delayed,    \* cron jobs with an initialDelay
    Disabled,   \* cron jobs that are not started
    key         \* the kind and name of each job

ASSUME SchedulerAssumption ==
    /\ Declared \subseteq Job /\ Timeout \subseteq Job
    /\ Delayed \subseteq Declared \ Timeout
    /\ Disabled \subseteq Declared \ (Timeout \union Delayed)
    /\ \A j, k \in Job : key[j] = key[k] => (j \in Timeout <=> k \in Timeout)

VARIABLES
    pending,    \* pendingCron, pendingIntervals and pendingTimeouts
    isMounted,
    jobs,       \* cronJobs, intervals and timeouts of the registry
    delays,     \* initialDelayRefs: the jobs whose delay is running
    ticking,    \* the jobs whose target will be called
    ghosts      \* history: started by a delay that outlived the registration

schedulerVars == <<pending, isMounted, jobs, delays, ticking, ghosts>>

SchedulerTypeOK ==
    /\ pending \subseteq Declared
    /\ isMounted \in BOOLEAN
    /\ jobs \subseteq Job /\ \A j, k \in jobs : key[j] = key[k] => j = k
    /\ delays \subseteq Delayed
    /\ ticking \subseteq Job
    /\ ghosts \subseteq Delayed

SchedulerInit ==
    /\ pending = {} /\ jobs = {} /\ delays = {} /\ ticking = {} /\ ghosts = {}
    /\ isMounted = FALSE

(* doesExist.                                                               *)
Taken(j) == \E k \in jobs : key[k] = key[j]

-----------------------------------------------------------------------------
(* addCron, addInterval and addTimeout of the orchestrator: a job takes the *)
(* place of the one that was declared with its kind and name.               *)
AddPending(j) ==
    /\ pending' = {k \in pending : key[k] # key[j]} \union {j}
    /\ UNCHANGED <<isMounted, jobs, delays, ticking, ghosts>>

(* mountJobs, of the first module to call it.                               *)
MountJobs ==
    \/ isMounted /\ UNCHANGED schedulerVars
    \/ /\ ~isMounted
       /\ ~ \E j \in pending : Taken(j)
       /\ isMounted' = TRUE
       /\ jobs' = jobs \union pending
       /\ ticking' = ticking \union (pending \ (Delayed \union Disabled))
       /\ delays' = delays \union (pending \intersect Delayed)
       /\ UNCHANGED <<pending, ghosts>>

(* A name is taken already.  What has been mounted before goes down with    *)
(* the application, which does not start.                                   *)
MountThrows == ~isMounted /\ \E j \in pending : Taken(j)

-----------------------------------------------------------------------------
(* addCronJob, addInterval and addTimeout of the registry.                  *)
AddJob(j) ==
    /\ j \notin jobs \union ticking
    /\ ~Taken(j)
    /\ jobs' = jobs \union {j}
    /\ ticking' = ticking \union {j}
    /\ UNCHANGED <<pending, isMounted, delays, ghosts>>

\* A mistake: the name is deleted before the job is stopped, which is then not found.
DeleteUnstopped(j) ==
    /\ j \in jobs
    /\ jobs' = jobs \ {j}
    /\ UNCHANGED <<pending, isMounted, delays, ticking, ghosts>>

DeleteJob(j) ==
    /\ j \in jobs
    /\ jobs' = jobs \ {j}
    /\ ticking' = ticking \ {j}
    /\ UNCHANGED <<pending, isMounted, delays, ghosts>>

(* A timeout that has fired remains registered.                             *)
TimeoutFires(j) ==
    /\ j \in Timeout \intersect ticking
    /\ ticking' = ticking \ {j}
    /\ UNCHANGED <<pending, isMounted, jobs, delays, ghosts>>

(* The callback of an initialDelay finds its name in the registry, but not  *)
(* necessarily its job.                                                     *)
DelayFires(j) ==
    /\ j \in delays
    /\ delays' = delays \ {j}
    /\ IF Taken(j)
       THEN ticking' = ticking \union {j} /\ ghosts' = ghosts \union ({j} \ jobs)
       ELSE UNCHANGED <<ticking, ghosts>>
    /\ UNCHANGED <<pending, isMounted, jobs>>

(* beforeShutdown: the delays are cleared, then all that the registry       *)
(* holds is stopped and deleted.                                            *)
BeforeShutdown ==
    /\ delays' = {}
    /\ jobs' = {}
    /\ ticking' = ticking \ jobs
    /\ UNCHANGED <<pending, isMounted, ghosts>>
=============================================================================
