------------------------------ MODULE Executor ------------------------------
(***************************************************************************)
(* The control loop of the operator for one RenovateJob: the executor      *)
(* (internal/renovate/executor.go) that turns scheduled projects into      *)
(* Kubernetes Jobs and finished Jobs into project statuses, interleaved    *)
(* with everything that writes the same status table while it works: the   *)
(* cron callback (controllers), the web UI, the webhooks, the discovery    *)
(* started from the UI, the cleanup goroutines of earlier Jobs, and        *)
(* Kubernetes itself.                                                      *)
(*                                                                         *)
(* The executor works from the table loaded at the start of a tick, while  *)
(* every write goes to the API server.  The table it works from is the one *)
(* in the informer cache of its process: until the cache receives a newer  *)
(* object, writes of the same process show up in it (RenovateJobManager).  *)
(* Calls to the API server may fail with or without having taken effect,   *)
(* and the operator process may crash (or lose its leadership) between any *)
(* two calls: the stored table and the Jobs survive, everything in memory  *)
(* is lost.                                                                *)
(***************************************************************************)
EXTENDS RenovateJobManager, JobManager, MetricStore, FiniteSets

CONSTANTS
    Projects,             \* the project names discovery or a request may name
    Parallelism,          \* spec.parallelism
    DeleteSuccessfulJobs, \* DELETE_SUCCESSFUL_JOBS = "true"
    JobTTL,               \* JOB_TTL_SECONDS_AFTER_FINISHED is set
    LateCleanup,          \* a cleanup goroutine may outlive the pause between two ticks
    Discoverable,         \* the results a discovery may deliver
    Budget                \* how often each kind of outside event may happen

\* "fault": a failed call or a crash; "phantom": a failed write whose change
\* stays in the informer cache; "stale": a read of an outdated cache.
EventKinds == {"request", "discovery", "fault", "phantom", "stale"}

ASSUME ConstantsAssumption ==
    /\ IsFiniteSet(Projects)
    /\ Parallelism \in Nat
    /\ DeleteSuccessfulJobs \in BOOLEAN
    /\ JobTTL \in BOOLEAN
    /\ LateCleanup \in BOOLEAN
    /\ Discoverable \subseteq SUBSET Projects
    /\ Budget \in [EventKinds -> Nat]

VARIABLES
    projects,  \* status.projects as stored by the API server
    informer,  \* how the informer cache of the leader relates to that table
    cached,    \* the table it holds if that is another one
    jobs,      \* the executor Jobs in the cluster
    lastGen,   \* the highest generation given out to each project
    cleanups,  \* pending cleanupOldGenerations goroutines
    metrics,   \* the series of the leader process
    pc,        \* where the executor is in its tick
    snap,      \* the table the tick works from
    shared,    \* whether that still is the list in the informer cache
    plan,      \* the table as pass 2 sorted it
    counted,   \* the projects behind the counter runningProjects
    todo,      \* the projects the current pass has not visited
    cur,       \* the project being visited
    found,     \* the Job GetJobByLabel returned for cur
    cron,      \* where the cron callback is
    budget     \* the outside events left

progress == <<pc, plan, counted, todo, cur, found>>
tick == <<progress, snap, shared>>
store == <<projects, informer, cached>>
vars == <<store, jobs, lastGen, cleanups, metrics, tick, cron, budget>>

NoProject == "none"

EmptyTable == [p \in Projects |-> NotListed]

RunningProjects == GetProjectsByStatus(projects, "running")

\* The counter runningProjects of a tick.
runningProjects == Cardinality(counted)

Spend(kind) == budget[kind] > 0 /\ budget' = [budget EXCEPT ![kind] = @ - 1]

PCs == {"idle", "pass1", "capture", "update", "delete", "pass2", "mark"}

TypeOK ==
    /\ projects \in [Projects -> ProjectEntry]
    /\ informer \in {"synced", "lagging", "altered"}
    /\ cached \in [Projects -> ProjectEntry]
    /\ jobs \subseteq JobRecord(Projects)
    /\ lastGen \in [Projects -> Nat]
    /\ cleanups \subseteq [project : Projects, gen : Nat \ {0}]
    /\ metrics \in [Projects -> GaugeValues]
    /\ pc \in PCs
    /\ snap \in [Projects -> ProjectEntry]
    /\ shared \in BOOLEAN
    /\ plan \in [Projects -> ProjectEntry]
    /\ counted \subseteq Projects
    /\ todo \subseteq Projects
    /\ pc \in {"capture", "update", "delete", "mark"} => cur \in Projects
    /\ found \in JobRecord(Projects) \cup {NotFound}
    /\ cron \in {"idle", "reconciled"}
    /\ budget \in [EventKinds -> Nat]

Init ==
    /\ projects = EmptyTable
    /\ informer = "synced"
    /\ cached = EmptyTable
    /\ jobs = {}
    /\ lastGen = [p \in Projects |-> 0]
    /\ cleanups = {}
    /\ metrics = [p \in Projects |-> NoSeries]
    /\ pc = "idle"
    /\ snap = EmptyTable
    /\ shared = FALSE
    /\ plan = EmptyTable
    /\ counted = {}
    /\ todo = {}
    /\ cur = NoProject
    /\ found = NotFound
    /\ cron = "idle"
    /\ budget = Budget

-----------------------------------------------------------------------------
(* The stored table and the informer cache of the leader.  The cache is     *)
(* "synced", or it has not received the latest object ("lagging"), or its   *)
(* object is the latest but was changed by a write that failed ("altered"). *)

\* loadRenovateJob reads the informer cache.
GetRenovateJob == IF informer = "synced" THEN projects ELSE cached

FollowApiServer == informer' = "synced" /\ cached' = EmptyTable

\* A write of the leader process.  While the object in the cache is outdated it
\* meets conflicts and is repeated; afterwards the watch delivers its result.
LocalWrite(result, inPlace) ==
    /\ informer = "lagging" => cached = projects
    /\ projects' = result
    /\ IF informer = "lagging"
       THEN cached' = inPlace /\ UNCHANGED informer
       ELSE FollowApiServer

\* A write of another replica; the watch delivers it to the leader.
RemoteWrite(result) ==
    /\ projects' = result
    /\ IF informer = "lagging" THEN UNCHANGED <<informer, cached>> ELSE FollowApiServer

\* A write that the API server did not apply, for another reason than a
\* conflict: the cache keeps the change.
PhantomWrite(inPlace) ==
    /\ Spend("phantom")
    /\ informer # "lagging"
    /\ informer' = "altered"
    /\ cached' = inPlace
    /\ UNCHANGED projects

\* A change made in place shows in the list of the tick for as long as the cache
\* has not received a newer object.
SeenByTick(inPlace) ==
    \/ shared /\ snap' = inPlace /\ shared' \in BOOLEAN
    \/ shared' = FALSE /\ UNCHANGED snap

\* Other writes may bring the cache a newer object.
NotSeenByTick == shared' \in {shared, FALSE} /\ UNCHANGED snap

-----------------------------------------------------------------------------
(* The executor: one tick of executeRenovateJob.                            *)

\* Leaving reconcileProjects, at its end or with an error.
LeaveTick ==
    /\ pc' = "idle"
    /\ snap' = EmptyTable
    /\ shared' = FALSE
    /\ plan' = EmptyTable
    /\ counted' = {}
    /\ todo' = {}
    /\ cur' = NoProject
    /\ found' = NotFound

\* Going on to the next project of the pass.
LeaveVisit(pass) ==
    /\ pc' = pass
    /\ cur' = NoProject
    /\ found' = NotFound

\* The running projects of the copy are counted.  Without LateCleanup, the
\* pause before the tick was long enough for the pending cleanups.
BeginTick ==
    /\ pc = "idle"
    /\ LateCleanup \/ cleanups = {}
    /\ pc' = "pass1"
    /\ snap' = GetRenovateJob
    /\ shared' = TRUE
    /\ counted' = GetProjectsByStatus(GetRenovateJob, "running")
    /\ todo' = GetProjectsByStatus(GetRenovateJob, "running")
    /\ IF informer = "lagging" THEN Spend("stale") ELSE UNCHANGED budget
    /\ UNCHANGED <<store, jobs, lastGen, cleanups, metrics, plan, cur, found, cron>>

\* Pass 1: look up the newest Job of a project that was running.  A project
\* whose Job is still active keeps its slot.
VisitRunning(p, visible) ==
    /\ pc = "pass1"
    /\ p \in todo
    /\ \E job \in GetJobByLabel(visible, p) :
       IF getJobStatus(job) = "running"
       THEN /\ todo' = todo \ {p}
            /\ UNCHANGED <<pc, cur, found>>
       ELSE /\ pc' = "capture"
            /\ cur' = p
            /\ found' = job
            /\ UNCHANGED todo
    /\ UNCHANGED <<store, jobs, lastGen, cleanups, metrics, snap, shared, plan, counted, cron>>

LookUpJob(p) == VisitRunning(p, jobs) /\ UNCHANGED budget

\* The Job informer has not seen the newest Job of the project yet.
LookUpJobStale(p) ==
    /\ \E newest \in GetJobByLabel(jobs, p) \ {NotFound} : VisitRunning(p, jobs \ {newest})
    /\ Spend("stale")

\* The metrics are written before the status is.
CaptureMetrics ==
    /\ pc = "capture"
    /\ metrics' = SetRunFailed(metrics, cur, getJobStatus(found) = "failed")
    /\ pc' = "update"
    /\ UNCHANGED <<store, jobs, lastGen, cleanups, snap, shared, plan, counted, todo, cur,
                   found, cron, budget>>

Outcome == [status |-> getJobStatus(found), priority |-> 0]

\* The run is over: the status is stored and the slot is released.
RecordOutcome ==
    /\ pc = "update"
    /\ LocalWrite(UpdateProjectStatus(GetRenovateJob, cur, Outcome),
                  UpdateInPlace(GetRenovateJob, cur, Outcome))
    /\ SeenByTick(UpdateInPlace(snap, cur, Outcome))
    /\ counted' = counted \ {cur}
    /\ todo' = todo \ {cur}
    /\ IF Outcome.status = "completed" /\ DeleteSuccessfulJobs
       THEN pc' = "delete" /\ UNCHANGED <<cur, found>>
       ELSE LeaveVisit("pass1")
    /\ UNCHANGED <<jobs, lastGen, cleanups, metrics, plan, cron, budget>>

DeleteSuccessful ==
    /\ pc = "delete"
    /\ jobs' = DeleteJob(jobs, found.project, found.gen)
    /\ LeaveVisit("pass1")
    /\ UNCHANGED <<store, lastGen, cleanups, metrics, snap, shared, plan, counted, todo, cron,
                   budget>>

\* Pass 1 is over: the list is sorted and visited once more.
BeginPass2 ==
    /\ pc = "pass1"
    /\ todo = {}
    /\ pc' = "pass2"
    /\ plan' = snap
    /\ todo' = {p \in Projects : snap[p].status # "absent"}
    /\ UNCHANGED <<store, jobs, lastGen, cleanups, metrics, snap, shared, counted, cur, found,
                   cron, budget>>

\* Defect: the list is not sorted by priority.
NextInList(p) == p \in todo

\* The order of pass 2: by the priority when the list was sorted, highest first.
NextInOrder(p) == p \in todo /\ \A q \in todo : plan[q].priority <= plan[p].priority

\* Defect: off by one, too generous and too strict.
SlotFreeInclusive == runningProjects <= Parallelism
SlotFreeReserved == runningProjects + 1 < Parallelism

SlotFree == runningProjects < Parallelism

\* The status is read when the loop arrives at the project.
SkipProject(p) ==
    /\ pc = "pass2"
    /\ NextInOrder(p)
    /\ SlotFree
    /\ snap[p].status # "scheduled"
    /\ todo' = todo \ {p}
    /\ UNCHANGED <<store, jobs, lastGen, cleanups, metrics, pc, snap, shared, plan, counted,
                   cur, found, cron, budget>>

NewJob(p) == [project |-> p, gen |-> lastGen[p] + 1, phase |-> "active"]

\* CreateJobWithGeneration: the Job first, then a goroutine that deletes the
\* other generations of the project.
StartJob(p) ==
    /\ pc = "pass2"
    /\ NextInOrder(p)
    /\ SlotFree
    /\ snap[p].status = "scheduled"
    /\ jobs' = jobs \cup {NewJob(p)}
    /\ lastGen' = [lastGen EXCEPT ![p] = @ + 1]
    /\ cleanups' = cleanups \cup {[project |-> p, gen |-> lastGen[p] + 1]}
    /\ counted' = counted \cup {p}
    /\ todo' = todo \ {p}
    /\ cur' = p
    /\ pc' = "mark"
    /\ UNCHANGED <<store, metrics, snap, shared, plan, found, cron, budget>>

Started == [status |-> "running", priority |-> 0]

\* Only after the Job exists is the project marked as running.
MarkRunning ==
    /\ pc = "mark"
    /\ LocalWrite(UpdateProjectStatus(GetRenovateJob, cur, Started),
                  UpdateInPlace(GetRenovateJob, cur, Started))
    /\ SeenByTick(UpdateInPlace(snap, cur, Started))
    /\ LeaveVisit("pass2")
    /\ UNCHANGED <<jobs, lastGen, cleanups, metrics, plan, counted, todo, cron, budget>>

\* The slots are used up, or every project was visited.
EndTick ==
    /\ pc = "pass2"
    /\ todo = {} \/ ~SlotFree
    /\ LeaveTick
    /\ UNCHANGED <<store, jobs, lastGen, cleanups, metrics, cron, budget>>

-----------------------------------------------------------------------------
(* Failed calls.  A write may have been applied although its caller sees an *)
(* error (updateRenovateJobStatus reloads the object after the update), it  *)
(* may have met conflicts to the end, or it may leave a phantom behind.     *)

LookUpFails ==
    /\ pc = "pass1"
    /\ todo # {}
    /\ Spend("fault")
    /\ LeaveTick
    /\ UNCHANGED <<store, jobs, lastGen, cleanups, metrics, cron>>

\* A write of the executor fails.  It was not applied: the API server refused it, or
\* all attempts of RetryOnConflict met a cache that lags behind, whose outdated
\* object the watch then replaces; or it was applied and the reload after it failed;
\* or it was not applied and the cache keeps the change.
WriteFails(step, desired) ==
    /\ pc = step
    /\ \/ Spend("fault") /\ UNCHANGED store
       \/ /\ Spend("fault")
          /\ LocalWrite(UpdateProjectStatus(GetRenovateJob, cur, desired),
                        UpdateInPlace(GetRenovateJob, cur, desired))
       \/ PhantomWrite(UpdateInPlace(GetRenovateJob, cur, desired))
    /\ LeaveTick
    /\ UNCHANGED <<jobs, lastGen, cleanups, metrics, cron>>

RecordOutcomeFails == WriteFails("update", Outcome)

MarkRunningFails == WriteFails("mark", Started)

DeleteFails ==
    /\ pc = "delete"
    /\ Spend("fault")
    /\ jobs' \in {jobs, DeleteJob(jobs, found.project, found.gen)}
    /\ LeaveTick
    /\ UNCHANGED <<store, lastGen, cleanups, metrics, cron>>

\* No cleanup is started for a Job whose creation reported an error.
StartJobFails(p) ==
    /\ pc = "pass2"
    /\ NextInOrder(p)
    /\ SlotFree
    /\ snap[p].status = "scheduled"
    /\ Spend("fault")
    /\ \/ UNCHANGED <<jobs, lastGen>>
       \/ /\ jobs' = jobs \cup {NewJob(p)}
          /\ lastGen' = [lastGen EXCEPT ![p] = @ + 1]
    /\ LeaveTick
    /\ UNCHANGED <<store, cleanups, metrics, cron>>

-----------------------------------------------------------------------------
(* Background work and the other writers of the table.                      *)

\* cleanupOldGenerations lists the Jobs and deletes all other generations.
CleanUp(c) ==
    /\ c \in cleanups
    /\ cleanups' = cleanups \ {c}
    /\ jobs' = jobs \ OtherGenerations(jobs, c.project, c.gen)
    /\ UNCHANGED <<store, lastGen, metrics, tick, cron, budget>>

\* The listing, or single deletions, fail or run into the 30 s timeout: the
\* errors are dropped, and the Jobs in kept survive.
CleanUpFails(c) ==
    /\ c \in cleanups
    /\ Spend("fault")
    /\ cleanups' = cleanups \ {c}
    /\ \E kept \in (SUBSET OtherGenerations(jobs, c.project, c.gen)) \ {{}} :
          jobs' = jobs \ (OtherGenerations(jobs, c.project, c.gen) \ kept)
    /\ UNCHANGED <<store, lastGen, metrics, tick, cron>>

\* The UI handler for one project (priority 2) and the webhooks (priority 1), on
\* the leader or on another replica.
ScheduledBy(priority) == [status |-> "scheduled", priority |-> priority]

RequestRun(p, priority) ==
    /\ Spend("request")
    /\ \/ /\ LocalWrite(UpdateProjectStatus(GetRenovateJob, p, ScheduledBy(priority)),
                        UpdateInPlace(GetRenovateJob, p, ScheduledBy(priority)))
          /\ SeenByTick(UpdateInPlace(snap, p, ScheduledBy(priority)))
       \/ /\ RemoteWrite(UpdateProjectStatus(projects, p, ScheduledBy(priority)))
          /\ NotSeenByTick
    /\ UNCHANGED <<jobs, lastGen, cleanups, metrics, progress, cron>>

runRenovateForProject(p) == RequestRun(p, 2)

webhookRunRenovate(p) == RequestRun(p, 1)

IsIdle(entry) == entry.status # "running" /\ entry.status # "scheduled"

\* "Run all": every listed project that is neither running nor scheduled.
ScheduleIdle(table) ==
    UpdateProjectStatusBatched(table, {p \in Projects : IsIdle(table[p])}, ScheduledBy(2))

runRenovateForAllProjects ==
    /\ Spend("request")
    /\ \/ /\ LocalWrite(ScheduleIdle(GetRenovateJob), ScheduleIdle(GetRenovateJob))
          /\ SeenByTick(ScheduleIdle(snap))
       \/ RemoteWrite(ScheduleIdle(projects)) /\ NotSeenByTick
    /\ UNCHANGED <<jobs, lastGen, cleanups, metrics, progress, cron>>

\* A request that the leader answers with an error.
RequestFails(p, priority) ==
    /\ PhantomWrite(UpdateInPlace(GetRenovateJob, p, ScheduledBy(priority)))
    /\ SeenByTick(UpdateInPlace(snap, p, ScheduledBy(priority)))
    /\ UNCHANGED <<jobs, lastGen, cleanups, metrics, progress, cron>>

RequestAllFails ==
    /\ PhantomWrite(ScheduleIdle(GetRenovateJob))
    /\ SeenByTick(ScheduleIdle(snap))
    /\ UNCHANGED <<jobs, lastGen, cleanups, metrics, progress, cron>>

\* A discovery delivers its result.  The metrics of the projects that are
\* dropped are deleted in the process that runs ReconcileProjects, and before
\* the table is written.
Dropped(discovered) ==
    {p \in Projects : GetRenovateJob[p].status # "absent" /\ p \notin discovered}

\* ReconcileProjects on the leader.
StoreDiscovered(discovered) ==
    /\ LocalWrite(ReconcileProjects(GetRenovateJob, discovered), GetRenovateJob)
    /\ NotSeenByTick
    /\ metrics' = DeleteProjectMetrics(metrics, Dropped(discovered))

\* The goroutine of runDiscoveryForProject, on the leader or elsewhere.
uiDiscovery(discovered) ==
    /\ Spend("discovery")
    /\ \/ StoreDiscovered(discovered)
       \/ /\ RemoteWrite(ReconcileProjects(projects, discovered))
          /\ NotSeenByTick
          /\ UNCHANGED metrics
    /\ UNCHANGED <<jobs, lastGen, cleanups, progress, cron>>

\* The cron callback runs on the leader: ReconcileProjects first ...
cronReconcile(discovered) ==
    /\ cron = "idle"
    /\ Spend("discovery")
    /\ StoreDiscovered(discovered)
    /\ cron' = "reconciled"
    /\ UNCHANGED <<jobs, lastGen, cleanups, progress>>

\* ... and if that reports an error the callback returns, as does the
\* goroutine of the UI: the metrics of the dropped projects are gone.
reconcileFails(discovered) ==
    /\ Spend("fault")
    /\ \/ StoreDiscovered(discovered)
       \/ /\ metrics' = DeleteProjectMetrics(metrics, Dropped(discovered))
          /\ UNCHANGED <<store, snap, shared>>
    /\ UNCHANGED <<jobs, lastGen, cleanups, progress, cron>>

IsNotRunning(entry) == entry.status # "running"

ScheduleAll(table) ==
    UpdateProjectStatusBatched(table, {p \in Projects : IsNotRunning(table[p])}, ScheduledBy(0))

\* ... then every project that is not running is scheduled.
cronSchedule ==
    /\ cron = "reconciled"
    /\ LocalWrite(ScheduleAll(GetRenovateJob), ScheduleAll(GetRenovateJob))
    /\ SeenByTick(ScheduleAll(snap))
    /\ cron' = "idle"
    /\ UNCHANGED <<jobs, lastGen, cleanups, metrics, progress, budget>>

\* An error of the second write is logged and nothing else.
cronScheduleFails ==
    /\ cron = "reconciled"
    /\ \/ Spend("fault") /\ UNCHANGED <<store, snap, shared>>
       \/ PhantomWrite(ScheduleAll(GetRenovateJob)) /\ SeenByTick(ScheduleAll(snap))
    /\ cron' = "idle"
    /\ UNCHANGED <<jobs, lastGen, cleanups, metrics, progress>>

-----------------------------------------------------------------------------
(* Kubernetes and the process.                                              *)

\* A pod succeeds, or fails for good, or hits activeDeadlineSeconds.
JobEnds(j, phase) ==
    /\ j \in jobs
    /\ j.phase = "active"
    /\ jobs' = (jobs \ {j}) \cup {[j EXCEPT !.phase = phase]}
    /\ UNCHANGED <<store, lastGen, cleanups, metrics, tick, cron, budget>>

\* ttlSecondsAfterFinished.
JobExpires(j) ==
    /\ JobTTL
    /\ j \in jobs
    /\ j.phase # "active"
    /\ jobs' = jobs \ {j}
    /\ UNCHANGED <<store, lastGen, cleanups, metrics, tick, cron, budget>>

\* The watch behind the informer cache is interrupted, and later catches up; any
\* event of the watch, an edit of the spec for one, also replaces an altered
\* object.
CacheLags ==
    /\ informer = "synced"
    /\ budget["stale"] > 0
    /\ informer' = "lagging"
    /\ cached' = projects
    /\ UNCHANGED <<projects, jobs, lastGen, cleanups, metrics, tick, cron, budget>>

CacheSync ==
    /\ informer # "synced"
    /\ FollowApiServer
    /\ shared' = FALSE
    /\ UNCHANGED <<projects, jobs, lastGen, cleanups, metrics, progress, snap, cron, budget>>

\* The leader dies: its tick, its goroutines, its metrics and its cache are gone.
Crash ==
    /\ Spend("fault")
    /\ LeaveTick
    /\ cleanups' = {}
    /\ cron' = "idle"
    /\ metrics' = [p \in Projects |-> NoSeries]
    /\ FollowApiServer
    /\ UNCHANGED <<projects, jobs, lastGen>>

-----------------------------------------------------------------------------

ExecutorStep ==
    \/ BeginTick
    \/ \E p \in Projects : LookUpJob(p)
    \/ CaptureMetrics
    \/ RecordOutcome
    \/ DeleteSuccessful
    \/ BeginPass2
    \/ \E p \in Projects : SkipProject(p)
    \/ \E p \in Projects : StartJob(p)
    \/ MarkRunning
    \/ EndTick

ExecutorFault ==
    \/ \E p \in Projects : LookUpJobStale(p)
    \/ LookUpFails
    \/ RecordOutcomeFails
    \/ DeleteFails
    \/ \E p \in Projects : StartJobFails(p)
    \/ MarkRunningFails

Writers ==
    \/ \E p \in Projects : runRenovateForProject(p)
    \/ \E p \in Projects : webhookRunRenovate(p)
    \/ runRenovateForAllProjects
    \/ \E p \in Projects, priority \in {1, 2} : RequestFails(p, priority)
    \/ RequestAllFails
    \/ \E d \in Discoverable : uiDiscovery(d)
    \/ \E d \in Discoverable : cronReconcile(d)
    \/ \E d \in Discoverable : reconcileFails(d)
    \/ cronSchedule
    \/ cronScheduleFails

Environment ==
    \/ \E c \in cleanups : CleanUp(c)
    \/ \E c \in cleanups : CleanUpFails(c)
    \/ \E j \in jobs : JobEnds(j, "complete")
    \/ \E j \in jobs : JobEnds(j, "failed")
    \/ \E j \in jobs : JobExpires(j)
    \/ CacheLags
    \/ CacheSync
    \/ Crash

Next == ExecutorStep \/ ExecutorFault \/ Writers \/ Environment

Spec == Init /\ [][Next]_vars

\* The executor loop and the cron callback always take their next step, a
\* cleanup goroutine runs, and activeDeadlineSeconds ends every Job.
Fairness ==
    /\ WF_vars(ExecutorStep)
    /\ WF_vars(cronSchedule)
    /\ \A p \in Projects :
          /\ WF_vars(\E c \in cleanups : c.project = p /\ CleanUp(c))
          /\ WF_vars(\E j \in jobs : /\ j.project = p
                                     /\ JobEnds(j, "complete") \/ JobEnds(j, "failed"))

FairSpec == Spec /\ Fairness

-----------------------------------------------------------------------------
(* Safety.                                                                  *)

\* The table never shows more running projects than spec.parallelism, although
\* the executor counts them once per tick and the table changes under it
\* (reconcileProjects, executor.go:161-278).
RunningWithinParallelism == Cardinality(RunningProjects) <= Parallelism

\* A priority is consumed when the project starts and does not leak into a later
\* run: only scheduled projects carry one (projectStatus.go:26-70).
PriorityOnlyWhileScheduled ==
    \A p \in Projects : projects[p].priority > 0 => projects[p].status = "scheduled"

\* No priority inversion within a tick: a project is started only if every
\* project that was scheduled with a higher priority when the list was sorted
\* was started as well (the sort and the second loop, executor.go:243-278).
StartedThisTick ==
    {p \in counted : pc \in {"pass2", "mark"} /\ plan[p].status # "running"}

PriorityRespected ==
    \A p \in StartedThisTick :
        \A q \in GetProjectsByStatus(plan, "scheduled") \ StartedThisTick :
            plan[q].priority <= plan[p].priority

\* The Job behind a running project exists and is the newest of the project, so
\* the outcome recorded for the run is the outcome of that run and never a
\* spurious "not found" (jobManager.go:42-137, executor.go:181-200).
RunningHasJob ==
    \A p \in RunningProjects : \E j \in jobs : j.project = p /\ j.gen = lastGen[p]

\* The run_failed gauge of the leader never contradicts the status the project
\* is shown with; it may be missing after a crash or a removal
\* (executor.go:223-227, docs/metrics.md).
GaugeAgreesWithStatus ==
    \A p \in Projects :
        /\ projects[p].status = "completed" => metrics[p] # "failed"
        /\ projects[p].status = "failed"    => metrics[p] # "ok"

ActiveJobs == {j \in jobs : j.phase = "active"}

\* "Only as many jobs as defined in spec.parallelism are getting executed at the
\* same time" (README.md:44), read as Jobs in the cluster.
JobsWithinParallelism == Cardinality(ActiveJobs) <= Parallelism

\* The status of every project follows the transition rules, within the
\* concurrency limit (projectStatus.go:11-70 seen through all writers).
statusOf == [p \in Projects |-> projects[p].status]

WithinLimit == {S \in SUBSET Projects : Cardinality(S) <= Parallelism}

Lifecycle == INSTANCE ProjectLifecycle WITH Admissible <- WithinLimit, status <- statusOf

ImplementsLifecycle == Lifecycle!LifecycleSpec

\* The same transition rules without the limit, which an executor that works from
\* an old copy of the table does not keep.
LooseLifecycle ==
    INSTANCE ProjectLifecycle WITH Admissible <- SUBSET Projects, status <- statusOf

ImplementsTransitionRules == LooseLifecycle!LifecycleSpec

-----------------------------------------------------------------------------
(* Liveness, under Fairness.                                                *)

\* No project is stuck running: its Job ends, or is gone, and a tick records it
\* (executor.go:174-241).
RunningResolves ==
    \A p \in Projects : projects[p].status = "running" ~> projects[p].status # "running"

\* Every accepted request is served or its project is removed: a scheduled
\* project does not wait for ever (executor.go:243-278).
ScheduledIsServed ==
    \A p \in Projects : projects[p].status = "scheduled" ~> projects[p].status # "scheduled"

\* Old generations do not pile up: in the end each project has at most one Job
\* (jobManager.go:99-137).
OldGenerationsCollected ==
    <>[](\A p \in Projects : Cardinality(GetJobsByLabel(jobs, p)) <= 1)

=============================================================================
