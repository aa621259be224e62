# Verification of the renovate-operator

TLA+ models, TLC runs and TLAPS proofs for the operator in `src/` (Go). The operator
watches `RenovateJob` resources; for each of them it discovers projects on a schedule,
keeps a table of project statuses in `status.projects`, and runs one Kubernetes Job per
project with at most `spec.parallelism` of them at a time. Around this loop are a cron
scheduler, the synchronisation of Forgejo webhooks, a webhook server, and a web UI with
sign-in and groups.

Paths below are relative to the repository's Go module (`src/`) unless they start with
`docs/` or `README.md`.

## 1. The system

| Component | State | Operations | Interacts through |
|---|---|---|---|
| Transition rules (`internal/utils/projectStatus.go`) | none | what a desired status makes of an entry | called by every write of the table |
| RenovateJob manager (`internal/crdManager/renovateJobManager.go`, `loadRenovateJob.go`, `updateRenovateJob.go`) | `status.projects` at the API server; the informer cache; a process-wide lock | `UpdateProjectStatus`, `UpdateProjectStatusBatched`, `ReconcileProjects`, reads | optimistic read-modify-write with `RetryOnConflict`; every other component |
| Job manager (`internal/crdManager/jobManager.go`, `internal/renovate/jobHelper.go`) | Jobs in the cluster, labelled with name, type and generation | lookup of the newest, create, delete, cleanup goroutine | executor, discovery |
| Executor (`internal/renovate/executor.go`) | the table and the counter of one tick | every 10 s: record what ended, start what is scheduled | manager, Job manager, metric store |
| Controller (`controllers/renovatejob_controller.go`) | the queue of requests, a syncer per RenovateJob | register the schedule; when it fires: discover, filter forks, reconcile, schedule all, sync webhooks | scheduler calls it back, leader only |
| Discovery agent (`internal/renovate/discoveryAgent.go`, `podLogs.go`) | discovery Jobs | create, poll, read the log | cron callback, UI |
| Web UI (`ui/renovateController.go`) | none | run one, run all, discover | every replica |
| UI sign-in (`ui/auth.go`, `oidc.go`, `github_oauth.go`, `group_validation.go`) | an encryption key per process; everything else is in cookies | login, callback, completion, logout; group validation and authorization | browser, identity provider, every replica |
| Webhook server (`webhook/*.go`) | none | authenticate, filter the event, schedule the project it names | git platforms, every replica |
| Metric store (`metricStore/metrics.go`) | Prometheus series of one process | set and delete gauges, count executions | executor, `ReconcileProjects` |
| Scheduler (`scheduler/scheduler.go`) and health (`health/health.go`) | cron entries, health map | add, replace, remove, execute | controller |
| Forgejo webhook sync (`internal/forgejo/sync.go`, `client.go`) | managed repositories, annotation, hooks at Forgejo | search, adopt, create and remove hooks | controller, Forgejo |
| Git providers, Job templates, log parser, names, wiring | - | - | - |

What is hard here:

* **The snapshot.** A tick counts the running projects once and works through its list
  while the UI, the webhooks, the cron callback and discoveries write the same table.
* **The cache.** Reads come from the informer cache. It may be outdated; and since
  `DeepCopyObject` (`api/v1alpha1/renovatejob_types.go:172-179`) copies the struct but not
  the list, a loaded RenovateJob *shares its list of projects with the cache*. An entry
  that is changed in place is changed in the cache, whether the API server accepts the
  update or not, and in the list the executor is iterating over. A list that is replaced
  (`ReconcileProjects`) or appended to (an unknown project) is not shared.
* **Partial failure.** Job creation and status update are separate calls; an update may
  have been applied although the caller sees an error (the reload after it failed).
* **Crash and loss of leadership.** The table and the Jobs survive, the tick, the cleanup
  goroutines and the metrics do not.
* **Generations.** A cleanup goroutine deletes every generation but its own, whenever it
  gets to run; generations are Unix seconds.
* **Overlapping discoveries.** Nothing but a check in the UI keeps two of them apart.
* **Replacing in several sections.** A schedule is looked up, removed and added under three
  separate locks, while entries fire; a run outlives its schedule and reports all the same.
* **State on two sides.** Which hooks the operator manages is known to its memory, an
  annotation, the cache of the annotation and Forgejo, and each may lag behind or be lost.
* **Shared cookies, private keys.** Tabs share the cookies of a login, replicas may not
  share the key of a session.
* **Feedback.** Renovate edits the texts whose edits trigger it; deliveries are repeated,
  lost, parallel, and authenticated against a configuration that is read twice.

`PROJECT.json` lists these as hazards, each with its line and the properties aimed at it.

## 2. Modules

| Module | Models | State and actions |
|---|---|---|
| `ProjectStatus` | `projectStatus.go` | the rules as operators on an entry `[status, priority]`; "absent" is a project that is not listed |
| `RenovateJobManager` | the three writes | operators on a table `[Projects -> entry]`; `UpdateInPlace` is what a write does to the list it was given |
| `JobManager` | `jobManager.go`, `getJobStatus` | operators on a set of Jobs `[project, gen, phase]` |
| `MetricStore` | the `run_failed` gauge | operators on `[Projects -> {none, ok, failed}]` |
| `Executor` | the control loop of one RenovateJob | composes the four above; see below |
| `ProjectLifecycle` | abstract specification | the status of each project and nothing else |
| `Discovery` | `discoveryAgent.go` and its two callers | callers as small processes, discovery Jobs, time |
| `Scheduler` | `scheduler.go`, `Reconcile`, `createScheduler`, the scheduler's health | the queue, the request being handled, the entries on both sides, the running goroutines |
| `WebhookSync` | `internal/forgejo`, the syncers and the annotation | several Forgejos, cycles that may overlap, syncer objects, the annotation stored and cached |
| `GroupValidation` | `group_validation.go`, `hasIntersection`, both authorization checks, the default groups | operators on group names `[id, upper, padded]`, and the rule they amount to |
| `UiAccess` | `auth.go`, `oidc.go`, `github_oauth.go` | extends `GroupValidation`: cookies, tabs, keys of the replicas |
| `WebhookServer` | `webhook/*.go`, the token checks of the manager | extends `RenovateJobManager`: texts, requests, configuration, the table |
| `ExecutorProofs`, `ExecutorTickProofs` | - | theorems about `Executor`: the status table and the lifecycle; the tick with its Jobs, order and gauge |
| `DiscoveryProofs`, `SchedulerProofs`, `WebhookSyncProofs`, `UiAccessProofs`, `WebhookServerProofs` | - | theorems about the module of that name |
| `MCExecutor`, `MCDiscovery`, `MCScheduler`, `MCUiAccess`, `MCWebhookServer`, `MCWebhookSync` | - | instances for TLC |

### Executor

`projects` is the table at the API server. `informer` and `cached` describe the leader's
cache: *synced* (the cache shows `projects`), *lagging* (it has not received the latest
object and shows `cached`) or *altered* (a write that failed left its change in it).
`snap` is the list the tick iterates over and `shared` says whether that still is the
list in the cache; `plan` is the list as pass 2 sorted it; `counted` is the set of
projects behind the counter `runningProjects`.

A tick is `BeginTick`; for each running project `LookUpJob`, then `CaptureMetrics`,
`RecordOutcome` and possibly `DeleteSuccessful`; `BeginPass2`; for each project in the
order of priority `SkipProject`, or `StartJob` and `MarkRunning`; `EndTick`. Every call
to the API server is a step of its own, because another actor may act between two of
them. The failures of a call are actions with the same guard (`LookUpFails`,
`RecordOutcomeFails`, `DeleteFails`, `StartJobFails`, `MarkRunningFails`,
`LookUpJobStale`) that leave the tick, as the early returns do. A failed write has three
outcomes: not applied, applied all the same, or not applied but left in the cache
(`PhantomWrite`). A write whose retries are used up against a lagging cache is one that is not
applied; its change is in an object that the next event of the watch replaces, and what a tick
might read there before that event is left out.

The other writers are `runRenovateForProject`, `runRenovateForAllProjects`,
`webhookRunRenovate`, `uiDiscovery`, the two steps of the cron callback (`cronReconcile`,
`cronSchedule`) and their failures. Requests come in two variants: through the leader,
where the change shows in the shared list (`LocalWrite`, `SeenByTick`), or through another
replica (`RemoteWrite`). A write of one process is atomic: the manager holds an exclusive
lock, and a conflicting update is repeated on the reloaded object. `CleanUp` is one step
from the listing to the last deletion; a run of the goroutine that is spread out in time
deletes what it listed and no more, which is a `CleanUp` or, if a Job that is younger than
the listing survives, a `CleanUpFails`.

Abstractions: the order of the list only breaks ties between equal priorities and is left
open; LastRun, Duration, the result text and the executions counter are not kept, since no
decision reads them; generations are ranks, because ticks are ten seconds apart; the
`TryLock` around a tick is always free, because one loop calls it.

### Discovery

Each caller goes `create`, `wait`, `read`, `store`. It polls its own generation but reads
the newest Job, so `result` may differ from `own`. `id` tells Jobs with the same
generation (created within one second) apart. A Job may fail a pod and still succeed
(`retrying`, `recovered`): the code looks at the counters `failed` and `succeeded`, in
this order.

### Scheduler

`requests` is the queue of the controller: no request leaves it, because every path of
`Reconcile` sets `RequeueAfter`. A reconciliation reads the RenovateJob (`BeginReconcile`)
and then takes the locked sections of the scheduler one by one: `CheckExisting`,
`RemoveExisting`, `AddNew`, or `RemoveGone`. `entries` is the scheduler's map and `cron` the
library's list. `Fire` starts a run; `BeginRun` and `EndRun` are its two health reports,
between which it does what Discovery, Executor and WebhookSync model. `Restart` loses
everything but the RenovateJobs. A name is the sequence of its parts between dashes, so that
`Fullname` can be the concatenation it is in the code, collisions included.

### WebhookSync

A cycle `c` (`pc[c]`) goes through `SearchPage` (one step per page), `ListHooks` and
`CreateHook` per repository, `BeginRemoval`, `GiveUpHook` or `DeleteHook` per repository,
`EndRemoval`, `saveWebhookSyncState`. Every call has a failure; a creation or deletion may also
take effect and lose its answer. A cron callback runs in a goroutine of its own and nothing
keeps it from starting while another one runs, so several cycles may be under way, on one
syncer or on several. Pages are cut from the repositories that carry the topic *when the page
is read*, so a change of topics can shift a repository past the search.

Syncers are objects: `current` is the one the reconciler keeps, `using[c]` the one a cycle goes
on with after a replacement, `settings` and `managed` what each was made from and remembers.
`EditConfig` may change every field of the fingerprint, the endpoint included. A configuration
is a record with `endpoint`, `topic`, `url` and any further fields; events and tokens are such
fields, which lead to a new syncer and have no other effect. A replaced syncer hands its ids on
whichever Forgejo they come from, as the code does. `cached` is the annotation in the informer
cache, which a failed save alters (as in `Executor`). Left out: what a hook holds besides its
URL.

### UiAccess and GroupValidation

The browser is three cookies (`stateCookie`, `session`, `marker`) and where each tab is; each
request goes to any replica. Encryption is the key a session was made with: `decryptSession`
succeeds with the same key. `GetPage`, `CallApi`, `HandleLogin`, `HandleCallback`,
`handleComplete`, `HandleLogout` are the handlers, with `authMiddleware` as the decision of
the middleware. A session also remembers the claims it was made from, which no handler reads:
`AccessIsExact` compares what the three layers and the two checks make of them with a rule
that is stated without layers (`EstablishedIds`, `ReservedFor`, `IsOpenTo`). `MayCall` is the
decision for each route about one RenovateJob; `UncheckedRoutes` are the two whose handlers
take any session and do not ask for its groups. Claims are a list, because the first 100 count;
behind that limit the code only asks whether a list is empty and what is in it, so groups are
sets, and leaving out duplicates is what a set does. Outside the model is a session cookie that
the browser drops because it is too large.

### WebhookServer

A text of Renovate has list items that can be ticked: its own `boxes`, and `notes` that only
happen to be in it, such as a quoted list in the changelog of a dependency. People tick and
untick items and edit in other ways (`Tick`, `Untick`, `Rewrite`, `EditOther`), scripts call
the schedule endpoint, a run of Renovate takes back the ticks it was due to serve and leaves
the others (`Serve`) or brings a text up to date without touching a tick (`Refresh`); every
edit is a request. A request goes through `authMiddleware` (first read of the RenovateJob),
`Validate` (second read, with the secret), `Filtered`, or `ScheduleProject`/`ScheduleFails`. A
description is whether it is empty, whether it has Renovate's markers, and which items are
ticked: `hasCheckboxBeenChecked` asks for any of them. A signature is the key it was made with
and whether it begins with "sha256=" (a header of kind `bare` does not).

`AsksForRun` is what the documentation says of an edit, `LeavesTick` what the filters let
through besides; the two are kept apart, and `MayStartRun` is either. The executor is
`StartRun`, `FinishRun` and `FailRun` on one slot per project. `credit`, `counted`, `excused`
and `facts` are history: how many runs are accounted for, by which requests, which ticks were
dropped for a reason outside the filters, and what held while a request was under way. Reads
come from the informer cache and do not fail.

## 3. Runs

Outside events are bounded by a budget per kind, set by the `Max...` constants of the
MC modules: requests, discoveries, faults (failed calls and crashes), phantoms, stale
reads. Runs are unbounded in everything else; without outside events the loop comes to
rest, so the state space is finite.

| Run | Instance | Checks | Shows |
|---|---|---|---|
| `executor_safety` | 2 projects, 1 slot, 2 discoveries of any subset, 1 fault | `TypeOK`, `RunningWithinParallelism`, `RunningHasJob`, `GaugeAgreesWithStatus`, `ImplementsLifecycle` | a discovery can drop and bring back a project in the middle of its run, a fault can hit any call: the table stays within the limit, every running project has its Job, the gauge never contradicts the status |
| `executor_cache` | 2 projects, 1 request, 1 discovery, 1 phantom, 1 stale read | `PriorityOnlyWhileScheduled`, `PriorityRespected`, `RunningHasJob` | what holds with an untrustworthy cache (each of the three is also proved, for any number of phantoms and stale reads) |
| `executor_stable` | list never shrinks, 3 requests, no faults, late cleanups, expiry | `JobsWithinParallelism`, `OldGenerationsCollected` | under these conditions the README's promise holds for Jobs, too |
| `executor_recovery` | 2 requests, 1 fault, expiry | `RunningResolves`, `ScheduledIsServed` | recovery from a failure at any point |
| `discovery` | cron callback and one UI request, 3 s, 2 faults | `TypeOK`, `ResultNotOlderThanOwn`, `EveryCallerFinishes`, `SuccessIsStored` | two overlapping discoveries |
| `executor_parallelism` | 2 discoveries | `JobsWithinParallelism` **violated** | see finding 1 |
| `executor_phantom` | 1 phantom | `ImplementsTransitionRules` **violated** | see finding 2 |
| `discovery_cleanup` | cron callback, two UI requests | `CleanupDeletesOnlyOlder` **violated** | see finding 3 |
| `scheduler` | 2 RenovateJobs, 3 schedules of which 1 is bad, 2 edits, 1 restart, 2 overlapping runs | `TypeOK`, `NoLeakedCronEntry`, `SettledSchedulesAreKept`, `SchedulesFollowSpec`, `HealthFollowsSpec` | replacing in three sections is sound with one reconciler; a late report of a run is corrected, which rests on the requests of deleted RenovateJobs being repeated |
| `webhook_sync` | 2 Forgejos with 2 repositories each on pages of 1, 3 configurations, 2 overlapping cycles, 1 change of topics, 2 other events | `TypeOK`, `NoDuplicateHooks`, `ForeignHooksUntouched`, `HooksConverge`, `OptedOutReposCleanedUp` | the cycle is self-correcting: what it forgot it adopts, what a shifted page took away comes back; cycles that overlap may create one hook each, and a move may cost a foreign hook (section 4) |
| `ui_access` | 2 tabs, 2 replicas, 4 configurations, 4 visits, 1 other event | `TypeOK`, `NoFalseLoopError`, `SomeLoginGetsThrough`, `AccessIsExact`, `NavigationEnds` | with a shared secret every tab rests for good; without one, only rejected requests of a page that was shown and markers taken by the other tab can keep it moving; all the checks there are amount to one rule |
| `webhook_server` | 1 project, a pull request with a box and a note, a dashboard with a box, 3 platforms, 2 parallel requests, 2 edits, 1 other event | `TypeOK`, `RunsAreAskedFor`, `AcceptedWasAllowed`, `AllowedIsNotRefused`, `TicksAreServed` | only edits that tick or leave a tick, closed and reopened pull requests on Forgejo and calls account for runs; rotation of tokens is smooth; a tick that got through is served |

Why the bounds are enough to be interesting: two projects and one slot already make one
project wait for the other; two discoveries remove a project and bring it back; one fault
can hit every call, and the proofs cover the rest for the properties that are proved. Two
edits delete a RenovateJob and create it again, or change a schedule twice; pages of one
repository make every search a paged one, with a full last page; one change of topics opts a
repository in or out at any point of a cycle; two cycles both find no hook; the first ids the
operator gets at one Forgejo are ids of foreign hooks at the other; two tabs are enough to
overwrite a login, two replicas to meet a foreign key; two requests and a repetition overlap in
every order; a note that is ticked from the start, or while a run serves the box next to it,
makes an edit of the pull request one that leaves a tick (with a second box on the dashboard the
run has a million states, takes up to five minutes and shows nothing else). `LateCleanup` says
whether a cleanup goroutine may still be pending when the next tick begins, ten seconds
later. It has a timeout of 30 s, so it may; with failures and late cleanups together,
finding 3 also reaches executor Jobs, and `RunningHasJob` is therefore checked without
them. Symmetry is used in runs without liveness properties only.

What the bounds hide: `executor_safety` has no requests, so `ImplementsLifecycle` meets them in
the theorem only; `executor_stable` has no faults, so it does not see a cleanup that is lost
with its process (the next Job of the project cleans up after it); `executor_recovery` has no
discovery, and its finite number of requests hides that endless priority requests for one
project can keep another one waiting.

Fairness (`Executor!Fairness`): the executor loop and the cron callback take their next
step (they are loops and straight-line code in live goroutines); a cleanup goroutine runs;
a Job ends, because every Job has `activeDeadlineSeconds` (1800 by default). Nothing is
assumed about requests, discoveries, expiry or faults. `Discovery!Fairness`: a caller
that has begun goes on, cleanups run, Jobs end; nobody has to begin.
`Scheduler!Fairness`: the leader starts its scheduler, the controller handles every request in
its turn (strong fairness per request, because a work queue is first in, first out and the
others come back every minute), an entry fires again and again, a run goes on.
`WebhookSync!Fairness`: the reconciler comes again, the schedule starts a cycle once the earlier
ones are over, each cycle goes on, the watch delivers; nobody has to overlap. `UiAccess!Fairness`: a browser follows its redirects; opening, logging out and
everything else may or may not happen. `WebhookServer!Fairness`: requests are handled and
answered, the executor starts what is scheduled and a run that does not fail ends (which
`executor_recovery` shows); a run serves what it is due to serve, with strong fairness because
its edit waits for a free request of the bounded set. Edits, losses, repetitions and changes of the configuration are never fair.

## 4. Findings

1. **Jobs beyond `spec.parallelism`** (`README.md:44`). A discovery that no longer lists a
   running project drops its entry (`renovateJobManager.go:281`) but not its Job; the
   executor counts entries and starts the next Job.
2. **The informer cache is changed in place** (`renovatejob_types.go:177`). A failed write
   stays visible in the process. The run shows the stored status going from `scheduled` to
   `completed`, against the rule of `projectStatus.go:50`. If an event of the watch discards
   the phantom first, the same cause can put two projects in `running` with one slot.
3. **A cleanup deletes a newer Job.** "This is an old generation - safe to delete"
   (`jobManager.go:132`) is said of every *other* generation. Two discoveries can delete
   each other's Jobs, upon which both fail.

Where a passing run has to make an exception for what the code does, the exception is named in
the property or in the rule it refers to; without it the property fails:

4. **A move deletes hooks of others.** After an edit of the provider endpoint the ids from the
   old Forgejo are handed to a client of the new one (`renovatejob_controller.go:229-237`), and
   the next cycle deletes what has such an id there (`sync.go:128`), whereas "the operator
   deletes the webhook it created" (`docs/webhooks/forgejo.md:105`). `ForeignHooksUntouched` is
   about a sync that stays with one Forgejo.
5. **Overlapping cycles leave a hook behind.** Both may list the hooks of a repository before
   either creates one (`sync.go:152`, `182`). `NoDuplicateHooks` allows one hook per callback
   after an overlap; only one of them is remembered, so that the other one survives the loss of
   the topic and `OptedOutReposCleanedUp` excludes overlaps, against "cleaned up"
   (`docs/webhooks/forgejo.md:105`).
6. **A RenovateJob without groups is visible.** "If neither are set, the job is hidden"
   (`docs/auth.md:129`, `176`, and `renovatejob_types.go:63`), but it is open to every session
   (`ui/renovateController.go:69`, `153`). `IsOpenTo` says so.
7. **Two handlers do not check groups.** Groups "control which users can view and manage
   specific RenovateJobs" (`docs/auth.md:121`), but running all projects
   (`ui/renovateController.go:416-452`) and setting the execution options (`529-561`) take any
   session. `AccessIsExact` states the exception as `UncheckedRoutes`.
8. **Edits that leave a tick start runs.** The filters look at the text as it is, for any ticked
   item (`renovateCheckbox.go:46`): a change of title, an edit elsewhere in the text or an edit of
   Renovate itself starts a run if something is ticked, be it a quoted list, against "additional
   filtering to prevent false triggers from these non-body mutations"
   (`docs/webhooks/forgejo.md:121`). `RunsAreAskedFor` counts them as `LeavesTick`; with
   `AsksForRun` alone it is violated.
9. **A bare `X-Forgejo-Signature` is refused.** `forgejo.go:29-30` and `server.go:143` admit the
   header, but `computeHMAC256` always begins with "sha256=" (`renovateJobManager.go:429`).
   Forgejo also sends `X-Hub-Signature-256`, with the prefix, which the server reads first; a
   sender that has the bare header only is refused. `AllowedIsNotRefused` is about the prefixed
   form.

Without a shared secret, the page may be shown by one replica and its request rejected by
another, which begins a login anew, without end (`auth.go:136-151`, `index.html:479-480`). The
loop detection does not see it, because showing the page clears the marker. The documentation
asks for the secret in that case, so this is no finding; `NavigationEnds` names it (`PageLost`).

Also seen while modelling:

* The comment "update all projects to scheduled" (`ui/renovateController.go:513`) stands over
  `ReconcileProjects`, which schedules new projects only.
* The check below "discovery mus only run once" (`ui/renovateController.go:478`) is not atomic
  with the creation: two requests can both pass it.
* After an edit of the webhook URL the hooks with the old URL are neither updated nor removed:
  the next cycle remembers the new hook of each repository instead (`sync.go:188`).
* A request for a running project is answered with "renovate job scheduled" and dropped
  (`projectStatus.go:28`); the tick waits for the next run.
* A group prefix written with capitals matches nothing, because names are in lower case when
  they are compared (`group_validation.go:132`).
* A logout does not clear the marker of a completed login, so a page opened right after one
  may report an authentication loop (`auth.go:116`, `255`).
* The failure gauge can contradict the status after *two* failed writes that stay in the cache:
  a phantom shows a project as running again that has ended, and its second visit sets the
  gauge anew (`executor.go:223`). This came up in the proof of `GaugesAgree`, which therefore
  assumes that there are no phantoms; with one phantom TLC finds nothing.

## 5. Proofs

Every safety property that a passing run checks is also a theorem, for every value of the
constants: any finite set of projects, callers, tabs or repositories, any parallelism, any
budget of outside events. Each module states what it takes for granted of its constants in
one named assumption (`ConstantsAssumption`, `DiscoveryAssumption`, ...); these say no more
than that sets are finite, numbers are numbers and markers such as "no schedule" are not
values. The assumptions in the last column are hypotheses of the single theorem.

| Theorem | States | Assumes besides |
|---|---|---|
| **`ExecutorProofs`** | | |
| `TypeCorrect` | `TypeOK` | - |
| `ParallelismLimit` | `RunningWithinParallelism` | no stale reads, no phantoms |
| `PriorityConsumed` | `PriorityOnlyWhileScheduled` | - |
| `LifecycleImplemented` | `ImplementsLifecycle` | no stale reads, no phantoms |
| `TransitionRulesImplemented` | `ImplementsTransitionRules` | no phantoms |
| **`ExecutorTickProofs`** | | |
| `PrioritiesAreRespected` | `PriorityRespected` | - |
| `RunningProjectsHaveJobs` | `RunningHasJob` | Jobs do not expire, cleanups end before the next tick |
| `GaugesAgree` | `GaugeAgreesWithStatus` | no phantoms |
| `ActiveJobsWithinParallelism` | `JobsWithinParallelism` | no faults, stale reads or phantoms; discoveries find every project |
| **`DiscoveryProofs`** | | |
| `DiscoveryTypeCorrect` | `TypeOK` | - |
| `ResultsAreNotOlder` | `ResultNotOlderThanOwn` | - |
| `PromptCleanupIsSafe` | `PromptCleanupDeletesOnlyOlder` | - |
| **`SchedulerProofs`** | | |
| `SchedulerTypeCorrect`, `RegistryIsConsistent` | `TypeOK`, `RegistryInv` | - |
| `NothingLeaks` | `NoLeakedCronEntry` | - |
| `SettledSchedulesStay` | `SettledSchedulesAreKept` | - |
| **`WebhookSyncProofs`** | | |
| `SyncTypeCorrect`, `HooksAreKept` | `TypeOK` with `CyclesInv` and `OverlapInv`, `HooksInv` | - |
| `NoDuplicates` | `NoDuplicateHooks` | - |
| `ForeignHooksStay` | `ForeignHooksUntouched` | - |
| **`UiAccessProofs`** | | |
| `UiTypeCorrect` | `TypeOK` | - |
| `AccessExact` | `AccessIsExact` | - |
| `LoopErrorIsDeserved` | `NoFalseLoopError` | - |
| `SomeLoginSucceeds` | `SomeLoginGetsThrough` | - |
| **`WebhookServerProofs`** | | |
| `WebhookTypeCorrect`, `StagesAreJustified`, `CreditCovers` | `TypeOK`, `StageInv`, `CreditInv` | - |
| `AcceptedAreAllowed` | `AcceptedWasAllowed` | - |
| `AllowedAreNotRefused` | `AllowedIsNotRefused` | - |
| `RunsWereAskedFor` | `RunsAreAskedFor` | - |

Apart from types, none of these properties is inductive as it stands. The inductive invariants, each of which
TLC checked before it was proved:

*The limit.* In the middle of a tick the executor may start a project because its counter is
low, and nothing in `RunningWithinParallelism` ties the counter to the table. `SlotInvariant`
does: with `Slots` the running projects between two ticks and the counted ones within a tick,
every running project is in `Slots`, and `Slots` is within the limit. Other writers only
shrink the set of running projects; recording an outcome removes a project from both sides,
which needs that the outcome is not "running" (`found` ended); a start first takes a slot and
then shows in the table; the end of a tick, also by an error, falls back to the table. The two
assumptions say that the informer cache follows the API server. Without them the limit is
really lost.

*The consumed priority.* The strengthening says the same of the cache: with a phantom in it,
the next write starts from the cached table.

*Refinement.* `StoreSteps` shows that every step writes the table through one operation of
the manager, applied to the stored table unless a phantom is in the cache; `StatusSteps`
translates these to steps of `ProjectLifecycle`; `SlotForStart` takes the limit from
`SlotInvariant`. `TransitionRulesImplemented` needs no limit and allows outdated reads: the
conflict detection protects the rules, not the count. `executor_phantom` shows that its
assumption cannot be dropped.

*The respected priority.* `OrderInvariant`: in pass 2 no started project comes after one with a
higher priority that is still to do, and a scheduled project is started or still to do. It
speaks of the list as it was sorted, so it does not care what the cache shows.

*The Job behind a running project.* `JobInvariant` says of the stored *and* of the cached table
that what they show as running has its newest Job, because a phantom may become the next
stored table; that a pending cleanup spares the newest generation; and that a Job is deleted
for its success only when no table shows its project as running. Both assumptions are needed:
an expired Job, or a cleanup of an earlier tick, takes the Job away.

*The gauge.* `GaugeInvariant` adds that no table a tick may read shows a project as running
that the stored one shows as ended. Outdated reads respect that, because only the executor ends
runs and its own writes show in its cache, which shares the list. Phantoms break it (section 4).

*Active Jobs.* Under the assumptions `Slots` is exact (`ExactSlots`), every active Job is the
newest of a project in a slot (`ActiveInvariant`), and `j.project` maps the active Jobs
one-to-one into `Slots`. `executor_parallelism` shows that a discovery that drops a project
refutes the conclusion.

*Discovery.* Types need that no Job carries a second that has not come yet
(`GenerationsArePast`); the same fact confines finding 3 to cleanups that run late.

*The scheduler.* `RegistryInv`: both sides list the same entries, ids are fresh, and what the
reconciler saw before it gave up the lock still holds when it takes it again, since it is the
only one that changes the map. The last part makes the three locked sections one replacement.

*The hooks.* `HooksInv` has two parts. `CountInv`: the hooks of the operator for a repository
and a URL, *plus the cycles that are about to create one*, are at most one before an overlap and
at most `MaxCycles` after it. The lookup and the creation are separate steps; a cycle enters
the count only when it sees no hook, and then the cycles are all there is to count.
`OwnershipInv`: ids are given out once, and until the first move every place that remembers
ids - annotation, cached annotation, every syncer, every copy a cycle works with - remembers
ids above those of foreign hooks, and every syncer talks to the same Forgejo.

*Sign-in.* `LoginInvariant`: with a shared secret every key is the shared one, a tab on its way
to completion carries a session, and before a logout or an expiry the marker and an open page
are evidence of a readable session. `SomeLoginIsOnItsWay` names the login that will get
through: one that has not begun, the one whose state is in the cookie, or one past its
callback; every step that ends one such login puts another in its place or yields a session.

*Access.* A session holds what the layers made of its claims (`SessionsAreValidated`);
`LayersAreExact` shows that the three layers together establish exactly the ids of the rule,
`ChecksAreTheRule` that either check amounts to comparing ids. The two routes without a check
are part of the statement.

*The webhook server.* `StageInv` justifies the stage of each request by what held since it was
sent; `CreditInv` counts the requests under way that may start a run (`MayStartRun`) together
with what is scheduled, bounds them by the credit of their project, and says that a request
which is not counted does not pass the filters, whoever made the edit and whatever else is
ticked in the text.

Only model-checked: the liveness properties (`RunningResolves`, `ScheduledIsServed`,
`OldGenerationsCollected`, `EveryCallerFinishes`, `SuccessIsStored`, `SchedulesFollowSpec`,
`HealthFollowsSpec`, `HooksConverge`, `OptedOutReposCleanedUp`, `NavigationEnds`,
`TicksAreServed`), because fairness and ENABLED are out of the prover's reach.

## 6. Not modelled

* Git provider clients and the fork filter: single HTTP calls and a pure filter; discovered
  lists are arbitrary in `Executor`, which covers every result of it.
* Job templates (images, environment, volumes), log parsing, HTTP views and process wiring, in
  which no step depends on what happened before.
* Cryptography: a session or signature is represented by its key.
* `UpdateExecutionOptions`, `UpdateProjectConfigStatus`, the executions counter and
  `dependency_issues`: no decision of the operator reads what they write.
* Job names: `Executor` assumes that two projects do not normalise to the same name.
* The unsynchronised sort of the shared list and the unsynchronised maps of locks and of
  syncers are not expressible at this level of abstraction (hazards with a note).

## 7. Plan

Done: the core (`ProjectStatus`, `RenovateJobManager`, `JobManager`, `MetricStore`, `Executor`,
`ProjectLifecycle`, `Discovery`), then `Scheduler`, `WebhookSync`, `GroupValidation`, `UiAccess`
and `WebhookServer` with their runs, then a theorem for every safety property of the runs.

Next: safety cores of the liveness properties (what never gets worse on the way to
`HooksConverge` and `SchedulesFollowSpec`), and theorems that say how much of
`RunningWithinParallelism` is left with stale reads.
